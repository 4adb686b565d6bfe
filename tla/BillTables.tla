----------------------------- MODULE BillTables -----------------------------
(***************************************************************************)
(* The three tables that hold the bills: bt_bill_definitions,              *)
(* bt_bill_instances and bt_vendor_connections, with their constraints     *)
(* (internal/db/migrations/00001_initial_schema.sql), and the SQL          *)
(* statements the stores of internal/models run on them.  One operator is  *)
(* one statement, hence one atomic step; the processes that issue the      *)
(* statements, and may interleave between any two of them, are in Bills.   *)
(***************************************************************************)
EXTENDS Integers

CONSTANTS
    Names,      \* bill names (not unique in the schema)
    Schedules,  \* monthly, quarterly and one-off schedules, kept opaque
    Vendor,     \* schedule_type 'vendor': the due date comes from a connector
    Occ,        \* Occ[s]: the days schedule s falls on (module DueDates)
    Amounts,    \* amounts in cents
    None,       \* no row
    MaxDefs,    \* bound: definitions ever created
    MaxInsts,   \* bound: instances ever created
    LastDay     \* bound: the last day a due date can be

AnySchedule == Schedules \cup {Vendor}
Days        == 0..LastDay
DefIds      == 1..MaxDefs
InstIds     == 1..MaxInsts

Definition == [name : Names, sched : AnySchedule, amt : Amounts, managed : BOOLEAN]
Instance   == [def : DefIds, due : Days, paid : BOOLEAN]
\* last_synced_at: NULL, within VendorRefreshIntervalMinutes, or older
Connection == [synced : {"never", "fresh", "stale"}, err : BOOLEAN]

ASSUME TablesAssumption ==
    /\ MaxDefs \in Nat /\ MaxInsts \in Nat /\ LastDay \in Nat
    /\ Vendor \notin Schedules
    /\ Occ \in [Schedules -> SUBSET Nat]
    /\ Amounts \subseteq Int /\ Amounts # {}
    /\ None \notin Definition \cup Instance \cup Connection

VARIABLES
    defs,       \* bt_bill_definitions, by id
    nextDef,    \* its SERIAL sequence: the next id, never handed out twice
    insts,      \* bt_bill_instances, by id
    nextInst,   \* its SERIAL sequence
    conns       \* bt_vendor_connections, by bill_definition_id (UNIQUE)

tables == <<defs, nextDef, insts, nextInst, conns>>

TablesTypeOK ==
    /\ defs \in [DefIds -> Definition \cup {None}]
    /\ nextDef \in 1..(MaxDefs + 1)
    /\ insts \in [InstIds -> Instance \cup {None}]
    /\ nextInst \in 1..(MaxInsts + 1)
    /\ conns \in [DefIds -> Connection \cup {None}]

TablesInit ==
    /\ defs = [i \in DefIds |-> None]
    /\ nextDef = 1
    /\ insts = [k \in InstIds |-> None]
    /\ nextInst = 1
    /\ conns = [i \in DefIds |-> None]

-----------------------------------------------------------------------------
(* BillDefinitionStore *)

\* SELECT ... WHERE name = $1: no ORDER BY and no unique name, so any of them
GetByName(n) == {i \in DefIds : defs[i] # None /\ defs[i].name = n}

Create(d) ==
    /\ nextDef <= MaxDefs
    /\ defs' = [defs EXCEPT ![nextDef] = d]
    /\ nextDef' = nextDef + 1
    /\ UNCHANGED <<insts, nextInst, conns>>

\* UPDATE ... WHERE id = $1 touches no row, and reports no error, if i is gone
Update(i, n, s, a) ==
    /\ defs' = IF defs[i] = None THEN defs
               ELSE [defs EXCEPT ![i] = [name |-> n, sched |-> s, amt |-> a,
                                         managed |-> defs[i].managed]]
    /\ UNCHANGED <<nextDef, insts, nextInst, conns>>

\* every field but the name, which is what the row was found by
UpdateBootstrap(i, s, a) == Update(i, defs[i].name, s, a)

UpdateAmount(i, a) ==
    /\ defs' = IF defs[i] = None THEN defs
               ELSE [defs EXCEPT ![i] = [name |-> defs[i].name, sched |-> defs[i].sched,
                                         amt |-> a, managed |-> defs[i].managed]]
    /\ UNCHANGED <<nextDef, insts, nextInst, conns>>

\* wrong: no cascade to the instances
DeleteNoCascade(i) ==
    /\ defs' = [defs EXCEPT ![i] = None]
    /\ conns' = [conns EXCEPT ![i] = None]
    /\ UNCHANGED <<nextDef, insts, nextInst>>

\* ON DELETE CASCADE takes the instances and the vendor connection along
Delete(i) ==
    /\ defs' = [defs EXCEPT ![i] = None]
    /\ insts' = [k \in InstIds |->
                   IF insts[k] # None /\ insts[k].def = i THEN None ELSE insts[k]]
    /\ conns' = [conns EXCEPT ![i] = None]
    /\ UNCHANGED <<nextDef, nextInst>>

-----------------------------------------------------------------------------
(* BillInstanceStore *)

Has(i, d) == \E k \in InstIds : insts[k] # None /\ insts[k].def = i /\ insts[k].due = d

(* Wrong versions of EnsureInstance, for the mutation runs: no foreign key, no  *)
(* unique constraint, a conflict that resets the row, ids used again.           *)
EnsureInstanceNoForeignKey(i, d) ==
    /\ ~Has(i, d)
    /\ nextInst <= MaxInsts
    /\ insts' = [insts EXCEPT ![nextInst] = [def |-> i, due |-> d, paid |-> FALSE]]
    /\ nextInst' = nextInst + 1
    /\ UNCHANGED <<defs, nextDef, conns>>

EnsureInstanceNotUnique(i, d) ==
    /\ defs[i] # None
    /\ nextInst <= MaxInsts
    /\ insts' = [insts EXCEPT ![nextInst] = [def |-> i, due |-> d, paid |-> FALSE]]
    /\ nextInst' = nextInst + 1
    /\ UNCHANGED <<defs, nextDef, conns>>

EnsureInstanceReset(i, d) ==
    /\ defs[i] # None
    /\ \/ /\ Has(i, d)
          /\ insts' = [k \in InstIds |->
                         IF insts[k] # None /\ insts[k].def = i /\ insts[k].due = d
                         THEN [def |-> i, due |-> d, paid |-> FALSE] ELSE insts[k]]
          /\ UNCHANGED nextInst
       \/ /\ ~Has(i, d)
          /\ nextInst <= MaxInsts
          /\ insts' = [insts EXCEPT ![nextInst] = [def |-> i, due |-> d, paid |-> FALSE]]
          /\ nextInst' = nextInst + 1
    /\ UNCHANGED <<defs, nextDef, conns>>

EnsureInstanceReusesIds(i, d) ==
    /\ defs[i] # None
    /\ ~Has(i, d)
    /\ \E k \in InstIds :
         /\ insts[k] = None
         /\ insts' = [insts EXCEPT ![k] = [def |-> i, due |-> d, paid |-> FALSE]]
    /\ UNCHANGED <<defs, nextDef, nextInst, conns>>

\* UNIQUE (bill_definition_id, due_date) with ON CONFLICT DO NOTHING; the
\* foreign key rejects the row of a definition that is gone (the statement is
\* then not enabled, and the caller takes its error path)
EnsureInstance(i, d) ==
    /\ defs[i] # None
    /\ \/ /\ Has(i, d)
          /\ UNCHANGED <<insts, nextInst>>
       \/ /\ ~Has(i, d)
          /\ nextInst <= MaxInsts
          /\ insts' = [insts EXCEPT ![nextInst] = [def |-> i, due |-> d, paid |-> FALSE]]
          /\ nextInst' = nextInst + 1
    /\ UNCHANGED <<defs, nextDef, conns>>

\* no row with that id is an error and changes nothing
MarkPaid(k) ==
    /\ insts[k] # None
    /\ insts' = [insts EXCEPT ![k] = [def |-> insts[k].def, due |-> insts[k].due,
                                      paid |-> TRUE]]
    /\ UNCHANGED <<defs, nextDef, nextInst, conns>>

-----------------------------------------------------------------------------
(* VendorConnectionStore *)

\* INSERT ... ON CONFLICT (bill_definition_id) DO UPDATE leaves last_synced_at
\* and last_sync_error of an existing row alone
Upsert(i) ==
    /\ defs[i] # None
    /\ conns' = IF conns[i] # None THEN conns
                ELSE [conns EXCEPT ![i] = [synced |-> "never", err |-> FALSE]]
    /\ UNCHANGED <<defs, nextDef, insts, nextInst>>

\* last_synced_at = now() whether the sync worked or failed
MarkSynced(i, e) ==
    /\ conns' = IF conns[i] = None THEN conns
                ELSE [conns EXCEPT ![i] = [synced |-> "fresh", err |-> e]]
    /\ UNCHANGED <<defs, nextDef, insts, nextInst>>

=============================================================================
