----------------------------- MODULE BillsProofs -----------------------------
(***************************************************************************)
(* Proofs about Bills, for every number of definitions, instances,         *)
(* requests and days and every contents of bills.json: IndInv is an        *)
(* inductive invariant, and the properties of states and steps follow.     *)
(***************************************************************************)
EXTENDS Bills, TLAPS

USE TablesAssumption, BillsAssumption DEF TablesAssumption, BillsAssumption

\* The part of the invariant that the tables alone carry.
TablesInv == FreshIds /\ NoOrphans /\ OneInstancePerOccurrence /\ ConnsManaged

-----------------------------------------------------------------------------
(* The statements *)

\* Inserting a definition under a fresh id keeps the tables sound.
LEMMA CreateSound ==
    ASSUME TablesTypeOK, TablesInv, NEW d \in Definition, Create(d)
    PROVE  TablesTypeOK' /\ TablesInv'
<1>1. TablesTypeOK'
  BY DEF TablesTypeOK, Create, DefIds, InstIds
<1>2. FreshIds'
  BY DEF TablesTypeOK, TablesInv, FreshIds, Create, DefIds, InstIds
<1>3. NoOrphans'
  BY DEF TablesTypeOK, TablesInv, FreshIds, NoOrphans, Create, DefIds, InstIds
<1>4. OneInstancePerOccurrence'
  BY DEF TablesInv, OneInstancePerOccurrence, Create
<1>5. ConnsManaged'
  BY DEF TablesTypeOK, TablesInv, FreshIds, ConnsManaged, Create, DefIds
<1> QED BY <1>1, <1>2, <1>3, <1>4, <1>5 DEF TablesInv

\* Changing the fields of a definition other than the managed flag does, too.
LEMMA UpdateSound ==
    ASSUME TablesTypeOK, TablesInv,
           NEW i \in DefIds, NEW n \in Names, NEW s \in AnySchedule, NEW a \in Amounts,
           Update(i, n, s, a)
    PROVE  TablesTypeOK' /\ TablesInv'
<1>1. TablesTypeOK'
  BY DEF TablesTypeOK, Update, Definition
<1>2. \A j \in DefIds : /\ defs'[j] = None <=> defs[j] = None
                        /\ defs[j] # None => defs'[j].managed = defs[j].managed
  BY DEF TablesTypeOK, Update, Definition
<1>3. FreshIds' /\ NoOrphans' /\ OneInstancePerOccurrence' /\ ConnsManaged'
  BY <1>2 DEF TablesTypeOK, TablesInv, FreshIds, NoOrphans, OneInstancePerOccurrence,
              ConnsManaged, Update, Instance
<1> QED BY <1>1, <1>3 DEF TablesInv

\* So does changing the amount.
LEMMA UpdateAmountSound ==
    ASSUME TablesTypeOK, TablesInv, NEW i \in DefIds, NEW a \in Amounts, UpdateAmount(i, a)
    PROVE  TablesTypeOK' /\ TablesInv'
<1>1. TablesTypeOK'
  BY DEF TablesTypeOK, UpdateAmount, Definition
<1>2. \A j \in DefIds : /\ defs'[j] = None <=> defs[j] = None
                        /\ defs[j] # None => defs'[j].managed = defs[j].managed
  BY DEF TablesTypeOK, UpdateAmount, Definition
<1>3. FreshIds' /\ NoOrphans' /\ OneInstancePerOccurrence' /\ ConnsManaged'
  BY <1>2 DEF TablesTypeOK, TablesInv, FreshIds, NoOrphans, OneInstancePerOccurrence,
              ConnsManaged, UpdateAmount, Instance
<1> QED BY <1>1, <1>3 DEF TablesInv

\* A delete with its cascade leaves no orphan behind.
LEMMA DeleteSound ==
    ASSUME TablesTypeOK, TablesInv, NEW i \in DefIds, Delete(i)
    PROVE  TablesTypeOK' /\ TablesInv'
<1>1. TablesTypeOK'
  BY DEF TablesTypeOK, Delete
<1>2. FreshIds'
  BY DEF TablesTypeOK, TablesInv, FreshIds, Delete
<1>3. NoOrphans'
  BY DEF TablesTypeOK, TablesInv, NoOrphans, Delete, Instance
<1>4. OneInstancePerOccurrence'
  BY DEF TablesTypeOK, TablesInv, OneInstancePerOccurrence, Delete
<1>5. ConnsManaged'
  BY DEF TablesTypeOK, TablesInv, ConnsManaged, Delete
<1> QED BY <1>1, <1>2, <1>3, <1>4, <1>5 DEF TablesInv

\* EnsureInstance inserts at most one row, under a fresh id, for a live bill.
LEMMA EnsureInstanceSound ==
    ASSUME TablesTypeOK, TablesInv, NEW i \in DefIds, NEW d \in Days, EnsureInstance(i, d)
    PROVE  TablesTypeOK' /\ TablesInv'
<1>1. CASE Has(i, d) /\ UNCHANGED tables
  BY <1>1 DEF TablesTypeOK, TablesInv, FreshIds, NoOrphans, OneInstancePerOccurrence,
              ConnsManaged, tables
<1>2. CASE /\ ~Has(i, d) /\ nextInst <= MaxInsts
           /\ insts' = [insts EXCEPT ![nextInst] = [def |-> i, due |-> d, paid |-> FALSE]]
           /\ nextInst' = nextInst + 1
  <2> USE <1>2
  <2> defs[i] # None /\ UNCHANGED <<defs, nextDef, conns>>
    BY DEF EnsureInstance
  <2>0. nextInst \in InstIds
    BY DEF TablesTypeOK, InstIds
  <2>1. TablesTypeOK'
    BY <2>0 DEF TablesTypeOK, InstIds, Instance
  <2>2. FreshIds'
    BY <2>0 DEF TablesTypeOK, TablesInv, FreshIds, InstIds, DefIds
  <2>3. NoOrphans'
    BY <2>0 DEF TablesTypeOK, TablesInv, NoOrphans
  <2>4. OneInstancePerOccurrence'
    BY <2>0 DEF TablesTypeOK, TablesInv, OneInstancePerOccurrence, Has
  <2>5. ConnsManaged'
    BY DEF TablesInv, ConnsManaged
  <2> QED BY <2>1, <2>2, <2>3, <2>4, <2>5 DEF TablesInv
<1> QED BY <1>1, <1>2 DEF EnsureInstance, tables

\* MarkPaid changes nothing but the flag.
LEMMA MarkPaidSound ==
    ASSUME TablesTypeOK, TablesInv, NEW k \in InstIds, MarkPaid(k)
    PROVE  TablesTypeOK' /\ TablesInv'
<1>1. TablesTypeOK'
  BY DEF TablesTypeOK, MarkPaid, Instance
<1>a. insts[k] \in Instance /\ [def |-> insts[k].def, due |-> insts[k].due, paid |-> TRUE] \in Instance
  BY DEF TablesTypeOK, MarkPaid, Instance
<1>2. \A l \in InstIds : /\ insts'[l] = None <=> insts[l] = None
                         /\ insts[l] # None => /\ insts'[l].def = insts[l].def
                                               /\ insts'[l].due = insts[l].due
  BY <1>a DEF TablesTypeOK, MarkPaid
<1>3. FreshIds' /\ NoOrphans' /\ ConnsManaged'
  BY <1>2 DEF TablesTypeOK, TablesInv, FreshIds, NoOrphans, ConnsManaged, MarkPaid
<1>4. OneInstancePerOccurrence'
  BY <1>2 DEF TablesTypeOK, TablesInv, OneInstancePerOccurrence
<1> QED BY <1>1, <1>3, <1>4 DEF TablesInv

\* A vendor connection is attached to a managed definition that exists.
LEMMA UpsertSound ==
    ASSUME TablesTypeOK, TablesInv, NEW i \in DefIds, defs[i] # None, defs[i].managed,
           Upsert(i)
    PROVE  TablesTypeOK' /\ TablesInv'
<1>1. TablesTypeOK'
  BY DEF TablesTypeOK, Upsert, Connection
<1>2. FreshIds' /\ NoOrphans' /\ OneInstancePerOccurrence' /\ ConnsManaged'
  BY DEF TablesTypeOK, TablesInv, FreshIds, NoOrphans, OneInstancePerOccurrence,
         ConnsManaged, Upsert
<1> QED BY <1>1, <1>2 DEF TablesInv

\* MarkSynced creates no row.
LEMMA MarkSyncedSound ==
    ASSUME TablesTypeOK, TablesInv, NEW i \in DefIds, NEW e \in BOOLEAN, MarkSynced(i, e)
    PROVE  TablesTypeOK' /\ TablesInv'
<1>1. TablesTypeOK'
  BY DEF TablesTypeOK, MarkSynced, Connection
<1>2. FreshIds' /\ NoOrphans' /\ OneInstancePerOccurrence' /\ ConnsManaged'
  BY DEF TablesTypeOK, TablesInv, FreshIds, NoOrphans, OneInstancePerOccurrence,
         ConnsManaged, MarkSynced, Connection
<1> QED BY <1>1, <1>2 DEF TablesInv

-----------------------------------------------------------------------------
(* Jobs *)

\* A statement that fails changes no row.
LEMMA UnchangedSound ==
    ASSUME TablesTypeOK, TablesInv, UNCHANGED tables
    PROVE  TablesTypeOK' /\ TablesInv'
BY DEF TablesTypeOK, TablesInv, FreshIds, NoOrphans, OneInstancePerOccurrence,
       ConnsManaged, tables

\* What EnsureInstance may change: the row under the next id, to (i, d).
LEMMA EnsureInstanceEffect ==
    ASSUME TablesTypeOK, NEW i \in DefIds, NEW d \in Days,
           EnsureInstance(i, d) \/ UNCHANGED tables
    PROVE  /\ UNCHANGED <<defs, nextDef, conns>>
           /\ nextInst' >= nextInst
           /\ \A k \in InstIds : k < nextInst => insts'[k] = insts[k]
           /\ \A k \in InstIds : \/ insts'[k] = insts[k]
                                 \/ /\ defs[i] # None
                                    /\ insts'[k] = [def |-> i, due |-> d, paid |-> FALSE]
<1>1. CASE UNCHANGED tables
  BY <1>1 DEF TablesTypeOK, tables
<1>2. CASE EnsureInstance(i, d) /\ UNCHANGED <<insts, nextInst>>
  BY <1>2 DEF TablesTypeOK, EnsureInstance
<1>3. CASE /\ defs[i] # None /\ UNCHANGED <<defs, nextDef, conns>>
           /\ nextInst <= MaxInsts
           /\ insts' = [insts EXCEPT ![nextInst] = [def |-> i, due |-> d, paid |-> FALSE]]
           /\ nextInst' = nextInst + 1
  BY <1>3 DEF TablesTypeOK, InstIds
<1> QED BY <1>1, <1>2, <1>3 DEF EnsureInstance

\* What UpdateAmount leaves alone.
LEMMA UpdateAmountEffect ==
    ASSUME TablesTypeOK, NEW i \in DefIds, NEW a \in Amounts,
           UpdateAmount(i, a) \/ UNCHANGED tables
    PROVE  /\ UNCHANGED <<nextDef, insts, nextInst, conns>>
           /\ \A j \in DefIds : /\ defs'[j] = None <=> defs[j] = None
                                /\ defs[j] # None => /\ defs'[j].managed = defs[j].managed
                                                     /\ defs'[j].sched = defs[j].sched
                                                     /\ defs'[j].name = defs[j].name
BY DEF TablesTypeOK, UpdateAmount, tables, Definition

\* What MarkSynced leaves alone.
LEMMA MarkSyncedEffect ==
    ASSUME TablesTypeOK, NEW i \in DefIds, NEW e \in BOOLEAN,
           MarkSynced(i, e) \/ UNCHANGED tables
    PROVE  /\ UNCHANGED <<defs, nextDef, insts, nextInst>>
           /\ \A j \in DefIds : conns'[j] = None <=> conns[j] = None
BY DEF TablesTypeOK, MarkSynced, tables, Connection

\* What Create leaves alone: every id handed out before.
LEMMA CreateEffect ==
    ASSUME TablesTypeOK, NEW d \in Definition, Create(d)
    PROVE  /\ nextDef \in DefIds /\ nextDef' = nextDef + 1 /\ nextDef \in Int
           /\ UNCHANGED <<insts, nextInst, conns>>
           /\ defs'[nextDef] = d /\ d # None
           /\ \A j \in DefIds : j # nextDef => defs'[j] = defs[j]
BY DEF TablesTypeOK, Create, DefIds

\* What Update leaves alone.
LEMMA UpdateEffect ==
    ASSUME TablesTypeOK, NEW i \in DefIds, NEW n \in Names, NEW s \in AnySchedule,
           NEW a \in Amounts, Update(i, n, s, a)
    PROVE  /\ UNCHANGED <<nextDef, insts, nextInst, conns>>
           /\ \A j \in DefIds : /\ defs'[j] = None <=> defs[j] = None
                                /\ defs[j] # None => defs'[j].managed = defs[j].managed
                                /\ j # i => defs'[j] = defs[j]
           /\ defs[i] # None => defs'[i].sched = s
BY DEF TablesTypeOK, Update, Definition

\* What Delete removes.
LEMMA DeleteEffect ==
    ASSUME TablesTypeOK, NEW i \in DefIds, Delete(i)
    PROVE  /\ UNCHANGED <<nextDef, nextInst>>
           /\ defs'[i] = None /\ conns'[i] = None
           /\ \A j \in DefIds : j # i => defs'[j] = defs[j] /\ conns'[j] = conns[j]
           /\ \A k \in InstIds : /\ insts'[k] # None => insts'[k] = insts[k] /\ insts[k].def # i
                                 /\ insts[k] # None /\ insts[k].def # i => insts'[k] = insts[k]
BY DEF TablesTypeOK, Delete

\* The definition a busy process works on has a proper id.
LEMMA JobIds ==
    ASSUME TypeOK, CopiesSound, NEW a \in Actors, job[a].pc \notin {"idle", "remove"}
    PROVE  job[a].id \in DefIds /\ job[a] \in Job
BY DEF TypeOK, CopiesSound, JobSound, TablesTypeOK, DefIds

\* What a process relies on survives the statements of the others: no id is used
\* again, no managed flag changes, schedules are only added to the history.
LEMMA JobSoundKept ==
    ASSUME TypeOK, nextDef' \in Int, NEW b \in Actors, JobSound(b), job'[b] = job[b],
           nextDef' >= nextDef,
           job[b].pc \notin {"idle", "remove"} =>
             /\ defs'[job[b].id] # None =>
                   defs[job[b].id] # None /\ defs'[job[b].id].managed = defs[job[b].id].managed
             /\ had[job[b].id] \subseteq had'[job[b].id],
           job[b].pc \in RefreshPcs => conns'[job[b].id] # None,
           job[b].pc = "attach" => defs'[job[b].id] # None
    PROVE  JobSound(b)'
<1>1. nextDef \in Int
  BY DEF TypeOK, TablesTypeOK
<1>2. job[b].pc \notin {"idle", "remove"} => job'[b].id \in 1..(nextDef' - 1)
  BY <1>1 DEF JobSound
<1> QED BY <1>2 DEF JobSound, RefreshPcs

\* The filler amount is an amount.
LEMMA AnAmountType == AnAmount \in Amounts
BY DEF AnAmount

\* The idle job is a job.
LEMMA IdleType == Idle \in Job /\ Idle.pc = "idle"
BY AnAmountType DEF Idle, Job, Pcs, Days

\* At builds a job that is at the given place, for the given definition.
LEMMA AtType ==
    ASSUME NEW pc \in Pcs, NEW i \in DefIds
    PROVE  At(pc, i) \in Job /\ At(pc, i).pc = pc /\ At(pc, i).id = i
BY AnAmountType DEF At, Job, Days

\* The dates a generator works through lie in the window and on its schedule.
LEMMA GenerateJobType ==
    ASSUME NEW i \in DefIds, NEW s \in AnySchedule, day \in 0..MaxDay
    PROVE  /\ GenerateJob(i, s) \in Job
           /\ GenerateJob(i, s).pc = "generate"
           /\ GenerateJob(i, s).id = i
           /\ \A d \in GenerateJob(i, s).dates : s # Vendor /\ d \in Occ[s]
<1>1. NextDueDates(s, day, day + Lookahead) \subseteq Days
  BY DEF NextDueDates, AnySchedule, Days
<1>2. \A d \in NextDueDates(s, day, day + Lookahead) : s # Vendor /\ d \in Occ[s]
  BY DEF NextDueDates
<1>3. GenerateJob(i, s) = [pc |-> "generate", id |-> i,
                           dates |-> NextDueDates(s, day, day + Lookahead),
                           amt |-> AnAmount, due |-> 0]
  BY DEF GenerateJob, At
<1> QED BY <1>1, <1>2, <1>3, AnAmountType DEF Job, Pcs, Days

-----------------------------------------------------------------------------
(* The actions: each preserves IndInv *)

\* main reads bills.json.
LEMMA StartInv ==
    ASSUME IndInv, Start
    PROVE  IndInv'
<1> TypeOK /\ TablesInv /\ Phases /\ CopiesSound /\ HeldSound /\ EveryInstanceExplained
  BY DEF IndInv, TablesInv
<1>1. TablesTypeOK' /\ TablesInv'
  BY UnchangedSound DEF TypeOK, Start
<1>2. TypeOK'
  <2>1. failed' \in BOOLEAN
    BY DEF Start
  <2>3. pos' \in Nat \ {0} /\ seen' \subseteq Names /\ doomed' \subseteq DefIds
    BY DEF Start
  <2>2. file' \in Files \cup {NoFile} /\ phase' \in {"down", "boot", "run"}
    BY DEF Start
  <2> QED BY <1>1, <2>1, <2>2, <2>3 DEF TypeOK, Start
<1>3. Phases'
  BY DEF Phases, TypeOK, Start, Actors, Boot, Gen, Ven, RefreshPcs
<1>4. CopiesSound'
  BY DEF CopiesSound, JobSound, ListsSound, Phases, TypeOK, Start, tables, RefreshPcs
<1>5. HeldSound'
  BY DEF HeldSound, Start, tables
<1>6. EveryInstanceExplained'
  BY DEF EveryInstanceExplained, Explained, Start, tables
<1> QED BY <1>1, <1>2, <1>3, <1>4, <1>5, <1>6 DEF IndInv, TablesInv

\* The process stops and forgets its jobs.
LEMMA StopInv ==
    ASSUME IndInv, Stop
    PROVE  IndInv'
<1> TypeOK /\ TablesInv /\ Phases /\ CopiesSound /\ HeldSound /\ EveryInstanceExplained
  BY DEF IndInv, TablesInv
<1>1. TablesTypeOK' /\ TablesInv'
  BY UnchangedSound DEF TypeOK, Stop
<1>2. TypeOK'
  <2>1. failed' \in BOOLEAN
    BY DEF Stop
  <2>3. pos' \in Nat \ {0} /\ seen' \subseteq Names /\ doomed' \subseteq DefIds
    BY DEF Stop
  <2>2. job' \in [Actors -> Job] /\ stops' \in 0..MaxStops
    BY IdleType DEF Stop, TypeOK
  <2> QED BY <1>1, <2>1, <2>2, <2>3 DEF TypeOK, Stop
<1>3. Phases'
  BY IdleType DEF Phases, TypeOK, Stop, Actors, Boot, Gen, Ven, RefreshPcs
<1>4. CopiesSound'
  BY IdleType DEF CopiesSound, JobSound, ListsSound, Phases, TypeOK, Stop, tables, RefreshPcs
<1>5. HeldSound'
  BY DEF HeldSound, Stop, tables
<1>6. EveryInstanceExplained'
  BY DEF EveryInstanceExplained, Explained, Stop, tables
<1> QED BY <1>1, <1>2, <1>3, <1>4, <1>5, <1>6 DEF IndInv, TablesInv

\* A day passes.
LEMMA MidnightInv ==
    ASSUME IndInv, Midnight
    PROVE  IndInv'
<1> TypeOK /\ TablesInv /\ Phases /\ CopiesSound /\ HeldSound /\ EveryInstanceExplained
  BY DEF IndInv, TablesInv
<1>1. TablesTypeOK' /\ TablesInv'
  BY UnchangedSound DEF TypeOK, Midnight, bootVars
<1>2. TypeOK'
  BY <1>1 DEF TypeOK, Midnight, bootVars
<1>3. Phases'
  BY DEF Phases, TypeOK, Midnight, bootVars, Actors, Boot, Gen, Ven, RefreshPcs
<1>4. CopiesSound'
  BY DEF CopiesSound, JobSound, ListsSound, Phases, TypeOK, Midnight, bootVars, tables, RefreshPcs
<1>5. HeldSound'
  BY DEF HeldSound, Midnight, bootVars, tables
<1>6. EveryInstanceExplained'
  BY DEF EveryInstanceExplained, Explained, Midnight, bootVars, tables
<1> QED BY <1>1, <1>2, <1>3, <1>4, <1>5, <1>6 DEF IndInv, TablesInv

\* A connection's last sync becomes stale.
LEMMA SyncAgesInv ==
    ASSUME IndInv, NEW i \in DefIds, SyncAges(i)
    PROVE  IndInv'
<1> TypeOK /\ TablesInv /\ Phases /\ CopiesSound /\ HeldSound /\ EveryInstanceExplained
  BY DEF IndInv, TablesInv
<1>a. \A j \in DefIds : conns'[j] = None <=> conns[j] = None
  <2>1. conns[i] \in Connection /\ [synced |-> "stale", err |-> conns[i].err] \in Connection
    BY DEF TypeOK, TablesTypeOK, SyncAges, Connection
  <2> QED BY <2>1 DEF TypeOK, TablesTypeOK, SyncAges
<1>1. TablesTypeOK' /\ TablesInv'
  <2>1. conns[i] \in Connection /\ [synced |-> "stale", err |-> conns[i].err] \in Connection
    BY DEF TypeOK, TablesTypeOK, SyncAges, Connection
  <2>2. TablesTypeOK'
    BY <2>1 DEF TypeOK, TablesTypeOK, SyncAges
  <2>3. TablesInv'
    BY <2>1 DEF TypeOK, TablesTypeOK, TablesInv, FreshIds, NoOrphans, OneInstancePerOccurrence,
                ConnsManaged, SyncAges
  <2> QED BY <2>2, <2>3
<1>2. TypeOK'
  BY <1>1 DEF TypeOK, SyncAges, bootVars
<1>3. Phases'
  BY DEF Phases, TypeOK, SyncAges, bootVars, Actors, Boot, Gen, Ven, RefreshPcs
<1>4. CopiesSound'
  BY <1>a, JobIds DEF CopiesSound, JobSound, ListsSound, TypeOK, SyncAges, bootVars, RefreshPcs
<1>5. HeldSound'
  BY DEF HeldSound, SyncAges, bootVars, tables
<1>6. EveryInstanceExplained'
  BY <1>a DEF EveryInstanceExplained, Explained, SyncAges, TypeOK, TablesTypeOK, Instance
<1> QED BY <1>1, <1>2, <1>3, <1>4, <1>5, <1>6 DEF IndInv, TablesInv

\* A generator inserts the next instance, or finds it there.
LEMMA GenerateNextInv ==
    ASSUME IndInv, NEW a \in Actors, GenerateNext(a)
    PROVE  IndInv'
<1> TypeOK /\ TablesInv /\ Phases /\ CopiesSound /\ HeldSound /\ EveryInstanceExplained
  BY DEF IndInv, TablesInv
<1>a. PICK d \in job[a].dates : /\ EnsureInstance(job[a].id, d)
                              /\ job' = [job EXCEPT ![a].dates = @ \ {d}]
  BY DEF GenerateNext
<1>b. job[a] \in Job /\ job[a].id \in DefIds /\ d \in Days
  <2>1. job[a].id \in DefIds /\ job[a] \in Job
    BY JobIds DEF GenerateNext
  <2> QED BY <2>1 DEF Job
<1>c. /\ job' \in [Actors -> Job]
      /\ \A b \in Actors : /\ job'[b].pc = job[b].pc /\ job'[b].id = job[b].id
                           /\ job'[b].due = job[b].due /\ job'[b].dates \subseteq job[b].dates
  BY <1>a, <1>b DEF TypeOK, Job
<1>e. /\ UNCHANGED <<defs, nextDef, conns>>
      /\ nextInst' >= nextInst
      /\ \A k \in InstIds : k < nextInst => insts'[k] = insts[k]
      /\ \A k \in InstIds : \/ insts'[k] = insts[k]
                            \/ /\ defs[job[a].id] # None
                               /\ insts'[k] = [def |-> job[a].id, due |-> d, paid |-> FALSE]
  BY <1>a, <1>b, EnsureInstanceEffect DEF TypeOK
<1>1. TablesTypeOK' /\ TablesInv'
  BY <1>a, <1>b, EnsureInstanceSound DEF TypeOK
<1>2. TypeOK'
  BY <1>1, <1>c DEF TypeOK, GenerateNext, unchangedByJobs
<1>3. Phases'
  BY <1>c DEF Phases, GenerateNext, unchangedByJobs, Actors, Boot, Gen, Ven
<1>4. CopiesSound'
  BY <1>c, <1>e DEF CopiesSound, JobSound, ListsSound, GenerateNext, unchangedByJobs
<1>5. HeldSound'
  <2>1. held' = held
    BY DEF GenerateNext, unchangedByJobs
  <2>2. held # None => held.id \in InstIds /\ held.id \in Int
    BY DEF TypeOK, Shown, InstIds
  <2>3. nextInst \in Int /\ nextInst' \in Int
    BY <1>1 DEF TypeOK, TablesTypeOK
  <2>4. held # None => held.id < nextInst
    BY DEF HeldSound
  <2>5. held # None => held.id < nextInst' /\ insts'[held.id] = insts[held.id]
    BY <1>e, <2>2, <2>3, <2>4
  <2> QED BY <2>1, <2>5 DEF HeldSound
<1>6. EveryInstanceExplained'
  <2>1. Explained(job[a].id, d)
    BY <1>a, <1>b DEF CopiesSound, JobSound, ListsSound, GenerateNext, Explained, EnsureInstance
  <2> QED BY <1>a, <1>b, <1>e, <2>1 DEF EveryInstanceExplained, Explained, GenerateNext, unchangedByJobs
<1> QED BY <1>1, <1>2, <1>3, <1>4, <1>5, <1>6 DEF IndInv, TablesInv

\* A generator is through with its dates.
LEMMA GenerateDoneInv ==
    ASSUME IndInv, NEW a \in Actors, GenerateDone(a)
    PROVE  IndInv'
<1> TypeOK /\ TablesInv /\ Phases /\ CopiesSound /\ HeldSound /\ EveryInstanceExplained
  BY DEF IndInv, TablesInv
<1>1. TablesTypeOK' /\ TablesInv'
  BY UnchangedSound DEF TypeOK, GenerateDone, Return, unchangedByJobs
<1>2. TypeOK'
  BY <1>1, IdleType DEF TypeOK, GenerateDone, Return, unchangedByJobs
<1>3. Phases'
  BY IdleType DEF Phases, TypeOK, GenerateDone, Return, unchangedByJobs, Actors, Boot, Gen, Ven, RefreshPcs
<1>4. CopiesSound'
  BY IdleType DEF CopiesSound, JobSound, ListsSound, Phases, TypeOK, GenerateDone, Return, unchangedByJobs, tables, RefreshPcs
<1>5. HeldSound'
  BY DEF HeldSound, GenerateDone, Return, unchangedByJobs, tables
<1>6. EveryInstanceExplained'
  BY DEF EveryInstanceExplained, Explained, GenerateDone, Return, unchangedByJobs, tables
<1> QED BY <1>1, <1>2, <1>3, <1>4, <1>5, <1>6 DEF IndInv, TablesInv

\* A generator gives up on a definition.
LEMMA GenerateFailsInv ==
    ASSUME IndInv, NEW a \in Actors, GenerateFails(a)
    PROVE  IndInv'
<1> TypeOK /\ TablesInv /\ Phases /\ CopiesSound /\ HeldSound /\ EveryInstanceExplained
  BY DEF IndInv, TablesInv
<1>1. TablesTypeOK' /\ TablesInv'
  BY UnchangedSound DEF TypeOK, GenerateFails, Return, unchangedByJobs
<1>2. TypeOK'
  BY <1>1, IdleType DEF TypeOK, GenerateFails, Return, unchangedByJobs
<1>3. Phases'
  BY IdleType DEF Phases, TypeOK, GenerateFails, Return, unchangedByJobs, Actors, Boot, Gen, Ven, RefreshPcs
<1>4. CopiesSound'
  BY IdleType DEF CopiesSound, JobSound, ListsSound, Phases, TypeOK, GenerateFails, Return, unchangedByJobs, tables, RefreshPcs
<1>5. HeldSound'
  BY DEF HeldSound, GenerateFails, Return, unchangedByJobs, tables
<1>6. EveryInstanceExplained'
  BY DEF EveryInstanceExplained, Explained, GenerateFails, Return, unchangedByJobs, tables
<1> QED BY <1>1, <1>2, <1>3, <1>4, <1>5, <1>6 DEF IndInv, TablesInv

\* A connector reports a bill, or fails.
LEMMA FetchInv ==
    ASSUME IndInv, NEW a \in {Boot, Ven}, Fetch(a)
    PROVE  IndInv'
<1> TypeOK /\ TablesInv /\ Phases /\ CopiesSound /\ HeldSound /\ EveryInstanceExplained
  BY DEF IndInv, TablesInv
<1>a. a \in Actors /\ job[a].id \in DefIds /\ job[a] \in Job /\ conns[job[a].id] # None
  BY JobIds DEF Fetch, Actors, CopiesSound, JobSound, ListsSound, RefreshPcs
<1>b. /\ job' \in [Actors -> Job]
      /\ \A b \in Actors \ {a} : job'[b] = job[b]
      /\ job'[a].pc \in {"fetchFailed", "amount"}
      /\ job'[a].id = job[a].id
      /\ job'[a].pc \in {"amount", "instance"} => job'[a].due \in VendorDues
  <2>1. CASE job' = [job EXCEPT ![a].pc = "fetchFailed"]
    BY <1>a, <2>1 DEF TypeOK, Job, Pcs
  <2>2. CASE \E m \in VendorAmounts, d \in VendorDues :
               job' = [job EXCEPT ![a].pc = "amount", ![a].amt = m, ![a].due = d]
    <3> PICK m \in VendorAmounts, d \in VendorDues :
               job' = [job EXCEPT ![a].pc = "amount", ![a].amt = m, ![a].due = d]
      BY <2>2
    <3>1. m \in Amounts /\ d \in Days
      OBVIOUS
    <3> QED BY <1>a, <3>1 DEF TypeOK, Job, Pcs
  <2> QED BY <2>1, <2>2 DEF Fetch
<1>e. UNCHANGED <<tables, had>>
  BY DEF Fetch, unchangedByJobs
<1>1. TablesTypeOK' /\ TablesInv'
  BY UnchangedSound DEF TypeOK, Fetch, unchangedByJobs
<1>2. TypeOK'
  BY <1>1, <1>b DEF TypeOK, Fetch, unchangedByJobs
<1>3. Phases'
  BY <1>a, <1>b DEF Phases, Fetch, unchangedByJobs, Actors, Boot, Gen, Ven, RefreshPcs
<1>4. CopiesSound'
  <2>1. JobSound(a)'
    BY <1>a, <1>b DEF CopiesSound, JobSound, Fetch, unchangedByJobs, tables, RefreshPcs
  <2>2. ASSUME NEW b \in Actors \ {a} PROVE JobSound(b)'
    BY <1>b, <1>e DEF CopiesSound, JobSound, tables
  <2>3. ListsSound'
    BY <1>a, <1>b DEF CopiesSound, ListsSound, Fetch, unchangedByJobs, tables, TypeOK
  <2> QED BY <2>1, <2>2, <2>3 DEF CopiesSound
<1>5. HeldSound'
  BY DEF HeldSound, Fetch, unchangedByJobs, tables
<1>6. EveryInstanceExplained'
  BY DEF EveryInstanceExplained, Explained, Fetch, unchangedByJobs, tables
<1> QED BY <1>1, <1>2, <1>3, <1>4, <1>5, <1>6 DEF IndInv, TablesInv

\* The vendor's amount is stored, or the statement fails.
LEMMA RefreshAmountInv ==
    ASSUME IndInv, NEW a \in {Boot, Ven}, RefreshAmount(a)
    PROVE  IndInv'
<1> TypeOK /\ TablesInv /\ Phases /\ CopiesSound /\ HeldSound /\ EveryInstanceExplained
  BY DEF IndInv, TablesInv
<1>a. a \in Actors /\ job[a].id \in DefIds /\ job[a] \in Job /\ conns[job[a].id] # None
  BY JobIds DEF RefreshAmount, Actors, CopiesSound, JobSound, ListsSound, RefreshPcs
<1>b. /\ job' \in [Actors -> Job]
      /\ \A b \in Actors \ {a} : job'[b] = job[b]
      /\ job'[a].pc \in {"synced", "instance"}
      /\ job'[a].id = job[a].id
      /\ job'[a].pc \in {"amount", "instance"} => job'[a].due \in VendorDues
  BY <1>a DEF RefreshAmount, CopiesSound, JobSound, ListsSound, TypeOK, Job, Pcs
<1>c. job[a].amt \in Amounts /\ (UpdateAmount(job[a].id, job[a].amt) \/ UNCHANGED tables)
  BY <1>a DEF RefreshAmount, Job
<1>e. /\ UNCHANGED <<nextDef, insts, nextInst, conns>>
      /\ \A j \in DefIds : /\ defs'[j] = None <=> defs[j] = None
                           /\ defs[j] # None => /\ defs'[j].managed = defs[j].managed
                                                /\ defs'[j].sched = defs[j].sched
  BY <1>a, <1>c, UpdateAmountEffect DEF TypeOK
<1>1. TablesTypeOK' /\ TablesInv'
  BY <1>a, <1>c, UpdateAmountSound, UnchangedSound DEF TypeOK
<1>2. TypeOK'
  BY <1>1, <1>b DEF TypeOK, RefreshAmount, unchangedByJobs
<1>3. Phases'
  BY <1>a, <1>b DEF Phases, RefreshAmount, unchangedByJobs, Actors, Boot, Gen, Ven, RefreshPcs
<1>4. CopiesSound'
  <2>1. JobSound(a)'
    BY <1>a, <1>b, <1>e DEF CopiesSound, JobSound, RefreshAmount, unchangedByJobs, RefreshPcs
  <2>2. ASSUME NEW b \in Actors \ {a} PROVE JobSound(b)'
    BY <1>a, <1>b, <1>e, JobIds DEF CopiesSound, JobSound, RefreshAmount, unchangedByJobs, RefreshPcs
  <2>3. ListsSound'
    BY <1>a, <1>b, <1>e DEF CopiesSound, ListsSound, RefreshAmount, unchangedByJobs, TypeOK
  <2> QED BY <2>1, <2>2, <2>3 DEF CopiesSound
<1>5. HeldSound'
  BY <1>a, <1>c, UpdateAmountEffect DEF HeldSound, RefreshAmount, unchangedByJobs, TypeOK
<1>6. EveryInstanceExplained'
  BY <1>a, <1>c, UpdateAmountEffect DEF EveryInstanceExplained, Explained, RefreshAmount, unchangedByJobs, TypeOK
<1> QED BY <1>1, <1>2, <1>3, <1>4, <1>5, <1>6 DEF IndInv, TablesInv

\* The vendor's due date gets its instance, or the statement fails.
LEMMA RefreshInstanceInv ==
    ASSUME IndInv, NEW a \in {Boot, Ven}, RefreshInstance(a)
    PROVE  IndInv'
<1> TypeOK /\ TablesInv /\ Phases /\ CopiesSound /\ HeldSound /\ EveryInstanceExplained
  BY DEF IndInv, TablesInv
<1>a. a \in Actors /\ job[a].id \in DefIds /\ job[a] \in Job /\ conns[job[a].id] # None
  BY JobIds DEF RefreshInstance, Actors, CopiesSound, JobSound, ListsSound, RefreshPcs
<1>b. /\ job' \in [Actors -> Job]
      /\ \A b \in Actors \ {a} : job'[b] = job[b]
      /\ job'[a].pc \in {"synced"}
      /\ job'[a].id = job[a].id
      /\ job'[a].pc \in {"amount", "instance"} => job'[a].due \in VendorDues
  BY <1>a DEF RefreshInstance, CopiesSound, JobSound, ListsSound, TypeOK, Job, Pcs
<1>c. /\ job[a].due \in Days /\ job[a].due \in VendorDues
      /\ EnsureInstance(job[a].id, job[a].due) \/ UNCHANGED tables
  BY <1>a DEF RefreshInstance, Job, CopiesSound, JobSound
<1>e. /\ UNCHANGED <<defs, nextDef, conns>>
      /\ nextInst' >= nextInst
      /\ \A k \in InstIds : k < nextInst => insts'[k] = insts[k]
      /\ \A k \in InstIds : \/ insts'[k] = insts[k]
                            \/ /\ defs[job[a].id] # None
                               /\ insts'[k] = [def |-> job[a].id, due |-> job[a].due, paid |-> FALSE]
  BY <1>a, <1>c, EnsureInstanceEffect DEF TypeOK
<1>1. TablesTypeOK' /\ TablesInv'
  BY <1>a, <1>c, EnsureInstanceSound, UnchangedSound DEF TypeOK
<1>2. TypeOK'
  BY <1>1, <1>b DEF TypeOK, RefreshInstance, unchangedByJobs
<1>3. Phases'
  BY <1>a, <1>b DEF Phases, RefreshInstance, unchangedByJobs, Actors, Boot, Gen, Ven, RefreshPcs
<1>4. CopiesSound'
  <2>1. JobSound(a)'
    BY <1>a, <1>b, <1>e DEF CopiesSound, JobSound, RefreshInstance, unchangedByJobs, RefreshPcs
  <2>2. ASSUME NEW b \in Actors \ {a} PROVE JobSound(b)'
    BY <1>a, <1>b, <1>e, JobIds DEF CopiesSound, JobSound, RefreshInstance, unchangedByJobs, RefreshPcs
  <2>3. ListsSound'
    BY <1>a, <1>b, <1>e DEF CopiesSound, ListsSound, RefreshInstance, unchangedByJobs, TypeOK
  <2> QED BY <2>1, <2>2, <2>3 DEF CopiesSound
<1>5. HeldSound'
  <2>1. held' = held
    BY DEF RefreshInstance, unchangedByJobs
  <2>2. held # None => held.id \in InstIds /\ held.id \in Int
    BY DEF TypeOK, Shown, InstIds
  <2>3. nextInst \in Int /\ nextInst' \in Int
    BY <1>1 DEF TypeOK, TablesTypeOK
  <2>4. held # None => held.id < nextInst
    BY DEF HeldSound
  <2>5. held # None => held.id < nextInst' /\ insts'[held.id] = insts[held.id]
    BY <1>e, <2>2, <2>3, <2>4
  <2> QED BY <2>1, <2>5 DEF HeldSound
<1>6. EveryInstanceExplained'
  BY <1>a, <1>c, <1>e DEF EveryInstanceExplained, Explained, RefreshInstance, unchangedByJobs, TypeOK
<1> QED BY <1>1, <1>2, <1>3, <1>4, <1>5, <1>6 DEF IndInv, TablesInv

\* The outcome of the refresh is stored, or the statement fails.
LEMMA RefreshEndsInv ==
    ASSUME IndInv, NEW a \in {Boot, Ven}, RefreshEnds(a)
    PROVE  IndInv'
<1> TypeOK /\ TablesInv /\ Phases /\ CopiesSound /\ HeldSound /\ EveryInstanceExplained
  BY DEF IndInv, TablesInv
<1>a. a \in Actors /\ job[a].id \in DefIds /\ job[a] \in Job /\ conns[job[a].id] # None
  BY JobIds DEF RefreshEnds, Actors, CopiesSound, JobSound, ListsSound, RefreshPcs
<1>b. /\ job' \in [Actors -> Job]
      /\ \A b \in Actors \ {a} : job'[b] = job[b]
      /\ job'[a].pc \in {"idle"}
      /\ job'[a].pc \in {"amount", "instance"} => job'[a].due \in VendorDues
  BY <1>a, IdleType DEF RefreshEnds, Return, TypeOK
<1>c. PICK e \in BOOLEAN : MarkSynced(job[a].id, e) \/ UNCHANGED tables
  BY DEF RefreshEnds
<1>e. UNCHANGED <<defs, nextDef, insts, nextInst, had>> /\ \A j \in DefIds : conns'[j] = None <=> conns[j] = None
  BY <1>a, <1>c, MarkSyncedEffect DEF TypeOK, RefreshEnds, unchangedByJobs
<1>1. TablesTypeOK' /\ TablesInv'
  BY <1>a, <1>c, MarkSyncedSound, UnchangedSound DEF TypeOK
<1>2. TypeOK'
  BY <1>1, <1>b DEF TypeOK, RefreshEnds, Return, unchangedByJobs
<1>3. Phases'
  BY <1>a, <1>b DEF Phases, RefreshEnds, unchangedByJobs, Return, Actors, Boot, Gen, Ven, RefreshPcs
<1>4. CopiesSound'
  <2>1. JobSound(a)'
    BY <1>a, <1>b, <1>e DEF CopiesSound, JobSound, RefreshEnds, unchangedByJobs, RefreshPcs
  <2>2. ASSUME NEW b \in Actors \ {a} PROVE JobSound(b)'
    BY <1>b, <1>e, JobIds DEF CopiesSound, JobSound, RefreshPcs
  <2>3. ListsSound'
    BY <1>a, <1>b, <1>e DEF CopiesSound, ListsSound, RefreshEnds, unchangedByJobs, TypeOK
  <2> QED BY <2>1, <2>2, <2>3 DEF CopiesSound
<1>5. HeldSound'
  BY <1>a, <1>e DEF HeldSound, RefreshEnds, unchangedByJobs, TypeOK
<1>6. EveryInstanceExplained'
  BY <1>a, <1>e DEF EveryInstanceExplained, Explained, RefreshEnds, unchangedByJobs, TypeOK, TablesTypeOK, Instance
<1> QED BY <1>1, <1>2, <1>3, <1>4, <1>5, <1>6 DEF IndInv, TablesInv

\* An invalid entry is skipped.
LEMMA BootInvalidInv ==
    ASSUME IndInv, BootEntry, BootInvalid
    PROVE  IndInv'
<1> TypeOK /\ TablesInv /\ Phases /\ CopiesSound /\ HeldSound /\ EveryInstanceExplained
  BY DEF IndInv, TablesInv
<1>b. phase = "boot" /\ file \in Seq(Entry) /\ pos \in 1..Len(file) /\ entry \in Entry
  BY DEF BootEntry, Phases, TypeOK, entry
<1>1. TablesTypeOK' /\ TablesInv'
  BY UnchangedSound DEF TypeOK, BootInvalid, NextEntry
<1>2. TypeOK'
  <2>1. pos' \in Nat \ {0} /\ seen' \subseteq Names
    BY <1>b DEF TypeOK, BootEntry, BootInvalid, NextEntry, Entry
  <2>2. failed' \in BOOLEAN
    BY DEF TypeOK, BootInvalid
  <2> QED BY <1>1, <2>1, <2>2 DEF TypeOK, BootEntry, BootInvalid, NextEntry
<1>3. Phases'
  BY DEF Phases, BootEntry, BootInvalid, NextEntry
<1>4. CopiesSound'
  BY DEF CopiesSound, JobSound, ListsSound, BootEntry, BootInvalid, NextEntry, tables
<1>5. HeldSound'
  BY DEF HeldSound, BootEntry, BootInvalid, NextEntry, tables
<1>6. EveryInstanceExplained'
  BY DEF EveryInstanceExplained, Explained, BootEntry, BootInvalid, NextEntry, tables
<1> QED BY <1>1, <1>2, <1>3, <1>4, <1>5, <1>6 DEF IndInv, TablesInv

\* An entry that collides with a UI bill is skipped.
LEMMA BootCollisionInv ==
    ASSUME IndInv, BootEntry, BootCollision
    PROVE  IndInv'
<1> TypeOK /\ TablesInv /\ Phases /\ CopiesSound /\ HeldSound /\ EveryInstanceExplained
  BY DEF IndInv, TablesInv
<1>b. phase = "boot" /\ file \in Seq(Entry) /\ pos \in 1..Len(file) /\ entry \in Entry
  BY DEF BootEntry, Phases, TypeOK, entry
<1>1. TablesTypeOK' /\ TablesInv'
  BY UnchangedSound DEF TypeOK, BootCollision, NextEntry
<1>2. TypeOK'
  <2>1. pos' \in Nat \ {0} /\ seen' \subseteq Names
    BY <1>b DEF TypeOK, BootEntry, BootCollision, NextEntry, Entry
  <2>2. failed' \in BOOLEAN
    BY DEF TypeOK, BootCollision
  <2> QED BY <1>1, <2>1, <2>2 DEF TypeOK, BootEntry, BootCollision, NextEntry
<1>3. Phases'
  BY DEF Phases, BootEntry, BootCollision, NextEntry
<1>4. CopiesSound'
  BY DEF CopiesSound, JobSound, ListsSound, BootEntry, BootCollision, NextEntry, tables
<1>5. HeldSound'
  BY DEF HeldSound, BootEntry, BootCollision, NextEntry, tables
<1>6. EveryInstanceExplained'
  BY DEF EveryInstanceExplained, Explained, BootEntry, BootCollision, NextEntry, tables
<1> QED BY <1>1, <1>2, <1>3, <1>4, <1>5, <1>6 DEF IndInv, TablesInv

\* An entry is skipped after a failed statement.
LEMMA BootEntryFailsInv ==
    ASSUME IndInv, BootEntry, BootEntryFails
    PROVE  IndInv'
<1> TypeOK /\ TablesInv /\ Phases /\ CopiesSound /\ HeldSound /\ EveryInstanceExplained
  BY DEF IndInv, TablesInv
<1>b. phase = "boot" /\ file \in Seq(Entry) /\ pos \in 1..Len(file) /\ entry \in Entry
  BY DEF BootEntry, Phases, TypeOK, entry
<1>1. TablesTypeOK' /\ TablesInv'
  BY UnchangedSound DEF TypeOK, BootEntryFails, NextEntry
<1>2. TypeOK'
  <2>1. pos' \in Nat \ {0} /\ seen' \subseteq Names
    BY <1>b DEF TypeOK, BootEntry, BootEntryFails, NextEntry, Entry
  <2>2. failed' \in BOOLEAN
    BY DEF TypeOK, BootEntryFails
  <2> QED BY <1>1, <2>1, <2>2 DEF TypeOK, BootEntry, BootEntryFails, NextEntry
<1>3. Phases'
  BY DEF Phases, BootEntry, BootEntryFails, NextEntry
<1>4. CopiesSound'
  BY DEF CopiesSound, JobSound, ListsSound, BootEntry, BootEntryFails, NextEntry, tables
<1>5. HeldSound'
  BY DEF HeldSound, BootEntry, BootEntryFails, NextEntry, tables
<1>6. EveryInstanceExplained'
  BY DEF EveryInstanceExplained, Explained, BootEntry, BootEntryFails, NextEntry, tables
<1> QED BY <1>1, <1>2, <1>3, <1>4, <1>5, <1>6 DEF IndInv, TablesInv

\* A missing bill is created as a managed one.
LEMMA BootCreateInv ==
    ASSUME IndInv, BootEntry, BootCreate
    PROVE  IndInv'
<1> TypeOK /\ TablesInv /\ Phases /\ CopiesSound /\ HeldSound /\ EveryInstanceExplained
  BY DEF IndInv, TablesInv
<1>b. phase = "boot" /\ file \in Seq(Entry) /\ pos \in 1..Len(file) /\ entry \in Entry
  BY DEF BootEntry, Phases, TypeOK, entry
<1>c. /\ Create([name |-> entry.name, sched |-> entry.sched, amt |-> entry.amt, managed |-> TRUE])
      /\ had' = [had EXCEPT ![nextDef] = {entry.sched}]
      /\ ReconcileRest(nextDef)
  BY DEF BootCreate
<1>d. /\ [name |-> entry.name, sched |-> entry.sched, amt |-> entry.amt, managed |-> TRUE] \in Definition
      /\ nextDef \in DefIds
  BY <1>b, <1>c DEF Entry, Definition, TypeOK, TablesTypeOK, Create, DefIds
<1>e. /\ nextDef \in Int /\ nextDef' = nextDef + 1
      /\ UNCHANGED <<insts, nextInst, conns>>
      /\ defs'[nextDef] = [name |-> entry.name, sched |-> entry.sched, amt |-> entry.amt, managed |-> TRUE]
      /\ defs'[nextDef] # None
      /\ \A j \in DefIds : j # nextDef => defs'[j] = defs[j]
  BY <1>c, <1>d, CreateEffect DEF TypeOK
<1>r. /\ job' \in [Actors -> Job]
      /\ \A b \in Actors \ {Boot} : job'[b] = job[b] /\ job[b].pc = "idle"
      /\ job'[Boot].pc \in {"attach", "generate"} /\ job'[Boot].id = nextDef
      /\ job'[Boot].pc = "generate" => \A d \in job'[Boot].dates : entry.sched # Vendor /\ d \in Occ[entry.sched]
  <2>1. At("attach", nextDef) \in Job /\ At("attach", nextDef).pc = "attach" /\ At("attach", nextDef).id = nextDef
    BY <1>d, AtType DEF Pcs
  <2>2. day \in 0..MaxDay /\ entry.sched \in AnySchedule
    BY <1>b DEF TypeOK, Entry
  <2>3. /\ GenerateJob(nextDef, entry.sched) \in Job
        /\ GenerateJob(nextDef, entry.sched).pc = "generate"
        /\ GenerateJob(nextDef, entry.sched).id = nextDef
        /\ \A d \in GenerateJob(nextDef, entry.sched).dates : entry.sched # Vendor /\ d \in Occ[entry.sched]
    BY <1>d, <2>2, GenerateJobType
  <2>4. Boot \in Actors /\ job \in [Actors -> Job]
    BY DEF Actors, TypeOK
  <2>5. job' = [job EXCEPT ![Boot] = IF entry.sched = Vendor THEN At("attach", nextDef) ELSE GenerateJob(nextDef, entry.sched)]
    BY <1>c DEF ReconcileRest
  <2>6. \A b \in Actors \ {Boot} : job[b].pc = "idle"
    BY <1>b DEF Phases
  <2> QED BY <2>1, <2>3, <2>4, <2>5, <2>6
<1>1. TablesTypeOK' /\ TablesInv'
  BY <1>c, <1>d, CreateSound DEF TypeOK
<1>2. TypeOK'
  <2>1. seen' \subseteq Names
    BY <1>b DEF TypeOK, BootCreate, Entry
  <2>2. had' \in [DefIds -> SUBSET AnySchedule]
    BY <1>b, <1>c, <1>d DEF TypeOK, Entry
  <2>3. UNCHANGED <<day, phase, stops, file, pos, doomed, failed, genTodo, venTodo, held>>
    BY DEF BootEntry, BootCreate
  <2> QED BY <1>1, <1>r, <2>1, <2>2, <2>3 DEF TypeOK
<1>3. Phases'
  <2>1. UNCHANGED <<phase, file, doomed, genTodo, venTodo>>
    BY DEF BootEntry, BootCreate
  <2>2. doomed = {} /\ phase = "boot" /\ file # NoFile
    BY DEF BootEntry, Phases
  <2> QED BY <1>r, <2>1, <2>2 DEF Phases, Actors, Boot, Gen, Ven
<1>4. CopiesSound'
  <2>1. JobSound(Boot)'
    <3>1. job'[Boot].id \in 1..(nextDef' - 1) /\ nextDef \in DefIds
      BY <1>d, <1>e, <1>r DEF DefIds
    <3>2. defs'[nextDef] # None /\ defs'[nextDef].managed /\ had'[nextDef] = {entry.sched}
      BY <1>c, <1>d, <1>e DEF TypeOK
    <3> QED BY <1>r, <3>1, <3>2 DEF JobSound, RefreshPcs
  <2>2. ASSUME NEW b \in Actors \ {Boot} PROVE JobSound(b)'
    BY <1>r DEF JobSound, RefreshPcs
  <2>3. ListsSound'
    <3>1. genTodo' = {} /\ venTodo' = {} /\ doomed' = doomed
      BY <1>b DEF Phases, BootEntry
    <3>2. \A i \in doomed : i \in DefIds /\ i # nextDef
      BY <1>e DEF CopiesSound, ListsSound, TypeOK, TablesInv, FreshIds
    <3>3. \A i \in DefIds : i # nextDef => defs'[i] = defs[i] /\ had'[i] = had[i]
      BY <1>c, <1>e DEF TypeOK
    <3>4. defs'[nextDef].sched \in had'[nextDef]
      BY <1>c, <1>d, <1>e DEF TypeOK
    <3> QED BY <3>1, <3>2, <3>3, <3>4 DEF CopiesSound, ListsSound
  <2> QED BY <2>1, <2>2, <2>3 DEF CopiesSound
<1>5. HeldSound'
  BY <1>e DEF HeldSound, BootEntry
<1>6. EveryInstanceExplained'
  <2>1. \A k \in InstIds : insts[k] # None => insts[k].def \in DefIds /\ insts[k].def # nextDef
    BY <1>e DEF TypeOK, TablesTypeOK, Instance, TablesInv, FreshIds, NoOrphans
  <2>2. \A i \in DefIds : i # nextDef => had'[i] = had[i]
    BY <1>c DEF TypeOK
  <2> QED BY <1>e, <2>1, <2>2 DEF EveryInstanceExplained, Explained
<1> QED BY <1>1, <1>2, <1>3, <1>4, <1>5, <1>6 DEF IndInv, TablesInv

\* A managed bill is refreshed from its entry.
LEMMA BootUpdateInv ==
    ASSUME IndInv, BootEntry, BootUpdate
    PROVE  IndInv'
<1> TypeOK /\ TablesInv /\ Phases /\ CopiesSound /\ HeldSound /\ EveryInstanceExplained
  BY DEF IndInv, TablesInv
<1>b. phase = "boot" /\ file \in Seq(Entry) /\ pos \in 1..Len(file) /\ entry \in Entry
  BY DEF BootEntry, Phases, TypeOK, entry
<1>c. PICK i \in GetByName(entry.name) :
         /\ defs[i].managed
         /\ Update(i, defs[i].name, entry.sched, IF entry.sched = Vendor THEN defs[i].amt ELSE entry.amt)
         /\ had' = [had EXCEPT ![i] = @ \cup {entry.sched}]
         /\ ReconcileRest(i)
  BY DEF BootUpdate, UpdateBootstrap
<1>d. /\ i \in DefIds /\ defs[i] # None /\ i \in 1..(nextDef - 1)
      /\ defs[i].name \in Names /\ entry.sched \in AnySchedule
      /\ (IF entry.sched = Vendor THEN defs[i].amt ELSE entry.amt) \in Amounts
  BY <1>b, <1>c DEF GetByName, Entry, Definition, TypeOK, TablesTypeOK, TablesInv, FreshIds, DefIds
<1>e. /\ UNCHANGED <<nextDef, insts, nextInst, conns>>
      /\ \A j \in DefIds : /\ defs'[j] = None <=> defs[j] = None
                           /\ defs[j] # None => defs'[j].managed = defs[j].managed
                           /\ j # i => defs'[j] = defs[j]
      /\ defs[i] # None => defs'[i].sched = entry.sched
  BY <1>c, <1>d, UpdateEffect DEF TypeOK
<1>r. /\ job' \in [Actors -> Job]
      /\ \A b \in Actors \ {Boot} : job'[b] = job[b] /\ job[b].pc = "idle"
      /\ job'[Boot].pc \in {"attach", "generate"} /\ job'[Boot].id = i
      /\ job'[Boot].pc = "generate" => \A d \in job'[Boot].dates : entry.sched # Vendor /\ d \in Occ[entry.sched]
  <2>1. At("attach", i) \in Job /\ At("attach", i).pc = "attach" /\ At("attach", i).id = i
    BY <1>d, AtType DEF Pcs
  <2>2. day \in 0..MaxDay /\ entry.sched \in AnySchedule
    BY <1>b DEF TypeOK, Entry
  <2>3. /\ GenerateJob(i, entry.sched) \in Job
        /\ GenerateJob(i, entry.sched).pc = "generate"
        /\ GenerateJob(i, entry.sched).id = i
        /\ \A d \in GenerateJob(i, entry.sched).dates : entry.sched # Vendor /\ d \in Occ[entry.sched]
    BY <1>d, <2>2, GenerateJobType
  <2>4. Boot \in Actors /\ job \in [Actors -> Job]
    BY DEF Actors, TypeOK
  <2>5. job' = [job EXCEPT ![Boot] = IF entry.sched = Vendor THEN At("attach", i) ELSE GenerateJob(i, entry.sched)]
    BY <1>c DEF ReconcileRest
  <2>6. \A b \in Actors \ {Boot} : job[b].pc = "idle"
    BY <1>b DEF Phases
  <2> QED BY <2>1, <2>3, <2>4, <2>5, <2>6
<1>1. TablesTypeOK' /\ TablesInv'
  BY <1>c, <1>d, UpdateSound DEF TypeOK
<1>2. TypeOK'
  <2>1. seen' \subseteq Names
    BY <1>b DEF TypeOK, BootUpdate, Entry
  <2>2. had' \in [DefIds -> SUBSET AnySchedule]
    BY <1>b, <1>c, <1>d DEF TypeOK, Entry
  <2>3. UNCHANGED <<day, phase, stops, file, pos, doomed, failed, genTodo, venTodo, held>>
    BY DEF BootEntry, BootUpdate
  <2> QED BY <1>1, <1>r, <2>1, <2>2, <2>3 DEF TypeOK
<1>3. Phases'
  <2>1. UNCHANGED <<phase, file, doomed, genTodo, venTodo>>
    BY DEF BootEntry, BootUpdate
  <2>2. doomed = {} /\ phase = "boot" /\ file # NoFile
    BY DEF BootEntry, Phases
  <2> QED BY <1>r, <2>1, <2>2 DEF Phases, Actors, Boot, Gen, Ven
<1>4. CopiesSound'
  <2>1. JobSound(Boot)'
    <3>1. job'[Boot].id \in 1..(nextDef' - 1)
      BY <1>r, <1>d, <1>e
    <3>2. defs'[i] # None /\ defs'[i].managed /\ entry.sched \in had'[i]
      BY <1>c, <1>d, <1>e DEF TypeOK
    <3> QED BY <1>r, <3>1, <3>2 DEF JobSound, RefreshPcs
  <2>2. ASSUME NEW b \in Actors \ {Boot} PROVE JobSound(b)'
    BY <1>r DEF JobSound, RefreshPcs
  <2>3. ListsSound'
    <3>1. genTodo' = {} /\ venTodo' = {} /\ doomed' = doomed
      BY <1>b DEF Phases, BootEntry
    <3>2. \A j \in doomed : j \in DefIds
      BY DEF TypeOK
    <3>3. \A j \in DefIds : defs'[j] # None => defs'[j].sched \in had'[j]
      BY <1>c, <1>d, <1>e DEF CopiesSound, ListsSound, TypeOK
    <3> QED BY <1>e, <3>1, <3>2, <3>3 DEF CopiesSound, ListsSound
  <2> QED BY <2>1, <2>2, <2>3 DEF CopiesSound
<1>5. HeldSound'
  BY <1>e DEF HeldSound, BootEntry
<1>6. EveryInstanceExplained'
  <2>1. \A k \in InstIds : insts[k] # None => insts[k].def \in DefIds
    BY DEF TypeOK, TablesTypeOK, Instance
  <2>2. \A j \in DefIds : had[j] \subseteq had'[j]
    BY <1>c DEF TypeOK
  <2> QED BY <1>e, <2>1, <2>2 DEF EveryInstanceExplained, Explained
<1> QED BY <1>1, <1>2, <1>3, <1>4, <1>5, <1>6 DEF IndInv, TablesInv

\* A vendor connection is attached to a managed bill.
LEMMA AttachVendorConnectionInv ==
    ASSUME IndInv, AttachVendorConnection
    PROVE  IndInv'
<1> TypeOK /\ TablesInv /\ Phases /\ CopiesSound /\ HeldSound /\ EveryInstanceExplained
  BY DEF IndInv, TablesInv
<1>a. Boot \in Actors
  BY DEF Actors
<1>b. /\ job[Boot].id \in DefIds /\ job[Boot] \in Job
      /\ defs[job[Boot].id] # None /\ defs[job[Boot].id].managed
      /\ \A b \in Actors \ {Boot} : job[b].pc = "idle"
      /\ venTodo = {} /\ genTodo = {}
  BY <1>a, JobIds DEF AttachVendorConnection, CopiesSound, JobSound, Phases
<1>c. Upsert(job[Boot].id)
  BY DEF AttachVendorConnection
<1>d. /\ job' \in [Actors -> Job]
      /\ \A b \in Actors \ {Boot} : job'[b] = job[b]
      /\ \/ job'[Boot] = Idle /\ job'[Boot].pc = "idle"
         \/ job'[Boot].pc = "fetch" /\ job'[Boot].id = job[Boot].id
  <2>1. CASE Return(Boot)
    BY <1>a, <2>1, IdleType DEF Return, TypeOK
  <2>2. CASE job' = [job EXCEPT ![Boot].pc = "fetch"]
    BY <1>a, <1>b, <2>2 DEF TypeOK, Job, Pcs
  <2> QED BY <2>1, <2>2 DEF AttachVendorConnection
<1>e. pos' \in Nat \ {0} /\ failed' \in BOOLEAN
  <2>1. pos' = pos + 1 \/ pos' = pos
    BY DEF AttachVendorConnection, Return
  <2>2. failed' = failed \/ failed' = TRUE
    BY DEF AttachVendorConnection
  <2>3. pos' \in Nat \ {0}
    BY <2>1 DEF TypeOK
  <2>4. failed' \in BOOLEAN
    BY <2>2 DEF TypeOK
  <2> QED BY <2>3, <2>4
<1>f. /\ UNCHANGED <<defs, nextDef, insts, nextInst, had>>
      /\ conns'[job[Boot].id] # None
      /\ \A j \in DefIds : conns[j] # None => conns'[j] # None
  <2>1. [synced |-> "never", err |-> FALSE] \in Connection
    BY DEF Connection
  <2>2. UNCHANGED had
    BY DEF AttachVendorConnection, unchangedByJobs
  <2> QED BY <1>b, <1>c, <2>1, <2>2 DEF Upsert, TypeOK, TablesTypeOK
<1>1. TablesTypeOK' /\ TablesInv'
  BY <1>b, <1>c, UpsertSound DEF TypeOK
<1>2. TypeOK'
  BY <1>1, <1>d, <1>e DEF TypeOK, AttachVendorConnection, unchangedByJobs
<1>3. Phases'
  BY <1>b, <1>d DEF Phases, AttachVendorConnection, unchangedByJobs, Actors, Boot, Gen, Ven, RefreshPcs
<1>4. CopiesSound'
  <2>1. JobSound(Boot)'
    BY <1>b, <1>c, <1>d, <1>f DEF CopiesSound, JobSound, RefreshPcs, Actors, AttachVendorConnection
  <2>2. ASSUME NEW b \in Actors \ {Boot} PROVE JobSound(b)'
    BY <1>b, <1>d DEF JobSound, RefreshPcs
  <2>3. ListsSound'
    BY <1>b, <1>f DEF CopiesSound, ListsSound, AttachVendorConnection, unchangedByJobs
  <2> QED BY <2>1, <2>2, <2>3 DEF CopiesSound
<1>5. HeldSound'
  BY <1>f DEF HeldSound, AttachVendorConnection, unchangedByJobs
<1>6. EveryInstanceExplained'
  BY <1>f DEF EveryInstanceExplained, Explained, AttachVendorConnection, unchangedByJobs, TypeOK, TablesTypeOK, Instance
<1> QED BY <1>1, <1>2, <1>3, <1>4, <1>5, <1>6 DEF IndInv, TablesInv

\* No vendor connection is attached.
LEMMA AttachFailsInv ==
    ASSUME IndInv, AttachFails
    PROVE  IndInv'
<1> TypeOK /\ TablesInv /\ Phases /\ CopiesSound /\ HeldSound /\ EveryInstanceExplained
  BY DEF IndInv, TablesInv
<1>1. TablesTypeOK' /\ TablesInv'
  BY UnchangedSound DEF TypeOK, AttachFails, Return, unchangedByJobs
<1>2. TypeOK'
  <2>1. job' \in [Actors -> Job]
    BY IdleType DEF TypeOK, AttachFails, Return
  <2>3. pos' \in Nat \ {0}
    BY DEF TypeOK, AttachFails, Return
  <2>2. failed' \in BOOLEAN
    BY DEF AttachFails
  <2> QED BY <1>1, <2>1, <2>2, <2>3 DEF TypeOK, AttachFails, unchangedByJobs
<1>3. Phases'
  BY IdleType DEF Phases, TypeOK, AttachFails, Return, unchangedByJobs, Actors, Boot, Gen, Ven, RefreshPcs
<1>4. CopiesSound'
  BY IdleType DEF CopiesSound, JobSound, ListsSound, Phases, TypeOK, AttachFails, Return, unchangedByJobs, tables, RefreshPcs
<1>5. HeldSound'
  BY DEF HeldSound, AttachFails, Return, unchangedByJobs, tables
<1>6. EveryInstanceExplained'
  BY DEF EveryInstanceExplained, Explained, AttachFails, Return, unchangedByJobs, tables
<1> QED BY <1>1, <1>2, <1>3, <1>4, <1>5, <1>6 DEF IndInv, TablesInv

\* The removal pass lists the managed bills not in the file.
LEMMA BootListAllInv ==
    ASSUME IndInv, BootListAll
    PROVE  IndInv'
<1> TypeOK /\ TablesInv /\ Phases /\ CopiesSound /\ HeldSound /\ EveryInstanceExplained
  BY DEF IndInv, TablesInv
<1>1. TablesTypeOK' /\ TablesInv'
  BY UnchangedSound DEF TypeOK, BootListAll
<1>2. TypeOK'
  <2>1. job' \in [Actors -> Job]
    <3>1. Boot \in Actors /\ job[Boot] \in Job
      BY DEF TypeOK, Actors
    <3> QED BY <3>1 DEF TypeOK, BootListAll, Job, Pcs
  <2>2. doomed' \subseteq DefIds
    BY DEF BootListAll
  <2> QED BY <1>1, <2>1, <2>2 DEF TypeOK, BootListAll
<1>3. Phases'
  BY DEF Phases, TypeOK, BootListAll, Actors, Boot, Gen, Ven, RefreshPcs
<1>4. CopiesSound'
  BY DEF CopiesSound, JobSound, ListsSound, Phases, TypeOK, BootListAll, tables, RefreshPcs
<1>5. HeldSound'
  BY DEF HeldSound, BootListAll, tables
<1>6. EveryInstanceExplained'
  BY DEF EveryInstanceExplained, Explained, BootListAll, tables
<1> QED BY <1>1, <1>2, <1>3, <1>4, <1>5, <1>6 DEF IndInv, TablesInv

\* The removal pass deletes a bill, or the statement fails.
LEMMA BootRemoveInv ==
    ASSUME IndInv, BootRemove
    PROVE  IndInv'
<1> TypeOK /\ TablesInv /\ Phases /\ CopiesSound /\ HeldSound /\ EveryInstanceExplained
  BY DEF IndInv, TablesInv
<1>b. /\ \A b \in Actors : job[b].pc \in {"idle", "remove"}
      /\ venTodo = {} /\ genTodo = {} /\ phase = "boot"
  BY DEF Phases, BootRemove, Actors
<1>c. PICK i \in doomed : doomed' = doomed \ {i} /\ (Delete(i) \/ UNCHANGED tables)
  BY DEF BootRemove
<1>d. i \in DefIds
  BY DEF TypeOK
<1>e. /\ nextInst' = nextInst
      /\ \A j \in DefIds : j # i => defs'[j] = defs[j] /\ conns'[j] = conns[j]
      /\ defs'[i] = None \/ defs'[i] = defs[i]
      /\ \A k \in InstIds : insts'[k] # None =>
            insts'[k] = insts[k] /\ (insts[k].def # i \/ conns' = conns)
  <2>1. CASE Delete(i)
    BY <1>d, <2>1, DeleteEffect DEF TypeOK
  <2>2. CASE UNCHANGED tables
    BY <2>2 DEF tables
  <2> QED BY <1>c, <2>1, <2>2
<1>1. TablesTypeOK' /\ TablesInv'
  BY <1>c, <1>d, DeleteSound, UnchangedSound DEF TypeOK
<1>2. TypeOK'
  <2>1. failed' \in BOOLEAN
    BY DEF TypeOK, BootRemove
  <2> QED BY <1>1, <1>c, <2>1 DEF TypeOK, BootRemove
<1>3. Phases'
  BY <1>b, <1>c DEF Phases, BootRemove
<1>4. CopiesSound'
  <2>1. ASSUME NEW b \in Actors PROVE JobSound(b)'
    BY <1>b DEF JobSound, RefreshPcs, BootRemove
  <2>2. ListsSound'
    BY <1>b, <1>c, <1>d, <1>e DEF CopiesSound, ListsSound, BootRemove, TypeOK
  <2> QED BY <2>1, <2>2 DEF CopiesSound
<1>5. HeldSound'
  BY <1>e DEF HeldSound, BootRemove, TypeOK, Shown
<1>6. EveryInstanceExplained'
  BY <1>e DEF EveryInstanceExplained, Explained, BootRemove, TypeOK, TablesTypeOK, Instance
<1> QED BY <1>1, <1>2, <1>3, <1>4, <1>5, <1>6 DEF IndInv, TablesInv

\* The scheduler and the HTTP server start.
LEMMA BootDoneInv ==
    ASSUME IndInv, BootDone
    PROVE  IndInv'
<1> TypeOK /\ TablesInv /\ Phases /\ CopiesSound /\ HeldSound /\ EveryInstanceExplained
  BY DEF IndInv, TablesInv
<1>1. TablesTypeOK' /\ TablesInv'
  BY UnchangedSound DEF TypeOK, BootDone, bootVars
<1>2. TypeOK'
  BY <1>1, IdleType DEF TypeOK, BootDone, bootVars
<1>3. Phases'
  <2>1. /\ Boot \in Actors /\ phase = "boot" /\ phase' = "run"
        /\ job' = [job EXCEPT ![Boot] = Idle] /\ job \in [Actors -> Job]
        /\ UNCHANGED <<file, genTodo, venTodo, doomed>>
    BY DEF BootDone, bootVars, Actors, TypeOK
  <2>2. doomed = {}
    BY DEF BootDone, Phases
  <2> QED BY <2>1, <2>2, IdleType DEF Phases, Actors, Boot, Gen, Ven
<1>4. CopiesSound'
  BY IdleType DEF CopiesSound, JobSound, ListsSound, Phases, TypeOK, BootDone, bootVars, tables, RefreshPcs
<1>5. HeldSound'
  BY DEF HeldSound, BootDone, bootVars, tables
<1>6. EveryInstanceExplained'
  BY DEF EveryInstanceExplained, Explained, BootDone, bootVars, tables
<1> QED BY <1>1, <1>2, <1>3, <1>4, <1>5, <1>6 DEF IndInv, TablesInv

\* The generator lists the definitions.
LEMMA GenTickInv ==
    ASSUME IndInv, GenTick
    PROVE  IndInv'
<1> TypeOK /\ TablesInv /\ Phases /\ CopiesSound /\ HeldSound /\ EveryInstanceExplained
  BY DEF IndInv, TablesInv
<1>1. TablesTypeOK' /\ TablesInv'
  BY UnchangedSound DEF TypeOK, GenTick, bootVars
<1>2. TypeOK'
  <2>1. genTodo' \subseteq [id : DefIds, sched : AnySchedule]
    BY DEF GenTick, TypeOK, TablesTypeOK, Definition
  <2> QED BY <1>1, <2>1 DEF TypeOK, GenTick, bootVars
<1>3. Phases'
  BY DEF Phases, GenTick, Running, bootVars
<1>4. CopiesSound'
  <2>1. \A t \in genTodo' : t.id \in 1..(nextDef - 1) /\ t.sched \in had[t.id]
    BY DEF GenTick, CopiesSound, ListsSound, TablesInv, FreshIds, TypeOK, TablesTypeOK, DefIds
  <2> QED BY <2>1 DEF CopiesSound, JobSound, ListsSound, GenTick, tables, bootVars
<1>5. HeldSound'
  BY DEF HeldSound, GenTick, bootVars, tables
<1>6. EveryInstanceExplained'
  BY DEF EveryInstanceExplained, Explained, GenTick, bootVars, tables
<1> QED BY <1>1, <1>2, <1>3, <1>4, <1>5, <1>6 DEF IndInv, TablesInv

\* The generator turns to the next definition of its list.
LEMMA GenNextInv ==
    ASSUME IndInv, GenNext
    PROVE  IndInv'
<1> TypeOK /\ TablesInv /\ Phases /\ CopiesSound /\ HeldSound /\ EveryInstanceExplained
  BY DEF IndInv, TablesInv
<1>a. PICK t \in genTodo : genTodo' = genTodo \ {t} /\ job' = [job EXCEPT ![Gen] = GenerateJob(t.id, t.sched)]
  BY DEF GenNext
<1>b. Gen \in Actors /\ t.id \in DefIds /\ t.sched \in AnySchedule /\ day \in 0..MaxDay
  BY DEF Actors, TypeOK
<1>c. /\ job' \in [Actors -> Job]
      /\ \A b \in Actors \ {Gen} : job'[b] = job[b]
      /\ job'[Gen].pc = "generate" /\ job'[Gen].id = t.id
      /\ \A d \in job'[Gen].dates : t.sched # Vendor /\ d \in Occ[t.sched]
  BY <1>a, <1>b, GenerateJobType DEF TypeOK
<1>1. TablesTypeOK' /\ TablesInv'
  BY UnchangedSound DEF TypeOK, GenNext, bootVars
<1>2. TypeOK'
  BY <1>1, <1>a, <1>c DEF TypeOK, GenNext, bootVars
<1>3. Phases'
  BY <1>a, <1>c DEF Phases, GenNext, bootVars, Actors, Boot, Gen, Ven
<1>4. CopiesSound'
  <2>1. JobSound(Gen)'
    BY <1>a, <1>c DEF CopiesSound, ListsSound, JobSound, RefreshPcs, GenNext, tables
  <2>2. ASSUME NEW b \in Actors \ {Gen} PROVE JobSound(b)'
    BY <1>c DEF CopiesSound, JobSound, GenNext, tables
  <2>3. ListsSound'
    BY <1>a DEF CopiesSound, ListsSound, GenNext, tables, bootVars
  <2> QED BY <2>1, <2>2, <2>3 DEF CopiesSound
<1>5. HeldSound'
  BY DEF HeldSound, GenNext, bootVars, tables
<1>6. EveryInstanceExplained'
  BY DEF EveryInstanceExplained, Explained, GenNext, bootVars, tables
<1> QED BY <1>1, <1>2, <1>3, <1>4, <1>5, <1>6 DEF IndInv, TablesInv

\* The refresher lists the vendor connections.
LEMMA VenTickInv ==
    ASSUME IndInv, VenTick
    PROVE  IndInv'
<1> TypeOK /\ TablesInv /\ Phases /\ CopiesSound /\ HeldSound /\ EveryInstanceExplained
  BY DEF IndInv, TablesInv
<1>1. TablesTypeOK' /\ TablesInv'
  BY UnchangedSound DEF TypeOK, VenTick, bootVars
<1>2. TypeOK'
  BY <1>1 DEF TypeOK, VenTick, bootVars
<1>3. Phases'
  BY DEF Phases, VenTick, Running, bootVars
<1>4. CopiesSound'
  BY DEF CopiesSound, JobSound, ListsSound, Phases, TypeOK, VenTick, bootVars, tables, RefreshPcs
<1>5. HeldSound'
  BY DEF HeldSound, VenTick, bootVars, tables
<1>6. EveryInstanceExplained'
  BY DEF EveryInstanceExplained, Explained, VenTick, bootVars, tables
<1> QED BY <1>1, <1>2, <1>3, <1>4, <1>5, <1>6 DEF IndInv, TablesInv

\* The refresher turns to the next connection of its list.
LEMMA VenNextInv ==
    ASSUME IndInv, VenNext
    PROVE  IndInv'
<1> TypeOK /\ TablesInv /\ Phases /\ CopiesSound /\ HeldSound /\ EveryInstanceExplained
  BY DEF IndInv, TablesInv
<1>a. PICK i \in venTodo : /\ venTodo' = venTodo \ {i}
                           /\ job' = job \/ job' = [job EXCEPT ![Ven] = At("fetch", i)]
  BY DEF VenNext
<1>b. Ven \in Actors /\ i \in DefIds /\ conns[i] # None /\ defs[i] # None
  BY DEF Actors, TypeOK, CopiesSound, ListsSound, TablesInv, NoOrphans
<1>c. /\ job' \in [Actors -> Job]
      /\ \A b \in Actors \ {Ven} : job'[b] = job[b]
      /\ job'[Ven] = job[Ven] \/ (job'[Ven].pc = "fetch" /\ job'[Ven].id = i)
  BY <1>a, <1>b, AtType DEF TypeOK, Pcs
<1>1. TablesTypeOK' /\ TablesInv'
  BY UnchangedSound DEF TypeOK, VenNext, bootVars
<1>2. TypeOK'
  BY <1>1, <1>a, <1>c DEF TypeOK, VenNext, bootVars
<1>3. Phases'
  BY <1>a, <1>c DEF Phases, VenNext, bootVars, Actors, Boot, Gen, Ven, RefreshPcs
<1>4. CopiesSound'
  <2>1. JobSound(Ven)'
    <3>1. i \in 1..(nextDef - 1)
      BY <1>b DEF TablesInv, FreshIds, TypeOK, TablesTypeOK, DefIds
    <3> QED BY <1>b, <1>c, <3>1 DEF CopiesSound, JobSound, RefreshPcs, VenNext, tables
  <2>2. ASSUME NEW b \in Actors \ {Ven} PROVE JobSound(b)'
    BY <1>c DEF CopiesSound, JobSound, VenNext, tables
  <2>3. ListsSound'
    BY <1>a DEF CopiesSound, ListsSound, VenNext, tables, bootVars
  <2> QED BY <2>1, <2>2, <2>3 DEF CopiesSound
<1>5. HeldSound'
  BY DEF HeldSound, VenNext, bootVars, tables
<1>6. EveryInstanceExplained'
  BY DEF EveryInstanceExplained, Explained, VenNext, bootVars, tables
<1> QED BY <1>1, <1>2, <1>3, <1>4, <1>5, <1>6 DEF IndInv, TablesInv

\* A bill is added on the settings page.
LEMMA AddBillInv ==
    ASSUME IndInv, NEW r \in Requests, AddBill(r)
    PROVE  IndInv'
<1> TypeOK /\ TablesInv /\ Phases /\ CopiesSound /\ HeldSound /\ EveryInstanceExplained
  BY DEF IndInv, TablesInv
<1>a. r \in Actors /\ r # Boot /\ r # Gen /\ r # Ven
  BY DEF Actors
<1>c. PICK n \in Names, s \in Schedules, m \in Amounts :
         /\ Create([name |-> n, sched |-> s, amt |-> m, managed |-> FALSE])
         /\ had' = [had EXCEPT ![nextDef] = {s}]
         /\ job' = [job EXCEPT ![r] = GenerateJob(nextDef, s)]
  BY DEF AddBill
<1>d. /\ [name |-> n, sched |-> s, amt |-> m, managed |-> FALSE] \in Definition
      /\ nextDef \in DefIds /\ s \in AnySchedule /\ day \in 0..MaxDay
  BY <1>c DEF Definition, AnySchedule, TypeOK, TablesTypeOK, Create, DefIds
<1>e. /\ nextDef \in Int /\ nextDef' = nextDef + 1
      /\ UNCHANGED <<insts, nextInst, conns>>
      /\ defs'[nextDef] = [name |-> n, sched |-> s, amt |-> m, managed |-> FALSE]
      /\ defs'[nextDef] # None
      /\ \A j \in DefIds : j # nextDef => defs'[j] = defs[j]
  BY <1>c, <1>d, CreateEffect DEF TypeOK
<1>h. \A j \in DefIds : j # nextDef => had'[j] = had[j]
  BY <1>c DEF TypeOK
<1>i. \A j \in DefIds : conns[j] # None => conns'[j] # None
  BY <1>e
<1>r. /\ job' \in [Actors -> Job] /\ r \in Actors /\ r # Boot /\ r # Gen /\ r # Ven
      /\ \A b \in Actors \ {r} : job'[b] = job[b]
      /\ phase = "run"
      /\ job'[r].pc = "generate" /\ job'[r].id = nextDef
      /\ \A d \in job'[r].dates : s # Vendor /\ d \in Occ[s]
  BY <1>a, <1>c, <1>d, GenerateJobType DEF TypeOK, AddBill, Running
<1>1. TablesTypeOK' /\ TablesInv'
  BY <1>c, <1>d, CreateSound DEF TypeOK
<1>2. TypeOK'
  <2>1. had' \in [DefIds -> SUBSET AnySchedule]
    BY <1>c, <1>d DEF TypeOK
  <2> QED BY <1>1, <1>r, <2>1 DEF TypeOK, AddBill, unchangedByRequests, bootVars
<1>3. Phases'
  BY <1>r DEF Phases, AddBill, unchangedByRequests, bootVars, Actors, Boot, Gen, Ven
<1>4. CopiesSound'
  <2>1. JobSound(r)'
    <3>1. job'[r].id \in 1..(nextDef' - 1)
      BY <1>d, <1>e, <1>r DEF DefIds
    <3>2. s \in had'[nextDef]
      BY <1>c, <1>d DEF TypeOK
    <3> QED BY <1>r, <3>1, <3>2 DEF JobSound, RefreshPcs
  <2>2. ASSUME NEW b \in Actors \ {r} PROVE JobSound(b)'
    <3>1. JobSound(b) /\ job'[b] = job[b]
      BY <1>r DEF CopiesSound
    <3>2. nextDef' \in Int /\ nextDef' >= nextDef
      BY <1>1, <1>e DEF TypeOK, TablesTypeOK
    <3>3. job[b].pc \notin {"idle", "remove"} => job[b].id \in DefIds /\ job[b].id \in 1..(nextDef - 1)
      BY JobIds DEF CopiesSound, JobSound
    <3>4. job[b].pc \notin {"idle", "remove"} =>
             /\ defs'[job[b].id] # None =>
                   defs[job[b].id] # None /\ defs'[job[b].id].managed = defs[job[b].id].managed
             /\ had[job[b].id] \subseteq had'[job[b].id]
      BY <3>3, <1>e, <1>h
    <3>5. job[b].pc \in RefreshPcs => conns'[job[b].id] # None
      BY <3>1, <3>3, <1>e, <1>i DEF JobSound, RefreshPcs
    <3>6. job[b].pc = "attach" => defs'[job[b].id] # None
      <4>1. job[b].pc # "attach"
        BY <1>r DEF Phases, Actors, RefreshPcs
      <4> QED BY <4>1
    <3> QED BY <3>1, <3>2, <3>4, <3>5, <3>6, JobSoundKept
  <2>3. ListsSound'
    <3>1. UNCHANGED <<genTodo, venTodo, doomed>>
      BY DEF AddBill, unchangedByRequests, bootVars
    <3>2. \A t \in genTodo : t.id \in DefIds /\ t.id \in 1..(nextDef - 1) /\ t.id # nextDef
      BY <1>d, <1>e DEF CopiesSound, ListsSound, TypeOK
    <3>3. \A i \in doomed : i \in DefIds /\ i # nextDef
      BY <1>e DEF CopiesSound, ListsSound, TypeOK, TablesInv, FreshIds
    <3>4. defs'[nextDef].sched \in had'[nextDef]
      BY <1>c, <1>d, <1>e DEF TypeOK
    <3>5. \A i \in DefIds : defs'[i] # None => defs'[i].sched \in had'[i]
      BY <1>e, <1>h, <3>4 DEF CopiesSound, ListsSound
    <3>6. \A t \in genTodo : t.id \in 1..(nextDef' - 1) /\ t.sched \in had'[t.id]
      BY <1>e, <1>h, <3>2 DEF CopiesSound, ListsSound
    <3> QED BY <1>e, <3>1, <3>3, <3>5, <3>6 DEF CopiesSound, ListsSound
  <2> QED BY <2>1, <2>2, <2>3 DEF CopiesSound
<1>5. HeldSound'
  BY <1>e DEF HeldSound, AddBill, unchangedByRequests
<1>6. EveryInstanceExplained'
  <2>1. \A k \in InstIds : insts[k] # None => insts[k].def \in DefIds /\ insts[k].def # nextDef
    BY <1>e DEF TypeOK, TablesTypeOK, Instance, TablesInv, FreshIds, NoOrphans
  <2> QED BY <1>e, <1>h, <2>1 DEF EveryInstanceExplained, Explained
<1> QED BY <1>1, <1>2, <1>3, <1>4, <1>5, <1>6 DEF IndInv, TablesInv

\* A handler finds a definition it may write.
LEMMA CheckNotManagedInv ==
    ASSUME IndInv, NEW r \in Requests, NEW i \in DefIds, NEW pc \in {"update", "delete"}, CheckNotManaged(r, i, pc)
    PROVE  IndInv'
<1> TypeOK /\ TablesInv /\ Phases /\ CopiesSound /\ HeldSound /\ EveryInstanceExplained
  BY DEF IndInv, TablesInv
<1>a. r \in Actors /\ r # Boot /\ r # Gen /\ r # Ven
  BY DEF Actors
<1>r. /\ job' \in [Actors -> Job] /\ phase = "run"
      /\ \A b \in Actors \ {r} : job'[b] = job[b]
      /\ job'[r].pc = pc /\ job'[r].id = i
  BY <1>a, AtType DEF CheckNotManaged, TypeOK, Pcs, Running
<1>1. TablesTypeOK' /\ TablesInv'
  BY UnchangedSound DEF TypeOK, CheckNotManaged, unchangedByRequests, bootVars
<1>2. TypeOK'
  BY <1>1, <1>r DEF TypeOK, CheckNotManaged, unchangedByRequests, bootVars
<1>3. Phases'
  BY <1>a, <1>r DEF Phases, CheckNotManaged, unchangedByRequests, bootVars, Actors, Boot, Gen, Ven
<1>4. CopiesSound'
  <2>1. JobSound(r)'
    <3>1. i \in 1..(nextDef - 1)
      BY DEF CheckNotManaged, TablesInv, FreshIds, TypeOK, TablesTypeOK, DefIds
    <3> QED BY <1>r, <3>1 DEF JobSound, RefreshPcs, CheckNotManaged, tables
  <2>2. ASSUME NEW b \in Actors \ {r} PROVE JobSound(b)'
    BY <1>r DEF CopiesSound, JobSound, CheckNotManaged, tables
  <2>3. ListsSound'
    BY DEF CopiesSound, ListsSound, CheckNotManaged, unchangedByRequests, bootVars, tables
  <2> QED BY <2>1, <2>2, <2>3 DEF CopiesSound
<1>5. HeldSound'
  BY DEF HeldSound, CheckNotManaged, unchangedByRequests, bootVars, tables
<1>6. EveryInstanceExplained'
  BY DEF EveryInstanceExplained, Explained, CheckNotManaged, unchangedByRequests, bootVars, tables
<1> QED BY <1>1, <1>2, <1>3, <1>4, <1>5, <1>6 DEF IndInv, TablesInv

\* A bill is edited on the settings page.
LEMMA UpdateBillInv ==
    ASSUME IndInv, NEW r \in Requests, UpdateBill(r)
    PROVE  IndInv'
<1> TypeOK /\ TablesInv /\ Phases /\ CopiesSound /\ HeldSound /\ EveryInstanceExplained
  BY DEF IndInv, TablesInv
<1>a. r \in Actors /\ r # Boot /\ r # Gen /\ r # Ven
  BY DEF Actors
<1> DEFINE i == job[r].id
<1>c. PICK n \in Names, s \in Schedules, m \in Amounts :
         /\ Update(i, n, s, m)
         /\ had' = IF defs[i] = None THEN had ELSE [had EXCEPT ![i] = @ \cup {s}]
         /\ job' = [job EXCEPT ![r] = GenerateJob(i, s)]
  BY DEF UpdateBill
<1>d. /\ i \in DefIds /\ i \in 1..(nextDef - 1) /\ nextDef \in Int
      /\ s \in AnySchedule /\ day \in 0..MaxDay
  BY <1>a, JobIds DEF AnySchedule, TypeOK, TablesTypeOK, UpdateBill, CopiesSound, JobSound
<1> HIDE DEF i
<1>e. /\ UNCHANGED <<nextDef, insts, nextInst, conns>>
      /\ \A j \in DefIds : /\ defs'[j] = None <=> defs[j] = None
                           /\ defs[j] # None => defs'[j].managed = defs[j].managed
                           /\ j # i => defs'[j] = defs[j]
      /\ defs[i] # None => defs'[i].sched = s
  BY <1>c, <1>d, UpdateEffect DEF TypeOK, AnySchedule
<1>h. \A j \in DefIds : had[j] \subseteq had'[j]
  BY <1>c DEF TypeOK
<1>i. \A j \in DefIds : conns[j] # None => conns'[j] # None
  BY <1>e
<1>r. /\ job' \in [Actors -> Job] /\ r \in Actors /\ r # Boot /\ r # Gen /\ r # Ven
      /\ \A b \in Actors \ {r} : job'[b] = job[b]
      /\ phase = "run"
      /\ job'[r].pc = "generate" /\ job'[r].id = i
      /\ \A d \in job'[r].dates : s # Vendor /\ d \in Occ[s]
  <2>1. phase = "run"
    BY <1>a DEF UpdateBill, Phases
  <2> QED BY <1>a, <1>c, <1>d, <2>1, GenerateJobType DEF TypeOK
<1>1. TablesTypeOK' /\ TablesInv'
  BY <1>c, <1>d, UpdateSound DEF TypeOK
<1>2. TypeOK'
  <2>1. had' \in [DefIds -> SUBSET AnySchedule]
    BY <1>c, <1>d DEF TypeOK
  <2> QED BY <1>1, <1>r, <2>1 DEF TypeOK, UpdateBill, unchangedByRequests, bootVars
<1>3. Phases'
  BY <1>r DEF Phases, UpdateBill, unchangedByRequests, bootVars, Actors, Boot, Gen, Ven
<1>4. CopiesSound'
  <2>1. JobSound(r)'
    <3>1. job'[r].id \in 1..(nextDef' - 1)
      BY <1>d, <1>e, <1>r
    <3>2. defs'[i] # None => s \in had'[i]
      BY <1>c, <1>d, <1>e DEF TypeOK
    <3> QED BY <1>r, <3>1, <3>2 DEF JobSound, RefreshPcs
  <2>2. ASSUME NEW b \in Actors \ {r} PROVE JobSound(b)'
    <3>1. JobSound(b) /\ job'[b] = job[b]
      BY <1>r DEF CopiesSound
    <3>2. nextDef' \in Int /\ nextDef' >= nextDef
      BY <1>1, <1>e DEF TypeOK, TablesTypeOK
    <3>3. job[b].pc \notin {"idle", "remove"} => job[b].id \in DefIds /\ job[b].id \in 1..(nextDef - 1)
      BY JobIds DEF CopiesSound, JobSound
    <3>4. job[b].pc \notin {"idle", "remove"} =>
             /\ defs'[job[b].id] # None =>
                   defs[job[b].id] # None /\ defs'[job[b].id].managed = defs[job[b].id].managed
             /\ had[job[b].id] \subseteq had'[job[b].id]
      BY <3>3, <1>d, <1>e, <1>h
    <3>5. job[b].pc \in RefreshPcs => conns'[job[b].id] # None
      BY <3>1, <3>3, <1>e, <1>i DEF JobSound, RefreshPcs
    <3>6. job[b].pc = "attach" => defs'[job[b].id] # None
      <4>1. job[b].pc # "attach"
        BY <1>r DEF Phases, Actors, RefreshPcs
      <4> QED BY <4>1
    <3> QED BY <3>1, <3>2, <3>4, <3>5, <3>6, JobSoundKept
  <2>3. ListsSound'
    <3>1. UNCHANGED <<genTodo, venTodo, doomed>>
      BY DEF UpdateBill, unchangedByRequests, bootVars
    <3>3. \A j \in doomed : j \in DefIds
      BY DEF TypeOK
    <3>5. \A j \in DefIds : defs'[j] # None => defs'[j].sched \in had'[j]
      BY <1>c, <1>d, <1>e, <1>h DEF CopiesSound, ListsSound, TypeOK
    <3>6. \A t \in genTodo : t.id \in 1..(nextDef' - 1) /\ t.sched \in had'[t.id]
      BY <1>e, <1>h DEF CopiesSound, ListsSound, TypeOK
    <3> QED BY <1>e, <3>1, <3>3, <3>5, <3>6 DEF CopiesSound, ListsSound
  <2> QED BY <2>1, <2>2, <2>3 DEF CopiesSound
<1>5. HeldSound'
  BY <1>e DEF HeldSound, UpdateBill, unchangedByRequests
<1>6. EveryInstanceExplained'
  <2>1. \A k \in InstIds : insts[k] # None => insts[k].def \in DefIds
    BY DEF TypeOK, TablesTypeOK, Instance
  <2> QED BY <1>e, <1>h, <2>1 DEF EveryInstanceExplained, Explained
<1> QED BY <1>1, <1>2, <1>3, <1>4, <1>5, <1>6 DEF IndInv, TablesInv

\* A bill is deleted on the settings page.
LEMMA DeleteBillInv ==
    ASSUME IndInv, NEW r \in Requests, DeleteBill(r)
    PROVE  IndInv'
<1> TypeOK /\ TablesInv /\ Phases /\ CopiesSound /\ HeldSound /\ EveryInstanceExplained
  BY DEF IndInv, TablesInv
<1>a. r \in Actors /\ r # Boot /\ r # Gen /\ r # Ven
  BY DEF Actors
<1> DEFINE i == job[r].id
<1>d. i \in DefIds /\ nextDef \in Int /\ conns[i] = None
  BY <1>a, JobIds DEF TypeOK, TablesTypeOK, DeleteBill, CopiesSound, JobSound, TablesInv, ConnsManaged
<1>e. /\ UNCHANGED <<nextDef, nextInst>>
      /\ defs'[i] = None /\ conns'[i] = None
      /\ \A j \in DefIds : j # i => defs'[j] = defs[j] /\ conns'[j] = conns[j]
      /\ \A k \in InstIds : insts'[k] # None => insts'[k] = insts[k] /\ insts[k].def # i
  BY <1>d, DeleteEffect DEF TypeOK, DeleteBill
<1> HIDE DEF i
<1>h. UNCHANGED had
  BY DEF DeleteBill
<1>i. \A j \in DefIds : conns[j] # None => conns'[j] # None
  BY <1>d, <1>e
<1>r. /\ job' \in [Actors -> Job] /\ r \in Actors /\ r # Boot /\ r # Gen /\ r # Ven
      /\ \A b \in Actors \ {r} : job'[b] = job[b]
      /\ phase = "run"
      /\ job'[r].pc = "idle"
  <2>1. phase = "run"
    BY <1>a DEF DeleteBill, Phases
  <2> QED BY <1>a, <2>1, IdleType DEF TypeOK, DeleteBill
<1>1. TablesTypeOK' /\ TablesInv'
  BY <1>d, DeleteSound DEF TypeOK, DeleteBill, i
<1>2. TypeOK'
  BY <1>1, <1>r DEF TypeOK, DeleteBill, unchangedByRequests, bootVars
<1>3. Phases'
  BY <1>r DEF Phases, DeleteBill, unchangedByRequests, bootVars, Actors, Boot, Gen, Ven
<1>4. CopiesSound'
  <2>1. JobSound(r)'
    BY <1>r DEF JobSound, RefreshPcs
  <2>2. ASSUME NEW b \in Actors \ {r} PROVE JobSound(b)'
    <3>1. JobSound(b) /\ job'[b] = job[b]
      BY <1>r DEF CopiesSound
    <3>2. nextDef' \in Int /\ nextDef' >= nextDef
      BY <1>1, <1>e DEF TypeOK, TablesTypeOK
    <3>3. job[b].pc \notin {"idle", "remove"} => job[b].id \in DefIds /\ job[b].id \in 1..(nextDef - 1)
      BY JobIds DEF CopiesSound, JobSound
    <3>4. job[b].pc \notin {"idle", "remove"} =>
             /\ defs'[job[b].id] # None =>
                   defs[job[b].id] # None /\ defs'[job[b].id].managed = defs[job[b].id].managed
             /\ had[job[b].id] \subseteq had'[job[b].id]
      BY <3>3, <1>d, <1>e, <1>h
    <3>5. job[b].pc \in RefreshPcs => conns'[job[b].id] # None
      BY <3>1, <3>3, <1>e, <1>i DEF JobSound, RefreshPcs
    <3>6. job[b].pc = "attach" => defs'[job[b].id] # None
      <4>1. job[b].pc # "attach"
        BY <1>r DEF Phases, Actors, RefreshPcs
      <4> QED BY <4>1
    <3> QED BY <3>1, <3>2, <3>4, <3>5, <3>6, JobSoundKept
  <2>3. ListsSound'
    <3>1. UNCHANGED <<genTodo, venTodo, doomed>> /\ doomed = {}
      BY <1>r DEF DeleteBill, unchangedByRequests, bootVars, Phases
    <3>2. \A j \in venTodo : j \in DefIds
      BY DEF TypeOK
    <3> QED BY <1>d, <1>e, <1>h, <1>i, <3>1, <3>2 DEF CopiesSound, ListsSound
  <2> QED BY <2>1, <2>2, <2>3 DEF CopiesSound
<1>5. HeldSound'
  BY <1>e DEF HeldSound, DeleteBill, unchangedByRequests, TypeOK, Shown
<1>6. EveryInstanceExplained'
  <2>1. \A k \in InstIds : insts[k] # None => insts[k].def \in DefIds
    BY DEF TypeOK, TablesTypeOK, Instance
  <2> QED BY <1>e, <1>h, <1>i, <2>1 DEF EveryInstanceExplained, Explained
<1> QED BY <1>1, <1>2, <1>3, <1>4, <1>5, <1>6 DEF IndInv, TablesInv

\* A handler gives up.
LEMMA RequestFailsInv ==
    ASSUME IndInv, NEW r \in Requests, RequestFails(r)
    PROVE  IndInv'
<1> TypeOK /\ TablesInv /\ Phases /\ CopiesSound /\ HeldSound /\ EveryInstanceExplained
  BY DEF IndInv, TablesInv
<1>1. TablesTypeOK' /\ TablesInv'
  BY UnchangedSound DEF TypeOK, RequestFails, unchangedByRequests, bootVars
<1>2. TypeOK'
  BY <1>1, IdleType DEF TypeOK, RequestFails, unchangedByRequests, bootVars
<1>3. Phases'
  BY IdleType DEF Phases, TypeOK, RequestFails, unchangedByRequests, bootVars, Actors, Boot, Gen, Ven, RefreshPcs
<1>4. CopiesSound'
  BY IdleType DEF CopiesSound, JobSound, ListsSound, Phases, TypeOK, RequestFails, unchangedByRequests, bootVars, tables, RefreshPcs
<1>5. HeldSound'
  BY DEF HeldSound, RequestFails, unchangedByRequests, bootVars, tables
<1>6. EveryInstanceExplained'
  BY DEF EveryInstanceExplained, Explained, RequestFails, unchangedByRequests, bootVars, tables
<1> QED BY <1>1, <1>2, <1>3, <1>4, <1>5, <1>6 DEF IndInv, TablesInv

\* hhq is shown an instance.
LEMMA ShowInv ==
    ASSUME IndInv, NEW k \in InstIds, Show(k)
    PROVE  IndInv'
<1> TypeOK /\ TablesInv /\ Phases /\ CopiesSound /\ HeldSound /\ EveryInstanceExplained
  BY DEF IndInv, TablesInv
<1>1. TablesTypeOK' /\ TablesInv'
  BY UnchangedSound DEF TypeOK, Show, bootVars
<1>2. TypeOK'
  <2>1. held' \in Shown
    BY DEF Show, TypeOK, TablesTypeOK, Instance, Shown
  <2> QED BY <1>1, <2>1 DEF TypeOK, Show, bootVars
<1>3. Phases'
  BY DEF Phases, TypeOK, Show, bootVars, Actors, Boot, Gen, Ven, RefreshPcs
<1>4. CopiesSound'
  BY DEF CopiesSound, JobSound, ListsSound, Phases, TypeOK, Show, bootVars, tables, RefreshPcs
<1>5. HeldSound'
  <2>1. k < nextInst /\ held' = [id |-> k, def |-> insts[k].def, due |-> insts[k].due]
    BY DEF Show, TablesInv, FreshIds, InstIds, TypeOK, TablesTypeOK
  <2> QED BY <2>1 DEF HeldSound, Show, tables
<1>6. EveryInstanceExplained'
  BY DEF EveryInstanceExplained, Explained, Show, bootVars, tables
<1> QED BY <1>1, <1>2, <1>3, <1>4, <1>5, <1>6 DEF IndInv, TablesInv

\* hhq marks an instance paid.
LEMMA MarkPaidActionInv ==
    ASSUME IndInv, MarkPaidAction
    PROVE  IndInv'
<1> TypeOK /\ TablesInv /\ Phases /\ CopiesSound /\ HeldSound /\ EveryInstanceExplained
  BY DEF IndInv, TablesInv
<1>a. held.id \in InstIds
  BY DEF MarkPaidAction, TypeOK, Shown
<1>b. \A k \in InstIds : insts'[k] # None =>
         insts[k] # None /\ insts'[k].def = insts[k].def /\ insts'[k].due = insts[k].due
  BY <1>a DEF MarkPaidAction, MarkPaid, TypeOK, TablesTypeOK, Instance
<1>1. TablesTypeOK' /\ TablesInv'
  BY <1>a, MarkPaidSound DEF TypeOK, MarkPaidAction
<1>2. TypeOK'
  BY <1>1 DEF TypeOK, MarkPaidAction, bootVars
<1>3. Phases'
  BY DEF Phases, MarkPaidAction, bootVars
<1>4. CopiesSound'
  BY DEF CopiesSound, JobSound, ListsSound, MarkPaidAction, MarkPaid, bootVars
<1>5. HeldSound'
  BY <1>a, <1>b DEF HeldSound, MarkPaidAction, MarkPaid
<1>6. EveryInstanceExplained'
  BY <1>b DEF EveryInstanceExplained, Explained, MarkPaidAction, MarkPaid
<1> QED BY <1>1, <1>2, <1>3, <1>4, <1>5, <1>6 DEF IndInv, TablesInv

-----------------------------------------------------------------------------
(* The invariant *)

\* Empty tables and idle processes satisfy the invariant.
LEMMA InitInv == Init => IndInv
<1> SUFFICES ASSUME Init PROVE IndInv
  OBVIOUS
<1>1. TypeOK
  <2>1. job \in [Actors -> Job]
    BY IdleType DEF Init
  <2>2. TablesTypeOK
    BY DEF Init, TablesInit, TablesTypeOK
  <2>3. failed \in BOOLEAN
    BY DEF Init
  <2>4. day \in 0..MaxDay /\ stops \in 0..MaxStops /\ pos \in Nat \ {0}
    BY DEF Init
  <2> QED BY <2>1, <2>2, <2>3, <2>4 DEF Init, TypeOK
<1>2. FreshIds /\ NoOrphans /\ OneInstancePerOccurrence /\ ConnsManaged /\ EveryInstanceExplained
  BY DEF Init, TablesInit, FreshIds, NoOrphans, OneInstancePerOccurrence, ConnsManaged,
         EveryInstanceExplained
<1>3. \A a \in Actors : job[a].pc = "idle"
  BY IdleType DEF Init
<1>4. Phases
  BY <1>3 DEF Init, Phases, Actors
<1>5. CopiesSound
  BY <1>3 DEF Init, TablesInit, CopiesSound, JobSound, ListsSound, RefreshPcs
<1>6. HeldSound
  BY DEF Init, HeldSound
<1> QED BY <1>1, <1>2, <1>4, <1>5, <1>6 DEF IndInv

\* A step that changes nothing keeps the invariant.
LEMMA StutterInv ==
    ASSUME IndInv, UNCHANGED vars
    PROVE  IndInv'
<1> TypeOK /\ TablesInv /\ Phases /\ CopiesSound /\ HeldSound /\ EveryInstanceExplained
  BY DEF IndInv, TablesInv
<1>1. TablesTypeOK' /\ TablesInv'
  BY UnchangedSound DEF TypeOK, vars
<1>2. TypeOK'
  BY <1>1 DEF TypeOK, vars, bootVars
<1>3. Phases' /\ HeldSound'
  BY DEF Phases, HeldSound, vars, bootVars, tables
<1>4. CopiesSound'
  BY DEF CopiesSound, JobSound, ListsSound, vars, bootVars, tables
<1>5. EveryInstanceExplained'
  BY DEF EveryInstanceExplained, Explained, vars, tables
<1> QED BY <1>1, <1>2, <1>3, <1>4, <1>5 DEF IndInv, TablesInv

\* Every step keeps the invariant: one case per action of Next.
LEMMA NextInv ==
    ASSUME IndInv, [Next]_vars
    PROVE  IndInv'
<1>1. CASE UNCHANGED vars
  BY <1>1, StutterInv
<1>2. CASE Start \/ Stop \/ Midnight \/ \E i \in DefIds : SyncAges(i)
  BY <1>2, StartInv, StopInv, MidnightInv, SyncAgesInv
<1>3. CASE Bootstrap
  <2>1. CASE BootEntry
    BY <2>1, BootInvalidInv, BootCreateInv, BootCollisionInv, BootUpdateInv, BootEntryFailsInv
    DEF BootEntry
  <2> QED BY <1>3, <2>1, AttachVendorConnectionInv, AttachFailsInv, BootListAllInv,
             BootRemoveInv, BootDoneInv DEF Bootstrap
<1>4. CASE \E a \in Actors : Generate(a)
  BY <1>4, GenerateNextInv, GenerateDoneInv, GenerateFailsInv DEF Generate
<1>5. CASE \E a \in {Boot, Ven} : Refresh(a)
  BY <1>5, FetchInv, RefreshAmountInv, RefreshInstanceInv, RefreshEndsInv DEF Refresh
<1>6. CASE GenTick \/ GenNext \/ VenTick \/ VenNext
  BY <1>6, GenTickInv, GenNextInv, VenTickInv, VenNextInv
<1>7. CASE \E r \in Requests : Request(r)
  BY <1>7, AddBillInv, UpdateBillInv, DeleteBillInv, RequestFailsInv, CheckNotManagedInv
  DEF Request
<1>8. CASE MarkPaidAction \/ \E k \in InstIds : Show(k)
  BY <1>8, ShowInv, MarkPaidActionInv
<1> QED BY <1>1, <1>2, <1>3, <1>4, <1>5, <1>6, <1>7, <1>8 DEF Next

\* IndInv holds in every reachable state, for every value of the constants.
THEOREM Invariance == Spec => []IndInv
<1>1. Init => IndInv
  BY InitInv
<1>2. IndInv /\ [Next]_vars => IndInv'
  BY NextInv
<1> QED BY <1>1, <1>2, PTL DEF Spec

\* The tables, the jobs and the lists keep their types.
THEOREM TypeCorrect == Spec => []TypeOK
<1>1. IndInv => TypeOK
  BY DEF IndInv
<1> QED BY <1>1, Invariance, PTL

\* No instance and no vendor connection outlives its bill, although generators
\* and handlers act on copies and on ids they checked earlier.
THEOREM OrphanFree == Spec => []NoOrphans
<1>1. IndInv => NoOrphans
  BY DEF IndInv
<1> QED BY <1>1, Invariance, PTL

\* No occurrence of a bill is ever recorded twice.
THEOREM OccurrencesUnique == Spec => []OneInstancePerOccurrence
<1>1. IndInv => OneInstancePerOccurrence
  BY DEF IndInv
<1> QED BY <1>1, Invariance, PTL

\* A stale copy never gives a bill a date that it never fell on.
THEOREM InstancesExplained == Spec => []EveryInstanceExplained
<1>1. IndInv => EveryInstanceExplained
  BY DEF IndInv
<1> QED BY <1>1, Invariance, PTL

-----------------------------------------------------------------------------
(* What a step does to the tables *)

\* Who may write definition i now: bills.json during Boot, the settings page after.
MayWrite(i) == \/ phase = "boot" /\ defs[i] # None /\ defs[i].managed
               \/ phase = "run" /\ (defs[i] = None \/ ~defs[i].managed)

Statement ==
    \/ UNCHANGED <<defs, nextDef, insts, nextInst>>
    \/ \E d \in Definition : Create(d)
    \/ \E i \in DefIds, n \in Names, s \in AnySchedule, a \in Amounts :
          MayWrite(i) /\ Update(i, n, s, a)
    \/ \E i \in DefIds, a \in Amounts :
          defs[i] # None /\ defs[i].managed /\ UpdateAmount(i, a)
    \/ \E i \in DefIds : MayWrite(i) /\ Delete(i)
    \/ \E i \in DefIds, d \in Days : EnsureInstance(i, d)
    \/ held # None /\ held.id \in InstIds /\ MarkPaid(held.id)

\* Every step runs at most one statement, with the rights its process has.
LEMMA StepIsStatement ==
    ASSUME IndInv, [Next]_vars
    PROVE  Statement
<1> TypeOK /\ TablesInv /\ Phases /\ CopiesSound /\ HeldSound /\ EveryInstanceExplained
  BY DEF IndInv, TablesInv
<1>1. CASE UNCHANGED vars
  BY <1>1 DEF vars, tables, Statement
<1>2. CASE Start \/ Stop \/ Midnight \/ \E i \in DefIds : SyncAges(i)
  BY <1>2 DEF Start, Stop, Midnight, SyncAges, tables, Statement
<1>3. CASE BootEntry
  <2>1. phase = "boot" /\ entry \in Entry
    BY <1>3 DEF BootEntry, Phases, TypeOK, entry
  <2>2. CASE BootInvalid \/ BootCollision \/ BootEntryFails
    BY <2>2 DEF BootInvalid, BootCollision, BootEntryFails, NextEntry, tables, Statement
  <2>3. CASE BootCreate
    <3>1. [name |-> entry.name, sched |-> entry.sched, amt |-> entry.amt, managed |-> TRUE] \in Definition
      BY <2>1 DEF Entry, Definition
    <3> QED BY <2>3, <3>1 DEF BootCreate, Statement
  <2>4. CASE BootUpdate
    <3>1. PICK i \in GetByName(entry.name) :
             /\ defs[i].managed
             /\ Update(i, defs[i].name, entry.sched,
                       IF entry.sched = Vendor THEN defs[i].amt ELSE entry.amt)
      BY <2>4 DEF BootUpdate, UpdateBootstrap
    <3>2. /\ i \in DefIds /\ defs[i] # None /\ defs[i].name \in Names
          /\ entry.sched \in AnySchedule
          /\ (IF entry.sched = Vendor THEN defs[i].amt ELSE entry.amt) \in Amounts
      BY <2>1, <3>1 DEF GetByName, Entry, Definition, TypeOK, TablesTypeOK
    <3>3. MayWrite(i)
      BY <2>1, <3>1, <3>2 DEF MayWrite
    <3> QED BY <3>1, <3>2, <3>3 DEF Statement
  <2> QED BY <1>3, <2>2, <2>3, <2>4 DEF BootEntry
<1>4. CASE AttachVendorConnection \/ AttachFails \/ BootListAll \/ BootDone
  BY <1>4 DEF AttachVendorConnection, AttachFails, BootListAll, BootDone, Upsert, tables, Statement
<1>5. CASE BootRemove
  <2>1. PICK i \in doomed : Delete(i) \/ UNCHANGED tables
    BY <1>5 DEF BootRemove
  <2>2. i \in DefIds /\ MayWrite(i)
    BY <1>5 DEF BootRemove, Phases, CopiesSound, ListsSound, TypeOK, MayWrite
  <2> QED BY <2>1, <2>2 DEF tables, Statement
<1>6. ASSUME NEW a \in Actors, Generate(a) PROVE Statement
  <2>1. CASE GenerateDone(a) \/ GenerateFails(a)
    BY <2>1 DEF GenerateDone, GenerateFails, tables, Statement
  <2>2. CASE GenerateNext(a)
    <3>1. job[a] \in Job /\ job[a].id \in DefIds
      BY <2>2, JobIds DEF GenerateNext
    <3>2. PICK d \in job[a].dates : EnsureInstance(job[a].id, d)
      BY <2>2 DEF GenerateNext
    <3>3. d \in Days
      BY <3>1 DEF Job
    <3> QED BY <3>1, <3>2, <3>3 DEF Statement
  <2> QED BY <1>6, <2>1, <2>2 DEF Generate
<1>7. ASSUME NEW a \in {Boot, Ven}, Refresh(a) PROVE Statement
  <2> a \in Actors
    BY DEF Actors
  <2>1. /\ job[a] \in Job /\ job[a].id \in DefIds
        /\ defs[job[a].id] # None /\ defs[job[a].id].managed
    BY <1>7, JobIds DEF Refresh, Fetch, RefreshAmount, RefreshInstance, RefreshEnds,
                        CopiesSound, JobSound, RefreshPcs, TablesInv, ConnsManaged
  <2>2. CASE Fetch(a) \/ RefreshEnds(a)
    BY <2>2 DEF Fetch, RefreshEnds, MarkSynced, tables, Statement
  <2>3. CASE RefreshAmount(a)
    <3>1. job[a].amt \in Amounts
      BY <2>1 DEF Job
    <3> QED BY <2>1, <2>3, <3>1 DEF RefreshAmount, tables, Statement
  <2>4. CASE RefreshInstance(a)
    <3>1. job[a].due \in Days
      BY <2>1 DEF Job
    <3> QED BY <2>1, <2>4, <3>1 DEF RefreshInstance, tables, Statement
  <2> QED BY <1>7, <2>2, <2>3, <2>4 DEF Refresh
<1>8. CASE GenTick \/ GenNext \/ VenTick \/ VenNext
  BY <1>8 DEF GenTick, GenNext, VenTick, VenNext, tables, Statement
<1>9. ASSUME NEW r \in Requests, Request(r) PROVE Statement
  <2>a. r \in Actors /\ r # Boot
    BY DEF Actors
  <2>1. CASE RequestFails(r) \/ \E i \in DefIds, pc \in {"update", "delete"} : CheckNotManaged(r, i, pc)
    BY <2>1 DEF RequestFails, CheckNotManaged, tables, Statement
  <2>2. CASE AddBill(r)
    <3>1. \A n \in Names, s \in Schedules, a \in Amounts :
             [name |-> n, sched |-> s, amt |-> a, managed |-> FALSE] \in Definition
      BY DEF Definition, AnySchedule
    <3> QED BY <2>2, <3>1 DEF AddBill, Statement
  <2>3. CASE UpdateBill(r) \/ DeleteBill(r)
    <3>1. phase = "run" /\ job[r].id \in DefIds /\ MayWrite(job[r].id)
      BY <2>a, <2>3, JobIds DEF UpdateBill, DeleteBill, Phases, CopiesSound, JobSound, MayWrite
    <3>2. CASE UpdateBill(r)
      <4>1. PICK n \in Names, s \in Schedules, a \in Amounts : Update(job[r].id, n, s, a)
        BY <3>2 DEF UpdateBill
      <4>2. s \in AnySchedule
        BY DEF AnySchedule
      <4> QED BY <3>1, <4>1, <4>2 DEF Statement
    <3>3. CASE DeleteBill(r)
      BY <3>1, <3>3 DEF DeleteBill, Statement
    <3> QED BY <2>3, <3>2, <3>3
  <2> QED BY <1>9, <2>1, <2>2, <2>3 DEF Request
<1>10. CASE MarkPaidAction \/ \E k \in InstIds : Show(k)
  BY <1>10 DEF MarkPaidAction, Show, TypeOK, Shown, tables, Statement
<1> QED BY <1>1, <1>2, <1>3, <1>4, <1>5, <1>6, <1>7, <1>8, <1>9, <1>10 DEF Next, Bootstrap

\* The managed definitions belong to bills.json and the others to the settings
\* page, in every step of every process.
THEOREM Ownership == Spec => OwnershipRespected
<1>1. IndInv /\ [Next]_vars => [OwnershipStep]_vars
  <2> SUFFICES ASSUME IndInv, [Next]_vars,
                      NEW i \in DefIds, defs[i] # None, defs'[i] # defs[i]
               PROVE  IF defs[i].managed
                      THEN phase = "boot" \/ SameButAmount(defs[i], defs'[i])
                      ELSE phase = "run"
    BY DEF OwnershipStep
  <2> TypeOK /\ TablesInv
    BY DEF IndInv, TablesInv
  <2>1. CASE \E d \in Definition : Create(d)
    BY <2>1 DEF Create, TypeOK, TablesTypeOK, TablesInv, FreshIds, DefIds
  <2>2. CASE \E j \in DefIds, n \in Names, s \in AnySchedule, a \in Amounts :
                MayWrite(j) /\ Update(j, n, s, a)
    BY <2>2 DEF Update, MayWrite, TypeOK, TablesTypeOK
  <2>3. CASE \E j \in DefIds, a \in Amounts :
                defs[j] # None /\ defs[j].managed /\ UpdateAmount(j, a)
    <3>1. PICK j \in DefIds, a \in Amounts :
             defs[j] # None /\ defs[j].managed /\ UpdateAmount(j, a)
      BY <2>3
    <3>2. i = j
      BY <3>1 DEF UpdateAmount, TypeOK, TablesTypeOK
    <3>3. SameButAmount(defs[i], defs'[i])
      BY <3>1, <3>2, UpdateAmountEffect DEF SameButAmount, TypeOK
    <3> QED BY <3>1, <3>2, <3>3
  <2>4. CASE \E j \in DefIds : MayWrite(j) /\ Delete(j)
    BY <2>4 DEF Delete, MayWrite, TypeOK, TablesTypeOK
  <2> QED BY <2>1, <2>2, <2>3, <2>4, StepIsStatement DEF Statement, EnsureInstance, MarkPaid
<1> QED BY <1>1, Invariance, PTL DEF Spec, OwnershipRespected

\* Paying is for good while the bill exists.
THEOREM PaidForGood == Spec => PaidStaysPaid
<1>1. IndInv /\ [Next]_vars => [PaidStaysStep]_vars
  <2> SUFFICES ASSUME IndInv, [Next]_vars,
                      NEW i \in DefIds, NEW d \in Days, Paid(i, d), defs'[i] # None
               PROVE  Paid(i, d)'
    BY DEF PaidStaysStep
  <2> TypeOK /\ TablesInv
    BY DEF IndInv, TablesInv
  <2>0. PICK k \in InstIds : insts[k] # None /\ insts[k].def = i /\ insts[k].due = d /\ insts[k].paid
    BY DEF Paid
  <2>1. CASE \E j \in DefIds : MayWrite(j) /\ Delete(j)
    BY <2>0, <2>1 DEF Delete, Paid, TypeOK, TablesTypeOK
  <2>2. CASE \E j \in DefIds, e \in Days : EnsureInstance(j, e)
    <3>1. k < nextInst
      BY <2>0 DEF TablesInv, FreshIds, InstIds, TypeOK, TablesTypeOK
    <3>2. insts'[k] = insts[k]
      BY <2>2, <3>1, EnsureInstanceEffect DEF TypeOK
    <3> QED BY <2>0, <3>2 DEF Paid
  <2>3. CASE held # None /\ held.id \in InstIds /\ MarkPaid(held.id)
    <3>1. insts'[k] # None /\ insts'[k].def = i /\ insts'[k].due = d /\ insts'[k].paid
      BY <2>0, <2>3, MarkPaidSound DEF MarkPaid, TypeOK, TablesTypeOK, Instance
    <3> QED BY <3>1 DEF Paid
  <2>4. CASE UNCHANGED insts
    BY <2>0, <2>4 DEF Paid
  <2> QED BY <2>1, <2>2, <2>3, <2>4, StepIsStatement
          DEF Statement, Create, Update, UpdateAmount
<1> QED BY <1>1, Invariance, PTL DEF Spec, PaidStaysPaid

\* A late or repeated "mark paid" pays what hhq was shown, or nothing.
THEOREM PaysShown == Spec => PaysWhatWasShown
<1>1. IndInv /\ [Next]_vars => [PaysShownStep]_vars
  <2> SUFFICES ASSUME IndInv, [Next]_vars, NEW k \in InstIds,
                      insts[k] # None, ~insts[k].paid, insts'[k] # None, insts'[k].paid
               PROVE  held = [id |-> k, def |-> insts[k].def, due |-> insts[k].due]
    BY DEF PaysShownStep
  <2> TypeOK /\ TablesInv /\ HeldSound
    BY DEF IndInv, TablesInv
  <2>1. insts'[k] # insts[k]
    OBVIOUS
  <2>2. CASE \E j \in DefIds : MayWrite(j) /\ Delete(j)
    BY <2>1, <2>2 DEF Delete, TypeOK, TablesTypeOK
  <2>3. CASE \E j \in DefIds, e \in Days : EnsureInstance(j, e)
    <3>1. k < nextInst
      BY DEF TablesInv, FreshIds, InstIds, TypeOK, TablesTypeOK
    <3> QED BY <2>1, <2>3, <3>1, EnsureInstanceEffect DEF TypeOK
  <2>4. CASE held # None /\ held.id \in InstIds /\ MarkPaid(held.id)
    <3>1. k = held.id
      BY <2>1, <2>4 DEF MarkPaid, TypeOK, TablesTypeOK
    <3> QED BY <2>4, <3>1 DEF HeldSound, TypeOK, Shown
  <2> QED BY <2>1, <2>2, <2>3, <2>4, StepIsStatement
          DEF Statement, Create, Update, UpdateAmount
<1> QED BY <1>1, Invariance, PTL DEF Spec, PaysWhatWasShown

-----------------------------------------------------------------------------
(* The refinement *)

\* Which occurrences a bill has depends on the instances only.
LEMMA OccurrenceKept ==
    ASSUME UNCHANGED insts
    PROVE  UNCHANGED occurrence
BY DEF occurrence, Paid, Has

\* Which bills are open depends on which definitions exist only.
LEMMA BillKept ==
    ASSUME nextDef' = nextDef, \A j \in DefIds : defs'[j] = None <=> defs[j] = None
    PROVE  UNCHANGED bill
BY DEF bill

\* Every step of the plugin is one step of the ledger, or none.
LEMMA StepRefines ==
    ASSUME IndInv, [Next]_vars
    PROVE  [Ledger!Next]_<<bill, occurrence>>
<1> TypeOK /\ TablesInv /\ HeldSound
  BY DEF IndInv, TablesInv
<1>0. \A k \in InstIds : insts[k] # None => insts[k].def \in DefIds /\ insts[k].due \in Days
  BY DEF TypeOK, TablesTypeOK, Instance
<1>1. CASE UNCHANGED <<defs, nextDef, insts, nextInst>>
  BY <1>1, OccurrenceKept, BillKept
<1>2. ASSUME NEW d \in Definition, Create(d)
      PROVE  [Ledger!Next]_<<bill, occurrence>>
  <2>1. /\ nextDef \in DefIds /\ nextDef' = nextDef + 1 /\ nextDef \in Int
        /\ insts' = insts
        /\ defs'[nextDef] # None
        /\ \A j \in DefIds : j # nextDef => defs'[j] = defs[j]
    BY <1>2, CreateEffect DEF TypeOK
  <2>2. bill[nextDef] = "free"
    BY <2>1 DEF bill
  <2>3. bill' = [bill EXCEPT ![nextDef] = "open"]
    <3>1. \A j \in DefIds : j >= nextDef' <=> j >= nextDef /\ j # nextDef
      BY <2>1 DEF DefIds
    <3>2. \A j \in DefIds : bill'[j] = IF j = nextDef THEN "open" ELSE bill[j]
      BY <2>1, <3>1 DEF bill
    <3> QED BY <2>1, <3>2 DEF bill
  <2>4. Ledger!Open(nextDef)
    BY <2>1, <2>2, <2>3, OccurrenceKept DEF Ledger!Open
  <2> QED BY <2>1, <2>4 DEF Ledger!Next
<1>3. ASSUME NEW i \in DefIds, NEW n \in Names, NEW s \in AnySchedule, NEW a \in Amounts,
             Update(i, n, s, a)
      PROVE  [Ledger!Next]_<<bill, occurrence>>
  BY <1>3, UpdateEffect, OccurrenceKept, BillKept DEF TypeOK
<1>4. ASSUME NEW i \in DefIds, NEW a \in Amounts, UpdateAmount(i, a)
      PROVE  [Ledger!Next]_<<bill, occurrence>>
  BY <1>4, UpdateAmountEffect, OccurrenceKept, BillKept DEF TypeOK
<1>5. ASSUME NEW i \in DefIds, Delete(i)
      PROVE  [Ledger!Next]_<<bill, occurrence>>
  <2>1. /\ nextDef' = nextDef /\ defs'[i] = None
        /\ \A j \in DefIds : j # i => defs'[j] = defs[j]
        /\ \A k \in InstIds : /\ insts'[k] # None => insts'[k] = insts[k] /\ insts[k].def # i
                              /\ insts[k] # None /\ insts[k].def # i => insts'[k] = insts[k]
    BY <1>5, DeleteEffect DEF TypeOK
  <2>2. \A j \in DefIds, d \in Days :
           /\ j # i => (Has(j, d)' <=> Has(j, d)) /\ (Paid(j, d)' <=> Paid(j, d))
           /\ ~Has(i, d)' /\ ~Paid(i, d)'
    BY <2>1 DEF Has, Paid
  <2>3. occurrence' = [occurrence EXCEPT ![i] = [d \in Days |-> "none"]]
    BY <2>2 DEF occurrence
  <2>4. CASE defs[i] = None
    <3>1. \A d \in Days : ~Has(i, d) /\ ~Paid(i, d)
      BY <2>4 DEF Has, Paid, TablesInv, NoOrphans
    <3>2. UNCHANGED occurrence
      BY <2>2, <3>1 DEF occurrence
    <3> QED BY <2>1, <2>4, <3>2, BillKept
  <2>5. CASE defs[i] # None
    <3>1. i < nextDef /\ i \in Int /\ nextDef \in Int
      BY <2>5 DEF TablesInv, FreshIds, TypeOK, TablesTypeOK, DefIds
    <3>2. bill[i] = "open"
      BY <2>5, <3>1 DEF bill
    <3>3. bill' = [bill EXCEPT ![i] = "gone"]
      <4>1. bill'[i] = "gone"
        <5>1. ~(i >= nextDef') /\ defs'[i] = None
          BY <2>1, <3>1
        <5> QED BY <5>1 DEF bill
      <4>2. ASSUME NEW j \in DefIds, j # i
            PROVE  bill'[j] = bill[j]
        <5>1. defs'[j] = defs[j] /\ nextDef' = nextDef
          BY <2>1, <4>2
        <5> QED BY <5>1 DEF bill
      <4> QED BY <4>1, <4>2 DEF bill
    <3>4. Ledger!Close(i)
      BY <2>3, <3>2, <3>3 DEF Ledger!Close
    <3> QED BY <3>4 DEF Ledger!Next
  <2> QED BY <2>4, <2>5
<1>6. ASSUME NEW i \in DefIds, NEW d \in Days, EnsureInstance(i, d)
      PROVE  [Ledger!Next]_<<bill, occurrence>>
  <2>1. defs[i] # None /\ UNCHANGED <<defs, nextDef>>
    BY <1>6 DEF EnsureInstance
  <2>2. CASE UNCHANGED insts
    BY <2>1, <2>2, OccurrenceKept, BillKept
  <2>3. CASE /\ ~Has(i, d) /\ nextInst <= MaxInsts
             /\ insts' = [insts EXCEPT ![nextInst] = [def |-> i, due |-> d, paid |-> FALSE]]
    <3>1. nextInst \in InstIds /\ insts[nextInst] = None
      BY <2>3 DEF TypeOK, TablesTypeOK, InstIds, TablesInv, FreshIds
    <3>2. [def |-> i, due |-> d, paid |-> FALSE] # None
      <4>1. [def |-> i, due |-> d, paid |-> FALSE] \in Instance
        BY DEF Instance
      <4> QED BY <4>1
    <3>3. \A k \in InstIds : insts'[k] = IF k = nextInst THEN [def |-> i, due |-> d, paid |-> FALSE] ELSE insts[k]
      BY <2>3, <3>1 DEF TypeOK, TablesTypeOK
    <3>4. \A j \in DefIds, e \in Days :
             /\ Has(j, e)' <=> Has(j, e) \/ (j = i /\ e = d)
             /\ Paid(j, e)' <=> Paid(j, e)
      BY <3>1, <3>2, <3>3 DEF Has, Paid
    <3>5. ~Paid(i, d)
      BY <2>3 DEF Has, Paid
    <3>6. occurrence' = [occurrence EXCEPT ![i][d] = "due"] /\ occurrence[i][d] = "none"
      <4>1. \A j \in DefIds, e \in Days :
               occurrence'[j][e] = IF j = i /\ e = d THEN "due" ELSE occurrence[j][e]
        BY <2>3, <3>4, <3>5 DEF occurrence
      <4>2. occurrence[i][d] = "none"
        BY <2>3, <3>5 DEF occurrence
      <4>3. \A j \in DefIds : occurrence[j] = [e \in Days |-> occurrence[j][e]]
        BY DEF occurrence
      <4>4. \A j \in DefIds : occurrence'[j] = [e \in Days |-> occurrence'[j][e]]
        BY DEF occurrence
      <4>5. occurrence = [j \in DefIds |-> occurrence[j]] /\ occurrence' = [j \in DefIds |-> occurrence'[j]]
        BY DEF occurrence
      <4>6. occurrence'[i] = [occurrence[i] EXCEPT ![d] = "due"]
        BY <2>1, <4>1, <4>3, <4>4
      <4>7. \A j \in DefIds : j # i => occurrence'[j] = occurrence[j]
        BY <4>1, <4>3, <4>4
      <4>8. occurrence' = [occurrence EXCEPT ![i] = [occurrence[i] EXCEPT ![d] = "due"]]
        BY <2>1, <4>5, <4>6, <4>7
      <4> QED BY <4>2, <4>8
    <3>7. bill[i] = "open" /\ UNCHANGED bill
      <4>1. i < nextDef /\ i \in Int /\ nextDef \in Int
        BY <2>1 DEF TablesInv, FreshIds, TypeOK, TablesTypeOK, DefIds
      <4> QED BY <2>1, <4>1, BillKept DEF bill
    <3>8. Ledger!FallDue(i, d)
      BY <3>6, <3>7 DEF Ledger!FallDue
    <3> QED BY <3>8 DEF Ledger!Next
  <2> QED BY <1>6, <2>2, <2>3 DEF EnsureInstance
<1>7. ASSUME NEW k \in InstIds, MarkPaid(k)
      PROVE  [Ledger!Next]_<<bill, occurrence>>
  <2> DEFINE i == insts[k].def
             d == insts[k].due
  <2>1. insts[k] # None /\ insts[k] \in Instance /\ i \in DefIds /\ d \in Days
    BY <1>7 DEF MarkPaid, TypeOK, TablesTypeOK, Instance
  <2>2. /\ UNCHANGED <<defs, nextDef>>
        /\ insts'[k] = [def |-> i, due |-> d, paid |-> TRUE] /\ insts'[k] # None
        /\ \A l \in InstIds : l # k => insts'[l] = insts[l]
    <3>1. [def |-> i, due |-> d, paid |-> TRUE] \in Instance
      BY <2>1 DEF Instance
    <3>2. [def |-> i, due |-> d, paid |-> TRUE] # None
      BY <3>1
    <3> QED BY <1>7, <2>1, <3>2 DEF MarkPaid, TypeOK, TablesTypeOK
  <2> HIDE DEF i, d
  <2>3. UNCHANGED bill
    BY <2>2, BillKept
  <2>4. \A j \in DefIds, e \in Days :
           /\ Has(j, e)' <=> Has(j, e)
           /\ Paid(j, e)' <=> Paid(j, e) \/ (j = i /\ e = d)
    BY <2>1, <2>2 DEF Has, Paid, i, d
  <2>5. Has(i, d)
    BY <2>1 DEF Has, i, d
  <2>6. CASE Paid(i, d)
    <3>1. UNCHANGED occurrence
      BY <2>4, <2>6 DEF occurrence
    <3> QED BY <2>3, <3>1
  <2>7. CASE ~Paid(i, d)
    <3>1. occurrence' = [occurrence EXCEPT ![i][d] = "paid"] /\ occurrence[i][d] = "due"
      <4>1. \A j \in DefIds, e \in Days :
               occurrence'[j][e] = IF j = i /\ e = d THEN "paid" ELSE occurrence[j][e]
        BY <2>1, <2>4, <2>5, <2>7 DEF occurrence
      <4>2. occurrence[i][d] = "due"
        BY <2>1, <2>5, <2>7 DEF occurrence
      <4>3. \A j \in DefIds : occurrence[j] = [e \in Days |-> occurrence[j][e]]
        BY DEF occurrence
      <4>4. \A j \in DefIds : occurrence'[j] = [e \in Days |-> occurrence'[j][e]]
        BY DEF occurrence
      <4>5. occurrence = [j \in DefIds |-> occurrence[j]] /\ occurrence' = [j \in DefIds |-> occurrence'[j]]
        BY DEF occurrence
      <4>6. occurrence'[i] = [occurrence[i] EXCEPT ![d] = "paid"]
        BY <2>1, <4>1, <4>3, <4>4
      <4>7. \A j \in DefIds : j # i => occurrence'[j] = occurrence[j]
        BY <4>1, <4>3, <4>4
      <4>8. occurrence' = [occurrence EXCEPT ![i] = [occurrence[i] EXCEPT ![d] = "paid"]]
        BY <2>1, <4>5, <4>6, <4>7
      <4> QED BY <4>2, <4>8
    <3>2. Ledger!Pay(i, d)
      BY <2>3, <3>1 DEF Ledger!Pay
    <3> QED BY <2>1, <3>2 DEF Ledger!Next
  <2> QED BY <2>6, <2>7
<1> QED BY <1>1, <1>2, <1>3, <1>4, <1>5, <1>6, <1>7, StepIsStatement DEF Statement

\* The tables, with all the processes that write them, implement the ledger: a
\* bill is opened and closed once, an occurrence goes from none to due to paid,
\* and nothing but closing the bill takes it back.
THEOREM Refinement == Spec => ImplementsLedger
<1>1. Init => Ledger!Init
  <2> SUFFICES ASSUME Init PROVE Ledger!Init
    OBVIOUS
  <2>1. \A i \in DefIds : i >= nextDef
    BY DEF Init, TablesInit, DefIds
  <2>2. \A i \in DefIds, d \in Days : ~Has(i, d) /\ ~Paid(i, d)
    BY DEF Init, TablesInit, Has, Paid
  <2> QED BY <2>1, <2>2 DEF Ledger!Init, bill, occurrence
<1>2. IndInv /\ [Next]_vars => [Ledger!Next]_<<bill, occurrence>>
  BY StepRefines
<1> QED BY <1>1, <1>2, Invariance, PTL DEF Spec, ImplementsLedger, Ledger!Spec

=============================================================================
