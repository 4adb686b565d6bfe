-------------------------------- MODULE Bills --------------------------------
(***************************************************************************)
(* The processes that work on the bill tables:                             *)
(*   Boot      main's bootstrapBills pass over bills.json, which ends      *)
(*             before anything else starts;                                *)
(*   Gen       the scheduler goroutine that generates bill instances;      *)
(*   Ven       the scheduler goroutine that refreshes vendor connections;  *)
(*   Requests  POST /settings handlers, each in a goroutine of its own;    *)
(*   hhq       the kiosk, which lists instances and marks them paid.       *)
(* Every SQL statement is a step, so that any two processes interleave     *)
(* between statements and the process can stop between any two of them.    *)
(* A read is merged with the step that follows it only where no other      *)
(* process can run in between (during Boot).                               *)
(***************************************************************************)
EXTENDS BillTables, Sequences

CONSTANTS
    Requests,      \* settings requests that can be in flight together
    Files,         \* the contents bills.json may have, each a sequence of Entry
    NoFile,        \* bills.json is missing, unreadable or not JSON
    VendorDues,    \* due dates a vendor portal may report
    VendorAmounts, \* amounts a vendor portal may report, in cents
    Lookahead,     \* Cfg.BillInstanceLookaheadDays
    MaxDay,        \* bound: the last day the clock reaches
    MaxStops       \* bound: how often the process stops

Boot   == "boot"
Gen    == "gen"
Ven    == "ven"
Actors == {Boot, Gen, Ven} \cup Requests

\* One element of bills.json.  ok: billBootstrapToDefinition accepts it; login:
\* ResolvePassword and the username check of attachVendorConnection pass.
Entry == [name : Names, ok : BOOLEAN, sched : AnySchedule, amt : Amounts, login : BOOLEAN]

ASSUME BillsAssumption ==
    /\ Requests \cap {Boot, Gen, Ven} = {}
    /\ Files \subseteq Seq(Entry)
    /\ NoFile \notin Files
    /\ VendorDues \subseteq Days
    /\ VendorAmounts \subseteq Amounts
    /\ Lookahead \in Nat /\ MaxDay \in Nat /\ MaxStops \in Nat
    /\ MaxDay + Lookahead <= LastDay

VARIABLES
    day,      \* today, at local midnight
    phase,    \* of the process: "down", "boot" or "run"
    stops,    \* how often it stopped
    file,     \* bills.json as read by this process
    pos,      \* BootstrapBills: the entry being reconciled
    seen,     \* BootstrapBills: the names of the valid entries so far
    doomed,   \* BootstrapBills: definitions the removal pass has yet to delete
    failed,   \* history: a statement of this BootstrapBills failed
    job,      \* what each actor is doing
    genTodo,  \* generateInstances: definitions read by ListAll, not yet handled
    venTodo,  \* refreshVendorConnections: connections read, not yet handled
    held,     \* an instance hhq was shown, with what it stood for
    had       \* history: the schedules each definition ever had

bootVars == <<file, pos, seen, doomed, failed>>
vars     == <<tables, day, phase, stops, bootVars, job, genTodo, venTodo, held, had>>

Pcs == {"idle", "update", "delete", "generate", "attach", "remove",
        "fetch", "fetchFailed", "amount", "instance", "synced"}

Job   == [pc : Pcs, id : DefIds \cup {0}, dates : SUBSET Days, amt : Amounts, due : Days]
Shown == [id : InstIds, def : DefIds, due : Days]

TypeOK ==
    /\ TablesTypeOK
    /\ day \in 0..MaxDay
    /\ phase \in {"down", "boot", "run"}
    /\ stops \in 0..MaxStops
    /\ file \in Files \cup {NoFile}
    /\ pos \in Nat \ {0}
    /\ seen \subseteq Names
    /\ doomed \subseteq DefIds
    /\ failed \in BOOLEAN
    /\ job \in [Actors -> Job]
    /\ genTodo \subseteq [id : DefIds, sched : AnySchedule]
    /\ venTodo \subseteq DefIds
    /\ held \in Shown \cup {None}
    /\ had \in [DefIds -> SUBSET AnySchedule]

-----------------------------------------------------------------------------
(* Jobs *)

\* the fields a job does not use keep these values
AnAmount == CHOOSE a \in Amounts : TRUE
Idle     == [pc |-> "idle", id |-> 0, dates |-> {}, amt |-> AnAmount, due |-> 0]
At(pc, i) == [pc |-> pc, id |-> i, dates |-> {}, amt |-> AnAmount, due |-> 0]

\* wrong: a day late; without the day the window starts on
NextDueDatesLate(s, from, to) ==
    IF s = Vendor THEN {} ELSE {d \in from..to : (d - 1) \in Occ[s]}
NextDueDatesAfter(s, from, to) ==
    IF s = Vendor THEN {} ELSE {d \in Occ[s] : from < d /\ d <= to}

\* models.NextDueDates, over opaque schedules
NextDueDates(s, from, to) ==
    IF s = Vendor THEN {} ELSE {d \in Occ[s] : from <= d /\ d <= to}

\* wrong: a day more than the lookahead
GenerateJobLong(i, s) ==
    [At("generate", i) EXCEPT !.dates = NextDueDates(s, day, day + Lookahead + 1)]

\* GenerateInstancesForDefinition up to its loop: the copy of the schedule the
\* caller holds decides the dates, today is read once
GenerateJob(i, s) ==
    [At("generate", i) EXCEPT !.dates = NextDueDates(s, day, day + Lookahead)]

\* a returns from what it was doing; for Boot that ends the entry
Return(a) ==
    /\ job' = [job EXCEPT ![a] = Idle]
    /\ pos' = IF a = Boot THEN pos + 1 ELSE pos

Running == phase = "run"

-----------------------------------------------------------------------------
(* Start, stop, time *)

\* main up to bootstrapBills; without a readable bills.json there is no
\* reconciliation at all, and the removal pass does not run either
Start ==
    /\ phase = "down"
    /\ \E f \in Files \cup {NoFile} :
         /\ file' = f
         /\ phase' = IF f = NoFile THEN "run" ELSE "boot"
    /\ pos' = 1 /\ seen' = {} /\ doomed' = {} /\ failed' = FALSE
    /\ UNCHANGED <<tables, day, stops, job, genTodo, venTodo, held, had>>

\* SIGTERM, or a crash, at any point: what is in memory is lost
Stop ==
    /\ phase # "down"
    /\ stops < MaxStops
    /\ phase' = "down"
    /\ stops' = stops + 1
    /\ job' = [a \in Actors |-> Idle]
    /\ genTodo' = {} /\ venTodo' = {}
    /\ pos' = 1 /\ seen' = {} /\ doomed' = {} /\ failed' = FALSE
    /\ UNCHANGED <<tables, day, file, held, had>>

Midnight ==
    /\ day < MaxDay
    /\ day' = day + 1
    /\ UNCHANGED <<tables, phase, stops, bootVars, job, genTodo, venTodo, held, had>>

\* VendorRefreshIntervalMinutes pass since the last sync of connection i
SyncAges(i) ==
    /\ conns[i] # None
    /\ conns[i].synced = "fresh"
    /\ conns' = [conns EXCEPT ![i] = [synced |-> "stale", err |-> conns[i].err]]
    /\ UNCHANGED <<defs, nextDef, insts, nextInst>>
    /\ UNCHANGED <<day, phase, stops, bootVars, job, genTodo, venTodo, held, had>>

-----------------------------------------------------------------------------
(* GenerateInstancesForDefinition, run by Boot, Gen and the requests *)

unchangedByJobs == <<day, phase, stops, file, seen, doomed, genTodo, venTodo, held, had>>

\* the dates come in order, one EnsureInstance each
GenerateNext(a) ==
    /\ job[a].pc = "generate"
    /\ \E d \in job[a].dates :
         /\ \A e \in job[a].dates : d <= e
         /\ EnsureInstance(job[a].id, d)
         /\ job' = [job EXCEPT ![a].dates = @ \ {d}]
    /\ UNCHANGED <<unchangedByJobs, pos, failed>>

GenerateDone(a) ==
    /\ job[a].pc = "generate"
    /\ job[a].dates = {}
    /\ Return(a)
    /\ UNCHANGED <<tables, unchangedByJobs, failed>>

\* EnsureInstance fails: the definition is gone, or the statement fails; the
\* rest of the dates is skipped
GenerateFails(a) ==
    /\ job[a].pc = "generate"
    /\ job[a].dates # {}
    /\ Return(a)
    /\ failed' = (failed \/ a = Boot)
    /\ UNCHANGED <<tables, unchangedByJobs>>

-----------------------------------------------------------------------------
(* RefreshVendorConnectionNow, run by Boot and Ven *)

\* the connector logs in and scrapes the bill, or any step up to there fails
Fetch(a) ==
    /\ job[a].pc = "fetch"
    /\ \/ job' = [job EXCEPT ![a].pc = "fetchFailed"]
       \/ \E m \in VendorAmounts, d \in VendorDues :
            job' = [job EXCEPT ![a].pc = "amount", ![a].amt = m, ![a].due = d]
    /\ UNCHANGED <<tables, unchangedByJobs, pos, failed>>

\* the update and the insert may fail: logged, and the refresh goes on
RefreshAmount(a) ==
    /\ job[a].pc = "amount"
    /\ UpdateAmount(job[a].id, job[a].amt) \/ UNCHANGED tables
    /\ job' = [job EXCEPT ![a].pc = IF job[a].amt <= 0 THEN "synced" ELSE "instance"]
    /\ UNCHANGED <<unchangedByJobs, pos, failed>>

RefreshInstance(a) ==
    /\ job[a].pc = "instance"
    /\ EnsureInstance(job[a].id, job[a].due) \/ UNCHANGED tables
    /\ job' = [job EXCEPT ![a].pc = "synced"]
    /\ UNCHANGED <<unchangedByJobs, pos, failed>>

RefreshEnds(a) ==
    /\ job[a].pc \in {"synced", "fetchFailed"}
    /\ MarkSynced(job[a].id, job[a].pc = "fetchFailed") \/ UNCHANGED tables
    /\ Return(a)
    /\ UNCHANGED <<unchangedByJobs, failed>>

-----------------------------------------------------------------------------
(* BootstrapBills *)

entry == file[pos]

\* a file entry that is skipped: invalid, a name collision with a UI bill, or a
\* failing statement
NextEntry == /\ pos' = pos + 1
             /\ UNCHANGED <<tables, job, had>>

\* the rest of the loop body for definition i
ReconcileRest(i) ==
    job' = [job EXCEPT ![Boot] =
              IF entry.sched = Vendor THEN At("attach", i) ELSE GenerateJob(i, entry.sched)]

BootInvalid ==
    /\ ~entry.ok
    /\ NextEntry
    /\ UNCHANGED <<seen, failed>>

BootCreate ==
    /\ entry.ok
    /\ GetByName(entry.name) = {}
    /\ Create([name |-> entry.name, sched |-> entry.sched, amt |-> entry.amt,
               managed |-> TRUE])
    /\ had' = [had EXCEPT ![nextDef] = {entry.sched}]
    /\ ReconcileRest(nextDef)
    /\ seen' = seen \cup {entry.name}
    /\ UNCHANGED <<pos, failed>>

\* wrong: a collision with a UI bill overwrites it
BootCollisionTakesOver ==
    /\ entry.ok
    /\ \E i \in GetByName(entry.name) :
         /\ ~defs[i].managed
         /\ UpdateBootstrap(i, entry.sched, entry.amt)
         /\ had' = [had EXCEPT ![i] = @ \cup {entry.sched}]
         /\ ReconcileRest(i)
    /\ seen' = seen \cup {entry.name}
    /\ UNCHANGED <<pos, failed>>

BootCollision ==
    /\ entry.ok
    /\ \E i \in GetByName(entry.name) : ~defs[i].managed
    /\ NextEntry
    /\ seen' = seen \cup {entry.name}
    /\ UNCHANGED failed

\* wrong: the schedule is not refreshed; the vendor's amount is reset
BootUpdateAmountOnly ==
    /\ entry.ok
    /\ \E i \in GetByName(entry.name) :
         /\ defs[i].managed
         /\ UpdateBootstrap(i, defs[i].sched, entry.amt)
         /\ ReconcileRest(i)
    /\ seen' = seen \cup {entry.name}
    /\ UNCHANGED <<pos, failed, had>>

BootUpdateResetsAmount ==
    /\ entry.ok
    /\ \E i \in GetByName(entry.name) :
         /\ defs[i].managed
         /\ UpdateBootstrap(i, entry.sched, entry.amt)
         /\ had' = [had EXCEPT ![i] = @ \cup {entry.sched}]
         /\ ReconcileRest(i)
    /\ seen' = seen \cup {entry.name}
    /\ UNCHANGED <<pos, failed>>

\* a connector entry keeps the amount the vendor reported last
BootUpdate ==
    /\ entry.ok
    /\ \E i \in GetByName(entry.name) :
         /\ defs[i].managed
         /\ UpdateBootstrap(i, entry.sched,
                            IF entry.sched = Vendor THEN defs[i].amt ELSE entry.amt)
         /\ had' = [had EXCEPT ![i] = @ \cup {entry.sched}]
         /\ ReconcileRest(i)
    /\ seen' = seen \cup {entry.name}
    /\ UNCHANGED <<pos, failed>>

\* wrong: the name is marked as seen only once the entry is reconciled
BootEntryFailsUnseen ==
    /\ entry.ok
    /\ NextEntry
    /\ failed' = TRUE
    /\ UNCHANGED seen

\* GetByName, Create or UpdateBootstrap fails
BootEntryFails ==
    /\ entry.ok
    /\ NextEntry
    /\ seen' = seen \cup {entry.name}
    /\ failed' = TRUE

BootEntry ==
    /\ phase = "boot"
    /\ job[Boot].pc = "idle"
    /\ pos <= Len(file)
    /\ BootInvalid \/ BootCreate \/ BootCollision \/ BootUpdate \/ BootEntryFails
    /\ UNCHANGED <<day, phase, stops, file, doomed, genTodo, venTodo, held>>

\* attachVendorConnection: Upsert, re-read, RefreshVendorConnectionIfStale
AttachVendorConnection ==
    /\ job[Boot].pc = "attach"
    /\ entry.login
    /\ Upsert(job[Boot].id)
    /\ \/ /\ conns'[job[Boot].id].synced = "fresh"
          /\ Return(Boot)
          /\ UNCHANGED failed
       \/ /\ conns'[job[Boot].id].synced # "fresh"
          /\ job' = [job EXCEPT ![Boot].pc = "fetch"]
          /\ UNCHANGED <<pos, failed>>
       \/ /\ Return(Boot)             \* the re-read fails
          /\ failed' = TRUE
    /\ UNCHANGED unchangedByJobs

\* no usable login, or the Upsert fails
AttachFails ==
    /\ job[Boot].pc = "attach"
    /\ Return(Boot)
    /\ failed' = (failed \/ entry.login)
    /\ UNCHANGED <<tables, unchangedByJobs>>

\* the removal pass: ListAll, then one Delete for each managed definition whose
\* name was not seen
BootListAll ==
    /\ phase = "boot"
    /\ job[Boot].pc = "idle"
    /\ pos = Len(file) + 1
    /\ doomed' = {i \in DefIds : defs[i] # None /\ defs[i].managed /\ defs[i].name \notin seen}
    /\ job' = [job EXCEPT ![Boot].pc = "remove"]
    /\ UNCHANGED <<tables, day, phase, stops, file, pos, seen, failed, genTodo, venTodo, held, had>>

BootRemove ==
    /\ job[Boot].pc = "remove"
    /\ \E i \in doomed :
         /\ doomed' = doomed \ {i}
         /\ \/ Delete(i) /\ UNCHANGED failed
            \/ UNCHANGED tables /\ failed' = TRUE
    /\ UNCHANGED <<day, phase, stops, file, pos, seen, job, genTodo, venTodo, held, had>>

\* BootstrapBills returns (early, if ListAll failed); main starts the scheduler
\* and the HTTP server
BootDone ==
    /\ phase = "boot"
    /\ \/ job[Boot].pc = "remove" /\ doomed = {}
       \/ job[Boot].pc = "idle" /\ pos = Len(file) + 1
    /\ phase' = "run"
    /\ job' = [job EXCEPT ![Boot] = Idle]
    /\ UNCHANGED <<tables, day, stops, bootVars, genTodo, venTodo, held, had>>

-----------------------------------------------------------------------------
(* The scheduler *)

\* a tick of runInstanceGeneration: ListAll, copied and worked through later
GenTick ==
    /\ Running
    /\ job[Gen].pc = "idle" /\ genTodo = {}
    /\ genTodo' = {[id |-> i, sched |-> defs[i].sched] : i \in {j \in DefIds : defs[j] # None}}
    /\ UNCHANGED <<tables, day, phase, stops, bootVars, job, venTodo, held, had>>

GenNext ==
    /\ job[Gen].pc = "idle"
    /\ \E t \in genTodo :
         /\ genTodo' = genTodo \ {t}
         /\ job' = [job EXCEPT ![Gen] = GenerateJob(t.id, t.sched)]
    /\ UNCHANGED <<tables, day, phase, stops, bootVars, venTodo, held, had>>

VenTick ==
    /\ Running
    /\ job[Ven].pc = "idle" /\ venTodo = {}
    /\ venTodo' = {i \in DefIds : conns[i] # None}
    /\ UNCHANGED <<tables, day, phase, stops, bootVars, job, genTodo, held, had>>

\* RefreshVendorConnectionIfStale; Ven is the only writer of last_synced_at
\* while the process runs, so its copy has the value of the row
VenNext ==
    /\ job[Ven].pc = "idle"
    /\ \E i \in venTodo :
         /\ venTodo' = venTodo \ {i}
         /\ job' = IF conns[i] # None /\ conns[i].synced = "fresh" THEN job
                   ELSE [job EXCEPT ![Ven] = At("fetch", i)]
    /\ UNCHANGED <<tables, day, phase, stops, bootVars, genTodo, held, had>>

-----------------------------------------------------------------------------
(* The settings page *)

unchangedByRequests == <<day, phase, stops, bootVars, genTodo, venTodo, held>>

AddBill(r) ==
    /\ Running /\ job[r].pc = "idle"
    /\ \E n \in Names, s \in Schedules, a \in Amounts :
         /\ Create([name |-> n, sched |-> s, amt |-> a, managed |-> FALSE])
         /\ had' = [had EXCEPT ![nextDef] = {s}]
         /\ job' = [job EXCEPT ![r] = GenerateJob(nextDef, s)]
    /\ UNCHANGED unchangedByRequests

\* wrong: the flag is not looked at
CheckExists(r, i, pc) ==
    /\ Running /\ job[r].pc = "idle"
    /\ defs[i] # None
    /\ job' = [job EXCEPT ![r] = At(pc, i)]
    /\ UNCHANGED <<tables, unchangedByRequests, had>>

\* updateBill and deleteBill read the definition and refuse a managed one ...
CheckNotManaged(r, i, pc) ==
    /\ Running /\ job[r].pc = "idle"
    /\ defs[i] # None
    /\ ~defs[i].managed
    /\ job' = [job EXCEPT ![r] = At(pc, i)]
    /\ UNCHANGED <<tables, unchangedByRequests, had>>

\* ... and then write it with another statement
UpdateBill(r) ==
    /\ job[r].pc = "update"
    /\ \E n \in Names, s \in Schedules, a \in Amounts :
         LET i == job[r].id IN
         /\ Update(i, n, s, a)
         /\ had' = IF defs[i] = None THEN had ELSE [had EXCEPT ![i] = @ \cup {s}]
         /\ job' = [job EXCEPT ![r] = GenerateJob(i, s)]
    /\ UNCHANGED unchangedByRequests

DeleteBill(r) ==
    /\ job[r].pc = "delete"
    /\ Delete(job[r].id)
    /\ job' = [job EXCEPT ![r] = Idle]
    /\ UNCHANGED <<unchangedByRequests, had>>

\* the form does not parse, or the statement fails
RequestFails(r) ==
    /\ job[r].pc \in {"update", "delete"}
    /\ job' = [job EXCEPT ![r] = Idle]
    /\ UNCHANGED <<tables, unchangedByRequests, had>>

-----------------------------------------------------------------------------
(* hhq: GET /events or the settings page shows an instance; later, perhaps     *)
(* after a restart of the plugin, and perhaps twice, it is marked paid by id   *)

Show(k) ==
    /\ Running
    /\ insts[k] # None
    /\ held' = [id |-> k, def |-> insts[k].def, due |-> insts[k].due]
    /\ UNCHANGED <<tables, day, phase, stops, bootVars, job, genTodo, venTodo, had>>

MarkPaidAction ==
    /\ Running
    /\ held # None
    /\ MarkPaid(held.id)
    /\ UNCHANGED <<day, phase, stops, bootVars, job, genTodo, venTodo, held, had>>

-----------------------------------------------------------------------------
Init ==
    /\ TablesInit
    /\ day = 0 /\ phase = "down" /\ stops = 0
    /\ file = NoFile /\ pos = 1 /\ seen = {} /\ doomed = {} /\ failed = FALSE
    /\ job = [a \in Actors |-> Idle]
    /\ genTodo = {} /\ venTodo = {}
    /\ held = None
    /\ had = [i \in DefIds |-> {}]

Generate(a) == GenerateNext(a) \/ GenerateDone(a) \/ GenerateFails(a)
Refresh(a)  == Fetch(a) \/ RefreshAmount(a) \/ RefreshInstance(a) \/ RefreshEnds(a)
Bootstrap   == \/ BootEntry \/ AttachVendorConnection \/ AttachFails
               \/ BootListAll \/ BootRemove \/ BootDone
Request(r)  == \/ AddBill(r) \/ UpdateBill(r) \/ DeleteBill(r) \/ RequestFails(r)
               \/ \E i \in DefIds, pc \in {"update", "delete"} : CheckNotManaged(r, i, pc)

Next ==
    \/ Start \/ Stop \/ Midnight
    \/ \E i \in DefIds : SyncAges(i)
    \/ Bootstrap
    \/ \E a \in Actors : Generate(a)
    \/ \E a \in {Boot, Ven} : Refresh(a)
    \/ GenTick \/ GenNext \/ VenTick \/ VenNext
    \/ \E r \in Requests : Request(r)
    \/ \E k \in InstIds : Show(k)
    \/ MarkPaidAction

Spec == Init /\ [][Next]_vars

-----------------------------------------------------------------------------
(* Properties of every state *)

\* Every instance and every vendor connection belongs to a definition that
\* exists.  A generator works from a copy of the definitions it listed and a
\* request from an id it checked earlier; a bill deleted in between must not
\* get an instance (bill.go EnsureInstance, the schema's foreign keys).
NoOrphans ==
    /\ \A k \in InstIds : insts[k] # None => defs[insts[k].def] # None
    /\ \A i \in DefIds : conns[i] # None => defs[i] # None

\* A bill has at most one instance per due date, although Boot, Gen, Ven and
\* the requests all insert instances (bill.go EnsureInstance).
OneInstancePerOccurrence ==
    \A k, l \in InstIds :
        /\ insts[k] # None /\ insts[l] # None
        /\ insts[k].def = insts[l].def /\ insts[k].due = insts[l].due
        => k = l

Explained(i, d) ==
    \/ \E s \in had[i] \ {Vendor} : d \in Occ[s]
    \/ conns[i] # None /\ d \in VendorDues

\* An instance is due on a day its own bill fell on under a schedule it has or
\* had, or on one its vendor reported: a stale copy of a definition never gives
\* one bill the dates of another (scheduler.go generateInstances).
EveryInstanceExplained ==
    \A k \in InstIds : insts[k] # None => Explained(insts[k].def, insts[k].due)

ValidNames == {file[p].name : p \in {q \in DOMAIN file : file[q].ok}}

\* the last valid entry of a name, the one that wins if the file repeats it
LastEntry(n) ==
    file[CHOOSE p \in DOMAIN file :
           /\ file[p].ok /\ file[p].name = n
           /\ \A q \in DOMAIN file : file[q].ok /\ file[q].name = n => q <= p]

\* When BootstrapBills ends with no statement of it having failed, whatever an
\* earlier pass that stopped half way left behind: the managed definitions are
\* those of the file, every valid entry has a definition, and a definition that
\* does not share its name has the schedule, the amount and the vendor
\* connection of its entry (bootstrap.go BootstrapBills).
BootReconciles ==
    phase = "boot" /\ job[Boot].pc = "remove" /\ doomed = {} /\ ~failed =>
        /\ \A i \in DefIds :
             defs[i] # None /\ defs[i].managed => defs[i].name \in ValidNames
        /\ \A n \in ValidNames : GetByName(n) # {}
        /\ \A i \in DefIds :
             defs[i] # None /\ defs[i].managed /\ GetByName(defs[i].name) = {i} =>
                LET e == LastEntry(defs[i].name) IN
                /\ defs[i].sched = e.sched
                /\ e.sched # Vendor => defs[i].amt = e.amt
                /\ e.sched = Vendor /\ e.login => conns[i] # None

-----------------------------------------------------------------------------
(* The inductive invariant: what the processes may rely on between statements  *)

\* ids are handed out in order, and an id that was not handed out has no row
FreshIds ==
    /\ \A i \in DefIds : i >= nextDef => defs[i] = None /\ conns[i] = None
    /\ \A k \in InstIds : k >= nextInst => insts[k] = None

\* vendor connections hang on bootstrap-managed definitions only
ConnsManaged == \A i \in DefIds : conns[i] # None => defs[i] # None /\ defs[i].managed

RefreshPcs == {"fetch", "fetchFailed", "amount", "instance", "synced"}

\* who can be doing what, and when
Phases ==
    /\ phase # "boot" => job[Boot].pc = "idle"
    /\ job[Boot].pc # "remove" => doomed = {}
    /\ phase # "run" => /\ \A a \in Actors \ {Boot} : job[a].pc = "idle"
                        /\ genTodo = {} /\ venTodo = {}
    /\ phase = "boot" => file # NoFile
    /\ job[Boot].pc \in {"idle", "generate", "attach", "remove"} \cup RefreshPcs
    /\ job[Gen].pc \in {"idle", "generate"}
    /\ job[Ven].pc \in {"idle"} \cup RefreshPcs
    /\ \A r \in Requests : job[r].pc \in {"idle", "update", "delete", "generate"}

\* what a process read stays true until it acts on it: ids it holds were handed
\* out, a definition it checked is still nobody's or the UI's, a connection it
\* refreshes is still there, and so are the definitions to be removed
JobSound(a) ==
    /\ job[a].pc \notin {"idle", "remove"} => job[a].id \in 1..(nextDef - 1)
    /\ job[a].pc \in {"update", "delete"} =>
         defs[job[a].id] = None \/ ~defs[job[a].id].managed
    /\ job[a].pc = "attach" => defs[job[a].id] # None /\ defs[job[a].id].managed
    /\ job[a].pc \in RefreshPcs => conns[job[a].id] # None
    /\ job[a].pc \in {"amount", "instance"} => job[a].due \in VendorDues
    /\ job[a].pc = "generate" /\ defs[job[a].id] # None =>
         \A d \in job[a].dates : \E s \in had[job[a].id] \ {Vendor} : d \in Occ[s]

ListsSound ==
    /\ \A t \in genTodo : t.id \in 1..(nextDef - 1) /\ t.sched \in had[t.id]
    /\ \A i \in venTodo : conns[i] # None
    /\ \A i \in doomed : defs[i] # None /\ defs[i].managed
    /\ \A i \in DefIds : defs[i] # None => defs[i].sched \in had[i]

CopiesSound == (\A a \in Actors : JobSound(a)) /\ ListsSound

\* an id hhq was shown still stands for the same occurrence, or for nothing
HeldSound ==
    held # None =>
        /\ held.id < nextInst
        /\ insts[held.id] # None =>
             insts[held.id].def = held.def /\ insts[held.id].due = held.due

\* The conjunction that every step of the plugin preserves, and from which the
\* properties of states and of steps follow.
IndInv ==
    /\ TypeOK
    /\ FreshIds /\ NoOrphans /\ OneInstancePerOccurrence /\ ConnsManaged
    /\ Phases /\ CopiesSound /\ HeldSound
    /\ EveryInstanceExplained

-----------------------------------------------------------------------------
(* Properties of steps *)

SameButAmount(d, e) == /\ e # None
                       /\ d.name = e.name /\ d.sched = e.sched /\ d.managed = e.managed

OwnershipStep ==
    \A i \in DefIds :
      defs[i] # None /\ defs'[i] # defs[i] =>
         IF defs[i].managed
         THEN phase = "boot" \/ SameButAmount(defs[i], defs'[i])
         ELSE phase = "run"

\* bills.json owns the managed definitions and the settings page the others:
\* while the process runs a managed definition only ever changes its amount,
\* and a bootstrap pass leaves every other definition alone.  The settings
\* handlers check the flag with one statement and write with another
\* (settings.go updateBill, deleteBill; bootstrap.go BootstrapBills).
OwnershipRespected == [][OwnershipStep]_vars

Paid(i, d) == \E k \in InstIds :
                 insts[k] # None /\ insts[k].def = i /\ insts[k].due = d /\ insts[k].paid

PaidStaysStep ==
    \A i \in DefIds, d \in Days :
      Paid(i, d) /\ defs'[i] # None => Paid(i, d)'

\* An occurrence that is paid is paid for as long as its bill exists: no
\* generator, refresh, edit or bootstrap pass makes it due again
\* (bill.go EnsureInstance and MarkPaid).
PaidStaysPaid == [][PaidStaysStep]_vars

PaysShownStep ==
    \A k \in InstIds :
      insts[k] # None /\ ~insts[k].paid /\ insts'[k] # None /\ insts'[k].paid =>
         held = [id |-> k, def |-> insts[k].def, due |-> insts[k].due]

\* Marking an instance paid pays the bill and due date that hhq was shown under
\* that id, however late the call arrives and whatever was deleted and created
\* since (events.go Action, settings.go markPaid).
PaysWhatWasShown == [][PaysShownStep]_vars

\* A bootstrap pass never removes a managed bill, and with it the record of what
\* was paid, while the file has a valid entry for it, even if statements of the
\* pass fail (bootstrap.go BootstrapBills: the name is marked as seen first).
ListedBillsKept ==
    [][\A i \in DefIds :
         phase = "boot" /\ defs[i] # None /\ defs[i].managed /\ defs[i].name \in ValidNames
         => defs'[i] # None]_vars

\* The amount of a vendor bill is always the last one its vendor reported: a
\* bootstrap pass, whose entry has no amount, does not reset it
\* (bootstrap.go BootstrapBills, scheduler.go RefreshVendorConnectionNow).
KnownAmountKept ==
    [][\A i \in DefIds :
         /\ defs[i] # None /\ defs[i].sched = Vendor
         /\ defs'[i] # None /\ defs'[i].sched = Vendor
         /\ defs'[i].amt # defs[i].amt
         => \E a \in {Boot, Ven} : job[a].pc = "amount" /\ job[a].id = i
                                   /\ job[a].amt = defs'[i].amt]_vars

-----------------------------------------------------------------------------
(* What comments of the code say and the code does not do; each is refuted by  *)
(* a run of its own, see README.md                                             *)

\* "deletes any bootstrap-managed definition whose name is no longer present in
\* the file" (bootstrap.go:33): so a bill the file still names is kept.  An
\* entry that became invalid is skipped before its name is marked as seen.
NamedBillsKept ==
    [][\A i \in DefIds :
         /\ phase = "boot" /\ defs[i] # None /\ defs[i].managed
         /\ \E p \in DOMAIN file : file[p].name = defs[i].name
         => defs'[i] # None]_vars

-----------------------------------------------------------------------------
(* Liveness *)

\* The goroutines run, the tickers tick, the supervisor restarts the process,
\* and no statement of the generator fails forever.
Insert(i, d) == /\ GenerateNext(Gen)
                /\ job[Gen].id = i /\ job[Gen].dates \ job'[Gen].dates = {d}

Fairness ==
    /\ WF_vars(Start)
    /\ WF_vars(Bootstrap \/ Generate(Boot) \/ Refresh(Boot))
    /\ WF_vars(GenTick \/ GenNext \/ Generate(Gen))
    /\ \A i \in DefIds, d \in Days : SF_vars(Insert(i, d))

FairSpec == Spec /\ Fairness

\* Every occurrence inside the lookahead window gets its instance, unless the
\* day passes, or the bill is deleted or rescheduled first, whatever the order
\* of restarts, edits and ticks (scheduler.go generateInstances).
OccurrencesAppear ==
    \A i \in DefIds, s \in Schedules : \A d \in Occ[s] :
        (defs[i] # None /\ defs[i].sched = s /\ day <= d /\ d <= day + Lookahead)
        ~> (Has(i, d) \/ day > d \/ defs[i] = None \/ defs[i].sched # s)

-----------------------------------------------------------------------------
(* What the tables promise, without the processes: see BillLedger *)

bill == [i \in DefIds |-> IF i >= nextDef THEN "free" ELSE IF defs[i] = None THEN "gone" ELSE "open"]
occurrence == [i \in DefIds |-> [d \in Days |->
                 IF Paid(i, d) THEN "paid" ELSE IF Has(i, d) THEN "due" ELSE "none"]]

Ledger == INSTANCE BillLedger WITH Bills <- DefIds, Dates <- Days

\* The plugin's tables behave like a ledger in which a bill is opened and closed
\* once and an occurrence goes from none to due to paid (BillLedger).
ImplementsLedger == Ledger!Spec

=============================================================================
