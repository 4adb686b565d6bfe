------------------------------ MODULE BootProofs ------------------------------
(***************************************************************************)
(* Proofs about BootstrapBills, for every contents of bills.json, any      *)
(* number of bills and any number of passes that stopped half way: what a  *)
(* pass that met no failure leaves in the tables, and what no pass does.   *)
(* The induction over the entries of the file is the one over the steps of *)
(* the pass: BootInv says what holds of the entries it has been through.   *)
(***************************************************************************)
EXTENDS BillsProofs

\* BootstrapBills is at work on an entry, or has been through it.
Working == job[Boot].pc \notin {"idle", "remove"}
Past    == {p \in DOMAIN file : file[p].ok /\ (p < pos \/ (p = pos /\ Working))}

\* p is the last of the entries of its name so far.
IsLast(p, n) == p \in Past /\ file[p].name = n /\ \A q \in Past : file[q].name = n => q <= p

\* Definition i is what entry p makes of it, or is about to be.
Matches(i, p) ==
    /\ defs[i].sched = file[p].sched
    /\ file[p].sched # Vendor => defs[i].amt = file[p].amt
    /\ file[p].sched = Vendor /\ file[p].login =>
         conns[i] # None \/ (p = pos /\ job[Boot].pc = "attach" /\ job[Boot].id = i)

Managed(i) == defs[i] # None /\ defs[i].managed

\* Where the pass is, and what it has marked as seen.
PosInv ==
    /\ pos <= Len(file) + 1
    /\ Working => pos <= Len(file)
    /\ job[Boot].pc = "remove" => pos = Len(file) + 1

SeenInv ==
    /\ seen = {file[p].name : p \in Past}
    /\ \A n \in seen : \E p \in Past : IsLast(p, n)

\* What is to be removed was not seen, and nothing that is to be is missed.
RemoveInv ==
    /\ \A i \in doomed : defs[i].name \notin seen
    /\ job[Boot].pc = "remove" => \A i \in DefIds : Managed(i) => defs[i].name \in seen \/ i \in doomed
                                                                 \/ failed

\* What was reconciled stays so to the end of the pass; only a bill with a
\* connector is refreshed.
DoneInv ==
    /\ ~failed => \A n \in seen : GetByName(n) # {}
    /\ ~failed => \A i \in DefIds : Managed(i) /\ GetByName(defs[i].name) = {i} =>
                    \A p \in DOMAIN file : IsLast(p, defs[i].name) => Matches(i, p)
    /\ job[Boot].pc \in {"attach"} \cup RefreshPcs =>
         defs[job[Boot].id] # None /\ defs[job[Boot].id].sched = Vendor

BootInv == phase = "boot" => PosInv /\ SeenInv /\ RemoveInv /\ DoneInv

-----------------------------------------------------------------------------
(* The file and the place in it *)

LEMMA FileFacts ==
    ASSUME IndInv, phase = "boot"
    PROVE  /\ file \in Seq(Entry) /\ Len(file) \in Nat /\ DOMAIN file = 1..Len(file)
           /\ pos \in Nat /\ pos >= 1
           /\ TypeOK /\ TablesTypeOK /\ Phases
<1>1. TypeOK /\ TablesTypeOK /\ Phases
  BY DEF IndInv, TypeOK
<1>2. file \in Seq(Entry)
  BY <1>1, BillsAssumption DEF BillsAssumption, TypeOK, Phases
<1> QED BY <1>1, <1>2 DEF TypeOK

\* Which steps there are while the pass runs.
LEMMA BootSteps ==
    ASSUME IndInv, phase = "boot", [Next]_vars
    PROVE  \/ Stop \/ Midnight \/ \E i \in DefIds : SyncAges(i)
           \/ Bootstrap \/ Generate(Boot) \/ Refresh(Boot) \/ UNCHANGED vars
<1>1. /\ \A a \in Actors \ {Boot} : job[a].pc = "idle"
      /\ genTodo = {} /\ venTodo = {} /\ ~Running
  BY DEF IndInv, Phases, Running
<1>2. ASSUME NEW a \in Actors \ {Boot} PROVE ~Generate(a) /\ ~Refresh(a)
  BY <1>1 DEF Generate, GenerateNext, GenerateDone, GenerateFails, Refresh, Fetch, RefreshAmount,
     RefreshInstance, RefreshEnds
<1>3. Ven \in Actors \ {Boot} /\ \A r \in Requests : r \in Actors \ {Boot}
  BY BillsAssumption DEF BillsAssumption, Actors, Ven, Boot
<1>4. ASSUME NEW r \in Requests PROVE ~Request(r)
  BY <1>1, <1>3 DEF Request, AddBill, UpdateBill, DeleteBill, RequestFails, CheckNotManaged
<1>5. ~Start /\ ~GenTick /\ ~GenNext /\ ~VenTick /\ ~VenNext
  BY <1>1 DEF Start, GenTick, GenNext, VenTick, VenNext
<1>6. ~MarkPaidAction /\ \A k \in InstIds : ~Show(k)
  BY <1>1 DEF MarkPaidAction, Show
<1> QED BY <1>2, <1>3, <1>4, <1>5, <1>6 DEF Next

\* Finishing an entry, or skipping an invalid one, adds nothing to the entries the
\* pass has been through.
LEMMA PastSame ==
    ASSUME IndInv, phase = "boot", file' = file,
           \/ pos' = pos /\ (Working' <=> Working)
           \/ pos' = pos + 1 /\ ~Working' /\ (Working \/ ~file[pos].ok)
    PROVE  Past' = Past /\ \A p, n : IsLast(p, n)' <=> IsLast(p, n)
<1>1. ASSUME NEW p \in DOMAIN file
      PROVE  (file[p].ok /\ (p < pos' \/ (p = pos' /\ Working')))
               <=> (file[p].ok /\ (p < pos \/ (p = pos /\ Working)))
  <2>1. p \in Nat /\ pos \in Nat
    BY FileFacts
  <2> QED BY <2>1
<1>2. Past' = Past
  BY <1>1 DEF Past
<1> QED BY <1>2 DEF IsLast

\* Taking up a valid entry, or skipping it, makes it the last of its name.
LEMMA PastAdds ==
    ASSUME IndInv, phase = "boot", file' = file, ~Working, NEW q \in DOMAIN file, q = pos,
           file[q].ok, NEW m, m = file[q].name,
           (pos' = pos /\ Working') \/ (pos' = pos + 1 /\ ~Working')
    PROVE  /\ Past' = Past \cup {q}
           /\ IsLast(q, m)'
           /\ \A p : IsLast(p, m)' => p = q
           /\ \A p, n : n # m => (IsLast(p, n)' <=> IsLast(p, n))
<1>1. q \in Nat /\ \A p \in DOMAIN file : p \in Nat
  BY FileFacts
<1>2. ASSUME NEW p \in DOMAIN file
      PROVE  (p < pos' \/ (p = pos' /\ Working')) <=> (p < q \/ p = q)
  BY <1>1
<1>3. Past' = Past \cup {q} /\ \A p \in Past : p < q
  <2>1. Past' = {p \in DOMAIN file : file[p].ok /\ (p < q \/ p = q)}
    BY <1>2 DEF Past
  <2>2. Past = {p \in DOMAIN file : file[p].ok /\ p < q}
    BY DEF Past
  <2> QED BY <2>1, <2>2
<1>4. \A p, n : IsLast(p, n)' <=> /\ p \in Past' /\ file[p].name = n
                                  /\ \A r \in Past' : file[r].name = n => r <= p
  BY DEF IsLast
<1>5. \A p \in Past' : p \in Nat /\ p <= q
  BY <1>1, <1>3 DEF Past
<1>6. IsLast(q, m)'
  BY <1>3, <1>4, <1>5
<1>7. ASSUME NEW p, IsLast(p, m)' PROVE p = q
  <2>1. p \in Past' /\ q <= p
    BY <1>3, <1>4, <1>7
  <2> QED BY <1>1, <1>5, <2>1
<1>8. ASSUME NEW p, NEW n, n # m PROVE IsLast(p, n)' <=> IsLast(p, n)
  BY <1>3, <1>4, <1>8 DEF IsLast
<1> QED BY <1>3, <1>6, <1>7, <1>8

LEMMA SeenSame ==
    ASSUME SeenInv, seen' = seen, file' = file, Past' = Past, \A p, n : IsLast(p, n)' <=> IsLast(p, n)
    PROVE  SeenInv'
BY DEF SeenInv

LEMMA SeenAdds ==
    ASSUME SeenInv, NEW q, NEW m, m = file[q].name, seen' = seen \cup {m}, file' = file,
           Past' = Past \cup {q}, IsLast(q, m)',
           \A p, n : n # m => (IsLast(p, n)' <=> IsLast(p, n))
    PROVE  SeenInv'
<1>1. seen' = {file'[p].name : p \in Past'}
  BY DEF SeenInv
<1>2. ASSUME NEW n \in seen' PROVE \E p \in Past' : IsLast(p, n)'
  <2>1. CASE n = m
    BY <2>1
  <2>2. CASE n # m
    <3>1. PICK p \in Past : IsLast(p, n)
      BY <2>2 DEF SeenInv
    <3> QED BY <2>2, <3>1
  <2> QED BY <2>1, <2>2
<1> QED BY <1>1, <1>2 DEF SeenInv

-----------------------------------------------------------------------------
(* Steps that reconcile no entry *)

\* The definitions keep what the file says of them.
Steady ==
    \A i \in DefIds :
        /\ defs'[i] = None <=> defs[i] = None
        /\ defs[i] # None => /\ defs'[i].name = defs[i].name /\ defs'[i].managed = defs[i].managed
                             /\ defs'[i].sched = defs[i].sched
                             /\ defs[i].sched # Vendor => defs'[i].amt = defs[i].amt
        /\ conns[i] # None => conns'[i] # None

LEMMA SteadyNames == ASSUME Steady PROVE \A n : GetByName(n)' = GetByName(n)
BY DEF Steady, GetByName

LEMMA DoneSame ==
    ASSUME IndInv, phase = "boot", DoneInv, Steady, seen' = seen, file' = file,
           \A p, n : IsLast(p, n)' <=> IsLast(p, n), failed => failed',
           job[Boot].pc = "attach" /\ ~failed' =>
             \/ conns'[job[Boot].id] # None
             \/ ~file[pos].login
             \/ pos' = pos /\ job'[Boot].pc = "attach" /\ job'[Boot].id = job[Boot].id,
           job'[Boot].pc \in {"attach"} \cup RefreshPcs =>
             job'[Boot].id = job[Boot].id /\ job[Boot].pc \in {"attach"} \cup RefreshPcs,
           job'[Boot].pc \in {"attach"} \cup RefreshPcs => job'[Boot].id \in DefIds
    PROVE  DoneInv'
<1>1. \A n : GetByName(n)' = GetByName(n)
  BY SteadyNames
<1>2. ~failed' => \A n \in seen' : GetByName(n)' # {}
  BY <1>1 DEF DoneInv
<1>3. ASSUME ~failed', NEW i \in DefIds, Managed(i)', NEW n, n = defs'[i].name,
             GetByName(n)' = {i}, NEW p \in DOMAIN file', IsLast(p, n)'
      PROVE  Matches(i, p)'
  <2>1. Managed(i) /\ defs'[i].name = defs[i].name
    BY <1>3 DEF Managed, Steady
  <2>2. Matches(i, p)
    BY <1>1, <1>3, <2>1 DEF DoneInv
  <2>3. defs[i] # None /\ defs'[i].sched = defs[i].sched
        /\ (defs[i].sched # Vendor => defs'[i].amt = defs[i].amt)
    BY <2>1 DEF Steady, Managed
  <2>4. file[p].sched = Vendor /\ file[p].login =>
          conns'[i] # None \/ (p = pos' /\ job'[Boot].pc = "attach" /\ job'[Boot].id = i)
    BY <1>3, <2>2 DEF Matches, Steady
  <2> QED BY <2>2, <2>3, <2>4 DEF Matches
<1>4. job'[Boot].pc \in {"attach"} \cup RefreshPcs =>
         defs'[job'[Boot].id] # None /\ defs'[job'[Boot].id].sched = Vendor
  <2> SUFFICES ASSUME job'[Boot].pc \in {"attach"} \cup RefreshPcs
               PROVE  defs'[job'[Boot].id] # None /\ defs'[job'[Boot].id].sched = Vendor
    OBVIOUS
  <2>1. /\ job'[Boot].id = job[Boot].id /\ job[Boot].id \in DefIds
        /\ defs[job[Boot].id] # None /\ defs[job[Boot].id].sched = Vendor
    BY DEF DoneInv
  <2> QED BY <2>1 DEF Steady
<1> QED BY <1>2, <1>3, <1>4 DEF DoneInv

LEMMA SteadyUnchanged == ASSUME UNCHANGED <<defs, conns>> PROVE Steady
BY DEF Steady
LEMMA QuietStep ==
    ASSUME IndInv, phase = "boot", BootInv, UNCHANGED <<defs, file, pos, seen, doomed, failed, job>>,
           \A i \in DefIds : conns[i] # None => conns'[i] # None
    PROVE  BootInv'
<1>1. Steady /\ (Working' <=> Working)
  BY DEF Steady, Working
<1>2. Past' = Past /\ \A p, n : IsLast(p, n)' <=> IsLast(p, n)
  BY <1>1, PastSame
<1>3. PosInv' /\ SeenInv'
  BY <1>1, <1>2, SeenSame DEF BootInv, PosInv
<1>4. RemoveInv'
  BY DEF BootInv, RemoveInv, Managed
<1>5. job[Boot].pc \in {"attach"} \cup RefreshPcs => job[Boot].id \in DefIds
  BY JobIds DEF IndInv, Actors, RefreshPcs
<1>6. DoneInv'
  BY <1>1, <1>2, <1>5, DoneSame DEF BootInv
<1> QED BY <1>3, <1>4, <1>6 DEF BootInv

\* A step inside the work on an entry, or at its end.
LEMMA WorkStep ==
    ASSUME IndInv, phase = "boot", BootInv, UNCHANGED <<file, seen, doomed>>, Steady, Working,
           failed => failed',
           \/ pos' = pos /\ Working' /\ job'[Boot].id = job[Boot].id
                 /\ (job'[Boot].pc = "generate" \/ job[Boot].pc \in {"attach"} \cup RefreshPcs)
           \/ pos' = pos + 1 /\ job'[Boot].pc = "idle",
           job[Boot].pc = "attach" /\ ~failed' => conns'[job[Boot].id] # None \/ ~file[pos].login
    PROVE  BootInv'
<1>1. /\ pos <= Len(file) /\ Len(file) \in Nat /\ pos \in Nat
      /\ job'[Boot].pc # "remove" /\ (job'[Boot].pc = "idle" => ~Working')
  BY FileFacts DEF BootInv, PosInv, Working
<1>2. Past' = Past /\ \A p, n : IsLast(p, n)' <=> IsLast(p, n)
  BY <1>1, PastSame
<1>3. PosInv'
  BY <1>1 DEF BootInv, PosInv, Working
<1>4. SeenInv'
  BY <1>2, SeenSame DEF BootInv
<1>5. RemoveInv'
  BY <1>1 DEF RemoveInv, Working, IndInv, Phases
<1>6. job[Boot].id \in DefIds
  BY JobIds DEF IndInv, Actors, Working
<1>7. job'[Boot].pc \in {"attach"} \cup RefreshPcs =>
        job'[Boot].id = job[Boot].id /\ job[Boot].pc \in {"attach"} \cup RefreshPcs
  BY DEF RefreshPcs
<1>8. DoneInv'
  BY <1>2, <1>6, <1>7, DoneSame DEF BootInv
<1> QED BY <1>3, <1>4, <1>5, <1>8 DEF BootInv

LEMMA GenerateBoot == ASSUME IndInv, phase = "boot", BootInv, Generate(Boot) PROVE BootInv'
<1>1. job[Boot].pc = "generate" /\ Working /\ UNCHANGED <<file, seen, doomed, defs, conns>>
  BY DEF Generate, GenerateNext, GenerateDone, GenerateFails, unchangedByJobs, tables, EnsureInstance,
     Working
<1>2. job \in [Actors -> Job] /\ Boot \in Actors
  BY DEF IndInv, TypeOK, Actors
<1>3. CASE GenerateNext(Boot)
  <2>1. PICK d \in job[Boot].dates : job' = [job EXCEPT ![Boot].dates = @ \ {d}]
    BY <1>3 DEF GenerateNext
  <2>2. job'[Boot].pc = "generate" /\ job'[Boot].id = job[Boot].id /\ pos' = pos /\ failed' = failed
    BY <1>1, <1>2, <1>3, <2>1 DEF GenerateNext, Job
  <2> QED BY <1>1, <2>2, SteadyUnchanged, WorkStep DEF Working
<1>4. CASE GenerateDone(Boot) \/ GenerateFails(Boot)
  <2>1. pos' = pos + 1 /\ job' = [job EXCEPT ![Boot] = Idle]
    BY <1>4 DEF GenerateDone, GenerateFails, Return
  <2>3. failed => failed'
    <3>1. failed' = failed \/ failed' = (failed \/ Boot = Boot)
      BY <1>4 DEF GenerateDone, GenerateFails
    <3> QED BY <3>1, Zenon
  <2>2. job'[Boot].pc = "idle"
    BY <1>2, <2>1, IdleType
  <2> QED BY <1>1, <2>1, <2>2, <2>3, SteadyUnchanged, WorkStep
<1> QED BY <1>3, <1>4 DEF Generate

LEMMA RefreshBoot == ASSUME IndInv, phase = "boot", BootInv, Refresh(Boot) PROVE BootInv'
<1>1. /\ job[Boot].pc \in RefreshPcs /\ Working /\ UNCHANGED <<file, seen, doomed, failed>>
      /\ job[Boot].pc # "attach"
  BY DEF Refresh, Fetch, RefreshAmount, RefreshInstance, RefreshEnds, unchangedByJobs, RefreshPcs,
     Working
<1>2. job \in [Actors -> Job] /\ Boot \in Actors /\ TablesTypeOK
  BY DEF IndInv, TypeOK, Actors
<1>3. job[Boot].id \in DefIds /\ job[Boot].amt \in Amounts /\ job[Boot].due \in Days
      /\ job[Boot] \in Job
  <2>1. job[Boot] \in Job /\ job[Boot].id \in DefIds
    BY <1>1, <1>2, JobIds DEF IndInv, Working
  <2> QED BY <2>1 DEF Job
<1>4. Steady
  <2>1. CASE Fetch(Boot)
    BY <2>1, SteadyUnchanged DEF Fetch, tables
  <2>2. CASE RefreshAmount(Boot)
    <3>1. UpdateAmount(job[Boot].id, job[Boot].amt) \/ UNCHANGED tables
      BY <2>2 DEF RefreshAmount
    <3>2. /\ conns' = conns
          /\ \A j \in DefIds : /\ defs'[j] = None <=> defs[j] = None
                               /\ defs[j] # None => /\ defs'[j].managed = defs[j].managed
                                                    /\ defs'[j].sched = defs[j].sched
                                                    /\ defs'[j].name = defs[j].name
      BY <1>2, <1>3, <3>1, UpdateAmountEffect
    <3>3. defs[job[Boot].id].sched = Vendor
      BY <1>1 DEF BootInv, DoneInv
    <3>4. \A j \in DefIds : j # job[Boot].id => defs'[j] = defs[j]
      BY <1>2, <3>1 DEF UpdateAmount, tables, TablesTypeOK
    <3> QED BY <3>2, <3>3, <3>4 DEF Steady
  <2>3. CASE RefreshInstance(Boot)
    BY <2>3, SteadyUnchanged DEF RefreshInstance, EnsureInstance, tables
  <2>4. CASE RefreshEnds(Boot)
    <3>1. \E e \in BOOLEAN : MarkSynced(job[Boot].id, e) \/ UNCHANGED tables
      BY <2>4 DEF RefreshEnds
    <3> QED BY <1>2, <1>3, <3>1, MarkSyncedEffect DEF Steady
  <2> QED BY <2>1, <2>2, <2>3, <2>4 DEF Refresh
<1>5. \/ pos' = pos /\ Working' /\ job'[Boot].id = job[Boot].id
      \/ pos' = pos + 1 /\ job'[Boot].pc = "idle"
  <2>1. CASE Fetch(Boot)
    <3>1. CASE job' = [job EXCEPT ![Boot].pc = "fetchFailed"]
      BY <1>2, <1>3, <2>1, <3>1 DEF Fetch, Working, Job
    <3>2. CASE \E m \in VendorAmounts, d \in VendorDues :
                 job' = [job EXCEPT ![Boot].pc = "amount", ![Boot].amt = m, ![Boot].due = d]
      <4>1. PICK m \in VendorAmounts, d \in VendorDues :
                 job' = [job EXCEPT ![Boot].pc = "amount", ![Boot].amt = m, ![Boot].due = d]
        BY <3>2
      <4>2. job'[Boot] = [job[Boot] EXCEPT !.pc = "amount", !.amt = m, !.due = d]
        BY <1>2, <4>1
      <4>3. job'[Boot].pc = "amount" /\ job'[Boot].id = job[Boot].id
        BY <1>3, <4>2 DEF Job
      <4> QED BY <2>1, <4>3 DEF Fetch, Working
    <3> QED BY <2>1, <3>1, <3>2 DEF Fetch
  <2>2. CASE RefreshAmount(Boot) \/ RefreshInstance(Boot)
    <3>1. pos' = pos /\ \E c \in {"synced", "instance"} : job' = [job EXCEPT ![Boot].pc = c]
      BY <2>2 DEF RefreshAmount, RefreshInstance
    <3> QED BY <1>2, <1>3, <3>1 DEF Working, Job
  <2>3. CASE RefreshEnds(Boot)
    BY <1>2, <2>3, IdleType DEF RefreshEnds, Return
  <2> QED BY <2>1, <2>2, <2>3 DEF Refresh
<1> QED BY <1>1, <1>4, <1>5, WorkStep

LEMMA AttachBoot ==
    ASSUME IndInv, phase = "boot", BootInv, AttachVendorConnection \/ AttachFails
    PROVE  BootInv'
<1>1. job[Boot].pc = "attach" /\ Working /\ UNCHANGED <<file, seen, doomed, defs>>
  BY DEF AttachVendorConnection, AttachFails, unchangedByJobs, tables, Upsert, Working
<1>2. job \in [Actors -> Job] /\ Boot \in Actors /\ TablesTypeOK
  BY DEF IndInv, TypeOK, Actors
<1>3. job[Boot].id \in DefIds /\ job[Boot] \in Job
  BY <1>1, <1>2, JobIds DEF IndInv, Working
<1>4. CASE AttachVendorConnection
  <2>1. Upsert(job[Boot].id)
    BY <1>4 DEF AttachVendorConnection
  <2>2. conns'[job[Boot].id] # None /\ \A i \in DefIds : conns[i] # None => conns'[i] # None
    <3>1. CASE conns[job[Boot].id] # None
      BY <2>1, <3>1 DEF Upsert
    <3>2. CASE conns[job[Boot].id] = None
      <4>1. [synced |-> "never", err |-> FALSE] \in Connection
        BY DEF Connection
      <4>2. [synced |-> "never", err |-> FALSE] # None
        BY <4>1, TablesAssumption DEF TablesAssumption
      <4>3. conns' = [conns EXCEPT ![job[Boot].id] = [synced |-> "never", err |-> FALSE]]
        BY <2>1, <3>2 DEF Upsert
      <4> QED BY <1>2, <1>3, <4>2, <4>3 DEF TablesTypeOK
    <3> QED BY <3>1, <3>2
  <2>3. Steady
    BY <1>1, <2>2 DEF Steady
  <2>4. (failed => failed') /\
        \/ pos' = pos + 1 /\ job' = [job EXCEPT ![Boot] = Idle]
        \/ pos' = pos /\ job' = [job EXCEPT ![Boot].pc = "fetch"]
    BY <1>4 DEF AttachVendorConnection, Return
  <2>5. \/ pos' = pos /\ Working' /\ job'[Boot].id = job[Boot].id
        \/ pos' = pos + 1 /\ job'[Boot].pc = "idle"
    BY <1>2, <1>3, <2>4, IdleType DEF Working, Job
  <2> QED BY <1>1, <2>2, <2>3, <2>4, <2>5, WorkStep
<1>5. CASE AttachFails
  <2>1. /\ conns' = conns /\ pos' = pos + 1 /\ job' = [job EXCEPT ![Boot] = Idle]
        /\ failed' = (failed \/ file[pos].login)
    BY <1>5 DEF AttachFails, Return, tables, entry
  <2>2. job'[Boot].pc = "idle"
    BY <1>2, <2>1, IdleType
  <2> QED BY <1>1, <2>1, <2>2, SteadyUnchanged, WorkStep
<1> QED BY <1>4, <1>5
-----------------------------------------------------------------------------
(* The entries *)

\* The pass takes up entry q, or skips it; a definition whose name is not that of
\* the entry is not touched.
LEMMA EntryOthers ==
    ASSUME IndInv, phase = "boot", BootInv, job[Boot].pc = "idle", NEW m,
           conns' = conns, file' = file,
           \A n : n # m => GetByName(n)' = GetByName(n),
           \A i \in DefIds : defs'[i] # None /\ defs'[i].name # m => defs'[i] = defs[i],
           \A p, n : n # m => (IsLast(p, n)' <=> IsLast(p, n)),
           ~failed, NEW i \in DefIds, Managed(i)', NEW n, n = defs'[i].name, n # m,
           GetByName(n)' = {i}, NEW p \in DOMAIN file, IsLast(p, n)'
    PROVE  Matches(i, p)'
<1>1. defs'[i] = defs[i] /\ Managed(i) /\ defs[i].name = n
  BY DEF Managed
<1>2. Matches(i, p)
  BY <1>1 DEF BootInv, DoneInv
<1> QED BY <1>1, <1>2 DEF Matches

LEMMA EntryFacts ==
    ASSUME IndInv, phase = "boot", BootInv, BootEntry
    PROVE  /\ job[Boot].pc = "idle" /\ ~Working /\ pos \in DOMAIN file /\ Len(file) \in Nat
           /\ pos \in Nat /\ file' = file /\ doomed' = doomed /\ phase' = "boot" /\ doomed = {}
           /\ entry = file[pos] /\ entry \in Entry
           /\ TablesTypeOK /\ job \in [Actors -> Job] /\ Boot \in Actors
<1>1. job[Boot].pc = "idle" /\ pos <= Len(file) /\ file' = file /\ doomed' = doomed /\ phase' = phase
  BY DEF BootEntry
<1>2. /\ file \in Seq(Entry) /\ Len(file) \in Nat /\ DOMAIN file = 1..Len(file)
      /\ pos \in Nat /\ pos >= 1
      /\ TypeOK /\ TablesTypeOK /\ Phases
  BY FileFacts
<1>3. pos \in DOMAIN file /\ file[pos] \in Entry
  BY <1>1, <1>2
<1>4. doomed = {}
  BY <1>1, <1>2 DEF Phases
<1> QED BY <1>1, <1>2, <1>3, <1>4 DEF Working, entry, TypeOK, Actors

\* An invalid entry, a collision or a failure: on to the next one.
LEMMA SkipBoot ==
    ASSUME IndInv, phase = "boot", BootInv, BootEntry, BootInvalid \/ BootCollision \/ BootEntryFails
    PROVE  BootInv'
<1>1. /\ job[Boot].pc = "idle" /\ ~Working /\ pos \in DOMAIN file /\ Len(file) \in Nat
      /\ pos \in Nat /\ file' = file /\ doomed' = doomed /\ phase' = "boot" /\ doomed = {}
      /\ entry = file[pos]
  BY EntryFacts
<1>2. pos' = pos + 1 /\ job' = job /\ UNCHANGED <<defs, conns>>
  BY DEF BootInvalid, BootCollision, BootEntryFails, NextEntry, tables
<1>3. ~Working' /\ job'[Boot].pc = "idle"
  BY <1>1, <1>2 DEF Working
<1>4. PosInv'
  <2>1. pos <= Len(file)
    BY DEF BootEntry
  <2> QED BY <1>1, <1>2, <1>3, <2>1 DEF PosInv
<1>5. RemoveInv'
  BY <1>1, <1>3 DEF RemoveInv
<1>6. CASE BootInvalid
  <2>1. seen' = seen /\ failed' = failed /\ ~file[pos].ok
    BY <1>1, <1>6 DEF BootInvalid
  <2>2. Past' = Past /\ \A p, n : IsLast(p, n)' <=> IsLast(p, n)
    BY <1>1, <1>2, <1>3, <2>1, PastSame
  <2>3. SeenInv'
    BY <1>1, <2>1, <2>2, SeenSame DEF BootInv
  <2>4. DoneInv'
    <3>1. job'[Boot].pc \notin {"attach"} \cup RefreshPcs
      BY <1>3 DEF RefreshPcs
    <3> QED BY <1>1, <1>2, <2>1, <2>2, <3>1, SteadyUnchanged, DoneSame DEF BootInv
  <2> QED BY <1>4, <1>5, <2>3, <2>4 DEF BootInv
<1>7. CASE BootCollision \/ BootEntryFails
  <2> DEFINE q == pos
             m == file[q].name
  <2>1. file[q].ok /\ seen' = seen \cup {m}
    BY <1>1, <1>7 DEF BootCollision, BootEntryFails
  <2>2. PICK k, l : k = q /\ l = m
    OBVIOUS
  <2>3. /\ Past' = Past \cup {k} /\ IsLast(k, l)'
        /\ \A p : IsLast(p, l)' => p = k
        /\ \A p, n : n # l => (IsLast(p, n)' <=> IsLast(p, n))
    BY <1>1, <1>2, <1>3, <2>1, <2>2, PastAdds
  <2>4. SeenInv'
    BY <1>1, <2>1, <2>2, <2>3, SeenAdds DEF BootInv
  <2>5. DoneInv'
    <3>1. CASE BootEntryFails
      BY <1>3, <3>1 DEF BootEntryFails, DoneInv, RefreshPcs
    <3>2. CASE BootCollision
      <4>1. failed' = failed /\ \A n : GetByName(n)' = GetByName(n)
        BY <1>2, <3>2 DEF BootCollision, GetByName
      <4>2. PICK c \in GetByName(l) : ~defs[c].managed
        BY <1>1, <2>2, <3>2 DEF BootCollision
      <4>3. ~failed' => \A n \in seen' : GetByName(n)' # {}
        BY <2>1, <2>2, <4>1, <4>2 DEF BootInv, DoneInv
      <4>4. ASSUME ~failed', NEW i \in DefIds, Managed(i)', NEW n, n = defs'[i].name,
                   GetByName(n)' = {i}, NEW p \in DOMAIN file, IsLast(p, n)'
            PROVE  Matches(i, p)'
        <5>1. n # l
          BY <1>2, <4>1, <4>2, <4>4 DEF Managed
        <5>2. \A j \in DefIds : defs'[j] = defs[j]
          BY <1>2
        <5> QED BY <1>1, <1>2, <2>3, <4>1, <4>4, <5>1, <5>2, EntryOthers
      <4> QED BY <1>1, <1>3, <4>3, <4>4 DEF DoneInv, RefreshPcs
    <3> QED BY <1>7, <3>1, <3>2
  <2> QED BY <1>4, <1>5, <2>4, <2>5 DEF BootInv
<1> QED BY <1>6, <1>7

\* ReconcileRest for definition k, which now is what the entry says.
LEMMA TakeUpBoot ==
    ASSUME IndInv, phase = "boot", BootInv, BootEntry, file[pos].ok, NEW k \in DefIds, NEW m,
           m = file[pos].name, seen' = seen \cup {m}, pos' = pos, failed' = failed, conns' = conns,
           ReconcileRest(k),
           \A n : n # m => GetByName(n)' = GetByName(n),
           k \in GetByName(m)',
           defs'[k].sched = file[pos].sched,
           file[pos].sched # Vendor => defs'[k].amt = file[pos].amt,
           \A i \in DefIds : defs'[i] # None /\ defs'[i].name # m => defs'[i] = defs[i]
    PROVE  BootInv'
<1>1. /\ job[Boot].pc = "idle" /\ ~Working /\ pos \in DOMAIN file /\ Len(file) \in Nat
      /\ pos \in Nat /\ file' = file /\ doomed' = doomed /\ phase' = "boot" /\ doomed = {}
      /\ entry = file[pos] /\ entry \in Entry
      /\ job \in [Actors -> Job] /\ Boot \in Actors
  BY EntryFacts
<1>2. \/ file[pos].sched = Vendor /\ job'[Boot].pc = "attach" /\ job'[Boot].id = k
      \/ file[pos].sched # Vendor /\ job'[Boot].pc = "generate"
  <2>1. CASE entry.sched = Vendor
    <3>1. job'[Boot] = At("attach", k)
      BY <1>1, <2>1 DEF ReconcileRest
    <3> QED BY <1>1, <2>1, <3>1 DEF At
  <2>2. CASE entry.sched # Vendor
    <3>1. job'[Boot] = GenerateJob(k, entry.sched)
      BY <1>1, <2>2 DEF ReconcileRest
    <3> QED BY <1>1, <2>2, <3>1 DEF GenerateJob, At
  <2> QED BY <2>1, <2>2
<1>3. Working' /\ job'[Boot].pc \notin {"remove"} \cup RefreshPcs
  BY <1>2 DEF Working, RefreshPcs
<1>4. PosInv'
  <2>1. pos <= Len(file)
    BY DEF BootEntry
  <2> QED BY <1>1, <1>3, <2>1 DEF PosInv, BootInv
<1>5. RemoveInv'
  BY <1>1, <1>3 DEF RemoveInv
<1>6. PICK q : q = pos
  OBVIOUS
<1>7. /\ Past' = Past \cup {q} /\ IsLast(q, m)'
      /\ \A p : IsLast(p, m)' => p = q
      /\ \A p, n : n # m => (IsLast(p, n)' <=> IsLast(p, n))
  BY <1>1, <1>3, <1>6, PastAdds
<1>8. SeenInv'
  BY <1>1, <1>6, <1>7, SeenAdds DEF BootInv
<1>9. ~failed' => \A n \in seen' : GetByName(n)' # {}
  BY DEF BootInv, DoneInv
<1>10. ASSUME ~failed', NEW i \in DefIds, Managed(i)', NEW n, n = defs'[i].name,
              GetByName(n)' = {i}, NEW p \in DOMAIN file, IsLast(p, n)'
       PROVE  Matches(i, p)'
  <2>1. CASE n = m
    <3>1. i = k /\ p = q
      BY <1>7, <1>10, <2>1
    <3>2. defs'[i].sched = file[p].sched /\ (file[p].sched # Vendor => defs'[i].amt = file[p].amt)
      BY <1>6, <3>1
    <3>3. file[p].sched = Vendor => p = pos' /\ job'[Boot].pc = "attach" /\ job'[Boot].id = i
      BY <1>2, <1>6, <3>1
    <3> QED BY <1>1, <3>2, <3>3 DEF Matches
  <2>2. CASE n # m
    BY <1>1, <1>7, <1>10, <2>2, EntryOthers
  <2> QED BY <2>1, <2>2
<1>11. job'[Boot].pc \in {"attach"} \cup RefreshPcs =>
         defs'[job'[Boot].id] # None /\ defs'[job'[Boot].id].sched = Vendor
  BY <1>2, <1>3 DEF GetByName
<1>12. DoneInv'
  BY <1>1, <1>9, <1>10, <1>11 DEF DoneInv
<1> QED BY <1>4, <1>5, <1>8, <1>12 DEF BootInv

LEMMA CreateBoot == ASSUME IndInv, phase = "boot", BootInv, BootEntry, BootCreate PROVE BootInv'
<1>1. TablesTypeOK /\ entry \in Entry /\ entry = file[pos]
  BY EntryFacts
<1>2. PICK m, d, k : m = entry.name /\ k = nextDef
                     /\ d = [name |-> entry.name, sched |-> entry.sched, amt |-> entry.amt, managed |-> TRUE]
  OBVIOUS
<1>3. d \in Definition /\ Create(d)
  BY <1>1, <1>2 DEF Entry, Definition, BootCreate
<1>4. k \in DefIds /\ conns' = conns /\ defs'[k] = d /\ d # None /\ \A j \in DefIds : j # k => defs'[j] = defs[j]
  BY <1>1, <1>2, <1>3, CreateEffect
<1>5. defs[k] = None
  BY <1>2, <1>4 DEF IndInv, FreshIds, TypeOK, TablesTypeOK
<1>6. d.name = m /\ d.sched = file[pos].sched /\ d.amt = file[pos].amt
  BY <1>1, <1>2
<1>7. k \in GetByName(m)' /\ \A n : n # m => GetByName(n)' = GetByName(n)
  BY <1>4, <1>5, <1>6 DEF GetByName
<1>8. \A i \in DefIds : defs'[i] # None /\ defs'[i].name # m => defs'[i] = defs[i]
  BY <1>4, <1>6
<1>9. /\ file[pos].ok /\ m = file[pos].name /\ seen' = seen \cup {m} /\ pos' = pos /\ failed' = failed
      /\ ReconcileRest(k)
  BY <1>1, <1>2 DEF BootCreate
<1> QED BY <1>4, <1>6, <1>7, <1>8, <1>9, TakeUpBoot

LEMMA UpdateBoot == ASSUME IndInv, phase = "boot", BootInv, BootEntry, BootUpdate PROVE BootInv'
<1>1. TablesTypeOK /\ entry \in Entry /\ entry = file[pos]
  BY EntryFacts
<1>2. PICK m, a, s : m = entry.name /\ s = entry.sched /\ a = entry.amt
  OBVIOUS
<1>3. PICK k \in GetByName(m) :
        Update(k, defs[k].name, s, IF s = Vendor THEN defs[k].amt ELSE a) /\ ReconcileRest(k)
  BY <1>2 DEF BootUpdate, UpdateBootstrap
<1>4. k \in DefIds /\ defs[k] # None /\ defs[k].name = m
  BY <1>3 DEF GetByName
<1>5. PICK d : d = [name |-> defs[k].name, sched |-> s, amt |-> IF s = Vendor THEN defs[k].amt ELSE a,
                    managed |-> defs[k].managed]
  OBVIOUS
<1>6. conns' = conns /\ defs' = [defs EXCEPT ![k] = d]
  BY <1>3, <1>4, <1>5 DEF Update
<1>7. d \in Definition /\ d # None
  <2>1. defs[k] \in Definition
    BY <1>1, <1>4 DEF TablesTypeOK
  <2>2. d \in Definition
    BY <1>1, <1>2, <1>5, <2>1 DEF Definition, Entry
  <2> QED BY <2>2, TablesAssumption DEF TablesAssumption
<1>8. defs'[k] = d /\ \A j \in DefIds : j # k => defs'[j] = defs[j]
  BY <1>1, <1>4, <1>6 DEF TablesTypeOK
<1>9. d.name = m /\ d.sched = file[pos].sched /\ (file[pos].sched # Vendor => d.amt = file[pos].amt)
  BY <1>1, <1>2, <1>4, <1>5
<1>10. k \in GetByName(m)' /\ \A n : n # m => GetByName(n)' = GetByName(n)
  BY <1>4, <1>7, <1>8, <1>9 DEF GetByName
<1>11. \A i \in DefIds : defs'[i] # None /\ defs'[i].name # m => defs'[i] = defs[i]
  BY <1>8, <1>9
<1>12. /\ file[pos].ok /\ m = file[pos].name /\ seen' = seen \cup {m} /\ pos' = pos /\ failed' = failed
  BY <1>1, <1>2 DEF BootUpdate
<1> QED BY <1>3, <1>4, <1>6, <1>8, <1>9, <1>10, <1>11, <1>12, TakeUpBoot
-----------------------------------------------------------------------------
(* The removal pass, and the pass as a whole *)

LEMMA ListAllBoot == ASSUME IndInv, phase = "boot", BootInv, BootListAll PROVE BootInv'
<1>1. /\ UNCHANGED <<defs, conns, file, pos, seen, failed>> /\ job[Boot].pc = "idle" /\ pos = Len(file) + 1
      /\ doomed' = {i \in DefIds : defs[i] # None /\ defs[i].managed /\ defs[i].name \notin seen}
      /\ job' = [job EXCEPT ![Boot].pc = "remove"]
  BY DEF BootListAll, tables
<1>2. job'[Boot].pc = "remove" /\ ~Working /\ ~Working'
  <2>1. job \in [Actors -> Job] /\ Boot \in Actors
    BY DEF IndInv, TypeOK, Actors
  <2>2. job[Boot] \in Job
    BY <2>1
  <2>3. job'[Boot].pc = "remove"
    BY <1>1, <2>1, <2>2 DEF Job
  <2> QED BY <1>1, <2>3 DEF Working
<1>3. Past' = Past /\ \A p, n : IsLast(p, n)' <=> IsLast(p, n)
  BY <1>1, <1>2, PastSame
<1>4. PosInv'
  BY <1>1, <1>2, FileFacts DEF PosInv
<1>5. SeenInv'
  BY <1>1, <1>3, SeenSame DEF BootInv
<1>6. RemoveInv'
  BY <1>1 DEF RemoveInv, Managed
<1>7. DoneInv'
  <2>1. job'[Boot].pc \notin {"attach"} \cup RefreshPcs
    BY <1>2 DEF RefreshPcs
  <2> QED BY <1>1, <1>3, <2>1, SteadyUnchanged, DoneSame DEF BootInv
<1> QED BY <1>4, <1>5, <1>6, <1>7 DEF BootInv

\* What is deleted has a name that was not seen: no definition of an entry that
\* was reconciled.
LEMMA RemoveBoot == ASSUME IndInv, phase = "boot", BootInv, BootRemove PROVE BootInv'
<1>1. /\ UNCHANGED <<file, pos, seen, job>> /\ job[Boot].pc = "remove"
      /\ (Working' <=> Working)
  BY DEF BootRemove, Working
<1>2. PICK k \in doomed : /\ doomed' = doomed \ {k}
                          /\ \/ Delete(k) /\ failed' = failed
                             \/ UNCHANGED tables /\ failed' = TRUE
  BY DEF BootRemove
<1>3. k \in DefIds /\ defs[k] # None /\ defs[k].name \notin seen /\ TablesTypeOK
  BY <1>2 DEF IndInv, TypeOK, BootInv, RemoveInv, CopiesSound, ListsSound
<1>4. Past' = Past /\ \A p, n : IsLast(p, n)' <=> IsLast(p, n)
  BY <1>1, PastSame
<1>5. PosInv' /\ SeenInv'
  BY <1>1, <1>4, SeenSame DEF BootInv, PosInv
<1>6. job'[Boot].pc \notin {"attach"} \cup RefreshPcs
  BY <1>1 DEF RefreshPcs
<1>7. CASE UNCHANGED tables /\ failed' = TRUE
  <2>1. RemoveInv'
    BY <1>1, <1>2, <1>7 DEF BootInv, RemoveInv, Managed, tables
  <2>2. DoneInv'
    BY <1>6, <1>7 DEF DoneInv
  <2> QED BY <1>5, <2>1, <2>2 DEF BootInv
<1>8. CASE Delete(k) /\ failed' = failed
  <2>1. /\ defs'[k] = None
        /\ \A j \in DefIds : j # k => defs'[j] = defs[j] /\ conns'[j] = conns[j]
    BY <1>3, <1>8, DeleteEffect
  <2>2. RemoveInv'
    <3>1. \A i \in doomed' : defs'[i].name \notin seen'
      BY <1>1, <1>2, <2>1 DEF BootInv, RemoveInv, IndInv, TypeOK
    <3>2. ASSUME NEW i \in DefIds, Managed(i)' PROVE defs'[i].name \in seen' \/ i \in doomed' \/ failed'
      <4>1. i # k /\ defs'[i] = defs[i]
        BY <2>1, <3>2 DEF Managed
      <4> QED BY <1>1, <1>2, <1>8, <3>2, <4>1 DEF Managed, BootInv, RemoveInv
    <3> QED BY <3>1, <3>2 DEF RemoveInv
  <2>3. \A n \in seen : GetByName(n)' = GetByName(n)
    BY <1>3, <2>1 DEF GetByName
  <2>4. ~failed' => \A n \in seen' : GetByName(n)' # {}
    BY <1>1, <1>8, <2>3 DEF BootInv, DoneInv
  <2>5. ASSUME ~failed', NEW i \in DefIds, Managed(i)', NEW n, n = defs'[i].name,
               GetByName(n)' = {i}, NEW p \in DOMAIN file, IsLast(p, n)'
        PROVE  Matches(i, p)'
    <3>1. i # k /\ defs'[i] = defs[i] /\ conns'[i] = conns[i] /\ Managed(i)
      BY <2>1, <2>5 DEF Managed
    <3>2. IsLast(p, n) /\ n \in seen
      BY <1>4, <2>5 DEF IsLast, BootInv, SeenInv
    <3>3. Matches(i, p)
      BY <1>8, <2>3, <2>5, <3>1, <3>2 DEF BootInv, DoneInv
    <3> QED BY <1>1, <3>1, <3>3 DEF Matches
  <2>6. DoneInv'
    BY <1>1, <1>6, <2>4, <2>5 DEF DoneInv
  <2> QED BY <1>5, <2>2, <2>6 DEF BootInv
<1> QED BY <1>2, <1>7, <1>8

LEMMA StartBoot == ASSUME IndInv, Start PROVE BootInv'
<1> SUFFICES ASSUME phase' = "boot" PROVE PosInv' /\ SeenInv' /\ RemoveInv' /\ DoneInv'
  BY DEF BootInv
<1>1. /\ file' \in Files /\ pos' = 1 /\ seen' = {} /\ doomed' = {} /\ job' = job
      /\ job'[Boot].pc = "idle"
  BY DEF Start, IndInv, Phases
<1>2. Len(file') \in Nat /\ DOMAIN file' = 1..Len(file')
  <2>1. file' \in Seq(Entry)
    BY <1>1, BillsAssumption DEF BillsAssumption
  <2> QED BY <2>1
<1>3. ~Working'
  BY <1>1 DEF Working
<1>4. Past' = {}
  BY <1>1, <1>2, <1>3 DEF Past
<1>5. PosInv'
  BY <1>1, <1>2, <1>3 DEF PosInv
<1>6. SeenInv'
  BY <1>1, <1>4 DEF SeenInv
<1>7. RemoveInv'
  BY <1>1 DEF RemoveInv
<1>8. DoneInv'
  BY <1>1, <1>4 DEF DoneInv, IsLast, RefreshPcs
<1> QED BY <1>5, <1>6, <1>7, <1>8

LEMMA NextBoot == IndInv /\ BootInv /\ [Next]_vars => BootInv'
<1> SUFFICES ASSUME IndInv, BootInv, [Next]_vars PROVE BootInv'
  OBVIOUS
<1>1. CASE phase # "boot"
  <2>1. phase' = "boot" => Start
    <3>1. CASE UNCHANGED vars
      BY <1>1, <3>1 DEF vars
    <3>2. ~BootEntry /\ ~BootListAll /\ ~BootDone
      BY <1>1 DEF BootEntry, BootListAll, BootDone
    <3>3. phase' = phase \/ phase' = "down" \/ Start
      BY <3>2, <3>1 DEF Next, Stop, Midnight, SyncAges, Bootstrap, AttachVendorConnection, AttachFails,
         BootRemove, Generate, GenerateNext, GenerateDone, GenerateFails, Refresh, Fetch, RefreshAmount,
         RefreshInstance, RefreshEnds, GenTick, GenNext, VenTick, VenNext, Request, AddBill, UpdateBill,
         DeleteBill, RequestFails, CheckNotManaged, Show, MarkPaidAction, unchangedByJobs,
         unchangedByRequests, vars
    <3> QED BY <1>1, <3>3
  <2> QED BY <2>1, StartBoot DEF BootInv
<1>2. CASE phase = "boot"
  <2>1. CASE Stop \/ BootDone
    BY <2>1 DEF Stop, BootDone, BootInv
  <2>2. CASE Midnight \/ UNCHANGED vars
    BY <1>2, <2>2, QuietStep DEF Midnight, vars, tables, bootVars
  <2>3. ASSUME NEW i \in DefIds, SyncAges(i) PROVE BootInv'
    <3>1. [synced |-> "stale", err |-> conns[i].err] # None
      <4>1. conns[i] \in Connection
        BY <2>3 DEF SyncAges, IndInv, TypeOK, TablesTypeOK
      <4>2. [synced |-> "stale", err |-> conns[i].err] \in Connection
        BY <4>1 DEF Connection
      <4> QED BY <4>2, TablesAssumption DEF TablesAssumption
    <3>2. \A j \in DefIds : conns[j] # None => conns'[j] # None
      BY <2>3, <3>1 DEF SyncAges, IndInv, TypeOK, TablesTypeOK
    <3>3. UNCHANGED <<defs, file, pos, seen, doomed, failed, job>>
      BY <2>3 DEF SyncAges, bootVars
    <3> QED BY <1>2, <3>2, <3>3, QuietStep
  <2>4. CASE BootEntry
    BY <1>2, <2>4, SkipBoot, CreateBoot, UpdateBoot DEF BootEntry
  <2> QED BY <1>2, <2>1, <2>2, <2>3, <2>4, BootSteps, GenerateBoot, RefreshBoot, AttachBoot,
             ListAllBoot, RemoveBoot DEF Bootstrap
<1> QED BY <1>1, <1>2

LEMMA BootInvariant == Spec => []BootInv
<1>1. Init => BootInv
  BY DEF Init, BootInv
<1> QED BY <1>1, NextBoot, Invariance, PTL DEF Spec

-----------------------------------------------------------------------------
(* The theorems *)

\* At the end of the loop over the file what was seen is what it lists.
LEMMA AllSeen ==
    ASSUME IndInv, BootInv, phase = "boot", job[Boot].pc = "remove"
    PROVE  seen = ValidNames /\ Past = {p \in DOMAIN file : file[p].ok}
<1>1. pos = Len(file) + 1 /\ Len(file) \in Nat /\ DOMAIN file = 1..Len(file)
  BY FileFacts DEF BootInv, PosInv
<1>2. Past = {p \in DOMAIN file : file[p].ok}
  BY <1>1 DEF Past
<1> QED BY <1>2 DEF BootInv, SeenInv, ValidNames

\* A pass that ends without a failure has reconciled the tables with the file,
\* whatever earlier passes left behind: for every file, with invalid and repeated
\* entries, and any number of definitions (bootstrap.go BootstrapBills).
THEOREM BootCorrect == Spec => []BootReconciles
<1>1. IndInv /\ BootInv => BootReconciles
  <2> SUFFICES ASSUME IndInv, BootInv, phase = "boot", job[Boot].pc = "remove", doomed = {}, ~failed
               PROVE  BootReconciles
    BY DEF BootReconciles
  <2>1. seen = ValidNames /\ Past = {p \in DOMAIN file : file[p].ok}
    BY AllSeen
  <2>2. \A i \in DefIds : defs[i] # None /\ defs[i].managed => defs[i].name \in ValidNames
    BY <2>1 DEF BootInv, RemoveInv, Managed
  <2>3. \A n \in ValidNames : GetByName(n) # {}
    BY <2>1 DEF BootInv, DoneInv
  <2>4. ASSUME NEW i \in DefIds, defs[i] # None, defs[i].managed, GetByName(defs[i].name) = {i}
        PROVE  LET e == LastEntry(defs[i].name) IN
                 /\ defs[i].sched = e.sched
                 /\ e.sched # Vendor => defs[i].amt = e.amt
                 /\ e.sched = Vendor /\ e.login => conns[i] # None
    <3> DEFINE n     == defs[i].name
               L(p)  == /\ file[p].ok /\ file[p].name = n
                        /\ \A q \in DOMAIN file : file[q].ok /\ file[q].name = n => q <= p
               last  == CHOOSE p \in DOMAIN file : L(p)
    <3>1. \A p \in DOMAIN file : L(p) <=> IsLast(p, n)
      BY <2>1 DEF IsLast
    <3>2. \E p \in DOMAIN file : IsLast(p, n)
      BY <2>1, <2>2, <2>4 DEF BootInv, SeenInv
    <3>3. \E p \in DOMAIN file : L(p)
      BY <3>1, <3>2
    <3>4. last \in DOMAIN file /\ L(last)
      BY <3>3, Zenon
    <3>5. LastEntry(n) = file[last]
      BY DEF LastEntry
    <3> HIDE DEF last
    <3>6. IsLast(last, n)
      BY <3>1, <3>4
    <3>7. Matches(i, last)
      BY <2>4, <3>4, <3>6 DEF BootInv, DoneInv, Managed
    <3> QED BY <3>5, <3>7 DEF Matches
  <2> QED BY <2>2, <2>3, <2>4 DEF BootReconciles
<1> QED BY <1>1, BootInvariant, Invariance, PTL

\* A pass never removes a managed bill the file has a valid entry for, whichever of
\* its statements fail (bootstrap.go BootstrapBills).
THEOREM ListedCorrect == Spec => ListedBillsKept
<1> DEFINE Kept == \A i \in DefIds :
             phase = "boot" /\ defs[i] # None /\ defs[i].managed /\ defs[i].name \in ValidNames
             => defs'[i] # None
<1>1. IndInv /\ BootInv /\ [Next]_vars => [Kept]_vars
  <2> SUFFICES ASSUME IndInv, BootInv, [Next]_vars, NEW i \in DefIds, phase = "boot", defs[i] # None,
                      defs[i].managed, defs[i].name \in ValidNames
               PROVE  defs'[i] # None
    OBVIOUS
  <2>1. TablesTypeOK /\ job \in [Actors -> Job]
    BY DEF IndInv, TypeOK
  <2>2. CASE BootRemove
    <3>1. PICK k \in doomed : Delete(k) \/ UNCHANGED tables
      BY <2>2 DEF BootRemove
    <3>2. k \in DefIds /\ defs[k].name \notin ValidNames
      BY <2>2, AllSeen DEF BootRemove, BootInv, RemoveInv, IndInv, TypeOK
    <3>3. i # k
      BY <3>2
    <3> QED BY <2>1, <3>1, <3>2, <3>3, DeleteEffect DEF tables
  <2>3. CASE BootEntry
    <3>1. entry \in Entry
      BY <2>3, EntryFacts
    <3>2. CASE BootInvalid \/ BootCollision \/ BootEntryFails
      BY <3>2 DEF BootInvalid, BootCollision, BootEntryFails, NextEntry, tables
    <3>3. CASE BootCreate
      <4>1. [name |-> entry.name, sched |-> entry.sched, amt |-> entry.amt, managed |-> TRUE] \in Definition
        BY <3>1 DEF Entry, Definition
      <4> QED BY <2>1, <3>3, <4>1, CreateEffect DEF BootCreate
    <3>4. CASE BootUpdate
      <4>1. PICK k \in GetByName(entry.name) :
               Update(k, defs[k].name, entry.sched, IF entry.sched = Vendor THEN defs[k].amt ELSE entry.amt)
        BY <3>4 DEF BootUpdate, UpdateBootstrap
      <4>2. /\ k \in DefIds /\ defs[k].name \in Names /\ entry.sched \in AnySchedule
            /\ (IF entry.sched = Vendor THEN defs[k].amt ELSE entry.amt) \in Amounts
        BY <2>1, <3>1 DEF GetByName, Entry, Definition, TablesTypeOK
      <4> QED BY <2>1, <4>1, <4>2, UpdateEffect
    <3> QED BY <2>3, <3>2, <3>3, <3>4 DEF BootEntry
  <2>4. CASE Refresh(Boot)
    <3>1. CASE RefreshAmount(Boot)
      <4>1. job[Boot].id \in DefIds /\ job[Boot] \in Job
        BY <3>1, JobIds DEF RefreshAmount, IndInv, Actors
      <4>2. job[Boot].amt \in Amounts
        BY <4>1 DEF Job
      <4> QED BY <2>1, <3>1, <4>1, <4>2, UpdateAmountEffect DEF RefreshAmount
    <3>2. CASE Fetch(Boot) \/ RefreshInstance(Boot) \/ RefreshEnds(Boot)
      BY <3>2 DEF Fetch, RefreshInstance, RefreshEnds, EnsureInstance, MarkSynced, tables
    <3> QED BY <2>4, <3>1, <3>2 DEF Refresh
  <2>5. CASE Generate(Boot)
    BY <2>5 DEF Generate, GenerateNext, GenerateDone, GenerateFails, EnsureInstance, tables
  <2>6. CASE AttachVendorConnection \/ AttachFails \/ BootListAll \/ BootDone
    BY <2>6 DEF AttachVendorConnection, AttachFails, BootListAll, BootDone, Upsert, tables
  <2>7. CASE Stop \/ Midnight \/ UNCHANGED vars \/ \E j \in DefIds : SyncAges(j)
    BY <2>7 DEF Stop, Midnight, SyncAges, vars, tables
  <2> QED BY <2>2, <2>3, <2>4, <2>5, <2>6, <2>7, BootSteps DEF Bootstrap
<1> QED BY <1>1, BootInvariant, Invariance, PTL DEF Spec, ListedBillsKept

\* Nothing but a refresh that came back with it changes the amount of a bill that
\* is, and stays, with a vendor: no bootstrap pass and no request does, whatever
\* the interleaving (bootstrap.go BootstrapBills, scheduler.go
\* RefreshVendorConnectionNow).
THEOREM AmountCorrect == Spec => KnownAmountKept
<1> DEFINE Known(i) ==
             /\ defs[i] # None /\ defs[i].sched = Vendor
             /\ defs'[i] # None /\ defs'[i].sched = Vendor
             /\ defs'[i].amt # defs[i].amt
             => \E a \in {Boot, Ven} : job[a].pc = "amount" /\ job[a].id = i
                                       /\ job[a].amt = defs'[i].amt
<1>1. IndInv /\ [Next]_vars => [\A i \in DefIds : Known(i)]_vars
  <2> SUFFICES ASSUME IndInv, [Next]_vars, NEW i \in DefIds,
                      defs[i] # None, defs[i].sched = Vendor,
                      defs'[i] # None, defs'[i].sched = Vendor, defs'[i].amt # defs[i].amt
               PROVE  \E a \in {Boot, Ven} : job[a].pc = "amount" /\ job[a].id = i
                                             /\ job[a].amt = defs'[i].amt
    OBVIOUS
  <2>1. TablesTypeOK /\ FreshIds /\ Phases /\ defs' # defs /\ nextDef # i /\ Vendor \notin Schedules
    BY TablesAssumption DEF IndInv, TypeOK, TablesTypeOK, FreshIds, TablesAssumption
  <2>2. CASE BootEntry
    <3>1. BootCreate \/ BootUpdate
      BY <2>1, <2>2 DEF BootEntry, BootInvalid, BootCollision, BootEntryFails, NextEntry, tables
    <3>2. CASE BootCreate
      BY <2>1, <3>2 DEF BootCreate, Create, TablesTypeOK
    <3>3. CASE BootUpdate
      <4>1. PICK k \in GetByName(entry.name) :
               Update(k, defs[k].name, entry.sched, IF entry.sched = Vendor THEN defs[k].amt ELSE entry.amt)
        BY <3>3 DEF BootUpdate, UpdateBootstrap
      <4>2. k = i
        BY <2>1, <4>1 DEF Update, TablesTypeOK
      <4>3. defs'[i] = [name |-> defs[i].name, sched |-> entry.sched,
                        amt |-> IF entry.sched = Vendor THEN defs[i].amt ELSE entry.amt,
                        managed |-> defs[i].managed]
        BY <2>1, <4>1, <4>2 DEF Update, TablesTypeOK
      <4> QED BY <4>3
    <3> QED BY <3>1, <3>2, <3>3
  <2>3. CASE BootRemove
    <3>1. PICK k \in doomed : Delete(k)
      BY <2>1, <2>3 DEF BootRemove, tables
    <3> QED BY <2>1, <3>1 DEF Delete, TablesTypeOK
  <2>4. ASSUME NEW a \in {Boot, Ven}, Refresh(a)
        PROVE  job[a].pc = "amount" /\ job[a].id = i /\ job[a].amt = defs'[i].amt
    <3>1. RefreshAmount(a)
      BY <2>1, <2>4 DEF Refresh, Fetch, RefreshInstance, RefreshEnds, EnsureInstance, MarkSynced, tables
    <3>2. job[a].pc = "amount" /\ UpdateAmount(job[a].id, job[a].amt)
      BY <2>1, <3>1 DEF RefreshAmount, tables
    <3>3. job[a].id = i
      BY <2>1, <3>2 DEF UpdateAmount, TablesTypeOK
    <3>4. defs'[i] = [name |-> defs[i].name, sched |-> defs[i].sched, amt |-> job[a].amt,
                      managed |-> defs[i].managed]
      BY <2>1, <3>2, <3>3 DEF UpdateAmount, TablesTypeOK
    <3> QED BY <3>2, <3>3, <3>4
  <2>5. ASSUME NEW r \in Requests, Request(r) PROVE FALSE
    <3>1. AddBill(r) \/ UpdateBill(r) \/ DeleteBill(r)
      BY <2>1, <2>5 DEF Request, RequestFails, CheckNotManaged, tables
    <3>2. CASE AddBill(r)
      BY <2>1, <3>2 DEF AddBill, Create, TablesTypeOK
    <3>3. CASE UpdateBill(r)
      <4>1. PICK n \in Names, s \in Schedules, a \in Amounts : Update(job[r].id, n, s, a)
        BY <3>3 DEF UpdateBill
      <4>2. job[r].id = i
        BY <2>1, <4>1 DEF Update, TablesTypeOK
      <4>3. defs'[i].sched = s
        BY <2>1, <4>1, <4>2 DEF Update, TablesTypeOK
      <4> QED BY <2>1, <4>3
    <3>4. CASE DeleteBill(r)
      BY <2>1, <3>4 DEF DeleteBill, Delete, TablesTypeOK
    <3> QED BY <3>1, <3>2, <3>3, <3>4
  <2>6. ~UNCHANGED vars
    BY <2>1 DEF vars, tables
  <2>7. /\ ~Start /\ ~Stop /\ ~Midnight /\ ~GenTick /\ ~GenNext /\ ~VenTick /\ ~VenNext
        /\ \A j \in DefIds : ~SyncAges(j)
    BY <2>1 DEF Start, Stop, Midnight, GenTick, GenNext, VenTick, VenNext, SyncAges, tables
  <2>8. /\ ~AttachVendorConnection /\ ~AttachFails /\ ~BootListAll /\ ~BootDone
        /\ \A a \in Actors : ~Generate(a)
    BY <2>1 DEF AttachVendorConnection, AttachFails, BootListAll, BootDone, Upsert, Generate,
       GenerateNext, GenerateDone, GenerateFails, EnsureInstance, tables
  <2>9. ~MarkPaidAction /\ \A k \in InstIds : ~Show(k)
    BY <2>1 DEF MarkPaidAction, Show, MarkPaid, tables
  <2> QED BY <2>2, <2>3, <2>4, <2>5, <2>6, <2>7, <2>8, <2>9 DEF Next, Bootstrap
<1> QED BY <1>1, Invariance, PTL DEF Spec, KnownAmountKept

=============================================================================
