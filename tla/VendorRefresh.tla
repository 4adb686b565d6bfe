---------------------------- MODULE VendorRefresh ----------------------------
(***************************************************************************)
(* When the amounts of vendor bills are fetched: the goroutine             *)
(* runVendorRefresh with its ticker, the cached read path                  *)
(* RefreshVendorConnectionIfStale, the refresh itself, and the bootstrap   *)
(* pass that attaches a connection at every start.  Time passes in whole   *)
(* units, a fetch takes 0 to Timeout of them, and everything else none.    *)
(* A time is kept as its age, which stops growing at Old; what was never   *)
(* synced is Old.  What other requests do to the tables at the same time   *)
(* is in Bills.                                                            *)
(***************************************************************************)
EXTENDS Portal

CONSTANTS
    Conns,      \* the vendor connections, in the order of their ids
    Slugs,      \* the connectors bills.json may name
    Site,       \* Site[s][slug]: what that portal sends in state s
    Interval,   \* VendorRefreshIntervalMinutes: ticker period and staleness limit
    Timeout,    \* requestTimeout
    None,       \* no row
    MaxStops    \* bound: how often the process stops

C       == ToSet(Conns)
Old     == 2 * Interval + Len(Conns) * Timeout + 1
Ages    == 0..Old
Older(age) == IF age < Old THEN age + 1 ELSE Old
\* cred: whether the portal accepts the stored login
Row     == [age : Ages, connector : Slugs, cred : {"good", "bad"}]

ASSUME VendorAssumption ==
    /\ Interval \in Nat /\ Timeout \in Nat /\ MaxStops \in Nat
    /\ Conns \in Seq(C) /\ IsInjective(Conns)
    /\ Len(Conns) * Timeout < Interval
    /\ None \notin Row
    /\ \A t \in DOMAIN Dates : Dates[t].day \in Nat
    /\ \A s \in DOMAIN Site : \A slug \in Registry :
         slug \in DOMAIN Site[s] /\ Site[s][slug].truth \in [cents : Int, due : Nat] \cup {NoBill}

VARIABLES
    row,      \* bt_vendor_connections: last_synced_at and the login
    amount,   \* amount_cents of the bill of each connection
    insts,    \* the due dates its bill has instances for
    phase,    \* "down", "boot", "first" (refresh before the ticker), "loop"
    attach,   \* connections the bootstrap pass has still to attach
    todo,     \* copies of the rows still to refresh, the first one under way
    pc,       \* where the refresh of the first one is
    bill,     \* what FetchBill returned
    elapsed,  \* how long the fetch has taken
    toTick,   \* until the ticker fires
    pending,  \* a tick waits in the ticker's channel, which holds one
    site,     \* the state of each portal
    since,    \* history: since a refresh stored its end, at most Interval
    missed,   \* history: the database failed to list or to mark the connection
    truth,    \* history: the bill the portal showed
    stops

vars == <<row, amount, insts, phase, attach, todo, pc, bill, elapsed, toTick, pending,
          site, since, missed, truth, stops>>
tables  == <<row, amount, insts>>
ticker  == <<toTick, pending>>
history == <<since, missed, truth>>

TypeOK ==
    /\ row \in [C -> Row \cup {None}]
    /\ amount \in [C -> (-IntMax - 1)..IntMax]
    /\ insts \in [C -> SUBSET Nat]
    /\ phase \in {"down", "boot", "first", "loop"}
    /\ \E n \in 0..Len(Conns) : attach = SubSeq(Conns, n + 1, Len(Conns))
    /\ \A i \in DOMAIN todo : todo[i].conn \in C /\ todo[i].copy \in Row
    /\ pc \in {"list", "next", "login", "post", "amount", "instance", "mark", "idle"}
    /\ elapsed \in 0..Timeout
    /\ toTick \in 0..Interval
    /\ pending \in BOOLEAN
    /\ site \in [C -> DOMAIN Site]
    /\ since \in [C -> 0..Interval]
    /\ missed \in [C -> BOOLEAN]
    /\ stops \in 0..MaxStops

conn == todo[1].conn
copy == todo[1].copy

-----------------------------------------------------------------------------
(* Time *)

\* the goroutine waits for its ticker, or for a portal; nothing else takes time
Waiting ==
    \/ phase = "down"
    \/ phase = "loop" /\ pc = "idle" /\ ~pending
    \/ pc \in {"login", "post"} /\ elapsed < Timeout

\* a unit of time passes; a tick that finds another one waiting is dropped
ClockTick ==
    /\ IF Waiting THEN TRUE ELSE FALSE
    /\ row' = [c \in C |-> IF row[c] = None THEN None
                           ELSE [row[c] EXCEPT !.age = Older(@)]]
    /\ todo' = [i \in DOMAIN todo |-> [todo[i] EXCEPT !.copy.age = Older(@)]]
    /\ since' = [c \in C |-> IF since[c] < Interval THEN since[c] + 1 ELSE Interval]
    /\ elapsed' = IF pc \in {"login", "post"} THEN elapsed + 1 ELSE 0
    /\ toTick' = IF phase # "loop" THEN toTick ELSE IF toTick = 1 THEN Interval ELSE toTick - 1
    /\ pending' = (pending \/ (phase = "loop" /\ toTick = 1))
    /\ UNCHANGED <<amount, insts, phase, attach, pc, bill, site, missed, truth, stops>>

-----------------------------------------------------------------------------
(* runVendorRefresh and the start of the process *)

Start ==
    /\ phase = "down"
    /\ phase' = "boot" /\ attach' = Conns /\ todo' = <<>> /\ pc' = "next"
    /\ UNCHANGED <<tables, bill, elapsed, ticker, site, history, stops>>

\* attachVendorConnection: Upsert replaces all but last_synced_at; the row is
\* read again for the staleness check, which may fail
Attach(slug, cred, reread) ==
    LET c      == attach[1]
        stored == [age |-> IF row[c] = None THEN Old ELSE row[c].age,
                   connector |-> slug, cred |-> cred]
    IN /\ phase = "boot" /\ pc = "next" /\ todo = <<>> /\ attach # <<>>
       /\ row' = [row EXCEPT ![c] = stored]
       /\ todo' = IF reread THEN <<[conn |-> c, copy |-> stored]>> ELSE <<>>
       /\ attach' = Tail(attach)
       /\ UNCHANGED <<amount, insts, phase, pc, bill, elapsed, ticker, site, history, stops>>

\* the entry is gone from the file, its login unusable, or a statement fails
AttachFails ==
    /\ phase = "boot" /\ pc = "next" /\ todo = <<>> /\ attach # <<>>
    /\ attach' = Tail(attach)
    /\ UNCHANGED <<tables, phase, todo, pc, bill, elapsed, ticker, site, history, stops>>

\* the scheduler starts when the pass is over
Boots ==
    /\ phase = "boot" /\ pc = "next" /\ todo = <<>> /\ attach = <<>>
    /\ phase' = "first" /\ pc' = "list"
    /\ UNCHANGED <<tables, attach, todo, bill, elapsed, ticker, site, history, stops>>

\* the rows there are, in the order of their ids
ById(stored) ==
    /\ \A i, j \in DOMAIN stored : i < j => stored[i] < stored[j]
    /\ \A j \in DOMAIN Conns : row[Conns[j]] # None <=> \E i \in DOMAIN stored : stored[i] = j

\* refreshVendorConnections: the rows are copied
ListAll ==
    /\ pc = "list"
    /\ \E n \in 0..Len(Conns) : \E stored \in [1..n -> DOMAIN Conns] :
         /\ ById(stored)
         /\ todo' = [i \in 1..n |-> [conn |-> Conns[stored[i]], copy |-> row[Conns[stored[i]]]]]
    /\ pc' = "next"
    /\ UNCHANGED <<tables, phase, attach, bill, elapsed, ticker, site, history, stops>>

ListAllFails ==
    /\ pc = "list"
    /\ pc' = "next"
    /\ missed' = [c \in C |-> TRUE]
    /\ UNCHANGED <<tables, phase, attach, todo, bill, elapsed, ticker, site, since,
                   truth, stops>>

\* the ticker is made after the first refresh, and after every refresh waited for
RefreshDone ==
    /\ phase \in {"first", "loop"} /\ pc = "next" /\ todo = <<>>
    /\ phase' = "loop" /\ pc' = "idle"
    /\ IF phase = "first" THEN toTick' = Interval /\ pending' = FALSE ELSE UNCHANGED ticker
    /\ UNCHANGED <<tables, attach, todo, bill, elapsed, site, history, stops>>

Receive ==
    /\ phase = "loop" /\ pc = "idle" /\ pending
    /\ pending' = FALSE /\ pc' = "list"
    /\ UNCHANGED <<tables, phase, attach, todo, bill, elapsed, toTick, site, history, stops>>

-----------------------------------------------------------------------------
(* RefreshVendorConnectionIfStale, RefreshVendorConnectionNow *)

\* wrong: the staleness is not looked at
StaleAlways(age) == TRUE

\* wrong: a margin, so that the tick at twice the interval skips as well
StaleLate(age) == age > 2 * Interval

Stale(age) == age >= Interval

Skip ==
    /\ pc = "next" /\ todo # <<>> /\ ~Stale(copy.age)
    /\ todo' = Tail(todo)
    /\ UNCHANGED <<tables, phase, attach, pc, bill, elapsed, ticker, site, history, stops>>

\* connectors.Get and Decrypt; usable: the password decrypts, a tenant is set.
\* Only billeriq reads the login page first.
Fetch(usable) ==
    /\ pc = "next" /\ todo # <<>> /\ Stale(copy.age)
    /\ pc' = IF ~usable \/ copy.connector \notin Registry THEN "mark"
             ELSE IF copy.connector = "billeriq" THEN "login" ELSE "post"
    /\ bill' = NoBill /\ elapsed' = 0
    /\ UNCHANGED <<tables, phase, attach, todo, ticker, site, history, stops>>

FetchLoginTokens ==
    /\ pc = "login"
    /\ pc' = IF LoginTokens(Site[site[conn]][copy.connector].login) THEN "post" ELSE "mark"
    /\ UNCHANGED <<tables, phase, attach, todo, bill, elapsed, ticker, site, history, stops>>

\* the login, and the page it leads to
Post ==
    LET s        == Site[site[conn]][copy.connector]
        accepted == copy.cred = "good"
    IN /\ pc = "post"
       /\ bill' = FetchedBill(copy.connector, IF accepted THEN s.accepted ELSE s.refused)
       /\ pc' = IF bill' = NoBill THEN "mark" ELSE "amount"
       /\ truth' = IF accepted THEN s.truth ELSE NoBill
       /\ UNCHANGED <<tables, phase, attach, todo, elapsed, ticker, site, since, missed, stops>>

\* no connection, a broken answer, or the deadline; the login may have been made
FetchFails ==
    /\ pc \in {"login", "post"}
    /\ pc' = "mark"
    /\ UNCHANGED <<tables, phase, attach, todo, bill, elapsed, ticker, site, history, stops>>

\* UpdateAmount fails for an amount the column cannot hold; nothing owed means
\* no instance
AfterAmount == IF bill.cents <= 0 THEN "mark" ELSE "instance"

\* wrong: an amount the column cannot hold is stored
UpdateAmountUnchecked ==
    /\ pc = "amount"
    /\ amount' = [amount EXCEPT ![conn] = bill.cents]
    /\ pc' = AfterAmount
    /\ UNCHANGED <<row, insts, phase, attach, todo, bill, elapsed, ticker, site, history, stops>>

UpdateAmount ==
    /\ pc = "amount" /\ bill.cents \in (-IntMax - 1)..IntMax
    /\ amount' = [amount EXCEPT ![conn] = bill.cents]
    /\ pc' = AfterAmount
    /\ UNCHANGED <<row, insts, phase, attach, todo, bill, elapsed, ticker, site, history, stops>>

UpdateAmountFails ==
    /\ pc = "amount"
    /\ pc' = AfterAmount
    /\ UNCHANGED <<tables, phase, attach, todo, bill, elapsed, ticker, site, history, stops>>

EnsureInstance ==
    /\ pc = "instance"
    /\ insts' = [insts EXCEPT ![conn] = @ \cup {bill.due}]
    /\ pc' = "mark"
    /\ UNCHANGED <<row, amount, phase, attach, todo, bill, elapsed, ticker, site, history, stops>>

EnsureInstanceFails ==
    /\ pc = "instance"
    /\ pc' = "mark"
    /\ UNCHANGED <<tables, phase, attach, todo, bill, elapsed, ticker, site, history, stops>>

\* last_synced_at = now(), whether the fetch and the two writes went well or not
MarkSynced ==
    /\ pc = "mark"
    /\ row' = [row EXCEPT ![conn].age = 0]
    /\ since' = [since EXCEPT ![conn] = 0]
    /\ missed' = [missed EXCEPT ![conn] = FALSE]
    /\ todo' = Tail(todo) /\ pc' = "next" /\ bill' = NoBill /\ truth' = NoBill /\ elapsed' = 0
    /\ UNCHANGED <<amount, insts, phase, attach, ticker, site, stops>>

\* its error is dropped
MarkSyncedFails ==
    /\ pc = "mark"
    /\ missed' = [missed EXCEPT ![conn] = TRUE]
    /\ todo' = Tail(todo) /\ pc' = "next" /\ bill' = NoBill /\ truth' = NoBill /\ elapsed' = 0
    /\ UNCHANGED <<tables, phase, attach, ticker, site, since, stops>>

-----------------------------------------------------------------------------
\* the portal, or the bill on it, changes
SiteChanges(c) ==
    /\ \E s \in DOMAIN Site \ {site[c]} : site' = [site EXCEPT ![c] = s]
    /\ UNCHANGED <<tables, phase, attach, todo, pc, bill, elapsed, ticker, history, stops>>

Stop ==
    /\ phase # "down" /\ stops < MaxStops
    /\ stops' = stops + 1
    /\ phase' = "down" /\ attach' = <<>> /\ todo' = <<>> /\ pc' = "idle"
    /\ bill' = NoBill /\ truth' = NoBill /\ elapsed' = 0 /\ toTick' = 0 /\ pending' = FALSE
    /\ UNCHANGED <<tables, site, since, missed>>

Init ==
    /\ row = [c \in C |-> None] /\ amount = [c \in C |-> 0] /\ insts = [c \in C |-> {}]
    /\ phase = "down" /\ attach = <<>> /\ todo = <<>> /\ pc = "idle"
    /\ bill = NoBill /\ truth = NoBill /\ elapsed = 0 /\ toTick = 0 /\ pending = FALSE
    /\ site \in [C -> DOMAIN Site]
    /\ since = [c \in C |-> Interval]
    /\ missed = [c \in C |-> FALSE]
    /\ stops = 0

Steps ==
    \/ Start \/ AttachFails \/ Boots \/ ListAll \/ ListAllFails \/ RefreshDone \/ Receive
    \/ \E slug \in Slugs, cred \in {"good", "bad"}, reread \in BOOLEAN : Attach(slug, cred, reread)
    \/ Skip \/ \E usable \in BOOLEAN : Fetch(usable)
    \/ FetchFails \/ UpdateAmount \/ UpdateAmountFails \/ EnsureInstance \/ EnsureInstanceFails
    \/ MarkSynced \/ MarkSyncedFails

\* the portal answers
Answers == FetchLoginTokens \/ Post

Next ==
    \/ ClockTick
    \/ Steps
    \/ Answers
    \/ \E c \in C : SiteChanges(c)
    \/ Stop

Spec == Init /\ [][Next]_vars

\* Time passes, and the process, which is started again when it ended, goes on.  A
\* portal need not answer: the deadline, a FetchFails, ends the request.
FairSpec == Spec /\ WF_vars(ClockTick) /\ WF_vars(Steps)

-----------------------------------------------------------------------------
(* Properties *)

\* The connectors make of the page after a login that was accepted the bill the
\* portal shows, or nothing, and of a login that was refused nothing.
ReadsRight ==
    \A s \in DOMAIN Site : \A slug \in Registry :
        /\ FetchedBill(slug, Site[s][slug].accepted) \in {Site[s][slug].truth, NoBill}
        /\ FetchedBill(slug, Site[s][slug].refused) = NoBill

\* A portal is logged in to only when Interval has passed since the last refresh
\* that came to its end and was marked, however often the process restarts and
\* whether that refresh went well or not: a wrong password is not tried at every
\* start.  Only a stop between the login and the mark, or a mark that fails, lets
\* the next login come sooner.
LoginsSpaced ==
    [][pc = "post" /\ pc' \in {"amount", "mark"} => since[conn] >= Interval]_vars

\* What is written to a bill is the amount and the due date the portal showed
\* for it after a login it accepted: no column title, banner or login form is
\* taken for a bill, nor is a balance of nothing for an instance.
StoredIsShown ==
    [][\A c \in C :
         /\ amount'[c] # amount[c] =>
               conn = c /\ truth # NoBill /\ amount'[c] = truth.cents
         /\ insts'[c] # insts[c] =>
               /\ conn = c /\ truth # NoBill /\ truth.cents > 0
               /\ insts'[c] = insts[c] \cup {truth.due}]_vars

\* While the process runs, no connection goes two intervals and the time of the
\* fetches without an attempt, unless the database failed: the cached path may
\* skip a tick, never two in a row.
RefetchedWithinTwo ==
    phase = "loop" => \A c \in C :
        row[c] # None /\ ~missed[c] => row[c].age < 2 * Interval + Len(Conns) * Timeout

\* VendorRefreshIntervalMinutes "controls how often bills ... are re-fetched":
\* an attempt every Interval, allowing for the time of the fetches.
RefetchedEachInterval ==
    phase = "loop" => \A c \in C :
        row[c] # None /\ ~missed[c] => row[c].age <= Interval + Len(Conns) * Timeout

\* A step at which the portal of c does not change, and which is not the failure
\* of a statement, of a request or of decryption in the refresh of c.
Quiet(c) ==
    /\ site'[c] = site[c]
    /\ pc = "list" => \E i \in DOMAIN todo' : todo'[i].conn = c
    /\ todo # <<>> /\ conn = c =>
        /\ pc = "next" /\ Stale(copy.age) => pc' # "mark"
        /\ pc = "login" => pc' # "mark"
        /\ pc = "post" => pc' = "post" \/ truth' # NoBill
        /\ pc = "amount" => amount'[c] = bill.cents
        /\ pc = "instance" => bill.due \in insts'[c]

\* Once the portal of a connection stays as it is and nothing fails any more, the
\* bill ends up with the amount the portal shows and, if anything is owed, an
\* instance for the due date it shows, whatever failed before: a failed refresh
\* that counted as a sync, and half a refresh, are made up for.
AmountSettles ==
    \A c \in C :
        LET shown   == Site[site[c]][row[c].connector].truth
            good    == row[c] # None /\ row[c].connector \in Registry /\ row[c].cred = "good"
            settled == good /\ shown # NoBill
                         => /\ amount[c] = shown.cents
                            /\ shown.cents > 0 => shown.due \in insts[c]
        IN <>[][Quiet(c)]_vars => <>[]settled

=============================================================================
