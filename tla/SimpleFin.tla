------------------------------ MODULE SimpleFin ------------------------------
(***************************************************************************)
(* The SimpleFIN connection and the accounts synced through it: the tables *)
(* bt_simplefin_connection and bt_accounts, the settings requests that     *)
(* connect, disconnect and label, and the refreshes, run by the scheduler  *)
(* goroutine Sched and by goroutines a request starts and leaves behind.   *)
(* Connect is a transaction of two statements under PostgreSQL's default   *)
(* READ COMMITTED: a DELETE works on the rows committed when it starts and *)
(* waits for the rows that another open transaction has deleted.           *)
(***************************************************************************)
EXTENDS Integers, FiniteSets

CONSTANTS
    Requests,    \* settings requests that can be in flight together
    Goroutines,  \* bound: refreshSimpleFinAsync goroutines alive together
    Urls,        \* access URLs a setup token may be exchanged for
    SfIds,       \* account ids SimpleFIN reports (simplefin_id)
    Reports,     \* Reports[u]: the accounts access URL u gives
    None,        \* no row
    MaxConns,    \* bound: connections ever stored
    MaxAccts,    \* bound: account rows ever stored
    MaxVersion,  \* bound: how often the bank's balances change
    MaxStops     \* bound: how often the process stops

Sched      == "sched"
Refreshers == Goroutines \cup {Sched}
ConnIds    == 1..MaxConns
AcctIds    == 1..MaxAccts
Versions   == 0..MaxVersion

\* synced: last_synced_at and last_sync_error
Row     == [url : Urls, synced : {"never", "ok", "error"}]
\* version: of the bank's data the balance comes from; visible and label
\* (display_name) are the parent's
Account == [id : AcctIds, version : Versions, visible : BOOLEAN, label : {"NULL", "label"}]

ASSUME SimpleFinAssumption ==
    /\ Sched \notin Goroutines
    /\ MaxConns \in Nat /\ MaxAccts \in Nat /\ MaxVersion \in Nat /\ MaxStops \in Nat
    /\ Reports \in [Urls -> SUBSET SfIds]
    /\ Urls # {}
    /\ None \notin Row \cup Account \cup [id : AcctIds, sf : SfIds]

ASSUME RequestsAssumption == IsFiniteSet(Requests)

VARIABLES
    rows,      \* bt_simplefin_connection, the committed rows by id
    nextConn,  \* its SERIAL sequence
    accts,     \* bt_accounts, by simplefin_id (UNIQUE)
    nextAcct,  \* its SERIAL sequence
    req,       \* what each settings request is doing
    ref,       \* what each refresher is doing
    version,   \* of the data the bank reports now
    held,      \* an account row the settings page showed
    fetched,   \* history: connections whose accounts were fetched
    stops      \* how often the process stopped

vars == <<rows, nextConn, accts, nextAcct, req, ref, version, held, fetched, stops>>

AUrl == CHOOSE u \in Urls : TRUE

\* snap: the rows a DELETE saw when it started; locked: the ones it deleted in
\* a transaction that is still open
Req == [pc : {"idle", "delete", "insert", "disconnect", "accounts"}, url : Urls,
        snap : SUBSET ConnIds, locked : SUBSET ConnIds]
Ref == [pc : {"idle", "get", "fetch", "upsert", "failed"}, conn : ConnIds \cup {0},
        url : Urls, todo : SUBSET SfIds, got : Versions]

IdleReq == [pc |-> "idle", url |-> AUrl, snap |-> {}, locked |-> {}]
IdleRef == [pc |-> "idle", conn |-> 0, url |-> AUrl, todo |-> {}, got |-> 0]

TypeOK ==
    /\ rows \in [ConnIds -> Row \cup {None}]
    /\ nextConn \in 1..(MaxConns + 1)
    /\ accts \in [SfIds -> Account \cup {None}]
    /\ nextAcct \in 1..(MaxAccts + 1)
    /\ req \in [Requests -> Req]
    /\ ref \in [Refreshers -> Ref]
    /\ version \in Versions
    /\ held \in [id : AcctIds, sf : SfIds] \cup {None}
    /\ fetched \subseteq ConnIds
    /\ stops \in 0..MaxStops

Stored      == {c \in ConnIds : rows[c] # None}
LockedBy(r) == req[r].locked
Free(S)     == \A r \in Requests : LockedBy(r) \cap S = {}

-----------------------------------------------------------------------------
(* Settings requests *)

\* connectSimpleFin: the setup token was exchanged for access URL u; Connect
\* begins and its DELETE takes its snapshot
ConnectSimpleFin(r, u) ==
    /\ req[r].pc = "idle"
    /\ req' = [req EXCEPT ![r] = [pc |-> "delete", url |-> u, snap |-> Stored, locked |-> {}]]
    /\ UNCHANGED <<rows, nextConn, accts, nextAcct, ref, version, held, fetched, stops>>

\* wrong: the old connection is not deleted
ConnectDeleteNothing(r) ==
    /\ req[r].pc = "delete"
    /\ req' = [req EXCEPT ![r] = [pc |-> "insert", url |-> req[r].url,
                                  snap |-> {}, locked |-> {}]]
    /\ UNCHANGED <<rows, nextConn, accts, nextAcct, ref, version, held, fetched, stops>>

\* Connect's DELETE goes through once no other transaction holds its rows; the
\* ones deleted meanwhile are skipped, the ones inserted meanwhile not seen
ConnectDelete(r) ==
    /\ req[r].pc = "delete"
    /\ Free(req[r].snap)
    /\ req' = [req EXCEPT ![r] = [pc |-> "insert", url |-> req[r].url, snap |-> {},
                                  locked |-> req[r].snap \cap Stored]]
    /\ UNCHANGED <<rows, nextConn, accts, nextAcct, ref, version, held, fetched, stops>>

\* go refreshSimpleFinAsync()
Spawn == \E g \in Goroutines :
            /\ ref[g].pc = "idle"
            /\ ref' = [ref EXCEPT ![g].pc = "get"]

\* Connect's INSERT and COMMIT
ConnectCommit(r) ==
    /\ req[r].pc = "insert"
    /\ nextConn <= MaxConns
    /\ rows' = [c \in ConnIds |->
                  IF c = nextConn THEN [url |-> req[r].url, synced |-> "never"]
                  ELSE IF c \in LockedBy(r) THEN None ELSE rows[c]]
    /\ nextConn' = nextConn + 1
    /\ req' = [req EXCEPT ![r] = IdleReq]
    /\ Spawn
    /\ UNCHANGED <<accts, nextAcct, version, held, fetched, stops>>

\* disconnectSimpleFin: its first DELETE begins, goes through, and the accounts
\* follow in a statement of their own
DisconnectSimpleFin(r) ==
    /\ req[r].pc = "idle"
    /\ req' = [req EXCEPT ![r] = [pc |-> "disconnect", url |-> AUrl, snap |-> Stored,
                                  locked |-> {}]]
    /\ UNCHANGED <<rows, nextConn, accts, nextAcct, ref, version, held, fetched, stops>>

Disconnect(r) ==
    /\ req[r].pc = "disconnect"
    /\ Free(req[r].snap)
    /\ rows' = [c \in ConnIds |-> IF c \in req[r].snap THEN None ELSE rows[c]]
    /\ req' = [req EXCEPT ![r] = [IdleReq EXCEPT !.pc = "accounts"]]
    /\ UNCHANGED <<nextConn, accts, nextAcct, ref, version, held, fetched, stops>>

DeleteAll(r) ==
    /\ req[r].pc = "accounts"
    /\ accts' = [x \in SfIds |-> None]
    /\ req' = [req EXCEPT ![r] = IdleReq]
    /\ UNCHANGED <<rows, nextConn, nextAcct, ref, version, held, fetched, stops>>

\* a statement fails (the transaction rolls back); the request reports it
RequestFails(r) ==
    /\ req[r].pc # "idle"
    /\ req' = [req EXCEPT ![r] = IdleReq]
    /\ UNCHANGED <<rows, nextConn, accts, nextAcct, ref, version, held, fetched, stops>>

\* refreshSimpleFinNow: only if a connection is stored
RefreshSimpleFinClicked ==
    /\ Stored # {}
    /\ Spawn
    /\ UNCHANGED <<rows, nextConn, accts, nextAcct, req, version, held, fetched, stops>>

\* the settings page lists the accounts; the parent acts on one of them later
ShowAccount(x) ==
    /\ accts[x] # None
    /\ held' = [id |-> accts[x].id, sf |-> x]
    /\ UNCHANGED <<rows, nextConn, accts, nextAcct, req, ref, version, fetched, stops>>

\* UPDATE ... WHERE id = $1, no error if the row is gone
SetVisible(visible) ==
    /\ held # None
    /\ accts' = [x \in SfIds |-> IF accts[x] # None /\ accts[x].id = held.id
                                 THEN [accts[x] EXCEPT !.visible = visible] ELSE accts[x]]
    /\ UNCHANGED <<rows, nextConn, nextAcct, req, ref, version, held, fetched, stops>>

\* wrong: the text is stored as it is
SetDisplayNameRaw(text) ==
    /\ held # None
    /\ accts' = [x \in SfIds |-> IF accts[x] # None /\ accts[x].id = held.id
                                 THEN [accts[x] EXCEPT !.label = text] ELSE accts[x]]
    /\ UNCHANGED <<rows, nextConn, nextAcct, req, ref, version, held, fetched, stops>>

\* NULLIF($2, ''): an empty text clears the label
SetDisplayName(text) ==
    /\ held # None
    /\ accts' = [x \in SfIds |-> IF accts[x] # None /\ accts[x].id = held.id
                                 THEN [accts[x] EXCEPT !.label = IF text = "" THEN "NULL" ELSE text]
                                 ELSE accts[x]]
    /\ UNCHANGED <<rows, nextConn, nextAcct, req, ref, version, held, fetched, stops>>

-----------------------------------------------------------------------------
(* RefreshSimpleFinNow *)

\* runSimpleFinRefresh: at start and on every tick, one after the other
Tick ==
    /\ ref[Sched].pc = "idle"
    /\ ref' = [ref EXCEPT ![Sched].pc = "get"]
    /\ UNCHANGED <<rows, nextConn, accts, nextAcct, req, version, held, fetched, stops>>

\* SELECT ... LIMIT 1 without an order: any stored row; none, or an error, ends
\* the refresh
Get(g) ==
    /\ ref[g].pc = "get"
    /\ \/ \E c \in Stored :
            ref' = [ref EXCEPT ![g] = [IdleRef EXCEPT !.pc = "fetch", !.conn = c,
                                                      !.url = rows[c].url]]
       \/ ref' = [ref EXCEPT ![g] = IdleRef]
    /\ UNCHANGED <<rows, nextConn, accts, nextAcct, req, version, held, fetched, stops>>

\* FetchAccounts answers with the accounts of the URL, as the bank has them now
FetchAccounts(g) ==
    /\ ref[g].pc = "fetch"
    /\ ref' = [ref EXCEPT ![g] = [pc |-> "upsert", conn |-> ref[g].conn, url |-> ref[g].url,
                                  todo |-> Reports[ref[g].url], got |-> version]]
    /\ fetched' = fetched \cup {ref[g].conn}
    /\ UNCHANGED <<rows, nextConn, accts, nextAcct, req, version, held, stops>>

\* Decrypt or FetchAccounts fails
FetchFails(g) ==
    /\ ref[g].pc = "fetch"
    /\ ref' = [ref EXCEPT ![g].pc = "failed"]
    /\ UNCHANGED <<rows, nextConn, accts, nextAcct, req, version, held, fetched, stops>>

\* wrong: the conflict clause overwrites the parent's fields as well; an account
\* that is known already is left as it is; a new account takes a free id
UpsertOverwrites(g, x) ==
    /\ ref[g].pc = "upsert" /\ x \in ref[g].todo
    /\ nextAcct <= MaxAccts
    /\ accts' = [accts EXCEPT ![x] =
                   [id |-> IF accts[x] = None THEN nextAcct ELSE accts[x].id,
                    version |-> ref[g].got, visible |-> TRUE, label |-> "NULL"]]
    /\ nextAcct' = nextAcct + 1
    /\ ref' = [ref EXCEPT ![g].todo = @ \ {x}]
    /\ UNCHANGED <<rows, nextConn, req, version, held, fetched, stops>>

UpsertDoesNothing(g, x) ==
    /\ ref[g].pc = "upsert" /\ x \in ref[g].todo
    /\ \/ /\ accts[x] # None
          /\ UNCHANGED <<accts, nextAcct>>
       \/ /\ accts[x] = None
          /\ nextAcct <= MaxAccts
          /\ accts' = [accts EXCEPT ![x] = [id |-> nextAcct, version |-> ref[g].got,
                                            visible |-> TRUE, label |-> "NULL"]]
          /\ nextAcct' = nextAcct + 1
    /\ ref' = [ref EXCEPT ![g].todo = @ \ {x}]
    /\ UNCHANGED <<rows, nextConn, req, version, held, fetched, stops>>

UpsertReusesIds(g, x) ==
    /\ ref[g].pc = "upsert" /\ x \in ref[g].todo
    /\ \E i \in AcctIds :
         /\ IF accts[x] # None THEN i = accts[x].id
            ELSE \A y \in SfIds : accts[y] # None => accts[y].id # i
         /\ accts' = [accts EXCEPT ![x] = [id |-> i, version |-> ref[g].got,
                                           visible |-> TRUE, label |-> "NULL"]]
    /\ ref' = [ref EXCEPT ![g].todo = @ \ {x}]
    /\ UNCHANGED <<rows, nextConn, nextAcct, req, version, held, fetched, stops>>

\* AccountStore.Upsert: a known account keeps its id and the parent's fields
Upsert(g, x) ==
    /\ ref[g].pc = "upsert" /\ x \in ref[g].todo
    /\ \/ /\ accts[x] # None
          /\ accts' = [accts EXCEPT ![x] = [id |-> accts[x].id, version |-> ref[g].got,
                                            visible |-> accts[x].visible,
                                            label |-> accts[x].label]]
          /\ UNCHANGED nextAcct
       \/ /\ accts[x] = None
          /\ nextAcct <= MaxAccts
          /\ accts' = [accts EXCEPT ![x] = [id |-> nextAcct, version |-> ref[g].got,
                                            visible |-> TRUE, label |-> "NULL"]]
          /\ nextAcct' = nextAcct + 1
    /\ ref' = [ref EXCEPT ![g].todo = @ \ {x}]
    /\ UNCHANGED <<rows, nextConn, req, version, held, fetched, stops>>

\* logged, and the loop goes on
UpsertFails(g, x) ==
    /\ ref[g].pc = "upsert" /\ x \in ref[g].todo
    /\ ref' = [ref EXCEPT ![g].todo = @ \ {x}]
    /\ UNCHANGED <<rows, nextConn, accts, nextAcct, req, version, held, fetched, stops>>

\* wrong: UPDATE without WHERE id = $1
MarkSyncedAll(g) ==
    /\ ref[g].pc = "failed" \/ (ref[g].pc = "upsert" /\ ref[g].todo = {})
    /\ Free(Stored)
    /\ rows' = [c \in ConnIds |->
                  IF rows[c] = None THEN None
                  ELSE [url |-> rows[c].url,
                        synced |-> IF ref[g].pc = "failed" THEN "error" ELSE "ok"]]
    /\ ref' = [ref EXCEPT ![g] = IdleRef]
    /\ UNCHANGED <<nextConn, accts, nextAcct, req, version, held, fetched, stops>>

\* MarkSynced: the row of the connection the refresh started from, if it is
\* still there; it waits for a transaction that is deleting the row
MarkSynced(g) ==
    /\ ref[g].pc = "failed" \/ (ref[g].pc = "upsert" /\ ref[g].todo = {})
    /\ Free({ref[g].conn})
    /\ rows' = IF rows[ref[g].conn] = None THEN rows
               ELSE [rows EXCEPT ![ref[g].conn] =
                       [url |-> rows[ref[g].conn].url,
                        synced |-> IF ref[g].pc = "failed" THEN "error" ELSE "ok"]]
    /\ ref' = [ref EXCEPT ![g] = IdleRef]
    /\ UNCHANGED <<nextConn, accts, nextAcct, req, version, held, fetched, stops>>

\* the statement fails, and its error is dropped
MarkSyncedFails(g) ==
    /\ ref[g].pc = "failed" \/ (ref[g].pc = "upsert" /\ ref[g].todo = {})
    /\ ref' = [ref EXCEPT ![g] = IdleRef]
    /\ UNCHANGED <<rows, nextConn, accts, nextAcct, req, version, held, fetched, stops>>

-----------------------------------------------------------------------------
\* the bank books something
BankChanges ==
    /\ version < MaxVersion
    /\ version' = version + 1
    /\ UNCHANGED <<rows, nextConn, accts, nextAcct, req, ref, held, fetched, stops>>

\* the process stops and starts again: open transactions roll back
Restart ==
    /\ stops < MaxStops
    /\ stops' = stops + 1
    /\ req' = [r \in Requests |-> IdleReq]
    /\ ref' = [g \in Refreshers |-> IdleRef]
    /\ UNCHANGED <<rows, nextConn, accts, nextAcct, version, held, fetched>>

Init ==
    /\ rows = [c \in ConnIds |-> None] /\ nextConn = 1
    /\ accts = [x \in SfIds |-> None] /\ nextAcct = 1
    /\ req = [r \in Requests |-> IdleReq]
    /\ ref = [g \in Refreshers |-> IdleRef]
    /\ version = 0 /\ held = None /\ fetched = {} /\ stops = 0

Request(r) == \/ \E u \in Urls : ConnectSimpleFin(r, u)
              \/ DisconnectSimpleFin(r) \/ RequestFails(r)
Finish(r)  == ConnectDelete(r) \/ ConnectCommit(r) \/ Disconnect(r) \/ DeleteAll(r)
Refresh(g) == \/ Get(g) \/ FetchAccounts(g) \/ FetchFails(g) \/ MarkSynced(g) \/ MarkSyncedFails(g)
              \/ \E x \in SfIds : Upsert(g, x) \/ UpsertFails(g, x)
Parent     == \/ RefreshSimpleFinClicked
              \/ \E x \in SfIds : ShowAccount(x)
              \/ \E b \in BOOLEAN : SetVisible(b)
              \/ \E text \in {"", "label"} : SetDisplayName(text)

Next ==
    \/ \E r \in Requests : Request(r) \/ Finish(r)
    \/ \E g \in Refreshers : Refresh(g)
    \/ Tick \/ Parent \/ BankChanges \/ Restart

Spec == Init /\ [][Next]_vars

-----------------------------------------------------------------------------
(* Properties *)

\* "a singleton row - the app enforces at most one exists at a time (Connect
\* deletes any prior row first)" (simplefin_connection.go:27).  It holds while
\* one settings request is served at a time, whatever stops, fails or rolls
\* back; two Connects that overlap leave two rows.
SingleConnection == \A c, d \in Stored : c = d

\* A connection marked as synced without an error is one whose own accounts were
\* fetched: a refresh that is still running for a connection that was replaced
\* never vouches for the new one (simplefin_connection.go MarkSynced, by id).
SyncedMeansFetched == \A c \in Stored : rows[c].synced = "ok" => c \in fetched

\* The id of an account row stands for one SimpleFIN account for good, so what
\* the parent does to a row that was shown before a disconnect and a new sync
\* can only reach the account it was shown as (account.go SetVisible,
\* SetDisplayName, DeleteAll, Upsert).
ShownIdsHold ==
    \A x \in SfIds : held # None /\ accts[x] # None /\ accts[x].id = held.id => x = held.sf

\* What the parent chose for an account is changed by the parent alone: no
\* refresh, however it overlaps with the choice, resets it ("Preserved across
\* syncs (excluded from Upsert's ON CONFLICT overwrite)", schema line 54).
ParentChoicesKept ==
    [][\A x \in SfIds :
         /\ accts[x] # None /\ accts'[x] # None
         /\ \/ accts'[x].visible # accts[x].visible
            \/ accts'[x].label # accts[x].label
         => UNCHANGED ref /\ held.sf = x]_vars

-----------------------------------------------------------------------------
(* Liveness *)

\* Goroutines and requests run on, the ticker ticks, and neither the bridge nor
\* the database fails every time.
Fairness ==
    /\ WF_vars(Tick)
    /\ \A r \in Requests : WF_vars(Finish(r))
    /\ \A g \in Refreshers : WF_vars(Refresh(g))
    /\ SF_vars(FetchAccounts(Sched))
    /\ SF_vars(ref[Sched].pc = "get" /\ Get(Sched) /\ ref'[Sched].pc = "fetch")
    /\ \A x \in SfIds : SF_vars(Upsert(Sched, x))

FairSpec == Spec /\ Fairness

\* The balances heal: refreshes overlap, and one that fetched early may write
\* late, over what a newer one stored; but while a connection stands, every
\* account it reports gets, and in the end keeps, the balance the bank has
\* (scheduler.go RefreshSimpleFinNow).
BalancesSettle ==
    <>[](\A c \in Stored, x \in SfIds :
           Stored = {c} /\ x \in Reports[rows[c].url] /\ nextAcct <= MaxAccts =>
              accts[x] # None /\ accts[x].version = version)

=============================================================================
