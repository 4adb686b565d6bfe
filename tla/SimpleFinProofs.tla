--------------------------- MODULE SimpleFinProofs ---------------------------
(***************************************************************************)
(* Proofs about SimpleFin, for every number of requests, goroutines,       *)
(* access URLs and accounts: SyncInv and OwnerInv are inductive invariants. *)
(***************************************************************************)
EXTENDS SimpleFin, FiniteSetTheorems, TLAPS

USE SimpleFinAssumption DEF SimpleFinAssumption

\* A refresh past its Get is for a connection that was stored, and one that
\* writes accounts fetched them for that connection.
RefreshInv ==
    \A g \in Refreshers :
        /\ ref[g].pc \in {"fetch", "upsert", "failed"} => ref[g].conn \in ConnIds
        /\ ref[g].pc = "upsert" => ref[g].conn \in fetched

\* Account ids are handed out once: the ones in use and the one the parent
\* holds are below the sequence, and no two rows share one.
IdsInv ==
    /\ \A x \in SfIds : accts[x] # None => accts[x].id < nextAcct
    /\ \A x, y \in SfIds : accts[x] # None /\ accts[y] # None /\ accts[x].id = accts[y].id => x = y
    /\ held # None => held.id < nextAcct

SyncInv == TypeOK /\ RefreshInv /\ IdsInv /\ ShownIdsHold /\ SyncedMeansFetched

-----------------------------------------------------------------------------
(* Types *)

LEMMA Sorts ==
    /\ AUrl \in Urls
    /\ IdleReq \in Req
    /\ IdleRef \in Ref
    /\ Sched \in Refreshers
    /\ Goroutines \subseteq Refreshers
<1>1. AUrl \in Urls
  BY DEF AUrl
<1> QED BY <1>1 DEF IdleReq, IdleRef, Req, Ref, Refreshers, Versions

\* A settings request keeps the types.
LEMMA RequestType ==
    ASSUME TypeOK, NEW r \in Requests, Request(r) \/ Finish(r)
    PROVE  TypeOK'
<1> USE Sorts
<1>1. Stored \subseteq ConnIds
  BY DEF Stored
<1>2. CASE \E u \in Urls : ConnectSimpleFin(r, u)
  BY <1>1, <1>2 DEF TypeOK, ConnectSimpleFin, Req
<1>3. CASE DisconnectSimpleFin(r)
  BY <1>1, <1>3 DEF TypeOK, DisconnectSimpleFin, Req
<1>4. CASE RequestFails(r)
  BY <1>4 DEF TypeOK, RequestFails
<1>5. CASE ConnectDelete(r)
  BY <1>1, <1>5 DEF TypeOK, ConnectDelete, Req
<1>6. CASE ConnectCommit(r)
  <2>1. rows' \in [ConnIds -> Row \cup {None}]
    BY <1>6 DEF TypeOK, ConnectCommit, Row, Req
  <2>2. nextConn' \in 1..(MaxConns + 1)
    BY <1>6 DEF TypeOK, ConnectCommit
  <2>3. ref' \in [Refreshers -> Ref]
    BY <1>6 DEF TypeOK, ConnectCommit, Spawn, Ref
  <2> QED BY <1>6, <2>1, <2>2, <2>3 DEF TypeOK, ConnectCommit
<1>7. CASE Disconnect(r)
  <2>1. req' \in [Requests -> Req]
    BY <1>7 DEF TypeOK, Disconnect, Req, IdleReq
  <2>2. rows' \in [ConnIds -> Row \cup {None}]
    BY <1>7 DEF TypeOK, Disconnect
  <2> QED BY <1>7, <2>1, <2>2 DEF TypeOK, Disconnect
<1>8. CASE DeleteAll(r)
  BY <1>8 DEF TypeOK, DeleteAll
<1> QED BY <1>2, <1>3, <1>4, <1>5, <1>6, <1>7, <1>8 DEF Request, Finish

\* So does a step of a refresh.
LEMMA RefreshType ==
    ASSUME TypeOK, RefreshInv, NEW g \in Refreshers, Refresh(g)
    PROVE  TypeOK'
<1> USE Sorts
<1>1. CASE Get(g)
  <2>1. ASSUME NEW c \in Stored
        PROVE  [IdleRef EXCEPT !.pc = "fetch", !.conn = c, !.url = rows[c].url] \in Ref
    <3>1. c \in ConnIds /\ rows[c] \in Row
      BY DEF TypeOK, Stored
    <3>2. rows[c].url \in Urls
      BY <3>1 DEF Row
    <3> QED BY <3>1, <3>2 DEF Ref, IdleRef
  <2>2. \E f \in Ref : ref' = [ref EXCEPT ![g] = f]
    BY <1>1, <2>1 DEF Get
  <2>3. ref' \in [Refreshers -> Ref]
    BY <2>2 DEF TypeOK
  <2> QED BY <1>1, <2>3 DEF TypeOK, Get
<1>2. CASE FetchAccounts(g)
  <2>1. ref' \in [Refreshers -> Ref]
    BY <1>2 DEF TypeOK, FetchAccounts, Ref
  <2> QED BY <1>2, <2>1 DEF TypeOK, RefreshInv, FetchAccounts
<1>3. CASE FetchFails(g)
  BY <1>3 DEF TypeOK, FetchFails, Ref
<1>4. CASE MarkSynced(g)
  <2>1. rows' \in [ConnIds -> Row \cup {None}]
    BY <1>4 DEF TypeOK, RefreshInv, MarkSynced, Row
  <2> QED BY <1>4, <2>1 DEF TypeOK, MarkSynced
<1>5. CASE MarkSyncedFails(g)
  BY <1>5 DEF TypeOK, MarkSyncedFails
<1>6. ASSUME NEW x \in SfIds, Upsert(g, x) PROVE TypeOK'
  <2>1. ref' \in [Refreshers -> Ref]
    BY <1>6 DEF TypeOK, Upsert, Ref
  <2>2. ref[g].got \in Versions
    BY DEF TypeOK, Ref
  <2>3. CASE accts[x] # None
    <3>1. accts[x] \in Account
      BY <2>3 DEF TypeOK
    <3>2. [id |-> accts[x].id, version |-> ref[g].got, visible |-> accts[x].visible,
           label |-> accts[x].label] \in Account
      BY <2>2, <3>1 DEF Account
    <3>3. accts' \in [SfIds -> Account \cup {None}] /\ nextAcct' = nextAcct
      BY <1>6, <2>3, <3>2 DEF TypeOK, Upsert
    <3> QED BY <1>6, <2>1, <3>3 DEF TypeOK, Upsert
  <2>4. CASE accts[x] = None
    <3>1. nextAcct \in AcctIds /\ nextAcct' = nextAcct + 1
      BY <1>6, <2>4 DEF TypeOK, Upsert, AcctIds
    <3>2. [id |-> nextAcct, version |-> ref[g].got, visible |-> TRUE, label |-> "NULL"] \in Account
      BY <2>2, <3>1 DEF Account
    <3>3. accts' \in [SfIds -> Account \cup {None}]
      BY <1>6, <2>4, <3>2 DEF TypeOK, Upsert
    <3>4. nextAcct' \in 1..(MaxAccts + 1)
      BY <3>1 DEF TypeOK, AcctIds
    <3> QED BY <1>6, <2>1, <3>3, <3>4 DEF TypeOK, Upsert
  <2> QED BY <2>3, <2>4
<1>7. ASSUME NEW x \in SfIds, UpsertFails(g, x) PROVE TypeOK'
  BY <1>7 DEF TypeOK, UpsertFails, Ref
<1> QED BY <1>1, <1>2, <1>3, <1>4, <1>5, <1>6, <1>7 DEF Refresh

\* So do the parent, the scheduler, the bank and a restart.
LEMMA OtherType ==
    ASSUME TypeOK, Tick \/ Parent \/ BankChanges \/ Restart
    PROVE  TypeOK'
<1> USE Sorts
<1>1. CASE Tick
  BY <1>1 DEF TypeOK, Tick, Ref
<1>2. CASE RefreshSimpleFinClicked
  BY <1>2 DEF TypeOK, RefreshSimpleFinClicked, Spawn, Ref
<1>3. CASE \E x \in SfIds : ShowAccount(x)
  BY <1>3 DEF TypeOK, ShowAccount, Account
<1>4. ASSUME NEW b \in BOOLEAN, SetVisible(b) PROVE TypeOK'
  BY <1>4 DEF TypeOK, SetVisible, Account
<1>5. ASSUME NEW text \in {"", "label"}, SetDisplayName(text) PROVE TypeOK'
  <2>1. ASSUME NEW x \in SfIds, accts[x] # None
        PROVE  [accts[x] EXCEPT !.label = IF text = "" THEN "NULL" ELSE text] \in Account
    <3>1. accts[x] \in Account
      BY <2>1 DEF TypeOK
    <3>2. (IF text = "" THEN "NULL" ELSE text) \in {"NULL", "label"}
      OBVIOUS
    <3> QED BY <3>1, <3>2 DEF Account
  <2>2. accts' \in [SfIds -> Account \cup {None}]
    BY <1>5, <2>1 DEF TypeOK, SetDisplayName
  <2> QED BY <1>5, <2>2 DEF TypeOK, SetDisplayName
<1>6. CASE BankChanges
  BY <1>6 DEF TypeOK, BankChanges, Versions
<1>7. CASE Restart
  BY <1>7 DEF TypeOK, Restart
<1> QED BY <1>1, <1>2, <1>3, <1>4, <1>5, <1>6, <1>7 DEF Parent

LEMMA NextType ==
    ASSUME TypeOK, RefreshInv, Next
    PROVE  TypeOK'
BY RequestType, RefreshType, OtherType DEF Next

-----------------------------------------------------------------------------
(* The refreshes *)

\* Only a refresh's own steps and a new fetch concern what it is for: a request
\* that starts a refresh makes an idle goroutine begin at its Get.
LEMMA SpawnRefresh ==
    ASSUME TypeOK, RefreshInv, Spawn, UNCHANGED fetched
    PROVE  RefreshInv'
BY Sorts DEF TypeOK, RefreshInv, Spawn, Ref

\* Every step of Next keeps RefreshInv.
LEMMA NextRefresh ==
    ASSUME TypeOK, RefreshInv, Next
    PROVE  RefreshInv'
<1> USE Sorts
<1>1. CASE UNCHANGED <<ref, fetched>>
  BY <1>1 DEF RefreshInv
<1>2. CASE Spawn /\ UNCHANGED fetched
  BY <1>2, SpawnRefresh
<1>3. ASSUME NEW r \in Requests, Request(r) \/ Finish(r) PROVE RefreshInv'
  BY <1>1, <1>2, <1>3 DEF Request, Finish, ConnectSimpleFin, DisconnectSimpleFin, RequestFails,
     ConnectDelete, ConnectCommit, Disconnect, DeleteAll
<1>4. ASSUME NEW g \in Refreshers, Refresh(g) PROVE RefreshInv'
  <2>1. CASE Get(g)
    <3>1. PICK f \in Ref : /\ ref' = [ref EXCEPT ![g] = f]
                           /\ f.pc # "upsert"
                           /\ f.pc = "idle" \/ f.conn \in ConnIds
      <4>1. CASE ref' = [ref EXCEPT ![g] = IdleRef]
        BY <4>1 DEF IdleRef
      <4>2. ASSUME NEW c \in Stored,
                   ref' = [ref EXCEPT ![g] = [IdleRef EXCEPT !.pc = "fetch", !.conn = c,
                                                             !.url = rows[c].url]]
            PROVE  \E f \in Ref : /\ ref' = [ref EXCEPT ![g] = f]
                                  /\ f.pc # "upsert"
                                  /\ f.pc = "idle" \/ f.conn \in ConnIds
        <5> DEFINE f == [IdleRef EXCEPT !.pc = "fetch", !.conn = c, !.url = rows[c].url]
        <5>1. c \in ConnIds /\ rows[c] \in Row
          BY DEF TypeOK, Stored
        <5>2. rows[c].url \in Urls
          BY <5>1 DEF Row
        <5>3. f \in Ref /\ f.pc = "fetch" /\ f.conn = c
          BY <5>1, <5>2 DEF Ref, IdleRef
        <5> HIDE DEF f
        <5> QED BY <4>2, <5>1, <5>3 DEF f
      <4> QED BY <2>1, <4>1, <4>2 DEF Get
    <3> QED BY <2>1, <3>1 DEF TypeOK, RefreshInv, Get
  <2>2. CASE FetchAccounts(g)
    <3>1. \A h \in Refreshers : h # g => ref'[h] = ref[h]
      BY <2>2 DEF TypeOK, FetchAccounts
    <3>2. ref'[g].pc = "upsert" /\ ref'[g].conn = ref[g].conn /\ ref[g].conn \in ConnIds
      BY <2>2 DEF TypeOK, RefreshInv, FetchAccounts
    <3> QED BY <2>2, <3>1, <3>2 DEF RefreshInv, FetchAccounts
  <2>3. CASE FetchFails(g)
    BY <2>3 DEF TypeOK, RefreshInv, FetchFails, Ref
  <2>4. CASE MarkSynced(g) \/ MarkSyncedFails(g)
    BY <2>4 DEF TypeOK, RefreshInv, MarkSynced, MarkSyncedFails, IdleRef
  <2>5. ASSUME NEW x \in SfIds, Upsert(g, x) \/ UpsertFails(g, x) PROVE RefreshInv'
    <3>1. ref' = [ref EXCEPT ![g].todo = @ \ {x}] /\ UNCHANGED fetched
      BY <2>5 DEF Upsert, UpsertFails
    <3>2. \A h \in Refreshers : ref'[h].pc = ref[h].pc /\ ref'[h].conn = ref[h].conn
      BY <3>1 DEF TypeOK, Ref
    <3> QED BY <3>1, <3>2 DEF RefreshInv
  <2> QED BY <1>4, <2>1, <2>2, <2>3, <2>4, <2>5 DEF Refresh
<1>5. CASE Tick
  BY <1>5 DEF TypeOK, RefreshInv, Tick, Ref
<1>6. CASE Parent
  BY <1>1, <1>2, <1>6 DEF Parent, RefreshSimpleFinClicked, ShowAccount, SetVisible, SetDisplayName
<1>7. CASE BankChanges
  BY <1>1, <1>7 DEF BankChanges
<1>8. CASE Restart
  BY <1>8 DEF RefreshInv, Restart, IdleRef
<1> QED BY <1>3, <1>4, <1>5, <1>6, <1>7, <1>8 DEF Next

\* A step that marks a connection as synced comes from a refresh that fetched for
\* that connection, and a new connection starts as never synced.
LEMMA NextSynced ==
    ASSUME TypeOK, RefreshInv, SyncedMeansFetched, Next
    PROVE  SyncedMeansFetched'
<1>1. fetched \subseteq fetched'
  BY DEF Next, Request, Finish, ConnectSimpleFin, DisconnectSimpleFin, RequestFails,
     ConnectDelete, ConnectCommit, Disconnect, DeleteAll, Refresh, Get, FetchAccounts, FetchFails,
     MarkSynced, MarkSyncedFails, Upsert, UpsertFails, Tick, Parent, RefreshSimpleFinClicked,
     ShowAccount, SetVisible, SetDisplayName, BankChanges, Restart
<1>2. CASE UNCHANGED rows
  BY <1>1, <1>2 DEF SyncedMeansFetched, Stored
<1>3. ASSUME NEW r \in Requests, ConnectCommit(r) PROVE SyncedMeansFetched'
  <2>1. \A c \in ConnIds : rows'[c] # None => rows'[c] = rows[c] \/ rows'[c].synced = "never"
    BY <1>3 DEF ConnectCommit
  <2> QED BY <1>1, <2>1 DEF SyncedMeansFetched, Stored
<1>4. ASSUME NEW r \in Requests, Disconnect(r) PROVE SyncedMeansFetched'
  <2>1. \A c \in ConnIds : rows'[c] # None => rows'[c] = rows[c]
    BY <1>4 DEF Disconnect
  <2> QED BY <1>1, <2>1 DEF SyncedMeansFetched, Stored
<1>5. ASSUME NEW g \in Refreshers, MarkSynced(g) PROVE SyncedMeansFetched'
  <2>1. ref[g].conn \in ConnIds
    BY <1>5 DEF RefreshInv, MarkSynced
  <2>2. \A c \in ConnIds : c # ref[g].conn => rows'[c] = rows[c]
    BY <1>5 DEF TypeOK, MarkSynced
  <2>3. rows'[ref[g].conn] # None /\ rows'[ref[g].conn].synced = "ok" => ref[g].pc = "upsert"
    BY <1>5, <2>1 DEF TypeOK, MarkSynced
  <2> QED BY <1>1, <2>1, <2>2, <2>3 DEF RefreshInv, SyncedMeansFetched, Stored
<1> QED BY <1>2, <1>3, <1>4, <1>5 DEF Next, Request, Finish, ConnectSimpleFin,
     DisconnectSimpleFin, RequestFails, ConnectDelete, DeleteAll, Refresh, Get, FetchAccounts,
     FetchFails, MarkSyncedFails, Upsert, UpsertFails, Tick, Parent, RefreshSimpleFinClicked,
     ShowAccount, SetVisible, SetDisplayName, BankChanges, Restart

-----------------------------------------------------------------------------
(* The accounts *)

\* The statements keep the ids apart and the one the parent holds in its place.
LEMMA NextIds ==
    ASSUME TypeOK, IdsInv, ShownIdsHold, Next
    PROVE  IdsInv' /\ ShownIdsHold'
<1>1. CASE UNCHANGED <<accts, nextAcct, held>>
  BY <1>1 DEF IdsInv, ShownIdsHold
<1>2. ASSUME NEW r \in Requests, DeleteAll(r) PROVE IdsInv' /\ ShownIdsHold'
  BY <1>2 DEF IdsInv, ShownIdsHold, DeleteAll
<1>3. ASSUME NEW x \in SfIds, ShowAccount(x) PROVE IdsInv' /\ ShownIdsHold'
  BY <1>3 DEF IdsInv, ShownIdsHold, ShowAccount
<1>4. ASSUME UNCHANGED <<nextAcct, held>>,
             \A x \in SfIds : /\ accts'[x] # None <=> accts[x] # None
                              /\ accts[x] # None => accts'[x].id = accts[x].id
      PROVE  IdsInv' /\ ShownIdsHold'
  BY <1>4 DEF IdsInv, ShownIdsHold
<1>5. ASSUME NEW b \in BOOLEAN, SetVisible(b) PROVE IdsInv' /\ ShownIdsHold'
  <2>1. \A x \in SfIds : /\ accts'[x] # None <=> accts[x] # None
                         /\ accts[x] # None => accts'[x].id = accts[x].id
    BY <1>5 DEF TypeOK, SetVisible, Account
  <2> QED BY <1>4, <1>5, <2>1 DEF SetVisible
<1>6. ASSUME NEW text \in {"", "label"}, SetDisplayName(text) PROVE IdsInv' /\ ShownIdsHold'
  <2>1. ASSUME NEW x \in SfIds
        PROVE  /\ accts'[x] # None <=> accts[x] # None
               /\ accts[x] # None => accts'[x].id = accts[x].id
    <3> DEFINE a == [accts[x] EXCEPT !.label = IF text = "" THEN "NULL" ELSE text]
    <3>1. CASE accts[x] # None /\ accts[x].id = held.id
      <4>1. accts[x] \in Account
        BY <3>1 DEF TypeOK
      <4>2. (IF text = "" THEN "NULL" ELSE text) \in {"NULL", "label"}
        OBVIOUS
      <4>3. a \in Account /\ a.id = accts[x].id
        BY <4>1, <4>2 DEF Account
      <4>4. accts'[x] = a
        BY <1>6, <3>1 DEF SetDisplayName
      <4> QED BY <4>3, <4>4, <3>1
    <3>2. CASE ~(accts[x] # None /\ accts[x].id = held.id)
      BY <1>6, <3>2 DEF SetDisplayName
    <3> QED BY <3>1, <3>2
  <2> QED BY <1>4, <1>6, <2>1 DEF SetDisplayName
<1>7. ASSUME NEW g \in Refreshers, NEW x \in SfIds, Upsert(g, x)
      PROVE  IdsInv' /\ ShownIdsHold'
  <2>1. \A y \in SfIds : y # x => accts'[y] = accts[y]
    BY <1>7 DEF TypeOK, Upsert
  <2>2. CASE accts[x] # None
    <3>1. accts'[x].id = accts[x].id /\ UNCHANGED nextAcct
      BY <1>7, <2>2 DEF TypeOK, Upsert
    <3>2. accts'[x] # None
      <4>1. accts[x] \in Account /\ ref[g].got \in Versions
        BY <2>2 DEF TypeOK, Ref
      <4>2. [id |-> accts[x].id, version |-> ref[g].got, visible |-> accts[x].visible,
             label |-> accts[x].label] \in Account
        BY <4>1 DEF Account
      <4> QED BY <1>7, <2>2, <4>2 DEF TypeOK, Upsert
    <3> QED BY <1>4, <1>7, <2>1, <2>2, <3>1, <3>2 DEF Upsert
  <2>3. CASE accts[x] = None
    <3>1. accts'[x].id = nextAcct /\ nextAcct' = nextAcct + 1 /\ held' = held
      BY <1>7, <2>3 DEF TypeOK, Upsert
    <3>2. /\ nextAcct \in Int
          /\ \A y \in SfIds : accts[y] # None => accts[y].id \in Int
          /\ held # None => held.id \in Int
      BY DEF TypeOK, Account, AcctIds
    <3>3. IdsInv'
      BY <2>1, <3>1, <3>2 DEF IdsInv
    <3>4. ShownIdsHold'
      BY <2>1, <3>1, <3>2 DEF IdsInv, ShownIdsHold
    <3> QED BY <3>3, <3>4
  <2> QED BY <2>2, <2>3
<1> QED BY <1>1, <1>2, <1>3, <1>5, <1>6, <1>7 DEF Next, Request, Finish, ConnectSimpleFin,
     DisconnectSimpleFin, RequestFails, ConnectDelete, ConnectCommit, Disconnect, Refresh, Get,
     FetchAccounts, FetchFails, MarkSynced, MarkSyncedFails, UpsertFails, Tick, Parent,
     RefreshSimpleFinClicked, BankChanges, Restart

\* The parent's fields of an account change in SetVisible and SetDisplayName only,
\* and only for the row the parent was shown.
LEMMA NextChoices ==
    ASSUME SyncInv, Next, NEW x \in SfIds, accts[x] # None, accts'[x] # None,
           accts'[x].visible # accts[x].visible \/ accts'[x].label # accts[x].label
    PROVE  UNCHANGED ref /\ held.sf = x
<1>1. ~UNCHANGED accts
  OBVIOUS
<1>2. ASSUME NEW r \in Requests, DeleteAll(r) PROVE FALSE
  BY <1>2 DEF DeleteAll
<1>3. ASSUME NEW g \in Refreshers, NEW y \in SfIds, Upsert(g, y) PROVE FALSE
  BY <1>3 DEF SyncInv, TypeOK, Upsert
<1>4. ASSUME NEW b \in BOOLEAN, SetVisible(b) PROVE UNCHANGED ref /\ held.sf = x
  <2>1. held # None /\ accts[x].id = held.id
    BY <1>4 DEF SetVisible
  <2> QED BY <1>4, <2>1 DEF SyncInv, ShownIdsHold, SetVisible
<1>5. ASSUME NEW text \in {"", "label"}, SetDisplayName(text) PROVE UNCHANGED ref /\ held.sf = x
  <2>1. held # None /\ accts[x].id = held.id
    BY <1>5 DEF SetDisplayName
  <2> QED BY <1>5, <2>1 DEF SyncInv, ShownIdsHold, SetDisplayName
<1> QED BY <1>1, <1>2, <1>3, <1>4, <1>5 DEF Next, Request, Finish, ConnectSimpleFin,
     DisconnectSimpleFin, RequestFails, ConnectDelete, ConnectCommit, Disconnect, Refresh, Get,
     FetchAccounts, FetchFails, MarkSynced, MarkSyncedFails, UpsertFails, Tick, Parent,
     RefreshSimpleFinClicked, ShowAccount, BankChanges, Restart

-----------------------------------------------------------------------------
(* The theorems *)

LEMMA InitSync == Init => SyncInv
<1> SUFFICES ASSUME Init PROVE SyncInv
  OBVIOUS
<1>1. TypeOK
  BY Sorts DEF Init, TypeOK, Versions
<1>2. RefreshInv
  BY DEF Init, RefreshInv, IdleRef
<1>3. IdsInv /\ ShownIdsHold /\ SyncedMeansFetched
  BY DEF Init, IdsInv, ShownIdsHold, SyncedMeansFetched, Stored
<1> QED BY <1>1, <1>2, <1>3 DEF SyncInv

LEMMA NextSync == SyncInv /\ [Next]_vars => SyncInv'
<1> SUFFICES ASSUME SyncInv, [Next]_vars PROVE SyncInv'
  OBVIOUS
<1>1. CASE Next
  BY <1>1, NextType, NextRefresh, NextIds, NextSynced DEF SyncInv
<1>2. CASE UNCHANGED vars
  BY <1>2 DEF SyncInv, TypeOK, RefreshInv, IdsInv, ShownIdsHold, SyncedMeansFetched, Stored, vars
<1> QED BY <1>1, <1>2

\* Every reachable state has the types the tables and goroutines are given.
THEOREM TypeCorrect == Spec => []TypeOK
<1>1. SyncInv => TypeOK
  BY DEF SyncInv
<1> QED BY <1>1, InitSync, NextSync, PTL DEF Spec

\* Whatever refreshes of replaced or deleted connections are still running, a
\* connection that is marked as synced had its own accounts fetched
\* (simplefin_connection.go MarkSynced).
THEOREM SyncedCorrect == Spec => []SyncedMeansFetched
<1>1. SyncInv => SyncedMeansFetched
  BY DEF SyncInv
<1> QED BY <1>1, InitSync, NextSync, PTL DEF Spec

\* The row the parent was shown is the account the parent's choice reaches, however
\* many disconnects and new syncs come between (account.go).
THEOREM ShownIdsCorrect == Spec => []ShownIdsHold
<1>1. SyncInv => ShownIdsHold
  BY DEF SyncInv
<1> QED BY <1>1, InitSync, NextSync, PTL DEF Spec

\* No refresh resets what the parent chose, in any interleaving (account.go
\* Upsert's ON CONFLICT clause).
THEOREM ChoicesCorrect == Spec => ParentChoicesKept
<1> DEFINE Kept == \A x \in SfIds :
                     /\ accts[x] # None /\ accts'[x] # None
                     /\ \/ accts'[x].visible # accts[x].visible
                        \/ accts'[x].label # accts[x].label
                     => UNCHANGED ref /\ held.sf = x
<1>1. SyncInv /\ [Next]_vars => [Kept]_vars
  <2> SUFFICES ASSUME SyncInv, Next PROVE Kept
    OBVIOUS
  <2> QED BY NextChoices
<1> QED BY <1>1, InitSync, NextSync, PTL DEF Spec, ParentChoicesKept

-----------------------------------------------------------------------------
(* Settings requests that overlap *)

\* Every connection belongs to the request that committed it, no two to the same
\* one, and a request that connects or disconnects again has its own among the rows
\* it is about to delete.
Owned(own) ==
    /\ \A c, d \in Stored : own[c] = own[d] => c = d
    /\ \A c \in Stored :
         /\ req[own[c]].pc \in {"delete", "disconnect"} => c \in req[own[c]].snap
         /\ req[own[c]].pc = "insert" => c \in req[own[c]].locked

OwnerInv ==
    /\ \A c \in ConnIds : c >= nextConn => rows[c] = None
    /\ \E own \in [Stored -> Requests] : Owned(own)

LEMMA InitOwner == Init => OwnerInv
<1> SUFFICES ASSUME Init PROVE OwnerInv
  OBVIOUS
<1>1. Stored = {} /\ \A c \in ConnIds : rows[c] = None
  BY DEF Init, Stored
<1>2. [c \in Stored |-> CHOOSE r \in Requests : TRUE] \in [Stored -> Requests]
  BY <1>1
<1>3. Owned([c \in Stored |-> CHOOSE r \in Requests : TRUE])
  BY <1>1 DEF Owned
<1> QED BY <1>1, <1>2, <1>3 DEF OwnerInv

\* Rows that stay keep their owners when requests only begin, fail or get on with
\* their DELETE.
LEMMA OwnersStay ==
    ASSUME NEW own \in [Stored -> Requests], Owned(own), Stored' \subseteq Stored,
           \A c \in Stored' :
              /\ req'[own[c]].pc \in {"delete", "disconnect"} => c \in req'[own[c]].snap
              /\ req'[own[c]].pc = "insert" => c \in req'[own[c]].locked
    PROVE  \E o \in [Stored' -> Requests] : Owned(o)'
<1>1. PICK o \in [Stored' -> Requests] : \A c \in Stored' : o[c] = own[c]
  <2>1. [c \in Stored' |-> own[c]] \in [Stored' -> Requests]
    OBVIOUS
  <2> QED BY <2>1
<1>2. Owned(o)'
  BY <1>1 DEF Owned
<1> QED BY <1>2

LEMMA RequestOwner ==
    ASSUME TypeOK, OwnerInv, NEW r \in Requests, Request(r) \/ Finish(r)
    PROVE  OwnerInv'
<1>1. PICK own \in [Stored -> Requests] : Owned(own)
  BY DEF OwnerInv
<1>2. \A s \in Requests : s # r => req'[s] = req[s]
  BY DEF TypeOK, Request, Finish, ConnectSimpleFin, DisconnectSimpleFin, RequestFails,
     ConnectDelete, ConnectCommit, Disconnect, DeleteAll
\* it is enough to look at the rows r owns
<1>3. ASSUME Stored' \subseteq Stored, UNCHANGED nextConn,
             \A c \in Stored' : own[c] = r =>
                /\ req'[r].pc \in {"delete", "disconnect"} => c \in req'[r].snap
                /\ req'[r].pc = "insert" => c \in req'[r].locked
      PROVE  OwnerInv'
  <2>1. \A c \in Stored' :
            /\ req'[own[c]].pc \in {"delete", "disconnect"} => c \in req'[own[c]].snap
            /\ req'[own[c]].pc = "insert" => c \in req'[own[c]].locked
    BY <1>1, <1>2, <1>3 DEF Owned
  <2>2. \E o \in [Stored' -> Requests] : Owned(o)'
    BY <1>1, <1>3, <2>1, OwnersStay
  <2>3. \A c \in ConnIds : c >= nextConn' => rows'[c] = None
    BY <1>3 DEF OwnerInv, Stored
  <2> QED BY <2>2, <2>3 DEF OwnerInv
<1>4. CASE \E u \in Urls : ConnectSimpleFin(r, u)
  BY <1>3, <1>4 DEF TypeOK, Stored, ConnectSimpleFin
<1>5. CASE DisconnectSimpleFin(r)
  BY <1>3, <1>5 DEF TypeOK, Stored, DisconnectSimpleFin
<1>6. CASE RequestFails(r) \/ DeleteAll(r)
  BY <1>3, <1>6 DEF TypeOK, Stored, RequestFails, DeleteAll, IdleReq
<1>7. CASE ConnectDelete(r)
  <2>1. /\ Stored' = Stored /\ UNCHANGED nextConn
        /\ req'[r].pc = "insert" /\ req'[r].locked = req[r].snap \cap Stored
    BY <1>7 DEF TypeOK, Stored, ConnectDelete
  <2>2. \A c \in Stored : own[c] = r => c \in req[r].snap
    BY <1>1, <1>7 DEF Owned, ConnectDelete
  <2> QED BY <1>3, <2>1, <2>2
<1>8. CASE Disconnect(r)
  <2>1. Stored' \subseteq Stored /\ UNCHANGED nextConn /\ req'[r].pc = "accounts"
    BY <1>8 DEF TypeOK, Stored, Disconnect, IdleReq
  <2> QED BY <1>3, <2>1
<1>9. CASE ConnectCommit(r)
  <2>1. nextConn \in ConnIds /\ nextConn' = nextConn + 1 /\ nextConn \notin Stored
    BY <1>9 DEF TypeOK, ConnectCommit, ConnIds, OwnerInv, Stored
  <2>2. \A c \in Stored' : c # nextConn => c \in Stored /\ c \notin req[r].locked
    BY <1>9 DEF ConnectCommit, Stored, LockedBy
  <2>3. req[r].pc = "insert" /\ req'[r].pc = "idle"
    BY <1>9 DEF TypeOK, ConnectCommit, IdleReq
  <2>4. PICK o \in [Stored' -> Requests] :
            \A c \in Stored' : o[c] = IF c = nextConn THEN r ELSE own[c]
    <3>1. [c \in Stored' |-> IF c = nextConn THEN r ELSE own[c]] \in [Stored' -> Requests]
      BY <2>2
    <3> QED BY <3>1
  \* r's earlier row, if there was one, is gone
  <2>5. \A c \in Stored' : c # nextConn => own[c] # r
    BY <1>1, <2>2, <2>3 DEF Owned
  <2>6. \A c, d \in Stored' : o[c] = o[d] => c = d
    BY <1>1, <2>2, <2>4, <2>5 DEF Owned
  <2>7. \A c \in Stored' :
            /\ req'[o[c]].pc \in {"delete", "disconnect"} => c \in req'[o[c]].snap
            /\ req'[o[c]].pc = "insert" => c \in req'[o[c]].locked
    BY <1>1, <1>2, <2>2, <2>3, <2>4, <2>5 DEF Owned
  <2>8. Owned(o)'
    BY <2>6, <2>7 DEF Owned
  <2>9. \A c \in ConnIds : c >= nextConn' => rows'[c] = None
    BY <1>9, <2>1 DEF TypeOK, ConnectCommit, ConnIds, OwnerInv
  <2> QED BY <2>4, <2>8, <2>9 DEF OwnerInv
<1> QED BY <1>4, <1>5, <1>6, <1>7, <1>8, <1>9 DEF Request, Finish

LEMMA NextOwner ==
    ASSUME TypeOK, RefreshInv, OwnerInv, Next
    PROVE  OwnerInv'
<1>1. CASE UNCHANGED <<rows, nextConn, req>>
  BY <1>1 DEF OwnerInv, Owned, Stored
<1>2. ASSUME NEW r \in Requests, Request(r) \/ Finish(r) PROVE OwnerInv'
  BY <1>2, RequestOwner
<1>3. ASSUME NEW g \in Refreshers, MarkSynced(g) PROVE OwnerInv'
  <2>1. ref[g].conn \in ConnIds
    BY <1>3 DEF RefreshInv, MarkSynced
  <2>2. UNCHANGED <<nextConn, req>>
    BY <1>3 DEF MarkSynced
  <2>3. CASE rows[ref[g].conn] = None
    BY <1>1, <1>3, <2>2, <2>3 DEF MarkSynced
  <2>4. CASE rows[ref[g].conn] # None
    <3> DEFINE row == [url |-> rows[ref[g].conn].url,
                       synced |-> IF ref[g].pc = "failed" THEN "error" ELSE "ok"]
    <3>1. row \in Row
      BY <2>1, <2>4 DEF TypeOK, Row
    <3>2. rows' = [rows EXCEPT ![ref[g].conn] = row]
      BY <1>3, <2>4 DEF MarkSynced
    <3> HIDE DEF row
    <3>3. \A c \in ConnIds : rows'[c] = None <=> rows[c] = None
      BY <2>1, <2>4, <3>1, <3>2 DEF TypeOK
    <3>4. Stored' = Stored
      BY <3>3 DEF Stored
    <3> QED BY <2>2, <3>3, <3>4 DEF OwnerInv, Owned
  <2> QED BY <2>3, <2>4
<1>4. CASE Restart
  <2>1. PICK own \in [Stored -> Requests] : Owned(own)
    BY DEF OwnerInv
  <2>2. Stored' = Stored /\ UNCHANGED <<rows, nextConn>> /\ \A s \in Requests : req'[s].pc = "idle"
    BY <1>4 DEF Restart, Stored, IdleReq
  <2>3. \A c \in Stored' : req'[own[c]].pc = "idle"
    BY <2>2
  <2>4. \E o \in [Stored' -> Requests] : Owned(o)'
    BY <2>1, <2>2, <2>3, OwnersStay
  <2> QED BY <2>2, <2>4 DEF OwnerInv
<1> QED BY <1>1, <1>2, <1>3, <1>4 DEF Next, Refresh, Get, FetchAccounts, FetchFails,
     MarkSyncedFails, Upsert, UpsertFails, Tick, Parent, RefreshSimpleFinClicked, ShowAccount,
     SetVisible, SetDisplayName, BankChanges

LEMMA OwnerInvariance == Spec => [](SyncInv /\ OwnerInv)
<1>1. SyncInv /\ OwnerInv /\ [Next]_vars => (SyncInv /\ OwnerInv)'
  <2> SUFFICES ASSUME SyncInv, OwnerInv, [Next]_vars PROVE OwnerInv'
    BY NextSync
  <2>1. CASE Next
    BY <2>1, NextOwner DEF SyncInv
  <2>2. CASE UNCHANGED vars
    BY <2>2 DEF OwnerInv, Owned, Stored, vars
  <2> QED BY <2>1, <2>2
<1> QED BY <1>1, InitSync, InitOwner, PTL DEF Spec

\* How far "at most one" goes wrong when requests overlap.
ConnectionsBounded == Cardinality(Stored) <= Cardinality(Requests)

\* However settings requests overlap, fail and repeat, there are at most as many
\* connections as requests that can be in flight together: each Connect deletes what
\* its own request left, so rows do not pile up (simplefin_connection.go Connect).
THEOREM BoundedCorrect == Spec => []ConnectionsBounded
<1>1. OwnerInv => ConnectionsBounded
  <2> SUFFICES ASSUME NEW own \in [Stored -> Requests], Owned(own) PROVE ConnectionsBounded
    BY DEF OwnerInv
  <2>1. own \in Injection(Stored, Requests)
    BY DEF Owned, Injection, IsInjective
  <2> QED BY <2>1, FS_Injection, RequestsAssumption DEF RequestsAssumption, ConnectionsBounded
<1> QED BY <1>1, OwnerInvariance, PTL

OneRequest == \A r, s \in Requests : r = s

\* While settings requests come one at a time there is at most one connection,
\* whatever refreshes run beside them and however transactions fail, roll back or
\* are cut off by a restart (simplefin_connection.go Connect, Disconnect).  The
\* hypothesis is needed: the run simplefin_twice shows two requests that break it.
THEOREM SingleConnectionCorrect ==
    ASSUME OneRequest
    PROVE  Spec => []SingleConnection
<1>1. OwnerInv => SingleConnection
  BY DEF OwnerInv, Owned, OneRequest, SingleConnection
<1> QED BY <1>1, OwnerInvariance, PTL

=============================================================================
