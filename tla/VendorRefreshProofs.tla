------------------------- MODULE VendorRefreshProofs -------------------------
(***************************************************************************)
(* Proofs about VendorRefresh, for every number of connections, interval,  *)
(* timeout and portal.  The bound on the age of a row depends on its place *)
(* in the list: a row that the pass before the ticker handled early has    *)
(* aged by the fetches after it, and waits only for the fetches before it  *)
(* in the next pass.                                                       *)
(***************************************************************************)
EXTENDS VendorRefresh, TLAPS

LEMMA Constants ==
    /\ Interval \in Nat /\ Timeout \in Nat /\ MaxStops \in Nat
    /\ Conns \in Seq(C) /\ Len(Conns) \in Nat /\ DOMAIN Conns = 1..Len(Conns)
    /\ IsInjective(Conns)
    /\ None \notin Row
<1>1. Interval \in Nat /\ Timeout \in Nat /\ MaxStops \in Nat /\ IsInjective(Conns)
      /\ Conns \in Seq(C) /\ None \notin Row
  BY VendorAssumption DEF VendorAssumption
<1> QED BY <1>1

\* The place of a connection in the list, and how long the fetches of the first i
\* connections can take.
Pos(c) == CHOOSE i \in DOMAIN Conns : Conns[i] = c
At(i)  == i * Timeout

InTodo(c) == \E i \in DOMAIN todo : todo[i].conn = c
Live(c)   == row[c] # None /\ ~missed[c]
Busy      == pc \in {"login", "post", "amount", "instance", "mark"}
Pass      == Busy \/ pc = "next"

\* How many connections the pass is past.
Past == IF todo = <<>> THEN Len(Conns) ELSE Pos(conn) - 1

Entry == [conn : C, copy : Row]

\* The copies still agree with the rows, and come in the order of the list.
TodoInv ==
    /\ todo \in Seq(Entry)
    /\ \A i \in DOMAIN todo : todo[i].copy = row[todo[i].conn]
    /\ \A i, j \in DOMAIN todo : i < j => Pos(todo[i].conn) < Pos(todo[j].conn)

PcInv ==
    /\ Busy => todo # <<>>
    /\ pc \in {"list", "idle"} => todo = <<>>
    /\ ~Busy => elapsed = 0
    /\ phase = "down" => pc = "idle"
    /\ pc = "idle" => phase \in {"down", "loop"}
    /\ pc = "list" => phase \in {"first", "loop"}

\* A row is no older than the end of its last refresh, and what is being fetched
\* was last refreshed an interval ago.
SinceInv ==
    /\ \A c \in C : IF row[c] = None THEN since[c] = Interval
                    ELSE row[c].age <= since[c] \/ since[c] = Interval
    /\ Busy => since[conn] = Interval

\* In the pass before the ticker, a connection that was handled was fresh then.
FirstInv ==
    phase = "first" /\ Pass =>
        \A c \in C : Live(c) /\ ~InTodo(c) =>
            /\ Pos(c) <= Past
            /\ row[c].age < Interval + At(Past) - At(Pos(c)) + elapsed

\* In the loop a pass starts with a tick and ends before the next one; a row that
\* is still to be handled is older by an interval than one that was.
LoopInv ==
    phase = "loop" =>
        /\ toTick \in 1..Interval
        /\ pending => pc = "idle"
        /\ pending \/ pc = "list" => toTick = Interval
        /\ Pass => Interval - toTick <= At(Past) + elapsed
        /\ \A c \in C : Live(c) =>
             row[c].age < (IF pending \/ pc = "list" \/ InTodo(c) THEN 3 * Interval
                                                                  ELSE 2 * Interval)
                          - toTick + At(Len(Conns)) - At(Pos(c))

DueInv == pc \in {"amount", "instance"} => bill.due \in Nat

VendorInv == TypeOK /\ TodoInv /\ PcInv /\ SinceInv /\ FirstInv /\ LoopInv /\ DueInv

-----------------------------------------------------------------------------
(* Places and times *)

LEMMA Places ==
    /\ \A c \in C : Pos(c) \in DOMAIN Conns /\ Conns[Pos(c)] = c
    /\ \A j \in DOMAIN Conns : Conns[j] \in C /\ Pos(Conns[j]) = j
    /\ DOMAIN Conns = 1..Len(Conns) /\ Len(Conns) \in Nat
<1> USE Constants
<1>1. DOMAIN Conns = 1..Len(Conns) /\ Len(Conns) \in Nat
  OBVIOUS
<1>2. ASSUME NEW c \in C PROVE Pos(c) \in DOMAIN Conns /\ Conns[Pos(c)] = c
  BY DEF C, ToSet, Pos
<1>3. ASSUME NEW j \in DOMAIN Conns PROVE Conns[j] \in C /\ Pos(Conns[j]) = j
  BY <1>2 DEF C, ToSet, IsInjective
<1> QED BY <1>1, <1>2, <1>3

LEMMA Times ==
    /\ \A i \in 0..Len(Conns) : At(i) \in Nat
    /\ \A i, j \in 0..Len(Conns) : i < j => At(i) + Timeout <= At(j)
    /\ \A i, j \in 0..Len(Conns) : i <= j => At(i) <= At(j)
    /\ At(Len(Conns)) < Interval
    /\ Interval \in Nat /\ Interval > 0
    /\ Old = 2 * Interval + At(Len(Conns)) + 1 /\ Old \in Nat
<1> USE Constants
<1>1. Len(Conns) \in Nat
  OBVIOUS
<1>2. ASSUME NEW i \in Nat, NEW j \in Nat, i < j PROVE At(i) + Timeout <= At(j)
  <2>1. PICK k \in Nat : j = i + 1 + k
    <3>1. j - i - 1 \in Nat /\ j = i + 1 + (j - i - 1)
      BY <1>2
    <3> QED BY <3>1
  <2>2. At(j) = At(i) + Timeout + k * Timeout
    BY <2>1 DEF At
  <2>3. k * Timeout \in Nat
    BY <2>1
  <2>4. At(i) \in Nat
    BY DEF At
  <2> QED BY <2>2, <2>3, <2>4
<1>3. \A i \in Nat : At(i) \in Nat
  BY DEF At
<1>4. At(Len(Conns)) < Interval
  BY VendorAssumption DEF VendorAssumption, At
<1>5. \A i, j \in Nat : i <= j => At(i) <= At(j)
  <2> SUFFICES ASSUME NEW i \in Nat, NEW j \in Nat, i <= j PROVE At(i) <= At(j)
    OBVIOUS
  <2>1. CASE i < j
    BY <1>2, <1>3, <2>1
  <2>2. CASE i = j
    BY <1>3, <2>2
  <2> QED BY <2>1, <2>2
<1>6. Old = 2 * Interval + At(Len(Conns)) + 1
  BY DEF Old, At
<1>7. At(Len(Conns)) \in Nat /\ Interval \in Nat /\ Interval > 0 /\ Old \in Nat
  <2>1. At(Len(Conns)) \in Nat /\ Interval \in Nat
    BY <1>1, <1>3
  <2> QED BY <1>4, <1>6, <2>1
<1>8. \A i \in 0..Len(Conns) : i \in Nat
  OBVIOUS
<1> HIDE Constants
<1> QED BY <1>2, <1>3, <1>4, <1>5, <1>6, <1>7, <1>8

LEMMA PosTimes ==
    /\ Interval \in Nat /\ Timeout \in Nat /\ Len(Conns) \in Nat
    /\ At(Len(Conns)) \in Nat /\ At(Len(Conns)) < Interval
    /\ \A c \in C : /\ Pos(c) \in 1..Len(Conns)
                    /\ At(Pos(c)) \in Nat /\ At(Pos(c)) <= At(Len(Conns))
<1>1. Len(Conns) \in 0..Len(Conns) /\ Len(Conns) \in Nat
  BY Constants
<1>2. ASSUME NEW c \in C
      PROVE  Pos(c) \in 1..Len(Conns) /\ At(Pos(c)) \in Nat /\ At(Pos(c)) <= At(Len(Conns))
  <2>1. Pos(c) \in 1..Len(Conns)
    BY Places
  <2>2. Pos(c) \in 0..Len(Conns) /\ Pos(c) <= Len(Conns)
    BY <1>1, <2>1
  <2> QED BY <1>1, <2>1, <2>2, Times
<1> QED BY <1>1, <1>2, Times, Constants

\* What dropping the first entry of the list leaves.
LEMMA DropFirst ==
    ASSUME TypeOK, TodoInv, todo # <<>>, todo' = Tail(todo)
    PROVE  /\ conn \in C /\ copy \in Row /\ copy = row[conn]
           /\ todo' \in Seq(Entry)
           /\ DOMAIN todo' = 1..(Len(todo) - 1)
           /\ \A i \in DOMAIN todo' : i + 1 \in DOMAIN todo /\ todo'[i] = todo[i + 1]
           /\ \A c \in C : InTodo(c)' <=> InTodo(c) /\ c # conn
           /\ InTodo(conn)
           /\ \A i, j \in DOMAIN todo' : i < j => Pos(todo'[i].conn) < Pos(todo'[j].conn)
<1>1. /\ todo \in Seq(Entry)
      /\ Len(todo) \in Nat /\ Len(todo) > 0 /\ DOMAIN todo = 1..Len(todo)
  BY DEF TodoInv
<1>2. conn \in C /\ copy \in Row /\ copy = row[conn]
  <2>1. 1 \in DOMAIN todo
    BY <1>1
  <2>2. todo[1] \in Entry
    BY <1>1, <2>1
  <2> QED BY <2>1, <2>2 DEF TodoInv, Entry, conn, copy
<1>3. /\ todo' \in Seq(Entry)
      /\ DOMAIN todo' = 1..(Len(todo) - 1)
      /\ \A i \in DOMAIN todo' : i + 1 \in DOMAIN todo /\ todo'[i] = todo[i + 1]
  BY <1>1
<1>4. ASSUME NEW i \in DOMAIN todo' PROVE todo'[i].conn # conn
  <2>1. i + 1 \in DOMAIN todo /\ 1 \in DOMAIN todo /\ 1 < i + 1
    BY <1>1, <1>3
  <2>2. Pos(conn) < Pos(todo'[i].conn)
    BY <1>3, <2>1 DEF TodoInv, conn
  <2>3. Pos(conn) \in Int
    BY <1>2, Places
  <2> QED BY <2>2, <2>3
<1>5. ASSUME NEW c \in C PROVE InTodo(c)' <=> InTodo(c) /\ c # conn
  <2>1. ASSUME InTodo(c), c # conn PROVE InTodo(c)'
    <3>1. PICK i \in DOMAIN todo : todo[i].conn = c
      BY <2>1 DEF InTodo
    <3>2. i # 1
      BY <2>1, <3>1 DEF conn
    <3>3. i - 1 \in DOMAIN todo' /\ todo'[i - 1] = todo[i]
      BY <1>1, <1>3, <3>2
    <3> QED BY <3>1, <3>3 DEF InTodo
  <2>2. ASSUME InTodo(c)' PROVE InTodo(c) /\ c # conn
    <3>1. PICK i \in DOMAIN todo' : todo'[i].conn = c
      BY <2>2 DEF InTodo
    <3>2. c # conn
      BY <1>4, <3>1
    <3> QED BY <1>3, <3>1, <3>2 DEF InTodo
  <2> QED BY <2>1, <2>2
<1>6. InTodo(conn)
  BY <1>1 DEF InTodo, conn
<1>7. ASSUME NEW i \in DOMAIN todo', NEW j \in DOMAIN todo', i < j
      PROVE  Pos(todo'[i].conn) < Pos(todo'[j].conn)
  BY <1>1, <1>3, <1>7 DEF TodoInv
<1> QED BY <1>2, <1>3, <1>5, <1>6, <1>7

\* How far the pass is: what it is past took no longer than its fetches.
LEMMA PastFacts ==
    ASSUME TypeOK, TodoInv
    PROVE  /\ Past \in 0..Len(Conns)
           /\ todo # <<>> => /\ conn \in C /\ Past < Pos(conn)
                            /\ At(Past) + Timeout <= At(Pos(conn))
           /\ At(Past) \in Nat
           /\ \A c \in C : InTodo(c) => todo # <<>> /\ Pos(conn) <= Pos(c)
<1>1. todo # <<>> => /\ 1 \in DOMAIN todo /\ conn \in C
                     /\ \A i \in DOMAIN todo : i = 1 \/ 1 < i
  <2> SUFFICES ASSUME todo # <<>>
               PROVE  1 \in DOMAIN todo /\ conn \in C /\ \A i \in DOMAIN todo : i = 1 \/ 1 < i
    OBVIOUS
  <2>1. todo \in Seq(Entry) /\ 1 \in DOMAIN todo /\ \A i \in DOMAIN todo : i = 1 \/ 1 < i
    BY DEF TodoInv
  <2>2. todo[1] \in Entry
    BY <2>1
  <2> QED BY <2>1, <2>2 DEF Entry, conn
<1>2. Past \in 0..Len(Conns) /\ (todo # <<>> => conn \in C /\ Past < Pos(conn))
  BY <1>1, Places DEF Past
<1>3. todo # <<>> => At(Past) + Timeout <= At(Pos(conn))
  BY <1>2, Times, Places
<1>4. ASSUME NEW c \in C, InTodo(c) PROVE todo # <<>> /\ Pos(conn) <= Pos(c)
  <2>1. PICK i \in DOMAIN todo : todo[i].conn = c
    BY <1>4 DEF InTodo
  <2>2. todo # <<>>
    BY <2>1
  <2>3. CASE i = 1
    BY <1>1, <2>1, <2>2, <2>3, Places DEF conn
  <2>4. CASE 1 < i
    <3>1. Pos(todo[1].conn) < Pos(todo[i].conn)
      BY <1>1, <2>2, <2>4 DEF TodoInv
    <3>2. Pos(conn) \in Int /\ Pos(c) \in Int
      BY <1>1, <2>2, Places
    <3> QED BY <2>1, <2>2, <3>1, <3>2 DEF conn
  <2> QED BY <1>1, <2>2, <2>3, <2>4
<1> QED BY <1>2, <1>3, <1>4, Times

-----------------------------------------------------------------------------
(* Steps within one refresh *)

\* A step that moves the refresh of the first entry on, and leaves all times alone.
Works == Busy /\ Busy' /\ UNCHANGED <<row, phase, todo, elapsed, ticker, since, missed>>

LEMMA WorksInv ==
    ASSUME TodoInv, PcInv, SinceInv, FirstInv, LoopInv, Works
    PROVE  TodoInv' /\ PcInv' /\ SinceInv' /\ FirstInv' /\ LoopInv'
<1>1. UNCHANGED <<row, phase, todo, elapsed, toTick, pending, since, missed>>
  BY DEF Works, ticker
<1>2. Busy /\ Busy' /\ Pass /\ Pass'
  BY DEF Works, Pass
<1>3. pc \notin {"list", "idle"} /\ pc' \notin {"list", "idle"}
  BY <1>2 DEF Busy
<1>4. conn' = conn /\ Past' = Past
  BY <1>1 DEF conn, Past
<1>5. \A c \in C : (InTodo(c)' <=> InTodo(c)) /\ (Live(c)' <=> Live(c))
  BY <1>1 DEF InTodo, Live
<1>6. TodoInv'
  BY <1>1 DEF TodoInv
<1>7. PcInv'
  BY <1>1, <1>2, <1>3 DEF PcInv
<1>8. SinceInv'
  BY <1>1, <1>2, <1>4 DEF SinceInv
<1>9. FirstInv'
  BY <1>1, <1>2, <1>4, <1>5 DEF FirstInv
<1>10. LoopInv'
  BY <1>1, <1>2, <1>3, <1>4, <1>5 DEF LoopInv
<1> QED BY <1>6, <1>7, <1>8, <1>9, <1>10

\* A bill that was read has a due date.
LEMMA ScrapeDue ==
    ASSUME NEW k, NEW root, NEW a, NEW b, Scrape(k, root, a, b) # NoBill
    PROVE  Scrape(k, root, a, b).due \in Nat
<1>1. DateToken(k, findTextByClass(root, a)) \in DOMAIN Dates
  BY DEF Scrape, DateParses
<1>2. Scrape(k, root, a, b).due = Dates[DateToken(k, findTextByClass(root, a))].day
  BY DEF Scrape
<1> QED BY <1>1, <1>2, VendorAssumption DEF VendorAssumption

LEMMA FetchedDue ==
    ASSUME NEW connector, NEW landing, FetchedBill(connector, landing) # NoBill
    PROVE  FetchedBill(connector, landing).due \in Nat
BY ScrapeDue DEF FetchedBill, BilleriqBill, ColumbiagaspaBill

LEMMA WorkingInv ==
    ASSUME VendorInv,
           \/ FetchLoginTokens \/ Post \/ FetchFails \/ UpdateAmount \/ UpdateAmountFails
           \/ EnsureInstance \/ EnsureInstanceFails
    PROVE  VendorInv'
<1>1. Works
  BY DEF FetchLoginTokens, Post, FetchFails, UpdateAmount, UpdateAmountFails, EnsureInstance,
     EnsureInstanceFails, AfterAmount, Works, Busy, tables, history
<1>2. TodoInv' /\ PcInv' /\ SinceInv' /\ FirstInv' /\ LoopInv'
  BY <1>1, WorksInv DEF VendorInv
<1>3. conn \in C
  <2>1. todo # <<>>
    BY <1>1 DEF VendorInv, PcInv, Works
  <2> QED BY <2>1, PastFacts DEF VendorInv
<1>4. DueInv'
  <2>1. CASE Post
    BY <2>1, FetchedDue DEF DueInv, Post
  <2>2. CASE ~Post
    BY <2>2 DEF VendorInv, DueInv, FetchLoginTokens, FetchFails, UpdateAmount, UpdateAmountFails,
       EnsureInstance, EnsureInstanceFails, AfterAmount
  <2> QED BY <2>1, <2>2
<1>5. UNCHANGED <<row, phase, attach, todo, elapsed, toTick, pending, site, since, missed, stops>>
  BY DEF FetchLoginTokens, Post, FetchFails, UpdateAmount, UpdateAmountFails, EnsureInstance,
     EnsureInstanceFails, tables, history, ticker
<1>6. pc' \in {"login", "post", "amount", "instance", "mark"}
  BY <1>1 DEF Works, Busy
<1>7. amount' \in [C -> (-IntMax - 1)..IntMax]
  <2>1. CASE UpdateAmount
    BY <1>3, <2>1 DEF VendorInv, TypeOK, UpdateAmount
  <2>2. CASE ~UpdateAmount
    BY <2>2 DEF VendorInv, TypeOK, FetchLoginTokens, Post, FetchFails, UpdateAmountFails,
       EnsureInstance, EnsureInstanceFails, tables
  <2> QED BY <2>1, <2>2
<1>8. insts' \in [C -> SUBSET Nat]
  <2>1. CASE EnsureInstance
    BY <1>3, <2>1 DEF VendorInv, TypeOK, DueInv, EnsureInstance
  <2>2. CASE ~EnsureInstance
    BY <2>2 DEF VendorInv, TypeOK, FetchLoginTokens, Post, FetchFails, UpdateAmount,
       UpdateAmountFails, EnsureInstanceFails, tables
  <2> QED BY <2>1, <2>2
<1>9. TypeOK'
  BY <1>5, <1>6, <1>7, <1>8 DEF VendorInv, TypeOK
<1> QED BY <1>2, <1>4, <1>9 DEF VendorInv

\* A fetch begins only for what was last refreshed an interval ago.
LEMMA FetchInv ==
    ASSUME VendorInv, NEW usable \in BOOLEAN, Fetch(usable)
    PROVE  VendorInv'
<1> USE DEF VendorInv
<1>1. UNCHANGED <<row, amount, insts, phase, attach, todo, toTick, pending, site, since, missed, stops>>
  BY DEF Fetch, tables, ticker, history
<1>2. pc = "next" /\ todo # <<>> /\ Stale(copy.age) /\ elapsed = 0 /\ elapsed' = 0
  BY DEF Fetch, PcInv, Busy
<1>3. pc' \in {"login", "post", "mark"}
  BY DEF Fetch
<1>4. Busy' /\ ~Busy /\ Pass /\ Pass'
  BY <1>2, <1>3 DEF Busy, Pass
<1>5. conn' = conn /\ Past' = Past /\ conn \in C
  BY <1>1, <1>2, PastFacts DEF conn, Past
<1>6. \A c \in C : (InTodo(c)' <=> InTodo(c)) /\ (Live(c)' <=> Live(c))
  BY <1>1 DEF InTodo, Live
<1>7. TypeOK'
  <2>1. elapsed' \in 0..Timeout
    BY <1>2, Constants
  <2> QED BY <1>1, <1>3, <2>1 DEF TypeOK
<1>8. TodoInv'
  BY <1>1 DEF TodoInv
<1>9. PcInv'
  BY <1>1, <1>2, <1>3, <1>4 DEF PcInv
<1>10. SinceInv'
  <2>1. copy = row[conn] /\ row[conn] \in Row /\ row[conn] # None
    <3>1. todo \in Seq(Entry) /\ 1 \in DOMAIN todo
      BY <1>2 DEF TodoInv
    <3>2. todo[1] \in Entry
      BY <3>1
    <3>3. copy = row[conn] /\ copy \in Row
      BY <3>1, <3>2 DEF TodoInv, Entry, conn, copy
    <3> QED BY <3>3, Constants
  <2>2. row[conn].age >= Interval /\ row[conn].age \in Int
    BY <1>2, <2>1, Times DEF Stale, Row, Ages
  <2>3. since[conn] = Interval
    BY <1>5, <2>1, <2>2, Constants DEF SinceInv, TypeOK
  <2> QED BY <1>1, <1>5, <2>3 DEF SinceInv
<1>11. FirstInv'
  BY <1>1, <1>2, <1>4, <1>5, <1>6 DEF FirstInv
<1>12. LoopInv'
  BY <1>1, <1>2, <1>3, <1>4, <1>5, <1>6 DEF LoopInv
<1>13. DueInv'
  BY <1>3 DEF DueInv
<1> QED BY <1>7, <1>8, <1>9, <1>10, <1>11, <1>12, <1>13

-----------------------------------------------------------------------------
(* Time *)

LEMMA ClockInv ==
    ASSUME VendorInv, ClockTick
    PROVE  VendorInv'
<1> USE DEF VendorInv
<1>1. /\ UNCHANGED <<amount, insts, phase, attach, pc, bill, site, missed, stops>>
      /\ row' = [c \in C |-> IF row[c] = None THEN None ELSE [row[c] EXCEPT !.age = Older(@)]]
      /\ todo' = [i \in DOMAIN todo |-> [todo[i] EXCEPT !.copy.age = Older(@)]]
      /\ since' = [c \in C |-> IF since[c] < Interval THEN since[c] + 1 ELSE Interval]
      /\ elapsed' = IF pc \in {"login", "post"} THEN elapsed + 1 ELSE 0
      /\ toTick' = IF phase # "loop" THEN toTick ELSE IF toTick = 1 THEN Interval ELSE toTick - 1
      /\ pending' = (pending \/ (phase = "loop" /\ toTick = 1))
  BY DEF ClockTick
<1>2. Waiting
  BY DEF ClockTick
<1>3. \A age \in Ages : Older(age) \in Ages /\ Older(age) <= age + 1
  BY Times DEF Older, Ages
<1>4. \A r \in Row : /\ [r EXCEPT !.age = Older(@)] \in Row
                      /\ [r EXCEPT !.age = Older(@)].age <= r.age + 1
  BY <1>3 DEF Row
<1>5. \A c \in C : /\ row'[c] = None <=> row[c] = None
                   /\ row[c] # None => /\ row'[c] = [row[c] EXCEPT !.age = Older(@)]
                                       /\ row'[c] \in Row /\ row[c] \in Row
                                       /\ row'[c].age <= row[c].age + 1
                                       /\ row'[c].age \in Int /\ row[c].age \in Int
  <2> SUFFICES ASSUME NEW c \in C, row[c] # None
               PROVE  /\ row'[c] = [row[c] EXCEPT !.age = Older(@)] /\ row'[c] # None
                      /\ row'[c] \in Row /\ row[c] \in Row
                      /\ row'[c].age <= row[c].age + 1
                      /\ row'[c].age \in Int /\ row[c].age \in Int
    BY <1>1
  <2>1. row[c] \in Row /\ row'[c] = [row[c] EXCEPT !.age = Older(@)]
    BY <1>1 DEF TypeOK
  <2>2. row'[c] \in Row /\ row'[c].age <= row[c].age + 1
    BY <1>4, <2>1
  <2>3. \A r \in Row : r.age \in Int /\ r # None
    BY Times, Constants DEF Row, Ages
  <2> QED BY <2>1, <2>2, <2>3
<1>a. \A c \in C : row[c] # None => /\ row'[c].age <= row[c].age + 1
                                     /\ row'[c].age \in Int /\ row[c].age \in Int
  BY <1>5
<1>6. TodoInv'
  <2>1. todo \in Seq(Entry) /\ DOMAIN todo' = DOMAIN todo
    BY <1>1 DEF TodoInv
  <2>2. ASSUME NEW i \in DOMAIN todo
        PROVE  /\ todo'[i] \in Entry /\ todo'[i].conn = todo[i].conn
               /\ todo'[i].copy = row'[todo'[i].conn]
    <3>1. todo[i] \in Entry /\ todo[i].copy = row[todo[i].conn]
      BY <2>1 DEF TodoInv
    <3>2. todo'[i] = [todo[i] EXCEPT !.copy.age = Older(@)]
      BY <1>1
    <3>3. /\ todo'[i].conn = todo[i].conn
          /\ todo'[i].copy = [todo[i].copy EXCEPT !.age = Older(@)]
          /\ todo'[i] = [conn |-> todo[i].conn, copy |-> [todo[i].copy EXCEPT !.age = Older(@)]]
      BY <3>1, <3>2 DEF Entry
    <3>4. todo[i].conn \in C /\ todo[i].copy \in Row
      BY <3>1 DEF Entry
    <3>5. row[todo[i].conn] # None
      BY <3>1, <3>4, Constants
    <3>6. todo'[i].copy = row'[todo[i].conn]
      BY <1>5, <3>1, <3>3, <3>4, <3>5
    <3>7. [todo[i].copy EXCEPT !.age = Older(@)] \in Row
      BY <1>4, <3>4
    <3>8. todo'[i] \in Entry
      BY <3>3, <3>4, <3>7 DEF Entry
    <3> QED BY <3>3, <3>6, <3>8
  <2>3. todo' \in Seq(Entry)
    <3>1. Len(todo) \in Nat /\ DOMAIN todo = 1..Len(todo)
      BY <2>1
    <3>2. todo' \in [1..Len(todo) -> Entry]
      BY <1>1, <2>2, <3>1
    <3> QED BY <3>1, <3>2
  <2> QED BY <2>1, <2>2, <2>3 DEF TodoInv
<1>7. /\ todo' = <<>> <=> todo = <<>>
      /\ todo # <<>> => conn' = conn
      /\ \A c \in C : (InTodo(c)' <=> InTodo(c)) /\ (Live(c)' <=> Live(c))
  <2>1. /\ todo \in Seq(Entry) /\ todo' \in Seq(Entry) /\ DOMAIN todo' = DOMAIN todo
        /\ \A i \in DOMAIN todo : todo'[i].conn = todo[i].conn
    <3>1. todo \in Seq(Entry) /\ todo' \in Seq(Entry) /\ DOMAIN todo' = DOMAIN todo
      BY <1>1, <1>6 DEF TodoInv
    <3>2. ASSUME NEW i \in DOMAIN todo PROVE todo'[i].conn = todo[i].conn
      <4>1. todo[i] \in Entry
        BY <3>1
      <4> QED BY <1>1, <4>1 DEF Entry
    <3> QED BY <3>1, <3>2
  <2>2. todo' = <<>> <=> todo = <<>>
    BY <2>1
  <2>3. todo # <<>> => conn' = conn
    BY <2>1 DEF conn
  <2>4. \A c \in C : (InTodo(c)' <=> InTodo(c)) /\ (Live(c)' <=> Live(c))
    BY <1>1, <1>5, <2>1 DEF InTodo, Live
  <2> QED BY <2>2, <2>3, <2>4
<1>8. Past' = Past /\ (Busy' <=> Busy) /\ (Pass' <=> Pass)
  BY <1>1, <1>7 DEF Past, Busy, Pass
<1>9. \/ pc = "idle" /\ ~pending
      \/ pc \in {"login", "post"} /\ elapsed < Timeout /\ elapsed' = elapsed + 1
      \/ phase = "down"
  BY <1>1, <1>2 DEF Waiting
<1>10. TypeOK'
  <2>1. row' \in [C -> Row \cup {None}]
    BY <1>1, <1>5
  <2>2. since' \in [C -> 0..Interval]
    BY <1>1, Constants DEF TypeOK
  <2>3. elapsed' \in 0..Timeout
    BY <1>1, <1>9, Constants DEF TypeOK, PcInv
  <2>4. toTick' \in 0..Interval /\ pending' \in BOOLEAN
    BY <1>1, Constants DEF TypeOK, LoopInv
  <2>5. \A i \in DOMAIN todo' : todo'[i].conn \in C /\ todo'[i].copy \in Row
    <3>1. \A i \in DOMAIN todo' : todo'[i] \in Entry
      BY <1>6 DEF TodoInv
    <3> QED BY <3>1 DEF Entry
  <2> QED BY <1>1, <2>1, <2>2, <2>3, <2>4, <2>5 DEF TypeOK
<1>11. PcInv'
  BY <1>1, <1>7, <1>8 DEF PcInv, Busy
<1>12. SinceInv'
  <2>1. ASSUME NEW c \in C
        PROVE  IF row'[c] = None THEN since'[c] = Interval
               ELSE row'[c].age <= since'[c] \/ since'[c] = Interval
    <3>1. since[c] \in 0..Interval /\ Interval \in Nat
      BY Constants DEF TypeOK
    <3>2. since'[c] = IF since[c] < Interval THEN since[c] + 1 ELSE Interval
      BY <1>1
    <3>3. CASE row[c] = None
      BY <1>5, <3>1, <3>2, <3>3 DEF SinceInv
    <3>4. CASE row[c] # None
      <4>1. row'[c] # None /\ (row[c].age <= since[c] \/ since[c] = Interval)
        BY <1>5, <3>4 DEF SinceInv
      <4>2. row'[c].age <= since'[c] \/ since'[c] = Interval
        BY <1>a, <3>1, <3>2, <3>4, <4>1
      <4> QED BY <4>1, <4>2
    <3> QED BY <3>3, <3>4
  <2>2. Busy' => since'[conn'] = Interval
    <3> SUFFICES ASSUME Busy PROVE since'[conn'] = Interval
      BY <1>8
    <3>1. todo # <<>> /\ since[conn] = Interval
      BY DEF PcInv, SinceInv
    <3>2. conn \in C /\ conn' = conn
      BY <1>7, <3>1, PastFacts
    <3> QED BY <1>1, <3>1, <3>2, Constants
  <2> QED BY <2>1, <2>2 DEF SinceInv
<1>13. FirstInv'
  <2> SUFFICES ASSUME phase = "first", Pass, NEW c \in C, Live(c), ~InTodo(c)
               PROVE  /\ Pos(c) <= Past
                      /\ row'[c].age < Interval + At(Past) - At(Pos(c)) + elapsed'
    BY <1>1, <1>7, <1>8 DEF FirstInv
  <2>1. Pos(c) <= Past /\ row[c].age < Interval + At(Past) - At(Pos(c)) + elapsed
    BY DEF FirstInv
  <2>2. elapsed' = elapsed + 1
    BY <1>9 DEF PcInv, Pass, Busy
  <2>3. elapsed \in Int /\ At(Past) \in Int /\ At(Pos(c)) \in Int /\ Interval \in Int
    BY PastFacts, PosTimes DEF TypeOK
  <2>4. row[c] # None
    BY DEF Live
  <2> QED BY <1>a, <2>1, <2>2, <2>3, <2>4
<1>14. LoopInv'
  <2> SUFFICES ASSUME phase = "loop" PROVE LoopInv'
    BY <1>1 DEF LoopInv
  <2>1. /\ toTick \in 1..Interval /\ Interval \in Nat /\ elapsed \in 0..Timeout /\ Timeout \in Nat
        /\ At(Past) \in Nat /\ At(Len(Conns)) \in Nat /\ At(Len(Conns)) < Interval
        /\ \A c \in C : At(Pos(c)) \in Nat /\ At(Pos(c)) <= At(Len(Conns))
    BY PastFacts, PosTimes DEF TypeOK, LoopInv
  <2>2. \A c \in C : Live(c) =>
          row[c].age < (IF pending \/ pc = "list" \/ InTodo(c) THEN 3 * Interval ELSE 2 * Interval)
                       - toTick + At(Len(Conns)) - At(Pos(c))
    BY DEF LoopInv
  <2>3. CASE pc = "idle" /\ ~pending
    <3>1. todo = <<>> /\ ~Pass /\ pc' = "idle" /\ \A c \in C : ~InTodo(c)
      BY <1>1, <2>3 DEF PcInv, Pass, Busy, InTodo
    <3>2. CASE toTick = 1
      <4>1. toTick' = Interval /\ pending'
        BY <1>1, <3>2
      <4>2. ASSUME NEW c \in C, Live(c)
            PROVE  row'[c].age < 3 * Interval - toTick' + At(Len(Conns)) - At(Pos(c))
        <5>1. row[c].age < 2 * Interval - toTick + At(Len(Conns)) - At(Pos(c))
          BY <2>2, <2>3, <3>1, <4>2
        <5>2. row[c] # None
          BY <4>2 DEF Live
        <5>3. row'[c].age \in Int /\ row[c].age \in Int /\ row'[c].age <= row[c].age + 1
          BY <1>a, <5>2
        <5>4. row'[c].age < 2 * Interval + At(Len(Conns)) - At(Pos(c))
          BY <2>1, <3>2, <5>1, <5>3
        <5>5. toTick' = Interval /\ 3 * Interval - Interval = 2 * Interval
          BY <2>1, <4>1
        <5> QED BY <2>1, <5>4, <5>5
      <4> QED BY <1>1, <1>7, <1>8, <2>1, <3>1, <4>1, <4>2 DEF LoopInv
    <3>3. CASE toTick # 1
      <4>1. toTick' = toTick - 1 /\ ~pending'
        BY <1>1, <2>3, <3>3
      <4>2. ASSUME NEW c \in C, Live(c)
            PROVE  row'[c].age < 2 * Interval - toTick' + At(Len(Conns)) - At(Pos(c))
        <5>1. row[c].age < 2 * Interval - toTick + At(Len(Conns)) - At(Pos(c))
          BY <2>2, <2>3, <3>1, <4>2
        <5>2. row[c] # None
          BY <4>2 DEF Live
        <5> QED BY <1>a, <2>1, <4>1, <5>1, <5>2
      <4>3. toTick' \in 1..Interval
        BY <2>1, <3>3, <4>1
      <4> QED BY <1>1, <1>7, <1>8, <3>1, <4>1, <4>2, <4>3 DEF LoopInv
    <3> QED BY <3>2, <3>3
  <2>4. CASE pc \in {"login", "post"} /\ elapsed < Timeout /\ elapsed' = elapsed + 1
    <3>1. Busy /\ Pass /\ ~pending /\ todo # <<>>
      BY <2>4 DEF PcInv, LoopInv, Busy, Pass
    <3>2. Interval - toTick <= At(Past) + elapsed
      BY <3>1 DEF LoopInv
    <3>3. At(Past) + Timeout <= At(Pos(conn)) /\ At(Pos(conn)) <= At(Len(Conns))
      BY <2>1, <3>1, PastFacts
    <3>4. conn \in C
      BY <3>1, PastFacts
    <3>5. toTick # 1
      BY <2>1, <2>4, <3>2, <3>3, <3>4
    <3>6. toTick' = toTick - 1 /\ ~pending' /\ toTick' \in 1..Interval
      <4>1. toTick' = toTick - 1 /\ ~pending'
        BY <1>1, <3>1, <3>5
      <4> QED BY <2>1, <3>5, <4>1
    <3>7. Interval - toTick' <= At(Past) + elapsed'
      BY <2>1, <2>4, <3>2, <3>6
    <3>8. ASSUME NEW c \in C, Live(c)
          PROVE  row'[c].age < (IF InTodo(c) THEN 3 * Interval ELSE 2 * Interval)
                               - toTick' + At(Len(Conns)) - At(Pos(c))
      <4> DEFINE most == IF InTodo(c) THEN 3 * Interval ELSE 2 * Interval
      <4>1. row[c].age < most - toTick + At(Len(Conns)) - At(Pos(c))
        BY <2>2, <2>4, <3>1, <3>8
      <4>2. row[c] # None /\ most \in Int
        BY <2>1, <3>8 DEF Live
      <4> HIDE DEF most
      <4>3. row'[c].age < most - toTick' + At(Len(Conns)) - At(Pos(c))
        BY <1>a, <2>1, <3>6, <4>1, <4>2
      <4> QED BY <4>3 DEF most
    <3> QED BY <1>1, <1>7, <1>8, <2>4, <3>6, <3>7, <3>8 DEF LoopInv
  <2> QED BY <1>9, <2>3, <2>4
<1>15. DueInv'
  BY <1>1 DEF DueInv
<1> QED BY <1>6, <1>10, <1>11, <1>12, <1>13, <1>14, <1>15

-----------------------------------------------------------------------------
(* The end of one refresh *)

\* The first entry is dropped: it was fresh or is now, or its mark failed, and the
\* others are as they were.
Drops ==
    /\ Pass /\ todo # <<>> /\ todo' = Tail(todo) /\ pc' = "next" /\ elapsed' = 0
    /\ UNCHANGED <<phase, attach, toTick, pending>>
    /\ \A c \in C : c # conn => row'[c] = row[c] /\ missed'[c] = missed[c]
    /\ row'[conn] # None /\ ~missed'[conn] => row'[conn].age \in Int /\ row'[conn].age < Interval

LEMMA DropsPast ==
    ASSUME TypeOK, TodoInv, todo # <<>>, todo' = Tail(todo)
    PROVE  /\ Past' \in 0..Len(Conns) /\ At(Past') \in Nat
           /\ Pos(conn) <= Past'
           /\ At(Past) + Timeout <= At(Past')
           /\ Past < Past'
<1>1. /\ conn \in C /\ todo' \in Seq(Entry)
      /\ DOMAIN todo' = 1..(Len(todo) - 1)
      /\ \A i \in DOMAIN todo' : i + 1 \in DOMAIN todo /\ todo'[i] = todo[i + 1]
  BY DropFirst
<1>2. Pos(conn) \in 1..Len(Conns) /\ Len(Conns) \in Nat
  BY <1>1, PosTimes
<1>3. Past' \in 0..Len(Conns) /\ Pos(conn) <= Past'
  <2>1. CASE todo' = <<>>
    BY <1>2, <2>1, Constants DEF Past
  <2>2. CASE todo' # <<>>
    <3>1. 1 \in DOMAIN todo'
      BY <1>1, <2>2
    <3>2. 2 \in DOMAIN todo /\ 1 \in DOMAIN todo /\ todo'[1] = todo[2]
      BY <1>1, <3>1 DEF TodoInv
    <3>3. Pos(todo[1].conn) < Pos(todo[2].conn)
      BY <3>2 DEF TodoInv
    <3>4. todo'[1] \in Entry
      BY <1>1, <3>1
    <3>5. Pos(todo'[1].conn) \in 1..Len(Conns)
      BY <3>4, PosTimes DEF Entry
    <3>6. Past' = Pos(todo'[1].conn) - 1
      BY <2>2 DEF Past, conn
    <3>7. Pos(conn) < Pos(todo'[1].conn)
      BY <3>2, <3>3 DEF conn
    <3>8. \A p, q \in 1..Len(Conns) : p < q => q - 1 \in 0..Len(Conns) /\ p <= q - 1
      BY <1>2
    <3>9. /\ Pos(todo'[1].conn) - 1 \in 0..Len(Conns)
          /\ Pos(conn) <= Pos(todo'[1].conn) - 1
      BY <1>2, <3>5, <3>7, <3>8
    <3> QED BY <3>6, <3>9
  <2> QED BY <2>1, <2>2
<1>4. Past \in 0..Len(Conns) /\ Past < Pos(conn)
  BY PastFacts
<1>5. Past < Past'
  BY <1>2, <1>3, <1>4
<1> QED BY <1>3, <1>4, <1>5, Times

LEMMA DropsInv ==
    ASSUME VendorInv, Drops
    PROVE  TodoInv' /\ PcInv' /\ FirstInv' /\ LoopInv'
<1> USE DEF VendorInv
<1>1. /\ todo # <<>> /\ todo' = Tail(todo) /\ pc' = "next" /\ elapsed' = 0
      /\ UNCHANGED <<phase, attach, toTick, pending>> /\ Pass
  BY DEF Drops
<1>2. /\ conn \in C /\ todo' \in Seq(Entry)
      /\ \A i \in DOMAIN todo' : i + 1 \in DOMAIN todo /\ todo'[i] = todo[i + 1]
      /\ \A c \in C : InTodo(c)' <=> InTodo(c) /\ c # conn
      /\ \A i, j \in DOMAIN todo' : i < j => Pos(todo'[i].conn) < Pos(todo'[j].conn)
  BY <1>1, DropFirst
<1>3. /\ At(Past') \in Nat /\ At(Past) \in Nat /\ Pos(conn) <= Past'
      /\ At(Past) + Timeout <= At(Past') /\ Past < Past'
      /\ Past' \in 0..Len(Conns) /\ Past \in 0..Len(Conns)
  BY <1>1, DropsPast, PastFacts
<1>4. TodoInv'
  <2>1. ASSUME NEW i \in DOMAIN todo' PROVE todo'[i].copy = row'[todo'[i].conn]
    <3>1. todo'[i] \in Entry
      BY <1>2
    <3>2. todo'[i].conn \in C
      BY <3>1 DEF Entry
    <3>3. todo'[i].conn # conn
      <4>2. PICK c \in C : c = todo'[i].conn
        BY <3>2
      <4>3. InTodo(c)'
        BY <4>2 DEF InTodo
      <4> QED BY <1>2, <4>2, <4>3
    <3>4. todo'[i].copy = row[todo'[i].conn]
      BY <1>2 DEF TodoInv
    <3> QED BY <3>2, <3>3, <3>4 DEF Drops
  <2> QED BY <1>2, <2>1 DEF TodoInv
<1>5. ~Busy' /\ Pass'
  BY <1>1 DEF Busy, Pass
<1>6. PcInv'
  <2>1. phase # "down"
    BY <1>1 DEF PcInv, Pass, Busy
  <2> QED BY <1>1, <1>5, <2>1 DEF PcInv
<1>7. \A c \in C : c # conn => (Live(c)' <=> Live(c)) /\ row'[c] = row[c]
  BY DEF Live, Drops
<1>8. ASSUME NEW c \in C, Live(c)', c = conn PROVE row'[c].age \in Int /\ row'[c].age < Interval
  BY <1>8 DEF Live, Drops
<1>9. \A c \in C : Live(c) => row[c].age \in Int
  <2>1. \A r \in Row : r.age \in Int
    BY Times DEF Row, Ages
  <2> QED BY <2>1 DEF Live, TypeOK
<1>10. /\ elapsed \in 0..Timeout /\ Timeout \in Nat /\ Interval \in Nat
       /\ At(Len(Conns)) \in Nat
       /\ \A c \in C : At(Pos(c)) \in Nat /\ At(Pos(c)) <= At(Len(Conns))
                        /\ Pos(c) \in 1..Len(Conns)
  BY PosTimes DEF TypeOK
<1>11. FirstInv'
  <2> SUFFICES ASSUME phase = "first", NEW c \in C, Live(c)', ~InTodo(c)'
               PROVE  /\ Pos(c) <= Past'
                      /\ row'[c].age < Interval + At(Past') - At(Pos(c)) + 0
    BY <1>1 DEF FirstInv
  <2>1. CASE c = conn
    <3>1. At(Pos(c)) <= At(Past')
      BY <1>3, <1>10, <2>1, Times
    <3> QED BY <1>3, <1>8, <1>10, <2>1, <3>1
  <2>2. CASE c # conn
    <3>1. Live(c) /\ ~InTodo(c) /\ row'[c] = row[c]
      BY <1>2, <1>7, <2>2
    <3>2. Pos(c) <= Past /\ row[c].age < Interval + At(Past) - At(Pos(c)) + elapsed
      BY <1>1, <3>1 DEF FirstInv
    <3>3. /\ row[c].age \in Int /\ At(Pos(c)) \in Int /\ elapsed \in Int /\ Interval \in Int
          /\ At(Past) \in Int /\ At(Past') \in Int
      BY <1>3, <1>9, <1>10, <3>1
    <3>4. At(Past) + elapsed <= At(Past')
      BY <1>3, <1>10
    <3>5. row'[c].age < Interval + At(Past') - At(Pos(c)) + 0
      BY <3>1, <3>2, <3>3, <3>4
    <3>6. Pos(c) <= Past'
      BY <1>3, <1>10, <3>2
    <3> QED BY <3>5, <3>6
  <2> QED BY <2>1, <2>2
<1>12. LoopInv'
  <2> SUFFICES ASSUME phase = "loop" PROVE LoopInv'
    BY <1>1 DEF LoopInv
  <2>1. toTick \in 1..Interval /\ ~pending /\ Interval - toTick <= At(Past) + elapsed
    BY <1>1 DEF LoopInv, Pass, Busy
  <2>2. Interval - toTick <= At(Past') + 0
    BY <1>3, <1>10, <2>1
  <2>3. ASSUME NEW c \in C, Live(c)'
        PROVE  row'[c].age < (IF InTodo(c)' THEN 3 * Interval ELSE 2 * Interval)
                             - toTick + At(Len(Conns)) - At(Pos(c))
    <3>1. CASE c = conn
      <4>1. ~InTodo(c)' /\ row'[c].age \in Int /\ row'[c].age < Interval
        BY <1>2, <1>8, <2>3, <3>1
      <4>2. row'[c].age < 2 * Interval - toTick + At(Len(Conns)) - At(Pos(c))
        BY <1>10, <2>1, <4>1
      <4> QED BY <4>1, <4>2
    <3>2. CASE c # conn
      <4>1. Live(c) /\ (InTodo(c)' <=> InTodo(c)) /\ row'[c] = row[c]
        BY <1>2, <1>7, <2>3, <3>2
      <4>2. pc # "list" /\ ~pending
        BY <1>1, <2>1 DEF Pass, Busy
      <4> QED BY <4>1, <4>2 DEF LoopInv
    <3> QED BY <3>1, <3>2
  <2> QED BY <1>1, <1>5, <2>1, <2>2, <2>3 DEF LoopInv
<1> QED BY <1>4, <1>6, <1>11, <1>12

LEMMA EntriesTyped ==
    ASSUME TodoInv'
    PROVE  \A i \in DOMAIN todo' : todo'[i].conn \in C /\ todo'[i].copy \in Row
<1>1. \A i \in DOMAIN todo' : todo'[i] \in Entry
  BY DEF TodoInv
<1> QED BY <1>1 DEF Entry

\* What is known of the entry under way.
LEMMA FirstEntry ==
    ASSUME TypeOK, TodoInv, todo # <<>>
    PROVE  /\ conn \in C /\ copy = row[conn] /\ row[conn] \in Row /\ row[conn] # None
           /\ row[conn].age \in Int
<1>1. todo \in Seq(Entry) /\ 1 \in DOMAIN todo
  BY DEF TodoInv
<1>2. todo[1] \in Entry
  BY <1>1
<1>3. conn \in C /\ copy = row[conn] /\ copy \in Row
  BY <1>1, <1>2 DEF TodoInv, Entry, conn, copy
<1>4. \A r \in Row : r.age \in Int
  BY Times DEF Row, Ages
<1> QED BY <1>3, <1>4, Constants

LEMMA SkipInv ==
    ASSUME VendorInv, Skip
    PROVE  VendorInv'
<1> USE DEF VendorInv
<1>1. /\ UNCHANGED <<row, amount, insts, phase, attach, pc, bill, elapsed, toTick, pending, site,
                     since, missed, stops>>
      /\ pc = "next" /\ todo # <<>> /\ todo' = Tail(todo) /\ ~Stale(copy.age)
  BY DEF Skip, tables, ticker, history
<1>2. row[conn].age < Interval /\ row[conn].age \in Int
  BY <1>1, FirstEntry, Constants DEF Stale
<1>3. Drops
  BY <1>1, <1>2 DEF Drops, PcInv, Pass, Busy
<1>4. TodoInv' /\ PcInv' /\ FirstInv' /\ LoopInv'
  BY <1>3, DropsInv
<1>5. TypeOK'
  BY <1>1, <1>4, EntriesTyped DEF TypeOK
<1>6. SinceInv' /\ DueInv'
  BY <1>1 DEF SinceInv, DueInv, Busy
<1> QED BY <1>4, <1>5, <1>6

LEMMA MarkSyncedInv ==
    ASSUME VendorInv, MarkSynced
    PROVE  VendorInv'
<1> USE DEF VendorInv
<1>1. /\ UNCHANGED <<amount, insts, phase, attach, toTick, pending, site, stops>>
      /\ pc = "mark" /\ pc' = "next" /\ todo' = Tail(todo) /\ elapsed' = 0
      /\ row' = [row EXCEPT ![conn].age = 0]
      /\ since' = [since EXCEPT ![conn] = 0]
      /\ missed' = [missed EXCEPT ![conn] = FALSE]
  BY DEF MarkSynced, ticker
<1>2. todo # <<>>
  BY <1>1 DEF PcInv, Busy
<1>3. conn \in C /\ row[conn] \in Row
  BY <1>2, FirstEntry
<1>4. row'[conn] = [row[conn] EXCEPT !.age = 0] /\ \A c \in C : c # conn => row'[c] = row[c]
  BY <1>1, <1>3 DEF TypeOK
<1>5. row'[conn] \in Row /\ row'[conn].age = 0
  BY <1>3, <1>4, Times DEF Row, Ages
<1>6. Drops
  BY <1>1, <1>2, <1>3, <1>4, <1>5, Times DEF Drops, Pass, Busy, TypeOK
<1>7. TodoInv' /\ PcInv' /\ FirstInv' /\ LoopInv'
  BY <1>6, DropsInv
<1>8. TypeOK'
  <2>1. row' \in [C -> Row \cup {None}]
    BY <1>1, <1>4, <1>5 DEF TypeOK
  <2>2. since' \in [C -> 0..Interval]
    <3>1. 0 \in 0..Interval
      BY Constants
    <3>2. since \in [C -> 0..Interval]
      BY DEF TypeOK
    <3>3. since' = [since EXCEPT ![conn] = 0]
      BY <1>1
    <3> QED BY <3>1, <3>2, <3>3, Zenon
  <2>3. missed' \in [C -> BOOLEAN]
    BY <1>1, Zenon DEF TypeOK
  <2>4. elapsed' \in 0..Timeout
    BY <1>1, Constants
  <2> QED BY <1>1, <1>7, <2>1, <2>2, <2>3, <2>4, EntriesTyped DEF TypeOK
<1>9. SinceInv'
  <2>1. since'[conn] = 0 /\ \A c \in C : c # conn => since'[c] = since[c]
    BY <1>1, <1>3 DEF TypeOK
  <2>2. ASSUME NEW c \in C
        PROVE  IF row'[c] = None THEN since'[c] = Interval
               ELSE row'[c].age <= since'[c] \/ since'[c] = Interval
    <3>1. CASE c = conn
      BY <1>5, <2>1, <3>1, Constants
    <3>2. CASE c # conn
      BY <1>4, <2>1, <3>2 DEF SinceInv
    <3> QED BY <3>1, <3>2
  <2>3. ~Busy'
    BY <1>1 DEF Busy
  <2> QED BY <2>2, <2>3 DEF SinceInv
<1>10. DueInv'
  BY <1>1 DEF DueInv
<1> QED BY <1>7, <1>8, <1>9, <1>10

LEMMA MarkSyncedFailsInv ==
    ASSUME VendorInv, MarkSyncedFails
    PROVE  VendorInv'
<1> USE DEF VendorInv
<1>1. /\ UNCHANGED <<row, amount, insts, phase, attach, toTick, pending, site, since, stops>>
      /\ pc = "mark" /\ pc' = "next" /\ todo' = Tail(todo) /\ elapsed' = 0
      /\ missed' = [missed EXCEPT ![conn] = TRUE]
  BY DEF MarkSyncedFails, tables, ticker
<1>2. todo # <<>>
  BY <1>1 DEF PcInv, Busy
<1>3. conn \in C
  BY <1>2, FirstEntry
<1>4. Drops
  BY <1>1, <1>2, <1>3 DEF Drops, Pass, Busy, TypeOK
<1>5. TodoInv' /\ PcInv' /\ FirstInv' /\ LoopInv'
  BY <1>4, DropsInv
<1>6. TypeOK'
  <2>1. missed' \in [C -> BOOLEAN]
    BY <1>1, Zenon DEF TypeOK
  <2>2. elapsed' \in 0..Timeout
    BY <1>1, Constants
  <2> QED BY <1>1, <1>5, <2>1, <2>2, EntriesTyped DEF TypeOK
<1>7. SinceInv' /\ DueInv'
  BY <1>1 DEF SinceInv, DueInv, Busy
<1> QED BY <1>5, <1>6, <1>7

-----------------------------------------------------------------------------
(* The start of the process and of a pass *)

LEMMA AttachTail ==
    ASSUME TypeOK, attach # <<>>
    PROVE  /\ attach[1] \in C
           /\ \E n \in 0..Len(Conns) : Tail(attach) = SubSeq(Conns, n + 1, Len(Conns))
<1>1. PICK n \in 0..Len(Conns) : attach = SubSeq(Conns, n + 1, Len(Conns))
  BY DEF TypeOK
<1>2. Conns \in Seq(C) /\ Len(Conns) \in Nat
  BY Constants
<1>3. n < Len(Conns)
  BY <1>1, <1>2
<1>4. attach[1] = Conns[n + 1]
  BY <1>1, <1>2, <1>3
<1>5. Tail(attach) = SubSeq(Conns, (n + 1) + 1, Len(Conns))
  BY <1>1, <1>2, <1>3
<1>6. n + 1 \in 0..Len(Conns) /\ n + 1 \in DOMAIN Conns
  BY <1>2, <1>3
<1>7. attach[1] \in C
  BY <1>4, <1>6, Places
<1> QED BY <1>5, <1>6, <1>7

LEMMA EmptyTodo ==
    ASSUME todo' = <<>>
    PROVE  TodoInv' /\ (\A c \in C : ~InTodo(c)') /\ Past' = Len(Conns)
<1>1. <<>> \in Seq(Entry) /\ DOMAIN <<>> = {}
  OBVIOUS
<1> QED BY <1>1 DEF TodoInv, InTodo, Past

LEMMA StartInv ==
    ASSUME VendorInv, Start
    PROVE  VendorInv'
<1> USE DEF VendorInv
<1>1. /\ UNCHANGED <<row, amount, insts, bill, elapsed, toTick, pending, site, since, missed, stops>>
      /\ phase = "down" /\ phase' = "boot" /\ attach' = Conns /\ todo' = <<>> /\ pc' = "next"
  BY DEF Start, tables, ticker, history
<1>2. TypeOK'
  <2>1. Conns = SubSeq(Conns, 0 + 1, Len(Conns)) /\ 0 \in 0..Len(Conns)
    BY Constants
  <2> QED BY <1>1, <2>1 DEF TypeOK
<1>3. TodoInv'
  BY <1>1, EmptyTodo
<1>4. PcInv' /\ SinceInv' /\ FirstInv' /\ LoopInv' /\ DueInv'
  BY <1>1 DEF PcInv, SinceInv, FirstInv, LoopInv, DueInv, Busy
<1> QED BY <1>2, <1>3, <1>4

LEMMA AttachInv ==
    ASSUME VendorInv, NEW slug \in Slugs, NEW cred \in {"good", "bad"}, NEW reread \in BOOLEAN,
           Attach(slug, cred, reread)
    PROVE  VendorInv'
<1> USE DEF VendorInv
<1> DEFINE c == attach[1]
           stored == [age |-> IF row[c] = None THEN Old ELSE row[c].age,
                      connector |-> slug, cred |-> cred]
<1>1. /\ UNCHANGED <<amount, insts, phase, pc, bill, elapsed, toTick, pending, site, since, missed,
                     stops>>
      /\ phase = "boot" /\ pc = "next" /\ todo = <<>> /\ attach # <<>>
      /\ row' = [row EXCEPT ![c] = stored]
      /\ todo' = IF reread THEN <<[conn |-> c, copy |-> stored]>> ELSE <<>>
      /\ attach' = Tail(attach)
  BY DEF Attach, ticker, history
<1>2. c \in C /\ \E n \in 0..Len(Conns) : attach' = SubSeq(Conns, n + 1, Len(Conns))
  BY <1>1, AttachTail
<1>3. stored \in Row /\ stored.age = IF row[c] = None THEN Old ELSE row[c].age
  <2> HIDE DEF c
  <2>1. row[c] \in Row \cup {None}
    BY <1>2 DEF TypeOK
  <2>2. (IF row[c] = None THEN Old ELSE row[c].age) \in Ages
    BY <2>1, Times DEF Row, Ages
  <2> QED BY <2>2 DEF Row
<1> HIDE DEF c, stored
<1>4. row'[c] = stored /\ \A d \in C : d # c => row'[d] = row[d]
  BY <1>1, <1>2 DEF TypeOK
<1>5. TodoInv'
  <2>1. CASE reread
    <3>1. [conn |-> c, copy |-> stored] \in Entry
      BY <1>2, <1>3 DEF Entry
    <3>2. todo' = <<[conn |-> c, copy |-> stored]>>
      BY <1>1, <2>1
    <3>3. todo' \in Seq(Entry) /\ DOMAIN todo' = {1}
      BY <3>1, <3>2
    <3>4. todo'[1].copy = row'[todo'[1].conn]
      BY <1>4, <3>2
    <3> QED BY <3>3, <3>4 DEF TodoInv
  <2>2. CASE ~reread
    BY <1>1, <2>2, EmptyTodo
  <2> QED BY <2>1, <2>2
<1>6. TypeOK'
  <2>1. row' \in [C -> Row \cup {None}]
    BY <1>1, <1>3 DEF TypeOK
  <2> QED BY <1>1, <1>2, <1>5, <2>1, EntriesTyped DEF TypeOK
<1>7. SinceInv'
  <2>1. ASSUME NEW d \in C
        PROVE  IF row'[d] = None THEN since'[d] = Interval
               ELSE row'[d].age <= since'[d] \/ since'[d] = Interval
    <3>1. CASE d # c
      BY <1>1, <1>4, <3>1 DEF SinceInv
    <3>2. CASE d = c
      <4>1. row'[d] # None
        BY <1>3, <1>4, <3>2, Constants
      <4> QED BY <1>1, <1>3, <1>4, <3>2, <4>1 DEF SinceInv
    <3> QED BY <3>1, <3>2
  <2> QED BY <1>1, <2>1 DEF SinceInv, Busy
<1>8. PcInv' /\ FirstInv' /\ LoopInv' /\ DueInv'
  BY <1>1 DEF PcInv, FirstInv, LoopInv, DueInv, Busy
<1> QED BY <1>5, <1>6, <1>7, <1>8

LEMMA AttachFailsInv ==
    ASSUME VendorInv, AttachFails
    PROVE  VendorInv'
<1> USE DEF VendorInv
<1>1. /\ UNCHANGED <<row, amount, insts, phase, todo, pc, bill, elapsed, toTick, pending, site, since,
                     missed, stops>>
      /\ phase = "boot" /\ attach # <<>> /\ attach' = Tail(attach)
  BY DEF AttachFails, tables, ticker, history
<1>2. TypeOK'
  BY <1>1, AttachTail DEF TypeOK
<1>3. TodoInv' /\ PcInv' /\ SinceInv' /\ FirstInv' /\ LoopInv' /\ DueInv'
  BY <1>1 DEF TodoInv, PcInv, SinceInv, FirstInv, LoopInv, DueInv, Busy, conn
<1> QED BY <1>2, <1>3

LEMMA BootsInv ==
    ASSUME VendorInv, Boots
    PROVE  VendorInv'
<1> USE DEF VendorInv
<1>1. /\ UNCHANGED <<row, amount, insts, attach, todo, bill, elapsed, toTick, pending, site, since,
                     missed, stops>>
      /\ pc = "next" /\ todo = <<>> /\ phase' = "first" /\ pc' = "list"
  BY DEF Boots, tables, ticker, history
<1>2. TypeOK'
  BY <1>1 DEF TypeOK
<1>3. TodoInv'
  BY <1>1 DEF TodoInv
<1>4. PcInv' /\ SinceInv' /\ FirstInv' /\ LoopInv' /\ DueInv'
  BY <1>1 DEF PcInv, SinceInv, FirstInv, LoopInv, DueInv, Busy, Pass
<1> QED BY <1>2, <1>3, <1>4

\* A pass lists every connection that is stored, in order.
LEMMA ListAllInv ==
    ASSUME VendorInv, ListAll
    PROVE  VendorInv'
<1> USE DEF VendorInv
<1>1. /\ UNCHANGED <<row, amount, insts, phase, attach, bill, elapsed, toTick, pending, site, since,
                     missed, stops>>
      /\ pc = "list" /\ pc' = "next"
  BY DEF ListAll, tables, ticker, history
<1>2. PICK n \in 0..Len(Conns) : \E f \in [1..n -> DOMAIN Conns] :
         /\ ById(f)
         /\ todo' = [i \in 1..n |-> [conn |-> Conns[f[i]], copy |-> row[Conns[f[i]]]]]
  BY DEF ListAll
<1>3. PICK f \in [1..n -> DOMAIN Conns] :
         /\ ById(f)
         /\ todo' = [i \in 1..n |-> [conn |-> Conns[f[i]], copy |-> row[Conns[f[i]]]]]
  BY <1>2
<1>4. ASSUME NEW i \in 1..n
      PROVE  /\ todo'[i] \in Entry
             /\ todo'[i].conn = Conns[f[i]] /\ todo'[i].copy = row[Conns[f[i]]]
             /\ Pos(todo'[i].conn) = f[i]
  <2>1. f[i] \in DOMAIN Conns
    BY <1>3
  <2>2. Conns[f[i]] \in C /\ Pos(Conns[f[i]]) = f[i]
    BY <2>1, Places
  <2>3. row[Conns[f[i]]] \in Row
    BY <1>3, <2>1, <2>2 DEF ById, TypeOK
  <2>4. todo'[i] = [conn |-> Conns[f[i]], copy |-> row[Conns[f[i]]]]
    BY <1>3
  <2> QED BY <2>2, <2>3, <2>4 DEF Entry
<1>5. n \in Nat /\ DOMAIN todo' = 1..n
  BY <1>3, Constants
<1>6. todo' \in Seq(Entry)
  BY <1>3, <1>4, <1>5
<1>7. TodoInv'
  <2>1. ASSUME NEW i \in DOMAIN todo' PROVE todo'[i].copy = row'[todo'[i].conn]
    BY <1>1, <1>4, <1>5
  <2>2. ASSUME NEW i \in DOMAIN todo', NEW j \in DOMAIN todo', i < j
        PROVE  Pos(todo'[i].conn) < Pos(todo'[j].conn)
    <3>1. f[i] < f[j]
      BY <1>3, <1>5, <2>2 DEF ById
    <3>2. Pos(todo'[i].conn) = f[i] /\ Pos(todo'[j].conn) = f[j]
      BY <1>4, <1>5
    <3> QED BY <3>1, <3>2
  <2> QED BY <1>6, <2>1, <2>2 DEF TodoInv
<1>8. ASSUME NEW c \in C, row[c] # None PROVE InTodo(c)'
  <2>1. Pos(c) \in DOMAIN Conns /\ Conns[Pos(c)] = c
    BY Places
  <2>2. PICK i \in 1..n : f[i] = Pos(c)
    BY <1>3, <1>8, <2>1 DEF ById
  <2> QED BY <1>4, <1>5, <2>1, <2>2 DEF InTodo
<1>9. TypeOK'
  BY <1>1, <1>7, EntriesTyped DEF TypeOK
<1>10. ~Busy' /\ Pass' /\ ~Busy
  BY <1>1 DEF Busy, Pass
<1>11. PcInv'
  BY <1>1, <1>10 DEF PcInv
<1>12. SinceInv' /\ DueInv'
  BY <1>1, <1>10 DEF SinceInv, DueInv
<1>13. FirstInv'
  BY <1>1, <1>8 DEF FirstInv, Live
<1>14. LoopInv'
  <2> SUFFICES ASSUME phase = "loop" PROVE LoopInv'
    BY <1>1 DEF LoopInv
  <2>1. toTick = Interval /\ toTick \in 1..Interval /\ ~pending
    BY <1>1 DEF LoopInv
  <2>2. At(Past') \in Nat /\ elapsed' = 0
    <3>1. Past' \in 0..Len(Conns)
      <4>1. CASE todo' = <<>>
        BY <4>1, Constants DEF Past
      <4>2. CASE todo' # <<>>
        <5>1. 1 \in DOMAIN todo' /\ 1 \in 1..n
          BY <1>5, <1>6, <4>2
        <5>2. todo'[1].conn \in C
          BY <1>4, <5>1 DEF Entry
        <5>3. Past' = Pos(todo'[1].conn) - 1
          BY <4>2 DEF Past, conn
        <5>4. Pos(todo'[1].conn) \in 1..Len(Conns) /\ Len(Conns) \in Nat
          BY <5>2, PosTimes
        <5> QED BY <5>3, <5>4
      <4> QED BY <4>1, <4>2
    <3> QED BY <1>1, <1>10, <3>1, Times DEF PcInv
  <2>3. Interval - toTick <= At(Past') + elapsed'
    BY <2>1, <2>2, Constants
  <2>4. ASSUME NEW c \in C, Live(c)'
        PROVE  InTodo(c)' /\ row[c].age < 3 * Interval - toTick + At(Len(Conns)) - At(Pos(c))
    <3>1. Live(c)
      BY <1>1, <2>4 DEF Live
    <3>2. InTodo(c)'
      BY <1>8, <3>1 DEF Live
    <3> QED BY <1>1, <3>1, <3>2 DEF LoopInv
  <2> QED BY <1>1, <2>1, <2>3, <2>4 DEF LoopInv
<1> QED BY <1>7, <1>9, <1>11, <1>12, <1>13, <1>14

LEMMA ListAllFailsInv ==
    ASSUME VendorInv, ListAllFails
    PROVE  VendorInv'
<1> USE DEF VendorInv
<1>1. /\ UNCHANGED <<row, amount, insts, phase, attach, todo, bill, elapsed, toTick, pending, site,
                     since, stops>>
      /\ pc = "list" /\ pc' = "next" /\ missed' = [c \in C |-> TRUE]
  BY DEF ListAllFails, tables, ticker
<1>2. \A c \in C : ~Live(c)'
  BY <1>1 DEF Live
<1>3. todo' = <<>> /\ elapsed = 0
  BY <1>1 DEF PcInv, Busy
<1>4. TypeOK'
  BY <1>1 DEF TypeOK
<1>5. TodoInv' /\ Past' = Len(Conns)
  BY <1>3, EmptyTodo
<1>6. PcInv' /\ SinceInv' /\ DueInv'
  BY <1>1, <1>3 DEF PcInv, SinceInv, DueInv, Busy
<1>7. FirstInv'
  BY <1>2 DEF FirstInv
<1>8. LoopInv'
  <2> SUFFICES ASSUME phase = "loop" PROVE LoopInv'
    BY <1>1 DEF LoopInv
  <2>1. toTick = Interval /\ toTick \in 1..Interval /\ ~pending
    BY <1>1 DEF LoopInv
  <2>2. Interval - toTick <= At(Past') + elapsed'
    BY <1>1, <1>3, <1>5, <2>1, PosTimes
  <2> QED BY <1>1, <1>2, <2>1, <2>2 DEF LoopInv
<1> QED BY <1>4, <1>5, <1>6, <1>7, <1>8

\* At the end of a pass every row was handled; what the first pass leaves is what
\* the loop starts from.
LEMMA RefreshDoneInv ==
    ASSUME VendorInv, RefreshDone
    PROVE  VendorInv'
<1> USE DEF VendorInv
<1>1. /\ UNCHANGED <<row, amount, insts, attach, todo, bill, elapsed, site, since, missed, stops>>
      /\ phase \in {"first", "loop"} /\ pc = "next" /\ todo = <<>>
      /\ phase' = "loop" /\ pc' = "idle"
      /\ IF phase = "first" THEN toTick' = Interval /\ pending' = FALSE
         ELSE UNCHANGED <<toTick, pending>>
  BY DEF RefreshDone, tables, ticker, history
<1>2. TypeOK'
  <2>1. toTick' \in 0..Interval
    BY <1>1, Constants DEF TypeOK
  <2>2. pending' \in BOOLEAN
    <3>1. pending' = FALSE \/ pending' = pending
      BY <1>1
    <3> QED BY <3>1, Zenon DEF TypeOK
  <2> QED BY <1>1, <2>1, <2>2 DEF TypeOK
<1>3. TodoInv' /\ \A c \in C : ~InTodo(c)' /\ ~InTodo(c)
  <2>1. \A c \in C : ~InTodo(c)
    BY <1>1 DEF InTodo
  <2> QED BY <1>1, <2>1, EmptyTodo
<1>4. PcInv' /\ SinceInv' /\ DueInv' /\ FirstInv'
  BY <1>1 DEF PcInv, SinceInv, DueInv, FirstInv, Busy
<1>5. \A c \in C : Live(c)' <=> Live(c)
  BY <1>1 DEF Live
<1>6. Past = Len(Conns) /\ elapsed = 0 /\ Pass /\ ~Pass'
  BY <1>1 DEF Past, PcInv, Pass, Busy
<1>7. LoopInv'
  <2>1. CASE phase = "first"
    <3>1. toTick' = Interval /\ ~pending' /\ toTick' \in 1..Interval
      BY <1>1, <2>1, Times
    <3>2. ASSUME NEW c \in C, Live(c)
          PROVE  row[c].age < 2 * Interval - Interval + At(Len(Conns)) - At(Pos(c))
      <4>1. row[c].age < Interval + At(Len(Conns)) - At(Pos(c)) + 0
        BY <1>3, <1>6, <2>1, <3>2 DEF FirstInv
      <4> QED BY <4>1, PosTimes
    <3> QED BY <1>1, <1>3, <1>5, <1>6, <3>1, <3>2 DEF LoopInv
  <2>2. CASE phase = "loop"
    <3>1. UNCHANGED <<toTick, pending>> /\ ~pending /\ toTick \in 1..Interval
      BY <1>1, <2>2 DEF LoopInv
    <3>2. \A c \in C : Live(c) => row[c].age < 2 * Interval - toTick + At(Len(Conns)) - At(Pos(c))
      BY <1>1, <1>3, <2>2, <3>1 DEF LoopInv
    <3> QED BY <1>1, <1>3, <1>5, <1>6, <3>1, <3>2 DEF LoopInv
  <2> QED BY <1>1, <2>1, <2>2
<1> QED BY <1>2, <1>3, <1>4, <1>7

LEMMA ReceiveInv ==
    ASSUME VendorInv, Receive
    PROVE  VendorInv'
<1> USE DEF VendorInv
<1>1. /\ UNCHANGED <<row, amount, insts, phase, attach, todo, bill, elapsed, toTick, site, since,
                     missed, stops>>
      /\ phase = "loop" /\ pc = "idle" /\ pending /\ pending' = FALSE /\ pc' = "list"
  BY DEF Receive, tables, history
<1>2. TypeOK'
  BY <1>1 DEF TypeOK
<1>3. TodoInv'
  BY <1>1 DEF TodoInv
<1>4. PcInv' /\ SinceInv' /\ DueInv' /\ FirstInv'
  BY <1>1 DEF PcInv, SinceInv, DueInv, FirstInv, Busy
<1>5. \A c \in C : Live(c)' <=> Live(c)
  BY <1>1 DEF Live
<1>6. LoopInv'
  <2>1. toTick = Interval /\ toTick \in 1..Interval /\ ~Pass'
    BY <1>1 DEF LoopInv, Pass, Busy
  <2>2. \A c \in C : Live(c) => row[c].age < 3 * Interval - toTick + At(Len(Conns)) - At(Pos(c))
    BY <1>1 DEF LoopInv
  <2> QED BY <1>1, <1>5, <2>1, <2>2 DEF LoopInv
<1> QED BY <1>2, <1>3, <1>4, <1>6

LEMMA SiteChangesInv ==
    ASSUME VendorInv, NEW c \in C, SiteChanges(c)
    PROVE  VendorInv'
<1> USE DEF VendorInv
<1>1. UNCHANGED <<row, amount, insts, phase, attach, todo, pc, bill, elapsed, toTick, pending, since,
                  missed, stops>>
  BY DEF SiteChanges, tables, ticker, history
<1>2. site' \in [C -> DOMAIN Site]
  BY DEF SiteChanges, TypeOK
<1>3. TypeOK'
  BY <1>1, <1>2 DEF TypeOK
<1>4. conn' = conn /\ Past' = Past /\ (Busy' <=> Busy) /\ (Pass' <=> Pass)
  BY <1>1 DEF conn, Past, Busy, Pass
<1>5. \A d \in C : (InTodo(d)' <=> InTodo(d)) /\ (Live(d)' <=> Live(d))
  BY <1>1 DEF InTodo, Live
<1>6. TodoInv' /\ PcInv' /\ SinceInv' /\ DueInv'
  BY <1>1, <1>4 DEF TodoInv, PcInv, SinceInv, DueInv
<1>7. FirstInv' /\ LoopInv'
  BY <1>1, <1>4, <1>5 DEF FirstInv, LoopInv
<1> QED BY <1>3, <1>6, <1>7

LEMMA StopInv ==
    ASSUME VendorInv, Stop
    PROVE  VendorInv'
<1> USE DEF VendorInv
<1>1. /\ UNCHANGED <<row, amount, insts, site, since, missed>>
      /\ phase' = "down" /\ attach' = <<>> /\ todo' = <<>> /\ pc' = "idle" /\ elapsed' = 0
      /\ toTick' = 0 /\ pending' = FALSE /\ stops < MaxStops /\ stops' = stops + 1
  BY DEF Stop, tables
<1>2. TypeOK'
  <2>1. <<>> = SubSeq(Conns, Len(Conns) + 1, Len(Conns)) /\ Len(Conns) \in 0..Len(Conns)
    BY Constants
  <2>2. elapsed' \in 0..Timeout /\ toTick' \in 0..Interval /\ stops' \in 0..MaxStops
    BY <1>1, Constants DEF TypeOK
  <2>3. \E n \in 0..Len(Conns) : attach' = SubSeq(Conns, n + 1, Len(Conns))
    BY <1>1, <2>1
  <2>4. \A i \in DOMAIN todo' : todo'[i].conn \in C /\ todo'[i].copy \in Row
    BY <1>1
  <2>5. pending' \in BOOLEAN
    BY <1>1
  <2> QED BY <1>1, <2>2, <2>3, <2>4, <2>5 DEF TypeOK
<1>3. TodoInv'
  BY <1>1, EmptyTodo
<1>4. PcInv' /\ SinceInv' /\ DueInv' /\ FirstInv' /\ LoopInv'
  BY <1>1 DEF PcInv, SinceInv, DueInv, FirstInv, LoopInv, Busy
<1> QED BY <1>2, <1>3, <1>4

-----------------------------------------------------------------------------
(* The theorems *)

LEMMA InitVendor == Init => VendorInv
<1> SUFFICES ASSUME Init PROVE VendorInv
  OBVIOUS
<1>1. TypeOK
  <2>1. <<>> = SubSeq(Conns, Len(Conns) + 1, Len(Conns)) /\ Len(Conns) \in 0..Len(Conns)
    BY Constants
  <2>2. 0 \in 0..Timeout /\ 0 \in 0..Interval /\ 0 \in 0..MaxStops /\ Interval \in 0..Interval
        /\ 0 \in (-IntMax - 1)..IntMax
    BY Constants, MoneyAssumption DEF MoneyAssumption
  <2>3. \E n \in 0..Len(Conns) : attach = SubSeq(Conns, n + 1, Len(Conns))
    BY <2>1 DEF Init
  <2>4. \A i \in DOMAIN todo : todo[i].conn \in C /\ todo[i].copy \in Row
    BY DEF Init
  <2>5. /\ row \in [C -> Row \cup {None}] /\ amount \in [C -> (-IntMax - 1)..IntMax]
        /\ insts \in [C -> SUBSET Nat] /\ since \in [C -> 0..Interval]
    BY <2>2 DEF Init
  <2>6. missed \in [C -> BOOLEAN] /\ pending \in BOOLEAN
    BY DEF Init
  <2> QED BY <2>2, <2>3, <2>4, <2>5, <2>6 DEF Init, TypeOK
<1>2. TodoInv
  <2>1. <<>> \in Seq(Entry) /\ DOMAIN <<>> = {}
    OBVIOUS
  <2> QED BY <2>1 DEF Init, TodoInv
<1>3. PcInv /\ SinceInv /\ DueInv /\ FirstInv /\ LoopInv
  BY DEF Init, PcInv, SinceInv, DueInv, FirstInv, LoopInv, Busy
<1> QED BY <1>1, <1>2, <1>3 DEF VendorInv

LEMMA StutterVendor == ASSUME VendorInv, UNCHANGED vars PROVE VendorInv'
BY DEF VendorInv, TypeOK, TodoInv, PcInv, SinceInv, DueInv, FirstInv, LoopInv, Busy, Pass, Past,
   InTodo, Live, conn, vars

LEMMA NextVendor == VendorInv /\ [Next]_vars => VendorInv'
<1> SUFFICES ASSUME VendorInv, [Next]_vars PROVE VendorInv'
  OBVIOUS
<1>1. CASE Steps
  BY <1>1, StartInv, AttachInv, AttachFailsInv, BootsInv, ListAllInv, ListAllFailsInv,
     RefreshDoneInv, ReceiveInv, SkipInv, FetchInv, WorkingInv, MarkSyncedInv, MarkSyncedFailsInv
     DEF Steps
<1>2. CASE UNCHANGED vars
  BY <1>2, StutterVendor
<1> QED BY <1>1, <1>2, ClockInv, WorkingInv, SiteChangesInv, StopInv DEF Next, Answers

\* Every reachable state has the types of the tables, the ticker and the pass; an
\* amount an INTEGER column cannot hold is never stored.
THEOREM TypeCorrect == Spec => []TypeOK
<1>1. VendorInv => TypeOK
  BY DEF VendorInv
<1> QED BY <1>1, InitVendor, NextVendor, PTL DEF Spec

\* A portal is logged in to only when Interval has passed since the last refresh of
\* its connection that was marked as synced, whether that refresh went well or not,
\* for any number of connections and across restarts (scheduler.go
\* RefreshVendorConnectionIfStale).  It is no bound on the logins alone: a stop
\* between a login and its mark, or a mark that fails, leaves the connection stale,
\* and the next start or tick logs in again.
THEOREM LoginsCorrect == Spec => LoginsSpaced
<1> DEFINE Spaced == pc = "post" /\ pc' \in {"amount", "mark"} => since[conn] >= Interval
<1>1. VendorInv /\ [Next]_vars => [Spaced]_vars
  BY Constants DEF VendorInv, SinceInv, Busy
<1> QED BY <1>1, InitVendor, NextVendor, PTL DEF Spec, LoginsSpaced

\* The age of a row that is still to be handled, from the bounds of the pass.
LEMMA WaitingAge ==
    ASSUME NEW a \in Int, NEW I \in Nat, NEW t \in 1..I, NEW e \in Nat, NEW T \in Nat,
           NEW past \in Nat, NEW first \in Nat, NEW place \in Nat, NEW end \in Nat,
           e <= T, past + T <= first, first <= place,
           I - t <= past + e,
           a < 3 * I - t + end - place
    PROVE  a < 2 * I + end
<1>1. I - t <= place
  OBVIOUS
<1> QED BY <1>1

\* The cached path never skips two ticks in a row: the age of a row stays below
\* two intervals and the time of the fetches, for any number of connections,
\* provided the fetches of all of them fit into one interval (scheduler.go
\* runVendorRefresh).
THEOREM RefetchedCorrect == Spec => []RefetchedWithinTwo
<1>1. VendorInv => RefetchedWithinTwo
  <2> SUFFICES ASSUME VendorInv, phase = "loop", NEW c \in C, Live(c)
               PROVE  row[c].age < 2 * Interval + At(Len(Conns))
    BY DEF RefetchedWithinTwo, Live, At
  <2> USE DEF VendorInv
  <2>1. /\ toTick \in 1..Interval /\ Interval \in Nat /\ elapsed \in 0..Timeout /\ Timeout \in Nat
        /\ At(Len(Conns)) \in Nat /\ At(Pos(c)) \in Nat /\ At(Pos(c)) <= At(Len(Conns))
        /\ At(Past) \in Nat
    BY PastFacts, PosTimes DEF TypeOK, LoopInv
  <2>2. row[c].age \in Int
    <3>1. \A r \in Row : r.age \in Int
      BY Times DEF Row, Ages
    <3> QED BY <3>1 DEF Live, TypeOK
  <2>3. CASE ~(pending \/ pc = "list" \/ InTodo(c))
    <3>1. row[c].age < 2 * Interval - toTick + At(Len(Conns)) - At(Pos(c))
      BY <2>3 DEF LoopInv
    <3> QED BY <2>1, <2>2, <3>1
  <2>4. CASE pending \/ pc = "list"
    <3>1. row[c].age < 3 * Interval - toTick + At(Len(Conns)) - At(Pos(c)) /\ toTick = Interval
      BY <2>4 DEF LoopInv
    <3>2. Pos(c) \in 1..Len(Conns)
      BY PosTimes
    <3> QED BY <2>1, <2>2, <3>1
  <2>5. CASE InTodo(c)
    <3>1. row[c].age < 3 * Interval - toTick + At(Len(Conns)) - At(Pos(c))
      BY <2>5 DEF LoopInv
    <3>2. todo # <<>> /\ conn \in C /\ Pos(conn) <= Pos(c) /\ At(Past) + Timeout <= At(Pos(conn))
      BY <2>5, PastFacts
    <3>3. At(Pos(conn)) <= At(Pos(c)) /\ At(Pos(conn)) \in Nat
      BY <3>2, PosTimes, Times
    <3>4. Pass
      BY <3>2 DEF PcInv, TypeOK, Pass, Busy
    <3>5. Interval - toTick <= At(Past) + elapsed
      BY <3>4 DEF LoopInv
    <3>6. elapsed \in Nat /\ elapsed <= Timeout
      BY <2>1
    <3> HIDE DEF VendorInv
    <3> QED BY <2>1, <2>2, <3>1, <3>2, <3>3, <3>5, <3>6, WaitingAge
  <2> QED BY <2>3, <2>4, <2>5
<1> QED BY <1>1, InitVendor, NextVendor, PTL DEF Spec

-----------------------------------------------------------------------------
(* What is written to a bill *)

\* Only a registered connector fetches; what it fetched and is being stored is
\* what the portal showed, and only what is owed gets as far as an instance.
ShownInv ==
    /\ pc \in {"login", "post"} => copy.connector \in Registry
    /\ pc \in {"amount", "instance"} => bill = truth /\ truth \in [cents : Int, due : Nat]
                                                    /\ truth # NoBill
    /\ pc = "instance" => truth.cents > 0

LEMMA BusyConn == ASSUME VendorInv, Busy PROVE todo # <<>> /\ todo \in Seq(Entry) /\ conn \in C
<1>1. todo # <<>> /\ todo \in Seq(Entry)
  BY DEF VendorInv, PcInv, TodoInv
<1>2. todo[1] \in Entry
  BY <1>1
<1> QED BY <1>1, <1>2 DEF conn, Entry

\* What Post hands on, when the connectors read the pages right.
LEMMA PostShown ==
    ASSUME ReadsRight, VendorInv, ShownInv, Post
    PROVE  pc' = "mark" \/ (pc' = "amount" /\ bill' = truth' /\ truth' # NoBill
                            /\ truth' \in [cents : Int, due : Nat])
<1> DEFINE s    == Site[site[conn]][copy.connector]
           page == IF copy.cred = "good" THEN s.accepted ELSE s.refused
<1>1. conn \in C /\ copy.connector \in Registry /\ site[conn] \in DOMAIN Site
  BY BusyConn DEF Post, ShownInv, Busy, VendorInv, TypeOK
<1>2. /\ FetchedBill(copy.connector, s.accepted) \in {s.truth, NoBill}
      /\ FetchedBill(copy.connector, s.refused) = NoBill
  BY <1>1 DEF ReadsRight
<1>3. s.truth \in [cents : Int, due : Nat] \cup {NoBill}
  BY <1>1, VendorAssumption DEF VendorAssumption
<1>4. /\ bill' = FetchedBill(copy.connector, page)
      /\ pc' = IF bill' = NoBill THEN "mark" ELSE "amount"
      /\ truth' = IF copy.cred = "good" THEN s.truth ELSE NoBill
  BY DEF Post
<1> HIDE DEF s
<1> QED BY <1>2, <1>3, <1>4

LEMMA NextShown ==
    ASSUME ReadsRight, VendorInv, ShownInv, [Next]_vars
    PROVE  ShownInv'
<1>1. CASE ClockTick
  <2>1. UNCHANGED <<pc, bill, truth>>
    BY <1>1 DEF ClockTick
  <2>2. ASSUME pc \in {"login", "post"} PROVE copy'.connector = copy.connector
    <3>1. todo # <<>> /\ todo \in Seq(Entry)
      BY <2>2, BusyConn DEF Busy
    <3>2. 1 \in DOMAIN todo /\ todo[1] \in Entry
      BY <3>1
    <3>3. todo'[1] = [todo[1] EXCEPT !.copy.age = Older(@)]
      BY <1>1, <3>2 DEF ClockTick
    <3> QED BY <3>2, <3>3 DEF copy, Entry, Row
  <2> QED BY <2>1, <2>2 DEF ShownInv
<1>2. CASE pc' \in {"list", "next", "mark", "idle"}
  BY <1>2 DEF ShownInv
<1>3. CASE \E usable \in BOOLEAN : Fetch(usable)
  BY <1>3 DEF Fetch, ShownInv, copy
<1>4. CASE FetchLoginTokens
  BY <1>4 DEF FetchLoginTokens, ShownInv, copy, history
<1>5. CASE Post
  BY <1>5, PostShown DEF ShownInv
<1>6. CASE UpdateAmount \/ UpdateAmountFails
  <2>1. UNCHANGED <<bill, truth>> /\ pc = "amount" /\ pc' = AfterAmount
    BY <1>6 DEF UpdateAmount, UpdateAmountFails, history
  <2>2. truth.cents \in Int /\ bill = truth
    BY <2>1 DEF ShownInv
  <2>3. pc' = "mark" \/ (pc' = "instance" /\ truth.cents > 0)
    BY <2>1, <2>2 DEF AfterAmount
  <2> QED BY <2>1, <2>3 DEF ShownInv
<1>7. CASE UNCHANGED vars
  BY <1>7 DEF vars, ShownInv, copy
<1>8. CASE \E c \in C : SiteChanges(c)
  BY <1>8 DEF SiteChanges, ShownInv, copy, history
<1>9. CASE \E slug \in Slugs, cred \in {"good", "bad"}, reread \in BOOLEAN : Attach(slug, cred, reread)
  BY <1>9 DEF Attach, ShownInv
<1>10. CASE Start \/ AttachFails \/ Boots \/ ListAll \/ ListAllFails \/ RefreshDone \/ Receive
  BY <1>2, <1>10 DEF Start, AttachFails, Boots, ListAll, ListAllFails, RefreshDone, Receive
<1>11. CASE Skip \/ FetchFails \/ EnsureInstance \/ EnsureInstanceFails
  BY <1>2, <1>11 DEF Skip, FetchFails, EnsureInstance, EnsureInstanceFails
<1>12. CASE MarkSynced \/ MarkSyncedFails \/ Stop
  BY <1>2, <1>12 DEF MarkSynced, MarkSyncedFails, Stop
<1> QED BY <1>1, <1>3, <1>4, <1>5, <1>6, <1>7, <1>8, <1>9, <1>10, <1>11, <1>12
        DEF Next, Steps, Answers

\* No step but the two writes of a refresh touches a bill's amount or instances.
LEMMA Writers ==
    ASSUME [Next]_vars
    PROVE  UNCHANGED <<amount, insts>> \/ UpdateAmount \/ EnsureInstance
<1>1. CASE Steps
  BY <1>1 DEF Steps, Start, Attach, AttachFails, Boots, ListAll, ListAllFails, RefreshDone, Receive,
     Skip, Fetch, FetchFails, UpdateAmountFails, EnsureInstanceFails, MarkSynced, MarkSyncedFails,
     tables
<1>2. CASE ~Steps
  BY <1>2 DEF Next, Answers, ClockTick, FetchLoginTokens, Post, SiteChanges, Stop, tables, vars
<1> QED BY <1>1, <1>2

\* As long as the connectors read the portals' pages right, what a refresh writes
\* to a bill is what the portal showed after an accepted login, for every
\* interleaving of refreshes, changes of the portals, failures and restarts
\* (scheduler.go RefreshVendorConnectionNow).
THEOREM StoredCorrect ==
    ASSUME ReadsRight
    PROVE  Spec => StoredIsShown
<1> DEFINE Written(c) ==
      /\ amount'[c] # amount[c] => conn = c /\ truth # NoBill /\ amount'[c] = truth.cents
      /\ insts'[c] # insts[c] =>
            /\ conn = c /\ truth # NoBill /\ truth.cents > 0
            /\ insts'[c] = insts[c] \cup {truth.due}
<1>1. Init => ShownInv
  BY DEF Init, ShownInv
<1>2. VendorInv /\ ShownInv /\ [Next]_vars => ShownInv'
  BY NextShown
<1>3. VendorInv /\ ShownInv /\ [Next]_vars => [\A c \in C : Written(c)]_vars
  <2> SUFFICES ASSUME VendorInv, ShownInv, [Next]_vars, NEW c \in C PROVE Written(c)
    OBVIOUS
  <2>1. CASE UNCHANGED <<amount, insts>>
    BY <2>1
  <2>2. CASE UpdateAmount
    <3>1. pc = "amount" /\ amount' = [amount EXCEPT ![conn] = bill.cents] /\ insts' = insts
      BY <2>2 DEF UpdateAmount
    <3>2. bill = truth /\ truth # NoBill
      BY <3>1 DEF ShownInv
    <3>3. amount \in [C -> (-IntMax - 1)..IntMax]
      BY DEF VendorInv, TypeOK
    <3>4. amount'[c] # amount[c] => conn = c /\ amount'[c] = bill.cents
      BY <3>1, <3>3, Zenon
    <3> QED BY <3>1, <3>2, <3>4
  <2>3. CASE EnsureInstance
    <3>1. pc = "instance" /\ insts' = [insts EXCEPT ![conn] = @ \cup {bill.due}] /\ amount' = amount
      BY <2>3 DEF EnsureInstance
    <3>2. bill = truth /\ truth # NoBill /\ truth.cents > 0
      BY <3>1 DEF ShownInv
    <3>3. insts \in [C -> SUBSET Nat]
      BY DEF VendorInv, TypeOK
    <3>4. insts'[c] # insts[c] => conn = c /\ insts'[c] = insts[c] \cup {bill.due}
      BY <3>1, <3>3, Zenon
    <3> QED BY <3>1, <3>2, <3>4
  <2> QED BY <2>1, <2>2, <2>3, Writers
<1> QED BY <1>1, <1>2, <1>3, InitVendor, NextVendor, PTL DEF Spec, StoredIsShown

=============================================================================
