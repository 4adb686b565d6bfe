---------------------------- MODULE ScreensProofs ----------------------------
(***************************************************************************)
(* Proofs about Screens, for every calendar, zone, form and lookahead:     *)
(* what the table accepts, what NextDueDates generates, that the days the  *)
(* view, the events and the settings page work with agree although each of *)
(* them cuts days off in its own way, and that an amount is what its text  *)
(* states, on its way in and out of an edit form.                          *)
(***************************************************************************)
EXTENDS Screens, MoneyProofs

-----------------------------------------------------------------------------
(* The calendar *)

LEMMA Calendar ==
    /\ Null \notin Int
    /\ \A m \in DOMAIN First : m \in Nat /\ First[m] \in Nat /\ 0..m \subseteq DOMAIN First
    /\ \A m, n \in DOMAIN First : m <= n => First[m] <= First[n]
<1>1. ASSUME NEW m \in DOMAIN First, NEW n \in DOMAIN First, m <= n PROVE First[m] <= First[n]
  <2>1. m \in Nat /\ n \in Nat /\ First[m] \in Nat /\ First[n] \in Nat
    BY DueDatesAssumption DEF DueDatesAssumption
  <2>2. m < n => First[m] < First[n]
    BY DueDatesAssumption DEF DueDatesAssumption
  <2> QED BY <1>1, <2>1, <2>2
<1> QED BY <1>1, DueDatesAssumption DEF DueDatesAssumption

\* A day is in one month only.
LEMMA MonthUnique ==
    ASSUME NEW d \in Int, NEW m \in DOMAIN First, InMonth(d, m)
    PROVE  MonthOf(d) = m
<1> DEFINE k == MonthOf(d)
<1>1. k \in DOMAIN First /\ InMonth(d, k)
  BY DEF MonthOf
<1> HIDE DEF k
<1>2. k \in Nat /\ m \in Nat /\ k + 1 \in DOMAIN First /\ m + 1 \in DOMAIN First
  BY <1>1, Calendar DEF InMonth
<1>3. First[k] \in Nat /\ First[m] \in Nat /\ First[k + 1] \in Nat /\ First[m + 1] \in Nat
  BY <1>1, <1>2, Calendar
<1>4. ~(k < m)
  <2>1. k < m => First[k + 1] <= First[m]
    BY <1>2, Calendar
  <2> QED BY <1>1, <1>3, <2>1 DEF InMonth
<1>5. ~(m < k)
  <2>1. m < k => First[m + 1] <= First[k]
    BY <1>1, <1>2, Calendar
  <2> QED BY <1>1, <1>3, <2>1 DEF InMonth
<1>6. k = m
  BY <1>2, <1>4, <1>5
<1> QED BY <1>6 DEF k

\* A month that begins no later than a day the calendar reaches has a next one.
LEMMA NextMonth ==
    ASSUME NEW m \in DOMAIN First, NEW d \in Int, NEW n \in DOMAIN First, InMonth(d, n),
           First[m] <= d
    PROVE  m + 1 \in DOMAIN First
<1>1. m \in Nat /\ n \in Nat /\ n + 1 \in DOMAIN First /\ 0..(n + 1) \subseteq DOMAIN First
  BY Calendar DEF InMonth
<1>2. First[m] \in Nat /\ First[n + 1] \in Nat
  BY <1>1, Calendar
<1>3. ~(n + 1 <= m)
  <2>1. n + 1 <= m => First[n + 1] <= First[m]
    BY <1>1, Calendar
  <2> QED BY <1>2, <2>1 DEF InMonth
<1>4. m + 1 \in 0..(n + 1)
  BY <1>1, <1>3
<1> QED BY <1>1, <1>4

-----------------------------------------------------------------------------
(* What a schedule means in one month *)

\* The test of monthDue, Go's remainder of a difference that may be negative,
\* holds for the months whole quarters away from the start month.
LEMMA QuarterRule ==
    ASSUME NEW m \in Nat, NEW s \in 1..3
    PROVE  Rem(Rem(MonthNumber(m) - s, 3) + 3, 3) = 0
             <=> \E q \in 0..3 : MonthNumber(m) = s + 3 * q
<1> DEFINE n == MonthNumber(m)
<1>1. n \in 1..12
  BY DEF MonthNumber
<1> HIDE DEF n
<1>2. Rem(Rem(n - s, 3) + 3, 3) = 0 <=> (n - s) % 3 = 0
  <2>1. CASE n - s >= 0
    BY <1>1, <2>1 DEF Rem
  <2>2. CASE n - s < 0
    <3>1. (n = 1 /\ s = 2) \/ (n = 1 /\ s = 3) \/ (n = 2 /\ s = 3)
      BY <1>1, <2>2
    <3> QED BY <3>1 DEF Rem
  <2> QED BY <1>1, <2>1, <2>2
<1>3. (n - s) % 3 = 0 <=> \E q \in 0..3 : n = s + 3 * q
  <2>1. ASSUME NEW q \in 0..3, n = s + 3 * q PROVE (n - s) % 3 = 0
    BY <1>1, <2>1
  <2>2. ASSUME (n - s) % 3 = 0 PROVE \E q \in 0..3 : n = s + 3 * q
    <3>1. (n - s) \div 3 \in Int /\ n - s = 3 * ((n - s) \div 3)
      BY <1>1, <2>2
    <3>2. n = s + 3 * ((n - s) \div 3) /\ (n - s) \div 3 \in 0..3
      BY <1>1, <3>1
    <3> QED BY <3>2
  <2> QED BY <2>1, <2>2
<1> QED BY <1>2, <1>3 DEF n

\* In a month the loop is at, the bill falls on the one day that a turn computes,
\* and on it only if monthDue says so.
LEMMA DueInMonth ==
    ASSUME NEW d \in Int, NEW m \in DOMAIN First, InMonth(d, m), def \in Definition, ~NoLoop
    PROVE  DueOn(d) <=> MonthDue(m) /\ d = Occurrence(m)
<1>1. MonthOf(d) = m
  BY MonthUnique
<1>2. def.type \in {"monthly", "quarterly"} /\ def.day \in 1..31 /\ def.day # Null
      /\ (def.type = "quarterly" => def.start \in 1..3 /\ def.start # Null)
  BY DEF Definition, NoLoop
<1>3. DueOn(d) <=> /\ d - First[m] + 1 = def.day
                      \/ (d - First[m] + 1 < def.day /\ d + 1 = First[m + 1])
                   /\ def.type = "quarterly" => \E q \in 0..3 : MonthNumber(m) = def.start + 3 * q
  BY <1>1, <1>2 DEF DueOn
<1>4. First[m] \in Nat /\ First[m + 1] \in Nat /\ First[m] <= d /\ d < First[m + 1] /\ m \in Nat
  BY Calendar DEF InMonth
<1>5. (d - First[m] + 1 = def.day \/ (d - First[m] + 1 < def.day /\ d + 1 = First[m + 1]))
        <=> d = Occurrence(m)
  <2>1. CASE def.day > First[m + 1] - First[m]
    <3>1. Occurrence(m) = First[m] + (First[m + 1] - First[m]) - 1
      BY <2>1 DEF Occurrence, LastDay
    <3> QED BY <1>2, <1>4, <2>1, <3>1
  <2>2. CASE ~(def.day > First[m + 1] - First[m])
    <3>1. Occurrence(m) = First[m] + def.day - 1
      BY <2>2 DEF Occurrence, LastDay
    <3> QED BY <1>2, <1>4, <2>2, <3>1
  <2> QED BY <2>1, <2>2
<1>6. MonthDue(m) <=> (def.type = "quarterly" =>
                          \E q \in 0..3 : MonthNumber(m) = def.start + 3 * q)
  BY <1>2, <1>4, QuarterRule DEF MonthDue
<1> QED BY <1>3, <1>5, <1>6

\* The day a turn computes lies in the month it is at.
LEMMA OccurrenceInMonth ==
    ASSUME NEW m \in DOMAIN First, m + 1 \in DOMAIN First, def \in Definition, ~NoLoop
    PROVE  Occurrence(m) \in Nat /\ InMonth(Occurrence(m), m)
<1>1. def.day \in 1..31
  BY DEF Definition, NoLoop
<1>2. First[m] \in Nat /\ First[m + 1] \in Nat /\ First[m] < First[m + 1]
  <2>1. m \in Nat /\ m < m + 1
    BY Calendar
  <2> QED BY <2>1, DueDatesAssumption DEF DueDatesAssumption
<1> QED BY <1>1, <1>2 DEF Occurrence, LastDay, InMonth

-----------------------------------------------------------------------------
(* The loop of NextDueDates *)

Increasing(s) == \A i, j \in DOMAIN s : i < j => s[i] < s[j]

\* The loop has found the days of the window the bill falls on before the month
\* it is at.
Found ==
    /\ \A i \in DOMAIN out : out[i] \in from..to /\ DueOn(out[i]) /\ out[i] < First[cursor]
    /\ \A d \in from..to : DueOn(d) /\ d < First[cursor] => \E i \in DOMAIN out : out[i] = d
    /\ Increasing(out)

Window ==
    /\ def \in Definition /\ from \in Nat /\ to \in Nat
    /\ \E m \in DOMAIN First : InMonth(to, m)

CallInv ==
    /\ cursor \in DOMAIN First /\ out \in Seq(Nat) /\ pc \in {"idle", "loop", "done"}
    /\ pc # "idle" => Window
    /\ pc = "loop" => Found
    /\ OccurrencesExact

LEMMA CallKeeps ==
    ASSUME NEW d \in Definition, NEW start \in Nat, NEW days \in Nat, Call(d, start, days),
           \E m \in DOMAIN First : InMonth(start, m), \E m \in DOMAIN First : InMonth(start + days, m)
    PROVE  CallInv'
<1>1. /\ def' = d /\ from' = start /\ to' = start + days /\ cursor' = MonthOf(start)
      /\ out' = <<>> /\ pc' = "loop"
  BY DEF Call
<1>2. cursor' \in DOMAIN First /\ First[cursor'] <= start
  BY <1>1 DEF MonthOf, InMonth
<1>3. Window'
  BY <1>1 DEF Window
<1>4. Found'
  <2>1. \A e \in from'..to' : ~(e < First[cursor'])
    <3>1. First[cursor'] \in Nat
      BY <1>2, Calendar
    <3> QED BY <1>1, <1>2, <3>1
  <2> QED BY <1>1, <2>1 DEF Found, Increasing
<1>5. out' \in Seq(Nat)
  BY <1>1
<1> QED BY <1>1, <1>2, <1>3, <1>4, <1>5 DEF CallInv, OccurrencesExact

LEMMA ReturnKeeps == ASSUME CallInv, Return PROVE CallInv'
<1>1. UNCHANGED <<def, from, to, cursor>> /\ pc = "loop" /\ pc' = "done" /\ NoLoop /\ out' = WithoutLoop
  BY DEF Return
<1>2. Window /\ def \in Definition /\ from \in Nat /\ to \in Nat
  BY <1>1 DEF CallInv, Window
<1>3. Null \notin Int
  BY Calendar
<1>4. CASE def.type = "one_off" /\ def.date # Null /\ def.date >= from /\ def.date <= to
  <2>1. def.date \in Nat /\ out' = <<def.date>>
    BY <1>1, <1>2, <1>4 DEF Definition, WithoutLoop
  <2>2. out' \in Seq(Nat) /\ DOMAIN out' = {1} /\ out'[1] = def.date
    BY <2>1
  <2>3. \A d \in from..to : DueOn(d)' <=> d = def.date
    BY <1>1, <1>4 DEF DueOn
  <2>4. {out'[i] : i \in DOMAIN out'} = {d \in from..to : DueOn(d)'}
    BY <1>2, <1>4, <2>1, <2>2, <2>3
  <2>5. OccurrencesExact'
    BY <1>1, <2>2, <2>4 DEF OccurrencesExact
  <2> QED BY <1>1, <1>2, <2>2, <2>5 DEF CallInv, Window
<1>5. CASE ~(def.type = "one_off" /\ def.date # Null /\ def.date >= from /\ def.date <= to)
  <2>1. out' = <<>> /\ out' \in Seq(Nat) /\ DOMAIN out' = {}
    BY <1>1, <1>5 DEF WithoutLoop
  <2>2. \A d \in from..to : ~DueOn(d)'
    <3>1. ASSUME NEW d \in from..to, DueOn(d) PROVE FALSE
      <4>1. d \in Int /\ from <= d /\ d <= to
        BY <1>2
      <4>2. CASE def.type \in {"vendor", "one_off"}
        BY <1>3, <1>5, <3>1, <4>1, <4>2 DEF DueOn
      <4>3. CASE def.type \notin {"vendor", "one_off"}
        BY <1>1, <3>1, <4>3 DEF DueOn, NoLoop
      <4> QED BY <4>2, <4>3
    <3>2. \A d \in from..to : DueOn(d)' <=> DueOn(d)
      BY <1>1 DEF DueOn
    <3> QED BY <3>1, <3>2
  <2>3. OccurrencesExact'
    BY <1>1, <2>1, <2>2 DEF OccurrencesExact
  <2> QED BY <1>1, <1>2, <2>1, <2>3 DEF CallInv, Window
<1> QED BY <1>4, <1>5

LEMMA LoopEndsKeeps == ASSUME CallInv, LoopEnds PROVE CallInv'
<1>1. UNCHANGED <<def, from, to, cursor, out>> /\ pc = "loop" /\ pc' = "done" /\ First[cursor] > to
  BY DEF LoopEnds
<1>2. Window /\ Found /\ from \in Nat /\ to \in Nat /\ cursor \in DOMAIN First /\ out \in Seq(Nat)
  BY <1>1 DEF CallInv, Window
<1>3. First[cursor] \in Nat
  BY <1>2, Calendar
<1>4. \A d \in from..to : d < First[cursor]
  BY <1>1, <1>2, <1>3
<1>5. {out[i] : i \in DOMAIN out} = {d \in from..to : DueOn(d)}
  BY <1>2, <1>4 DEF Found
<1>6. \A d : DueOn(d)' <=> DueOn(d)
  BY <1>1 DEF DueOn
<1>7. OccurrencesExact'
  BY <1>1, <1>2, <1>5, <1>6 DEF OccurrencesExact, Found, Increasing
<1> QED BY <1>1, <1>2, <1>7 DEF CallInv, Window

\* A turn takes in the days of one month, among which the bill falls on one at
\* most, and the days it found before are all earlier.
LEMMA TurnKeeps == ASSUME CallInv, Turn PROVE CallInv'
<1> DEFINE x    == Occurrence(cursor)
           hits == MonthDue(cursor) /\ x >= from /\ x <= to
<1>1. /\ UNCHANGED <<def, from, to, pc>> /\ pc = "loop" /\ ~NoLoop /\ First[cursor] <= to
      /\ cursor' = cursor + 1 /\ out' = IF hits THEN Append(out, x) ELSE out
  BY DEF Turn
<1>2. /\ Window /\ Found /\ def \in Definition /\ from \in Nat /\ to \in Nat
      /\ cursor \in DOMAIN First /\ out \in Seq(Nat)
  BY <1>1 DEF CallInv, Window
<1>3. cursor' \in DOMAIN First /\ cursor + 1 \in DOMAIN First
  BY <1>1, <1>2, NextMonth DEF Window
<1>4. First[cursor] \in Nat /\ First[cursor + 1] \in Nat
  BY <1>2, <1>3, Calendar
<1>5. x \in Nat /\ InMonth(x, cursor) /\ First[cursor] <= x /\ x < First[cursor + 1]
  BY <1>1, <1>2, <1>3, OccurrenceInMonth DEF InMonth
<1>6. ASSUME NEW d \in Int, First[cursor] <= d, d < First[cursor + 1]
      PROVE  DueOn(d) <=> MonthDue(cursor) /\ d = x
  BY <1>1, <1>2, <1>3, <1>6, DueInMonth DEF InMonth
<1> HIDE DEF x
<1>7. \A d : DueOn(d)' <=> DueOn(d)
  BY <1>1 DEF DueOn
<1>8. Window'
  BY <1>1, <1>2 DEF Window
<1>9. CASE hits
  <2>1. /\ out' = Append(out, x) /\ out' \in Seq(Nat)
        /\ DOMAIN out = 1..Len(out) /\ DOMAIN out' = 1..(Len(out) + 1) /\ Len(out) \in Nat
        /\ out'[Len(out) + 1] = x /\ \A i \in DOMAIN out : out'[i] = out[i] /\ out[i] \in Nat
    BY <1>1, <1>2, <1>5, <1>9
  <2>2. ASSUME NEW i \in DOMAIN out'
        PROVE  out'[i] \in from..to /\ DueOn(out'[i]) /\ out'[i] < First[cursor + 1]
    <3>1. CASE i \in DOMAIN out
      <4>1. out[i] \in from..to /\ DueOn(out[i]) /\ out[i] < First[cursor] /\ out'[i] = out[i]
        BY <1>2, <2>1, <3>1 DEF Found
      <4> QED BY <1>4, <1>5, <4>1, <2>1, <3>1
    <3>2. CASE i = Len(out) + 1
      <4>1. DueOn(x)
        BY <1>5, <1>6, <1>9
      <4> QED BY <1>2, <1>5, <1>9, <2>1, <3>2, <4>1
    <3> QED BY <2>1, <3>1, <3>2
  <2>3. ASSUME NEW d \in from..to, DueOn(d), d < First[cursor + 1]
        PROVE  \E i \in DOMAIN out' : out'[i] = d
    <3>1. d \in Int
      BY <1>2
    <3>2. CASE d < First[cursor]
      <4>1. PICK i \in DOMAIN out : out[i] = d
        BY <1>2, <2>3, <3>2 DEF Found
      <4> QED BY <2>1, <4>1
    <3>3. CASE ~(d < First[cursor])
      <4>1. d = x
        BY <1>4, <1>6, <2>3, <3>1, <3>3
      <4> QED BY <2>1, <4>1
    <3> QED BY <3>2, <3>3
  <2>4. Increasing(out')
    <3> SUFFICES ASSUME NEW i \in DOMAIN out', NEW j \in DOMAIN out', i < j PROVE out'[i] < out'[j]
      BY DEF Increasing
    <3>1. i \in DOMAIN out
      BY <2>1
    <3>2. CASE j \in DOMAIN out
      <4>1. out[i] < out[j]
        BY <1>2, <3>1, <3>2 DEF Found, Increasing
      <4> QED BY <2>1, <3>1, <3>2, <4>1
    <3>3. CASE j = Len(out) + 1
      <4>1. out[i] < First[cursor] /\ out[i] \in Nat
        BY <1>2, <2>1, <3>1 DEF Found
      <4> QED BY <1>4, <1>5, <2>1, <3>1, <3>3, <4>1
    <3> QED BY <2>1, <3>2, <3>3
  <2>5. Found'
    BY <1>1, <1>7, <2>2, <2>3, <2>4 DEF Found, Increasing
  <2> QED BY <1>1, <1>3, <1>8, <2>1, <2>5 DEF CallInv, OccurrencesExact
<1>10. CASE ~hits
  <2>1. out' = out
    BY <1>1, <1>10
  <2>2. ASSUME NEW i \in DOMAIN out PROVE out[i] < First[cursor + 1]
    <3>1. out[i] < First[cursor] /\ out[i] \in Nat
      BY <1>2 DEF Found
    <3> QED BY <1>4, <1>5, <3>1
  <2>3. ASSUME NEW d \in from..to, DueOn(d), d < First[cursor + 1]
        PROVE  \E i \in DOMAIN out : out[i] = d
    <3>1. d \in Int /\ from <= d /\ d <= to
      BY <1>2
    <3>2. d < First[cursor]
      BY <1>4, <1>6, <1>10, <2>3, <3>1
    <3> QED BY <1>2, <2>3, <3>2 DEF Found
  <2>4. Found'
    BY <1>1, <1>2, <1>7, <2>1, <2>2, <2>3 DEF Found, Increasing
  <2> QED BY <1>1, <1>2, <1>3, <1>8, <2>1, <2>4 DEF CallInv, OccurrencesExact
<1> QED BY <1>9, <1>10

\* NextDueDates, called with a definition and a window the calendar reaches, keeps
\* the loop invariant at every turn; when it returns, the result is exact (bill.go
\* NextDueDates).
LEMMA NextDueDatesKeeps == ASSUME CallInv, NextDueDates PROVE CallInv'
BY ReturnKeeps, TurnKeeps, LoopEndsKeeps DEF NextDueDates

-----------------------------------------------------------------------------
(* The cases *)

LEMMA CaseFacts ==
    ASSUME NEW c \in Cases
    PROVE  /\ c.zone \in (-12)..14 /\ c.day \in Nat /\ c.ahead \in 0..89 /\ c.later \subseteq Nat
           /\ c.form.date \in Nat \cup {Null} /\ c.form.amount \in Seq(Char)
           /\ \A h \in c.later \cup {0} : \A d \in {0, c.ahead} :
                \E m \in DOMAIN First : InMonth(c.day + (h \div 24) + d, m)
<1>1. c \in Case /\ DateTexts \subseteq Nat
  BY ScreensAssumption DEF ScreensAssumption
<1>2. c.zone \in (-12)..14 /\ c.day \in Nat /\ c.ahead \in 0..89 /\ c.later \in SUBSET Nat
  BY <1>1 DEF Case
<1>3. c.form.date \in DateTexts \cup {Null} /\ c.form.amount \in Seq(Char)
  BY <1>1 DEF Case, Char
<1>4. \A h \in c.later \cup {0} : \A d \in {0, c.ahead} :
         \E m \in DOMAIN First : InMonth(c.day + (h \div 24) + d, m)
  BY ScreensAssumption DEF ScreensAssumption
<1> QED BY <1>1, <1>2, <1>3, <1>4

-----------------------------------------------------------------------------
(* Days and instants *)

\* Reading a DATE column, or a local midnight, gives its day back.
LEMMA DayRoundTrip ==
    ASSUME NEW d \in Int, zone \in Int
    PROVE  UTCDate(UTCMidnight(d)) = d /\ LocalDate(LocalMidnight(d)) = d
<1>1. (24 * d) \div 24 = d
  OBVIOUS
<1>2. 24 * d - zone + zone = 24 * d
  OBVIOUS
<1> QED BY <1>1, <1>2 DEF UTCDate, UTCMidnight, LocalDate, LocalMidnight

\* The settings page counts from the day, in the local zone, of a midnight in UTC:
\* today, or yesterday.
LEMMA PageDay ==
    ASSUME now \in Int, zone \in Int
    PROVE  /\ today \in Int /\ LocalDate(TruncateDay(now)) \in Int
           /\ LocalDate(TruncateDay(now)) <= today /\ today <= LocalDate(TruncateDay(now)) + 1
<1> DEFINE q == now \div 24
           r == now % 24
<1>1. q \in Int /\ r \in 0..23 /\ now = 24 * q + r
  OBVIOUS
<1>2. today = (24 * q + r + zone) \div 24 /\ LocalDate(TruncateDay(now)) = (24 * q + zone) \div 24
  BY <1>1 DEF today, LocalDate, TruncateDay, UTCMidnight, UTCDate
<1> HIDE DEF q, r
<1>3. /\ (24 * q + r + zone) \div 24 \in Int /\ (24 * q + zone) \div 24 \in Int
      /\ (24 * q + zone) \div 24 <= (24 * q + r + zone) \div 24
      /\ (24 * q + r + zone) \div 24 <= (24 * q + zone) \div 24 + 1
  BY <1>1
<1> QED BY <1>2, <1>3

-----------------------------------------------------------------------------
(* The inductive invariant *)

\* The screens are looked at at the moments of the case.
NowInv == \E h \in case.later \cup {0} : now = LocalMidnight(case.day) + h

\* An edit form is untouched until it is sent back, and only a file's entry leaves
\* its schedule to a connector.
FormInv ==
    /\ form.date \in Nat \cup {Null} /\ form.amount \in Seq(Char)
    /\ step = "form" /\ def # Null => form = Prefilled /\ def.type # "vendor"
    /\ step \in {"generate", "stored"} /\ ~form.managed => def.type # "vendor"

ScreensInv ==
    /\ case \in Cases
    /\ FormInv
    /\ NowInv
    /\ TypeOK
    /\ step \in {"generate", "stored"} => def # Null
    /\ CallInv

LEMMA NowFacts ==
    ASSUME ScreensInv
    PROVE  /\ now \in Int /\ zone \in (-12)..14 /\ case.ahead \in 0..89 /\ today \in Nat
           /\ \E m \in DOMAIN First : InMonth(today, m)
           /\ \E m \in DOMAIN First : InMonth(today + case.ahead, m)
<1>1. PICK h \in case.later \cup {0} : now = LocalMidnight(case.day) + h
  BY DEF ScreensInv, NowInv
<1>2. /\ case.zone \in (-12)..14 /\ case.day \in Nat /\ case.ahead \in 0..89 /\ h \in Nat
      /\ \A d \in {0, case.ahead} : \E m \in DOMAIN First : InMonth(case.day + (h \div 24) + d, m)
  BY <1>1, CaseFacts DEF ScreensInv
<1>3. today = case.day + (h \div 24) /\ today \in Nat
  <2>1. now + zone = 24 * case.day + h
    BY <1>1, <1>2 DEF LocalMidnight, zone
  <2>2. (24 * case.day + h) \div 24 = case.day + (h \div 24) /\ h \div 24 \in Nat
    BY <1>2
  <2> QED BY <1>2, <2>1, <2>2 DEF today, LocalDate
<1>4. now \in Int
  BY <1>1, <1>2 DEF LocalMidnight, zone
<1>5. \E m \in DOMAIN First : InMonth(today, m)
  <2>1. case.day + (h \div 24) + 0 = today
    BY <1>2, <1>3
  <2> QED BY <1>2, <2>1
<1>6. \E m \in DOMAIN First : InMonth(today + case.ahead, m)
  BY <1>2, <1>3
<1> QED BY <1>2, <1>3, <1>4, <1>5, <1>6 DEF zone

LEMMA InitScreens == Init => ScreensInv
<1> SUFFICES ASSUME Init PROVE ScreensInv
  OBVIOUS
<1>1. case \in Cases /\ FormInv
  BY CaseFacts DEF Init, FormInv
<1>2. NowInv
  <2>1. now = LocalMidnight(case.day) + 0
    BY <1>1, CaseFacts DEF Init, LocalMidnight, zone
  <2> QED BY <2>1 DEF NowInv
<1>3. 0 \in DOMAIN First
  <2>1. PICK m \in DOMAIN First : TRUE
    BY <1>1, CaseFacts
  <2> QED BY <2>1, Calendar
<1>4. TypeOK
  BY <1>3, ScreensAssumption DEF ScreensAssumption, Init, TypeOK
<1>5. CallInv
  BY <1>3 DEF Init, CallInv, OccurrencesExact
<1> QED BY <1>1, <1>2, <1>4, <1>5 DEF Init, ScreensInv

\* What parseBillForm and billBootstrapToDefinition accept satisfies the table's
\* checks.
LEMMA EnteredFits ==
    ASSUME NEW f, f.date \in Nat \cup {Null}, Entered(f) # Null
    PROVE  Entered(f) \in Definition /\ ShapeCheck(Entered(f))
<1>1. Null \notin Int
  BY Calendar
<1>2. ASSUME NEW d \in 1..31
      PROVE  LET e == Schedule("monthly", d, Null, Null) IN e \in Definition /\ ShapeCheck(e)
  BY <1>1 DEF Schedule, Definition, ShapeCheck
<1>3. ASSUME NEW d \in 1..31, NEW s \in 1..3
      PROVE  LET e == Schedule("quarterly", d, s, Null) IN e \in Definition /\ ShapeCheck(e)
  BY <1>1 DEF Schedule, Definition, ShapeCheck
<1>4. ASSUME NEW o \in Nat
      PROVE  LET e == Schedule("one_off", Null, Null, o) IN e \in Definition /\ ShapeCheck(e)
  BY <1>1 DEF Schedule, Definition, ShapeCheck
<1>5. LET e == Schedule("vendor", Null, Null, Null) IN e \in Definition /\ ShapeCheck(e)
  BY <1>1 DEF Schedule, Definition, ShapeCheck
<1>6. ASSUME ParseSchedule(f) # Null
      PROVE  ParseSchedule(f) \in Definition /\ ShapeCheck(ParseSchedule(f))
  <2>1. CASE f.schedule = "monthly" /\ InRange(f.day, 31)
    BY <1>2, <2>1 DEF ParseSchedule, InRange
  <2>2. CASE f.schedule = "quarterly" /\ InRange(f.day, 31) /\ InRange(f.start, 3)
    BY <1>3, <2>2 DEF ParseSchedule, InRange
  <2>3. CASE f.schedule = "one_off" /\ f.date # Null
    <3>1. f.date \in Nat /\ UTCDate(UTCMidnight(f.date)) = f.date
      BY <2>3 DEF UTCDate, UTCMidnight
    <3> QED BY <1>4, <2>3, <3>1 DEF ParseSchedule
  <2> QED BY <1>6, <2>1, <2>2, <2>3 DEF ParseSchedule
<1> QED BY <1>5, <1>6 DEF Entered, parseBillForm, billBootstrapToDefinition

LEMMA SubmitScreens == ASSUME ScreensInv, Submit PROVE ScreensInv'
<1>1. /\ UNCHANGED <<case, form, now, insts, paid, edits>> /\ step' = "generate"
      /\ Entered(form) # Null /\ Call(Entered(form), today, case.ahead)
      /\ \E cents \in FormCents(form.amount) : Fits(cents) /\ amount' = cents
  BY DEF Submit
<1>2. Entered(form) \in Definition /\ ShapeCheck(Entered(form))
  BY <1>1, EnteredFits DEF ScreensInv, FormInv
<1>3. CallInv'
  BY <1>1, <1>2, NowFacts, CallKeeps
<1>4. def' = Entered(form)
  BY <1>1 DEF Call
<1>5. amount' # Null /\ Fits(amount')
  BY <1>1, Calendar DEF Fits
<1>6. TypeOK'
  BY <1>1, <1>2, <1>3, <1>4, <1>5 DEF ScreensInv, TypeOK, CallInv, Fits, ShapeCheck
<1>7. FormInv'
  <2>1. ~form.managed => Entered(form).type # "vendor"
    BY <1>1 DEF Entered, parseBillForm, ParseSchedule, Schedule
  <2> QED BY <1>1, <1>4, <2>1 DEF ScreensInv, FormInv
<1> QED BY <1>1, <1>3, <1>4, <1>6, <1>7 DEF ScreensInv, NowInv, LocalMidnight, zone

LEMMA GenerateScreens == ASSUME ScreensInv, Generate PROVE ScreensInv'
<1>1. UNCHANGED <<case, form, now, amount, insts, paid, edits, step>> /\ NextDueDates
  BY DEF Generate
<1>2. CallInv'
  BY <1>1, NextDueDatesKeeps DEF ScreensInv
<1>3. def' = def
  BY <1>1 DEF NextDueDates, Return, Turn, LoopEnds
<1>4. TypeOK'
  BY <1>1, <1>2, <1>3 DEF ScreensInv, TypeOK, CallInv, Fits, ShapeCheck
<1>5. FormInv'
  BY <1>1, <1>3 DEF ScreensInv, FormInv, Generate
<1> QED BY <1>1, <1>2, <1>3, <1>4, <1>5 DEF ScreensInv, NowInv, LocalMidnight, zone

LEMMA StoreScreens == ASSUME ScreensInv, Store PROVE ScreensInv'
<1>1. /\ UNCHANGED <<case, form, now, amount, paid, edits, def, from, to>>
      /\ insts' = insts \cup {LocalDate(LocalMidnight(out[i])) : i \in DOMAIN out}
      /\ step' = "stored" /\ pc' = "idle" /\ cursor' = 0 /\ out' = <<>> /\ step = "generate"
  BY DEF Store
<1>2. cursor' \in DOMAIN First /\ out' \in Seq(Nat)
  BY <1>1, Calendar DEF ScreensInv, CallInv
<1>3. CallInv'
  BY <1>1, <1>2 DEF CallInv, OccurrencesExact
<1>4. insts' \subseteq Nat /\ paid' \subseteq insts'
  <2>1. ASSUME NEW i \in DOMAIN out PROVE LocalDate(LocalMidnight(out[i])) \in Nat
    <3>1. out[i] \in Nat
      BY DEF ScreensInv, CallInv
    <3>2. zone \in Int
      BY NowFacts
    <3> QED BY <3>1, <3>2, DayRoundTrip
  <2> QED BY <1>1, <2>1 DEF ScreensInv, TypeOK
<1>5. TypeOK'
  BY <1>1, <1>2, <1>4 DEF ScreensInv, TypeOK, Fits, ShapeCheck
<1>6. form' = form /\ FormInv'
  BY <1>1 DEF ScreensInv, FormInv
<1> QED BY <1>1, <1>3, <1>5, <1>6 DEF ScreensInv, NowInv, LocalMidnight, zone

\* Steps that leave the schedule and the loop alone.
LEMMA Outside ==
    ASSUME ScreensInv, UNCHANGED <<case, amount, insts, def, from, to, cursor, out, pc>>,
           FormInv', NowInv', paid' \subseteq insts, edits' \in 0..MaxEdits,
           step' \in {"form", "rejected", "stored"}, step' = "stored" => step = "stored"
    PROVE  ScreensInv'
<1>1. CallInv'
  BY DEF ScreensInv, CallInv, Window, Found, OccurrencesExact, DueOn
<1>2. TypeOK'
  BY DEF ScreensInv, TypeOK, Fits, ShapeCheck
<1> QED BY <1>1, <1>2 DEF ScreensInv

LEMMA EditScreens == ASSUME ScreensInv, Edit PROVE ScreensInv'
<1>1. /\ UNCHANGED <<case, now, amount, insts, paid, def, from, to, cursor, out, pc>>
      /\ step = "stored" /\ step' = "form" /\ form' = Prefilled
      /\ edits < MaxEdits /\ edits' = edits + 1
  BY DEF Edit, loop
<1>2. def \in Definition
  BY <1>1 DEF ScreensInv, TypeOK
<1>3. def.date \in Nat \cup {Null}
  BY <1>2 DEF Definition
<1>4. form'.date \in Nat \cup {Null}
  <2>1. form'.date = IF def.date = Null THEN Null ELSE UTCDate(Scan(def.date))
    BY <1>1 DEF Prefilled, Fields
  <2>2. def.date \in Nat => UTCDate(Scan(def.date)) = def.date
    BY DEF UTCDate, Scan, UTCMidnight
  <2> QED BY <1>3, <2>1, <2>2
<1>5. FormInv'
  <2>1. Prefilled' = Prefilled
    BY <1>1 DEF Prefilled, Fields
  <2>2. form'.amount = formatCentsPlain(amount) /\ amount \in Int
    BY <1>1, MoneyAssumption DEF Prefilled, Fields, ScreensInv, TypeOK, Fits, MoneyAssumption
  <2>3. form'.amount \in Seq(Char)
    BY <2>2, PlainText
  <2>4. ~form.managed /\ def.type # "vendor"
    BY <1>1 DEF Edit, ScreensInv, FormInv
  <2> QED BY <1>1, <1>4, <2>1, <2>3, <2>4 DEF FormInv
<1>6. edits' \in 0..MaxEdits /\ paid' \subseteq insts
  BY <1>1, ScreensAssumption DEF ScreensAssumption, ScreensInv, TypeOK
<1>7. NowInv'
  BY <1>1 DEF ScreensInv, NowInv, LocalMidnight, zone
<1> QED BY <1>1, <1>5, <1>6, <1>7, Outside

LEMMA QuietScreens ==
    ASSUME ScreensInv, Reject \/ Clock \/ \E d \in insts : MarkPaid(d)
    PROVE  ScreensInv'
<1>1. /\ UNCHANGED <<case, form, amount, insts, edits, def, from, to, cursor, out, pc>>
      /\ step' \in {"rejected", "stored"} /\ (step' = "stored" => step = "stored")
      /\ paid' \subseteq insts
  BY DEF Reject, Clock, MarkPaid, loop, ScreensInv, TypeOK
<1>2. NowInv'
  <2>1. CASE Clock
    BY <2>1 DEF Clock, NowInv, LocalMidnight, zone
  <2>2. CASE ~Clock
    BY <2>2 DEF Reject, MarkPaid, ScreensInv, NowInv, LocalMidnight, zone
  <2> QED BY <2>1, <2>2
<1>3. FormInv'
  BY <1>1 DEF ScreensInv, FormInv
<1> QED BY <1>1, <1>2, <1>3, Outside DEF ScreensInv, TypeOK

LEMMA NextScreens == ScreensInv /\ [Next]_vars => ScreensInv'
<1> SUFFICES ASSUME ScreensInv, [Next]_vars PROVE ScreensInv'
  OBVIOUS
<1>1. CASE UNCHANGED vars
  <2>1. UNCHANGED <<case, form, now, amount, insts, paid, edits, step, def, from, to, cursor, out, pc>>
    BY <1>1 DEF vars, loop
  <2>2. CallInv'
    BY <2>1 DEF ScreensInv, CallInv, Window, Found, OccurrencesExact, DueOn
  <2>3. TypeOK'
    BY <2>1 DEF ScreensInv, TypeOK, Fits, ShapeCheck
  <2>4. FormInv'
    BY <2>1 DEF ScreensInv, FormInv, Prefilled, Fields
  <2> QED BY <2>1, <2>2, <2>3, <2>4 DEF ScreensInv, NowInv, LocalMidnight, zone
<1> QED BY <1>1, SubmitScreens, GenerateScreens, StoreScreens, EditScreens, QuietScreens DEF Next

LEMMA ScreensInvariant == Spec => []ScreensInv
BY InitScreens, NextScreens, PTL DEF Spec

-----------------------------------------------------------------------------
(* The edit form *)

\* A number field reads as the number it was filled in with.
LEMMA FieldReads ==
    ASSUME NEW n \in 1..31
    PROVE  FieldText(n) = Itoa[n] /\ ParseInt(Itoa[n]).ok /\ ParseInt(Itoa[n]).value = n
<1>1. n \in Nat /\ n # Null /\ LongMax \in Nat /\ n <= LongMax
  BY Calendar, MoneyAssumption DEF MoneyAssumption
<1>2. Itoa[n] \in Seq(Digit) /\ Itoa[n] # <<>> /\ Unsigned(Itoa[n]) = n
  BY <1>1, ItoaReads
<1>3. ParseInt(Itoa[n]) = Parsed(n)
  BY <1>1, <1>2, ParseIntDigits
<1> QED BY <1>1, <1>3 DEF FieldText, Parsed

\* An untouched edit form is read as the bill it was filled in from.
LEMMA Untouched ==
    ASSUME ScreensInv, step = "form", def # Null
    PROVE  /\ Entered(form) = def /\ amount \in Int
           /\ \A cents \in FormCents(form.amount) :
                Fits(cents) /\ (amount >= 0 => cents = amount)
<1>1. /\ def \in Definition /\ ShapeCheck(def) /\ Fits(amount)
      /\ form = Prefilled /\ def.type # "vendor"
  BY DEF ScreensInv, TypeOK, FormInv
<1>2. /\ form.named = TRUE /\ form.managed = FALSE /\ form.schedule = def.type
      /\ form.amount = formatCentsPlain(amount) /\ form.day = FieldText(def.day)
      /\ form.start = FieldText(def.start)
      /\ form.date = IF def.date = Null THEN Null ELSE UTCDate(Scan(def.date))
  BY <1>1 DEF Prefilled, Fields
<1>3. amount \in Int /\ IntMax \in Nat /\ amount >= -IntMax - 1 /\ amount <= IntMax
  BY <1>1, MoneyAssumption DEF Fits, MoneyAssumption
<1>4. /\ IsDecimal(form.amount)
      /\ FormCents(form.amount) = {IF amount >= 0 THEN amount ELSE amount + 1}
  BY <1>1, <1>2, PlainRoundTrip DEF Fits
<1>5. \A cents \in FormCents(form.amount) : Fits(cents) /\ (amount >= 0 => cents = amount)
  BY <1>3, <1>4 DEF Fits
<1>6. Null \notin Int
  BY Calendar
<1>7. def = Schedule(def.type, def.day, def.start, def.date)
  BY <1>1 DEF Definition, Schedule
<1>8. Entered(form) = ParseSchedule(form)
  BY <1>2, <1>4 DEF Entered, parseBillForm
<1>9. CASE def.type = "monthly"
  <2>1. def.day \in 1..31 /\ def.start = Null /\ def.date = Null
    BY <1>1, <1>9 DEF ShapeCheck, Definition
  <2>2. ParseInt(form.day).ok /\ ParseInt(form.day).value = def.day
    BY <1>2, <2>1, FieldReads
  <2>3. ParseSchedule(form) = Schedule("monthly", def.day, Null, Null)
    BY <1>2, <1>9, <2>1, <2>2 DEF ParseSchedule, InRange
  <2> QED BY <1>3, <1>5, <1>7, <1>8, <1>9, <2>1, <2>3
<1>10. CASE def.type = "quarterly"
  <2>1. def.day \in 1..31 /\ def.start \in 1..3 /\ def.date = Null
    BY <1>1, <1>10 DEF ShapeCheck, Definition
  <2>2. /\ ParseInt(form.day).ok /\ ParseInt(form.day).value = def.day
        /\ ParseInt(form.start).ok /\ ParseInt(form.start).value = def.start
    BY <1>2, <2>1, FieldReads
  <2>3. ParseSchedule(form) = Schedule("quarterly", def.day, def.start, Null)
    BY <1>2, <1>10, <2>1, <2>2 DEF ParseSchedule, InRange
  <2> QED BY <1>3, <1>5, <1>7, <1>8, <1>10, <2>1, <2>3
<1>11. CASE def.type = "one_off"
  <2>1. def.day = Null /\ def.start = Null /\ def.date \in Nat
    BY <1>1, <1>11 DEF ShapeCheck, Definition
  <2>2. form.date = def.date /\ form.date # Null /\ UTCDate(UTCMidnight(form.date)) = def.date
    BY <1>2, <1>6, <2>1 DEF UTCDate, Scan, UTCMidnight
  <2>3. ParseSchedule(form) = Schedule("one_off", Null, Null, def.date)
    BY <1>2, <1>11, <2>2 DEF ParseSchedule
  <2> QED BY <1>3, <1>5, <1>7, <1>8, <1>11, <2>1, <2>3
<1> QED BY <1>1, <1>9, <1>10, <1>11 DEF Definition

-----------------------------------------------------------------------------
(* The theorems *)

\* What the form and the file get past the handlers has the shape and the ranges
\* the table's checks ask for, and the loop never leaves the calendar (settings.go
\* parseBillForm, bootstrap.go billBootstrapToDefinition).
THEOREM TypeCorrect == Spec => []TypeOK
<1>1. ScreensInv => TypeOK
  BY DEF ScreensInv
<1> QED BY <1>1, ScreensInvariant, PTL

\* NextDueDates returns the days of the window the bill falls on, each once and in
\* order, for every calendar whose months have days, every definition and every
\* window (bill.go NextDueDates).
THEOREM OccurrencesCorrect == Spec => []OccurrencesExact
<1>1. ScreensInv => OccurrencesExact
  BY DEF ScreensInv, CallInv
<1> QED BY <1>1, ScreensInvariant, PTL

\* An event lies on the day its bill is due, in every zone (events.go Events).
THEOREM EventsCorrect == Spec => []EventsOnTheDay
<1>1. ScreensInv => EventsOnTheDay
  <2> SUFFICES ASSUME ScreensInv, NEW e \in Events
               PROVE  LocalDate(e.starts) = e.due /\ LocalDate(e.ends - 1) = e.due
    BY DEF EventsOnTheDay
  <2>1. PICK d \in insts : e = Event(d)
    BY DEF Events, UpcomingUnpaid
  <2>2. d \in Int /\ zone \in Int
    <3>1. d \in Nat
      BY <2>1 DEF ScreensInv, TypeOK
    <3>2. zone \in (-12)..14
      BY NowFacts
    <3> QED BY <3>1, <3>2
  <2>3. e.due = d /\ e.starts = LocalMidnight(d) /\ e.ends = LocalMidnight(d) + 24
    BY <2>1, <2>2, DayRoundTrip DEF Event, Scan
  <2>4. LocalDate(LocalMidnight(d) + 24 - 1) = d
    <3>1. LocalMidnight(d) + 24 - 1 + zone = 24 * d + 23
      BY <2>2 DEF LocalMidnight
    <3>2. (24 * d + 23) \div 24 = d
      BY <2>2
    <3> QED BY <3>1, <3>2 DEF LocalDate
  <2>5. LocalDate(LocalMidnight(d)) = d
    BY <2>2, DayRoundTrip
  <2>6. e.ends - 1 = LocalMidnight(d) + 24 - 1
    <3>1. LocalMidnight(d) \in Int
      BY <2>2 DEF LocalMidnight
    <3> QED BY <2>3, <3>1
  <2>7. LocalDate(e.starts) = e.due
    BY <2>3, <2>5
  <2>8. LocalDate(e.ends - 1) = e.due
    BY <2>3, <2>4, <2>6
  <2> QED BY <2>7, <2>8
<1> QED BY <1>1, ScreensInvariant, PTL

\* A midnight in UTC compared with a local one is off by less than a day in every
\* zone there is: nothing that is late is missed, nothing due after today is marked
\* (view.go View).
THEOREM OverdueCorrect == Spec => []OverdueWithinADay
<1>1. ScreensInv => OverdueWithinADay
  <2> SUFFICES ASSUME ScreensInv PROVE OverdueWithinADay
    OBVIOUS
  <2>1. zone \in (-12)..14 /\ today \in Nat /\ \A d \in ViewBills : d \in Nat
    BY NowFacts DEF ScreensInv, TypeOK, ViewBills, UpcomingUnpaid
  <2>2. ASSUME NEW d \in Nat
        PROVE  /\ d < today => Scan(d) < LocalMidnight(today)
               /\ Scan(d) < LocalMidnight(today) => d <= today
               /\ zone >= 0 => ~(Scan(today) < LocalMidnight(today))
    BY <2>1 DEF Scan, UTCMidnight, LocalMidnight
  <2>3. {d \in ViewBills : d < today} \subseteq Overdue
    BY <2>1, <2>2 DEF Overdue
  <2>4. \A d \in Overdue : d <= today
    BY <2>1, <2>2 DEF Overdue
  <2>5. zone >= 0 => today \notin Overdue
    BY <2>1, <2>2 DEF Overdue
  <2> QED BY <2>3, <2>4, <2>5 DEF OverdueWithinADay
<1> QED BY <1>1, ScreensInvariant, PTL

\* The 90 days of the settings page are enough for a lookahead of up to 89, the
\* day it counts from being yesterday at worst (settings.go buildSettingsPageData).
THEOREM PayableCorrect == Spec => []PayableOnPage
<1>1. ScreensInv => PayableOnPage
  <2> DEFINE day == LocalDate(TruncateDay(now))
  <2> SUFFICES ASSUME ScreensInv,
                      NEW d \in insts, \/ d \in (today - 30)..(today + case.ahead)
                                       \/ d \in ViewBills /\ d >= today - 30
               PROVE  d \in SettingsInstances
    BY DEF PayableOnPage, ViewBills, UpcomingUnpaid
  <2>1. /\ day \in Int /\ today \in Nat /\ day <= today /\ today <= day + 1
        /\ case.ahead \in 0..89 /\ zone \in Int
    BY NowFacts, PageDay
  <2>2. d \in Nat
    BY DEF ScreensInv, TypeOK
  <2> HIDE DEF day
  <2>3. d \in ViewBills => d <= today + 60
    <3>1. LocalDate(LocalMidnight(today + 60)) = today + 60
      BY <2>1, DayRoundTrip
    <3> QED BY <3>1 DEF ViewBills, UpcomingUnpaid, viewLookaheadDays
  <2>4. day - 30 <= d /\ d <= day + 90
    BY <2>1, <2>2, <2>3
  <2> QED BY <2>4 DEF SettingsInstances, ListAllForSettings, day
<1> QED BY <1>1, ScreensInvariant, PTL

\* Whatever decimal text is entered, the two parsers read it alike, as the amount
\* it states, cut off at the cent, as long as that is an int64; what the form stores
\* of an amount that is not negative is the nearest cent, up to the three roundings
\* of its float64 arithmetic, however long the text is, and with two decimals or
\* fewer the form is exact as far as the column reaches (client.go
\* parseMoneyToCents, columbiagaspa.go parseDollarsToCents, settings.go
\* parseBillForm).
THEOREM MoneyCorrect == Spec => []MoneyExact
<1>1. ScreensInv => MoneyExact
  <2> DEFINE s == form.amount
  <2> SUFFICES ASSUME ScreensInv, IsDecimal(s)
               PROVE  /\ parseDollarsToCents(s) = parseMoneyToCents(s)
                      /\ IsLong(CutToCent(s)) =>
                            parseMoneyToCents(s) = IF s[Len(s)] = "." THEN NotParsed
                                                   ELSE Parsed(CutToCent(s))
                      /\ Scaled(s) >= 0 => \A cents \in FormCents(s) :
                            /\ Fits(cents) => NearestCent(s, cents)
                            /\ Decimals(s) <= 2 /\ CutToCent(s) <= IntMax => cents = CutToCent(s)
    BY Zenon DEF MoneyExact
  <2>1. s \in Seq(Char)
    BY DEF ScreensInv, FormInv
  <2> HIDE DEF s
  <2>2. parseDollarsToCents(s) = parseMoneyToCents(s)
    BY <2>1, DollarsLikeBalance
  <2>3. IsLong(CutToCent(s)) =>
          parseMoneyToCents(s) = IF s[Len(s)] = "." THEN NotParsed ELSE Parsed(CutToCent(s))
    BY <2>1, BalanceExact
  <2>4. Scaled(s) >= 0 => \A cents \in FormCents(s) :
          /\ NearestCent(s, cents)
          /\ Decimals(s) <= 2 /\ CutToCent(s) <= IntMax => cents = CutToCent(s)
    BY <2>1, FormNearest
  <2> QED BY <2>2, <2>3, <2>4
<1> QED BY <1>1, ScreensInvariant, PTL

\* An edit form that was not touched is never refused, and saving it leaves the
\* schedule and an amount that is not negative as they were, for every amount the
\* column holds (settings.go parseBillForm).
THEOREM PrefillCorrect == Spec => PrefillKeeps
<1> DEFINE Unchanged == step = "form" /\ def # Null =>
                      step' = "generate" /\ def' = def /\ (amount >= 0 => amount' = amount)
<1>1. ScreensInv /\ [Next]_vars => [Unchanged]_vars
  <2> SUFFICES ASSUME ScreensInv, Next, step = "form", def # Null
               PROVE  step' = "generate" /\ def' = def /\ (amount >= 0 => amount' = amount)
    OBVIOUS
  <2>1. /\ Entered(form) = def
        /\ \A cents \in FormCents(form.amount) : Fits(cents) /\ (amount >= 0 => cents = amount)
    BY Untouched
  <2>2. ~Reject
    BY <2>1 DEF Reject
  <2>3. Submit
    BY <2>2 DEF Next, Generate, Store, Edit, Clock, MarkPaid
  <2>4. step' = "generate" /\ def' = def
    BY <2>1, <2>3 DEF Submit, Call
  <2>5. amount >= 0 => amount' = amount
    BY <2>1, <2>3 DEF Submit
  <2> QED BY <2>4, <2>5
<1> QED BY <1>1, ScreensInvariant, PTL DEF Spec, PrefillKeeps

=============================================================================
