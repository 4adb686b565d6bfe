------------------------------ MODULE DueDates ------------------------------
(***************************************************************************)
(* models.NextDueDates: the occurrences of a bill inside a window of days. *)
(* Days and months are numbered from an arbitrary January 1st; the         *)
(* calendar is a parameter, First[m] being the first day of month m.  One  *)
(* step is one turn of the loop over the months; Screens makes the calls.  *)
(* Bills uses what is established here: the result is the part of a fixed  *)
(* set of days that falls in the window.                                   *)
(***************************************************************************)
EXTENDS Integers, Sequences

CONSTANTS
    First,  \* First[m]: the first day of month m
    Null    \* a NULL column

\* the fields of BillDefinition that NextDueDates looks at
Definition == [type : {"monthly", "quarterly", "one_off", "vendor"},
               day   : 1..31 \cup {Null},   \* DayOfMonth
               start : 1..3 \cup {Null},    \* QuarterStartMonth
               date  : Nat \cup {Null}]     \* OneOffDate

ASSUME DueDatesAssumption ==
    /\ Null \notin Int
    /\ \A m \in DOMAIN First : m \in Nat /\ First[m] \in Nat
    /\ \A m \in DOMAIN First : 0..m \subseteq DOMAIN First
    /\ \A m, n \in DOMAIN First : m < n => First[m] < First[n]

VARIABLES
    def,     \* the definition
    from,    \* the window, both ends included
    to,
    cursor,  \* the month the loop is at
    out,     \* the occurrences found so far
    pc       \* "idle" (not called yet), "loop" or "done"

\* the month a day is in
InMonth(d, m) == First[m] <= d /\ m + 1 \in DOMAIN First /\ d < First[m + 1]
MonthOf(d)    == CHOOSE m \in DOMAIN First : InMonth(d, m)

LastDay(m) == First[m + 1] - First[m]

\* cursor.Month(): 1 for January
MonthNumber(m) == (m % 12) + 1

\* the % of Go, which takes the sign of its left operand
Rem(a, b) == IF a >= 0 THEN a % b ELSE -((-a) % b)

\* monthDue
MonthDue(m) ==
    def.type # "quarterly" \/ Rem(Rem(MonthNumber(m) - def.start, 3) + 3, 3) = 0

\* wrong: a short month carries the day over into the next one
OccurrenceOverflows(m) == First[m] + def.day - 1

\* the day of month, clamped to the last day of a short month
Occurrence(m) == First[m] + (IF def.day > LastDay(m) THEN LastDay(m) ELSE def.day) - 1

\* definitions the loop is not reached for
NoLoop ==
    \/ def.type \in {"vendor", "one_off"}
    \/ def.day = Null
    \/ def.type = "quarterly" /\ def.start = Null

\* the one-off date, or nothing
WithoutLoop ==
    IF def.type = "one_off" /\ def.date # Null /\ def.date >= from /\ def.date <= to
    THEN <<def.date>> ELSE <<>>

\* the call: the window is a number of days from today on
Call(d, today, days) ==
    /\ def' = d
    /\ from' = today /\ to' = today + days
    /\ cursor' = MonthOf(today)
    /\ out' = <<>>
    /\ pc' = "loop"

Return ==
    /\ pc = "loop"
    /\ NoLoop
    /\ out' = WithoutLoop
    /\ pc' = "done"
    /\ UNCHANGED <<def, from, to, cursor>>

\* wrong: a month that is not due is left without moving the cursor on
TurnContinues ==
    /\ pc = "loop"
    /\ ~NoLoop
    /\ First[cursor] <= to
    /\ out' = IF MonthDue(cursor) /\ Occurrence(cursor) >= from /\ Occurrence(cursor) <= to
              THEN Append(out, Occurrence(cursor)) ELSE out
    /\ cursor' = IF MonthDue(cursor) THEN cursor + 1 ELSE cursor
    /\ UNCHANGED <<def, from, to, pc>>

\* one turn of the loop
Turn ==
    /\ pc = "loop"
    /\ ~NoLoop
    /\ First[cursor] <= to
    /\ out' = IF MonthDue(cursor) /\ Occurrence(cursor) >= from /\ Occurrence(cursor) <= to
              THEN Append(out, Occurrence(cursor)) ELSE out
    /\ cursor' = cursor + 1
    /\ UNCHANGED <<def, from, to, pc>>

LoopEnds ==
    /\ pc = "loop"
    /\ ~NoLoop
    /\ First[cursor] > to
    /\ pc' = "done"
    /\ UNCHANGED <<def, from, to, cursor, out>>

NextDueDates == Return \/ Turn \/ LoopEnds

-----------------------------------------------------------------------------
(* What a schedule means, day by day *)

\* d is the day of the month the bill falls on, or the last one of a month that
\* has no such day; for a quarterly bill the month is a whole number of quarters
\* away from its start month
DueOn(d) ==
    LET m   == MonthOf(d)
        dom == d - First[m] + 1
    IN CASE def.type = "vendor"  -> FALSE
         [] def.type = "one_off" -> d = def.date
         [] OTHER -> /\ def.day # Null
                     /\ dom = def.day \/ (dom < def.day /\ d + 1 = First[m + 1])
                     /\ def.type = "quarterly" =>
                          /\ def.start # Null
                          /\ \E q \in 0..3 : MonthNumber(m) = def.start + 3 * q

\* NextDueDates returns exactly the days of the window the bill falls on, each
\* once and in order, whatever the window cuts through: short months, leap
\* years, the turn of the year (bill.go NextDueDates).
OccurrencesExact ==
    pc = "done" =>
        /\ {out[i] : i \in DOMAIN out} = {d \in from..to : DueOn(d)}
        /\ \A i, j \in DOMAIN out : i < j => out[i] < out[j]

=============================================================================
