---------------------------- MODULE MCScreens ----------------------------
(* Instances of Screens for TLC: the Gregorian calendar, from 2023 on. *)
EXTENDS Screens

MonthLengths == <<31, 28, 31, 30, 31, 30, 31, 31, 30, 31, 30, 31>>

Length(m) == IF m % 12 = 1 /\ (2023 + m \div 12) % 4 = 0 THEN 29 ELSE MonthLengths[(m % 12) + 1]

MCFirst[m \in 0..36] == IF m = 0 THEN 0 ELSE MCFirst[m - 1] + Length(m - 1)

Form(schedule, day, start, date) ==
    [named |-> TRUE, managed |-> FALSE, connector |-> FALSE, schedule |-> schedule,
     amount |-> <<"1", ".", "5">>, day |-> day, start |-> start, date |-> date]

Bill(f, day, ahead, z, later) ==
    [form |-> f, day |-> day, ahead |-> ahead, zone |-> z, later |-> later]

\* every shape of schedule the table admits
Schedules ==
    {Form("monthly", Itoa[d], <<>>, Null) : d \in {1, 28, 29, 30, 31}}
    \cup {Form("quarterly", Itoa[d], Itoa[s], Null) : d \in {1, 30, 31}, s \in 1..3}
    \cup {Form("one_off", <<>>, <<>>, o) : o \in {334, 400}}

\* windows of a day, a month and the default lookahead, from around the ends of
\* months before and after the turn of a year, a February 28th and a 29th
Starts  == (28..32) \cup (57..60) \cup (332..336) \cup (362..366) \cup (393..396) \cup (421..426)
Windows == {Bill(f, d, n, 0, {}) : f \in Schedules, d \in Starts, n \in {0, 30, 60}}

\* fields left empty or out of range, a file's entries
Refusable ==
    {Form(s, d, q, o) : s \in {"monthly", "quarterly", "one_off", ""},
                        d \in {<<>>, <<"0">>, <<"1">>, <<"3", "1">>, <<"3", "2">>},
                        q \in {<<>>, <<"0">>, <<"3">>, <<"4">>}, o \in {Null, 31}}
Filed == {[f EXCEPT !.managed = TRUE, !.named = n, !.connector = c] :
              f \in Refusable, n \in BOOLEAN, c \in BOOLEAN}

\* texts of up to five characters, which reach past the int64 of screens.cfg, one
\* the column is only just too small for, and one of more digits than its floats
\* tell apart, a little less than half a cent above a whole number of them
Amounts == {SubSeq(t, 1, n) : t \in [1..5 -> {"-", "0", "5", "9", "."}], n \in 0..5}
              \cup {<<"4", "0", ".", "9", "6">>, <<"1", ".", "4", "9", "4", "9", "9", "9">>}

\* looked at around midnight and around the hours at which the day changes in
\* UTC, on the day, on the two after it, and a month later
Moments == {24 * d + h : d \in {0, 1, 2, 31}, h \in {0, 9, 14, 23}}

MCCases ==
    Windows
    \cup {Bill(f, 31, 60, 0, {}) : f \in Refusable \cup Filed}
    \cup {Bill([Form("monthly", <<"5">>, <<>>, Null) EXCEPT !.amount = t], 31, 0, 0, {}) : t \in Amounts}
    \cup {Bill(f, 31, 60, z, Moments) :
              f \in {Form("monthly", <<"5">>, <<>>, Null), Form("one_off", <<>>, <<>>, 32),
                     Form("one_off", <<>>, <<>>, 91)},
              z \in {-10, -5, 0, 10, 14}}

MCDates == {31, 32, 91, 334, 400}

=============================================================================
