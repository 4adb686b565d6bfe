------------------------------ MODULE MCBills ------------------------------
(* Instances of Bills for TLC. *)
EXTENDS Bills, TLC

CONSTANTS n1, n2, s1, s2, r1, r2

\* the days the schedules fall on; some lie past the lookahead window
Occ0 == (s1 :> {}) @@ (s2 :> {1})
Occ1 == (s1 :> {0, 2})
Occ2 == (s1 :> {2}) @@ (s2 :> {0, 1})

RequestSymmetry == Permutations(Requests)

Manual(n, s, a) == [name |-> n, ok |-> TRUE, sched |-> s, amt |-> a, login |-> FALSE]
Broken(n)       == [name |-> n, ok |-> FALSE, sched |-> s1, amt |-> 1, login |-> FALSE]
Portal(n, a)    == [name |-> n, ok |-> TRUE, sched |-> Vendor, amt |-> a, login |-> TRUE]
NoLogin(n)      == [name |-> n, ok |-> TRUE, sched |-> Vendor, amt |-> 0, login |-> FALSE]

OneManual == {<<Manual(n1, s1, 1)>>}
TwoKinds  == {<<Manual(n1, s1, 1)>>, <<Portal(n1, 1)>>}

\* one bill moves between a portal and a manual schedule, and is listed twice with
\* different schedules; another has no login, becomes invalid
MixedFiles == {<<Portal(n1, 0), Broken(n2)>>,
               <<Manual(n1, s1, 1), NoLogin(n2), Manual(n1, s2, 1)>>}

=============================================================================
