----------------------------- MODULE BillLedger -----------------------------
(***************************************************************************)
(* What the bill tables promise to someone who only looks at bills and      *)
(* their occurrences: a bill is opened once and closed once, its identity   *)
(* is never given to another bill, an occurrence of an open bill becomes    *)
(* due once and is paid once, and closing a bill forgets its occurrences.   *)
(* Nothing is ever un-paid, and no occurrence outlives its bill.  It is an  *)
(* abstract view of internal/models/bill.go and the schema.                 *)
(***************************************************************************)
CONSTANTS Bills, Dates

VARIABLES bill, occurrence

Init ==
    /\ bill = [b \in Bills |-> "free"]
    /\ occurrence = [b \in Bills |-> [d \in Dates |-> "none"]]

Open(b) ==
    /\ bill[b] = "free"
    /\ bill' = [bill EXCEPT ![b] = "open"]
    /\ UNCHANGED occurrence

Close(b) ==
    /\ bill[b] = "open"
    /\ bill' = [bill EXCEPT ![b] = "gone"]
    /\ occurrence' = [occurrence EXCEPT ![b] = [d \in Dates |-> "none"]]

FallDue(b, d) ==
    /\ bill[b] = "open"
    /\ occurrence[b][d] = "none"
    /\ occurrence' = [occurrence EXCEPT ![b][d] = "due"]
    /\ UNCHANGED bill

Pay(b, d) ==
    /\ occurrence[b][d] = "due"
    /\ occurrence' = [occurrence EXCEPT ![b][d] = "paid"]
    /\ UNCHANGED bill

Next == \E b \in Bills : \/ Open(b) \/ Close(b)
                         \/ \E d \in Dates : FallDue(b, d) \/ Pay(b, d)

Spec == Init /\ [][Next]_<<bill, occurrence>>

=============================================================================
