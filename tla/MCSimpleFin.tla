---------------------------- MODULE MCSimpleFin ----------------------------
(* Instances of SimpleFin for TLC. *)
EXTENDS SimpleFin, TLC

CONSTANTS u1, u2, x1, x2, q1, q2, g1

\* a parent changes from one bridge to another; a new token for the same bridge
TwoBridges == (u1 :> {x1}) @@ (u2 :> {x2})
OneBridge  == (u1 :> {x1})

=============================================================================
