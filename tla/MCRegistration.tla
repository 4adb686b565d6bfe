--------------------------- MODULE MCRegistration ---------------------------
(* Instances of Registration for TLC. *)
EXTENDS Registration

CONSTANTS c1, c2, t1, t2, t3, k1, k2

=============================================================================
