----------------------------- MODULE MCRelease -----------------------------
(* Instances of Release for TLC. *)
EXTENDS Release

V(mi, pa, d) == [major |-> 1, minor |-> mi, patch |-> pa, dev |-> d]

\* a lower, an equal and a higher dev tag, and a release
MCRunnable == {V(0, 1, TRUE), V(0, 0, FALSE)}
MCTaggable == {V(0, 0, TRUE), V(0, 1, TRUE), V(1, 0, TRUE), V(0, 1, FALSE)}

=============================================================================
