---------------------------- MODULE MCStatusPages ----------------------------
(* Threads of the run of the status page. *)
EXTENDS StatusPages, TLC

CONSTANTS a1, a2

TwoAdmins == {a1, a2}
AdminSymmetry == Permutations(TwoAdmins)
=============================================================================
