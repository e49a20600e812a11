--------------------------- MODULE MCPublicSummary ---------------------------
(* Threads and payloads of the registry's runs. *)
EXTENDS PublicSummary, TLC

CONSTANTS a1, a2

TwoAdmins == {a1, a2}
AdminSymmetry == Permutations(TwoAdmins)

Codes == {200, 503}
Defaults == {<<>>}
MinOnly == {[min |-> 500]}
SomeUpdates == {[max |-> 200], [paused |-> TRUE]}
NoUpdates == {}
=============================================================================
