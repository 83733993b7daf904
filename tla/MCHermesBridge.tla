---------------------------- MODULE MCHermesBridge ----------------------------
(* Values and symmetry with which TLC checks HermesBridge.                  *)
EXTENDS HermesBridge, TLC

\* What other jobs may leave in approval_denials and approval_allows: nothing,
\* a permanent allow, or a permanent denial.
NoPolicy   == {[allow |-> FALSE, deny |-> FALSE]}
AnyPolicy  == NoPolicy \cup {[allow |-> TRUE, deny |-> FALSE], [allow |-> FALSE, deny |-> TRUE]}

\* Safety runs only: which of two callers, or of two River rows, acts is immaterial.
CallerSymmetry   == Permutations(Callers)
DeliverySymmetry == Permutations(Deliveries)
=============================================================================
