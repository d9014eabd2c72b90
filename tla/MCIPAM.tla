------------------------------- MODULE MCIPAM -------------------------------
(* Small instances of IPAM for TLC. *)
EXTENDS IPAM, TLC

CONSTANTS n1, c1, c2, c3, p1, p2, p3

OneNetwork == {n1}
TwoContainers == {c1, c2}
ThreeContainers == {c1, c2, c3}
TwoProcs == {p1, p2}
ThreeProcs == {p1, p2, p3}

\* cmd/ducatid/main.go configures no gateway.
NoGatewayConfigured == NoGateway

\* Containers and goroutines are interchangeable; the invariants
\* and the refinement mention no particular one.
Symmetry == Permutations(Containers) \cup Permutations(Procs)
=============================================================================
