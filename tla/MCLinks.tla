------------------------------ MODULE MCLinks -------------------------------
(* Instances of Links for TLC. *)
EXTENDS Links

CONSTANTS c1, c2, c3

ThreeContainers == {c1, c2, c3}
TwoVNIs == {1, 2}

\* Two containers share a network.
Nets == [c \in Containers |-> IF c = c3 THEN 2 ELSE 1]
OneRoute == <<7>>
=============================================================================
