---------------------------- MODULE MCSandboxes ----------------------------
(* Small instances of Sandboxes for TLC. *)
EXTENDS Sandboxes

CONSTANTS c1, c2, c3

TwoContainers == {c1, c2}
ThreeContainers == {c1, c2, c3}

NoFaults == {}
AllFaults == Fallible
=============================================================================
