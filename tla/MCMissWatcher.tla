--------------------------- MODULE MCMissWatcher ---------------------------
(* Small instances of MissWatcher for TLC. *)
EXTENDS MissWatcher

CONSTANTS a1, here, there

OneAddress == {a1}
OneName == {here}
TwoNames == {here, there}

NoFaults == {}
AllFaults == Fallible
=============================================================================
