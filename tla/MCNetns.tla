------------------------------ MODULE MCNetns -------------------------------
(* Instances of Netns for TLC. *)
EXTENDS Netns, TLC

CONSTANTS r1, r2, t1, t2, t3, host, s1

TwoCallers == {r1, r2}
ThreeThreads == {t1, t2, t3}
TwoSpaces == {host, s1}
=============================================================================
