------------------------------ MODULE MCDaemon ------------------------------
(* Instances of Daemon for TLC. *)
EXTENDS Daemon

CONSTANTS c1, c2, n1, n2, p1, p2

TwoContainers == {c1, c2}
TwoNetworks == {n1, n2}
TwoProcs == {p1, p2}

\* Two containers of the default network, one of which names it and one
\* names no space; and two containers of two networks.
OneOrTwoSpaces ==
  {[c \in Containers |-> IF c = c1 THEN Missing ELSE n] : n \in {n1, n2}}

\* No two of the networks have the same digest.
Digests == (n1 :> 1) @@ (n2 :> 2)

\* An overlay of eight addresses; the local subnet of this host is its first
\* half, of which two addresses can be leased.
Good ==
  [LocalSubnet |-> [ip |-> 4, size |-> 4, step |-> 4], Index |-> 1,
   OverlayNetwork |-> [ip |-> 9, size |-> 8, step |-> 0],
   OverlayDNSAddress |-> 15, ExternalDNSServer |-> 1, HostAddress |-> 2,
   Database |-> 0, ListenHost |-> 0, ListenPort |-> 1, SandboxDir |-> 0,
   Suffix |-> 0]

\* Each of the others differs from Good in one field.
ManyFiles ==
  {Good, Missing, Bad,
   [Good EXCEPT !.Index = 3],
   [Good EXCEPT !.Index = 9],
   [Good EXCEPT !.Index = -1],
   [Good EXCEPT !.OverlayDNSAddress = 7],
   [Good EXCEPT !.HostAddress = 0]}
   \cup {[Good EXCEPT ![f] = Missing] : f \in Required}
   \cup {[Good EXCEPT ![f] = Bad] : f \in Parsed \cup {"Database"}}

OneFile == {Good}

\* What Good leases, and what the subnet outside of the overlay would.
AddressPool == {10, 11, 18, 19}

NoFaults == {}
AllFaults == Fallible

Symmetry == Permutations(Procs)
=============================================================================
