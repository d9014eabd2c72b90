----------------------------- MODULE LeaseTable -----------------------------
(***************************************************************************)
(* What the IP allocator promises, with the requests, the locks and the    *)
(* search for an address abstracted away: every network has a table of     *)
(* leases, a step grants one free address to a container that has none on  *)
(* that network, or takes back everything one container holds there.       *)
(* No lease is ever moved, overwritten or lost.                            *)
(***************************************************************************)
CONSTANTS Networks, Containers, Addresses, Nil

VARIABLE lease     \* lease[n][a]: the container holding a on network n, or Nil

Empty == [a \in Addresses |-> Nil]

Init == lease = [n \in Networks |-> Empty]

\* A free address goes to a container that is not on the network yet.
Grant(n, c, a) ==
  /\ lease[n][a] = Nil
  /\ \A b \in Addresses : lease[n][b] # c
  /\ lease' = [lease EXCEPT ![n] = [@ EXCEPT ![a] = c]]

\* Whatever c holds on n becomes free.
Revoke(n, c) ==
  lease' = [lease EXCEPT ![n] =
              [a \in Addresses |-> IF @[a] = c THEN Nil ELSE @[a]]]

Next == \E n \in Networks, c \in Containers :
          \/ \E a \in Addresses : Grant(n, c, a)
          \/ Revoke(n, c)

Spec == Init /\ [][Next]_lease
=============================================================================
