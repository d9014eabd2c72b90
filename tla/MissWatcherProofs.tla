------------------------- MODULE MissWatcherProofs -------------------------
(***************************************************************************)
(* Proofs about MissWatcher, for every number of monitors, places and      *)
(* teardowns and whatever calls fail.                                      *)
(***************************************************************************)
EXTENDS MissWatcher, TLAPS

USE DEF None

LEMMA TypeInit == Init => TypeOK
  BY WatcherAssumption
  DEF Init, TypeOK, Everywhere, NoEntries, Nobody, Neighbors, Monitors, Places

LEMMA TypeNext == TypeOK /\ [Next]_vars => TypeOK'
<1> SUFFICES ASSUME TypeOK, [Next]_vars PROVE TypeOK'
  OBVIOUS
<1> USE WatcherAssumption
<1>1. ASSUME NEW m \in Monitors, StartMonitor(m) PROVE TypeOK'
  BY <1>1 DEF TypeOK, StartMonitor, kernelVars, subscriberVars, storeVars
<1>2. ASSUME NEW m \in Monitors, NEW ok \in BOOLEAN, FindLink(m, ok) PROVE TypeOK'
  BY <1>2 DEF TypeOK, FindLink, kernelVars, subscriberVars, storeVars
<1>3. ASSUME NEW m \in Monitors, NEW ok \in BOOLEAN, Subscribe(m, ok) PROVE TypeOK'
  BY <1>3 DEF TypeOK, Subscribe, kernelVars, pipeVars, storeVars
<1>4. ASSUME NEW m \in Monitors, Spawn(m) PROVE TypeOK'
  BY <1>4 DEF TypeOK, Spawn, kernelVars, subscriberVars, storeVars
<1>5. CASE StopMonitor
  BY <1>5 DEF TypeOK, StopMonitor, kernelVars, subscriberVars, pipeVars, storeVars
<1>6. ASSUME NEW m \in Monitors, CloseSocket(m) PROVE TypeOK'
  BY <1>6 DEF TypeOK, CloseSocket, watcherVars, kernelVars, pipeVars, storeVars
<1>7. ASSUME NEW m \in Monitors, Receiver(m) PROVE TypeOK'
  <2>1. CASE ReceiverEnds(m)
    BY <2>1 DEF TypeOK, ReceiverEnds, watcherVars, kernelVars, pipeVars, storeVars
  <2>2. CASE SkipMessage(m)
    BY <2>2 DEF TypeOK, SkipMessage, AtMessage, watcherVars, kernelVars, pipeVars,
                storeVars
  <2>3. CASE SendMiss(m)
    <3>1. /\ queue[m] \in Seq(Messages) /\ queue[m] # <<>>
          /\ Head(queue[m]).ip # Nil
      BY <2>3 DEF TypeOK, SendMiss, AtMessage, Skips
    <3>2. Head(queue[m]) \in Messages /\ Tail(queue[m]) \in Seq(Messages)
      BY <3>1
    <3>3. Head(queue[m]).ip \in Addresses
      BY <3>1, <3>2 DEF Messages
    <3> QED
      BY <2>3, <3>2, <3>3 DEF TypeOK, SendMiss, watcherVars, kernelVars, storeVars
  <2> QED
    BY <1>7, <2>1, <2>2, <2>3 DEF Receiver
<1>8. ASSUME NEW m \in Monitors, Forwarder(m) PROVE TypeOK'
  <2>1. CASE ForwarderEnds(m)
    BY <2>1 DEF TypeOK, ForwarderEnds, watcherVars, kernelVars, subscriberVars,
                storeVars
  <2>2. CASE Forward(m)
    BY <2>2 DEF TypeOK, Forward, Neighbors, watcherVars, kernelVars,
                subscriberVars, storeVars
  <2> QED
    BY <1>8, <2>1, <2>2 DEF Forwarder
<1>9. ASSUME NEW m \in Monitors, Resolver(m) PROVE TypeOK'
  <2>1. CASE Resolve(m)
    <3>1. unresolved[m] \in Neighbors /\ unresolved[m].ip \in Addresses
      BY <2>1 DEF TypeOK, Resolve
    <3>2. \A p \in Matches(Path(Watched), unresolved[m].ip) : p \in Places
      BY <3>1 DEF TypeOK, Matches, Path, Base
    <3>3. /\ UNCHANGED <<forwarder, miss, inserter, resolved>>
          /\ UNCHANGED watcherVars /\ UNCHANGED kernelVars
          /\ UNCHANGED subscriberVars /\ UNCHANGED storeVars
      BY <2>1 DEF Resolve
    <3>4. CASE \E p \in Places :
                 /\ resolver' = [resolver EXCEPT ![m] = "send"]
                 /\ unresolved' = [unresolved EXCEPT ![m] = [ip |-> @.ip, place |-> p]]
      BY <3>1, <3>3, <3>4 DEF TypeOK, Neighbors, watcherVars, kernelVars,
                              subscriberVars, storeVars
    <3>5. CASE /\ resolver' = [resolver EXCEPT ![m] = "range"]
               /\ unresolved' = [unresolved EXCEPT ![m] = Nobody]
      BY <3>3, <3>5 DEF TypeOK, Neighbors, Nobody, watcherVars, kernelVars,
                        subscriberVars, storeVars
    <3> QED
      BY <2>1, <3>2, <3>4, <3>5 DEF Resolve
  <2>2. CASE SendNeighbor(m)
    BY <2>2 DEF TypeOK, SendNeighbor, Neighbors, Nobody, watcherVars, kernelVars,
                subscriberVars, storeVars
  <2> QED
    BY <1>9, <2>1, <2>2 DEF Resolver
<1>10. ASSUME NEW x \in Messages, Notify(x) PROVE queue' \in [Monitors -> Seq(Messages)]
  BY <1>10 DEF TypeOK, Notify
<1>11. ASSUME NEW m \in Monitors, Inserter(m) PROVE TypeOK'
  <2>1. ASSUME NEW ok \in BOOLEAN, SetNeigh(m, ok) PROVE TypeOK'
    <3>1. resolved[m].ip \in Addresses /\ resolved[m].place \in Places
      BY <2>1 DEF TypeOK, SetNeigh
    <3>2. queue' \in [Monitors -> Seq(Messages)]
      BY <2>1, <3>1, <1>10 DEF TypeOK, SetNeigh, Messages
    <3> QED
      BY <2>1, <3>1, <3>2 DEF TypeOK, SetNeigh, Neighbors, Nobody, watcherVars,
                              storeVars
  <2>2. ASSUME NEW ok \in BOOLEAN, SetForward(m, ok) PROVE TypeOK'
    BY <2>2 DEF TypeOK, SetForward, Neighbors, Nobody, watcherVars,
                subscriberVars, storeVars
  <2> QED
    BY <1>11, <2>1, <2>2 DEF Inserter
<1>12. CASE Raising
  <2>1. queue' \in [Monitors -> Seq(Messages)]
    BY <1>12, <1>10 DEF Raising, Raise, RaiseStray, Messages
  <2>2. /\ UNCHANGED <<socket, receiver>> /\ UNCHANGED watcherVars
        /\ UNCHANGED kernelVars /\ UNCHANGED pipeVars /\ UNCHANGED storeVars
    BY <1>12 DEF Raising, Raise, RaiseStray
  <2> QED
    BY <2>1, <2>2 DEF TypeOK, watcherVars, kernelVars, pipeVars, storeVars
<1>13. CASE DeleteDevice
  BY <1>13 DEF TypeOK, DeleteDevice, NoEntries, watcherVars, subscriberVars,
               pipeVars, storeVars
<1>14. CASE NewNamespace
  <2>1. namespace' \in 1..(MaxTeardowns + 1) /\ device' \in BOOLEAN
    <3>1. MaxTeardowns \in Int /\ namespace \in Int /\ 1 <= namespace
      BY DEF TypeOK
    <3> QED
      BY <3>1, <1>14 DEF NewNamespace
  <2> QED
    BY <1>14, <2>1 DEF TypeOK, NewNamespace, watcherVars, subscriberVars,
                       pipeVars, storeVars
<1>15. ASSUME NEW n \in Names, NEW a \in Addresses, Create(n, a) PROVE TypeOK'
  <2>1. /\ recorded' \in Seq(Names \X Addresses)
        /\ Len(recorded') = Len(recorded) + 1 /\ Len(recorded') <= MaxPlaces
    BY <1>15 DEF TypeOK, Create
  <2>2. Len(recorded') \in Places
    BY <2>1 DEF TypeOK, Places
  <2>3. store' \in [Names -> [Addresses -> Places \cup {None}]]
    BY <1>15, <2>2 DEF TypeOK, Create
  <2> QED
    BY <1>15, <2>1, <2>3 DEF TypeOK, Create, watcherVars, kernelVars,
                             subscriberVars, pipeVars
<1>16. ASSUME NEW n \in Names, NEW a \in Addresses, Delete(n, a) PROVE TypeOK'
  BY <1>16 DEF TypeOK, Delete, watcherVars, kernelVars, subscriberVars, pipeVars
<1>17. CASE UNCHANGED vars
  BY <1>17 DEF TypeOK, vars, watcherVars, kernelVars, subscriberVars, pipeVars,
               storeVars
<1> QED
  BY <1>1, <1>2, <1>3, <1>4, <1>5, <1>6, <1>7, <1>8, <1>9, <1>11, <1>12, <1>13,
     <1>14, <1>15, <1>16, <1>17 DEF Next, Goroutine, Starter

-----------------------------------------------------------------------------
Called(m) == start[m] # "unused"

\* Every monitor that was ever started can be stopped or has been: stronger
\* than SubscriptionsCanBeStopped, which is about those that got as far as a
\* socket.
StopInv ==
  /\ start \in [Monitors -> {"unused", "ready", "subscribe", "spawn",
                             "started", "failed"}]
  /\ socket \in [Monitors -> {"none", "open", "closed"}]
  /\ \A m \in Monitors : socket[m] = "open" => Called(m)
  /\ \A m \in Monitors : Called(m) => m \in done \/ DoneChans = m

LEMMA StopStep ==
  ASSUME OneAtATime, StopInv, [Next]_vars
  PROVE  StopInv'
<1> USE DEF StopInv, Called
<1>1. ASSUME NEW m \in Monitors, StartMonitor(m) PROVE StopInv'
  BY <1>1 DEF StartMonitor, subscriberVars, Monitors, None
<1>2. ASSUME NEW m \in Monitors, NEW ok \in BOOLEAN, FindLink(m, ok) PROVE StopInv'
  BY <1>2 DEF FindLink, subscriberVars
<1>3. ASSUME NEW m \in Monitors, NEW ok \in BOOLEAN, Subscribe(m, ok) PROVE StopInv'
  BY <1>3 DEF Subscribe
<1>4. ASSUME NEW m \in Monitors, Spawn(m) PROVE StopInv'
  BY <1>4 DEF Spawn, subscriberVars
<1>5. CASE StopMonitor
  BY <1>5 DEF StopMonitor, subscriberVars
<1>6. ASSUME NEW m \in Monitors, CloseSocket(m) PROVE StopInv'
  BY <1>6 DEF CloseSocket, watcherVars
<1>7. ASSUME UNCHANGED watcherVars, UNCHANGED socket PROVE StopInv'
  BY <1>7 DEF watcherVars
<1>8. ASSUME NEW m \in Monitors, Receiver(m) PROVE StopInv'
  BY <1>8, <1>7 DEF Receiver, ReceiverEnds, SkipMessage, SendMiss
<1>9. ASSUME NEW m \in Monitors, Forwarder(m) \/ Resolver(m) PROVE StopInv'
  BY <1>9, <1>7 DEF Forwarder, ForwarderEnds, Forward, Resolver, Resolve,
                    SendNeighbor, subscriberVars
<1>10. ASSUME NEW m \in Monitors, Inserter(m) PROVE StopInv'
  BY <1>10, <1>7 DEF Inserter, SetNeigh, SetForward, subscriberVars
<1>11. CASE Raising \/ DeleteDevice \/ NewNamespace
  BY <1>11, <1>7 DEF Raising, Raise, RaiseStray, DeleteDevice, NewNamespace,
                     subscriberVars
<1>12. ASSUME NEW n \in Names, NEW a \in Addresses, Create(n, a) \/ Delete(n, a)
       PROVE StopInv'
  BY <1>12, <1>7 DEF Create, Delete, subscriberVars
<1>13. CASE UNCHANGED vars
  BY <1>13, <1>7 DEF vars, subscriberVars
<1> QED
  BY <1>1, <1>2, <1>3, <1>4, <1>5, <1>6, <1>8, <1>9, <1>10, <1>11, <1>12, <1>13
     DEF Next, Goroutine, Starter

\* If a monitor is started only when no other is entered in DoneChans, no
\* subscription is out of the reach of StopMonitor.
THEOREM Stoppable ==
  ASSUME OneAtATime
  PROVE  Spec => []SubscriptionsCanBeStopped
<1>1. Init => StopInv
  BY DEF Init, Everywhere, StopInv, Called
<1>2. StopInv => SubscriptionsCanBeStopped
  BY DEF StopInv, SubscriptionsCanBeStopped
<1>3. StopInv /\ [Next]_vars => StopInv'
  BY StopStep
<1> QED
  BY <1>1, <1>2, <1>3, PTL DEF Spec

-----------------------------------------------------------------------------
(***************************************************************************)
(* What is in the neighbour table was recorded for the sandbox: every      *)
(* stage of every pipeline keeps it so, and a record never changes what    *)
(* was recorded before.                                                    *)
(***************************************************************************)
Genuine(n, a, p) == p \in 1..Len(recorded) /\ recorded[p] = <<n, a>>

RecordInv ==
  /\ \A n \in Names, a \in Addresses :
       store[n][a] # None => Genuine(n, a, store[n][a])
  /\ \A m \in Monitors :
       resolver[m] = "send" =>
         Genuine(Watched, unresolved[m].ip, unresolved[m].place)
  /\ \A m \in Monitors :
       inserter[m] \in {"l3", "l2"} =>
         Genuine(Watched, resolved[m].ip, resolved[m].place)
  /\ \A a \in Addresses : neigh[a] # None => Genuine(Watched, a, neigh[a])

LEMMA RecordStep ==
  ASSUME TypeOK, RecordInv, [Next]_vars
  PROVE  RecordInv'
<1> USE WatcherAssumption DEF RecordInv, Genuine
<1>0. ASSUME UNCHANGED <<store, recorded, neigh, resolver, unresolved, inserter, resolved>>
      PROVE  RecordInv'
  BY <1>0
<1>1. ASSUME NEW m \in Monitors, StartMonitor(m) PROVE RecordInv'
  BY <1>1 DEF TypeOK, StartMonitor, kernelVars, storeVars
<1>2. ASSUME NEW m \in Monitors, Starter(m) PROVE RecordInv'
  <2>1. ASSUME NEW ok \in BOOLEAN, FindLink(m, ok) PROVE RecordInv'
    BY <2>1 DEF TypeOK, FindLink, kernelVars, storeVars
  <2>2. ASSUME NEW ok \in BOOLEAN, Subscribe(m, ok) PROVE RecordInv'
    BY <2>2, <1>0 DEF Subscribe, kernelVars, pipeVars, storeVars
  <2>3. CASE Spawn(m)
    BY <2>3 DEF TypeOK, Spawn, kernelVars, storeVars
  <2> QED
    BY <1>2, <2>1, <2>2, <2>3 DEF Starter
<1>3. CASE StopMonitor \/ NewNamespace
  BY <1>3, <1>0 DEF StopMonitor, NewNamespace, kernelVars, pipeVars, storeVars
<1>4. ASSUME NEW m \in Monitors, CloseSocket(m) \/ Receiver(m) PROVE RecordInv'
  BY <1>4, <1>0 DEF CloseSocket, Receiver, ReceiverEnds, SkipMessage, SendMiss,
                    kernelVars, pipeVars, storeVars
<1>5. ASSUME NEW m \in Monitors, Forwarder(m) PROVE RecordInv'
  <2>1. CASE ForwarderEnds(m)
    BY <2>1, <1>0 DEF ForwarderEnds, kernelVars, storeVars
  <2>2. CASE Forward(m)
    BY <2>2 DEF TypeOK, Forward, kernelVars, storeVars
  <2> QED
    BY <1>5, <2>1, <2>2 DEF Forwarder
<1>6. ASSUME NEW m \in Monitors, Resolver(m) PROVE RecordInv'
  <2>1. CASE Resolve(m)
    <3>1. unresolved[m].ip \in Addresses
      BY <2>1 DEF TypeOK, Resolve
    <3>2. \A p \in Matches(Path(Watched), unresolved[m].ip) :
            Genuine(Watched, unresolved[m].ip, p)
      BY <3>1 DEF Matches, Path, Base
    <3>3. UNCHANGED <<inserter, resolved, neigh, store, recorded>>
      BY <2>1 DEF Resolve, kernelVars, storeVars
    <3>4. ASSUME NEW p, Genuine(Watched, unresolved[m].ip, p),
                 resolver' = [resolver EXCEPT ![m] = "send"],
                 unresolved' = [unresolved EXCEPT ![m] = [ip |-> @.ip, place |-> p]]
          PROVE  RecordInv'
      BY <3>3, <3>4 DEF TypeOK
    <3>5. CASE /\ resolver' = [resolver EXCEPT ![m] = "range"]
               /\ unresolved' = [unresolved EXCEPT ![m] = Nobody]
      BY <3>3, <3>5 DEF TypeOK
    <3> QED
      BY <2>1, <3>2, <3>4, <3>5 DEF Resolve
  <2>2. CASE SendNeighbor(m)
    <3>1. UNCHANGED <<neigh, store, recorded>>
      BY <2>2 DEF SendNeighbor, kernelVars, storeVars
    <3>2. /\ resolver[m] = "send"
          /\ resolver' = [resolver EXCEPT ![m] = "range"]
          /\ unresolved' = [unresolved EXCEPT ![m] = Nobody]
          /\ inserter' = [inserter EXCEPT ![m] = "l3"]
          /\ resolved' = [resolved EXCEPT ![m] = unresolved[m]]
      BY <2>2 DEF SendNeighbor
    <3>3. ASSUME NEW k \in Monitors, resolver'[k] = "send"
          PROVE  Genuine(Watched, unresolved[k].ip, unresolved[k].place)'
      <4>1. k # m /\ resolver[k] = "send" /\ unresolved'[k] = unresolved[k]
        BY <3>2, <3>3 DEF TypeOK
      <4> QED BY <4>1, <3>1
    <3>4. ASSUME NEW k \in Monitors, inserter'[k] \in {"l3", "l2"}
          PROVE  Genuine(Watched, resolved[k].ip, resolved[k].place)'
      <4>1. CASE k = m
        <5>1. resolved'[k] = unresolved[m] BY <3>2, <4>1 DEF TypeOK
        <5> QED BY <5>1, <3>1, <3>2
      <4>2. CASE k # m
        <5>1. resolved'[k] = resolved[k] /\ inserter[k] \in {"l3", "l2"}
          BY <3>2, <3>4, <4>2 DEF TypeOK
        <5> QED BY <5>1, <3>1
      <4> QED BY <4>1, <4>2
    <3> QED BY <3>1, <3>3, <3>4
  <2> QED
    BY <1>6, <2>1, <2>2 DEF Resolver
<1>7. ASSUME NEW m \in Monitors, Inserter(m) PROVE RecordInv'
  <2>1. ASSUME NEW ok \in BOOLEAN, SetNeigh(m, ok) PROVE RecordInv'
    BY <2>1 DEF TypeOK, SetNeigh, storeVars
  <2>2. ASSUME NEW ok \in BOOLEAN, SetForward(m, ok) PROVE RecordInv'
    BY <2>2 DEF TypeOK, SetForward, storeVars
  <2> QED
    BY <1>7, <2>1, <2>2 DEF Inserter
<1>8. CASE Raising
  BY <1>8, <1>0 DEF Raising, Raise, RaiseStray, kernelVars, pipeVars, storeVars
<1>9. CASE DeleteDevice
  BY <1>9 DEF DeleteDevice, NoEntries, pipeVars, storeVars
<1>10. ASSUME NEW n \in Names, NEW a \in Addresses, Create(n, a) PROVE RecordInv'
  <2>1. /\ Len(recorded') = Len(recorded) + 1 /\ Len(recorded) \in Nat
        /\ recorded'[Len(recorded) + 1] = <<n, a>>
        /\ \A p \in 1..Len(recorded) : recorded'[p] = recorded[p]
    BY <1>10 DEF TypeOK, Create
  <2>2. store' = [store EXCEPT ![n] = [@ EXCEPT ![a] = Len(recorded) + 1]]
    BY <1>10, <2>1 DEF Create
  <2>3. UNCHANGED <<neigh, resolver, unresolved, inserter, resolved>>
    BY <1>10 DEF Create, kernelVars, pipeVars
  <2>4. ASSUME NEW x \in Names, NEW b \in Addresses, store'[x][b] # None
        PROVE  Genuine(x, b, store[x][b])'
    <3>1. CASE x = n /\ b = a
      <4>1. store'[x][b] = Len(recorded) + 1
        BY <2>2, <3>1 DEF TypeOK
      <4> QED
        BY <2>1, <3>1, <4>1
    <3>2. CASE ~(x = n /\ b = a)
      <4>1. store'[x][b] = store[x][b]
        BY <2>2, <3>2 DEF TypeOK
      <4> QED
        BY <2>1, <2>4, <4>1
    <3> QED
      BY <3>1, <3>2
  <2> QED
    BY <2>1, <2>3, <2>4
<1>11. ASSUME NEW n \in Names, NEW a \in Addresses, Delete(n, a) PROVE RecordInv'
  BY <1>11 DEF TypeOK, Delete, kernelVars, pipeVars
<1>12. CASE UNCHANGED vars
  BY <1>12, <1>0 DEF vars, kernelVars, pipeVars, storeVars
<1> QED
  BY <1>1, <1>2, <1>3, <1>4, <1>5, <1>6, <1>7, <1>8, <1>9, <1>10, <1>11, <1>12
     DEF Next, Goroutine

\* Every reachable state of the watcher has the types TypeOK declares: no
\* stage of a pipeline is handed a neighbour without what it needs.
THEOREM Typing == Spec => []TypeOK
  BY TypeInit, TypeNext, PTL DEF Spec

\* The ARP inserter writes only what the datastore recorded for the sandbox
\* and the address.
THEOREM Recorded == Spec => []InsertedWasRecorded
<1>1. Init => RecordInv
  BY DEF Init, RecordInv, NoEntries, Everywhere
<1>2. RecordInv => InsertedWasRecorded
  BY DEF RecordInv, Genuine, InsertedWasRecorded
<1>3. TypeOK /\ RecordInv /\ [Next]_vars => RecordInv'
  BY RecordStep
<1> QED
  BY <1>1, <1>2, <1>3, Typing, PTL DEF Spec

-----------------------------------------------------------------------------
(***************************************************************************)
(* The neighbour table never goes back. With one monitor at a time there   *)
(* is one pipeline per namespace, and what its stages have in hand for an  *)
(* address gets newer from the table up to the datastore. A pipeline of an *)
(* earlier namespace may hold anything: it writes to that namespace.       *)
(***************************************************************************)
Current(m) == nsOf[m] = namespace

LiveInv ==
  /\ \A m \in Monitors : nsOf[m] <= namespace
  /\ \A m \in Monitors :
       ~Called(m) => nsOf[m] = 0 /\ resolver[m] = "none" /\ inserter[m] = "none"
  /\ \A m, k \in Monitors : Current(m) /\ Current(k) => m = k

\* Place p is not younger than the record of the address, if it has one now.
Outdone(a, p) == store[Watched][a] # None => p <= store[Watched][a]

TableOrder == \A a \in Addresses : neigh[a] # None => Outdone(a, neigh[a])

PipeOrder(m) ==
  /\ inserter[m] = "l3" =>
       /\ Outdone(resolved[m].ip, resolved[m].place)
       /\ neigh[resolved[m].ip] <= resolved[m].place
  /\ resolver[m] = "send" =>
       /\ Outdone(unresolved[m].ip, unresolved[m].place)
       /\ neigh[unresolved[m].ip] <= unresolved[m].place
  /\ inserter[m] = "l3" /\ resolver[m] = "send" /\ resolved[m].ip = unresolved[m].ip =>
       resolved[m].place <= unresolved[m].place

OrderInv == TableOrder /\ \A m \in Monitors : Current(m) => PipeOrder(m)

LEMMA LiveStep ==
  ASSUME OneAtATime, TypeOK, StopInv, LiveInv, [Next]_vars
  PROVE  LiveInv'
<1> USE WatcherAssumption DEF LiveInv, Called, Current
<1>0. ASSUME UNCHANGED <<namespace, nsOf, start, resolver, inserter>>
      PROVE  LiveInv'
  BY <1>0
<1>1. ASSUME NEW m \in Monitors, StartMonitor(m) PROVE LiveInv'
  <2>1. /\ start' = [start EXCEPT ![m] = "ready"]
        /\ nsOf' = [nsOf EXCEPT ![m] = namespace]
        /\ inserter' = [inserter EXCEPT ![m] = "find"]
        /\ UNCHANGED <<resolver, namespace>>
    BY <1>1 DEF StartMonitor, kernelVars
  <2>2. \A k \in Monitors : Called(k) => nsOf[k] # namespace
    BY <1>1 DEF StartMonitor, StopInv, Monitors
  <2>3. \A k \in Monitors : nsOf[k] # namespace
    BY <2>2 DEF TypeOK
  <2> QED BY <2>1, <2>3 DEF TypeOK
<1>2. ASSUME NEW m \in Monitors, NEW ok \in BOOLEAN, FindLink(m, ok) PROVE LiveInv'
  BY <1>2 DEF FindLink, kernelVars, TypeOK
<1>3. ASSUME NEW m \in Monitors, NEW ok \in BOOLEAN, Subscribe(m, ok) PROVE LiveInv'
  BY <1>3 DEF Subscribe, kernelVars, pipeVars, TypeOK
<1>4. ASSUME NEW m \in Monitors, Spawn(m) PROVE LiveInv'
  BY <1>4 DEF Spawn, kernelVars, TypeOK
<1>5. ASSUME NEW m \in Monitors, CloseSocket(m) \/ Receiver(m) PROVE LiveInv'
  BY <1>5, <1>0 DEF CloseSocket, Receiver, ReceiverEnds, SkipMessage, SendMiss,
                    watcherVars, kernelVars, pipeVars
<1>6. ASSUME NEW m \in Monitors, Forwarder(m) PROVE LiveInv'
  <2>1. CASE ForwarderEnds(m)
    BY <2>1, <1>0 DEF ForwarderEnds, watcherVars, kernelVars
  <2>2. CASE Forward(m)
    BY <2>2 DEF Forward, watcherVars, kernelVars, TypeOK
  <2> QED BY <1>6, <2>1, <2>2 DEF Forwarder
<1>7. ASSUME NEW m \in Monitors, Resolver(m) PROVE LiveInv'
  <2>1. CASE Resolve(m)
    <3>1. /\ resolver[m] = "lookup"
          /\ \E s \in {"send", "range"} : resolver' = [resolver EXCEPT ![m] = s]
          /\ UNCHANGED <<namespace, nsOf, start, inserter>>
      BY <2>1 DEF Resolve, watcherVars, kernelVars
    <3> QED BY <3>1 DEF TypeOK
  <2>2. CASE SendNeighbor(m)
    BY <2>2 DEF SendNeighbor, watcherVars, kernelVars, TypeOK
  <2> QED BY <1>7, <2>1, <2>2 DEF Resolver
<1>8. ASSUME NEW m \in Monitors, Inserter(m) PROVE LiveInv'
  BY <1>8 DEF Inserter, SetNeigh, SetForward, watcherVars, TypeOK
<1>9. CASE StopMonitor \/ Raising \/ DeleteDevice
  BY <1>9, <1>0 DEF StopMonitor, Raising, Raise, RaiseStray, DeleteDevice,
                    watcherVars, kernelVars, pipeVars
<1>10. CASE NewNamespace
  <2>1. namespace' = namespace + 1 /\ UNCHANGED <<nsOf, start, resolver, inserter>>
    BY <1>10 DEF NewNamespace, watcherVars, pipeVars
  <2> QED BY <2>1 DEF TypeOK
<1>11. ASSUME NEW n \in Names, NEW a \in Addresses, Create(n, a) \/ Delete(n, a)
       PROVE  LiveInv'
  BY <1>11, <1>0 DEF Create, Delete, watcherVars, kernelVars, pipeVars
<1>12. CASE UNCHANGED vars
  BY <1>12, <1>0 DEF vars, watcherVars, kernelVars, pipeVars
<1> QED
  BY <1>1, <1>2, <1>3, <1>4, <1>5, <1>6, <1>7, <1>8, <1>9, <1>10, <1>11, <1>12
     DEF Next, Goroutine, Starter

\* What the steps of a pipeline m keep of the pipelines.
LEMMA OthersInOrder ==
  ASSUME TypeOK, LiveInv, OrderInv, NEW m \in Monitors,
         UNCHANGED <<store, nsOf, namespace>>, TableOrder',
         Current(m) => PipeOrder(m)',
         ~Current(m) => UNCHANGED neigh,
         \A k \in Monitors \ {m} :
           /\ resolver'[k] = resolver[k] /\ unresolved'[k] = unresolved[k]
           /\ inserter'[k] = inserter[k] /\ resolved'[k] = resolved[k]
  PROVE  OrderInv'
<1> SUFFICES ASSUME NEW k \in Monitors, Current(k)' PROVE PipeOrder(k)'
  BY DEF OrderInv
<1>1. Current(k)
  BY DEF Current
<1>2. CASE k = m
  BY <1>1, <1>2
<1>3. CASE k # m
  <2>1. ~Current(m)
    BY <1>1, <1>3 DEF LiveInv
  <2>2. PipeOrder(k) /\ UNCHANGED neigh
    BY <1>1, <2>1 DEF OrderInv
  <2> QED
    BY <1>3, <2>2 DEF PipeOrder, Outdone
<1> QED
  BY <1>2, <1>3

LEMMA OrderStep ==
  ASSUME TypeOK, RecordInv, LiveInv, OrderInv, [Next]_vars
  PROVE  OrderInv' /\ \A a \in Addresses : neigh'[a] # None => neigh'[a] >= neigh[a]
<1> DEFINE Forth == \A a \in Addresses : neigh'[a] # None => neigh'[a] >= neigh[a]
           Goal == OrderInv' /\ Forth
           inHand == <<resolver, unresolved, inserter, resolved>>
<1> SUFFICES Goal
  OBVIOUS
<1> USE WatcherAssumption
<1>0. ASSUME UNCHANGED neigh PROVE Forth
  BY <1>0 DEF TypeOK, Places
<1>1. ASSUME UNCHANGED <<neigh, store, nsOf, namespace, inHand>> PROVE Goal
  BY <1>1, <1>0 DEF OrderInv, TableOrder, PipeOrder, Outdone, Current
<1>2. ASSUME UNCHANGED <<neigh, store>> PROVE TableOrder'
  BY <1>2 DEF OrderInv, TableOrder, Outdone
<1>3. ASSUME NEW m \in Monitors, StartMonitor(m) PROVE Goal
  <2>1. /\ start[m] = "unused"
        /\ nsOf' = [nsOf EXCEPT ![m] = namespace]
        /\ inserter' = [inserter EXCEPT ![m] = "find"]
        /\ UNCHANGED <<resolver, unresolved, resolved, namespace, neigh, store>>
    BY <1>3 DEF StartMonitor, kernelVars, storeVars
  <2>2. resolver[m] = "none"
    BY <2>1 DEF LiveInv, Called
  <2>3. ASSUME NEW k \in Monitors, Current(k)' PROVE PipeOrder(k)'
    <3>1. CASE k = m
      BY <2>1, <2>2, <3>1 DEF PipeOrder, TypeOK
    <3>2. CASE k # m
      <4>1. PipeOrder(k) /\ inserter'[k] = inserter[k]
        BY <2>1, <2>3, <3>2 DEF OrderInv, Current, TypeOK
      <4> QED BY <2>1, <4>1 DEF PipeOrder, Outdone
    <3> QED BY <3>1, <3>2
  <2> QED
    BY <2>1, <2>3, <1>0, <1>2 DEF OrderInv
<1>4. ASSUME NEW m \in Monitors, Starter(m) PROVE Goal
  <2>1. ASSUME NEW ok \in BOOLEAN, FindLink(m, ok) PROVE Goal
    <3>1. /\ inserter[m] = "find"
          /\ \E s \in {"range", "ended"} : inserter' = [inserter EXCEPT ![m] = s]
          /\ UNCHANGED <<resolver, unresolved, resolved, namespace, nsOf, neigh, store>>
      BY <2>1 DEF FindLink, kernelVars, storeVars
    <3>2. Current(m) => PipeOrder(m)'
      BY <3>1 DEF OrderInv, PipeOrder, Outdone, TypeOK
    <3>3. TableOrder' /\ Forth
      BY <3>1, <1>0, <1>2
    <3>4. \A k \in Monitors \ {m} : inserter'[k] = inserter[k]
      BY <3>1 DEF TypeOK
    <3> QED BY <3>1, <3>2, <3>3, <3>4, OthersInOrder
  <2>2. ASSUME NEW ok \in BOOLEAN, Subscribe(m, ok) PROVE Goal
    BY <2>2, <1>1 DEF Subscribe, kernelVars, pipeVars, storeVars
  <2>3. CASE Spawn(m)
    <3>1. /\ resolver' = [resolver EXCEPT ![m] = "range"]
          /\ UNCHANGED <<unresolved, inserter, resolved, namespace, nsOf, neigh, store>>
      BY <2>3 DEF Spawn, kernelVars, storeVars
    <3>2. Current(m) => PipeOrder(m)'
      BY <3>1 DEF OrderInv, PipeOrder, Outdone, TypeOK
    <3>3. TableOrder' /\ Forth
      BY <3>1, <1>0, <1>2
    <3>4. \A k \in Monitors \ {m} : resolver'[k] = resolver[k]
      BY <3>1 DEF TypeOK
    <3> QED BY <3>1, <3>2, <3>3, <3>4, OthersInOrder
  <2> QED
    BY <1>4, <2>1, <2>2, <2>3 DEF Starter
<1>5. ASSUME NEW m \in Monitors, CloseSocket(m) \/ Receiver(m) PROVE Goal
  BY <1>5, <1>1 DEF CloseSocket, Receiver, ReceiverEnds, SkipMessage, SendMiss,
                    watcherVars, kernelVars, pipeVars, storeVars
<1>6. ASSUME NEW m \in Monitors, Forwarder(m) PROVE Goal
  <2>1. CASE ForwarderEnds(m)
    BY <2>1, <1>1 DEF ForwarderEnds, watcherVars, kernelVars, storeVars
  <2>2. CASE Forward(m)
    <3>1. /\ resolver' = [resolver EXCEPT ![m] = "lookup"]
          /\ \E u : unresolved' = [unresolved EXCEPT ![m] = u]
          /\ UNCHANGED <<inserter, resolved, namespace, nsOf, neigh, store>>
      BY <2>2 DEF Forward, watcherVars, kernelVars, storeVars
    <3>2. Current(m) => PipeOrder(m)'
      BY <3>1 DEF OrderInv, PipeOrder, Outdone, TypeOK
    <3>3. TableOrder' /\ Forth
      BY <3>1, <1>0, <1>2
    <3>4. \A k \in Monitors \ {m} :
            resolver'[k] = resolver[k] /\ unresolved'[k] = unresolved[k]
      BY <3>1 DEF TypeOK
    <3> QED BY <3>1, <3>2, <3>3, <3>4, OthersInOrder
  <2> QED BY <1>6, <2>1, <2>2 DEF Forwarder
<1>7. ASSUME NEW m \in Monitors, Resolve(m) PROVE Goal
  <2>1. /\ unresolved[m] \in Neighbors /\ unresolved[m].ip \in Addresses
        /\ UNCHANGED <<inserter, resolved, namespace, nsOf, neigh, store>>
    BY <1>7 DEF Resolve, TypeOK, watcherVars, kernelVars, storeVars
  <2>2. TableOrder' /\ Forth
    BY <2>1, <1>0, <1>2
  <2>3. ASSUME NEW p, p \in Matches(Path(Watched), unresolved[m].ip),
               resolver' = [resolver EXCEPT ![m] = "send"],
               unresolved' = [unresolved EXCEPT ![m] = [ip |-> @.ip, place |-> p]]
        PROVE  Goal
    <3>1. p = store[Watched][unresolved[m].ip] /\ p # None /\ p \in Nat
      BY <2>1, <2>3 DEF Matches, Path, Base, TypeOK, Places
    <3>2. unresolved'[m] = [ip |-> unresolved[m].ip, place |-> p]
      BY <2>3 DEF TypeOK
    <3>3. Outdone(unresolved[m].ip, p) /\ neigh[unresolved[m].ip] <= p
      BY <2>1, <3>1 DEF OrderInv, TableOrder, Outdone, TypeOK, Places
    <3>4. Current(m) => PipeOrder(m)'
      <4> SUFFICES ASSUME Current(m) PROVE PipeOrder(m)'
        OBVIOUS
      <4>1. inserter[m] = "l3" => /\ Outdone(resolved[m].ip, resolved[m].place)
                                  /\ neigh[resolved[m].ip] <= resolved[m].place
        BY DEF OrderInv, PipeOrder
      <4> QED BY <2>1, <3>1, <3>2, <3>3, <4>1 DEF PipeOrder, Outdone
    <3>5. \A k \in Monitors \ {m} :
            resolver'[k] = resolver[k] /\ unresolved'[k] = unresolved[k]
      BY <2>3 DEF TypeOK
    <3> QED BY <2>1, <2>2, <3>4, <3>5, OthersInOrder
  <2>4. CASE /\ resolver' = [resolver EXCEPT ![m] = "range"]
             /\ unresolved' = [unresolved EXCEPT ![m] = Nobody]
    <3>1. Current(m) => PipeOrder(m)'
      BY <2>1, <2>4 DEF OrderInv, PipeOrder, Outdone, TypeOK
    <3>2. \A k \in Monitors \ {m} :
            resolver'[k] = resolver[k] /\ unresolved'[k] = unresolved[k]
      BY <2>4 DEF TypeOK
    <3> QED BY <2>1, <2>2, <3>1, <3>2, OthersInOrder
  <2> QED
    BY <1>7, <2>3, <2>4 DEF Resolve
<1>8. ASSUME NEW m \in Monitors, SendNeighbor(m) PROVE Goal
  <2>1. /\ resolver[m] = "send"
        /\ resolver' = [resolver EXCEPT ![m] = "range"]
        /\ unresolved' = [unresolved EXCEPT ![m] = Nobody]
        /\ inserter' = [inserter EXCEPT ![m] = "l3"]
        /\ resolved' = [resolved EXCEPT ![m] = unresolved[m]]
        /\ UNCHANGED <<namespace, nsOf, neigh, store>>
    BY <1>8 DEF SendNeighbor, watcherVars, kernelVars, storeVars
  <2>2. TableOrder' /\ Forth
    BY <2>1, <1>0, <1>2
  <2>3. Current(m) => PipeOrder(m)'
    BY <2>1 DEF OrderInv, PipeOrder, Outdone, TypeOK
  <2>4. \A k \in Monitors \ {m} :
          /\ resolver'[k] = resolver[k] /\ unresolved'[k] = unresolved[k]
          /\ inserter'[k] = inserter[k] /\ resolved'[k] = resolved[k]
    BY <2>1 DEF TypeOK
  <2> QED BY <2>1, <2>2, <2>3, <2>4, OthersInOrder
<1>9. ASSUME NEW m \in Monitors, NEW ok \in BOOLEAN, SetNeigh(m, ok) PROVE Goal
  <2>1. /\ inserter[m] = "l3"
        /\ \E s \in {"l2", "range"} : inserter' = [inserter EXCEPT ![m] = s]
        /\ \A k \in Monitors \ {m} : resolved'[k] = resolved[k]
        /\ UNCHANGED <<resolver, unresolved, namespace, nsOf, store>>
    BY <1>9 DEF SetNeigh, watcherVars, storeVars, TypeOK
  <2>2. CASE ok
    <3>1. resolved[m] \in [ip : Addresses, place : Places]
      BY <2>1 DEF TypeOK
    <3>2. Current(m) /\ neigh' = [neigh EXCEPT ![resolved[m].ip] = resolved[m].place]
      BY <1>9, <2>2 DEF SetNeigh, Alive, Current
    <3>3. PipeOrder(m)
      BY <3>2 DEF OrderInv
    <3>4. TableOrder'
      BY <2>1, <3>1, <3>2, <3>3 DEF OrderInv, TableOrder, PipeOrder, Outdone, TypeOK
    <3>5. Forth
      BY <2>1, <3>1, <3>2, <3>3 DEF PipeOrder, TypeOK, Places
    <3>6. ASSUME resolver[m] = "send"
          PROVE  neigh'[unresolved[m].ip] <= unresolved[m].place
      BY <3>6, <2>1, <3>1, <3>2, <3>3 DEF PipeOrder, TypeOK
    <3>7. PipeOrder(m)'
      BY <2>1, <3>3, <3>6 DEF PipeOrder, Outdone, TypeOK
    <3>8. \A k \in Monitors \ {m} : inserter'[k] = inserter[k]
      BY <2>1 DEF TypeOK
    <3> QED BY <2>1, <3>2, <3>4, <3>5, <3>7, <3>8, OthersInOrder
  <2>3. CASE ~ok
    <3>1. UNCHANGED neigh
      BY <1>9, <2>3 DEF SetNeigh
    <3>2. TableOrder' /\ Forth
      BY <2>1, <3>1, <1>0, <1>2
    <3>3. Current(m) => PipeOrder(m)'
      BY <2>1, <3>1 DEF OrderInv, PipeOrder, Outdone, TypeOK
    <3>4. \A k \in Monitors \ {m} : inserter'[k] = inserter[k]
      BY <2>1 DEF TypeOK
    <3> QED BY <2>1, <3>1, <3>2, <3>3, <3>4, OthersInOrder
  <2> QED BY <2>2, <2>3
<1>10. ASSUME NEW m \in Monitors, NEW ok \in BOOLEAN, SetForward(m, ok) PROVE Goal
  <2>1. /\ inserter' = [inserter EXCEPT ![m] = "range"]
        /\ resolved' = [resolved EXCEPT ![m] = Nobody]
        /\ UNCHANGED <<resolver, unresolved, namespace, nsOf, neigh, store>>
    BY <1>10 DEF SetForward, watcherVars, storeVars
  <2>2. TableOrder' /\ Forth
    BY <2>1, <1>0, <1>2
  <2>3. Current(m) => PipeOrder(m)'
    BY <2>1 DEF OrderInv, PipeOrder, Outdone, TypeOK
  <2>4. \A k \in Monitors \ {m} :
          inserter'[k] = inserter[k] /\ resolved'[k] = resolved[k]
    BY <2>1 DEF TypeOK
  <2> QED BY <2>1, <2>2, <2>3, <2>4, OthersInOrder
<1>11. CASE StopMonitor \/ Raising
  BY <1>11, <1>1 DEF StopMonitor, Raising, Raise, RaiseStray, watcherVars,
                     kernelVars, pipeVars, storeVars
<1>12. CASE DeleteDevice
  <2>1. /\ \A a \in Addresses : neigh'[a] = None
        /\ UNCHANGED <<store, nsOf, namespace, inHand>>
    BY <1>12 DEF DeleteDevice, NoEntries, watcherVars, pipeVars, storeVars
  <2>2. TableOrder' /\ Forth
    BY <2>1 DEF TableOrder
  <2>3. ASSUME NEW m \in Monitors, Current(m)' PROVE PipeOrder(m)'
    <3>1. PipeOrder(m)
      BY <2>1, <2>3 DEF OrderInv, Current
    <3>2. /\ resolver[m] = "send" => unresolved[m].ip \in Addresses /\ unresolved[m].place \in Nat
          /\ inserter[m] = "l3" => resolved[m].ip \in Addresses /\ resolved[m].place \in Nat
      BY DEF TypeOK, Places
    <3> QED BY <2>1, <3>1, <3>2 DEF PipeOrder, Outdone
  <2> QED BY <2>2, <2>3 DEF OrderInv
<1>13. CASE NewNamespace
  <2>1. namespace' = namespace + 1 /\ UNCHANGED <<neigh, store, nsOf>>
    BY <1>13 DEF NewNamespace, watcherVars, storeVars
  <2>2. \A m \in Monitors : ~Current(m)'
    BY <2>1 DEF LiveInv, Current, TypeOK
  <2> QED BY <2>1, <2>2, <1>0, <1>2 DEF OrderInv
<1>14. ASSUME NEW n \in Names, NEW a \in Addresses, Create(n, a) PROVE Goal
  <2>1. /\ store' = [store EXCEPT ![n] = [@ EXCEPT ![a] = Len(recorded) + 1]]
        /\ UNCHANGED <<neigh, nsOf, namespace, inHand>>
    BY <1>14 DEF Create, TypeOK, watcherVars, kernelVars, pipeVars
  <2>2. ASSUME NEW b \in Addresses, NEW p \in 1..Len(recorded), Outdone(b, p)
        PROVE  Outdone(b, p)'
    BY <2>1, <2>2 DEF Outdone, TypeOK
  <2>3. TableOrder'
    BY <2>1, <2>2 DEF OrderInv, TableOrder, RecordInv, Genuine
  <2>4. ASSUME NEW m \in Monitors, Current(m)' PROVE PipeOrder(m)'
    <3>1. PipeOrder(m)
      BY <2>1, <2>4 DEF OrderInv, Current
    <3>2. /\ resolver[m] = "send" => /\ unresolved[m].ip \in Addresses
                                     /\ unresolved[m].place \in 1..Len(recorded)
          /\ inserter[m] = "l3" => /\ resolved[m].ip \in Addresses
                                   /\ resolved[m].place \in 1..Len(recorded)
      BY DEF TypeOK, RecordInv, Genuine
    <3>3. /\ resolver[m] = "send" => Outdone(unresolved[m].ip, unresolved[m].place)'
          /\ inserter[m] = "l3" => Outdone(resolved[m].ip, resolved[m].place)'
      BY <2>1, <2>2, <3>1, <3>2 DEF PipeOrder, Outdone
    <3> QED BY <2>1, <3>1, <3>3 DEF PipeOrder
  <2> QED BY <2>1, <2>3, <2>4, <1>0 DEF OrderInv
<1>15. ASSUME NEW n \in Names, NEW a \in Addresses, Delete(n, a) PROVE Goal
  <2>1. /\ store' = [store EXCEPT ![n] = [@ EXCEPT ![a] = None]]
        /\ UNCHANGED <<neigh, nsOf, namespace, inHand>>
    BY <1>15 DEF Delete, watcherVars, kernelVars, pipeVars
  <2>2. \A b \in Addresses : store'[Watched][b] \in {store[Watched][b], None}
    BY <2>1 DEF TypeOK
  <2>3. TableOrder'
    BY <2>1, <2>2 DEF OrderInv, TableOrder, Outdone
  <2>4. ASSUME NEW m \in Monitors, Current(m)' PROVE PipeOrder(m)'
    <3>1. PipeOrder(m)
      BY <2>1, <2>4 DEF OrderInv, Current
    <3>2. /\ resolver[m] = "send" => unresolved[m].ip \in Addresses
          /\ inserter[m] = "l3" => resolved[m].ip \in Addresses
      BY DEF TypeOK
    <3> QED BY <2>1, <2>2, <3>1, <3>2 DEF PipeOrder, Outdone
  <2> QED BY <2>1, <2>3, <2>4, <1>0 DEF OrderInv
<1>16. CASE UNCHANGED vars
  BY <1>16, <1>1 DEF vars, watcherVars, kernelVars, pipeVars, storeVars
<1> QED
  BY <1>3, <1>4, <1>5, <1>6, <1>7, <1>8, <1>9, <1>10, <1>11, <1>12, <1>13, <1>14,
     <1>15, <1>16 DEF Next, Goroutine, Resolver, Inserter

\* With one monitor at a time the ARP inserter never puts an older place over a
\* newer one, however long a miss was on its way and whatever records, monitors
\* and namespaces came and went meanwhile.
THEOREM NeverGoesBack ==
  ASSUME OneAtATime
  PROVE  Spec => NeverBackwards
<1>1. Init => RecordInv /\ StopInv /\ LiveInv /\ OrderInv
  BY WatcherAssumption
  DEF Init, Everywhere, NoEntries, RecordInv, StopInv, LiveInv, OrderInv,
      TableOrder, Called, Current
<1>2. TypeOK /\ RecordInv /\ StopInv /\ LiveInv /\ OrderInv /\ [Next]_vars
      => (RecordInv /\ StopInv /\ LiveInv /\ OrderInv)'
  BY RecordStep, StopStep, LiveStep, OrderStep
<1>3. TypeOK /\ RecordInv /\ LiveInv /\ OrderInv /\ [Next]_vars
      => [\A a \in Addresses : neigh'[a] # None => neigh'[a] >= neigh[a]]_vars
  BY OrderStep
<1> QED
  BY <1>1, <1>2, <1>3, Typing, PTL DEF Spec, NeverBackwards
=============================================================================
