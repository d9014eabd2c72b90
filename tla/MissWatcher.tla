---------------------------- MODULE MissWatcher ----------------------------
(***************************************************************************)
(* The neighbour resolution of one sandbox: watcher/watcher.go starts, for *)
(* every call of StartMonitor, a pipeline of goroutines joined by          *)
(* unbuffered channels,                                                    *)
(*                                                                         *)
(*   netlink socket -> receiver -> forwarder -> resolver -> ARP inserter   *)
(*                                                                         *)
(* in which the receiver is lib/subscriber, the resolver watcher/resolver  *)
(* and the inserter lib/neigh. It reads misses of the sandbox's neighbour  *)
(* table and writes what the datastore knows of the address back to it.    *)
(* StopMonitor closes the done channel of the pipeline that the map names. *)
(*                                                                         *)
(* A monitor is one call of StartMonitor. A place is the MAC and the host  *)
(* of one record of the datastore, numbered in the order of recording.     *)
(* The sandbox's name is bound to a new namespace, with a new vxlan        *)
(* device, after it was torn down; a pipeline keeps the namespace it was   *)
(* started in, which the open file of its Netns holds on to.               *)
(***************************************************************************)
EXTENDS Integers, Sequences

CONSTANTS
  Addresses,     \* overlay addresses
  Names,         \* names of sandboxes
  Watched,       \* the name of the sandbox of this module
  Nil,           \* a netlink message without a destination
  MaxMonitors,   \* bound: calls of StartMonitor in a behaviour
  MaxPlaces,     \* bound: records made in a behaviour
  MaxTeardowns,  \* bound: sandboxes of the name that are torn down
  MaxQueue,      \* bound: messages in the buffer of a socket
  Stray,         \* TRUE: there are messages without a destination, too
  OneAtATime,    \* TRUE: a monitor is started when no other is entered in
                 \*   DoneChans; FALSE: whenever a container is added
  Faults         \* calls that may fail although they could succeed

Fallible == {"link", "subscribe", "receive", "deserialize", "store", "setNeigh"}

ASSUME WatcherAssumption ==
  /\ Watched \in Names /\ Nil \notin Addresses
  /\ {MaxMonitors, MaxPlaces, MaxTeardowns, MaxQueue} \subseteq Nat
  /\ OneAtATime \in BOOLEAN /\ Stray \in BOOLEAN /\ Faults \subseteq Fallible

Monitors == 1..MaxMonitors
None == 0                      \* no monitor, no place
Places == 1..MaxPlaces
Messages == [ip : Addresses \cup {Nil}, state : {"incomplete", "stale", "reachable"}]
Neighbors == [ip : Addresses \cup {Nil}, place : Places \cup {None}]
Nobody == [ip |-> Nil, place |-> None]

VARIABLES
  DoneChans,  \* the entry for the name: the monitor whose channel it is
  done,       \* monitors whose done channel is closed
  namespace,  \* number of the namespace that has the name
  device,     \* the vxlan device is in it
  nsOf,       \* nsOf[m]: the namespace m was started in
  start,      \* start[m]: how far StartMonitor is
  socket,     \* socket[m]: the netlink socket
  queue,      \* queue[m]: messages in its buffer and in the slice Receive gave
  receiver,   \* receiver[m]: the goroutine that goes through them
  forwarder, miss,      \* the forwarder and the address in its hands
  resolver, unresolved, \* the resolver and the neighbour in its hands
  inserter, resolved,   \* the ARP inserter and the neighbour in its hands
  store,      \* store[n][a]: the place recorded for address a of sandbox n
  recorded,   \* recorded[p]: name and address that place p was recorded for
  neigh,      \* neigh[a]: the place in the neighbour table, or None
  fdb         \* places in the forwarding table of the vxlan device

watcherVars == <<DoneChans, done, nsOf, start>>
kernelVars == <<namespace, device, neigh, fdb>>
subscriberVars == <<socket, queue, receiver>>
pipeVars == <<forwarder, miss, resolver, unresolved, inserter, resolved>>
storeVars == <<store, recorded>>
vars == <<watcherVars, kernelVars, subscriberVars, pipeVars, storeVars>>

TypeOK ==
  /\ DoneChans \in Monitors \cup {None} /\ done \subseteq Monitors
  /\ namespace \in 1..(MaxTeardowns + 1) /\ device \in BOOLEAN
  /\ nsOf \in [Monitors -> 0..(MaxTeardowns + 1)]
  /\ start \in [Monitors -> {"unused", "ready", "subscribe", "spawn",
                             "started", "failed"}]
  /\ socket \in [Monitors -> {"none", "open", "closed"}]
  /\ queue \in [Monitors -> Seq(Messages)]
  /\ receiver \in [Monitors -> {"none", "receive", "ended"}]
  /\ forwarder \in [Monitors -> {"none", "range", "send", "ended"}]
  /\ resolver \in [Monitors -> {"none", "range", "lookup", "send", "ended"}]
  /\ inserter \in [Monitors -> {"none", "find", "range", "l3", "l2", "ended"}]
  /\ miss \in [Monitors -> Addresses \cup {Nil}]
  /\ unresolved \in [Monitors -> Neighbors]
  /\ resolved \in [Monitors -> Neighbors]
  /\ store \in [Names -> [Addresses -> Places \cup {None}]]
  /\ recorded \in Seq(Names \X Addresses) /\ Len(recorded) <= MaxPlaces
  /\ neigh \in [Addresses -> Places \cup {None}] /\ fdb \subseteq Places
  /\ \A m \in Monitors :   \* every stage has what the next one needs
       /\ forwarder[m] = "send" => miss[m] \in Addresses
       /\ resolver[m] \in {"lookup", "send"} => unresolved[m].ip \in Addresses
       /\ resolver[m] = "send" => unresolved[m].place \in Places
       /\ inserter[m] \in {"l3", "l2"} => resolved[m] \in [ip : Addresses, place : Places]

NoEntries == [a \in Addresses |-> None]
Everywhere(x) == [m \in Monitors |-> x]

Init ==
  /\ DoneChans = None /\ done = {} /\ namespace = 1 /\ device = TRUE
  /\ nsOf = Everywhere(0) /\ start = Everywhere("unused")
  /\ socket = Everywhere("none") /\ queue = Everywhere(<<>>)
  /\ receiver = Everywhere("none")
  /\ forwarder = Everywhere("none") /\ miss = Everywhere(Nil)
  /\ resolver = Everywhere("none") /\ unresolved = Everywhere(Nobody)
  /\ inserter = Everywhere("none") /\ resolved = Everywhere(Nobody)
  /\ store = [n \in Names |-> NoEntries] /\ recorded = <<>>
  /\ neigh = NoEntries /\ fdb = {}

-----------------------------------------------------------------------------
(* StartMonitor and StopMonitor. *)

\* The done channel is entered, over whatever was there, and the ARP inserter
\* is launched. Setup of every container gets here, with the namespace that
\* has the name, if that was not torn down.
StartMonitor(m) ==
  /\ start[m] = "unused" /\ \A k \in 1..(m - 1) : start[k] # "unused"
  /\ \A k \in done : nsOf[k] # namespace
  /\ OneAtATime => DoneChans = None
  /\ start' = [start EXCEPT ![m] = "ready"]
  /\ DoneChans' = m
  /\ nsOf' = [nsOf EXCEPT ![m] = namespace]
  /\ inserter' = [inserter EXCEPT ![m] = "find"]
  /\ UNCHANGED <<done, forwarder, miss, resolver, unresolved, resolved>>
  /\ UNCHANGED <<kernelVars, subscriberVars, storeVars>>

\* Mutant: a namespace is looked up by its path each time it is entered.
AliveByName(m) == device

\* The device can be used in the namespace of m. A pipeline keeps its own
\* namespace, and the device of one that was torn down is gone.
Alive(m) == device /\ nsOf[m] = namespace

\* HandleResolvedNeighbors looks for the device and answers on ready. If it
\* is not there StartMonitor fails; the done channel stays in the map.
FindLink(m, ok) ==
  /\ start[m] = "ready" /\ inserter[m] = "find"
  /\ ok => Alive(m)
  /\ ~ok => ~Alive(m) \/ "link" \in Faults
  /\ start' = [start EXCEPT ![m] = IF ok THEN "subscribe" ELSE "failed"]
  /\ inserter' = [inserter EXCEPT ![m] = IF ok THEN "range" ELSE "ended"]
  /\ UNCHANGED <<DoneChans, done, nsOf, forwarder, miss, resolver, unresolved, resolved>>
  /\ UNCHANGED <<kernelVars, subscriberVars, storeVars>>

\* Subscriber.Subscribe opens the socket and launches the receiver and the
\* goroutine that waits for done. If it fails the inserter waits for ever.
Subscribe(m, ok) ==
  /\ start[m] = "subscribe"
  /\ ~ok => "subscribe" \in Faults
  /\ start' = [start EXCEPT ![m] = IF ok THEN "spawn" ELSE "failed"]
  /\ socket' = [socket EXCEPT ![m] = IF ok THEN "open" ELSE @]
  /\ receiver' = [receiver EXCEPT ![m] = IF ok THEN "receive" ELSE @]
  /\ UNCHANGED <<DoneChans, done, nsOf, queue>>
  /\ UNCHANGED <<kernelVars, pipeVars, storeVars>>

\* The forwarder and the resolver are launched, and StartMonitor returns.
Spawn(m) ==
  /\ start[m] = "spawn"
  /\ start' = [start EXCEPT ![m] = "started"]
  /\ forwarder' = [forwarder EXCEPT ![m] = "range"]
  /\ resolver' = [resolver EXCEPT ![m] = "range"]
  /\ UNCHANGED <<DoneChans, done, nsOf, miss, unresolved, inserter, resolved>>
  /\ UNCHANGED <<kernelVars, subscriberVars, storeVars>>

\* Mutant: the entry is deleted and its channel not closed.
StopMonitorWithoutClose ==
  /\ DoneChans # None /\ namespace <= MaxTeardowns
  /\ done' = done
  /\ DoneChans' = None
  /\ UNCHANGED <<nsOf, start>>
  /\ UNCHANGED <<kernelVars, subscriberVars, pipeVars, storeVars>>

\* From Teardown. Without an entry it is an error that changes nothing.
StopMonitor ==
  /\ DoneChans # None /\ namespace <= MaxTeardowns
  /\ done' = done \cup {DoneChans}
  /\ DoneChans' = None
  /\ UNCHANGED <<nsOf, start>>
  /\ UNCHANGED <<kernelVars, subscriberVars, pipeVars, storeVars>>

-----------------------------------------------------------------------------
(* The receiver (lib/subscriber). *)

CloseSocket(m) ==
  /\ socket[m] = "open" /\ m \in done
  /\ socket' = [socket EXCEPT ![m] = "closed"]
  /\ UNCHANGED <<queue, receiver>>
  /\ UNCHANGED <<watcherVars, kernelVars, pipeVars, storeVars>>

\* The receiver returns, and the deferred close(neighChan) runs: when the
\* socket is closed, when Receive fails (a buffer that overflowed is one
\* reason), or when a message cannot be read. The slice that Receive gave
\* last may be worked off before that, what is in the buffer is lost.
ReceiverEnds(m) ==
  /\ receiver[m] = "receive"
  /\ \/ socket[m] = "closed" \/ "receive" \in Faults
     \/ "deserialize" \in Faults /\ queue[m] # <<>>
  /\ receiver' = [receiver EXCEPT ![m] = "ended"]
  /\ queue' = [queue EXCEPT ![m] = <<>>]
  /\ UNCHANGED <<socket, watcherVars, kernelVars, pipeVars, storeVars>>

\* Mutant: only messages without a destination are skipped.
SkipsNoDestination(n) == n.ip = Nil

\* Mutant: every neighbour that has a hardware address is skipped.
SkipsStale(n) == n.ip = Nil \/ n.state # "incomplete"

\* Mutant: the check for a destination is gone.
SkipsReachable(n) == n.state = "reachable"

\* n.IP == nil || (n.HardwareAddr != nil && n.State != NUD_STALE)
Skips(n) == n.ip = Nil \/ n.state = "reachable"

\* The receiver is at its next message.
AtMessage(m) == receiver[m] = "receive" /\ queue[m] # <<>>

SkipMessage(m) ==
  /\ AtMessage(m) /\ Skips(Head(queue[m]))
  /\ queue' = [queue EXCEPT ![m] = Tail(@)]
  /\ UNCHANGED <<socket, receiver, watcherVars, kernelVars, pipeVars, storeVars>>

\* neighChan is unbuffered: the receiver waits for the forwarder.
SendMiss(m) ==
  /\ AtMessage(m) /\ ~Skips(Head(queue[m])) /\ forwarder[m] = "range"
  /\ queue' = [queue EXCEPT ![m] = Tail(@)]
  /\ forwarder' = [forwarder EXCEPT ![m] = "send"]
  /\ miss' = [miss EXCEPT ![m] = Head(queue[m]).ip]
  /\ UNCHANGED <<resolver, unresolved, inserter, resolved>>
  /\ UNCHANGED <<socket, receiver, watcherVars, kernelVars, storeVars>>

-----------------------------------------------------------------------------
(* The forwarder (watcher.go), the resolver and the inserter. *)

\* neighChan is closed. The forwarder does not close unresolvedMisses.
ForwarderEnds(m) ==
  /\ forwarder[m] = "range" /\ receiver[m] = "ended"
  /\ forwarder' = [forwarder EXCEPT ![m] = "ended"]
  /\ UNCHANGED <<miss, resolver, unresolved, inserter, resolved>>
  /\ UNCHANGED <<watcherVars, kernelVars, subscriberVars, storeVars>>

Forward(m) ==
  /\ forwarder[m] = "send" /\ resolver[m] = "range"
  /\ forwarder' = [forwarder EXCEPT ![m] = "range"]
  /\ miss' = [miss EXCEPT ![m] = Nil]
  /\ resolver' = [resolver EXCEPT ![m] = "lookup"]
  /\ unresolved' = [unresolved EXCEPT ![m] = [ip |-> miss[m], place |-> None]]
  /\ UNCHANGED <<inserter, resolved>>
  /\ UNCHANGED <<watcherVars, kernelVars, subscriberVars, storeVars>>

\* The name of a namespace is the path it is mounted at, a record has the
\* last element of it.
Path(n) == <<"SandboxRepoDir", n>>
Base(path) == path[2]

\* Mutant: the records of all sandboxes are searched.
MatchesInAnySandbox(path, ip) == {store[n][ip] : n \in Names} \ {None}

\* The places that the records of the sandbox have for the address.
Matches(path, ip) == {store[n][ip] : n \in {Base(path)}} \ {None}

\* ResolveMisses: without a record, or if the datastore or the MAC in the
\* record is bad, the miss is dropped.
Resolve(m) ==
  /\ resolver[m] = "lookup"
  /\ LET found == Matches(Path(Watched), unresolved[m].ip) IN
     \/ \E p \in found :
          /\ resolver' = [resolver EXCEPT ![m] = "send"]
          /\ unresolved' = [unresolved EXCEPT ![m] = [ip |-> @.ip, place |-> p]]
     \/ /\ found = {} \/ "store" \in Faults
        /\ resolver' = [resolver EXCEPT ![m] = "range"]
        /\ unresolved' = [unresolved EXCEPT ![m] = Nobody]
  /\ UNCHANGED <<forwarder, miss, inserter, resolved>>
  /\ UNCHANGED <<watcherVars, kernelVars, subscriberVars, storeVars>>

\* What the resolver found may be out of date by now.
SendNeighbor(m) ==
  /\ resolver[m] = "send" /\ inserter[m] = "range"
  /\ resolver' = [resolver EXCEPT ![m] = "range"]
  /\ unresolved' = [unresolved EXCEPT ![m] = Nobody]
  /\ inserter' = [inserter EXCEPT ![m] = "l3"]
  /\ resolved' = [resolved EXCEPT ![m] = unresolved[m]]
  /\ UNCHANGED <<forwarder, miss>>
  /\ UNCHANGED <<watcherVars, kernelVars, subscriberVars, storeVars>>

\* Sockets of the group that are read and have room for a message.
Listening == {m \in Monitors : /\ socket[m] = "open" /\ receiver[m] = "receive"
                               /\ nsOf[m] = namespace /\ Len(queue[m]) < MaxQueue}
Notify(n) ==
  queue' = [m \in Monitors |->
              IF m \in Listening THEN Append(queue[m], n) ELSE queue[m]]

\* The first SetNeigh, of which the kernel tells the group of neighbours. If
\* it fails the inserter goes on with the next neighbour.
SetNeigh(m, ok) ==
  LET a == resolved[m].ip IN
  /\ inserter[m] = "l3"
  /\ ok => Alive(m)
  /\ ~ok => ~Alive(m) \/ "setNeigh" \in Faults
  /\ inserter' = [inserter EXCEPT ![m] = IF ok THEN "l2" ELSE "range"]
  /\ resolved' = IF ok THEN resolved ELSE [resolved EXCEPT ![m] = Nobody]
  /\ neigh' = IF ok THEN [neigh EXCEPT ![a] = resolved[m].place] ELSE neigh
  /\ IF ok THEN Notify([ip |-> a, state |-> "reachable"]) ELSE queue' = queue
  /\ UNCHANGED <<forwarder, miss, resolver, unresolved>>
  /\ UNCHANGED <<namespace, device, fdb, socket, receiver>>
  /\ UNCHANGED <<watcherVars, storeVars>>

\* The second SetNeigh, of the forwarding entry: the MAC is behind the host.
SetForward(m, ok) ==
  /\ inserter[m] = "l2"
  /\ ok => Alive(m)
  /\ ~ok => ~Alive(m) \/ "setNeigh" \in Faults
  /\ inserter' = [inserter EXCEPT ![m] = "range"]
  /\ resolved' = [resolved EXCEPT ![m] = Nobody]
  /\ fdb' = IF ok THEN fdb \cup {resolved[m].place} ELSE fdb
  /\ UNCHANGED <<forwarder, miss, resolver, unresolved, namespace, device, neigh>>
  /\ UNCHANGED <<watcherVars, subscriberVars, storeVars>>

-----------------------------------------------------------------------------
(* The kernel and the rest of the system. *)

\* A container sends to address a, and the kernel has no neighbour for it or
\* one whose time is over.
Raise(a) ==
  /\ device /\ Listening # {}
  /\ Notify([ip |-> a, state |-> IF neigh[a] = None THEN "incomplete" ELSE "stale"])
  /\ UNCHANGED <<socket, receiver>>
  /\ UNCHANGED <<watcherVars, kernelVars, pipeVars, storeVars>>

\* A message without a destination.
RaiseStray ==
  /\ Stray /\ device /\ Listening # {}
  /\ Notify([ip |-> Nil, state |-> "incomplete"])
  /\ UNCHANGED <<socket, receiver>>
  /\ UNCHANGED <<watcherVars, kernelVars, pipeVars, storeVars>>

\* CleanupSandbox deletes the device, and with it go its tables.
DeleteDevice ==
  /\ device /\ namespace <= MaxTeardowns
  /\ device' = FALSE /\ neigh' = NoEntries /\ fdb' = {}
  /\ UNCHANGED namespace
  /\ UNCHANGED <<watcherVars, subscriberVars, pipeVars, storeVars>>

\* The sandbox is created anew.
NewNamespace ==
  /\ ~device /\ DoneChans = None /\ namespace <= MaxTeardowns
  /\ namespace' = namespace + 1 /\ device' = TRUE
  /\ UNCHANGED <<neigh, fdb>>
  /\ UNCHANGED <<watcherVars, subscriberVars, pipeVars, storeVars>>

\* Store.Create and Store.Delete, here or on another host. The allocators
\* give an address of a network to one container at a time.
Create(n, a) ==
  /\ store[n][a] = None /\ Len(recorded) < MaxPlaces
  /\ recorded' = Append(recorded, <<n, a>>)
  /\ store' = [store EXCEPT ![n] = [@ EXCEPT ![a] = Len(recorded')]]
  /\ UNCHANGED <<watcherVars, kernelVars, subscriberVars, pipeVars>>

Delete(n, a) ==
  /\ store[n][a] # None
  /\ store' = [store EXCEPT ![n] = [@ EXCEPT ![a] = None]]
  /\ UNCHANGED <<recorded, watcherVars, kernelVars, subscriberVars, pipeVars>>

-----------------------------------------------------------------------------
Starter(m) == Spawn(m) \/ \E ok \in BOOLEAN : FindLink(m, ok) \/ Subscribe(m, ok)
Receiver(m) == ReceiverEnds(m) \/ SkipMessage(m) \/ SendMiss(m)
Forwarder(m) == ForwarderEnds(m) \/ Forward(m)
Resolver(m) == Resolve(m) \/ SendNeighbor(m)
Inserter(m) == \E ok \in BOOLEAN : SetNeigh(m, ok) \/ SetForward(m, ok)

Goroutine(m) == \/ Starter(m) \/ CloseSocket(m) \/ Receiver(m) \/ Forwarder(m)
                \/ Resolver(m) \/ Inserter(m)

Raising == RaiseStray \/ \E a \in Addresses : Raise(a)

Next == \/ \E m \in Monitors : StartMonitor(m) \/ Goroutine(m)
        \/ StopMonitor \/ Raising \/ DeleteDevice \/ NewNamespace
        \/ \E n \in Names, a \in Addresses : Create(n, a) \/ Delete(n, a)

Spec == Init /\ [][Next]_vars

Fairness ==
  \A m \in Monitors :
    /\ WF_vars(Starter(m)) /\ WF_vars(CloseSocket(m)) /\ WF_vars(Receiver(m))
    /\ WF_vars(Forwarder(m)) /\ WF_vars(Resolver(m)) /\ WF_vars(Inserter(m))

\* Goroutines that can run are run.
FairSpec == Spec /\ Fairness

-----------------------------------------------------------------------------
\* The neighbour table never goes back to a place recorded before the one it
\* has for the address: the pipeline keeps misses in order, and one that was
\* stopped writes to its own namespace only. (With two pipelines in one
\* namespace a slow one may put an old place over a new one.)
NeverBackwards ==
  [][\A a \in Addresses : neigh'[a] # None => neigh'[a] >= neigh[a]]_vars

\* What is in the tables was recorded in the datastore, for this sandbox and
\* this address: the same address in another sandbox is another container.
InsertedWasRecorded ==
  \A a \in Addresses : neigh[a] # None => recorded[neigh[a]] = <<Watched, a>>

\* A subscription ends when its namespace is no longer monitored: the done
\* channel of an open socket is closed, or it is the one StopMonitor will
\* close.
SubscriptionsCanBeStopped ==
  \A m \in Monitors : socket[m] = "open" => m \in done \/ DoneChans = m

Watching == device /\ \E m \in Monitors : /\ start[m] = "started"
                                          /\ nsOf[m] = namespace
                                          /\ socket[m] = "open"

\* While the sandbox is watched and its containers keep sending to an address,
\* so that its entry goes stale again and again, both tables come to have what
\* is recorded for it, and keep it, whatever old place was there or is on its
\* way in some pipeline.
EventuallyResolved ==
  \A a \in Addresses : <>[]Watching /\ SF_vars(Raise(a)) =>
    <>[](store[Watched][a] # None =>
           neigh[a] = store[Watched][a] /\ neigh[a] \in fdb)

Idle(m) ==
  /\ queue[m] = <<>> /\ forwarder[m] # "send"
  /\ resolver[m] \notin {"lookup", "send"} /\ inserter[m] \notin {"l3", "l2"}

\* The pipelines come to rest when no more misses are raised: what the ARP
\* inserter writes is told to the very group the receiver listens to, and
\* must not start it again.
NoFeedback == <>[][~Raising]_vars => <>[](\A m \in Monitors : Idle(m))
=============================================================================
