----------------------------- MODULE Sandboxes -----------------------------
(***************************************************************************)
(* The sandbox of one network on one host: the requests that attach        *)
(* containers to it (container/creator.go) and detach them from it         *)
(* (container/deletor.go, executor/commands/cleanup_sandbox.go), over the  *)
(* repository of sandboxes, the namespaces and the kernel's links.         *)
(*                                                                         *)
(* All requests for the network use one sandbox NAME, but the name is      *)
(* bound to a new sandbox object, with a new namespace, each time the      *)
(* first container comes after the last one left. Objects are numbers;     *)
(* a goroutine may hold on to one whose name has been bound anew. A step   *)
(* is one command of executor/commands, split where the command lets go    *)
(* of the repository's lock and goes on with what it read under it.        *)
(*                                                                         *)
(* The caller has one request in flight per container, so the requests     *)
(* are named by their containers. A container whose ADD failed keeps its   *)
(* address, so that the allocator refuses another ADD before it gets here, *)
(* and has no record, so that DEL refuses it too.                          *)
(***************************************************************************)
EXTENDS Integers, FiniteSets

CONSTANTS
  Containers,
  Nil,           \* no container
  MaxSandboxes,  \* bound: sandbox objects created in a behaviour
  MaxAdds,       \* ADD requests the caller keeps in flight
  MaxDels,       \* DEL requests the caller keeps in flight
  Faults         \* commands that may fail although they could succeed

\* The commands that call the kernel, the mount table or the datastore.
Fallible == {"create", "setup", "createVxlan", "moveVxlan", "dnsDummy",
             "dnsLaunch", "linkUp", "monitor", "createVeth", "moveVeth",
             "bridge", "enslave", "record", "deleteLink", "count",
             "deleteVxlan", "nsDestroy"}

ASSUME SandboxAssumption ==
  /\ IsFiniteSet(Containers) /\ Nil \notin Containers
  /\ {"dns0", "vxlan"} \cap Containers = {}    \* links and containers differ
  /\ Faults \subseteq Fallible
  /\ MaxSandboxes \in Nat /\ MaxAdds \in Nat /\ MaxDels \in Nat

Objects == 1..MaxSandboxes
None == 0                 \* no object, no namespace, no link
Outside == MaxSandboxes + 1
     \* where a link is before MoveLink: vxlan in the host's namespace, the
     \* sandbox end of a veth pair in the container's

VARIABLES
  registered,  \* Repository.Sandboxes[name]: an object, or None
  repo,        \* the request holding the repository's lock across a step
  locks,       \* locks[i]: the request holding the mutex of object i
  destroyed,   \* objects whose Teardown succeeded
  dns,         \* dns[i]: the process LaunchDNS started
  nsFile,      \* the namespace mounted under the sandbox's name, or None
  vxlan,       \* where the network's vxlan device is
  dns0,        \* namespaces that have the dummy device dns0
  bridges,     \* namespaces that have the bridge
  ports,       \* ports[i]: the devices enslaved to the bridge of i
  veth,        \* veth[c]: where the sandbox end of c's veth pair is
  monitored,   \* DoneChans has an entry for the name
  created,     \* number of objects created so far
  pc,          \* what the request of each container does next
  obj,         \* obj[c]: the sandbox Setup and CleanupSandbox got
  dst,         \* dst[c]: the sandbox MoveLink and StartDNSServer got
  faulted      \* history: some command failed for a reason of its own

repoVars == <<registered, repo, created>>
kernelVars == <<nsFile, vxlan, dns0, bridges, ports, veth>>
vars == <<registered, repo, locks, destroyed, dns, nsFile, vxlan, dns0, bridges,
          ports, veth, monitored, created, pc, obj, dst, faulted>>

\* Where a request rests. "attached": the ADD succeeded and a record exists.
\* "delFailed": so it does, but a DEL has begun to take the container down.
Resting == {"absent", "attached", "failed", "delFailed", "alreadyDestroyed"}
Adding == {"exists", "create", "setup", "createVxlan", "vxlanGet", "moveVxlan",
           "dnsGet", "dnsLock", "dnsDummy", "dnsLaunch", "get", "lock", "linkUp",
           "monitor", "createVeth", "vethGet", "moveVeth", "bridge", "enslave",
           "record"}
Deleting == {"deleteLink", "cleanupGet", "cleanupLock", "count", "deleteVxlan",
             "destroy", "nsDestroy"}

\* Steps that use the sandbox the request got.
UsesObj == {"lock", "linkUp", "monitor", "createVeth", "vethGet", "moveVeth",
            "bridge", "enslave", "record", "cleanupLock", "count", "deleteVxlan",
            "destroy", "nsDestroy"}
UsesDst == {"moveVxlan", "dnsLock", "dnsDummy", "dnsLaunch", "moveVeth", "bridge"}

TypeOK ==
  /\ registered \in Objects \cup {None} /\ nsFile \in Objects \cup {None}
  /\ repo \in Containers \cup {Nil}
  /\ locks \in [Objects -> Containers \cup {Nil}]
  /\ destroyed \subseteq Objects /\ dns0 \subseteq Objects
  /\ bridges \subseteq Objects
  /\ dns \in [Objects -> {"none", "running", "killed"}]
  /\ vxlan \in Objects \cup {None, Outside}
  /\ ports \in [Objects -> SUBSET (Containers \cup {"dns0", "vxlan"})]
  /\ veth \in [Containers -> Objects \cup {None, Outside}]
  /\ monitored \in BOOLEAN /\ faulted \in BOOLEAN
  /\ created \in 0..MaxSandboxes
  /\ pc \in [Containers -> Resting \cup Adding \cup Deleting]
  /\ obj \in [Containers -> Objects \cup {None}]
  /\ dst \in [Containers -> Objects \cup {None}]
  /\ \A c \in Containers :   \* no request goes on with a nil sandbox
       /\ pc[c] \in UsesObj => obj[c] \in Objects
       /\ pc[c] \in UsesDst => dst[c] \in Objects

Init ==
  /\ registered = None /\ nsFile = None /\ vxlan = None /\ repo = Nil
  /\ locks = [i \in Objects |-> Nil]
  /\ destroyed = {} /\ dns0 = {} /\ bridges = {}
  /\ dns = [i \in Objects |-> "none"]
  /\ ports = [i \in Objects |-> {}]
  /\ veth = [c \in Containers |-> None]
  /\ monitored = FALSE /\ created = 0 /\ faulted = FALSE
  /\ pc = [c \in Containers |-> "absent"]
  /\ obj = [c \in Containers |-> None] /\ dst = [c \in Containers |-> None]

-----------------------------------------------------------------------------
InFlight(phase) == {c \in Containers : pc[c] \in phase}

\* Where a request that fails, or ends, comes to rest.
FailedFrom(c) == IF pc[c] \in Adding THEN "failed" ELSE "delFailed"

\* The deferred Unlock of the object's mutex.
Unlocked(c) == [i \in Objects |-> IF locks[i] = c THEN Nil ELSE locks[i]]

\* Request c is at a command that succeeds if ok holds and goes on with the
\* next; otherwise the group stops, every caller returns the error, and the
\* deferred Unlock runs.
Command(c, at, ok, next) ==
  /\ pc[c] = at
  /\ pc' = [pc EXCEPT ![c] = IF ok THEN next ELSE FailedFrom(c)]
  /\ locks' = IF ok THEN locks ELSE Unlocked(c)

\* A command fails for a reason of its own. What it did before that stays: a
\* monitor's done channel, a bridge that dns0 is not on yet. What a longer
\* command did shows as a fault of the step that follows it here.
Fault(c) ==
  /\ pc[c] \in Faults
  /\ pc' = [pc EXCEPT ![c] = FailedFrom(c)]
  /\ locks' = Unlocked(c)
  /\ repo' = IF repo = c THEN Nil ELSE repo
  /\ monitored' \in {monitored, monitored \/ (pc[c] = "monitor" /\ nsFile # None)}
  /\ bridges' \in {bridges, bridges \cup
                  {i \in Objects : pc[c] = "bridge" /\ i = obj[c] /\ veth[c] = i}}
  /\ UNCHANGED <<registered, created, destroyed, dns, obj, dst>>
  /\ UNCHANGED <<nsFile, vxlan, dns0, ports, veth>>

-----------------------------------------------------------------------------
(* Creator.Setup. *)

\* A container comes to the network. Bound: every ADD in flight may create
\* an object.
Add(c) ==
  /\ pc[c] = "absent"
  /\ Cardinality(InFlight(Adding)) < MaxAdds
  /\ created + Cardinality(InFlight(Adding)) < MaxSandboxes
  /\ pc' = [pc EXCEPT ![c] = "exists"]
  /\ obj' = [obj EXCEPT ![c] = None] /\ dst' = [dst EXCEPT ![c] = None]
  /\ UNCHANGED <<locks, destroyed, dns, monitored>>
  /\ UNCHANGED <<repoVars, kernelVars>>

\* Unless(SandboxExists): the answer may be stale when it is used.
SandboxExists(c) ==
  /\ repo = Nil /\ pc[c] = "exists"
  /\ pc' = [pc EXCEPT ![c] = IF registered = None THEN "create" ELSE "get"]
  /\ UNCHANGED <<locks, destroyed, dns, monitored, obj, dst>>
  /\ UNCHANGED <<repoVars, kernelVars>>

\* Repository.Create up to the entry in the map, under the repository's lock.
\* The mount point is opened with O_EXCL.
CreateSandbox(c) ==
  /\ repo = Nil
  /\ LET ok == registered = None /\ nsFile = None IN
     /\ Command(c, "create", ok, "setup")
     /\ created' = IF ok THEN created + 1 ELSE created
     /\ registered' = IF ok THEN created' ELSE registered
     /\ nsFile' = IF ok THEN created' ELSE nsFile
     /\ repo' = IF ok THEN c ELSE repo
  /\ UNCHANGED <<destroyed, dns, monitored, obj, dst>>
  /\ UNCHANGED <<vxlan, dns0, bridges, ports, veth>>

\* The namespace repository fails after it made the mount point: the file
\* stays, without an entry in the map.
CreateNamespaceFails(c) ==
  /\ repo = Nil /\ pc[c] = "create" /\ "create" \in Faults
  /\ registered = None /\ nsFile = None
  /\ created' = created + 1 /\ nsFile' = created'
  /\ pc' = [pc EXCEPT ![c] = "failed"]
  /\ UNCHANGED <<registered, repo, locks, destroyed, dns, monitored, obj, dst>>
  /\ UNCHANGED <<vxlan, dns0, bridges, ports, veth>>

\* Sandbox.Setup, still under the lock. When it fails the entry stays.
SetupSandbox(c) ==
  /\ Command(c, "setup", TRUE, "createVxlan")
  /\ repo' = Nil
  /\ UNCHANGED <<registered, created, destroyed, dns, monitored, obj, dst>>
  /\ UNCHANGED kernelVars

\* The kernel has one device for a VNI, wherever it was moved.
CreateVxlan(c) ==
  /\ Command(c, "createVxlan", vxlan = None, "vxlanGet")
  /\ vxlan' = IF vxlan = None THEN Outside ELSE vxlan
  /\ UNCHANGED <<destroyed, dns, monitored, obj, dst>>
  /\ UNCHANGED <<repoVars, nsFile, dns0, bridges, ports, veth>>

\* SandboxRepository().Get inside MoveLink and StartDNSServer.
GetInto(c, at, next) ==
  /\ repo = Nil
  /\ Command(c, at, registered # None, next)
  /\ dst' = [dst EXCEPT ![c] = registered]
  /\ UNCHANGED <<destroyed, dns, monitored, obj>>
  /\ UNCHANGED <<repoVars, kernelVars>>

MoveVxlan(c) ==
  /\ Command(c, "moveVxlan", vxlan = Outside, "dnsGet")
  /\ vxlan' = IF vxlan = Outside THEN dst[c] ELSE vxlan
  /\ UNCHANGED <<destroyed, dns, monitored, obj, dst>>
  /\ UNCHANGED <<repoVars, nsFile, dns0, bridges, ports, veth>>

\* sync.Mutex.Lock of a sandbox.
LockSandbox(c, i, at, next) ==
  /\ pc[c] = at /\ locks[i] = Nil
  /\ locks' = [locks EXCEPT ![i] = c]
  /\ pc' = [pc EXCEPT ![c] = next]
  /\ UNCHANGED <<destroyed, dns, monitored, obj, dst>>
  /\ UNCHANGED <<repoVars, kernelVars>>

\* StartDNSServer inside the namespace: the dummy device, its address, the
\* listener.
CreateDummy(c) ==
  /\ Command(c, "dnsDummy", dst[c] \notin dns0, "dnsLaunch")
  /\ dns0' = dns0 \cup {dst[c]}
  /\ UNCHANGED <<destroyed, dns, monitored, obj, dst>>
  /\ UNCHANGED <<repoVars, nsFile, vxlan, bridges, ports, veth>>

LaunchDNS(c) ==
  /\ pc[c] = "dnsLaunch"
  /\ pc' = [pc EXCEPT ![c] = "get"]
  /\ locks' = Unlocked(c)
  /\ dns' = [dns EXCEPT ![dst[c]] = "running"]
  /\ UNCHANGED <<destroyed, monitored, obj, dst>>
  /\ UNCHANGED <<repoVars, kernelVars>>

\* Mutant: Setup ignores that there is no such sandbox.
GetSandboxUnchecked(c) ==
  /\ repo = Nil
  /\ Command(c, "get", TRUE, "lock")
  /\ obj' = [obj EXCEPT ![c] = registered]
  /\ UNCHANGED <<destroyed, dns, monitored, dst>>
  /\ UNCHANGED <<repoVars, kernelVars>>

\* SandboxRepo.Get of Setup, before it locks what it got.
GetSandbox(c) ==
  /\ repo = Nil
  /\ Command(c, "get", registered # None, "lock")
  /\ obj' = [obj EXCEPT ![c] = registered]
  /\ UNCHANGED <<destroyed, dns, monitored, dst>>
  /\ UNCHANGED <<repoVars, kernelVars>>

\* SetLinkUp of the vxlan device in the namespace of the locked object.
VxlanUp(c) ==
  /\ Command(c, "linkUp", vxlan = obj[c], "monitor")
  /\ UNCHANGED <<destroyed, dns, monitored, obj, dst>>
  /\ UNCHANGED <<repoVars, kernelVars>>

\* StartMonitor opens the namespace by name, enters the done channel, and
\* only then looks for the device.
StartMonitor(c) ==
  /\ Command(c, "monitor", nsFile # None /\ vxlan = nsFile, "createVeth")
  /\ monitored' = (monitored \/ nsFile # None)
  /\ UNCHANGED <<destroyed, dns, obj, dst>>
  /\ UNCHANGED <<repoVars, kernelVars>>

CreateVeth(c) ==
  /\ Command(c, "createVeth", veth[c] = None, "vethGet")
  /\ veth' = [veth EXCEPT ![c] = IF @ = None THEN Outside ELSE @]
  /\ UNCHANGED <<destroyed, dns, monitored, obj, dst>>
  /\ UNCHANGED <<repoVars, nsFile, vxlan, dns0, bridges, ports>>

\* MoveLink, then the address, the state and the routes of the container's end.
MoveVeth(c) ==
  /\ Command(c, "moveVeth", veth[c] = Outside, "bridge")
  /\ veth' = [veth EXCEPT ![c] = IF @ = Outside THEN dst[c] ELSE @]
  /\ UNCHANGED <<destroyed, dns, monitored, obj, dst>>
  /\ UNCHANGED <<repoVars, nsFile, vxlan, dns0, bridges, ports>>

\* IdempotentlySetupBridge up to the bridge: it is made unless it is there,
\* and only then is dns0 enslaved. Without dns0 the command fails, and leaves
\* the bridge.
SetupBridge(c) ==
  LET i == obj[c]
      here == veth[c] = i
      new == i \notin bridges
  IN /\ Command(c, "bridge", here /\ (new => i \in dns0), "enslave")
     /\ bridges' = IF here THEN bridges \cup {i} ELSE bridges
     /\ ports' = IF here /\ new /\ i \in dns0
                 THEN [ports EXCEPT ![i] = @ \cup {"dns0"}] ELSE ports
     /\ UNCHANGED <<destroyed, dns, monitored, obj, dst>>
     /\ UNCHANGED <<repoVars, nsFile, vxlan, dns0, veth>>

\* SetLinkMaster of the vxlan device, then of the container's link.
Enslave(c) ==
  LET i == obj[c] IN
  /\ Command(c, "enslave", vxlan = i /\ veth[c] = i, "record")
  /\ ports' = [ports EXCEPT ![i] =
                 @ \cup IF vxlan # i THEN {}
                        ELSE IF veth[c] # i THEN {"vxlan"} ELSE {"vxlan", c}]
  /\ UNCHANGED <<destroyed, dns, monitored, obj, dst>>
  /\ UNCHANGED <<repoVars, nsFile, vxlan, dns0, bridges, veth>>

\* GetHardwareAddress, the return of Setup with its Unlock, Datastore.Create.
Record(c) ==
  /\ pc[c] = "record"
  /\ pc' = [pc EXCEPT ![c] = "attached"]
  /\ locks' = Unlocked(c)
  /\ UNCHANGED <<destroyed, dns, monitored, obj, dst>>
  /\ UNCHANGED <<repoVars, kernelVars>>

-----------------------------------------------------------------------------
(* Deletor.Delete. *)

\* DEL of a container that has a record, for the first time or again.
Del(c) ==
  /\ pc[c] \in {"attached", "delFailed", "alreadyDestroyed"}
  /\ Cardinality(InFlight(Deleting)) < MaxDels
  /\ pc' = [pc EXCEPT ![c] = "deleteLink"]
  /\ obj' = [obj EXCEPT ![c] = None] /\ dst' = [dst EXCEPT ![c] = None]
  /\ UNCHANGED <<locks, destroyed, dns, monitored>>
  /\ UNCHANGED <<repoVars, kernelVars>>

\* Both ends of the pair vanish.
DeleteLink(c) ==
  /\ Command(c, "deleteLink", veth[c] # None, "cleanupGet")
  /\ veth' = [veth EXCEPT ![c] = None]
  /\ ports' = [i \in Objects |-> ports[i] \ {c}]
  /\ UNCHANGED <<destroyed, dns, monitored, obj, dst>>
  /\ UNCHANGED <<repoVars, nsFile, vxlan, dns0, bridges>>

\* CleanupSandbox gets the sandbox by name; without one there is nothing to do.
CleanupGet(c) ==
  /\ repo = Nil /\ pc[c] = "cleanupGet"
  /\ pc' = [pc EXCEPT ![c] = IF registered = None THEN "absent" ELSE "cleanupLock"]
  /\ obj' = [obj EXCEPT ![c] = registered]
  /\ UNCHANGED <<locks, destroyed, dns, monitored, dst>>
  /\ UNCHANGED <<repoVars, kernelVars>>

\* Mutant: the last-but-one container already takes the sandbox down.
VethCountOffByOne(c) ==
  LET used == Cardinality({x \in Containers : veth[x] = obj[c]}) > 1 IN
  /\ pc[c] = "count"
  /\ pc' = [pc EXCEPT ![c] = IF used THEN "absent" ELSE "deleteVxlan"]
  /\ locks' = IF used THEN Unlocked(c) ELSE locks
  /\ UNCHANGED <<destroyed, dns, monitored, obj, dst>>
  /\ UNCHANGED <<repoVars, kernelVars>>

\* Mutant: the vxlan device is deleted before the links are counted.
VethCountTooLate(c) ==
  LET used == \E x \in Containers : veth[x] = obj[c] IN
  /\ pc[c] = "count"
  /\ pc' = [pc EXCEPT ![c] = IF used THEN "absent" ELSE "destroy"]
  /\ locks' = IF used THEN Unlocked(c) ELSE locks
  /\ vxlan' = IF vxlan = obj[c] THEN None ELSE vxlan
  /\ UNCHANGED <<destroyed, dns, monitored, obj, dst>>
  /\ UNCHANGED <<repoVars, nsFile, dns0, bridges, ports, veth>>

\* VethDeviceCount in the namespace of the object it got.
VethDeviceCount(c) ==
  LET used == \E x \in Containers : veth[x] = obj[c] IN
  /\ pc[c] = "count"
  /\ pc' = [pc EXCEPT ![c] = IF used THEN "absent" ELSE "deleteVxlan"]
  /\ locks' = IF used THEN Unlocked(c) ELSE locks
  /\ UNCHANGED <<destroyed, dns, monitored, obj, dst>>
  /\ UNCHANGED <<repoVars, kernelVars>>

\* An error is ignored if the device is not there.
DeleteVxlan(c) ==
  /\ Command(c, "deleteVxlan", TRUE, "destroy")
  /\ vxlan' = IF vxlan = obj[c] THEN None ELSE vxlan
  /\ ports' = [ports EXCEPT ![obj[c]] = @ \ {"vxlan"}]
  /\ UNCHANGED <<destroyed, dns, monitored, obj, dst>>
  /\ UNCHANGED <<repoVars, nsFile, dns0, bridges, veth>>

\* Repository.Destroy looks the name up again: nothing is found ...
DestroyNotFound(c) ==
  /\ pc[c] = "destroy" /\ repo = Nil /\ registered = None
  /\ pc' = [pc EXCEPT ![c] = "absent"]
  /\ locks' = Unlocked(c)
  /\ UNCHANGED <<destroyed, dns, monitored, obj, dst>>
  /\ UNCHANGED <<repoVars, kernelVars>>

\* ... or Teardown refuses: the object was torn down before (Destroy wraps the
\* error, so that CleanupSandbox does not know it), or is not monitored ...
TeardownFails(c) ==
  /\ pc[c] = "destroy" /\ repo = Nil /\ registered # None
  /\ registered \in destroyed \/ ~monitored
  /\ pc' = [pc EXCEPT ![c] = IF registered \in destroyed THEN "alreadyDestroyed"
                                                         ELSE "delFailed"]
  /\ locks' = Unlocked(c)
  /\ UNCHANGED <<destroyed, dns, monitored, obj, dst>>
  /\ UNCHANGED <<repoVars, kernelVars>>

\* Mutant: Teardown takes the mutex of the sandbox.
TeardownLocks(c) ==
  /\ pc[c] = "destroy" /\ repo = Nil /\ registered # None
  /\ locks[registered] = Nil
  /\ registered \notin destroyed /\ monitored
  /\ pc' = [pc EXCEPT ![c] = "nsDestroy"]
  /\ repo' = c
  /\ monitored' = FALSE
  /\ dns' = [dns EXCEPT ![registered] = IF @ = "running" THEN "killed" ELSE @]
  /\ destroyed' = destroyed \cup {registered}
  /\ UNCHANGED <<locks, registered, created, obj, dst>>
  /\ UNCHANGED kernelVars

\* ... or it stops the monitor and the DNS server. The repository's lock is
\* kept; the mutex of the object is not asked for.
Teardown(c) ==
  /\ pc[c] = "destroy" /\ repo = Nil /\ registered # None
  /\ registered \notin destroyed /\ monitored
  /\ pc' = [pc EXCEPT ![c] = "nsDestroy"]
  /\ repo' = c
  /\ monitored' = FALSE
  /\ dns' = [dns EXCEPT ![registered] = IF @ = "running" THEN "killed" ELSE @]
  /\ destroyed' = destroyed \cup {registered}
  /\ UNCHANGED <<locks, registered, created, obj, dst>>
  /\ UNCHANGED kernelVars

\* Mutant: the entry of the destroyed sandbox stays in the map.
DestroyKeepsEntry(c) ==
  /\ pc[c] = "nsDestroy"
  /\ pc' = [pc EXCEPT ![c] = "absent"]
  /\ nsFile' = None /\ repo' = Nil
  /\ locks' = Unlocked(c)
  /\ UNCHANGED <<registered, created, destroyed, dns, monitored, obj, dst>>
  /\ UNCHANGED <<vxlan, dns0, bridges, ports, veth>>

\* The namespace is unmounted by its path and the entry deleted; both defers
\* run.
DestroyNamespace(c) ==
  /\ pc[c] = "nsDestroy"
  /\ pc' = [pc EXCEPT ![c] = "absent"]
  /\ nsFile' = None /\ registered' = None /\ repo' = Nil
  /\ locks' = Unlocked(c)
  /\ UNCHANGED <<created, destroyed, dns, monitored, obj, dst>>
  /\ UNCHANGED <<vxlan, dns0, bridges, ports, veth>>

-----------------------------------------------------------------------------
AddStep(c) ==
  \/ SandboxExists(c) \/ CreateSandbox(c) \/ SetupSandbox(c) \/ CreateVxlan(c)
  \/ GetInto(c, "vxlanGet", "moveVxlan") \/ MoveVxlan(c)
  \/ GetInto(c, "dnsGet", "dnsLock") \/ LockSandbox(c, dst[c], "dnsLock", "dnsDummy")
  \/ CreateDummy(c) \/ LaunchDNS(c)
  \/ GetSandbox(c) \/ LockSandbox(c, obj[c], "lock", "linkUp")
  \/ VxlanUp(c) \/ StartMonitor(c) \/ CreateVeth(c)
  \/ GetInto(c, "vethGet", "moveVeth") \/ MoveVeth(c)
  \/ SetupBridge(c) \/ Enslave(c) \/ Record(c)

DelStep(c) ==
  \/ DeleteLink(c) \/ CleanupGet(c)
  \/ LockSandbox(c, obj[c], "cleanupLock", "count")
  \/ VethDeviceCount(c) \/ DeleteVxlan(c)
  \/ DestroyNotFound(c) \/ TeardownFails(c) \/ Teardown(c) \/ DestroyNamespace(c)

Step(c) == \/ (AddStep(c) \/ DelStep(c)) /\ UNCHANGED faulted
           \/ (Fault(c) \/ CreateNamespaceFails(c)) /\ faulted' = TRUE

Arrival == UNCHANGED faulted /\ \E c \in Containers : Add(c) \/ Del(c)

Next == Arrival \/ \E c \in Containers : Step(c)

Spec == Init /\ [][Next]_vars

\* A goroutine that can take a step takes one eventually. A fault is a step.
FairSpec == Spec /\ \A c \in Containers : WF_vars(Step(c))

-----------------------------------------------------------------------------
Quiet == \A c \in Containers : pc[c] \in Resting

\* A sandbox that still has a container's link in it is not torn down:
\* CleanupSandbox counts the links, under the mutex of the object it got, and
\* then destroys whatever the name is bound to.
DestroyedSandboxIsEmpty ==
  \A c \in Containers : veth[c] \notin destroyed

\* While a container is attached its link is a port of the bridge in the
\* sandbox that has the name, together with the vxlan device, and misses are
\* monitored; no request of another container takes any of it away.
AttachedIsConnected ==
  \A c \in Containers : pc[c] = "attached" =>
    /\ veth[c] = registered /\ vxlan = registered /\ nsFile = registered
    /\ registered \in Objects /\ monitored
    /\ {"vxlan", c} \subseteq ports[registered]

\* An attached container can ask the DNS server: it runs, and its device is on
\* the bridge. StartDNSServer does one and IdempotentlySetupBridge the other.
DNSReachable ==
  \A c \in Containers : pc[c] = "attached" /\ veth[c] \in Objects =>
    dns[veth[c]] = "running" /\ "dns0" \in ports[veth[c]]

\* When the last container has left and all requests are over, CleanupSandbox
\* has left nothing behind, no sandbox, namespace, vxlan device or monitor,
\* although ADDs raced each other and failed; unless a command failed for a
\* reason of its own, for nothing is undone then.
LastOneOutCleansUp ==
  Quiet /\ ~faulted /\ (\A c \in Containers : veth[c] \notin Objects) =>
    /\ registered = None /\ nsFile = None /\ vxlan = None /\ ~monitored
    /\ \A i \in Objects : dns[i] # "running"

\* Requests never wait for each other for ever: if no more of them arrive, all
\* of them end. The mutexes of the sandboxes are taken before the lock of the
\* repository, never after it.
RequestsEnd == <>[][~Arrival]_vars => <>[]Quiet
=============================================================================
