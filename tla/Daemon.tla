------------------------------- MODULE Daemon -------------------------------
(***************************************************************************)
(* The daemon of one host as the container runtime sees it: the client     *)
(* library (client/), the HTTP handlers (handlers/), the controllers       *)
(* (cni/), and under them the allocator, the sandboxes, the kernel and the *)
(* datastore; with crashes and restarts (cmd/ducatid/main.go, reloader/),  *)
(* commands that fail, and calls the runtime gives up while the handler    *)
(* goes on.                                                                *)
(*                                                                         *)
(* A step is one call of a controller into another component. Below that   *)
(* the components are abstract: the allocator is the table of leases of    *)
(* LeaseTable, asked and then written as AllocateIP does, and the parts of *)
(* Setup and Delete that run under one mutex are one step; their own       *)
(* interleavings are the subject of IPAM and Sandboxes.                    *)
(*                                                                         *)
(* A container belongs to one network for life, as an application belongs  *)
(* to a space.                                                             *)
(***************************************************************************)
EXTENDS Config, FiniteSets, TLC

CONSTANTS
  Containers, Networks, Procs,  \* Procs: goroutines that serve requests
  DefaultNetworkID,
  Digest,        \* Digest[n]: the bytes of the hash of n that make the VNI
  Spaces,        \* what the spaces of the containers may be
  Files,         \* configuration files the daemon may be started with
  Pool,          \* the addresses that they let it lease
  Faults,        \* steps that may fail although they could succeed
  MaxTroubles,   \* bound: crashes, failed steps and lost calls together
  MaxCrashes,    \* bound: crashes among them
  MaxCalls,      \* bound: calls of the runtime
  Lossy,         \* TRUE: the runtime may give a call up
  Nil

\* network.FixedNetworkMapper.
GetNetworkID(space) == IF space = Missing THEN DefaultNetworkID ELSE space

\* Mutant: the wrong byte of the digest is cleared.
GetVNIOfNothing(n) == Digest[DefaultNetworkID]

GetVNI(n) == Digest[n]

VNIs == {Digest[n] : n \in Networks}

Adding == {"contains", "reserve", "exists", "create", "createVxlan", "moveVxlan",
           "startDNS", "attach", "record"}
Deleting == {"get", "deleteLink", "cleanup", "destroy", "unrecord", "release"}
Fallible == {"create", "createVxlan", "moveVxlan", "startDNS", "attach",
             "record", "get", "deleteLink", "cleanup", "destroy", "unrecord"}

ASSUME DaemonAssumption ==
  /\ Nil \notin Containers \cup Procs \cup Pool /\ Missing # Bad
  /\ Spaces \subseteq [Containers -> Networks \cup {Missing}]
  /\ \A f \in Files : Accepted(f) => Leasable(ParseAndValidate(f)) \subseteq Pool
  /\ DefaultNetworkID \in Networks /\ Missing \notin Networks
  /\ Faults \subseteq Fallible /\ Lossy \in BOOLEAN
  /\ {MaxTroubles, MaxCrashes, MaxCalls} \subseteq Nat

\* What ParseCIDR and ParseIP return. A mask leaves a power of two, so of two
\* masks one leaves a multiple of what the other leaves.
ASSUME MaskAssumption ==
  /\ IndexTop \in Nat
  /\ \A f \in Files : Accepted(f) =>
       /\ f.LocalSubnet \in Subnets /\ f.OverlayNetwork \in Subnets
       /\ f.Index \in Int /\ f.OverlayDNSAddress \in Nat
       /\ \/ f.LocalSubnet.size % f.OverlayNetwork.size = 0
          \/ f.OverlayNetwork.size % f.LocalSubnet.size = 0

VARIABLES
  \* what outlives the daemon
  spaceOf,    \* spaceOf[c]: the space in c's network payload, or Missing
  file,       \* the configuration file
  records,    \* records[c]: the address in c's row of the datastore, or Nil
  nsFile,     \* nsFile[v]: what is under the sandbox directory: "none", a
              \*   "plain" file, or a namespace "mounted" on it
  vxlan,      \* vxlan[v]: the device of v: "none", in the "host" namespace
              \*   or in the "sandbox"
  dns0,       \* sandboxes that have the device dns0
  bridges,    \* sandboxes that have the bridge
  link,       \* link[c]: the address of c's link into its sandbox, or Nil
  \* what does not
  daemon,     \* "down", "up", or "exited": main ended in log.Fatalf
  lease,      \* lease[n][a]: the container that has a, or Nil
  sandboxes,  \* Repository.Sandboxes
  torn,       \* those whose Teardown succeeded
  monitored,  \* sandboxes in DoneChans
  dns,        \* sandboxes whose DNS process runs
  pc, req, ip,\* each goroutine: next step, container it serves, its address
  \* the runtime
  conn,       \* conn[c]: the goroutine whose response c's call waits for
  told,       \* told[c]: what the last call for c returned
  \* history
  lost,       \* containers with a call whose end the runtime did not see
  dirty,      \* two requests met in a sandbox, a step failed by itself, or
              \*   a crash met a request
  crashes, troubles, calls

fixed == <<spaceOf, file>>
disk == <<fixed, records, nsFile, vxlan, dns0, bridges, link>>
memory == <<lease, sandboxes, torn, monitored, dns>>
procs == <<pc, req, ip>>
client == <<conn, told>>
history == <<lost, dirty, crashes, troubles, calls>>
vars == <<spaceOf, file, records, nsFile, vxlan, dns0, bridges, link, daemon, lease,
          sandboxes, torn, monitored, dns, pc, req, ip, conn, told, lost,
          dirty, crashes, troubles, calls>>

\* The network, and the name of the sandbox, that a container belongs to.
Net(c) == GetNetworkID(spaceOf[c])
Sbox(c) == GetVNI(Net(c))

Results == {"none", "waiting", "up", "down", "already", "full", "addError",
            "delError", "delRefused", "lost"}

TypeOK ==
  /\ spaceOf \in [Containers -> Networks \cup {Missing}]
  /\ file \in Files /\ records \in [Containers -> Pool \cup {Nil}]
  /\ nsFile \in [VNIs -> {"none", "plain", "mounted"}]
  /\ vxlan \in [VNIs -> {"none", "host", "sandbox"}]
  /\ dns0 \subseteq VNIs /\ bridges \subseteq VNIs
  /\ link \in [Containers -> Pool \cup {Nil}]
  /\ daemon \in {"down", "up", "exited"}
  /\ lease \in [Networks -> [Pool -> Containers \cup {Nil}]]
  /\ sandboxes \subseteq VNIs /\ torn \subseteq sandboxes
  /\ monitored \subseteq VNIs /\ dns \subseteq VNIs
  /\ pc \in [Procs -> {"idle"} \cup Adding \cup Deleting]
  /\ req \in [Procs -> Containers \cup {Nil}]
  /\ ip \in [Procs -> Pool \cup {Nil}]
  /\ conn \in [Containers -> Procs \cup {Nil}]
  /\ told \in [Containers -> Results]
  /\ \A c \in Containers : told[c] = "waiting" <=> conn[c] # Nil
  /\ lost \subseteq Containers /\ dirty \in BOOLEAN
  /\ crashes \in 0..MaxCrashes /\ troubles \in crashes..MaxTroubles
  /\ calls \in 0..MaxCalls

Init ==
  /\ spaceOf \in Spaces
  /\ file \in Files
  /\ records = [c \in Containers |-> Nil] /\ link = [c \in Containers |-> Nil]
  /\ nsFile = [v \in VNIs |-> "none"] /\ vxlan = [v \in VNIs |-> "none"]
  /\ dns0 = {} /\ bridges = {}
  /\ daemon = "down"
  /\ lease = [n \in Networks |-> [a \in Pool |-> Nil]]
  /\ sandboxes = {} /\ torn = {} /\ monitored = {} /\ dns = {}
  /\ pc = [p \in Procs |-> "idle"]
  /\ req = [p \in Procs |-> Nil] /\ ip = [p \in Procs |-> Nil]
  /\ conn = [c \in Containers |-> Nil] /\ told = [c \in Containers |-> "none"]
  /\ lost = {} /\ dirty = FALSE /\ crashes = 0 /\ troubles = 0 /\ calls = 0

-----------------------------------------------------------------------------
(* HTTP: the status a handler answers with, and what the client makes of it. *)

CNIAddStatus(outcome) ==
  CASE outcome = "ok" -> 201
    [] outcome = "alreadyOnNetwork" -> 400
    [] outcome = "noMoreAddresses" -> 409
    [] OTHER -> 500

CNIDelStatus(outcome) == IF outcome = "ok" THEN 204 ELSE 500

\* JSONClient.BuildAndDo: the status of success, one that means something to
\* the caller, or the error of checkStatus.
BuildAndDo(status, known, error) ==
  IF status \in DOMAIN known THEN known[status] ELSE error

ContainerUp(status) ==
  BuildAndDo(status, [s \in {201, 400, 409} |-> CASE s = 201 -> "up"
                                                  [] s = 400 -> "already"
                                                  [] s = 409 -> "full"], "addError")

\* A refusal is told from other errors by the status in the error only.
ContainerDown(status) ==
  BuildAndDo(status, [s \in {204, 400} |-> IF s = 204 THEN "down" ELSE "delRefused"],
             "delError")

\* The handlers that only read: the status of get_container, and the rows of
\* list_containers and networks_list_containers.
GetContainer(c) == IF records[c] = Nil THEN 404 ELSE 200
FindContainer(c) ==    \* the client's side of get_container
  BuildAndDo(GetContainer(c),
             [s \in {200, 404} |-> IF s = 200 THEN "found" ELSE "notFound"], "error")
ListContainers == {c \in Containers : records[c] # Nil}
NetworksListContainers(n) == {c \in ListContainers : Net(c) = n}

\* Goroutine p answers its request with this outcome of the controller, and
\* the client, if it still waits, takes the answer.
Answer(p, outcome) ==
  LET c == req[p]
      result == IF pc[p] \in Adding THEN ContainerUp(CNIAddStatus(outcome))
                                   ELSE ContainerDown(CNIDelStatus(outcome))
      heard == conn[c] = p
  IN /\ pc' = [pc EXCEPT ![p] = "idle"]
     /\ req' = [req EXCEPT ![p] = Nil] /\ ip' = [ip EXCEPT ![p] = Nil]
     /\ told' = IF heard THEN [told EXCEPT ![c] = result] ELSE told
     /\ conn' = IF heard THEN [conn EXCEPT ![c] = Nil] ELSE conn

\* The step `at' of p goes on to the next one if ok, or ends the request.
Then(p, at, ok, next) ==
  /\ pc[p] = at
  /\ IF ok THEN pc' = [pc EXCEPT ![p] = next] /\ UNCHANGED <<req, ip, client>>
     ELSE Answer(p, "error")

-----------------------------------------------------------------------------
(* The runtime. *)

\* The bound on what may go wrong in a behaviour.
Trouble == troubles < MaxTroubles /\ troubles' = troubles + 1

\* CNIAdd or CNIDel of the client with a complete payload.
Call(c, p, first) ==
  /\ daemon = "up" /\ told[c] # "waiting" /\ pc[p] = "idle"
  /\ pc' = [pc EXCEPT ![p] = first] /\ req' = [req EXCEPT ![p] = c]
  /\ conn' = [conn EXCEPT ![c] = p] /\ told' = [told EXCEPT ![c] = "waiting"]
  /\ dirty' = (dirty \/ \E q \in Procs : pc[q] # "idle" /\ Sbox(req[q]) = Sbox(c))
  /\ calls < MaxCalls /\ calls' = calls + 1
  /\ UNCHANGED <<disk, daemon, memory, ip, lost, crashes, troubles>>

\* A payload that lacks a field never gets to the controller.
Refuse(c, result) ==
  /\ daemon = "up" /\ told[c] # "waiting"
  /\ told' = [told EXCEPT ![c] = result]
  /\ calls < MaxCalls /\ calls' = calls + 1
  /\ UNCHANGED <<disk, daemon, memory, procs, conn, lost, dirty, crashes, troubles>>

BadAdd(c) == Refuse(c, ContainerUp(400))
BadDel(c) == Refuse(c, ContainerDown(400))

\* The connection breaks, or the runtime stops waiting. HttpClient.Do or the
\* reading of the response returns an error; the handler goes on.
GiveUp(c) ==
  /\ Lossy /\ told[c] = "waiting" /\ Trouble
  /\ told' = [told EXCEPT ![c] = "lost"] /\ conn' = [conn EXCEPT ![c] = Nil]
  /\ lost' = lost \cup {c}
  /\ UNCHANGED <<disk, daemon, memory, procs, dirty, crashes, calls>>

-----------------------------------------------------------------------------
(* AddController.Add. *)

Conf == ParseAndValidate(file)

\* Mutant: the error path gives back the address that the container has.
ContainsReleases(p) ==
  LET c == req[p]
      has == \E a \in Pool : lease[Net(c)][a] = c
  IN /\ pc[p] = "contains"
     /\ IF has THEN Answer(p, "alreadyOnNetwork")
        ELSE pc' = [pc EXCEPT ![p] = "reserve"] /\ UNCHANGED <<req, ip, client>>
     /\ lease' = [lease EXCEPT ![Net(c)] =
                    [a \in Pool |-> IF @[a] = c THEN Nil ELSE @[a]]]
     /\ UNCHANGED <<disk, daemon, sandboxes, torn, monitored, dns, history>>

\* AllocateIP refuses a container that has an address. The answer is stale
\* when Reserve uses it.
ContainsID(p) ==
  LET has == \E a \in Pool : lease[Net(req[p])][a] = req[p]
  IN /\ pc[p] = "contains"
     /\ IF has THEN Answer(p, "alreadyOnNetwork")
        ELSE pc' = [pc EXCEPT ![p] = "reserve"] /\ UNCHANGED <<req, ip, client>>
     /\ UNCHANGED <<disk, daemon, memory, history>>

\* Mutant: key and value of the map are swapped.
ReserveSwapped(p) ==
  LET n == Net(req[p]) IN
  /\ pc[p] = "reserve"
  /\ \E a \in Leasable(Conf) :
       /\ lease[n][a] = Nil /\ \A b \in Leasable(Conf) : b < a => lease[n][b] # Nil
       /\ lease' = [lease EXCEPT ![n] = [@ EXCEPT ![a] = a]]
       /\ ip' = [ip EXCEPT ![p] = a]
  /\ pc' = [pc EXCEPT ![p] = "exists"]
  /\ UNCHANGED <<disk, daemon, sandboxes, torn, monitored, dns, req, client, history>>

\* The search of AllocateIP ends with the first free address ...
Reserve(p) ==
  LET n == Net(req[p]) IN
  /\ pc[p] = "reserve"
  /\ \E a \in Leasable(Conf) :
       /\ lease[n][a] = Nil /\ \A b \in Leasable(Conf) : b < a => lease[n][b] # Nil
       /\ lease' = [lease EXCEPT ![n] = [@ EXCEPT ![a] = req[p]]]
       /\ ip' = [ip EXCEPT ![p] = a]
  /\ pc' = [pc EXCEPT ![p] = "exists"]
  /\ UNCHANGED <<disk, daemon, sandboxes, torn, monitored, dns, req, client, history>>

\* ... or without one.
NoMoreAddresses(p) ==
  /\ pc[p] = "reserve"
  /\ \A a \in Leasable(Conf) : lease[Net(req[p])][a] # Nil
  /\ Answer(p, "noMoreAddresses")
  /\ UNCHANGED <<disk, daemon, memory, history>>

\* Setup begins: Unless(SandboxExists).
SandboxExists(p) ==
  /\ Then(p, "exists", TRUE,
          IF Sbox(req[p]) \in sandboxes THEN "attach" ELSE "create")
  /\ UNCHANGED <<disk, daemon, memory, history>>

CanCreate(v) == v \notin sandboxes /\ nsFile[v] = "none"

\* Repository.Create: the mount point is opened with O_EXCL, the namespace
\* mounted on it, and the sandbox entered in the map.
CreateSandbox(p) ==
  LET v == Sbox(req[p]) IN
  /\ Then(p, "create", CanCreate(v), "createVxlan")
  /\ nsFile' = IF CanCreate(v) THEN [nsFile EXCEPT ![v] = "mounted"] ELSE nsFile
  /\ sandboxes' = sandboxes \cup {w \in {v} : CanCreate(v)}
  /\ UNCHANGED <<fixed, records, vxlan, dns0, bridges, link, daemon>>
  /\ UNCHANGED <<lease, torn, monitored, dns, history>>

\* The kernel has one device for a VNI. MoveLink finds it in the namespace of
\* the host only.
CreateVxlan(p) ==
  LET v == Sbox(req[p]) IN
  /\ Then(p, "createVxlan", vxlan[v] = "none", "moveVxlan")
  /\ vxlan' = [vxlan EXCEPT ![v] = IF @ = "none" THEN "host" ELSE @]
  /\ UNCHANGED <<fixed, records, nsFile, dns0, bridges, link, daemon, memory, history>>

MoveVxlan(p) ==
  LET v == Sbox(req[p])
      ok == vxlan[v] = "host" /\ v \in sandboxes
  IN /\ Then(p, "moveVxlan", ok, "startDNS")
     /\ vxlan' = IF ok THEN [vxlan EXCEPT ![v] = "sandbox"] ELSE vxlan
     /\ UNCHANGED <<fixed, records, nsFile, dns0, bridges, link, daemon, memory, history>>

\* A request holds the mutex of the sandbox from one step to the next.
Locked(v) == \E q \in Procs : pc[q] = "destroy" /\ Sbox(req[q]) = v

StartDNSServer(p) ==
  LET v == Sbox(req[p])
      ok == v \in sandboxes /\ v \notin dns0
  IN /\ pc[p] = "startDNS" /\ ~Locked(v)
     /\ Then(p, "startDNS", ok, "attach")
     /\ dns0' = dns0 \cup {w \in {v} : ok} /\ dns' = dns \cup {w \in {v} : ok}
     /\ UNCHANGED <<fixed, records, nsFile, vxlan, bridges, link, daemon>>
     /\ UNCHANGED <<lease, sandboxes, torn, monitored, history>>

\* How far the rest of Setup can get: to the vxlan device (1), to the monitor
\* (2), to the container's link (3), to the bridge (4), which wants dns0 when
\* it is made, and to the end (5).
Reach(p) ==
  LET v == Sbox(req[p]) IN
  IF v \notin sandboxes \/ vxlan[v] # "sandbox" THEN 0
  ELSE IF nsFile[v] # "mounted" THEN 1
  ELSE IF link[req[p]] # Nil THEN 2
  ELSE IF v \notin bridges \cup dns0 THEN 4 ELSE 5

\* What is there once Setup has got so far.
SetUpTo(p, k) ==
  LET v == Sbox(req[p]) IN
  /\ monitored' = monitored \cup {w \in {v} : k >= 2}
  /\ link' = IF k >= 3 THEN [link EXCEPT ![req[p]] = ip[p]] ELSE link
  /\ bridges' = bridges \cup {w \in {v} : k >= 4}
  /\ UNCHANGED <<fixed, records, nsFile, vxlan, dns0, daemon>>
  /\ UNCHANGED <<lease, sandboxes, torn, dns>>

Attach(p) ==
  /\ pc[p] = "attach" /\ ~Locked(Sbox(req[p]))
  /\ Then(p, "attach", Reach(p) = 5, "record")
  /\ SetUpTo(p, Reach(p))
  /\ UNCHANGED history

\* Datastore.Create: the identifier is the primary key.
CreateRecord(p) ==
  LET c == req[p] IN
  /\ pc[p] = "record"
  /\ Answer(p, IF records[c] = Nil THEN "ok" ELSE "error")
  /\ records' = [records EXCEPT ![c] = IF @ = Nil THEN ip[p] ELSE @]
  /\ UNCHANGED <<fixed, nsFile, vxlan, dns0, bridges, link, daemon, memory, history>>

-----------------------------------------------------------------------------
(* DelController.Del. *)

GetRecord(p) ==
  /\ Then(p, "get", records[req[p]] # Nil, "deleteLink")
  /\ UNCHANGED <<disk, daemon, memory, history>>

DeleteLink(p) ==
  /\ Then(p, "deleteLink", link[req[p]] # Nil, "cleanup")
  /\ link' = [link EXCEPT ![req[p]] = Nil]
  /\ UNCHANGED <<fixed, records, nsFile, vxlan, dns0, bridges, daemon, memory, history>>

InUse(v) == \E c \in Containers : link[c] # Nil /\ Sbox(c) = v

\* Mutant: the links in the sandbox are not counted.
CleanupUncounted(p) ==
  LET v == Sbox(req[p])
      last == v \in sandboxes
  IN /\ pc[p] = "cleanup" /\ ~Locked(v)
     /\ Then(p, "cleanup", TRUE, IF last THEN "destroy" ELSE "unrecord")
     /\ vxlan' = [vxlan EXCEPT ![v] = IF last /\ @ = "sandbox" THEN "none" ELSE @]
     /\ UNCHANGED <<fixed, records, nsFile, dns0, bridges, link, daemon, memory, history>>

\* CleanupSandbox: without a sandbox, or with a link still in it, there is
\* nothing to do. The vxlan device goes first.
CleanupSandbox(p) ==
  LET v == Sbox(req[p])
      last == v \in sandboxes /\ ~InUse(v)
  IN /\ pc[p] = "cleanup" /\ ~Locked(v)
     /\ Then(p, "cleanup", TRUE, IF last THEN "destroy" ELSE "unrecord")
     /\ vxlan' = [vxlan EXCEPT ![v] = IF last /\ @ = "sandbox" THEN "none" ELSE @]
     /\ UNCHANGED <<fixed, records, nsFile, dns0, bridges, link, daemon, memory, history>>

\* Mutant: Teardown signals the DNS process without asking whether there is
\* one.
CanDestroyWithDNS(v) == v \notin torn /\ v \in monitored /\ v \in dns

CanDestroy(v) == v \notin torn /\ v \in monitored

\* Mutant: the namespace is unmounted and its file stays.
DestroyKeepsFile(p) ==
  LET v == Sbox(req[p])
      gone == {w \in {v} : CanDestroy(v)}
  IN /\ Then(p, "destroy", gone # {}, "unrecord")
     /\ nsFile' = [w \in VNIs |-> IF w \in gone THEN "plain" ELSE nsFile[w]]
     /\ sandboxes' = sandboxes \ gone /\ monitored' = monitored \ gone
     /\ dns' = dns \ gone /\ dns0' = dns0 \ gone /\ bridges' = bridges \ gone
     /\ UNCHANGED <<fixed, records, vxlan, link, daemon, lease, torn, history>>

\* Repository.Destroy: Teardown refuses a sandbox that was torn down before or
\* has no monitor; otherwise the namespace goes with all that is in it.
DestroySandbox(p) ==
  LET v == Sbox(req[p])
      gone == {w \in {v} : CanDestroy(v)}
  IN /\ Then(p, "destroy", gone # {}, "unrecord")
     /\ nsFile' = [w \in VNIs |-> IF w \in gone THEN "none" ELSE nsFile[w]]
     /\ sandboxes' = sandboxes \ gone /\ monitored' = monitored \ gone
     /\ dns' = dns \ gone /\ dns0' = dns0 \ gone /\ bridges' = bridges \ gone
     /\ UNCHANGED <<fixed, records, vxlan, link, daemon, lease, torn, history>>

\* Datastore.Delete counts the rows it deleted.
DeleteRecord(p) ==
  LET c == req[p] IN
  /\ Then(p, "unrecord", records[c] # Nil, "release")
  /\ records' = [records EXCEPT ![c] = Nil]
  /\ UNCHANGED <<fixed, nsFile, vxlan, dns0, bridges, link, daemon, memory, history>>

\* Mutant: ReleaseIP is not called.
ReleaseForgotten(p) ==
  /\ pc[p] = "release" /\ Answer(p, "ok")
  /\ UNCHANGED <<disk, daemon, memory, history>>

ReleaseIP(p) ==
  LET c == req[p] IN
  /\ pc[p] = "release" /\ Answer(p, "ok")
  /\ lease' = [lease EXCEPT ![Net(c)] =
                 [a \in Pool |-> IF @[a] = c THEN Nil ELSE @[a]]]
  /\ UNCHANGED <<disk, daemon, sandboxes, torn, monitored, dns, history>>

-----------------------------------------------------------------------------
(* Failures, crashes and starts. *)

\* What the step of p leaves behind when it fails although it could succeed:
\* the kernel, the file system or the datastore refuses, before or after the
\* effect.
FailedCreate(p) ==
  LET v == Sbox(req[p]) IN
  /\ pc[p] = "create"
  /\ \/ UNCHANGED <<nsFile, sandboxes>>
     \/ /\ CanCreate(v) /\ UNCHANGED sandboxes
        /\ \E left \in {"plain", "mounted"} : nsFile' = [nsFile EXCEPT ![v] = left]
     \/ /\ CanCreate(v) /\ sandboxes' = sandboxes \cup {v}
        /\ nsFile' = [nsFile EXCEPT ![v] = "mounted"]
  /\ UNCHANGED <<fixed, records, vxlan, dns0, bridges, link, lease, torn, monitored, dns>>

FailedStartDNS(p) ==
  LET v == Sbox(req[p]) IN
  /\ pc[p] = "startDNS" /\ ~Locked(v)
  /\ dns0' \in {dns0} \cup {dns0 \cup {w} : w \in {v} \cap sandboxes}
  /\ UNCHANGED <<fixed, records, nsFile, vxlan, bridges, link, memory>>

FailedAttach(p) ==
  /\ pc[p] = "attach" /\ ~Locked(Sbox(req[p]))
  /\ \E k \in 0..Reach(p) : SetUpTo(p, k)

\* The monitor and the DNS process are stopped; then unmounting fails, or
\* removing the file.
FailedDestroy(p) ==
  LET v == Sbox(req[p]) IN
  /\ pc[p] = "destroy"
  /\ \/ UNCHANGED <<nsFile, torn, monitored, dns, dns0, bridges>>
     \/ /\ CanDestroy(v)
        /\ torn' = torn \cup {v} /\ monitored' = monitored \ {v} /\ dns' = dns \ {v}
        /\ \/ UNCHANGED <<nsFile, dns0, bridges>>
           \/ /\ nsFile' = [nsFile EXCEPT ![v] = "plain"]
              /\ UNCHANGED <<dns0, bridges>>
  /\ UNCHANGED <<fixed, records, vxlan, link, lease, sandboxes>>

\* The datastore commits, and its answer is lost.
FailedStore(p) ==
  LET c == req[p] IN
  /\ pc[p] \in {"record", "unrecord"}
  /\ \/ UNCHANGED records
     \/ /\ pc[p] = "record" /\ records[c] = Nil
        /\ records' = [records EXCEPT ![c] = ip[p]]
     \/ /\ pc[p] = "unrecord" /\ records' = [records EXCEPT ![c] = Nil]
  /\ UNCHANGED <<fixed, nsFile, vxlan, dns0, bridges, link, memory>>

FailedCleanly(p) ==
  /\ pc[p] \in {"createVxlan", "moveVxlan", "get", "deleteLink", "cleanup"}
  /\ pc[p] = "cleanup" => Sbox(req[p]) \in sandboxes /\ ~Locked(Sbox(req[p]))
  /\ UNCHANGED <<disk, memory>>

\* The controller returns the error, and nothing that the earlier steps did is
\* undone.
Fault(p) ==
  /\ pc[p] \in Faults
  /\ \/ FailedCreate(p) \/ FailedStartDNS(p) \/ FailedAttach(p)
     \/ FailedDestroy(p) \/ FailedStore(p) \/ FailedCleanly(p)
  /\ Answer(p, "error")
  /\ dirty' = TRUE /\ Trouble
  /\ UNCHANGED <<daemon, lost, crashes, calls>>

\* The process dies, and with it all that it holds in memory. It may have been
\* making or unmounting a namespace; one that is no longer mounted dies with
\* its devices, and the vxlan device of no namespace is none.
Crash ==
  LET at(step) == {Sbox(req[p]) : p \in {q \in Procs : pc[q] = step}}
      may(v) == {nsFile[v]}
                \cup (IF v \in at("create") /\ CanCreate(v) THEN {"plain", "mounted"} ELSE {})
                \cup (IF v \in at("destroy") /\ CanDestroy(v) THEN {"plain", "none"} ELSE {})
      waiting == {c \in Containers : told[c] = "waiting"}
  IN
  /\ daemon = "up" /\ crashes < MaxCrashes
  /\ daemon' = "down" /\ crashes' = crashes + 1 /\ Trouble
  /\ nsFile' \in {f \in [VNIs -> {"none", "plain", "mounted"}] :
                    \A v \in VNIs : f[v] \in may(v)}
  /\ LET alive == {v \in VNIs : nsFile'[v] = "mounted"} IN
     /\ vxlan' = [v \in VNIs |-> IF vxlan[v] = "sandbox" /\ v \notin alive
                                 THEN "none" ELSE vxlan[v]]
     /\ dns0' = dns0 \cap alive /\ bridges' = bridges \cap alive
     /\ link' = [c \in Containers |-> IF Sbox(c) \in alive THEN link[c] ELSE Nil]
  /\ lease' = [n \in Networks |-> [a \in Pool |-> Nil]]
  /\ sandboxes' = {} /\ torn' = {} /\ monitored' = {} /\ dns' = {}
  /\ pc' = [p \in Procs |-> "idle"]
  /\ req' = [p \in Procs |-> Nil] /\ ip' = [p \in Procs |-> Nil]
  /\ conn' = [c \in Containers |-> Nil]
  /\ told' = [c \in Containers |-> IF c \in waiting THEN "lost" ELSE told[c]]
  /\ lost' = lost \cup waiting
  /\ dirty' = (dirty \/ \E p \in Procs : pc[p] # "idle")
  /\ UNCHANGED <<fixed, records, calls>>

\* Repository.Load opens whatever lies in the sandbox directory. ForEach then
\* starts a monitor in each, which fails in a plain file (it is no namespace)
\* and where the vxlan device of that name is missing; main gives up.
Reloadable(v) == nsFile[v] = "mounted" /\ vxlan[v] = "sandbox"
OnDisk == {v \in VNIs : nsFile[v] # "none"}
Reloads == \A v \in OnDisk : Reloadable(v)

\* main, up to the HTTP server. The leases are not rebuilt from the records,
\* and no DNS process is started.
Start ==
  /\ daemon = "down"
  /\ IF Accepted(file) /\ Reloads
     THEN daemon' = "up" /\ sandboxes' = OnDisk /\ monitored' = OnDisk
     ELSE daemon' = "exited" /\ UNCHANGED <<sandboxes, monitored>>
  /\ UNCHANGED <<disk, lease, torn, dns, procs, client, history>>

-----------------------------------------------------------------------------
Next ==
  \/ \E c \in Containers, p \in Procs, first \in {"contains", "get"} : Call(c, p, first)
  \/ \E c \in Containers : BadAdd(c) \/ BadDel(c) \/ GiveUp(c)
  \/ \E p \in Procs :
       \/ ContainsID(p) \/ Reserve(p) \/ NoMoreAddresses(p)
       \/ SandboxExists(p) \/ CreateSandbox(p) \/ CreateVxlan(p)
       \/ MoveVxlan(p) \/ StartDNSServer(p) \/ Attach(p) \/ CreateRecord(p)
       \/ GetRecord(p) \/ DeleteLink(p) \/ CleanupSandbox(p)
       \/ DestroySandbox(p) \/ DeleteRecord(p) \/ ReleaseIP(p) \/ Fault(p)
  \/ Crash \/ Start

Spec == Init /\ [][Next]_vars

-----------------------------------------------------------------------------
(* Properties. *)

\* A container that the runtime was told is up, and of which no call was given
\* up, is attached: its record and its link have the same address, in a
\* mounted sandbox with a vxlan device and a bridge, which a running daemon
\* knows and watches; it is found by its identifier and listed under its own
\* network only. Requests of others, failures and restarts change none of it.
UpMeansAttached ==
  \A c \in Containers \ lost :
    told[c] = "up" =>
      LET v == Sbox(c) IN
      /\ records[c] # Nil /\ link[c] = records[c]
      /\ Reloadable(v) /\ v \in bridges
      /\ daemon = "up" => v \in (sandboxes \cap monitored) \ torn
      /\ FindContainer(c) = "found"
      /\ \A n \in Networks : c \in NetworksListContainers(n) <=> n = Net(c)
      /\ ~dirty /\ crashes = 0 => v \in dns

\* A container that the runtime was told is down, and of which no call was
\* given up, left nothing behind: no record, no link and no lease.
DownMeansGone ==
  \A c \in Containers \ lost :
    told[c] = "down" =>
      /\ records[c] = Nil /\ link[c] = Nil /\ FindContainer(c) = "notFound"
      /\ \A a \in Pool : lease[Net(c)][a] # c

\* As long as the daemon runs, an address that is in the datastore is leased
\* to its container, so that AllocateIP gives it to nobody else.
RecordedIsLeased ==
  crashes = 0 =>
    \A c \in ListContainers \ lost : lease[Net(c)][records[c]] = c

\* As long as the daemon runs, no two containers in a sandbox have the same
\* address: the allocator keeps addresses apart by network, the kernel by
\* sandbox, and GetVNI is what relates the two.
SandboxAddressesDiffer ==
  crashes = 0 =>
    \A c, d \in Containers \ lost :
      c # d /\ Sbox(c) = Sbox(d) /\ link[c] # Nil => link[c] # link[d]

\* Where no two requests met in a sandbox, no step failed and no request was
\* cut off, a daemon with an acceptable configuration starts again, whatever
\* requests it served before.
CleanRestart == daemon = "exited" /\ Accepted(file) => dirty

\* Under the same conditions a container that is recorded can be deleted,
\* after a restart too: the reload has to restore all that Teardown asks for.
DeletableAfterRestart ==
  \A c \in Containers \ lost :
    told[c] = "delError" /\ records[c] # Nil => dirty

\* A daemon that runs has a configuration under which its own address and the
\* DNS server's lie in the overlay, and of the two subnets one contains the
\* other. (Which one is not checked.)
StartedConfigIsSane ==
  daemon = "up" =>
    /\ Conf.LocalSubnet.ip \in Addresses(Conf.OverlayNetwork)
    /\ Conf.OverlayDNSAddress \in Addresses(Conf.OverlayNetwork)
    /\ \/ Addresses(Conf.LocalSubnet) \subseteq Addresses(Conf.OverlayNetwork)
       \/ Addresses(Conf.OverlayNetwork) \subseteq Addresses(Conf.LocalSubnet)

\* "attempting to reserve the same ip" is refused, says the test of the store:
\* no two containers of a network are recorded with one address.
AddressesAreUnique ==
  \A c, d \in ListContainers :
    c # d /\ Net(c) = Net(d) => records[c] # records[d]
=============================================================================
