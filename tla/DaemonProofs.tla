---------------------------- MODULE DaemonProofs ----------------------------
(***************************************************************************)
(* Theorems about Daemon, for any number of containers, networks and       *)
(* goroutines, any configuration and any bounds on what goes wrong: the    *)
(* types, what the runtime may conclude from "down", that recorded         *)
(* addresses are leased and differ within a sandbox, and what a running    *)
(* daemon's configuration is like. The inductive invariant is SafeInv.     *)
(***************************************************************************)
EXTENDS Daemon, TLAPS

\* The network and the sandbox of each container: Net and Sbox as functions.
net == [c \in Containers |-> Net(c)]
sbox == [c \in Containers |-> Sbox(c)]

\* A daemon runs only with a configuration that it accepted.
AcceptInv == daemon = "up" => Accepted(file)

\* Who serves whom. A container of which no call was given up is served by
\* nobody but the goroutine whose answer its call waits for.
Holding == {"exists", "create", "createVxlan", "moveVxlan", "startDNS", "attach",
            "record"}

ServeOf(p) ==
  /\ pc[p] = "idle" <=> req[p] = Nil
  /\ ip[p] # Nil <=> pc[p] \in Holding
  /\ pc[p] # "idle" => daemon = "up"
  /\ req[p] # Nil /\ req[p] \notin lost => conn[req[p]] = p

ServeInv ==
  /\ \A p \in Procs : ServeOf(p)
  /\ \A c \in Containers : conn[c] # Nil => req[conn[c]] = c

\* As long as the daemon runs, whatever address a container has somewhere is
\* leased to it.
LeaseInv ==
  crashes = 0 =>
    /\ \A c \in Containers \ lost :
         /\ records[c] # Nil => lease[net[c]][records[c]] = c
         /\ link[c] # Nil => lease[net[c]][link[c]] = c
    /\ \A p \in Procs :
         pc[p] \in Holding /\ req[p] \notin lost => lease[net[req[p]]][ip[p]] = req[p]

\* How far the only request of a container has got.
ProgressOf(p) ==
  LET c == req[p] IN
  c \notin lost =>
    /\ pc[p] \in {"cleanup", "destroy", "unrecord", "release"} => link[c] = Nil
    /\ pc[p] \in {"deleteLink", "cleanup", "destroy", "unrecord"} => records[c] # Nil
    /\ pc[p] = "release" => records[c] = Nil
    /\ pc[p] = "record" => link[c] = ip[p] /\ sbox[c] \in bridges

ToldOf(c) ==
  c \notin lost =>
    /\ told[c] = "down" =>
         records[c] = Nil /\ link[c] = Nil /\ \A a \in Pool : lease[net[c]][a] # c
    /\ told[c] = "up" =>
         records[c] # Nil /\ link[c] = records[c] /\ sbox[c] \in bridges

ProgressInv == (\A p \in Procs : ProgressOf(p)) /\ \A c \in Containers : ToldOf(c)

\* Whoever made a sandbox is the only one until its vxlan device is there;
\* whoever destroys one has found no links, and keeps it locked.
Making == {"createVxlan", "moveVxlan"}

MapInv ==
  /\ monitored \subseteq sandboxes /\ (daemon = "down" => sandboxes = {})
  /\ \A v \in sandboxes \ torn : nsFile[v] = "mounted"
  /\ \A v \in VNIs : vxlan[v] = "sandbox" => nsFile[v] = "mounted" /\ v \notin torn

RoleOf(p) ==
  LET v == sbox[req[p]] IN
  /\ pc[p] \in Making => v \in sandboxes /\ v \notin monitored \cup torn /\ vxlan[v] # "sandbox"
  /\ pc[p] = "destroy" =>
       /\ \A c \in Containers : link[c] # Nil => sbox[c] # v
       /\ v \in monitored => vxlan[v] # "sandbox"

RoleInv ==
  /\ \A p \in Procs : RoleOf(p)
  /\ \A p, q \in Procs : 
       /\ pc[p] \in Making /\ pc[q] \in Making /\ sbox[req[p]] = sbox[req[q]] => p = q
       /\ pc[p] = "destroy" /\ pc[q] = "destroy" /\ sbox[req[p]] = sbox[req[q]] => p = q

SandboxInv == MapInv /\ RoleInv

\* A link is in a sandbox that works.
LinkInv ==
  \A c \in Containers : link[c] # Nil =>
    /\ nsFile[sbox[c]] = "mounted" /\ vxlan[sbox[c]] = "sandbox"
    /\ daemon = "up" => sbox[c] \in (sandboxes \cap monitored) \ torn

SafeInv == TypeOK /\ AcceptInv /\ ServeInv /\ LeaseInv /\ ProgressInv /\ SandboxInv
           /\ LinkInv

-----------------------------------------------------------------------------
(* The shape of the steps. *)

\* Goroutine p goes on with another step, or ends its request, for which the
\* runtime, if it still waits, is told the result.
GoesOn(p, next) == pc' = [pc EXCEPT ![p] = next] /\ UNCHANGED <<req, ip, conn, told>>

Ends(p, result) ==
  /\ pc' = [pc EXCEPT ![p] = "idle"]
  /\ req' = [req EXCEPT ![p] = Nil] /\ ip' = [ip EXCEPT ![p] = Nil]
  /\ IF conn[req[p]] = p
     THEN told' = [told EXCEPT ![req[p]] = result] /\ conn' = [conn EXCEPT ![req[p]] = Nil]
     ELSE UNCHANGED <<told, conn>>

Fails(p) == Ends(p, IF pc[p] \in Adding THEN "addError" ELSE "delError")

\* The end of Fault.
FailedAnswer(p) ==
  /\ pc[p] \in Fallible
  /\ Answer(p, "error") /\ dirty' = TRUE /\ Trouble
  /\ UNCHANGED <<daemon, lost, crashes, calls>>

\* What the client makes of the statuses of the handlers.
LEMMA Answers ==
  /\ ContainerUp(CNIAddStatus("ok")) = "up"
  /\ ContainerUp(CNIAddStatus("alreadyOnNetwork")) = "already"
  /\ ContainerUp(CNIAddStatus("noMoreAddresses")) = "full"
  /\ ContainerUp(CNIAddStatus("error")) = "addError"
  /\ ContainerDown(CNIDelStatus("ok")) = "down"
  /\ ContainerDown(CNIDelStatus("error")) = "delError"
  /\ ContainerUp(400) = "already" /\ ContainerDown(400) = "delRefused"
<1> USE DEF ContainerUp, ContainerDown, BuildAndDo
<1>1. /\ CNIAddStatus("ok") = 201 /\ CNIAddStatus("alreadyOnNetwork") = 400
      /\ CNIAddStatus("noMoreAddresses") = 409 /\ CNIAddStatus("error") = 500
      /\ CNIDelStatus("ok") = 204 /\ CNIDelStatus("error") = 500
  BY DEF CNIAddStatus, CNIDelStatus
<1>2. ContainerUp(201) = "up" /\ ContainerUp(400) = "already" OBVIOUS
<1>3. ContainerUp(409) = "full" /\ ContainerUp(500) = "addError" OBVIOUS
<1>4. ContainerDown(204) = "down" /\ ContainerDown(500) = "delError"
      /\ ContainerDown(400) = "delRefused"
  OBVIOUS
<1> HIDE DEF ContainerUp, ContainerDown
<1> QED BY <1>1, <1>2, <1>3, <1>4

\* A container that is recorded is found by its identifier.
LEMMA Finding ==
  ASSUME NEW c \in Containers
  PROVE  FindContainer(c) = IF records[c] = Nil THEN "notFound" ELSE "found"
BY DEF FindContainer, GetContainer, BuildAndDo

\* Every container has a network, and every network a sandbox.
LEMMA Names ==
  ASSUME TypeOK, NEW c \in Containers
  PROVE  Net(c) \in Networks /\ Sbox(c) \in VNIs
BY DaemonAssumption
   DEF DaemonAssumption, TypeOK, Net, GetNetworkID, Sbox, GetVNI, VNIs

\* Which way each step takes its goroutine.
LEMMA Shapes ==
  ASSUME NEW p \in Procs
  PROVE
    /\ ContainsID(p) => pc[p] = "contains" /\
         IF \E a \in Pool : lease[Net(req[p])][a] = req[p]
         THEN Ends(p, "already") ELSE GoesOn(p, "reserve")
    /\ NoMoreAddresses(p) => pc[p] = "reserve" /\ Ends(p, "full")
    /\ SandboxExists(p) => pc[p] = "exists" /\
         IF Sbox(req[p]) \in sandboxes THEN GoesOn(p, "attach") ELSE GoesOn(p, "create")
    /\ CreateSandbox(p) => pc[p] = "create" /\
         IF CanCreate(Sbox(req[p])) THEN GoesOn(p, "createVxlan") ELSE Ends(p, "addError")
    /\ CreateVxlan(p) => pc[p] = "createVxlan" /\
         IF vxlan[Sbox(req[p])] = "none" THEN GoesOn(p, "moveVxlan") ELSE Ends(p, "addError")
    /\ MoveVxlan(p) => pc[p] = "moveVxlan" /\
         IF vxlan[Sbox(req[p])] = "host" /\ Sbox(req[p]) \in sandboxes
         THEN GoesOn(p, "startDNS") ELSE Ends(p, "addError")
    /\ StartDNSServer(p) => pc[p] = "startDNS" /\
         IF Sbox(req[p]) \in sandboxes /\ Sbox(req[p]) \notin dns0
         THEN GoesOn(p, "attach") ELSE Ends(p, "addError")
    /\ Attach(p) => pc[p] = "attach" /\
         IF Reach(p) = 5 THEN GoesOn(p, "record") ELSE Ends(p, "addError")
    /\ CreateRecord(p) => pc[p] = "record" /\
         IF records[req[p]] = Nil THEN Ends(p, "up") ELSE Ends(p, "addError")
    /\ GetRecord(p) => pc[p] = "get" /\
         IF records[req[p]] # Nil THEN GoesOn(p, "deleteLink") ELSE Ends(p, "delError")
    /\ DeleteLink(p) => pc[p] = "deleteLink" /\
         IF link[req[p]] # Nil THEN GoesOn(p, "cleanup") ELSE Ends(p, "delError")
    /\ CleanupSandbox(p) => pc[p] = "cleanup" /\
         IF Sbox(req[p]) \in sandboxes /\ ~InUse(Sbox(req[p])) THEN GoesOn(p, "destroy") ELSE GoesOn(p, "unrecord")
    /\ DestroySandbox(p) => pc[p] = "destroy" /\
         IF CanDestroy(Sbox(req[p])) THEN GoesOn(p, "unrecord") ELSE Ends(p, "delError")
    /\ DeleteRecord(p) => pc[p] = "unrecord" /\
         IF records[req[p]] # Nil THEN GoesOn(p, "release") ELSE Ends(p, "delError")
    /\ ReleaseIP(p) => pc[p] = "release" /\ Ends(p, "down")
    /\ FailedAnswer(p) => Fails(p)
<1> USE Answers DEF Then, Answer, GoesOn, Ends, client, Adding
<1>1. ASSUME ContainsID(p)
      PROVE  pc[p] = "contains" /\
      IF \E a \in Pool : lease[Net(req[p])][a] = req[p]
      THEN Ends(p, "already") ELSE GoesOn(p, "reserve")
  BY <1>1 DEF ContainsID
<1>2. ASSUME NoMoreAddresses(p)
      PROVE  pc[p] = "reserve" /\ Ends(p, "full")
  BY <1>2 DEF NoMoreAddresses
<1>3. ASSUME SandboxExists(p)
      PROVE  pc[p] = "exists" /\
      IF Sbox(req[p]) \in sandboxes THEN GoesOn(p, "attach") ELSE GoesOn(p, "create")
  BY <1>3 DEF SandboxExists
<1>4. ASSUME CreateSandbox(p)
      PROVE  pc[p] = "create" /\
      IF CanCreate(Sbox(req[p])) THEN GoesOn(p, "createVxlan") ELSE Ends(p, "addError")
  BY <1>4 DEF CreateSandbox
<1>5. ASSUME CreateVxlan(p)
      PROVE  pc[p] = "createVxlan" /\
      IF vxlan[Sbox(req[p])] = "none" THEN GoesOn(p, "moveVxlan") ELSE Ends(p, "addError")
  BY <1>5 DEF CreateVxlan
<1>6. ASSUME MoveVxlan(p)
      PROVE  pc[p] = "moveVxlan" /\
      IF vxlan[Sbox(req[p])] = "host" /\ Sbox(req[p]) \in sandboxes
      THEN GoesOn(p, "startDNS") ELSE Ends(p, "addError")
  BY <1>6 DEF MoveVxlan
<1>7. ASSUME StartDNSServer(p)
      PROVE  pc[p] = "startDNS" /\
      IF Sbox(req[p]) \in sandboxes /\ Sbox(req[p]) \notin dns0
      THEN GoesOn(p, "attach") ELSE Ends(p, "addError")
  BY <1>7 DEF StartDNSServer
<1>8. ASSUME Attach(p)
      PROVE  pc[p] = "attach" /\
      IF Reach(p) = 5 THEN GoesOn(p, "record") ELSE Ends(p, "addError")
  BY <1>8 DEF Attach
<1>9. ASSUME CreateRecord(p)
      PROVE  pc[p] = "record" /\
      IF records[req[p]] = Nil THEN Ends(p, "up") ELSE Ends(p, "addError")
  BY <1>9 DEF CreateRecord
<1>10. ASSUME GetRecord(p)
      PROVE  pc[p] = "get" /\
      IF records[req[p]] # Nil THEN GoesOn(p, "deleteLink") ELSE Ends(p, "delError")
  BY <1>10 DEF GetRecord
<1>11. ASSUME DeleteLink(p)
      PROVE  pc[p] = "deleteLink" /\
      IF link[req[p]] # Nil THEN GoesOn(p, "cleanup") ELSE Ends(p, "delError")
  BY <1>11 DEF DeleteLink
<1>12. ASSUME CleanupSandbox(p)
      PROVE  pc[p] = "cleanup" /\
      IF Sbox(req[p]) \in sandboxes /\ ~InUse(Sbox(req[p])) THEN GoesOn(p, "destroy") ELSE GoesOn(p, "unrecord")
  BY <1>12 DEF CleanupSandbox
<1>13. ASSUME DestroySandbox(p)
      PROVE  pc[p] = "destroy" /\
      IF CanDestroy(Sbox(req[p])) THEN GoesOn(p, "unrecord") ELSE Ends(p, "delError")
  BY <1>13 DEF DestroySandbox, CanDestroy
<1>14. ASSUME DeleteRecord(p)
      PROVE  pc[p] = "unrecord" /\
      IF records[req[p]] # Nil THEN GoesOn(p, "release") ELSE Ends(p, "delError")
  BY <1>14 DEF DeleteRecord
<1>15. ASSUME ReleaseIP(p)
      PROVE  pc[p] = "release" /\ Ends(p, "down")
  BY <1>15 DEF ReleaseIP
<1>16. ASSUME FailedAnswer(p)
      PROVE  Fails(p)
  BY <1>16 DEF FailedAnswer, Fails
<1> HIDE DEF GoesOn, Ends
<1> QED BY <1>1, <1>2, <1>3, <1>4, <1>5, <1>6, <1>7, <1>8, <1>9, <1>10, <1>11, <1>12,
     <1>13, <1>14, <1>15, <1>16

-----------------------------------------------------------------------------
(* Lemmas that every step uses. *)

\* Networks and sandboxes of the containers have their types.
LEMMA NamesOK ==
  ASSUME TypeOK
  PROVE  /\ net \in [Containers -> Networks] /\ sbox \in [Containers -> VNIs]
         /\ \A c \in Containers : Net(c) = net[c] /\ Sbox(c) = sbox[c]
BY Names DEF net, sbox

\* A container belongs to one network and one sandbox for life.
LEMMA NamesStay ==
  ASSUME spaceOf' = spaceOf
  PROVE  net' = net /\ sbox' = sbox
BY DEF net, sbox, Net, Sbox, GetNetworkID, GetVNI

\* No step changes the spaces or the configuration file.
LEMMA FilesStay ==
  ASSUME Next
  PROVE  spaceOf' = spaceOf /\ file' = file
<1> USE DEF fixed, disk
<1>1. \A p \in Procs : Fault(p) => spaceOf' = spaceOf /\ file' = file
  BY DEF Fault, FailedCreate, FailedStartDNS, FailedAttach, SetUpTo, FailedDestroy,
         FailedStore, FailedCleanly
<1> QED BY <1>1 DEF Next, Call, BadAdd, BadDel, Refuse, GiveUp, ContainsID, Reserve,
  NoMoreAddresses, SandboxExists, CreateSandbox, CreateVxlan, MoveVxlan, StartDNSServer,
  Attach, SetUpTo, CreateRecord, GetRecord, DeleteLink, CleanupSandbox, DestroySandbox,
  DeleteRecord, ReleaseIP, Crash, Start

\* The variables of the requests, and the other ones.
ProcTypes ==
  /\ pc \in [Procs -> {"idle"} \cup Adding \cup Deleting]
  /\ req \in [Procs -> Containers \cup {Nil}]
  /\ ip \in [Procs -> Pool \cup {Nil}]
  /\ conn \in [Containers -> Procs \cup {Nil}]
  /\ told \in [Containers -> Results]
  /\ \A c \in Containers : told[c] = "waiting" <=> conn[c] # Nil

HostTypes ==
  /\ spaceOf \in [Containers -> Networks \cup {Missing}]
  /\ file \in Files /\ records \in [Containers -> Pool \cup {Nil}]
  /\ nsFile \in [VNIs -> {"none", "plain", "mounted"}]
  /\ vxlan \in [VNIs -> {"none", "host", "sandbox"}]
  /\ dns0 \subseteq VNIs /\ bridges \subseteq VNIs
  /\ link \in [Containers -> Pool \cup {Nil}]
  /\ daemon \in {"down", "up", "exited"}
  /\ lease \in [Networks -> [Pool -> Containers \cup {Nil}]]
  /\ sandboxes \subseteq VNIs /\ torn \subseteq sandboxes
  /\ monitored \subseteq VNIs /\ dns \subseteq VNIs
  /\ lost \subseteq Containers /\ dirty \in BOOLEAN
  /\ crashes \in 0..MaxCrashes /\ troubles \in crashes..MaxTroubles
  /\ calls \in 0..MaxCalls

\* The type invariant has two halves.
LEMMA Types == TypeOK <=> ProcTypes /\ HostTypes
BY DEF TypeOK, ProcTypes, HostTypes

\* A goroutine that is not idle serves a container, and the daemon is up.
LEMMA Serving ==
  ASSUME TypeOK, ServeInv, NEW p \in Procs, pc[p] # "idle"
  PROVE  /\ req[p] \in Containers /\ daemon = "up"
         /\ Net(req[p]) = net[req[p]] /\ net[req[p]] \in Networks
         /\ Sbox(req[p]) = sbox[req[p]] /\ sbox[req[p]] \in VNIs
BY NamesOK DEF TypeOK, ServeInv, ServeOf

\* A goroutine that ends its request leaves it to nobody.
LEMMA EndsServe ==
  ASSUME TypeOK, ServeInv, NEW p \in Procs, pc[p] # "idle",
         NEW r \in Results \ {"waiting"}, Ends(p, r), UNCHANGED <<daemon, lost>>
  PROVE  ProcTypes' /\ ServeInv'
<1>1. req[p] \in Containers BY Serving
<1>2. ProcTypes'
  <2>1. /\ pc' \in [Procs -> {"idle"} \cup Adding \cup Deleting]
        /\ req' \in [Procs -> Containers \cup {Nil}] /\ ip' \in [Procs -> Pool \cup {Nil}]
    BY DEF TypeOK, Ends
  <2>2. conn' \in [Containers -> Procs \cup {Nil}] /\ told' \in [Containers -> Results]
    BY <1>1 DEF TypeOK, Ends
  <2>3. ASSUME NEW c \in Containers PROVE told'[c] = "waiting" <=> conn'[c] # Nil
    BY <1>1 DEF TypeOK, Ends
  <2> QED BY <2>1, <2>2, <2>3 DEF ProcTypes
<1>3. \A q \in Procs : ServeOf(q)'
  BY <1>1, DaemonAssumption
     DEF TypeOK, Ends, DaemonAssumption, ServeInv, ServeOf, Holding
<1>4. ASSUME NEW c \in Containers, conn'[c] # Nil PROVE req'[conn'[c]] = c
  BY <1>1, <1>4, DaemonAssumption
     DEF TypeOK, Ends, DaemonAssumption, ServeInv, ServeOf
<1> QED BY <1>2, <1>3, <1>4 DEF ServeInv

\* A goroutine that goes on serves the same container.
LEMMA GoesOnServe ==
  ASSUME TypeOK, ServeInv, NEW p \in Procs, pc[p] # "idle",
         NEW next \in Adding \cup Deleting, GoesOn(p, next),
         next \in Holding <=> pc[p] \in Holding, UNCHANGED <<daemon, lost>>
  PROVE  ProcTypes' /\ ServeInv'
<1>1. ProcTypes' BY DEF TypeOK, GoesOn, ProcTypes
<1>2. \A q \in Procs : ServeOf(q)'
  BY DEF TypeOK, GoesOn, ServeInv, ServeOf, Holding, Adding, Deleting
<1> QED BY <1>1, <1>2 DEF ServeInv, GoesOn

\* The steps, with the ways to fail apart.
LEMMA Steps ==
  ASSUME Next
  PROVE  \/ \E c \in Containers, p \in Procs, first \in {"contains", "get"} : Call(c, p, first)
         \/ \E c \in Containers : (BadAdd(c) \/ BadDel(c)) \/ GiveUp(c)
         \/ \E p \in Procs :
              \/ Reserve(p)
              \/ ContainsID(p) \/ NoMoreAddresses(p) \/ SandboxExists(p)
              \/ CreateSandbox(p) \/ CreateVxlan(p) \/ MoveVxlan(p)
              \/ StartDNSServer(p) \/ Attach(p) \/ CreateRecord(p)
              \/ GetRecord(p) \/ DeleteLink(p) \/ CleanupSandbox(p)
              \/ DestroySandbox(p) \/ DeleteRecord(p) \/ ReleaseIP(p)
              \/ FailedCreate(p) /\ FailedAnswer(p)
              \/ FailedStartDNS(p) /\ FailedAnswer(p)
              \/ FailedAttach(p) /\ FailedAnswer(p)
              \/ FailedDestroy(p) /\ FailedAnswer(p)
              \/ FailedStore(p) /\ FailedAnswer(p)
              \/ FailedCleanly(p) /\ FailedAnswer(p)
         \/ Crash \/ Start
<1>1. ASSUME NEW p \in Procs, Fault(p)
      PROVE  FailedAnswer(p) /\ (FailedCreate(p) \/ FailedStartDNS(p) \/ FailedAttach(p)
               \/ FailedDestroy(p) \/ FailedStore(p) \/ FailedCleanly(p))
  BY <1>1, DaemonAssumption DEF Fault, FailedAnswer, DaemonAssumption
<1> QED BY <1>1 DEF Next

\* Requests are served as ServeInv says.
LEMMA ServeStep ==
  ASSUME TypeOK, AcceptInv, ServeInv, Next
  PROVE  ProcTypes' /\ ServeInv'
<1>1. ASSUME NEW c \in Containers, NEW p \in Procs, NEW first \in {"contains",
             "get"}, Call(c, p, first)
      PROVE  ProcTypes' /\ ServeInv'
  <2>1. ProcTypes'
    <3>1. pc' \in [Procs -> {"idle"} \cup Adding \cup Deleting]
      BY <1>1 DEF TypeOK, Call, Adding, Deleting
    <3>2. req' \in [Procs -> Containers \cup {Nil}] /\ ip' \in [Procs -> Pool \cup {Nil}]
      BY <1>1 DEF TypeOK, Call
    <3>3. conn' \in [Containers -> Procs \cup {Nil}] /\ told' \in [Containers -> Results]
      BY <1>1 DEF TypeOK, Call, Results
    <3>4. ASSUME NEW d \in Containers PROVE told'[d] = "waiting" <=> conn'[d] # Nil
      BY <1>1, DaemonAssumption DEF TypeOK, Call, DaemonAssumption
    <3> QED BY <3>1, <3>2, <3>3, <3>4 DEF ProcTypes
  <2>2. ServeInv'
    BY <1>1, DaemonAssumption
       DEF TypeOK, Call, ServeInv, ServeOf, Holding, DaemonAssumption
  <2> QED BY <2>1, <2>2
<1>2. ASSUME NEW c \in Containers, BadAdd(c) \/ BadDel(c)
      PROVE  ProcTypes' /\ ServeInv'
  BY <1>2, Answers
     DEF TypeOK, BadAdd, BadDel, Refuse, procs, ProcTypes, ServeInv, ServeOf, Results
<1>3. ASSUME NEW c \in Containers, GiveUp(c) PROVE ProcTypes' /\ ServeInv'
  BY <1>3 DEF TypeOK, GiveUp, procs, ProcTypes, ServeInv, ServeOf, Results
<1>4. ASSUME NEW p \in Procs, Reserve(p) PROVE ProcTypes' /\ ServeInv'
  <2>1. PICK a \in Leasable(Conf) : ip' = [ip EXCEPT ![p] = a] BY <1>4 DEF Reserve
  <2>2. a \in Pool
    BY <1>4, DaemonAssumption
       DEF Reserve, AcceptInv, ServeInv, ServeOf, Conf, TypeOK, DaemonAssumption
  <2> QED BY <1>4, <2>1, <2>2, DaemonAssumption
     DEF Reserve, client, history, TypeOK, ProcTypes,
    ServeInv, ServeOf, Holding, Adding, DaemonAssumption
<1>5. ASSUME NEW p \in Procs, ContainsID(p) PROVE ProcTypes' /\ ServeInv'
  <2>1. UNCHANGED <<daemon, lost>> BY <1>5 DEF ContainsID, history
  <2> QED BY <1>5, <2>1, Shapes, EndsServe, GoesOnServe
     DEF Results, Adding, Deleting, Holding
<1>6. ASSUME NEW p \in Procs, NoMoreAddresses(p) PROVE ProcTypes' /\ ServeInv'
  <2>1. UNCHANGED <<daemon, lost>> BY <1>6 DEF NoMoreAddresses, history
  <2> QED BY <1>6, <2>1, Shapes, EndsServe, GoesOnServe
     DEF Results, Adding, Deleting, Holding
<1>7. ASSUME NEW p \in Procs, SandboxExists(p) PROVE ProcTypes' /\ ServeInv'
  <2>1. UNCHANGED <<daemon, lost>> BY <1>7 DEF SandboxExists, history
  <2> QED BY <1>7, <2>1, Shapes, EndsServe, GoesOnServe
     DEF Results, Adding, Deleting, Holding
<1>8. ASSUME NEW p \in Procs, CreateSandbox(p) PROVE ProcTypes' /\ ServeInv'
  <2>1. UNCHANGED <<daemon, lost>> BY <1>8 DEF CreateSandbox, history
  <2> QED BY <1>8, <2>1, Shapes, EndsServe, GoesOnServe
     DEF Results, Adding, Deleting, Holding
<1>9. ASSUME NEW p \in Procs, CreateVxlan(p) PROVE ProcTypes' /\ ServeInv'
  <2>1. UNCHANGED <<daemon, lost>> BY <1>9 DEF CreateVxlan, history
  <2> QED BY <1>9, <2>1, Shapes, EndsServe, GoesOnServe
     DEF Results, Adding, Deleting, Holding
<1>10. ASSUME NEW p \in Procs, MoveVxlan(p) PROVE ProcTypes' /\ ServeInv'
  <2>1. UNCHANGED <<daemon, lost>> BY <1>10 DEF MoveVxlan, history
  <2> QED BY <1>10, <2>1, Shapes, EndsServe, GoesOnServe
     DEF Results, Adding, Deleting, Holding
<1>11. ASSUME NEW p \in Procs, StartDNSServer(p) PROVE ProcTypes' /\ ServeInv'
  <2>1. UNCHANGED <<daemon, lost>> BY <1>11 DEF StartDNSServer, history
  <2> QED BY <1>11, <2>1, Shapes, EndsServe, GoesOnServe
     DEF Results, Adding, Deleting, Holding
<1>12. ASSUME NEW p \in Procs, Attach(p) PROVE ProcTypes' /\ ServeInv'
  <2>1. UNCHANGED <<daemon, lost>> BY <1>12 DEF Attach, history, SetUpTo
  <2> QED BY <1>12, <2>1, Shapes, EndsServe, GoesOnServe
     DEF Results, Adding, Deleting, Holding
<1>13. ASSUME NEW p \in Procs, CreateRecord(p) PROVE ProcTypes' /\ ServeInv'
  <2>1. UNCHANGED <<daemon, lost>> BY <1>13 DEF CreateRecord, history
  <2> QED BY <1>13, <2>1, Shapes, EndsServe, GoesOnServe
     DEF Results, Adding, Deleting, Holding
<1>14. ASSUME NEW p \in Procs, GetRecord(p) PROVE ProcTypes' /\ ServeInv'
  <2>1. UNCHANGED <<daemon, lost>> BY <1>14 DEF GetRecord, history
  <2> QED BY <1>14, <2>1, Shapes, EndsServe, GoesOnServe
     DEF Results, Adding, Deleting, Holding
<1>15. ASSUME NEW p \in Procs, DeleteLink(p) PROVE ProcTypes' /\ ServeInv'
  <2>1. UNCHANGED <<daemon, lost>> BY <1>15 DEF DeleteLink, history
  <2> QED BY <1>15, <2>1, Shapes, EndsServe, GoesOnServe
     DEF Results, Adding, Deleting, Holding
<1>16. ASSUME NEW p \in Procs, CleanupSandbox(p) PROVE ProcTypes' /\ ServeInv'
  <2>1. UNCHANGED <<daemon, lost>> BY <1>16 DEF CleanupSandbox, history
  <2> QED BY <1>16, <2>1, Shapes, EndsServe, GoesOnServe
     DEF Results, Adding, Deleting, Holding
<1>17. ASSUME NEW p \in Procs, DestroySandbox(p) PROVE ProcTypes' /\ ServeInv'
  <2>1. UNCHANGED <<daemon, lost>> BY <1>17 DEF DestroySandbox, history
  <2> QED BY <1>17, <2>1, Shapes, EndsServe, GoesOnServe
     DEF Results, Adding, Deleting, Holding
<1>18. ASSUME NEW p \in Procs, DeleteRecord(p) PROVE ProcTypes' /\ ServeInv'
  <2>1. UNCHANGED <<daemon, lost>> BY <1>18 DEF DeleteRecord, history
  <2> QED BY <1>18, <2>1, Shapes, EndsServe, GoesOnServe
     DEF Results, Adding, Deleting, Holding
<1>19. ASSUME NEW p \in Procs, ReleaseIP(p) PROVE ProcTypes' /\ ServeInv'
  <2>1. UNCHANGED <<daemon, lost>> BY <1>19 DEF ReleaseIP, history
  <2> QED BY <1>19, <2>1, Shapes, EndsServe, GoesOnServe
     DEF Results, Adding, Deleting, Holding
<1>20. ASSUME NEW p \in Procs, FailedCreate(p), FailedAnswer(p)
       PROVE  ProcTypes' /\ ServeInv'
  <2>1. /\ pc[p] # "idle" /\ Fails(p) /\ UNCHANGED <<daemon, lost>>
    BY <1>20, Shapes DEF FailedAnswer, Fallible
  <2> QED BY <2>1, EndsServe DEF Fails, Results
<1>21. ASSUME NEW p \in Procs, FailedStartDNS(p), FailedAnswer(p)
       PROVE  ProcTypes' /\ ServeInv'
  <2>1. /\ pc[p] # "idle" /\ Fails(p) /\ UNCHANGED <<daemon, lost>>
    BY <1>21, Shapes DEF FailedAnswer, Fallible
  <2> QED BY <2>1, EndsServe DEF Fails, Results
<1>22. ASSUME NEW p \in Procs, FailedAttach(p), FailedAnswer(p)
       PROVE  ProcTypes' /\ ServeInv'
  <2>1. /\ pc[p] # "idle" /\ Fails(p) /\ UNCHANGED <<daemon, lost>>
    BY <1>22, Shapes DEF FailedAnswer, Fallible
  <2> QED BY <2>1, EndsServe DEF Fails, Results
<1>23. ASSUME NEW p \in Procs, FailedDestroy(p), FailedAnswer(p)
       PROVE  ProcTypes' /\ ServeInv'
  <2>1. /\ pc[p] # "idle" /\ Fails(p) /\ UNCHANGED <<daemon, lost>>
    BY <1>23, Shapes DEF FailedAnswer, Fallible
  <2> QED BY <2>1, EndsServe DEF Fails, Results
<1>24. ASSUME NEW p \in Procs, FailedStore(p), FailedAnswer(p)
       PROVE  ProcTypes' /\ ServeInv'
  <2>1. /\ pc[p] # "idle" /\ Fails(p) /\ UNCHANGED <<daemon, lost>>
    BY <1>24, Shapes DEF FailedAnswer, Fallible
  <2> QED BY <2>1, EndsServe DEF Fails, Results
<1>25. ASSUME NEW p \in Procs, FailedCleanly(p), FailedAnswer(p)
       PROVE  ProcTypes' /\ ServeInv'
  <2>1. /\ pc[p] # "idle" /\ Fails(p) /\ UNCHANGED <<daemon, lost>>
    BY <1>25, Shapes DEF FailedAnswer, Fallible
  <2> QED BY <2>1, EndsServe DEF Fails, Results
<1>26. CASE Crash
  BY <1>26 DEF TypeOK, Crash, ProcTypes, ServeInv, ServeOf, Holding, Results
<1>27. CASE Start
  BY <1>27 DEF TypeOK, Start, procs, client, history, ProcTypes, ServeInv, ServeOf
<1> QED BY <1>1, <1>2, <1>3, <1>4, <1>5, <1>6, <1>7, <1>8, <1>9, <1>10, <1>11, <1>12,
     <1>13, <1>14, <1>15, <1>16, <1>17, <1>18, <1>19, <1>20, <1>21, <1>22, <1>23,
     <1>24, <1>25, <1>26, <1>27, Steps

\* Only a crash or a start changes whether the daemon runs.
LEMMA DaemonStep ==
  ASSUME Next
  PROVE  daemon' = daemon \/ Crash \/ Start
BY Steps
   DEF Call, BadAdd, BadDel, Refuse, GiveUp, Reserve, ContainsID, NoMoreAddresses,
       SandboxExists, CreateSandbox, CreateVxlan,
  MoveVxlan, StartDNSServer, Attach, CreateRecord, GetRecord,
  DeleteLink, CleanupSandbox, DestroySandbox, DeleteRecord, ReleaseIP, SetUpTo, FailedAnswer

\* Only a start with an accepted file makes the daemon run.
LEMMA AcceptStep ==
  ASSUME AcceptInv, Next
  PROVE  AcceptInv'
<1>1. daemon' = "up" => daemon = "up" \/ Accepted(file)
  BY DaemonStep DEF Crash, Start
<1>2. file' = file BY FilesStay
<1>3. Accepted(file)' = Accepted(file) 
  BY <1>2
     DEF Accepted, Readable, Valid, ParseAndValidate, Interpolated, Masked, Contains
<1> QED BY <1>1, <1>3 DEF AcceptInv

\* Every variable keeps its type.
LEMMA HostStep ==
  ASSUME TypeOK, AcceptInv, ServeInv, SandboxInv, Next
  PROVE  HostTypes'
<1>0. VNIs' = VNIs BY DEF VNIs
<1>1. ASSUME NEW c \in Containers, NEW p \in Procs, NEW first \in {"contains",
             "get"}, Call(c, p, first)
      PROVE  HostTypes'
  BY <1>1, DaemonAssumption
     DEF Call, fixed, disk, memory, procs, client, history, TypeOK, HostTypes,
         DaemonAssumption
<1>2. ASSUME NEW c \in Containers, BadAdd(c) \/ BadDel(c) PROVE HostTypes'
  BY <1>2, DaemonAssumption
     DEF BadAdd, BadDel, Refuse, fixed, disk, memory, procs, client, history, TypeOK,
         HostTypes, DaemonAssumption
<1>3. ASSUME NEW c \in Containers, GiveUp(c) PROVE HostTypes'
  BY <1>3, DaemonAssumption
     DEF GiveUp, Trouble, fixed, disk, memory, procs, client, history, TypeOK,
         HostTypes, DaemonAssumption
<1>4. ASSUME NEW p \in Procs, Reserve(p) PROVE HostTypes'
  <2>1. /\ req[p] \in Containers /\ ip[p] \in Pool \cup {Nil}
        /\ Net(req[p]) \in Networks /\ Sbox(req[p]) \in VNIs
    BY <1>4, Serving DEF Reserve, Then, TypeOK, FailedAnswer
  <2>2. Leasable(Conf) \subseteq Pool
    BY <1>4, DaemonAssumption
       DEF Reserve, AcceptInv, ServeInv, ServeOf, Conf, TypeOK, DaemonAssumption
  <2> QED BY <1>0, <1>4, <2>1, <2>2
     DEF Reserve, fixed, disk, memory, procs, client, history, TypeOK, HostTypes
<1>5. ASSUME NEW p \in Procs, ContainsID(p) PROVE HostTypes'
  <2>1. /\ req[p] \in Containers /\ ip[p] \in Pool \cup {Nil}
        /\ Net(req[p]) \in Networks /\ Sbox(req[p]) \in VNIs
    BY <1>5, Serving DEF ContainsID, Then, TypeOK, FailedAnswer
  <2> QED BY <1>0, <1>5, <2>1
     DEF ContainsID, fixed, disk, memory, procs, client, history, TypeOK, HostTypes
<1>6. ASSUME NEW p \in Procs, NoMoreAddresses(p) PROVE HostTypes'
  <2>1. /\ req[p] \in Containers /\ ip[p] \in Pool \cup {Nil}
        /\ Net(req[p]) \in Networks /\ Sbox(req[p]) \in VNIs
    BY <1>6, Serving DEF NoMoreAddresses, Then, TypeOK, FailedAnswer
  <2> QED BY <1>0, <1>6, <2>1
     DEF NoMoreAddresses, fixed, disk, memory, procs, client, history, TypeOK,
         HostTypes
<1>7. ASSUME NEW p \in Procs, SandboxExists(p) PROVE HostTypes'
  <2>1. /\ req[p] \in Containers /\ ip[p] \in Pool \cup {Nil}
        /\ Net(req[p]) \in Networks /\ Sbox(req[p]) \in VNIs
    BY <1>7, Serving DEF SandboxExists, Then, TypeOK, FailedAnswer
  <2> QED BY <1>0, <1>7, <2>1
     DEF SandboxExists, fixed, disk, memory, procs, client, history, TypeOK, HostTypes
<1>8. ASSUME NEW p \in Procs, CreateSandbox(p) PROVE HostTypes'
  <2>1. /\ req[p] \in Containers /\ ip[p] \in Pool \cup {Nil}
        /\ Net(req[p]) \in Networks /\ Sbox(req[p]) \in VNIs
    BY <1>8, Serving DEF CreateSandbox, Then, TypeOK, FailedAnswer
  <2> QED BY <1>0, <1>8, <2>1
     DEF CreateSandbox, CanCreate, fixed, disk, memory, procs, client, history,
         TypeOK, HostTypes
<1>9. ASSUME NEW p \in Procs, CreateVxlan(p) PROVE HostTypes'
  <2>1. /\ req[p] \in Containers /\ ip[p] \in Pool \cup {Nil}
        /\ Net(req[p]) \in Networks /\ Sbox(req[p]) \in VNIs
    BY <1>9, Serving DEF CreateVxlan, Then, TypeOK, FailedAnswer
  <2> QED BY <1>0, <1>9, <2>1
     DEF CreateVxlan, fixed, disk, memory, procs, client, history, TypeOK, HostTypes
<1>10. ASSUME NEW p \in Procs, MoveVxlan(p) PROVE HostTypes'
  <2>1. /\ req[p] \in Containers /\ ip[p] \in Pool \cup {Nil}
        /\ Net(req[p]) \in Networks /\ Sbox(req[p]) \in VNIs
    BY <1>10, Serving DEF MoveVxlan, Then, TypeOK, FailedAnswer
  <2> QED BY <1>0, <1>10, <2>1
     DEF MoveVxlan, fixed, disk, memory, procs, client, history, TypeOK, HostTypes
<1>11. ASSUME NEW p \in Procs, StartDNSServer(p) PROVE HostTypes'
  <2>1. /\ req[p] \in Containers /\ ip[p] \in Pool \cup {Nil}
        /\ Net(req[p]) \in Networks /\ Sbox(req[p]) \in VNIs
    BY <1>11, Serving DEF StartDNSServer, Then, TypeOK, FailedAnswer
  <2> QED BY <1>0, <1>11, <2>1
     DEF StartDNSServer, fixed, disk, memory, procs, client, history, TypeOK,
         HostTypes
<1>12. ASSUME NEW p \in Procs, Attach(p) PROVE HostTypes'
  <2>1. /\ req[p] \in Containers /\ ip[p] \in Pool \cup {Nil}
        /\ Net(req[p]) \in Networks /\ Sbox(req[p]) \in VNIs
    BY <1>12, Serving DEF Attach, Then, TypeOK, FailedAnswer
  <2> QED BY <1>0, <1>12, <2>1
     DEF Attach, SetUpTo, fixed, disk, memory, procs, client, history, TypeOK,
         HostTypes
<1>13. ASSUME NEW p \in Procs, CreateRecord(p) PROVE HostTypes'
  <2>1. /\ req[p] \in Containers /\ ip[p] \in Pool \cup {Nil}
        /\ Net(req[p]) \in Networks /\ Sbox(req[p]) \in VNIs
    BY <1>13, Serving DEF CreateRecord, Then, TypeOK, FailedAnswer
  <2> QED BY <1>0, <1>13, <2>1
     DEF CreateRecord, fixed, disk, memory, procs, client, history, TypeOK, HostTypes
<1>14. ASSUME NEW p \in Procs, GetRecord(p) PROVE HostTypes'
  <2>1. /\ req[p] \in Containers /\ ip[p] \in Pool \cup {Nil}
        /\ Net(req[p]) \in Networks /\ Sbox(req[p]) \in VNIs
    BY <1>14, Serving DEF GetRecord, Then, TypeOK, FailedAnswer
  <2> QED BY <1>0, <1>14, <2>1
     DEF GetRecord, fixed, disk, memory, procs, client, history, TypeOK, HostTypes
<1>15. ASSUME NEW p \in Procs, DeleteLink(p) PROVE HostTypes'
  <2>1. /\ req[p] \in Containers /\ ip[p] \in Pool \cup {Nil}
        /\ Net(req[p]) \in Networks /\ Sbox(req[p]) \in VNIs
    BY <1>15, Serving DEF DeleteLink, Then, TypeOK, FailedAnswer
  <2> QED BY <1>0, <1>15, <2>1
     DEF DeleteLink, fixed, disk, memory, procs, client, history, TypeOK, HostTypes
<1>16. ASSUME NEW p \in Procs, CleanupSandbox(p) PROVE HostTypes'
  <2>1. /\ req[p] \in Containers /\ ip[p] \in Pool \cup {Nil}
        /\ Net(req[p]) \in Networks /\ Sbox(req[p]) \in VNIs
    BY <1>16, Serving DEF CleanupSandbox, Then, TypeOK, FailedAnswer
  <2> QED BY <1>0, <1>16, <2>1
     DEF CleanupSandbox, fixed, disk, memory, procs, client, history, TypeOK,
         HostTypes
<1>17. ASSUME NEW p \in Procs, DestroySandbox(p) PROVE HostTypes'
  <2>1. /\ req[p] \in Containers /\ ip[p] \in Pool \cup {Nil}
        /\ Net(req[p]) \in Networks /\ Sbox(req[p]) \in VNIs
    BY <1>17, Serving DEF DestroySandbox, Then, TypeOK, FailedAnswer
  <2> QED BY <1>0, <1>17, <2>1
     DEF DestroySandbox, CanDestroy, fixed, disk, memory, procs, client, history,
         TypeOK, HostTypes
<1>18. ASSUME NEW p \in Procs, DeleteRecord(p) PROVE HostTypes'
  <2>1. /\ req[p] \in Containers /\ ip[p] \in Pool \cup {Nil}
        /\ Net(req[p]) \in Networks /\ Sbox(req[p]) \in VNIs
    BY <1>18, Serving DEF DeleteRecord, Then, TypeOK, FailedAnswer
  <2> QED BY <1>0, <1>18, <2>1
     DEF DeleteRecord, fixed, disk, memory, procs, client, history, TypeOK, HostTypes
<1>19. ASSUME NEW p \in Procs, ReleaseIP(p) PROVE HostTypes'
  <2>1. /\ req[p] \in Containers /\ ip[p] \in Pool \cup {Nil}
        /\ Net(req[p]) \in Networks /\ Sbox(req[p]) \in VNIs
    BY <1>19, Serving DEF ReleaseIP, Then, TypeOK, FailedAnswer
  <2> QED BY <1>0, <1>19, <2>1
     DEF ReleaseIP, fixed, disk, memory, procs, client, history, TypeOK, HostTypes
<1>20. ASSUME NEW p \in Procs, FailedCreate(p), FailedAnswer(p) PROVE HostTypes'
  <2>1. /\ req[p] \in Containers /\ ip[p] \in Pool \cup {Nil}
        /\ Net(req[p]) \in Networks /\ Sbox(req[p]) \in VNIs
    BY <1>20, Serving DEF FailedCreate, Then, TypeOK, FailedAnswer
  <2> QED BY <1>0, <1>20, <2>1, DaemonAssumption
     DEF FailedCreate, FailedAnswer, Trouble, CanCreate, DaemonAssumption, fixed,
         disk, memory, procs, client, history, TypeOK, HostTypes
<1>21. ASSUME NEW p \in Procs, FailedStartDNS(p), FailedAnswer(p) PROVE HostTypes'
  <2>1. /\ req[p] \in Containers /\ ip[p] \in Pool \cup {Nil}
        /\ Net(req[p]) \in Networks /\ Sbox(req[p]) \in VNIs
    BY <1>21, Serving DEF FailedStartDNS, Then, TypeOK, FailedAnswer
  <2> QED BY <1>0, <1>21, <2>1, DaemonAssumption
     DEF FailedStartDNS, FailedAnswer, Trouble, DaemonAssumption, fixed, disk, memory,
         procs, client, history, TypeOK, HostTypes
<1>22. ASSUME NEW p \in Procs, FailedAttach(p), FailedAnswer(p) PROVE HostTypes'
  <2>1. /\ req[p] \in Containers /\ ip[p] \in Pool \cup {Nil}
        /\ Net(req[p]) \in Networks /\ Sbox(req[p]) \in VNIs
    BY <1>22, Serving DEF FailedAttach, Then, TypeOK, FailedAnswer
  <2> QED BY <1>0, <1>22, <2>1, DaemonAssumption
     DEF FailedAttach, FailedAnswer, Trouble, SetUpTo, DaemonAssumption, fixed, disk,
         memory, procs, client, history, TypeOK, HostTypes
<1>23. ASSUME NEW p \in Procs, FailedDestroy(p), FailedAnswer(p) PROVE HostTypes'
  <2>1. /\ req[p] \in Containers /\ ip[p] \in Pool \cup {Nil}
        /\ Net(req[p]) \in Networks /\ Sbox(req[p]) \in VNIs
    BY <1>23, Serving DEF FailedDestroy, Then, TypeOK, FailedAnswer
  <2> QED BY <1>0, <1>23, <2>1, DaemonAssumption
     DEF FailedDestroy, FailedAnswer, Trouble, CanDestroy, SandboxInv, MapInv,
         DaemonAssumption, fixed, disk, memory, procs, client, history, TypeOK,
         HostTypes
<1>24. ASSUME NEW p \in Procs, FailedStore(p), FailedAnswer(p) PROVE HostTypes'
  <2>1. /\ req[p] \in Containers /\ ip[p] \in Pool \cup {Nil}
        /\ Net(req[p]) \in Networks /\ Sbox(req[p]) \in VNIs
    BY <1>24, Serving DEF FailedStore, Then, TypeOK, FailedAnswer
  <2> QED BY <1>0, <1>24, <2>1, DaemonAssumption
     DEF FailedStore, FailedAnswer, Trouble, DaemonAssumption, fixed, disk, memory,
         procs, client, history, TypeOK, HostTypes
<1>25. ASSUME NEW p \in Procs, FailedCleanly(p), FailedAnswer(p) PROVE HostTypes'
  <2>1. /\ req[p] \in Containers /\ ip[p] \in Pool \cup {Nil}
        /\ Net(req[p]) \in Networks /\ Sbox(req[p]) \in VNIs
    BY <1>25, Serving DEF FailedCleanly, Then, TypeOK, FailedAnswer
  <2> QED BY <1>0, <1>25, <2>1, DaemonAssumption
     DEF FailedCleanly, FailedAnswer, Trouble, DaemonAssumption, fixed, disk, memory,
         procs, client, history, TypeOK, HostTypes
<1>26. CASE Crash
  <2>1. \A c \in Containers : Sbox(c) \in VNIs BY Names
  <2> QED BY <1>0, <1>26, <2>1, DaemonAssumption
     DEF Crash, Trouble, fixed, disk, memory, procs, client, history, TypeOK,
         HostTypes, DaemonAssumption
<1>27. CASE Start
  BY <1>27
     DEF Start, OnDisk, Reloads, Reloadable, SandboxInv, MapInv, fixed, disk, memory,
         procs, client, history, TypeOK, HostTypes
<1> QED BY <1>1, <1>2, <1>3, <1>4, <1>5, <1>6, <1>7, <1>8, <1>9, <1>10, <1>11, <1>12,
     <1>13, <1>14, <1>15, <1>16, <1>17, <1>18, <1>19, <1>20, <1>21, <1>22, <1>23,
     <1>24, <1>25, <1>26, <1>27, Steps

-----------------------------------------------------------------------------
(* Leases. *)

\* Nobody comes to hold an address by the step, or gets another one.
HoldersStay ==
  \A q \in Procs : pc'[q] \in Holding =>
    pc[q] \in Holding /\ req'[q] = req[q] /\ ip'[q] = ip[q]

\* What has an address goes on having it leased.
LEMMA LeaseStep ==
  ASSUME TypeOK, AcceptInv, ServeInv, LeaseInv, ProgressInv, Next
  PROVE  LeaseInv'
<1>0. net' = net BY FilesStay, NamesStay
<1>1. ASSUME NEW c \in Containers, NEW p \in Procs, NEW first \in {"contains",
             "get"}, Call(c, p, first)
      PROVE  LeaseInv'
  BY <1>0, <1>1 DEF Call, fixed, disk, memory, history, LeaseInv, Holding, TypeOK
<1>2. ASSUME NEW c \in Containers, BadAdd(c) \/ BadDel(c) PROVE LeaseInv'
  BY <1>0, <1>2
     DEF BadAdd, BadDel, Refuse, fixed, disk, memory, history, procs, LeaseInv, TypeOK
<1>3. ASSUME NEW c \in Containers, GiveUp(c) PROVE LeaseInv'
  BY <1>0, <1>3
     DEF GiveUp, Trouble, fixed, disk, memory, history, procs, LeaseInv, TypeOK
<1>4. ASSUME NEW p \in Procs, Reserve(p) PROVE LeaseInv'
  <2>1. pc[p] # "idle" /\ UNCHANGED <<lost, crashes, records, link>>
    BY <1>4 DEF Reserve, fixed, disk, memory, history
  <2>2. req[p] \in Containers /\ Net(req[p]) = net[req[p]] /\ net[req[p]] \in Networks
    BY <2>1, Serving
  <2>3. PICK a \in Leasable(Conf) :
          /\ lease[net[req[p]]][a] = Nil
          /\ lease' = [lease EXCEPT ![net[req[p]]] = [@ EXCEPT ![a] = req[p]]]
          /\ ip' = [ip EXCEPT ![p] = a]
    BY <1>4, <2>2 DEF Reserve
  <2>4. a \in Pool
    BY <1>4, <2>1, DaemonAssumption
       DEF Reserve, AcceptInv, ServeInv, ServeOf, Conf, TypeOK, DaemonAssumption
  <2>5. /\ lease'[net[req[p]]][a] = req[p]
        /\ \A n \in Networks, b \in Pool : lease[n][b] # Nil => lease'[n][b] = lease[n][b]
    BY <2>2, <2>3, <2>4 DEF TypeOK
  <2>6. ASSUME NEW c \in Containers \ lost, crashes = 0
        PROVE  /\ records[c] # Nil => lease'[net[c]][records[c]] = c
               /\ link[c] # Nil => lease'[net[c]][link[c]] = c
    <3>1. c \in Containers /\ c # Nil /\ net[c] \in Networks
      BY NamesOK, DaemonAssumption DEF DaemonAssumption
    <3>2. /\ records[c] # Nil => records[c] \in Pool /\ lease[net[c]][records[c]] = c
          /\ link[c] # Nil => link[c] \in Pool /\ lease[net[c]][link[c]] = c
      BY <2>6, <3>1 DEF LeaseInv, TypeOK
    <3> QED BY <2>5, <2>6, <3>1, <3>2
  <2>7. ASSUME NEW q \in Procs, pc'[q] \in Holding, req'[q] \notin lost, crashes = 0
        PROVE  lease'[net[req'[q]]][ip'[q]] = req'[q]
    <3>1. CASE q = p BY <1>4, <2>3, <2>5, <3>1 DEF Reserve, TypeOK, client
    <3>2. CASE q # p
      <4>1. pc'[q] = pc[q] /\ req'[q] = req[q] /\ ip'[q] = ip[q]
        BY <1>4, <2>3, <3>2 DEF Reserve, TypeOK, client
      <4>2. req[q] \in Containers /\ ip[q] \in Pool /\ net[req[q]] \in Networks
        BY <2>7, <4>1, Serving DEF TypeOK, ServeInv, ServeOf, Holding
      <4> QED BY <2>5, <2>7, <4>1, <4>2, DaemonAssumption
         DEF LeaseInv, DaemonAssumption
    <3> QED BY <3>1, <3>2
  <2> QED BY <1>0, <2>1, <2>6, <2>7 DEF LeaseInv
<1>5. ASSUME NEW p \in Procs, ContainsID(p) PROVE LeaseInv'
  <2>1. pc[p] # "idle" /\ UNCHANGED <<lost, crashes>>
    BY <1>5, Shapes DEF ContainsID, fixed, disk, memory, history
  <2>2. HoldersStay
    BY <1>5, Shapes DEF HoldersStay, GoesOn, Ends, Holding, TypeOK
  <2>3. req[p] \in Containers /\ Net(req[p]) = net[req[p]] /\ net[req[p]] \in Networks
    BY <2>1, Serving
  <2>4. UNCHANGED <<records, link, lease>>
    BY <1>5 DEF ContainsID, disk, memory
  <2> QED BY <1>0, <2>1, <2>2, <2>4 DEF HoldersStay, LeaseInv, TypeOK
<1>6. ASSUME NEW p \in Procs, NoMoreAddresses(p) PROVE LeaseInv'
  <2>1. pc[p] # "idle" /\ UNCHANGED <<lost, crashes>>
    BY <1>6, Shapes DEF NoMoreAddresses, fixed, disk, memory, history
  <2>2. HoldersStay
    BY <1>6, Shapes DEF HoldersStay, GoesOn, Ends, Holding, TypeOK
  <2>3. req[p] \in Containers /\ Net(req[p]) = net[req[p]] /\ net[req[p]] \in Networks
    BY <2>1, Serving
  <2>4. UNCHANGED <<records, link, lease>>
    BY <1>6 DEF NoMoreAddresses, disk, memory
  <2> QED BY <1>0, <2>1, <2>2, <2>4 DEF HoldersStay, LeaseInv, TypeOK
<1>7. ASSUME NEW p \in Procs, SandboxExists(p) PROVE LeaseInv'
  <2>1. pc[p] # "idle" /\ UNCHANGED <<lost, crashes>>
    BY <1>7, Shapes DEF SandboxExists, fixed, disk, memory, history
  <2>2. HoldersStay
    BY <1>7, Shapes DEF HoldersStay, GoesOn, Ends, Holding, TypeOK
  <2>3. req[p] \in Containers /\ Net(req[p]) = net[req[p]] /\ net[req[p]] \in Networks
    BY <2>1, Serving
  <2>4. UNCHANGED <<records, link, lease>>
    BY <1>7 DEF SandboxExists, disk, memory
  <2> QED BY <1>0, <2>1, <2>2, <2>4 DEF HoldersStay, LeaseInv, TypeOK
<1>8. ASSUME NEW p \in Procs, CreateSandbox(p) PROVE LeaseInv'
  <2>1. pc[p] # "idle" /\ UNCHANGED <<lost, crashes>>
    BY <1>8, Shapes DEF CreateSandbox, fixed, disk, memory, history
  <2>2. HoldersStay
    BY <1>8, Shapes DEF HoldersStay, GoesOn, Ends, Holding, TypeOK
  <2>3. req[p] \in Containers /\ Net(req[p]) = net[req[p]] /\ net[req[p]] \in Networks
    BY <2>1, Serving
  <2>4. UNCHANGED <<records, link, lease>>
    BY <1>8 DEF CreateSandbox, disk, memory
  <2> QED BY <1>0, <2>1, <2>2, <2>4 DEF HoldersStay, LeaseInv, TypeOK
<1>9. ASSUME NEW p \in Procs, CreateVxlan(p) PROVE LeaseInv'
  <2>1. pc[p] # "idle" /\ UNCHANGED <<lost, crashes>>
    BY <1>9, Shapes DEF CreateVxlan, fixed, disk, memory, history
  <2>2. HoldersStay
    BY <1>9, Shapes DEF HoldersStay, GoesOn, Ends, Holding, TypeOK
  <2>3. req[p] \in Containers /\ Net(req[p]) = net[req[p]] /\ net[req[p]] \in Networks
    BY <2>1, Serving
  <2>4. UNCHANGED <<records, link, lease>>
    BY <1>9 DEF CreateVxlan, disk, memory
  <2> QED BY <1>0, <2>1, <2>2, <2>4 DEF HoldersStay, LeaseInv, TypeOK
<1>10. ASSUME NEW p \in Procs, MoveVxlan(p) PROVE LeaseInv'
  <2>1. pc[p] # "idle" /\ UNCHANGED <<lost, crashes>>
    BY <1>10, Shapes DEF MoveVxlan, fixed, disk, memory, history
  <2>2. HoldersStay
    BY <1>10, Shapes DEF HoldersStay, GoesOn, Ends, Holding, TypeOK
  <2>3. req[p] \in Containers /\ Net(req[p]) = net[req[p]] /\ net[req[p]] \in Networks
    BY <2>1, Serving
  <2>4. UNCHANGED <<records, link, lease>>
    BY <1>10 DEF MoveVxlan, disk, memory
  <2> QED BY <1>0, <2>1, <2>2, <2>4 DEF HoldersStay, LeaseInv, TypeOK
<1>11. ASSUME NEW p \in Procs, StartDNSServer(p) PROVE LeaseInv'
  <2>1. pc[p] # "idle" /\ UNCHANGED <<lost, crashes>>
    BY <1>11, Shapes DEF StartDNSServer, fixed, disk, memory, history
  <2>2. HoldersStay
    BY <1>11, Shapes DEF HoldersStay, GoesOn, Ends, Holding, TypeOK
  <2>3. req[p] \in Containers /\ Net(req[p]) = net[req[p]] /\ net[req[p]] \in Networks
    BY <2>1, Serving
  <2>4. UNCHANGED <<records, link, lease>>
    BY <1>11 DEF StartDNSServer, disk, memory
  <2> QED BY <1>0, <2>1, <2>2, <2>4 DEF HoldersStay, LeaseInv, TypeOK
<1>12. ASSUME NEW p \in Procs, Attach(p) PROVE LeaseInv'
  <2>1. pc[p] # "idle" /\ UNCHANGED <<lost, crashes>>
    BY <1>12, Shapes DEF Attach, fixed, disk, memory, history, SetUpTo
  <2>2. HoldersStay
    BY <1>12, Shapes DEF HoldersStay, GoesOn, Ends, Holding, TypeOK
  <2>3. req[p] \in Containers /\ Net(req[p]) = net[req[p]] /\ net[req[p]] \in Networks
    BY <2>1, Serving
  <2>4. /\ UNCHANGED <<records, lease>>
        /\ link' = link \/ link' = [link EXCEPT ![req[p]] = ip[p]]
    BY <1>12 DEF Attach, SetUpTo
  <2>5. crashes = 0 /\ req[p] \notin lost => lease[net[req[p]]][ip[p]] = req[p]
    BY <1>12 DEF Attach, LeaseInv, Holding
  <2> QED BY <1>0, <2>1, <2>2, <2>4, <2>5 DEF HoldersStay, LeaseInv, TypeOK
<1>13. ASSUME NEW p \in Procs, CreateRecord(p) PROVE LeaseInv'
  <2>1. pc[p] # "idle" /\ UNCHANGED <<lost, crashes>>
    BY <1>13, Shapes DEF CreateRecord, fixed, disk, memory, history
  <2>2. HoldersStay
    BY <1>13, Shapes DEF HoldersStay, GoesOn, Ends, Holding, TypeOK
  <2>3. req[p] \in Containers /\ Net(req[p]) = net[req[p]] /\ net[req[p]] \in Networks
    BY <2>1, Serving
  <2>4. /\ UNCHANGED <<link, lease>>
        /\ \/ records' = records \/ records' = [records EXCEPT ![req[p]] = Nil]
           \/ pc[p] = "record" /\ records' = [records EXCEPT ![req[p]] = ip[p]]
    BY <1>13, <2>3 DEF CreateRecord, memory, TypeOK
  <2>5. crashes = 0 /\ req[p] \notin lost /\ pc[p] = "record" => lease[net[req[p]]][ip[p]] = req[p]
    BY <1>13 DEF CreateRecord, LeaseInv, Holding
  <2> QED BY <1>0, <2>1, <2>2, <2>4, <2>5 DEF HoldersStay, LeaseInv, TypeOK
<1>14. ASSUME NEW p \in Procs, GetRecord(p) PROVE LeaseInv'
  <2>1. pc[p] # "idle" /\ UNCHANGED <<lost, crashes>>
    BY <1>14, Shapes DEF GetRecord, fixed, disk, memory, history
  <2>2. HoldersStay
    BY <1>14, Shapes DEF HoldersStay, GoesOn, Ends, Holding, TypeOK
  <2>3. req[p] \in Containers /\ Net(req[p]) = net[req[p]] /\ net[req[p]] \in Networks
    BY <2>1, Serving
  <2>4. UNCHANGED <<records, link, lease>>
    BY <1>14 DEF GetRecord, disk, memory
  <2> QED BY <1>0, <2>1, <2>2, <2>4 DEF HoldersStay, LeaseInv, TypeOK
<1>15. ASSUME NEW p \in Procs, DeleteLink(p) PROVE LeaseInv'
  <2>1. pc[p] # "idle" /\ UNCHANGED <<lost, crashes>>
    BY <1>15, Shapes DEF DeleteLink, fixed, disk, memory, history
  <2>2. HoldersStay
    BY <1>15, Shapes DEF HoldersStay, GoesOn, Ends, Holding, TypeOK
  <2>3. req[p] \in Containers /\ Net(req[p]) = net[req[p]] /\ net[req[p]] \in Networks
    BY <2>1, Serving
  <2>4. UNCHANGED <<records, lease>> /\ link' = [link EXCEPT ![req[p]] = Nil]
    BY <1>15 DEF DeleteLink, memory
  <2> QED BY <1>0, <2>1, <2>2, <2>4 DEF HoldersStay, LeaseInv, TypeOK
<1>16. ASSUME NEW p \in Procs, CleanupSandbox(p) PROVE LeaseInv'
  <2>1. pc[p] # "idle" /\ UNCHANGED <<lost, crashes>>
    BY <1>16, Shapes DEF CleanupSandbox, fixed, disk, memory, history
  <2>2. HoldersStay
    BY <1>16, Shapes DEF HoldersStay, GoesOn, Ends, Holding, TypeOK
  <2>3. req[p] \in Containers /\ Net(req[p]) = net[req[p]] /\ net[req[p]] \in Networks
    BY <2>1, Serving
  <2>4. UNCHANGED <<records, link, lease>>
    BY <1>16 DEF CleanupSandbox, disk, memory
  <2> QED BY <1>0, <2>1, <2>2, <2>4 DEF HoldersStay, LeaseInv, TypeOK
<1>17. ASSUME NEW p \in Procs, DestroySandbox(p) PROVE LeaseInv'
  <2>1. pc[p] # "idle" /\ UNCHANGED <<lost, crashes>>
    BY <1>17, Shapes DEF DestroySandbox, fixed, disk, memory, history
  <2>2. HoldersStay
    BY <1>17, Shapes DEF HoldersStay, GoesOn, Ends, Holding, TypeOK
  <2>3. req[p] \in Containers /\ Net(req[p]) = net[req[p]] /\ net[req[p]] \in Networks
    BY <2>1, Serving
  <2>4. UNCHANGED <<records, link, lease>>
    BY <1>17 DEF DestroySandbox, disk, memory
  <2> QED BY <1>0, <2>1, <2>2, <2>4 DEF HoldersStay, LeaseInv, TypeOK
<1>18. ASSUME NEW p \in Procs, DeleteRecord(p) PROVE LeaseInv'
  <2>1. pc[p] # "idle" /\ UNCHANGED <<lost, crashes>>
    BY <1>18, Shapes DEF DeleteRecord, fixed, disk, memory, history
  <2>2. HoldersStay
    BY <1>18, Shapes DEF HoldersStay, GoesOn, Ends, Holding, TypeOK
  <2>3. req[p] \in Containers /\ Net(req[p]) = net[req[p]] /\ net[req[p]] \in Networks
    BY <2>1, Serving
  <2>4. UNCHANGED <<link, lease>> /\ records' = [records EXCEPT ![req[p]] = Nil]
    BY <1>18 DEF DeleteRecord, memory
  <2> QED BY <1>0, <2>1, <2>2, <2>4 DEF HoldersStay, LeaseInv, TypeOK
<1>19. ASSUME NEW p \in Procs, ReleaseIP(p) PROVE LeaseInv'
  <2>1. pc[p] # "idle" /\ UNCHANGED <<lost, crashes>>
    BY <1>19, Shapes DEF ReleaseIP, fixed, disk, memory, history
  <2>2. HoldersStay
    BY <1>19, Shapes DEF HoldersStay, GoesOn, Ends, Holding, TypeOK
  <2>3. req[p] \in Containers /\ Net(req[p]) = net[req[p]] /\ net[req[p]] \in Networks
    BY <2>1, Serving
  <2>4. /\ lease' = [lease EXCEPT ![net[req[p]]] =
                         [b \in Pool |-> IF @[b] = req[p] THEN Nil ELSE @[b]]]
        /\ UNCHANGED <<records, link>>
    BY <1>19, <2>3 DEF ReleaseIP, disk
  <2>5. \A m \in Networks, b \in Pool : lease[m][b] # req[p] => lease'[m][b] = lease[m][b]
    BY <2>3, <2>4 DEF TypeOK
  <2>6. req[p] \notin lost => records[req[p]] = Nil /\ link[req[p]] = Nil
    BY <1>19 DEF ReleaseIP, ProgressInv, ProgressOf
  <2>7. \A q \in Procs : pc'[q] \in Holding /\ req[q] \notin lost => req[q] # req[p]
    BY <1>19, <2>1, <2>2, <2>3, DaemonAssumption
       DEF HoldersStay, ReleaseIP, ServeInv, ServeOf, Holding, DaemonAssumption
  <2>8. ASSUME NEW c \in Containers \ lost, crashes = 0
        PROVE  /\ records[c] # Nil => lease'[net[c]][records[c]] = c
               /\ link[c] # Nil => lease'[net[c]][link[c]] = c
    <3>1. c \in Containers /\ c # Nil /\ net[c] \in Networks
      BY NamesOK, DaemonAssumption DEF DaemonAssumption
    <3>2. /\ records[c] # Nil => records[c] \in Pool /\ lease[net[c]][records[c]] = c
          /\ link[c] # Nil => link[c] \in Pool /\ lease[net[c]][link[c]] = c
      BY <2>8, <3>1 DEF LeaseInv, TypeOK
    <3> QED BY <2>5, <2>6, <2>8, <3>1, <3>2
  <2>9. ASSUME NEW q \in Procs, pc'[q] \in Holding, req'[q] \notin lost, crashes = 0
        PROVE  lease'[net[req'[q]]][ip'[q]] = req'[q]
    <3>1. req[q] \in Containers /\ ip[q] \in Pool /\ net[req[q]] \in Networks
      BY <2>2, <2>9, Serving DEF HoldersStay, TypeOK, ServeInv, ServeOf, Holding
    <3> QED BY <2>2, <2>5, <2>7, <2>9, <3>1 DEF HoldersStay, LeaseInv
  <2> QED BY <1>0, <2>1, <2>4, <2>8, <2>9 DEF LeaseInv
<1>20. ASSUME NEW p \in Procs, FailedCreate(p), FailedAnswer(p) PROVE LeaseInv'
  <2>1. /\ pc[p] # "idle" /\ Fails(p) /\ UNCHANGED <<lost, crashes>>
    BY <1>20, Shapes DEF FailedAnswer, Fallible
  <2>2. HoldersStay
    BY <2>1 DEF HoldersStay, Fails, Ends, Holding, TypeOK
  <2>3. req[p] \in Containers /\ Net(req[p]) = net[req[p]] /\ net[req[p]] \in Networks
    BY <2>1, Serving
  <2>4. UNCHANGED <<records, link, lease>>
    BY <1>20 DEF FailedCreate, disk, memory
  <2> QED BY <1>0, <2>1, <2>2, <2>4 DEF HoldersStay, LeaseInv, TypeOK
<1>21. ASSUME NEW p \in Procs, FailedStartDNS(p), FailedAnswer(p) PROVE LeaseInv'
  <2>1. /\ pc[p] # "idle" /\ Fails(p) /\ UNCHANGED <<lost, crashes>>
    BY <1>21, Shapes DEF FailedAnswer, Fallible
  <2>2. HoldersStay
    BY <2>1 DEF HoldersStay, Fails, Ends, Holding, TypeOK
  <2>3. req[p] \in Containers /\ Net(req[p]) = net[req[p]] /\ net[req[p]] \in Networks
    BY <2>1, Serving
  <2>4. UNCHANGED <<records, link, lease>>
    BY <1>21 DEF FailedStartDNS, disk, memory
  <2> QED BY <1>0, <2>1, <2>2, <2>4 DEF HoldersStay, LeaseInv, TypeOK
<1>22. ASSUME NEW p \in Procs, FailedAttach(p), FailedAnswer(p) PROVE LeaseInv'
  <2>1. /\ pc[p] # "idle" /\ Fails(p) /\ UNCHANGED <<lost, crashes>>
    BY <1>22, Shapes DEF FailedAnswer, Fallible
  <2>2. HoldersStay
    BY <2>1 DEF HoldersStay, Fails, Ends, Holding, TypeOK
  <2>3. req[p] \in Containers /\ Net(req[p]) = net[req[p]] /\ net[req[p]] \in Networks
    BY <2>1, Serving
  <2>4. /\ UNCHANGED <<records, lease>>
        /\ link' = link \/ link' = [link EXCEPT ![req[p]] = ip[p]]
    BY <1>22 DEF FailedAttach, SetUpTo
  <2>5. crashes = 0 /\ req[p] \notin lost => lease[net[req[p]]][ip[p]] = req[p]
    BY <1>22 DEF FailedAttach, LeaseInv, Holding
  <2> QED BY <1>0, <2>1, <2>2, <2>4, <2>5 DEF HoldersStay, LeaseInv, TypeOK
<1>23. ASSUME NEW p \in Procs, FailedDestroy(p), FailedAnswer(p) PROVE LeaseInv'
  <2>1. /\ pc[p] # "idle" /\ Fails(p) /\ UNCHANGED <<lost, crashes>>
    BY <1>23, Shapes DEF FailedAnswer, Fallible
  <2>2. HoldersStay
    BY <2>1 DEF HoldersStay, Fails, Ends, Holding, TypeOK
  <2>3. req[p] \in Containers /\ Net(req[p]) = net[req[p]] /\ net[req[p]] \in Networks
    BY <2>1, Serving
  <2>4. UNCHANGED <<records, link, lease>>
    BY <1>23 DEF FailedDestroy, disk, memory
  <2> QED BY <1>0, <2>1, <2>2, <2>4 DEF HoldersStay, LeaseInv, TypeOK
<1>24. ASSUME NEW p \in Procs, FailedStore(p), FailedAnswer(p) PROVE LeaseInv'
  <2>1. /\ pc[p] # "idle" /\ Fails(p) /\ UNCHANGED <<lost, crashes>>
    BY <1>24, Shapes DEF FailedAnswer, Fallible
  <2>2. HoldersStay
    BY <2>1 DEF HoldersStay, Fails, Ends, Holding, TypeOK
  <2>3. req[p] \in Containers /\ Net(req[p]) = net[req[p]] /\ net[req[p]] \in Networks
    BY <2>1, Serving
  <2>4. /\ UNCHANGED <<link, lease>>
        /\ \/ records' = records \/ records' = [records EXCEPT ![req[p]] = Nil]
           \/ pc[p] = "record" /\ records' = [records EXCEPT ![req[p]] = ip[p]]
    BY <1>24, <2>3 DEF FailedStore, memory, TypeOK
  <2>5. crashes = 0 /\ req[p] \notin lost /\ pc[p] = "record" => lease[net[req[p]]][ip[p]] = req[p]
    BY <1>24 DEF FailedStore, LeaseInv, Holding
  <2> QED BY <1>0, <2>1, <2>2, <2>4, <2>5 DEF HoldersStay, LeaseInv, TypeOK
<1>25. ASSUME NEW p \in Procs, FailedCleanly(p), FailedAnswer(p) PROVE LeaseInv'
  <2>1. /\ pc[p] # "idle" /\ Fails(p) /\ UNCHANGED <<lost, crashes>>
    BY <1>25, Shapes DEF FailedAnswer, Fallible
  <2>2. HoldersStay
    BY <2>1 DEF HoldersStay, Fails, Ends, Holding, TypeOK
  <2>3. req[p] \in Containers /\ Net(req[p]) = net[req[p]] /\ net[req[p]] \in Networks
    BY <2>1, Serving
  <2>4. UNCHANGED <<records, link, lease>>
    BY <1>25 DEF FailedCleanly, disk, memory
  <2> QED BY <1>0, <2>1, <2>2, <2>4 DEF HoldersStay, LeaseInv, TypeOK
<1>26. CASE Crash
  BY <1>26 DEF Crash, LeaseInv, TypeOK
<1>27. CASE Start
  BY <1>0, <1>27 DEF Start, fixed, disk, memory, history, procs, LeaseInv, TypeOK
<1> QED BY <1>1, <1>2, <1>3, <1>4, <1>5, <1>6, <1>7, <1>8, <1>9, <1>10, <1>11, <1>12,
     <1>13, <1>14, <1>15, <1>16, <1>17, <1>18, <1>19, <1>20, <1>21, <1>22, <1>23,
     <1>24, <1>25, <1>26, <1>27, Steps

-----------------------------------------------------------------------------
(* How far the requests have got. *)

\* No two goroutines serve a container of which no call was given up, and none
\* serves it once its call has returned.
LEMMA Alone ==
  ASSUME TypeOK, ServeInv, NEW p \in Procs, pc[p] # "idle", req[p] \notin lost
  PROVE  /\ told[req[p]] = "waiting" /\ conn[req[p]] = p
         /\ \A q \in Procs : pc[q] # "idle" /\ req[q] = req[p] => q = p
BY Serving, DaemonAssumption DEF TypeOK, ServeInv, ServeOf, DaemonAssumption

\* What a step of p leaves alone: the other goroutines, and all that belongs to
\* other containers than the one p serves.
OwnStep(p) ==
  /\ pc[p] # "idle" /\ lost' = lost
  /\ \A q \in Procs \ {p} : pc'[q] = pc[q] /\ req'[q] = req[q] /\ ip'[q] = ip[q]
  /\ \A c \in Containers \ {req[p]} :
       /\ told'[c] = told[c] /\ records'[c] = records[c] /\ link'[c] = link[c]
       /\ \A a \in Pool : lease'[net[c]][a] = c => lease[net[c]][a] = c

\* All steps of a goroutine are its own in this sense.
LEMMA OwnSteps ==
  ASSUME TypeOK, AcceptInv, ServeInv, NEW p \in Procs,
         \/ Reserve(p)
         \/ ContainsID(p) \/ NoMoreAddresses(p) \/ SandboxExists(p)
         \/ CreateSandbox(p) \/ CreateVxlan(p) \/ MoveVxlan(p)
         \/ StartDNSServer(p) \/ Attach(p) \/ CreateRecord(p)
         \/ GetRecord(p) \/ DeleteLink(p) \/ CleanupSandbox(p)
         \/ DestroySandbox(p) \/ DeleteRecord(p) \/ ReleaseIP(p)
         \/ FailedAnswer(p) /\ (FailedCreate(p) \/ FailedStartDNS(p) \/ FailedAttach(p)
                                \/ FailedDestroy(p) \/ FailedStore(p) \/ FailedCleanly(p))
  PROVE  OwnStep(p)
<1> DEFINE Others ==
      /\ \A q \in Procs \ {p} : pc'[q] = pc[q] /\ req'[q] = req[q] /\ ip'[q] = ip[q]
      /\ \A c \in Containers \ {req[p]} : told'[c] = told[c]
<1>1. ASSUME pc[p] # "idle", NEW r, Ends(p, r) PROVE Others
  BY <1>1, Serving DEF Ends, TypeOK
<1>2. ASSUME NEW next, GoesOn(p, next) PROVE Others
  BY <1>2 DEF GoesOn, TypeOK
<1> HIDE DEF Others
<1>3. ASSUME NEW S, S = pc[p], S # "idle"
      PROVE  req[p] \in Containers /\ Net(req[p]) = net[req[p]] /\ net[req[p]] \in Networks
  BY <1>3, Serving
<1>4. CASE Reserve(p)
  <2>1. pc[p] # "idle" BY <1>4 DEF Reserve
  <2>2. req[p] \in Containers /\ Net(req[p]) = net[req[p]] /\ net[req[p]] \in Networks
    BY <2>1, <1>3
  <2> QED BY <1>4, <2>1, <2>2, NamesOK
     DEF Reserve, OwnStep, TypeOK, disk, client, history
<1>5. CASE ContainsID(p)
  <2>1. pc[p] # "idle" /\ Others /\ lost' = lost
    BY <1>5, <1>1, <1>2, Shapes DEF ContainsID, history
  <2>2. req[p] \in Containers /\ Net(req[p]) = net[req[p]] /\ net[req[p]] \in Networks
    BY <2>1, <1>3
  <2>3. \A c \in Containers \ {req[p]} :
          /\ records'[c] = records[c] /\ link'[c] = link[c]
          /\ \A a \in Pool : lease'[net[c]][a] = c => lease[net[c]][a] = c
    BY <1>5, <2>2, NamesOK DEF ContainsID, disk, memory, TypeOK
  <2> QED BY <2>1, <2>3 DEF OwnStep, Others
<1>6. CASE NoMoreAddresses(p)
  <2>1. pc[p] # "idle" /\ Others /\ lost' = lost
    BY <1>6, <1>1, <1>2, Shapes DEF NoMoreAddresses, history
  <2>2. req[p] \in Containers /\ Net(req[p]) = net[req[p]] /\ net[req[p]] \in Networks
    BY <2>1, <1>3
  <2>3. \A c \in Containers \ {req[p]} :
          /\ records'[c] = records[c] /\ link'[c] = link[c]
          /\ \A a \in Pool : lease'[net[c]][a] = c => lease[net[c]][a] = c
    BY <1>6, <2>2, NamesOK DEF NoMoreAddresses, disk, memory, TypeOK
  <2> QED BY <2>1, <2>3 DEF OwnStep, Others
<1>7. CASE SandboxExists(p)
  <2>1. pc[p] # "idle" /\ Others /\ lost' = lost
    BY <1>7, <1>1, <1>2, Shapes DEF SandboxExists, history
  <2>2. req[p] \in Containers /\ Net(req[p]) = net[req[p]] /\ net[req[p]] \in Networks
    BY <2>1, <1>3
  <2>3. \A c \in Containers \ {req[p]} :
          /\ records'[c] = records[c] /\ link'[c] = link[c]
          /\ \A a \in Pool : lease'[net[c]][a] = c => lease[net[c]][a] = c
    BY <1>7, <2>2, NamesOK DEF SandboxExists, disk, memory, TypeOK
  <2> QED BY <2>1, <2>3 DEF OwnStep, Others
<1>8. CASE CreateSandbox(p)
  <2>1. pc[p] # "idle" /\ Others /\ lost' = lost
    BY <1>8, <1>1, <1>2, Shapes DEF CreateSandbox, CanCreate, history
  <2>2. req[p] \in Containers /\ Net(req[p]) = net[req[p]] /\ net[req[p]] \in Networks
    BY <2>1, <1>3
  <2>3. \A c \in Containers \ {req[p]} :
          /\ records'[c] = records[c] /\ link'[c] = link[c]
          /\ \A a \in Pool : lease'[net[c]][a] = c => lease[net[c]][a] = c
    BY <1>8, <2>2, NamesOK DEF CreateSandbox, CanCreate, disk, memory, TypeOK
  <2> QED BY <2>1, <2>3 DEF OwnStep, Others
<1>9. CASE CreateVxlan(p)
  <2>1. pc[p] # "idle" /\ Others /\ lost' = lost
    BY <1>9, <1>1, <1>2, Shapes DEF CreateVxlan, history
  <2>2. req[p] \in Containers /\ Net(req[p]) = net[req[p]] /\ net[req[p]] \in Networks
    BY <2>1, <1>3
  <2>3. \A c \in Containers \ {req[p]} :
          /\ records'[c] = records[c] /\ link'[c] = link[c]
          /\ \A a \in Pool : lease'[net[c]][a] = c => lease[net[c]][a] = c
    BY <1>9, <2>2, NamesOK DEF CreateVxlan, disk, memory, TypeOK
  <2> QED BY <2>1, <2>3 DEF OwnStep, Others
<1>10. CASE MoveVxlan(p)
  <2>1. pc[p] # "idle" /\ Others /\ lost' = lost
    BY <1>10, <1>1, <1>2, Shapes DEF MoveVxlan, history
  <2>2. req[p] \in Containers /\ Net(req[p]) = net[req[p]] /\ net[req[p]] \in Networks
    BY <2>1, <1>3
  <2>3. \A c \in Containers \ {req[p]} :
          /\ records'[c] = records[c] /\ link'[c] = link[c]
          /\ \A a \in Pool : lease'[net[c]][a] = c => lease[net[c]][a] = c
    BY <1>10, <2>2, NamesOK DEF MoveVxlan, disk, memory, TypeOK
  <2> QED BY <2>1, <2>3 DEF OwnStep, Others
<1>11. CASE StartDNSServer(p)
  <2>1. pc[p] # "idle" /\ Others /\ lost' = lost
    BY <1>11, <1>1, <1>2, Shapes DEF StartDNSServer, history
  <2>2. req[p] \in Containers /\ Net(req[p]) = net[req[p]] /\ net[req[p]] \in Networks
    BY <2>1, <1>3
  <2>3. \A c \in Containers \ {req[p]} :
          /\ records'[c] = records[c] /\ link'[c] = link[c]
          /\ \A a \in Pool : lease'[net[c]][a] = c => lease[net[c]][a] = c
    BY <1>11, <2>2, NamesOK DEF StartDNSServer, disk, memory, TypeOK
  <2> QED BY <2>1, <2>3 DEF OwnStep, Others
<1>12. CASE Attach(p)
  <2>1. pc[p] # "idle" /\ Others /\ lost' = lost
    BY <1>12, <1>1, <1>2, Shapes DEF Attach, SetUpTo, history
  <2>2. req[p] \in Containers /\ Net(req[p]) = net[req[p]] /\ net[req[p]] \in Networks
    BY <2>1, <1>3
  <2>3. \A c \in Containers \ {req[p]} :
          /\ records'[c] = records[c] /\ link'[c] = link[c]
          /\ \A a \in Pool : lease'[net[c]][a] = c => lease[net[c]][a] = c
    BY <1>12, <2>2, NamesOK DEF Attach, SetUpTo, disk, memory, TypeOK
  <2> QED BY <2>1, <2>3 DEF OwnStep, Others
<1>13. CASE CreateRecord(p)
  <2>1. pc[p] # "idle" /\ Others /\ lost' = lost
    BY <1>13, <1>1, <1>2, Shapes DEF CreateRecord, history
  <2>2. req[p] \in Containers /\ Net(req[p]) = net[req[p]] /\ net[req[p]] \in Networks
    BY <2>1, <1>3
  <2>3. \A c \in Containers \ {req[p]} :
          /\ records'[c] = records[c] /\ link'[c] = link[c]
          /\ \A a \in Pool : lease'[net[c]][a] = c => lease[net[c]][a] = c
    BY <1>13, <2>2, NamesOK DEF CreateRecord, disk, memory, TypeOK
  <2> QED BY <2>1, <2>3 DEF OwnStep, Others
<1>14. CASE GetRecord(p)
  <2>1. pc[p] # "idle" /\ Others /\ lost' = lost
    BY <1>14, <1>1, <1>2, Shapes DEF GetRecord, history
  <2>2. req[p] \in Containers /\ Net(req[p]) = net[req[p]] /\ net[req[p]] \in Networks
    BY <2>1, <1>3
  <2>3. \A c \in Containers \ {req[p]} :
          /\ records'[c] = records[c] /\ link'[c] = link[c]
          /\ \A a \in Pool : lease'[net[c]][a] = c => lease[net[c]][a] = c
    BY <1>14, <2>2, NamesOK DEF GetRecord, disk, memory, TypeOK
  <2> QED BY <2>1, <2>3 DEF OwnStep, Others
<1>15. CASE DeleteLink(p)
  <2>1. pc[p] # "idle" /\ Others /\ lost' = lost
    BY <1>15, <1>1, <1>2, Shapes DEF DeleteLink, history
  <2>2. req[p] \in Containers /\ Net(req[p]) = net[req[p]] /\ net[req[p]] \in Networks
    BY <2>1, <1>3
  <2>3. \A c \in Containers \ {req[p]} :
          /\ records'[c] = records[c] /\ link'[c] = link[c]
          /\ \A a \in Pool : lease'[net[c]][a] = c => lease[net[c]][a] = c
    BY <1>15, <2>2, NamesOK DEF DeleteLink, disk, memory, TypeOK
  <2> QED BY <2>1, <2>3 DEF OwnStep, Others
<1>16. CASE CleanupSandbox(p)
  <2>1. pc[p] # "idle" /\ Others /\ lost' = lost
    BY <1>16, <1>1, <1>2, Shapes DEF CleanupSandbox, history
  <2>2. req[p] \in Containers /\ Net(req[p]) = net[req[p]] /\ net[req[p]] \in Networks
    BY <2>1, <1>3
  <2>3. \A c \in Containers \ {req[p]} :
          /\ records'[c] = records[c] /\ link'[c] = link[c]
          /\ \A a \in Pool : lease'[net[c]][a] = c => lease[net[c]][a] = c
    BY <1>16, <2>2, NamesOK DEF CleanupSandbox, disk, memory, TypeOK
  <2> QED BY <2>1, <2>3 DEF OwnStep, Others
<1>17. CASE DestroySandbox(p)
  <2>1. pc[p] # "idle" /\ Others /\ lost' = lost
    BY <1>17, <1>1, <1>2, Shapes DEF DestroySandbox, CanDestroy, history
  <2>2. req[p] \in Containers /\ Net(req[p]) = net[req[p]] /\ net[req[p]] \in Networks
    BY <2>1, <1>3
  <2>3. \A c \in Containers \ {req[p]} :
          /\ records'[c] = records[c] /\ link'[c] = link[c]
          /\ \A a \in Pool : lease'[net[c]][a] = c => lease[net[c]][a] = c
    BY <1>17, <2>2, NamesOK DEF DestroySandbox, CanDestroy, disk, memory, TypeOK
  <2> QED BY <2>1, <2>3 DEF OwnStep, Others
<1>18. CASE DeleteRecord(p)
  <2>1. pc[p] # "idle" /\ Others /\ lost' = lost
    BY <1>18, <1>1, <1>2, Shapes DEF DeleteRecord, history
  <2>2. req[p] \in Containers /\ Net(req[p]) = net[req[p]] /\ net[req[p]] \in Networks
    BY <2>1, <1>3
  <2>3. \A c \in Containers \ {req[p]} :
          /\ records'[c] = records[c] /\ link'[c] = link[c]
          /\ \A a \in Pool : lease'[net[c]][a] = c => lease[net[c]][a] = c
    BY <1>18, <2>2, NamesOK DEF DeleteRecord, disk, memory, TypeOK
  <2> QED BY <2>1, <2>3 DEF OwnStep, Others
<1>19. CASE ReleaseIP(p)
  <2>1. pc[p] # "idle" /\ Others /\ lost' = lost
    BY <1>19, <1>1, <1>2, Shapes DEF ReleaseIP, history
  <2>2. req[p] \in Containers /\ Net(req[p]) = net[req[p]] /\ net[req[p]] \in Networks
    BY <2>1, <1>3
  <2>3. \A c \in Containers \ {req[p]} :
          /\ records'[c] = records[c] /\ link'[c] = link[c]
          /\ \A a \in Pool : lease'[net[c]][a] = c => lease[net[c]][a] = c
    BY <1>19, <2>2, NamesOK, DaemonAssumption
       DEF ReleaseIP, disk, memory, TypeOK, DaemonAssumption
  <2> QED BY <2>1, <2>3 DEF OwnStep, Others
<1>20. CASE FailedAnswer(p) /\ FailedCreate(p)
  <2>1. pc[p] # "idle" /\ Others /\ lost' = lost
    BY <1>20, <1>1, <1>2, Shapes
       DEF FailedCreate, CanCreate, history, FailedAnswer, Fallible, Fails
  <2>2. req[p] \in Containers /\ Net(req[p]) = net[req[p]] /\ net[req[p]] \in Networks
    BY <2>1, <1>3
  <2>3. \A c \in Containers \ {req[p]} :
          /\ records'[c] = records[c] /\ link'[c] = link[c]
          /\ \A a \in Pool : lease'[net[c]][a] = c => lease[net[c]][a] = c
    BY <1>20, <2>2, NamesOK DEF FailedCreate, CanCreate, disk, memory, TypeOK
  <2> QED BY <2>1, <2>3 DEF OwnStep, Others
<1>21. CASE FailedAnswer(p) /\ FailedStartDNS(p)
  <2>1. pc[p] # "idle" /\ Others /\ lost' = lost
    BY <1>21, <1>1, <1>2, Shapes
       DEF FailedStartDNS, history, FailedAnswer, Fallible, Fails
  <2>2. req[p] \in Containers /\ Net(req[p]) = net[req[p]] /\ net[req[p]] \in Networks
    BY <2>1, <1>3
  <2>3. \A c \in Containers \ {req[p]} :
          /\ records'[c] = records[c] /\ link'[c] = link[c]
          /\ \A a \in Pool : lease'[net[c]][a] = c => lease[net[c]][a] = c
    BY <1>21, <2>2, NamesOK DEF FailedStartDNS, disk, memory, TypeOK
  <2> QED BY <2>1, <2>3 DEF OwnStep, Others
<1>22. CASE FailedAnswer(p) /\ FailedAttach(p)
  <2>1. pc[p] # "idle" /\ Others /\ lost' = lost
    BY <1>22, <1>1, <1>2, Shapes
       DEF FailedAttach, SetUpTo, history, FailedAnswer, Fallible, Fails
  <2>2. req[p] \in Containers /\ Net(req[p]) = net[req[p]] /\ net[req[p]] \in Networks
    BY <2>1, <1>3
  <2>3. \A c \in Containers \ {req[p]} :
          /\ records'[c] = records[c] /\ link'[c] = link[c]
          /\ \A a \in Pool : lease'[net[c]][a] = c => lease[net[c]][a] = c
    BY <1>22, <2>2, NamesOK DEF FailedAttach, SetUpTo, disk, memory, TypeOK
  <2> QED BY <2>1, <2>3 DEF OwnStep, Others
<1>23. CASE FailedAnswer(p) /\ FailedDestroy(p)
  <2>1. pc[p] # "idle" /\ Others /\ lost' = lost
    BY <1>23, <1>1, <1>2, Shapes
       DEF FailedDestroy, CanDestroy, history, FailedAnswer, Fallible, Fails
  <2>2. req[p] \in Containers /\ Net(req[p]) = net[req[p]] /\ net[req[p]] \in Networks
    BY <2>1, <1>3
  <2>3. \A c \in Containers \ {req[p]} :
          /\ records'[c] = records[c] /\ link'[c] = link[c]
          /\ \A a \in Pool : lease'[net[c]][a] = c => lease[net[c]][a] = c
    BY <1>23, <2>2, NamesOK DEF FailedDestroy, CanDestroy, disk, memory, TypeOK
  <2> QED BY <2>1, <2>3 DEF OwnStep, Others
<1>24. CASE FailedAnswer(p) /\ FailedStore(p)
  <2>1. pc[p] # "idle" /\ Others /\ lost' = lost
    BY <1>24, <1>1, <1>2, Shapes
       DEF FailedStore, history, FailedAnswer, Fallible, Fails
  <2>2. req[p] \in Containers /\ Net(req[p]) = net[req[p]] /\ net[req[p]] \in Networks
    BY <2>1, <1>3
  <2>3. \A c \in Containers \ {req[p]} :
          /\ records'[c] = records[c] /\ link'[c] = link[c]
          /\ \A a \in Pool : lease'[net[c]][a] = c => lease[net[c]][a] = c
    BY <1>24, <2>2, NamesOK DEF FailedStore, disk, memory, TypeOK
  <2> QED BY <2>1, <2>3 DEF OwnStep, Others
<1>25. CASE FailedAnswer(p) /\ FailedCleanly(p)
  <2>1. pc[p] # "idle" /\ Others /\ lost' = lost
    BY <1>25, <1>1, <1>2, Shapes
       DEF FailedCleanly, history, FailedAnswer, Fallible, Fails
  <2>2. req[p] \in Containers /\ Net(req[p]) = net[req[p]] /\ net[req[p]] \in Networks
    BY <2>1, <1>3
  <2>3. \A c \in Containers \ {req[p]} :
          /\ records'[c] = records[c] /\ link'[c] = link[c]
          /\ \A a \in Pool : lease'[net[c]][a] = c => lease[net[c]][a] = c
    BY <1>25, <2>2, NamesOK DEF FailedCleanly, disk, memory, TypeOK
  <2> QED BY <2>1, <2>3 DEF OwnStep, Others
<1> QED BY <1>4, <1>5, <1>6, <1>7, <1>8, <1>9, <1>10, <1>11, <1>12, <1>13, <1>14,
     <1>15, <1>16, <1>17, <1>18, <1>19, <1>20, <1>21, <1>22, <1>23, <1>24, <1>25

\* Such a step keeps what is known of the other requests and answers.
LEMMA ProgressStays ==
  ASSUME TypeOK, ServeInv, ProgressInv, NEW p \in Procs, OwnStep(p),
         net' = net, sbox' = sbox,
         \A c \in Containers : link[c] # Nil /\ sbox[c] \in bridges => sbox[c] \in bridges',
         ProgressOf(p)', \A c \in Containers : c = req[p] => ToldOf(c)'
  PROVE  ProgressInv'
<1>1. ASSUME NEW q \in Procs, q # p PROVE ProgressOf(q)'
  <2>1. pc'[q] = pc[q] /\ req'[q] = req[q] /\ ip'[q] = ip[q] /\ lost' = lost
    BY <1>1 DEF OwnStep
  <2>2. CASE pc[q] = "idle" BY <2>1, <2>2 DEF ProgressOf
  <2>3. CASE pc[q] # "idle" /\ req[q] \in lost BY <2>1, <2>3 DEF ProgressOf
  <2>4. CASE pc[q] # "idle" /\ req[q] \notin lost
    <3>1. req[q] \in Containers /\ req[q] # req[p]
      BY <1>1, <2>4, Alone, Serving DEF OwnStep
    <3>2. link'[req[q]] = link[req[q]] /\ records'[req[q]] = records[req[q]]
      BY <3>1 DEF OwnStep
    <3>3. pc[q] = "record" => ip[q] # Nil BY DEF ServeInv, ServeOf, Holding
    <3> QED BY <2>1, <3>1, <3>2, <3>3 DEF ProgressOf, ProgressInv
  <2> QED BY <2>2, <2>3, <2>4
<1>2. ASSUME NEW c \in Containers, c # req[p] PROVE ToldOf(c)'
  <2>1. told'[c] = told[c] /\ records'[c] = records[c] /\ link'[c] = link[c] /\ lost' = lost
    BY <1>2 DEF OwnStep
  <2>2. \A a \in Pool : lease'[net[c]][a] = c => lease[net[c]][a] = c
    BY <1>2 DEF OwnStep
  <2> QED BY <2>1, <2>2 DEF ToldOf, ProgressInv
<1> QED BY <1>1, <1>2 DEF ProgressInv

\* The answers the runtime gets are true.
LEMMA ProgressStep ==
  ASSUME TypeOK, AcceptInv, ServeInv, ProgressInv, SandboxInv, LinkInv, Next
  PROVE  ProgressInv'
<1>0. net' = net /\ sbox' = sbox BY FilesStay, NamesStay
<1>1. ASSUME NEW c \in Containers, NEW p \in Procs, NEW first \in {"contains",
             "get"}, Call(c, p, first)
      PROVE  ProgressInv'
  <2>1. \A q \in Procs : ProgressOf(q)'
    BY <1>0, <1>1 DEF Call, disk, ProgressInv, ProgressOf, ToldOf, TypeOK
  <2>2. \A d \in Containers : ToldOf(d)'
    BY <1>0, <1>1 DEF Call, disk, memory, ProgressInv, ProgressOf, ToldOf, TypeOK
  <2> QED BY <2>1, <2>2 DEF ProgressInv
<1>2. ASSUME NEW c \in Containers, BadAdd(c) \/ BadDel(c) PROVE ProgressInv'
  BY <1>0, <1>2, Answers
     DEF BadAdd, BadDel, Refuse, disk, memory, procs, ProgressInv, ProgressOf, ToldOf,
         TypeOK
<1>3. ASSUME NEW c \in Containers, GiveUp(c) PROVE ProgressInv'
  BY <1>0, <1>3
     DEF GiveUp, Trouble, disk, memory, procs, ProgressInv, ProgressOf, ToldOf, TypeOK
<1>4. ASSUME NEW p \in Procs, Reserve(p) PROVE ProgressInv'
  <2>1. OwnStep(p) BY <1>4, OwnSteps
  <2>2. req[p] \in Containers /\ Sbox(req[p]) = sbox[req[p]] /\ Net(req[p]) = net[req[p]]
        /\ net[req[p]] \in Networks
    BY <2>1, Serving DEF OwnStep
  <2>3. bridges \subseteq bridges' BY <1>4 DEF Reserve, disk, fixed
  <2>4. ProgressOf(p)'
    BY <1>4 DEF Reserve, ProgressOf, TypeOK
  <2>5. ASSUME NEW c \in Containers, c = req[p] PROVE ToldOf(c)'
    <3>1. CASE c \in lost BY <2>1, <3>1 DEF OwnStep, ToldOf
    <3>2. CASE c \notin lost
      <4>1. told[c] = "waiting" BY <2>1, <2>5, <3>2, Alone DEF OwnStep
      <4>2. told'[c] \notin {"up", "down"}
        BY <1>4, <2>5, <4>1 DEF Reserve, client, TypeOK
      <4> QED BY <4>2 DEF ToldOf
    <3> QED BY <3>1, <3>2
  <2> QED BY <1>0, <2>1, <2>3, <2>4, <2>5, ProgressStays
<1>5. ASSUME NEW p \in Procs, ContainsID(p) PROVE ProgressInv'
  <2>1. OwnStep(p) BY <1>5, OwnSteps
  <2>2. req[p] \in Containers /\ Sbox(req[p]) = sbox[req[p]] /\ Net(req[p]) = net[req[p]]
        /\ net[req[p]] \in Networks
    BY <2>1, Serving DEF OwnStep
  <2>3. bridges \subseteq bridges' BY <1>5 DEF ContainsID, disk, fixed
  <2>4. ProgressOf(p)'
    BY <1>5, Shapes DEF ProgressOf, TypeOK, Ends, GoesOn
  <2>5. ASSUME NEW c \in Containers, c = req[p] PROVE ToldOf(c)'
    <3>1. CASE c \in lost BY <2>1, <3>1 DEF OwnStep, ToldOf
    <3>2. CASE c \notin lost
      <4>1. told[c] = "waiting" BY <2>1, <2>5, <3>2, Alone DEF OwnStep
      <4>2. told'[c] \notin {"up", "down"}
        BY <1>5, <2>5, <4>1, Shapes DEF Ends, GoesOn, Fails, TypeOK
      <4> QED BY <4>2 DEF ToldOf
    <3> QED BY <3>1, <3>2
  <2> QED BY <1>0, <2>1, <2>3, <2>4, <2>5, ProgressStays
<1>6. ASSUME NEW p \in Procs, NoMoreAddresses(p) PROVE ProgressInv'
  <2>1. OwnStep(p) BY <1>6, OwnSteps
  <2>2. req[p] \in Containers /\ Sbox(req[p]) = sbox[req[p]] /\ Net(req[p]) = net[req[p]]
        /\ net[req[p]] \in Networks
    BY <2>1, Serving DEF OwnStep
  <2>3. bridges \subseteq bridges' BY <1>6 DEF NoMoreAddresses, disk, fixed
  <2>4. ProgressOf(p)'
    BY <1>6, Shapes DEF ProgressOf, TypeOK, Fails, Ends
  <2>5. ASSUME NEW c \in Containers, c = req[p] PROVE ToldOf(c)'
    <3>1. CASE c \in lost BY <2>1, <3>1 DEF OwnStep, ToldOf
    <3>2. CASE c \notin lost
      <4>1. told[c] = "waiting" BY <2>1, <2>5, <3>2, Alone DEF OwnStep
      <4>2. told'[c] \notin {"up", "down"}
        BY <1>6, <2>5, <4>1, Shapes DEF Ends, GoesOn, Fails, TypeOK
      <4> QED BY <4>2 DEF ToldOf
    <3> QED BY <3>1, <3>2
  <2> QED BY <1>0, <2>1, <2>3, <2>4, <2>5, ProgressStays
<1>7. ASSUME NEW p \in Procs, SandboxExists(p) PROVE ProgressInv'
  <2>1. OwnStep(p) BY <1>7, OwnSteps
  <2>2. req[p] \in Containers /\ Sbox(req[p]) = sbox[req[p]] /\ Net(req[p]) = net[req[p]]
        /\ net[req[p]] \in Networks
    BY <2>1, Serving DEF OwnStep
  <2>3. bridges \subseteq bridges' BY <1>7 DEF SandboxExists, disk, fixed
  <2>4. ProgressOf(p)'
    BY <1>7, Shapes DEF ProgressOf, TypeOK, Ends, GoesOn
  <2>5. ASSUME NEW c \in Containers, c = req[p] PROVE ToldOf(c)'
    <3>1. CASE c \in lost BY <2>1, <3>1 DEF OwnStep, ToldOf
    <3>2. CASE c \notin lost
      <4>1. told[c] = "waiting" BY <2>1, <2>5, <3>2, Alone DEF OwnStep
      <4>2. told'[c] \notin {"up", "down"}
        BY <1>7, <2>5, <4>1, Shapes DEF Ends, GoesOn, Fails, TypeOK
      <4> QED BY <4>2 DEF ToldOf
    <3> QED BY <3>1, <3>2
  <2> QED BY <1>0, <2>1, <2>3, <2>4, <2>5, ProgressStays
<1>8. ASSUME NEW p \in Procs, CreateSandbox(p) PROVE ProgressInv'
  <2>1. OwnStep(p) BY <1>8, OwnSteps
  <2>2. req[p] \in Containers /\ Sbox(req[p]) = sbox[req[p]] /\ Net(req[p]) = net[req[p]]
        /\ net[req[p]] \in Networks
    BY <2>1, Serving DEF OwnStep
  <2>3. bridges \subseteq bridges' BY <1>8 DEF CreateSandbox, CanCreate, disk, fixed
  <2>4. ProgressOf(p)'
    BY <1>8, Shapes DEF ProgressOf, TypeOK, Ends, GoesOn
  <2>5. ASSUME NEW c \in Containers, c = req[p] PROVE ToldOf(c)'
    <3>1. CASE c \in lost BY <2>1, <3>1 DEF OwnStep, ToldOf
    <3>2. CASE c \notin lost
      <4>1. told[c] = "waiting" BY <2>1, <2>5, <3>2, Alone DEF OwnStep
      <4>2. told'[c] \notin {"up", "down"}
        BY <1>8, <2>5, <4>1, Shapes DEF Ends, GoesOn, Fails, TypeOK
      <4> QED BY <4>2 DEF ToldOf
    <3> QED BY <3>1, <3>2
  <2> QED BY <1>0, <2>1, <2>3, <2>4, <2>5, ProgressStays
<1>9. ASSUME NEW p \in Procs, CreateVxlan(p) PROVE ProgressInv'
  <2>1. OwnStep(p) BY <1>9, OwnSteps
  <2>2. req[p] \in Containers /\ Sbox(req[p]) = sbox[req[p]] /\ Net(req[p]) = net[req[p]]
        /\ net[req[p]] \in Networks
    BY <2>1, Serving DEF OwnStep
  <2>3. bridges \subseteq bridges' BY <1>9 DEF CreateVxlan, disk, fixed
  <2>4. ProgressOf(p)'
    BY <1>9, Shapes DEF ProgressOf, TypeOK, Ends, GoesOn
  <2>5. ASSUME NEW c \in Containers, c = req[p] PROVE ToldOf(c)'
    <3>1. CASE c \in lost BY <2>1, <3>1 DEF OwnStep, ToldOf
    <3>2. CASE c \notin lost
      <4>1. told[c] = "waiting" BY <2>1, <2>5, <3>2, Alone DEF OwnStep
      <4>2. told'[c] \notin {"up", "down"}
        BY <1>9, <2>5, <4>1, Shapes DEF Ends, GoesOn, Fails, TypeOK
      <4> QED BY <4>2 DEF ToldOf
    <3> QED BY <3>1, <3>2
  <2> QED BY <1>0, <2>1, <2>3, <2>4, <2>5, ProgressStays
<1>10. ASSUME NEW p \in Procs, MoveVxlan(p) PROVE ProgressInv'
  <2>1. OwnStep(p) BY <1>10, OwnSteps
  <2>2. req[p] \in Containers /\ Sbox(req[p]) = sbox[req[p]] /\ Net(req[p]) = net[req[p]]
        /\ net[req[p]] \in Networks
    BY <2>1, Serving DEF OwnStep
  <2>3. bridges \subseteq bridges' BY <1>10 DEF MoveVxlan, disk, fixed
  <2>4. ProgressOf(p)'
    BY <1>10, Shapes DEF ProgressOf, TypeOK, Ends, GoesOn
  <2>5. ASSUME NEW c \in Containers, c = req[p] PROVE ToldOf(c)'
    <3>1. CASE c \in lost BY <2>1, <3>1 DEF OwnStep, ToldOf
    <3>2. CASE c \notin lost
      <4>1. told[c] = "waiting" BY <2>1, <2>5, <3>2, Alone DEF OwnStep
      <4>2. told'[c] \notin {"up", "down"}
        BY <1>10, <2>5, <4>1, Shapes DEF Ends, GoesOn, Fails, TypeOK
      <4> QED BY <4>2 DEF ToldOf
    <3> QED BY <3>1, <3>2
  <2> QED BY <1>0, <2>1, <2>3, <2>4, <2>5, ProgressStays
<1>11. ASSUME NEW p \in Procs, StartDNSServer(p) PROVE ProgressInv'
  <2>1. OwnStep(p) BY <1>11, OwnSteps
  <2>2. req[p] \in Containers /\ Sbox(req[p]) = sbox[req[p]] /\ Net(req[p]) = net[req[p]]
        /\ net[req[p]] \in Networks
    BY <2>1, Serving DEF OwnStep
  <2>3. bridges \subseteq bridges' BY <1>11 DEF StartDNSServer, disk, fixed
  <2>4. ProgressOf(p)'
    BY <1>11, Shapes DEF ProgressOf, TypeOK, Ends, GoesOn
  <2>5. ASSUME NEW c \in Containers, c = req[p] PROVE ToldOf(c)'
    <3>1. CASE c \in lost BY <2>1, <3>1 DEF OwnStep, ToldOf
    <3>2. CASE c \notin lost
      <4>1. told[c] = "waiting" BY <2>1, <2>5, <3>2, Alone DEF OwnStep
      <4>2. told'[c] \notin {"up", "down"}
        BY <1>11, <2>5, <4>1, Shapes DEF Ends, GoesOn, Fails, TypeOK
      <4> QED BY <4>2 DEF ToldOf
    <3> QED BY <3>1, <3>2
  <2> QED BY <1>0, <2>1, <2>3, <2>4, <2>5, ProgressStays
<1>12. ASSUME NEW p \in Procs, Attach(p) PROVE ProgressInv'
  <2>1. OwnStep(p) BY <1>12, OwnSteps
  <2>2. req[p] \in Containers /\ Sbox(req[p]) = sbox[req[p]] /\ Net(req[p]) = net[req[p]]
        /\ net[req[p]] \in Networks
    BY <2>1, Serving DEF OwnStep
  <2>3. bridges \subseteq bridges' BY <1>12 DEF Attach, SetUpTo, disk, fixed
  <2>4. ProgressOf(p)'
    <3>1. CASE Reach(p) = 5
      <4>1. SetUpTo(p, 5) BY <1>12, <3>1 DEF Attach
      <4>2. link' = [link EXCEPT ![req[p]] = ip[p]] /\ sbox[req[p]] \in bridges'
        BY <2>2, <4>1 DEF SetUpTo
      <4>3. pc' = [pc EXCEPT ![p] = "record"] /\ UNCHANGED <<req, ip>>
        BY <1>12, <3>1, Shapes DEF GoesOn
      <4> QED BY <1>0, <2>2, <4>2, <4>3 DEF ProgressOf, TypeOK
    <3>2. CASE Reach(p) # 5 BY <1>12, <3>2, Shapes DEF ProgressOf, TypeOK, Ends
    <3> QED BY <3>1, <3>2
  <2>5. ASSUME NEW c \in Containers, c = req[p] PROVE ToldOf(c)'
    <3>1. CASE c \in lost BY <2>1, <3>1 DEF OwnStep, ToldOf
    <3>2. CASE c \notin lost
      <4>1. told[c] = "waiting" BY <2>1, <2>5, <3>2, Alone DEF OwnStep
      <4>2. told'[c] \notin {"up", "down"}
        BY <1>12, <2>5, <4>1, Shapes DEF Ends, GoesOn, Fails, TypeOK
      <4> QED BY <4>2 DEF ToldOf
    <3> QED BY <3>1, <3>2
  <2> QED BY <1>0, <2>1, <2>3, <2>4, <2>5, ProgressStays
<1>13. ASSUME NEW p \in Procs, CreateRecord(p) PROVE ProgressInv'
  <2>1. OwnStep(p) BY <1>13, OwnSteps
  <2>2. req[p] \in Containers /\ Sbox(req[p]) = sbox[req[p]] /\ Net(req[p]) = net[req[p]]
        /\ net[req[p]] \in Networks
    BY <2>1, Serving DEF OwnStep
  <2>3. bridges \subseteq bridges' BY <1>13 DEF CreateRecord, disk, fixed
  <2>4. ProgressOf(p)'
    BY <1>13, Shapes DEF ProgressOf, TypeOK, Fails, Ends
  <2>5. ASSUME NEW c \in Containers, c = req[p] PROVE ToldOf(c)'
    <3>1. CASE c \in lost BY <2>1, <3>1 DEF OwnStep, ToldOf
    <3>2. CASE c \notin lost
      <4>1. link[c] = ip[p] /\ sbox[c] \in bridges /\ ip[p] # Nil /\ conn[c] = p
        BY <1>13, <2>1, <2>5, <3>2, Alone
           DEF CreateRecord, ProgressInv, ProgressOf, OwnStep, ServeInv, ServeOf,
               Holding
      <4>2. UNCHANGED <<link, bridges>> BY <1>13 DEF CreateRecord
      <4>3. told'[c] = IF records[c] = Nil THEN "up" ELSE "addError"
        BY <1>13, <2>5, <4>1, Shapes DEF Ends, TypeOK
      <4>4. records[c] = Nil => records'[c] = ip[p]
        BY <1>13, <2>5 DEF CreateRecord, TypeOK
      <4> QED BY <1>0, <4>1, <4>2, <4>3, <4>4 DEF ToldOf
    <3> QED BY <3>1, <3>2
  <2> QED BY <1>0, <2>1, <2>3, <2>4, <2>5, ProgressStays
<1>14. ASSUME NEW p \in Procs, GetRecord(p) PROVE ProgressInv'
  <2>1. OwnStep(p) BY <1>14, OwnSteps
  <2>2. req[p] \in Containers /\ Sbox(req[p]) = sbox[req[p]] /\ Net(req[p]) = net[req[p]]
        /\ net[req[p]] \in Networks
    BY <2>1, Serving DEF OwnStep
  <2>3. bridges \subseteq bridges' BY <1>14 DEF GetRecord, disk, fixed
  <2>4. ProgressOf(p)'
    <3>1. ProgressOf(p) /\ pc[p] = "get" BY <1>14, Shapes DEF ProgressInv
    <3>2. \/ pc'[p] = "idle"
          \/ pc'[p] \in {"deleteLink"} /\ req'[p] = req[p] /\ records[req[p]] # Nil
      BY <1>14, Shapes DEF Ends, GoesOn, TypeOK
    <3>3. records' = records
      BY <1>14, <2>2 DEF GetRecord, disk, TypeOK
    <3> QED BY <2>1, <3>1, <3>2, <3>3 DEF ProgressOf, OwnStep
  <2>5. ASSUME NEW c \in Containers, c = req[p] PROVE ToldOf(c)'
    <3>1. CASE c \in lost BY <2>1, <3>1 DEF OwnStep, ToldOf
    <3>2. CASE c \notin lost
      <4>1. told[c] = "waiting" BY <2>1, <2>5, <3>2, Alone DEF OwnStep
      <4>2. told'[c] \notin {"up", "down"}
        BY <1>14, <2>5, <4>1, Shapes DEF Ends, GoesOn, Fails, TypeOK
      <4> QED BY <4>2 DEF ToldOf
    <3> QED BY <3>1, <3>2
  <2> QED BY <1>0, <2>1, <2>3, <2>4, <2>5, ProgressStays
<1>15. ASSUME NEW p \in Procs, DeleteLink(p) PROVE ProgressInv'
  <2>1. OwnStep(p) BY <1>15, OwnSteps
  <2>2. req[p] \in Containers /\ Sbox(req[p]) = sbox[req[p]] /\ Net(req[p]) = net[req[p]]
        /\ net[req[p]] \in Networks
    BY <2>1, Serving DEF OwnStep
  <2>3. bridges \subseteq bridges' BY <1>15 DEF DeleteLink, disk, fixed
  <2>4. ProgressOf(p)'
    <3>1. ProgressOf(p) /\ pc[p] = "deleteLink" BY <1>15, Shapes DEF ProgressInv
    <3>2. \/ pc'[p] = "idle"
          \/ pc'[p] \in {"cleanup"} /\ req'[p] = req[p]
      BY <1>15, Shapes DEF Ends, GoesOn, TypeOK
    <3>3. records'[req[p]] = records[req[p]] /\ link'[req[p]] = Nil
      BY <1>15, <2>2 DEF DeleteLink, disk, TypeOK
    <3> QED BY <2>1, <3>1, <3>2, <3>3 DEF ProgressOf, OwnStep
  <2>5. ASSUME NEW c \in Containers, c = req[p] PROVE ToldOf(c)'
    <3>1. CASE c \in lost BY <2>1, <3>1 DEF OwnStep, ToldOf
    <3>2. CASE c \notin lost
      <4>1. told[c] = "waiting" BY <2>1, <2>5, <3>2, Alone DEF OwnStep
      <4>2. told'[c] \notin {"up", "down"}
        BY <1>15, <2>5, <4>1, Shapes DEF Ends, GoesOn, Fails, TypeOK
      <4> QED BY <4>2 DEF ToldOf
    <3> QED BY <3>1, <3>2
  <2> QED BY <1>0, <2>1, <2>3, <2>4, <2>5, ProgressStays
<1>16. ASSUME NEW p \in Procs, CleanupSandbox(p) PROVE ProgressInv'
  <2>1. OwnStep(p) BY <1>16, OwnSteps
  <2>2. req[p] \in Containers /\ Sbox(req[p]) = sbox[req[p]] /\ Net(req[p]) = net[req[p]]
        /\ net[req[p]] \in Networks
    BY <2>1, Serving DEF OwnStep
  <2>3. bridges \subseteq bridges' BY <1>16 DEF CleanupSandbox, disk, fixed
  <2>4. ProgressOf(p)'
    <3>1. ProgressOf(p) /\ pc[p] = "cleanup" BY <1>16, Shapes DEF ProgressInv
    <3>2. \/ pc'[p] = "idle"
          \/ pc'[p] \in {"destroy", "unrecord"} /\ req'[p] = req[p]
      BY <1>16, Shapes DEF Ends, GoesOn, TypeOK
    <3>3. records'[req[p]] = records[req[p]] /\ link'[req[p]] = link[req[p]]
      BY <1>16, <2>2 DEF CleanupSandbox, disk, TypeOK
    <3> QED BY <2>1, <3>1, <3>2, <3>3 DEF ProgressOf, OwnStep
  <2>5. ASSUME NEW c \in Containers, c = req[p] PROVE ToldOf(c)'
    <3>1. CASE c \in lost BY <2>1, <3>1 DEF OwnStep, ToldOf
    <3>2. CASE c \notin lost
      <4>1. told[c] = "waiting" BY <2>1, <2>5, <3>2, Alone DEF OwnStep
      <4>2. told'[c] \notin {"up", "down"}
        BY <1>16, <2>5, <4>1, Shapes DEF Ends, GoesOn, Fails, TypeOK
      <4> QED BY <4>2 DEF ToldOf
    <3> QED BY <3>1, <3>2
  <2> QED BY <1>0, <2>1, <2>3, <2>4, <2>5, ProgressStays
<1>17. ASSUME NEW p \in Procs, DestroySandbox(p) PROVE ProgressInv'
  <2>1. OwnStep(p) BY <1>17, OwnSteps
  <2>2. req[p] \in Containers /\ Sbox(req[p]) = sbox[req[p]] /\ Net(req[p]) = net[req[p]]
        /\ net[req[p]] \in Networks
    BY <2>1, Serving DEF OwnStep
  <2>3. ASSUME NEW c \in Containers, link[c] # Nil, sbox[c] \in bridges
        PROVE  sbox[c] \in bridges'
    <3>1. pc[p] = "destroy" BY <1>17 DEF DestroySandbox, Then
    <3>2. sbox[c] # sbox[req[p]] BY <2>3, <3>1 DEF SandboxInv, RoleInv, RoleOf
    <3> QED BY <1>17, <2>2, <2>3, <3>2 DEF DestroySandbox
  <2>4. ProgressOf(p)'
    <3>1. ProgressOf(p) /\ pc[p] = "destroy" BY <1>17, Shapes DEF ProgressInv
    <3>2. \/ pc'[p] = "idle"
          \/ pc'[p] \in {"unrecord"} /\ req'[p] = req[p]
      BY <1>17, Shapes DEF Ends, GoesOn, TypeOK
    <3>3. records'[req[p]] = records[req[p]] /\ link'[req[p]] = link[req[p]]
      BY <1>17, <2>2 DEF DestroySandbox, disk, TypeOK
    <3> QED BY <2>1, <3>1, <3>2, <3>3 DEF ProgressOf, OwnStep
  <2>5. ASSUME NEW c \in Containers, c = req[p] PROVE ToldOf(c)'
    <3>1. CASE c \in lost BY <2>1, <3>1 DEF OwnStep, ToldOf
    <3>2. CASE c \notin lost
      <4>1. told[c] = "waiting" BY <2>1, <2>5, <3>2, Alone DEF OwnStep
      <4>2. told'[c] \notin {"up", "down"}
        BY <1>17, <2>5, <4>1, Shapes DEF Ends, GoesOn, Fails, TypeOK
      <4> QED BY <4>2 DEF ToldOf
    <3> QED BY <3>1, <3>2
  <2> QED BY <1>0, <2>1, <2>3, <2>4, <2>5, ProgressStays
<1>18. ASSUME NEW p \in Procs, DeleteRecord(p) PROVE ProgressInv'
  <2>1. OwnStep(p) BY <1>18, OwnSteps
  <2>2. req[p] \in Containers /\ Sbox(req[p]) = sbox[req[p]] /\ Net(req[p]) = net[req[p]]
        /\ net[req[p]] \in Networks
    BY <2>1, Serving DEF OwnStep
  <2>3. bridges \subseteq bridges' BY <1>18 DEF DeleteRecord, disk, fixed
  <2>4. ProgressOf(p)'
    <3>1. ProgressOf(p) /\ pc[p] = "unrecord" BY <1>18, Shapes DEF ProgressInv
    <3>2. \/ pc'[p] = "idle"
          \/ pc'[p] \in {"release"} /\ req'[p] = req[p]
      BY <1>18, Shapes DEF Ends, GoesOn, TypeOK
    <3>3. records'[req[p]] = Nil /\ link'[req[p]] = link[req[p]]
      BY <1>18, <2>2 DEF DeleteRecord, disk, TypeOK
    <3> QED BY <2>1, <3>1, <3>2, <3>3 DEF ProgressOf, OwnStep
  <2>5. ASSUME NEW c \in Containers, c = req[p] PROVE ToldOf(c)'
    <3>1. CASE c \in lost BY <2>1, <3>1 DEF OwnStep, ToldOf
    <3>2. CASE c \notin lost
      <4>1. told[c] = "waiting" BY <2>1, <2>5, <3>2, Alone DEF OwnStep
      <4>2. told'[c] \notin {"up", "down"}
        BY <1>18, <2>5, <4>1, Shapes DEF Ends, GoesOn, Fails, TypeOK
      <4> QED BY <4>2 DEF ToldOf
    <3> QED BY <3>1, <3>2
  <2> QED BY <1>0, <2>1, <2>3, <2>4, <2>5, ProgressStays
<1>19. ASSUME NEW p \in Procs, ReleaseIP(p) PROVE ProgressInv'
  <2>1. OwnStep(p) BY <1>19, OwnSteps
  <2>2. req[p] \in Containers /\ Sbox(req[p]) = sbox[req[p]] /\ Net(req[p]) = net[req[p]]
        /\ net[req[p]] \in Networks
    BY <2>1, Serving DEF OwnStep
  <2>3. bridges \subseteq bridges' BY <1>19 DEF ReleaseIP, disk, fixed
  <2>4. ProgressOf(p)'
    BY <1>19, Shapes DEF ProgressOf, TypeOK, Fails, Ends
  <2>5. ASSUME NEW c \in Containers, c = req[p] PROVE ToldOf(c)'
    <3>1. CASE c \in lost BY <2>1, <3>1 DEF OwnStep, ToldOf
    <3>2. CASE c \notin lost
      <4>1. records[c] = Nil /\ link[c] = Nil /\ conn[c] = p
        BY <1>19, <2>1, <2>5, <3>2, Alone
           DEF ReleaseIP, ProgressInv, ProgressOf, OwnStep
      <4>2. UNCHANGED <<link, records>> BY <1>19 DEF ReleaseIP, disk
      <4>3. told'[c] = "down"
        BY <1>19, <2>5, <4>1, Shapes DEF Ends, TypeOK
      <4>4. \A a \in Pool : lease'[net[c]][a] # c
        BY <1>19, <2>2, <2>5, DaemonAssumption DEF ReleaseIP, TypeOK, DaemonAssumption
      <4> QED BY <1>0, <4>1, <4>2, <4>3, <4>4 DEF ToldOf
    <3> QED BY <3>1, <3>2
  <2> QED BY <1>0, <2>1, <2>3, <2>4, <2>5, ProgressStays
<1>20. ASSUME NEW p \in Procs, FailedCreate(p), FailedAnswer(p) PROVE ProgressInv'
  <2>1. OwnStep(p) BY <1>20, OwnSteps
  <2>2. req[p] \in Containers /\ Sbox(req[p]) = sbox[req[p]] /\ Net(req[p]) = net[req[p]]
        /\ net[req[p]] \in Networks
    BY <2>1, Serving DEF OwnStep
  <2>3. bridges \subseteq bridges'
    BY <1>20 DEF FailedCreate, FailedAnswer, Trouble, CanCreate, disk, fixed
  <2>4. ProgressOf(p)'
    BY <1>20, Shapes DEF ProgressOf, TypeOK, Fails, Ends
  <2>5. ASSUME NEW c \in Containers, c = req[p] PROVE ToldOf(c)'
    <3>1. CASE c \in lost BY <2>1, <3>1 DEF OwnStep, ToldOf
    <3>2. CASE c \notin lost
      <4>1. told[c] = "waiting" BY <2>1, <2>5, <3>2, Alone DEF OwnStep
      <4>2. told'[c] \notin {"up", "down"}
        BY <1>20, <2>5, <4>1, Shapes DEF Ends, GoesOn, Fails, TypeOK
      <4> QED BY <4>2 DEF ToldOf
    <3> QED BY <3>1, <3>2
  <2> QED BY <1>0, <2>1, <2>3, <2>4, <2>5, ProgressStays
<1>21. ASSUME NEW p \in Procs, FailedStartDNS(p), FailedAnswer(p) PROVE ProgressInv'
  <2>1. OwnStep(p) BY <1>21, OwnSteps
  <2>2. req[p] \in Containers /\ Sbox(req[p]) = sbox[req[p]] /\ Net(req[p]) = net[req[p]]
        /\ net[req[p]] \in Networks
    BY <2>1, Serving DEF OwnStep
  <2>3. bridges \subseteq bridges'
    BY <1>21 DEF FailedStartDNS, FailedAnswer, Trouble, disk, fixed
  <2>4. ProgressOf(p)'
    BY <1>21, Shapes DEF ProgressOf, TypeOK, Fails, Ends
  <2>5. ASSUME NEW c \in Containers, c = req[p] PROVE ToldOf(c)'
    <3>1. CASE c \in lost BY <2>1, <3>1 DEF OwnStep, ToldOf
    <3>2. CASE c \notin lost
      <4>1. told[c] = "waiting" BY <2>1, <2>5, <3>2, Alone DEF OwnStep
      <4>2. told'[c] \notin {"up", "down"}
        BY <1>21, <2>5, <4>1, Shapes DEF Ends, GoesOn, Fails, TypeOK
      <4> QED BY <4>2 DEF ToldOf
    <3> QED BY <3>1, <3>2
  <2> QED BY <1>0, <2>1, <2>3, <2>4, <2>5, ProgressStays
<1>22. ASSUME NEW p \in Procs, FailedAttach(p), FailedAnswer(p) PROVE ProgressInv'
  <2>1. OwnStep(p) BY <1>22, OwnSteps
  <2>2. req[p] \in Containers /\ Sbox(req[p]) = sbox[req[p]] /\ Net(req[p]) = net[req[p]]
        /\ net[req[p]] \in Networks
    BY <2>1, Serving DEF OwnStep
  <2>3. bridges \subseteq bridges'
    BY <1>22 DEF FailedAttach, FailedAnswer, Trouble, SetUpTo, disk, fixed
  <2>4. ProgressOf(p)'
    BY <1>22, Shapes DEF ProgressOf, TypeOK, Fails, Ends
  <2>5. ASSUME NEW c \in Containers, c = req[p] PROVE ToldOf(c)'
    <3>1. CASE c \in lost BY <2>1, <3>1 DEF OwnStep, ToldOf
    <3>2. CASE c \notin lost
      <4>1. told[c] = "waiting" BY <2>1, <2>5, <3>2, Alone DEF OwnStep
      <4>2. told'[c] \notin {"up", "down"}
        BY <1>22, <2>5, <4>1, Shapes DEF Ends, GoesOn, Fails, TypeOK
      <4> QED BY <4>2 DEF ToldOf
    <3> QED BY <3>1, <3>2
  <2> QED BY <1>0, <2>1, <2>3, <2>4, <2>5, ProgressStays
<1>23. ASSUME NEW p \in Procs, FailedDestroy(p), FailedAnswer(p) PROVE ProgressInv'
  <2>1. OwnStep(p) BY <1>23, OwnSteps
  <2>2. req[p] \in Containers /\ Sbox(req[p]) = sbox[req[p]] /\ Net(req[p]) = net[req[p]]
        /\ net[req[p]] \in Networks
    BY <2>1, Serving DEF OwnStep
  <2>3. bridges \subseteq bridges'
    BY <1>23 DEF FailedDestroy, FailedAnswer, Trouble, CanDestroy, disk, fixed
  <2>4. ProgressOf(p)'
    BY <1>23, Shapes DEF ProgressOf, TypeOK, Fails, Ends
  <2>5. ASSUME NEW c \in Containers, c = req[p] PROVE ToldOf(c)'
    <3>1. CASE c \in lost BY <2>1, <3>1 DEF OwnStep, ToldOf
    <3>2. CASE c \notin lost
      <4>1. told[c] = "waiting" BY <2>1, <2>5, <3>2, Alone DEF OwnStep
      <4>2. told'[c] \notin {"up", "down"}
        BY <1>23, <2>5, <4>1, Shapes DEF Ends, GoesOn, Fails, TypeOK
      <4> QED BY <4>2 DEF ToldOf
    <3> QED BY <3>1, <3>2
  <2> QED BY <1>0, <2>1, <2>3, <2>4, <2>5, ProgressStays
<1>24. ASSUME NEW p \in Procs, FailedStore(p), FailedAnswer(p) PROVE ProgressInv'
  <2>1. OwnStep(p) BY <1>24, OwnSteps
  <2>2. req[p] \in Containers /\ Sbox(req[p]) = sbox[req[p]] /\ Net(req[p]) = net[req[p]]
        /\ net[req[p]] \in Networks
    BY <2>1, Serving DEF OwnStep
  <2>3. bridges \subseteq bridges'
    BY <1>24 DEF FailedStore, FailedAnswer, Trouble, disk, fixed
  <2>4. ProgressOf(p)'
    BY <1>24, Shapes DEF ProgressOf, TypeOK, Fails, Ends
  <2>5. ASSUME NEW c \in Containers, c = req[p] PROVE ToldOf(c)'
    <3>1. CASE c \in lost BY <2>1, <3>1 DEF OwnStep, ToldOf
    <3>2. CASE c \notin lost
      <4>1. told[c] = "waiting" BY <2>1, <2>5, <3>2, Alone DEF OwnStep
      <4>2. told'[c] \notin {"up", "down"}
        BY <1>24, <2>5, <4>1, Shapes DEF Ends, GoesOn, Fails, TypeOK
      <4> QED BY <4>2 DEF ToldOf
    <3> QED BY <3>1, <3>2
  <2> QED BY <1>0, <2>1, <2>3, <2>4, <2>5, ProgressStays
<1>25. ASSUME NEW p \in Procs, FailedCleanly(p), FailedAnswer(p) PROVE ProgressInv'
  <2>1. OwnStep(p) BY <1>25, OwnSteps
  <2>2. req[p] \in Containers /\ Sbox(req[p]) = sbox[req[p]] /\ Net(req[p]) = net[req[p]]
        /\ net[req[p]] \in Networks
    BY <2>1, Serving DEF OwnStep
  <2>3. bridges \subseteq bridges'
    BY <1>25 DEF FailedCleanly, FailedAnswer, Trouble, disk, fixed
  <2>4. ProgressOf(p)'
    BY <1>25, Shapes DEF ProgressOf, TypeOK, Fails, Ends
  <2>5. ASSUME NEW c \in Containers, c = req[p] PROVE ToldOf(c)'
    <3>1. CASE c \in lost BY <2>1, <3>1 DEF OwnStep, ToldOf
    <3>2. CASE c \notin lost
      <4>1. told[c] = "waiting" BY <2>1, <2>5, <3>2, Alone DEF OwnStep
      <4>2. told'[c] \notin {"up", "down"}
        BY <1>25, <2>5, <4>1, Shapes DEF Ends, GoesOn, Fails, TypeOK
      <4> QED BY <4>2 DEF ToldOf
    <3> QED BY <3>1, <3>2
  <2> QED BY <1>0, <2>1, <2>3, <2>4, <2>5, ProgressStays
<1>26. CASE Crash
  <2>1. \A q \in Procs : ProgressOf(q)'
    BY <1>26, DaemonAssumption DEF Crash, ProgressOf
  <2>2. ASSUME NEW c \in Containers, link[c] # Nil, sbox[c] \in bridges
        PROVE  link'[c] = link[c] /\ sbox[c] \in bridges'
    <3>1. sbox[c] \in VNIs /\ Sbox(c) = sbox[c] BY NamesOK
    <3>2. nsFile[sbox[c]] = "mounted" BY <2>2 DEF LinkInv
    <3>3. \A q \in Procs : pc[q] = "destroy" => Sbox(req[q]) # sbox[c]
      BY <2>2, Serving DEF SandboxInv, RoleInv, RoleOf
    <3>4. nsFile'[sbox[c]] = "mounted" BY <1>26, <3>1, <3>2, <3>3 DEF Crash, CanCreate
    <3> QED BY <1>26, <2>2, <3>1, <3>4 DEF Crash
  <2>3. ASSUME NEW c \in Containers, link[c] = Nil PROVE link'[c] = Nil
    BY <1>26, <2>3 DEF Crash
  <2>4. ASSUME NEW c \in Containers PROVE ToldOf(c)'
    <3>1. c \notin lost' => c \notin lost /\ told'[c] = told[c] /\ records'[c] = records[c]
      BY <1>26 DEF Crash, TypeOK
    <3>2. ASSUME NEW a \in Pool, lease'[net[c]][a] = c PROVE FALSE
      BY <1>26, <3>2, NamesOK, DaemonAssumption DEF Crash, DaemonAssumption
    <3> QED BY <1>0, <2>2, <2>3, <3>1, <3>2 DEF ToldOf, ProgressInv
  <2> QED BY <2>1, <2>4 DEF ProgressInv
<1>27. CASE Start
  BY <1>0, <1>27
     DEF Start, OnDisk, Reloads, Reloadable, disk, memory, procs, client, history,
         ProgressInv, ProgressOf, ToldOf, TypeOK
<1> QED BY <1>1, <1>2, <1>3, <1>4, <1>5, <1>6, <1>7, <1>8, <1>9, <1>10, <1>11, <1>12,
     <1>13, <1>14, <1>15, <1>16, <1>17, <1>18, <1>19, <1>20, <1>21, <1>22, <1>23,
     <1>24, <1>25, <1>26, <1>27, Steps

-----------------------------------------------------------------------------
(* The sandboxes and the links in them. *)

\* A step that changes no sandbox, and lets nobody begin to make one or to
\* destroy one.
QuietStep ==
  /\ UNCHANGED <<nsFile, vxlan, sandboxes, torn, monitored, daemon>>
  /\ net' = net /\ sbox' = sbox
  /\ \A c \in Containers : link'[c] \in {link[c], Nil}
  /\ \A q \in Procs : pc'[q] \in Making \cup {"destroy"} =>
       /\ req'[q] = req[q] /\ (pc[q] \in Making <=> pc'[q] \in Making)
       /\ pc[q] = "destroy" <=> pc'[q] = "destroy"

\* Such a step keeps the invariants of the sandboxes.
LEMMA QuietSandbox ==
  ASSUME SandboxInv, LinkInv, QuietStep
  PROVE  SandboxInv' /\ LinkInv'
<1>0. VNIs' = VNIs BY DEF VNIs
<1>1. MapInv' BY <1>0 DEF SandboxInv, MapInv, QuietStep
<1>2. \A q \in Procs : RoleOf(q)'
  BY DEF SandboxInv, RoleInv, RoleOf, QuietStep, Making
<1>3. RoleInv' BY <1>2 DEF SandboxInv, RoleInv, QuietStep, Making
<1>4. LinkInv' BY DEF LinkInv, QuietStep
<1> QED BY <1>1, <1>3, <1>4 DEF SandboxInv

\* Whatever has a link is a sandbox that works.
LEMMA SandboxStep ==
  ASSUME TypeOK, AcceptInv, ServeInv, SandboxInv, LinkInv, Next
  PROVE  SandboxInv' /\ LinkInv'
<1>0. net' = net /\ sbox' = sbox /\ VNIs' = VNIs BY FilesStay, NamesStay DEF VNIs
<1>1. ASSUME NEW c \in Containers, NEW p \in Procs, NEW first \in {"contains",
             "get"}, Call(c, p, first)
      PROVE  SandboxInv' /\ LinkInv'
  BY <1>0, <1>1, QuietSandbox DEF Call, disk, memory, QuietStep, Making, TypeOK
<1>2. ASSUME NEW c \in Containers, BadAdd(c) \/ BadDel(c)
      PROVE  SandboxInv' /\ LinkInv'
  BY <1>0, <1>2, QuietSandbox
     DEF BadAdd, BadDel, Refuse, disk, memory, procs, QuietStep, TypeOK
<1>3. ASSUME NEW c \in Containers, GiveUp(c) PROVE SandboxInv' /\ LinkInv'
  BY <1>0, <1>3, QuietSandbox
     DEF GiveUp, Trouble, disk, memory, procs, QuietStep, TypeOK
<1>4. ASSUME NEW p \in Procs, Reserve(p) PROVE SandboxInv' /\ LinkInv'
  <2>1. OwnStep(p) BY <1>4, OwnSteps
  <2>2. /\ UNCHANGED <<nsFile, vxlan, sandboxes, torn, monitored, daemon>>
        /\ \A c \in Containers : link'[c] \in {link[c], Nil}
    BY <1>4 DEF Reserve, fixed, disk, memory, TypeOK
  <2>3. pc'[p] = "exists" BY <1>4 DEF Reserve, TypeOK
  <2>4. QuietStep BY <1>0, <2>1, <2>2, <2>3 DEF QuietStep, OwnStep, Making
  <2> QED BY <2>4, QuietSandbox
<1>5. ASSUME NEW p \in Procs, ContainsID(p) PROVE SandboxInv' /\ LinkInv'
  <2>1. OwnStep(p) BY <1>5, OwnSteps
  <2>2. /\ UNCHANGED <<nsFile, vxlan, sandboxes, torn, monitored, daemon>>
        /\ \A c \in Containers : link'[c] \in {link[c], Nil}
    BY <1>5 DEF ContainsID, fixed, disk, memory, TypeOK
  <2>3. pc'[p] \notin Making \cup {"destroy"}
    BY <1>5, Shapes DEF Ends, GoesOn, Fails, Making, TypeOK
  <2>4. QuietStep BY <1>0, <2>1, <2>2, <2>3 DEF QuietStep, OwnStep, Making
  <2> QED BY <2>4, QuietSandbox
<1>6. ASSUME NEW p \in Procs, NoMoreAddresses(p) PROVE SandboxInv' /\ LinkInv'
  <2>1. OwnStep(p) BY <1>6, OwnSteps
  <2>2. /\ UNCHANGED <<nsFile, vxlan, sandboxes, torn, monitored, daemon>>
        /\ \A c \in Containers : link'[c] \in {link[c], Nil}
    BY <1>6 DEF NoMoreAddresses, fixed, disk, memory, TypeOK
  <2>3. pc'[p] \notin Making \cup {"destroy"}
    BY <1>6, Shapes DEF Ends, GoesOn, Fails, Making, TypeOK
  <2>4. QuietStep BY <1>0, <2>1, <2>2, <2>3 DEF QuietStep, OwnStep, Making
  <2> QED BY <2>4, QuietSandbox
<1>7. ASSUME NEW p \in Procs, SandboxExists(p) PROVE SandboxInv' /\ LinkInv'
  <2>1. OwnStep(p) BY <1>7, OwnSteps
  <2>2. /\ UNCHANGED <<nsFile, vxlan, sandboxes, torn, monitored, daemon>>
        /\ \A c \in Containers : link'[c] \in {link[c], Nil}
    BY <1>7 DEF SandboxExists, fixed, disk, memory, TypeOK
  <2>3. pc'[p] \notin Making \cup {"destroy"}
    BY <1>7, Shapes DEF Ends, GoesOn, Fails, Making, TypeOK
  <2>4. QuietStep BY <1>0, <2>1, <2>2, <2>3 DEF QuietStep, OwnStep, Making
  <2> QED BY <2>4, QuietSandbox
<1>8. ASSUME NEW p \in Procs, CreateSandbox(p) PROVE SandboxInv' /\ LinkInv'
  <2>1. OwnStep(p) BY <1>8, OwnSteps
  <2> DEFINE v == sbox[req[p]]
  <2>2. /\ req[p] \in Containers /\ Sbox(req[p]) = v /\ v \in VNIs /\ daemon = "up"
    BY <2>1, Serving DEF OwnStep
  <2>3. v \in VNIs BY <2>2
  <2> HIDE DEF v
  <2>4. CASE ~CanCreate(v)
    <3>1. /\ UNCHANGED <<nsFile, vxlan, link, sandboxes, torn, monitored, daemon>> /\ pc'[p] = "idle"
      BY <1>8, <2>2, <2>4, Shapes DEF CreateSandbox, history, Ends, TypeOK
    <3>2. QuietStep BY <1>0, <2>1, <3>1 DEF QuietStep, OwnStep, Making
    <3> QED BY <3>2, QuietSandbox
  <2>5. CASE CanCreate(v)
    <3>1. /\ nsFile' = [nsFile EXCEPT ![v] = "mounted"] /\ sandboxes' = sandboxes \cup {v}
          /\ UNCHANGED <<vxlan, link, torn, monitored, daemon>>
          /\ pc'[p] = "createVxlan" /\ req'[p] = req[p]
      BY <1>8, <2>2, <2>5, Shapes DEF CreateSandbox, GoesOn, TypeOK
    <3>2. /\ v \notin sandboxes \cup monitored \cup torn /\ vxlan[v] # "sandbox" /\ nsFile[v] = "none"
      BY <2>3, <2>5 DEF CanCreate, SandboxInv, MapInv, TypeOK
    <3>3. MapInv' BY <1>0, <2>2, <3>1, <3>2 DEF SandboxInv, MapInv, TypeOK
    <3>4. \A q \in Procs \ {p} : RoleOf(q)'
      BY <1>0, <2>1, <3>1 DEF OwnStep, SandboxInv, RoleInv, RoleOf
    <3>5. RoleOf(p)' BY <1>0, <3>1, <3>2 DEF RoleOf, v
    <3>6. \A q \in Procs : pc[q] \in Making => sbox[req[q]] # v
      BY <3>2 DEF SandboxInv, RoleInv, RoleOf
    <3>7. RoleInv'
      BY <1>0, <2>1, <3>1, <3>4, <3>5, <3>6
         DEF OwnStep, SandboxInv, RoleInv, Making, v
    <3>8. LinkInv' BY <1>0, <3>1, <3>2, NamesOK DEF LinkInv, TypeOK
    <3> QED BY <3>3, <3>7, <3>8 DEF SandboxInv
  <2> QED BY <2>4, <2>5
<1>9. ASSUME NEW p \in Procs, CreateVxlan(p) PROVE SandboxInv' /\ LinkInv'
  <2>1. OwnStep(p) BY <1>9, OwnSteps
  <2> DEFINE v == sbox[req[p]]
  <2>2. /\ req[p] \in Containers /\ Sbox(req[p]) = v /\ v \in VNIs /\ daemon = "up"
    BY <2>1, Serving DEF OwnStep
  <2>3. v \in VNIs BY <2>2
  <2> HIDE DEF v
  <2>4. /\ UNCHANGED <<nsFile, link, sandboxes, torn, monitored, daemon>>
        /\ \A w \in VNIs : vxlan'[w] = "sandbox" <=> vxlan[w] = "sandbox"
    BY <1>9, <2>2 DEF CreateVxlan, memory, history, TypeOK
  <2>5. /\ pc[p] = "createVxlan" /\ pc'[p] \in {"moveVxlan", "idle"}
        /\ pc'[p] = "moveVxlan" => req'[p] = req[p]
    BY <1>9, Shapes DEF Ends, GoesOn, TypeOK
  <2>6. \A w \in sandboxes \cup torn : w \in VNIs BY DEF TypeOK
  <2>7. MapInv' BY <1>0, <2>4 DEF SandboxInv, MapInv
  <2>8. RoleInv'
    <3>1. \A q \in Procs : pc'[q] \in Making \cup {"destroy"} =>
            /\ req'[q] = req[q] /\ (pc[q] \in Making <=> pc'[q] \in Making)
            /\ pc[q] = "destroy" <=> pc'[q] = "destroy"
      BY <2>1, <2>5 DEF OwnStep, Making
    <3>2. \A q \in Procs : pc[q] # "idle" => sbox[req[q]] \in VNIs BY Serving
    <3>3. \A q \in Procs : RoleOf(q)'
      BY <1>0, <2>4, <3>1, <3>2 DEF SandboxInv, RoleInv, RoleOf, Making
    <3> QED BY <1>0, <3>1, <3>3 DEF SandboxInv, RoleInv, Making
  <2>9. LinkInv' BY <1>0, <2>4, NamesOK DEF LinkInv
  <2> QED BY <2>7, <2>8, <2>9 DEF SandboxInv
<1>10. ASSUME NEW p \in Procs, MoveVxlan(p) PROVE SandboxInv' /\ LinkInv'
  <2>1. OwnStep(p) BY <1>10, OwnSteps
  <2> DEFINE v == sbox[req[p]]
  <2>2. /\ req[p] \in Containers /\ Sbox(req[p]) = v /\ v \in VNIs /\ daemon = "up"
    BY <2>1, Serving DEF OwnStep
  <2>3. v \in VNIs BY <2>2
  <2> HIDE DEF v
  <2>4. /\ UNCHANGED <<nsFile, link, sandboxes, torn, monitored, daemon>>
        /\ vxlan' = vxlan \/ vxlan' = [vxlan EXCEPT ![v] = "sandbox"]
    BY <1>10, <2>2 DEF MoveVxlan, memory, history, TypeOK
  <2>5. pc[p] = "moveVxlan" /\ pc'[p] \in {"startDNS", "idle"}
    BY <1>10, Shapes DEF Ends, GoesOn, TypeOK
  <2>6. v \in sandboxes /\ v \notin monitored \cup torn
    BY <2>5 DEF SandboxInv, RoleInv, RoleOf, Making, v
  <2>7. MapInv' BY <1>0, <2>3, <2>4, <2>6 DEF SandboxInv, MapInv, TypeOK
  <2>8. RoleInv'
    <3>1. \A q \in Procs \ {p} : pc[q] \in Making => sbox[req[q]] # v
      BY <2>5 DEF SandboxInv, RoleInv, Making, v
    <3>2. \A q \in Procs : pc[q] # "idle" => sbox[req[q]] \in VNIs BY Serving
    <3>3. \A q \in Procs \ {p} : RoleOf(q)'
      BY <1>0, <2>1, <2>3, <2>4, <2>6, <3>1, <3>2
         DEF OwnStep, SandboxInv, RoleInv, RoleOf, Making, TypeOK
    <3>4. RoleOf(p)' BY <2>5 DEF RoleOf, Making
    <3> QED BY <1>0, <2>1, <2>5, <3>3, <3>4 DEF OwnStep, SandboxInv, RoleInv, Making
  <2>9. LinkInv' BY <1>0, <2>3, <2>4, NamesOK DEF LinkInv, TypeOK
  <2> QED BY <2>7, <2>8, <2>9 DEF SandboxInv
<1>11. ASSUME NEW p \in Procs, StartDNSServer(p) PROVE SandboxInv' /\ LinkInv'
  <2>1. OwnStep(p) BY <1>11, OwnSteps
  <2>2. /\ UNCHANGED <<nsFile, vxlan, sandboxes, torn, monitored, daemon>>
        /\ \A c \in Containers : link'[c] \in {link[c], Nil}
    BY <1>11 DEF StartDNSServer, fixed, disk, memory, TypeOK
  <2>3. pc'[p] \notin Making \cup {"destroy"}
    BY <1>11, Shapes DEF Ends, GoesOn, Fails, Making, TypeOK
  <2>4. QuietStep BY <1>0, <2>1, <2>2, <2>3 DEF QuietStep, OwnStep, Making
  <2> QED BY <2>4, QuietSandbox
<1>12. ASSUME NEW p \in Procs, Attach(p) PROVE SandboxInv' /\ LinkInv'
  <2>1. OwnStep(p) BY <1>12, OwnSteps
  <2> DEFINE v == sbox[req[p]]
  <2>2. /\ req[p] \in Containers /\ Sbox(req[p]) = v /\ v \in VNIs /\ daemon = "up"
    BY <2>1, Serving DEF OwnStep
  <2>3. v \in VNIs BY <2>2
  <2> HIDE DEF v
  <2>4. PICK i \in 0..5 : i <= Reach(p) /\ SetUpTo(p, i) 
    BY <1>12 DEF Attach, Reach
  <2>5. pc'[p] \in {"idle", "record"} /\ ~Locked(v) /\ daemon' = daemon
    <3>1. pc'[p] \in {"idle", "record"}
      BY <1>12, Shapes DEF Ends, GoesOn, Fails, TypeOK
    <3> QED BY <1>12, <2>2, <3>1 DEF Attach, SetUpTo, FailedAnswer
  <2>6. \A q \in Procs : pc[q] = "destroy" => sbox[req[q]] # v
    BY <2>5, Serving DEF Locked
  <2>7. CASE i < 2
    <3>1. UNCHANGED <<nsFile, vxlan, link, sandboxes, torn, monitored>>
      BY <2>7, <2>4 DEF SetUpTo
    <3>2. QuietStep BY <1>0, <2>1, <2>5, <3>1 DEF QuietStep, OwnStep, Making
    <3> QED BY <3>2, QuietSandbox
  <2>8. CASE i >= 2
    <3>1. v \in sandboxes /\ vxlan[v] = "sandbox" /\ nsFile[v] = "mounted"
      BY <2>2, <2>4, <2>8 DEF Reach
    <3>2. v \notin torn BY <2>3, <3>1 DEF SandboxInv, MapInv
    <3>3. /\ monitored' = monitored \cup {v} /\ UNCHANGED <<nsFile, vxlan, sandboxes, torn>>
          /\ link' = link \/ link' = [link EXCEPT ![req[p]] = ip[p]]
      BY <2>2, <2>4, <2>8 DEF SetUpTo
    <3>4. MapInv' BY <1>0, <2>5, <3>1, <3>3 DEF SandboxInv, MapInv
    <3>5. \A c \in Containers : link'[c] # Nil => link[c] # Nil \/ sbox[c] = v
      BY <3>3 DEF v, TypeOK
    <3>6. \A q \in Procs \ {p} : RoleOf(q)'
      BY <1>0, <2>1, <2>6, <3>1, <3>3, <3>5 DEF OwnStep, SandboxInv, RoleInv, RoleOf
    <3>7. RoleOf(p)' BY <2>5 DEF RoleOf, Making
    <3>8. RoleInv'
      BY <1>0, <2>1, <2>5, <3>6, <3>7 DEF OwnStep, SandboxInv, RoleInv, Making
    <3>9. LinkInv' BY <1>0, <2>5, <3>1, <3>2, <3>3, <3>5 DEF LinkInv
    <3> QED BY <3>4, <3>8, <3>9 DEF SandboxInv
  <2> QED BY <2>7, <2>8, <2>4
<1>13. ASSUME NEW p \in Procs, CreateRecord(p) PROVE SandboxInv' /\ LinkInv'
  <2>1. OwnStep(p) BY <1>13, OwnSteps
  <2>2. /\ UNCHANGED <<nsFile, vxlan, sandboxes, torn, monitored, daemon>>
        /\ \A c \in Containers : link'[c] \in {link[c], Nil}
    BY <1>13 DEF CreateRecord, fixed, disk, memory, TypeOK
  <2>3. pc'[p] \notin Making \cup {"destroy"}
    BY <1>13, Shapes DEF Ends, GoesOn, Fails, Making, TypeOK
  <2>4. QuietStep BY <1>0, <2>1, <2>2, <2>3 DEF QuietStep, OwnStep, Making
  <2> QED BY <2>4, QuietSandbox
<1>14. ASSUME NEW p \in Procs, GetRecord(p) PROVE SandboxInv' /\ LinkInv'
  <2>1. OwnStep(p) BY <1>14, OwnSteps
  <2>2. /\ UNCHANGED <<nsFile, vxlan, sandboxes, torn, monitored, daemon>>
        /\ \A c \in Containers : link'[c] \in {link[c], Nil}
    BY <1>14 DEF GetRecord, fixed, disk, memory, TypeOK
  <2>3. pc'[p] \notin Making \cup {"destroy"}
    BY <1>14, Shapes DEF Ends, GoesOn, Fails, Making, TypeOK
  <2>4. QuietStep BY <1>0, <2>1, <2>2, <2>3 DEF QuietStep, OwnStep, Making
  <2> QED BY <2>4, QuietSandbox
<1>15. ASSUME NEW p \in Procs, DeleteLink(p) PROVE SandboxInv' /\ LinkInv'
  <2>1. OwnStep(p) BY <1>15, OwnSteps
  <2>2. /\ UNCHANGED <<nsFile, vxlan, sandboxes, torn, monitored, daemon>>
        /\ \A c \in Containers : link'[c] \in {link[c], Nil}
    BY <1>15 DEF DeleteLink, fixed, disk, memory, TypeOK
  <2>3. pc'[p] \notin Making \cup {"destroy"}
    BY <1>15, Shapes DEF Ends, GoesOn, Fails, Making, TypeOK
  <2>4. QuietStep BY <1>0, <2>1, <2>2, <2>3 DEF QuietStep, OwnStep, Making
  <2> QED BY <2>4, QuietSandbox
<1>16. ASSUME NEW p \in Procs, CleanupSandbox(p) PROVE SandboxInv' /\ LinkInv'
  <2>1. OwnStep(p) BY <1>16, OwnSteps
  <2> DEFINE v == sbox[req[p]]
  <2>2. /\ req[p] \in Containers /\ Sbox(req[p]) = v /\ v \in VNIs /\ daemon = "up"
    BY <2>1, Serving DEF OwnStep
  <2>3. v \in VNIs BY <2>2
  <2> HIDE DEF v
  <2>4. /\ UNCHANGED <<nsFile, link, sandboxes, torn, monitored, daemon>> /\ ~Locked(v)
        /\ \A w \in VNIs : vxlan'[w] = "sandbox" => vxlan[w] = "sandbox"
    BY <1>16, <2>2 DEF CleanupSandbox, memory, TypeOK
  <2>5. \A q \in Procs : pc[q] = "destroy" => sbox[req[q]] # v
    BY <2>4, Serving DEF Locked
  <2>6. \/ pc'[p] = "unrecord" /\ vxlan' = vxlan
        \/ /\ pc'[p] = "destroy" /\ req'[p] = req[p] /\ ~InUse(v)
           /\ vxlan' = [vxlan EXCEPT ![v] = IF @ = "sandbox" THEN "none" ELSE @]
    BY <1>16, <2>2, Shapes DEF CleanupSandbox, GoesOn, TypeOK
  <2>7. MapInv' BY <1>0, <2>4 DEF SandboxInv, MapInv
  <2>8. RoleInv'
    <3>1. \A q \in Procs : pc[q] # "idle" => sbox[req[q]] \in VNIs BY Serving
    <3>2. \A q \in Procs \ {p} : RoleOf(q)'
      BY <1>0, <2>1, <2>4, <3>1 DEF OwnStep, SandboxInv, RoleInv, RoleOf, Making
    <3>3. RoleOf(p)'
      BY <1>0, <2>3, <2>4, <2>6, NamesOK DEF RoleOf, Making, InUse, TypeOK, v
    <3> QED BY <1>0, <2>1, <2>5, <2>6, <3>2, <3>3
       DEF OwnStep, SandboxInv, RoleInv, Making, v
  <2>9. LinkInv'
    <3>1. ASSUME NEW c \in Containers, link[c] # Nil
          PROVE  vxlan'[sbox[c]] = vxlan[sbox[c]]
      BY <2>3, <2>6, <3>1, NamesOK DEF InUse, TypeOK
    <3> QED BY <1>0, <2>4, <3>1 DEF LinkInv
  <2> QED BY <2>7, <2>8, <2>9 DEF SandboxInv
<1>17. ASSUME NEW p \in Procs, DestroySandbox(p) PROVE SandboxInv' /\ LinkInv'
  <2>1. OwnStep(p) BY <1>17, OwnSteps
  <2> DEFINE v == sbox[req[p]]
  <2>2. /\ req[p] \in Containers /\ Sbox(req[p]) = v /\ v \in VNIs /\ daemon = "up"
    BY <2>1, Serving DEF OwnStep
  <2>3. v \in VNIs BY <2>2
  <2> HIDE DEF v
  <2>4. /\ UNCHANGED <<vxlan, link, torn, daemon>>
        /\ pc[p] = "destroy" /\ pc'[p] \in {"unrecord", "idle"}
    BY <1>17, Shapes DEF DestroySandbox, history, Ends, GoesOn, TypeOK
  <2>5. CASE ~CanDestroy(v)
    <3>1. UNCHANGED <<sandboxes, monitored>> /\ \A w \in VNIs : nsFile'[w] = nsFile[w]
      BY <1>17, <2>2, <2>5 DEF DestroySandbox
    <3>2. nsFile' = nsFile BY <1>17, <3>1 DEF DestroySandbox, TypeOK
    <3>3. QuietStep BY <1>0, <2>1, <2>4, <3>1, <3>2 DEF QuietStep, OwnStep, Making
    <3> QED BY <3>3, QuietSandbox
  <2>6. CASE CanDestroy(v)
    <3>1. /\ sandboxes' = sandboxes \ {v} /\ monitored' = monitored \ {v}
          /\ \A w \in VNIs \ {v} : nsFile'[w] = nsFile[w]
      BY <1>17, <2>2, <2>6 DEF DestroySandbox
    <3>2. v \in monitored /\ v \notin torn /\ vxlan[v] # "sandbox"
      BY <2>4, <2>6 DEF CanDestroy, SandboxInv, RoleInv, RoleOf, v
    <3>3. \A q \in Procs : pc[q] \in Making => sbox[req[q]] # v
      BY <3>2 DEF SandboxInv, RoleInv, RoleOf
    <3>4. MapInv' BY <1>0, <2>3, <2>4, <3>1, <3>2 DEF SandboxInv, MapInv, TypeOK
    <3>5. \A q \in Procs \ {p} : RoleOf(q)'
      BY <1>0, <2>1, <2>4, <3>1, <3>3 DEF OwnStep, SandboxInv, RoleInv, RoleOf
    <3>6. RoleOf(p)' BY <2>4 DEF RoleOf, Making
    <3>7. RoleInv'
      BY <1>0, <2>1, <2>4, <3>5, <3>6 DEF OwnStep, SandboxInv, RoleInv, Making
    <3>8. \A c \in Containers : link[c] # Nil => sbox[c] # v
      BY <2>4 DEF SandboxInv, RoleInv, RoleOf, v
    <3>9. LinkInv' BY <1>0, <2>4, <3>1, <3>8, NamesOK DEF LinkInv
    <3> QED BY <3>4, <3>7, <3>9 DEF SandboxInv
  <2> QED BY <2>5, <2>6
<1>18. ASSUME NEW p \in Procs, DeleteRecord(p) PROVE SandboxInv' /\ LinkInv'
  <2>1. OwnStep(p) BY <1>18, OwnSteps
  <2>2. /\ UNCHANGED <<nsFile, vxlan, sandboxes, torn, monitored, daemon>>
        /\ \A c \in Containers : link'[c] \in {link[c], Nil}
    BY <1>18 DEF DeleteRecord, fixed, disk, memory, TypeOK
  <2>3. pc'[p] \notin Making \cup {"destroy"}
    BY <1>18, Shapes DEF Ends, GoesOn, Fails, Making, TypeOK
  <2>4. QuietStep BY <1>0, <2>1, <2>2, <2>3 DEF QuietStep, OwnStep, Making
  <2> QED BY <2>4, QuietSandbox
<1>19. ASSUME NEW p \in Procs, ReleaseIP(p) PROVE SandboxInv' /\ LinkInv'
  <2>1. OwnStep(p) BY <1>19, OwnSteps
  <2>2. /\ UNCHANGED <<nsFile, vxlan, sandboxes, torn, monitored, daemon>>
        /\ \A c \in Containers : link'[c] \in {link[c], Nil}
    BY <1>19 DEF ReleaseIP, fixed, disk, memory, TypeOK
  <2>3. pc'[p] \notin Making \cup {"destroy"}
    BY <1>19, Shapes DEF Ends, GoesOn, Fails, Making, TypeOK
  <2>4. QuietStep BY <1>0, <2>1, <2>2, <2>3 DEF QuietStep, OwnStep, Making
  <2> QED BY <2>4, QuietSandbox
<1>20. ASSUME NEW p \in Procs, FailedCreate(p), FailedAnswer(p)
       PROVE  SandboxInv' /\ LinkInv'
  <2>1. OwnStep(p) BY <1>20, OwnSteps
  <2> DEFINE v == sbox[req[p]]
  <2>2. /\ req[p] \in Containers /\ Sbox(req[p]) = v /\ v \in VNIs /\ daemon = "up"
    BY <2>1, Serving DEF OwnStep
  <2>3. v \in VNIs BY <2>2
  <2> HIDE DEF v
  <2>4. pc'[p] = "idle" /\ UNCHANGED <<vxlan, link, torn, monitored, daemon>>
    BY <1>20, Shapes DEF FailedCreate, FailedAnswer, Ends, Fails, TypeOK
  <2>5. CASE ~CanCreate(v)
    <3>1. UNCHANGED <<nsFile, sandboxes>> BY <1>20, <2>2, <2>5 DEF FailedCreate
    <3>2. QuietStep BY <1>0, <2>1, <2>4, <3>1 DEF QuietStep, OwnStep, Making
    <3> QED BY <3>2, QuietSandbox
  <2>6. CASE CanCreate(v)
    <3>1. /\ \/ sandboxes' = sandboxes
             \/ sandboxes' = sandboxes \cup {v} /\ nsFile'[v] = "mounted"
          /\ \A w \in VNIs \ {v} : nsFile'[w] = nsFile[w]
      BY <1>20, <2>2 DEF FailedCreate, TypeOK
    <3>2. /\ v \notin sandboxes \cup monitored \cup torn /\ vxlan[v] # "sandbox" /\ nsFile[v] = "none"
      BY <2>3, <2>6 DEF CanCreate, SandboxInv, MapInv, TypeOK
    <3>3. MapInv' BY <1>0, <2>2, <2>4, <3>1, <3>2 DEF SandboxInv, MapInv, TypeOK
    <3>4. \A q \in Procs \ {p} : RoleOf(q)'
      BY <1>0, <2>1, <2>4, <3>1 DEF OwnStep, SandboxInv, RoleInv, RoleOf
    <3>5. RoleInv'
      BY <1>0, <2>1, <2>4, <3>4 DEF OwnStep, SandboxInv, RoleInv, RoleOf, Making
    <3>6. LinkInv' BY <1>0, <2>4, <3>1, <3>2, NamesOK DEF LinkInv, TypeOK
    <3> QED BY <3>3, <3>5, <3>6 DEF SandboxInv
  <2> QED BY <2>5, <2>6
<1>21. ASSUME NEW p \in Procs, FailedStartDNS(p), FailedAnswer(p)
       PROVE  SandboxInv' /\ LinkInv'
  <2>1. OwnStep(p) BY <1>21, OwnSteps
  <2>2. /\ UNCHANGED <<nsFile, vxlan, sandboxes, torn, monitored, daemon>>
        /\ \A c \in Containers : link'[c] \in {link[c], Nil}
    BY <1>21 DEF FailedStartDNS, FailedAnswer, Trouble, fixed, disk, memory, TypeOK
  <2>3. pc'[p] \notin Making \cup {"destroy"}
    BY <1>21, Shapes DEF Ends, GoesOn, Fails, Making, TypeOK
  <2>4. QuietStep BY <1>0, <2>1, <2>2, <2>3 DEF QuietStep, OwnStep, Making
  <2> QED BY <2>4, QuietSandbox
<1>22. ASSUME NEW p \in Procs, FailedAttach(p), FailedAnswer(p)
       PROVE  SandboxInv' /\ LinkInv'
  <2>1. OwnStep(p) BY <1>22, OwnSteps
  <2> DEFINE v == sbox[req[p]]
  <2>2. /\ req[p] \in Containers /\ Sbox(req[p]) = v /\ v \in VNIs /\ daemon = "up"
    BY <2>1, Serving DEF OwnStep
  <2>3. v \in VNIs BY <2>2
  <2> HIDE DEF v
  <2>4. PICK i \in 0..5 : i <= Reach(p) /\ SetUpTo(p, i) 
    BY <1>22 DEF FailedAttach, Reach
  <2>5. pc'[p] \in {"idle", "record"} /\ ~Locked(v) /\ daemon' = daemon
    <3>1. pc'[p] \in {"idle", "record"}
      BY <1>22, Shapes DEF Ends, GoesOn, Fails, TypeOK
    <3> QED BY <1>22, <2>2, <3>1 DEF FailedAttach, SetUpTo, FailedAnswer
  <2>6. \A q \in Procs : pc[q] = "destroy" => sbox[req[q]] # v
    BY <2>5, Serving DEF Locked
  <2>7. CASE i < 2
    <3>1. UNCHANGED <<nsFile, vxlan, link, sandboxes, torn, monitored>>
      BY <2>7, <2>4 DEF SetUpTo
    <3>2. QuietStep BY <1>0, <2>1, <2>5, <3>1 DEF QuietStep, OwnStep, Making
    <3> QED BY <3>2, QuietSandbox
  <2>8. CASE i >= 2
    <3>1. v \in sandboxes /\ vxlan[v] = "sandbox" /\ nsFile[v] = "mounted"
      BY <2>2, <2>4, <2>8 DEF Reach
    <3>2. v \notin torn BY <2>3, <3>1 DEF SandboxInv, MapInv
    <3>3. /\ monitored' = monitored \cup {v} /\ UNCHANGED <<nsFile, vxlan, sandboxes, torn>>
          /\ link' = link \/ link' = [link EXCEPT ![req[p]] = ip[p]]
      BY <2>2, <2>4, <2>8 DEF SetUpTo
    <3>4. MapInv' BY <1>0, <2>5, <3>1, <3>3 DEF SandboxInv, MapInv
    <3>5. \A c \in Containers : link'[c] # Nil => link[c] # Nil \/ sbox[c] = v
      BY <3>3 DEF v, TypeOK
    <3>6. \A q \in Procs \ {p} : RoleOf(q)'
      BY <1>0, <2>1, <2>6, <3>1, <3>3, <3>5 DEF OwnStep, SandboxInv, RoleInv, RoleOf
    <3>7. RoleOf(p)' BY <2>5 DEF RoleOf, Making
    <3>8. RoleInv'
      BY <1>0, <2>1, <2>5, <3>6, <3>7 DEF OwnStep, SandboxInv, RoleInv, Making
    <3>9. LinkInv' BY <1>0, <2>5, <3>1, <3>2, <3>3, <3>5 DEF LinkInv
    <3> QED BY <3>4, <3>8, <3>9 DEF SandboxInv
  <2> QED BY <2>7, <2>8, <2>4
<1>23. ASSUME NEW p \in Procs, FailedDestroy(p), FailedAnswer(p)
       PROVE  SandboxInv' /\ LinkInv'
  <2>1. OwnStep(p) BY <1>23, OwnSteps
  <2> DEFINE v == sbox[req[p]]
  <2>2. /\ req[p] \in Containers /\ Sbox(req[p]) = v /\ v \in VNIs /\ daemon = "up"
    BY <2>1, Serving DEF OwnStep
  <2>3. v \in VNIs BY <2>2
  <2> HIDE DEF v
  <2>4. /\ UNCHANGED <<vxlan, link, sandboxes, daemon>>
        /\ pc[p] = "destroy" /\ pc'[p] = "idle"
    BY <1>23, Shapes DEF FailedDestroy, FailedAnswer, Ends, Fails, TypeOK
  <2>5. CASE UNCHANGED <<nsFile, torn, monitored>>
    <3>1. QuietStep BY <1>0, <2>1, <2>4, <2>5 DEF QuietStep, OwnStep, Making
    <3> QED BY <3>1, QuietSandbox
  <2>6. CASE ~UNCHANGED <<nsFile, torn, monitored>>
    <3>1. /\ torn' = torn \cup {v} /\ monitored' = monitored \ {v} /\ CanDestroy(v)
          /\ \A w \in VNIs \ {v} : nsFile'[w] = nsFile[w]
      BY <1>23, <2>2, <2>6 DEF FailedDestroy, TypeOK
    <3>2. v \in monitored /\ v \notin torn /\ vxlan[v] # "sandbox"
      BY <2>4, <3>1 DEF CanDestroy, SandboxInv, RoleInv, RoleOf, v
    <3>3. \A q \in Procs : pc[q] \in Making => sbox[req[q]] # v
      BY <3>2 DEF SandboxInv, RoleInv, RoleOf
    <3>4. MapInv' BY <1>0, <2>3, <2>4, <3>1, <3>2 DEF SandboxInv, MapInv, TypeOK
    <3>5. \A q \in Procs \ {p} : RoleOf(q)'
      BY <1>0, <2>1, <2>4, <3>1, <3>3 DEF OwnStep, SandboxInv, RoleInv, RoleOf
    <3>6. RoleOf(p)' BY <2>4 DEF RoleOf, Making
    <3>7. RoleInv'
      BY <1>0, <2>1, <2>4, <3>5, <3>6 DEF OwnStep, SandboxInv, RoleInv, Making
    <3>8. \A c \in Containers : link[c] # Nil => sbox[c] # v
      BY <2>4 DEF SandboxInv, RoleInv, RoleOf, v
    <3>9. LinkInv' BY <1>0, <2>4, <3>1, <3>8, NamesOK DEF LinkInv
    <3> QED BY <3>4, <3>7, <3>9 DEF SandboxInv
  <2> QED BY <2>5, <2>6
<1>24. ASSUME NEW p \in Procs, FailedStore(p), FailedAnswer(p)
       PROVE  SandboxInv' /\ LinkInv'
  <2>1. OwnStep(p) BY <1>24, OwnSteps
  <2>2. /\ UNCHANGED <<nsFile, vxlan, sandboxes, torn, monitored, daemon>>
        /\ \A c \in Containers : link'[c] \in {link[c], Nil}
    BY <1>24 DEF FailedStore, FailedAnswer, Trouble, fixed, disk, memory, TypeOK
  <2>3. pc'[p] \notin Making \cup {"destroy"}
    BY <1>24, Shapes DEF Ends, GoesOn, Fails, Making, TypeOK
  <2>4. QuietStep BY <1>0, <2>1, <2>2, <2>3 DEF QuietStep, OwnStep, Making
  <2> QED BY <2>4, QuietSandbox
<1>25. ASSUME NEW p \in Procs, FailedCleanly(p), FailedAnswer(p)
       PROVE  SandboxInv' /\ LinkInv'
  <2>1. OwnStep(p) BY <1>25, OwnSteps
  <2>2. /\ UNCHANGED <<nsFile, vxlan, sandboxes, torn, monitored, daemon>>
        /\ \A c \in Containers : link'[c] \in {link[c], Nil}
    BY <1>25 DEF FailedCleanly, FailedAnswer, Trouble, fixed, disk, memory, TypeOK
  <2>3. pc'[p] \notin Making \cup {"destroy"}
    BY <1>25, Shapes DEF Ends, GoesOn, Fails, Making, TypeOK
  <2>4. QuietStep BY <1>0, <2>1, <2>2, <2>3 DEF QuietStep, OwnStep, Making
  <2> QED BY <2>4, QuietSandbox
<1>26. CASE Crash
  <2>1. RoleInv' BY <1>26 DEF Crash, RoleInv, RoleOf, Making
  <2>2. MapInv' BY <1>0, <1>26 DEF Crash, MapInv, TypeOK
  <2>3. LinkInv'
    <3>1. ASSUME NEW c \in Containers, link'[c] # Nil
          PROVE  nsFile'[sbox[c]] = "mounted" /\ vxlan'[sbox[c]] = "sandbox"
      <4>1. sbox[c] \in VNIs /\ Sbox(c) = sbox[c] BY NamesOK
      <4>2. nsFile'[sbox[c]] = "mounted" /\ link[c] # Nil
        BY <1>26, <3>1, <4>1 DEF Crash
      <4>3. vxlan[sbox[c]] = "sandbox" BY <4>2 DEF LinkInv
      <4> QED BY <1>26, <4>1, <4>2, <4>3 DEF Crash
    <3>2. daemon' = "down" BY <1>26 DEF Crash
    <3> QED BY <1>0, <3>1, <3>2 DEF LinkInv
  <2> QED BY <2>1, <2>2, <2>3 DEF SandboxInv
<1>27. CASE Start
  <2>1. \A q \in Procs : pc'[q] = "idle"
    BY <1>27 DEF Start, procs, ServeInv, ServeOf, TypeOK
  <2>2. UNCHANGED <<nsFile, vxlan, link, torn>> /\ torn = {}
    BY <1>27 DEF Start, disk, SandboxInv, MapInv, TypeOK
  <2>3. MapInv'
    BY <1>0, <1>27, <2>2
       DEF Start, OnDisk, Reloads, Reloadable, SandboxInv, MapInv, TypeOK
  <2>4. RoleInv' BY <2>1 DEF RoleInv, RoleOf, Making
  <2>5. LinkInv'
    BY <1>0, <1>27, <2>2, NamesOK DEF Start, OnDisk, Reloads, Reloadable, LinkInv
  <2> QED BY <2>3, <2>4, <2>5 DEF SandboxInv
<1> QED BY <1>1, <1>2, <1>3, <1>4, <1>5, <1>6, <1>7, <1>8, <1>9, <1>10, <1>11, <1>12,
     <1>13, <1>14, <1>15, <1>16, <1>17, <1>18, <1>19, <1>20, <1>21, <1>22, <1>23,
     <1>24, <1>25, <1>26, <1>27, Steps

-----------------------------------------------------------------------------
(* Subnets. *)

\* The block of s addresses that a lies in.
LEMMA Block ==
  ASSUME NEW a \in Nat, NEW s \in Nat \ {0}
  PROVE  a \div s \in Nat /\ (a \div s) * s <= a /\ a < (a \div s) * s + s
OBVIOUS

\* A common factor can be left out.
LEMMA MulLess ==
  ASSUME NEW x \in Int, NEW y \in Int, NEW s \in Nat \ {0}, x * s < y * s
  PROVE  x < y
OBVIOUS

\* Multiplication by a natural number is monotonic.
LEMMA MulLeq ==
  ASSUME NEW x \in Int, NEW y \in Int, NEW s \in Nat, x <= y
  PROVE  x * s <= y * s
OBVIOUS

\* Quotient and remainder.
LEMMA DivMod ==
  ASSUME NEW a \in Nat, NEW s \in Nat \ {0}
  PROVE  a \div s \in Nat /\ a = ((a \div s) * s) + (a % s)
OBVIOUS

\* Associativity and distributivity as the proofs below use them.
LEMMA Grouping ==
  ASSUME NEW x \in Int, NEW y \in Int, NEW z \in Int
  PROVE  x * (y * z) = (x * y) * z /\ (x + 1) * z = (x * z) + z
OBVIOUS

\* A masked address is its own mask.
LEMMA MaskedTwice ==
  ASSUME NEW a \in Nat, NEW s \in Nat \ {0}
  PROVE  ((a \div s) * s) \div s = a \div s
<1> DEFINE n == a \div s
           m == (n * s) \div s
<1>1. n \in Nat /\ n * s \in Nat BY Block
<1>2. m \in Nat /\ m * s <= n * s /\ n * s < (m * s) + s BY <1>1, Block
<1>3. n * s < (m + 1) * s BY <1>1, <1>2, Grouping
<1> HIDE DEF n, m
<1>4. n < m + 1 BY <1>1, <1>2, <1>3, MulLess
<1>5. ~(n < m)
  <2>1. SUFFICES ASSUME n + 1 <= m PROVE FALSE BY <1>1, <1>2
  <2>2. (n + 1) * s <= m * s BY <1>1, <1>2, <2>1, MulLeq
  <2>3. (n + 1) * s = (n * s) + s BY <1>1, Grouping
  <2>4. m * s \in Int BY <1>2
  <2> QED BY <1>1, <1>2, <2>2, <2>3, <2>4
<1>6. n = m BY <1>1, <1>2, <1>4, <1>5
<1> QED BY <1>6 DEF n, m

\* Of two blocks that share an address, one of which has a multiple of the
\* other's size, the larger contains the smaller.
LEMMA BlocksNest ==
  ASSUME NEW a \in Nat, NEW s \in Nat \ {0}, NEW t \in Nat \ {0}, t % s = 0
  PROVE  /\ (a \div t) * t <= (a \div s) * s
         /\ ((a \div s) * s) + s <= ((a \div t) * t) + t
<1> DEFINE k == t \div s
           m == a \div s
           n == a \div t
<1>1. k \in Nat /\ t = k * s BY DivMod
<1>2. /\ m \in Nat /\ m * s <= a /\ a < (m * s) + s
      /\ n \in Nat /\ n * t <= a /\ a < (n * t) + t
  BY Block
<1> HIDE DEF k, m, n
<1>3. n * t = (n * k) * s /\ (n + 1) * t = ((n + 1) * k) * s
  BY <1>1, <1>2, Grouping
<1>4. (m + 1) * s = (m * s) + s /\ (n + 1) * t = (n * t) + t BY <1>2, Grouping
<1>5. n * k \in Nat /\ (n + 1) * k \in Nat /\ m * s \in Nat /\ n * t \in Nat
  BY <1>1, <1>2
<1>6. n * k <= m
  <2>1. (n * k) * s < (m + 1) * s BY <1>2, <1>3, <1>4, <1>5
  <2>2. n * k < m + 1 BY <1>2, <1>5, <2>1, MulLess
  <2> QED BY <1>2, <1>5, <2>2
<1>7. m + 1 <= (n + 1) * k
  <2>1. m * s < ((n + 1) * k) * s BY <1>2, <1>3, <1>4, <1>5
  <2>2. m < (n + 1) * k BY <1>2, <1>5, <2>1, MulLess
  <2> QED BY <1>2, <1>5, <2>2
<1>8. (n * k) * s <= m * s BY <1>2, <1>5, <1>6, MulLeq
<1>9. (m + 1) * s <= ((n + 1) * k) * s BY <1>2, <1>5, <1>7, MulLeq
<1>10. n * t <= m * s BY <1>3, <1>8
<1>11. (m * s) + s <= (n * t) + t BY <1>3, <1>4, <1>9
<1> QED BY <1>10, <1>11 DEF m, n

\* What main's check and ParseAndValidate establish together.
LEMMA AcceptedIsSane ==
  ASSUME file \in Files, Accepted(file)
  PROVE  /\ Conf.LocalSubnet.ip \in Addresses(Conf.OverlayNetwork)
         /\ Conf.OverlayDNSAddress \in Addresses(Conf.OverlayNetwork)
         /\ \/ Addresses(Conf.LocalSubnet) \subseteq Addresses(Conf.OverlayNetwork)
            \/ Addresses(Conf.OverlayNetwork) \subseteq Addresses(Conf.LocalSubnet)
<1> DEFINE a == file.LocalSubnet.ip + file.LocalSubnet.step * file.Index
           s == file.LocalSubnet.size
           o == file.OverlayNetwork.ip
           t == file.OverlayNetwork.size
           d == file.OverlayDNSAddress
<1>1. /\ file.LocalSubnet \in Subnets /\ file.OverlayNetwork \in Subnets
      /\ file.Index \in Int /\ IndexTop \in Nat /\ d \in Nat
      /\ s % t = 0 \/ t % s = 0
  BY MaskAssumption DEF MaskAssumption
<1>2. Interpolated(file.LocalSubnet, file.Index) # Bad BY DEF Accepted, Valid
<1>3. Conf.LocalSubnet = [ip |-> a, size |-> s]
  BY <1>2 DEF Conf, ParseAndValidate, Interpolated
<1>4. a \in Nat /\ s \in Nat \ {0} /\ o \in Nat /\ t \in Nat \ {0}
  <2>1. /\ s \in Nat \ {0} /\ o \in Nat /\ t \in Nat \ {0}
        /\ file.LocalSubnet.ip \in Nat /\ file.LocalSubnet.step \in Nat
    BY <1>1 DEF Subnets
  <2>2. file.LocalSubnet.step = 0 \/ file.Index \in Nat
    BY <1>1, <1>2, <2>1 DEF Interpolated
  <2>3. file.LocalSubnet.step * file.Index \in Nat BY <1>1, <2>1, <2>2
  <2> QED BY <2>1, <2>3
<1>5. Conf.OverlayNetwork = [ip |-> (o \div t) * t, size |-> t] /\ Conf.OverlayDNSAddress = d
  BY DEF Conf, ParseAndValidate, Masked
<1>6. /\ a \div t = ((o \div t) * t) \div t
      /\ d \div t = ((o \div t) * t) \div t
  <2>1. Contains(Masked(file.OverlayNetwork), d) BY DEF Accepted, Valid
  <2>2. Contains(Conf.OverlayNetwork, Conf.LocalSubnet.ip) BY DEF Accepted, Conf
  <2> QED BY <1>3, <1>5, <2>1, <2>2 DEF Contains, Masked
<1> HIDE DEF a, s, o, t, d
<1>7. ((o \div t) * t) \div t = o \div t BY <1>4, MaskedTwice
<1>8. Addresses(Conf.LocalSubnet) = ((a \div s) * s)..(((a \div s) * s) + s - 1)
  BY <1>3 DEF Addresses, Masked
<1>9. Addresses(Conf.OverlayNetwork) = ((a \div t) * t)..(((a \div t) * t) + t - 1)
  BY <1>5, <1>6, <1>7 DEF Addresses, Masked
<1>10. /\ (a \div t) * t <= a /\ a < ((a \div t) * t) + t
      /\ (d \div t) * t <= d /\ d < ((d \div t) * t) + t
      /\ (a \div t) * t \in Nat /\ (a \div s) * s \in Nat
  BY <1>1, <1>4, Block
<1>11. a \in Addresses(Conf.OverlayNetwork) /\ d \in Addresses(Conf.OverlayNetwork)
  BY <1>1, <1>4, <1>6, <1>9, <1>10
<1>12. CASE t % s = 0
  <2>1. /\ (a \div t) * t <= (a \div s) * s
        /\ ((a \div s) * s) + s <= ((a \div t) * t) + t
    BY <1>4, <1>12, BlocksNest
  <2> QED BY <1>4, <1>3, <1>5, <1>8, <1>9, <1>10, <1>11, <2>1
<1>13. CASE s % t = 0
  <2>1. /\ (a \div s) * s <= (a \div t) * t
        /\ ((a \div t) * t) + t <= ((a \div s) * s) + s
    BY <1>4, <1>13, BlocksNest
  <2> QED BY <1>4, <1>3, <1>5, <1>8, <1>9, <1>10, <1>11, <2>1
<1> QED BY <1>1, <1>12, <1>13 DEF s, t

-----------------------------------------------------------------------------
(* The theorems. *)

\* The invariant holds at first.
LEMMA InitSafe ==
  ASSUME Init
  PROVE  SafeInv
<1> USE DEF Init
<1>1. TypeOK
  <2>1. spaceOf \in [Containers -> Networks \cup {Missing}]
    BY DaemonAssumption DEF DaemonAssumption
  <2>2. /\ crashes \in 0..MaxCrashes /\ troubles \in crashes..MaxTroubles
        /\ calls \in 0..MaxCalls
    BY DaemonAssumption DEF DaemonAssumption
  <2>3. ProcTypes BY DEF ProcTypes, Results
  <2>4. HostTypes BY <2>1, <2>2 DEF HostTypes
  <2> QED BY <2>3, <2>4, Types
<1>2. AcceptInv /\ ServeInv BY DEF AcceptInv, ServeInv, ServeOf, Holding
<1>3. LeaseInv BY DEF LeaseInv, Holding
<1>4. ProgressInv
  BY DaemonAssumption, <1>1, NamesOK
     DEF ProgressInv, ProgressOf, ToldOf, DaemonAssumption
<1>5. SandboxInv BY DEF SandboxInv, MapInv, RoleInv, RoleOf, Making
<1>6. LinkInv BY DEF LinkInv
<1> QED BY <1>1, <1>2, <1>3, <1>4, <1>5, <1>6 DEF SafeInv

\* Every step keeps it.
LEMMA NextSafe ==
  ASSUME SafeInv, [Next]_vars
  PROVE  SafeInv'
<1>1. CASE Next
  <2> USE <1>1 DEF SafeInv
  <2>1. TypeOK'
    <3>1. ProcTypes' /\ HostTypes' BY ServeStep, HostStep
    <3>2. TypeOK' <=> ProcTypes' /\ HostTypes' BY Types, PTL
    <3> QED BY <3>1, <3>2
  <2>2. AcceptInv' BY AcceptStep
  <2>3. ServeInv' BY ServeStep
  <2>4. LeaseInv' BY LeaseStep
  <2>5. ProgressInv' BY ProgressStep
  <2>6. SandboxInv' /\ LinkInv' BY SandboxStep
  <2> QED BY <2>1, <2>2, <2>3, <2>4, <2>5, <2>6
<1>2. CASE UNCHANGED vars
  <2>1. VNIs' = VNIs BY DEF VNIs
  <2>2. net' = net /\ sbox' = sbox BY <1>2, NamesStay DEF vars
  <2>3. TypeOK' BY <1>2, <2>1 DEF SafeInv, TypeOK, vars
  <2>4. AcceptInv'
    BY <1>2 DEF SafeInv, AcceptInv, vars, Accepted, Readable, Valid, ParseAndValidate,
       Interpolated, Masked, Contains
  <2>5. ServeInv' BY <1>2 DEF SafeInv, ServeInv, ServeOf, vars
  <2>6. LeaseInv' BY <1>2, <2>2 DEF SafeInv, LeaseInv, vars
  <2>7. ProgressInv' BY <1>2, <2>2 DEF SafeInv, ProgressInv, ProgressOf, ToldOf, vars
  <2>8. SandboxInv'
    BY <1>2, <2>1, <2>2 DEF SafeInv, SandboxInv, MapInv, RoleInv, RoleOf, vars
  <2>9. LinkInv' BY <1>2, <2>2 DEF SafeInv, LinkInv, vars
  <2> QED BY <2>3, <2>4, <2>5, <2>6, <2>7, <2>8, <2>9 DEF SafeInv
<1> QED BY <1>1, <1>2

\* The parts of the invariant hold in every behaviour, whatever crashes, fails
\* or is given up.
THEOREM DaemonInvariant == Spec => []SafeInv
<1>1. Init => SafeInv BY InitSafe
<1>2. SafeInv /\ [Next]_vars => SafeInv' BY NextSafe
<1> QED BY <1>1, <1>2, PTL DEF Spec

\* The variables keep their types.
THEOREM DaemonTypes == Spec => []TypeOK
<1>1. SafeInv => TypeOK BY DEF SafeInv
<1> QED BY <1>1, DaemonInvariant, PTL

\* A container that the runtime was told is down, and of which no call was
\* given up, left no record, no link and no lease behind.
THEOREM DownLeavesNothing == Spec => []DownMeansGone
<1>1. SafeInv => DownMeansGone
  BY Finding, NamesOK DEF SafeInv, ProgressInv, ToldOf, DownMeansGone
<1> QED BY <1>1, DaemonInvariant, PTL

\* Until a crash, the address in the record of a container is leased to it, if
\* no call of the container was given up.
THEOREM RecordsAreLeased == Spec => []RecordedIsLeased
<1>1. SafeInv => RecordedIsLeased
  BY NamesOK DEF SafeInv, LeaseInv, RecordedIsLeased, ListContainers
<1> QED BY <1>1, DaemonInvariant, PTL

\* Until a crash, the containers in a sandbox have different addresses, but for
\* those of which a call was given up. The allocator keeps them apart by network
\* and the kernel by VNI: the three bytes of the hash have to tell the networks
\* apart.
THEOREM AddressesDiffer ==
  ASSUME \A m, n \in Networks : Digest[m] = Digest[n] => m = n
  PROVE  Spec => []SandboxAddressesDiffer
<1>1. ASSUME SafeInv PROVE SandboxAddressesDiffer
  <2>1. SUFFICES ASSUME crashes = 0, NEW c \in Containers \ lost, NEW d \in Containers \ lost,
                        c # d, Sbox(c) = Sbox(d), link[c] # Nil, link[c] = link[d]
                 PROVE  FALSE
    BY DEF SandboxAddressesDiffer
  <2>2. net[c] = net[d]
    <3>1. Digest[Net(c)] = Digest[Net(d)] BY <2>1 DEF Sbox, GetVNI
    <3> QED BY <1>1, <3>1, NamesOK DEF SafeInv
  <2>3. lease[net[c]][link[c]] = c /\ lease[net[d]][link[d]] = d
    BY <1>1, <2>1 DEF SafeInv, LeaseInv
  <2> QED BY <2>1, <2>2, <2>3
<1> QED BY <1>1, DaemonInvariant, PTL

\* A daemon that runs has a configuration whose addresses are in the overlay
\* and whose subnets are one inside the other.
THEOREM RunningIsSane == Spec => []StartedConfigIsSane
<1>1. SafeInv => StartedConfigIsSane
  BY AcceptedIsSane DEF SafeInv, AcceptInv, TypeOK, StartedConfigIsSane
<1> QED BY <1>1, DaemonInvariant, PTL
=============================================================================
