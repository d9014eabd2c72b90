------------------------------ MODULE LinksProofs ------------------------------
(***************************************************************************)
(* Proofs about module Links, for any containers, networks, routes and     *)
(* number of faults.                                                       *)
(*                                                                         *)
(* Devices have fixed places: three of each container (its interface, the  *)
(* peer where it is made and where it is moved to) and four of each net.   *)
(* A step is of one container and changes devices at its places and those  *)
(* of its net, so each command is looked at for one container and one net  *)
(* (OtherContainers, OtherNets).                                           *)
(*                                                                         *)
(* The inductive invariant IInv says which devices there can be, what a    *)
(* container has by how its last request ended, how far the running        *)
(* request is by its position in its program, and what is in a sandbox in  *)
(* which no command failed by itself. That last part is what makes         *)
(* failures have a cause: it decides, at each position, that the kernel    *)
(* accepts the command and that each lookup finds what it looks for.       *)
(***************************************************************************)
EXTENDS Links, FiniteSetTheorems, TLAPS

-----------------------------------------------------------------------------
(* Where devices are. *)

\* The interface in the container and its peer, then the devices of a sandbox.
EthOf(c) == <<ContainerNS(c), Eth>>
Made(c) == <<ContainerNS(c), NameSandboxLink(c)>>    \* before it is moved
Port(c) == <<SandboxNS(VNIOf[c]), NameSandboxLink(c)>>
Fresh(v) == <<HostNS, Vxlan(v)>>                     \* before it is moved
VxlanAt(v) == <<SandboxNS(v), Vxlan(v)>>
BridgeAt(v) == <<SandboxNS(v), Bridge(v)>>
DnsAt(v) == <<SandboxNS(v), Dns>>

\* The places of a container, those of a net, and all of them.
OfContainer(c) == {EthOf(c), Made(c), Port(c)}
OfNet(v) == {Fresh(v), VxlanAt(v), BridgeAt(v), DnsAt(v)}
Places == (UNION {OfContainer(c) : c \in Containers})
            \cup (UNION {OfNet(v) : v \in VNIs})

\* What a device is, and whether there is one at x.
DeviceType == [kind : Kinds, of : Containers \cup VNIs \cup {Nil}, up : BOOLEAN,
            master : {Bridge(v) : v \in VNIs} \cup {Nil},
            addrs : SUBSET (Containers \cup {Gateway, DNS}), routes : SUBSET Nat]

Has(x) == x \in DOMAIN dev

-----------------------------------------------------------------------------
(* The inductive invariant. Its first part holds whatever fails.             *)

\* How many routes an ADD installs.
Hops == Len(Routes)

\* Devices are at their places.
DevInv == DOMAIN dev \subseteq Places /\ dev \in [DOMAIN dev -> DeviceType]

\* The program of an ADD has 23 + Hops commands, that of a DEL four.
BaseInv ==
  /\ DevInv
  /\ sandboxes \subseteq VNIs /\ monitored \subseteq sandboxes /\ leaked \subseteq VNIs
  /\ state \in [Containers -> {"out", "up", "addFailed", "delFailed"}]
  /\ who \in Containers \cup {Nil} /\ doing \in {"ADD", "DEL"}
  /\ who = Nil => pos = 0
  /\ who # Nil => pos \in 1..(IF doing = "ADD" THEN 24 + Hops ELSE 5)
  /\ leaked \subseteq faulty
  /\ faulty \subseteq VNIs /\ faults \in 0..MaxFaults

\* A veth device has one peer, a port's master is the bridge.
ContainerShape(c) ==
  /\ \A x \in OfContainer(c) : Has(x) => dev[x].kind = "veth" /\ dev[x].of = c
  /\ Has(EthOf(c)) <=> Has(Made(c)) \/ Has(Port(c))
  /\ ~(Has(Made(c)) /\ Has(Port(c)))
  /\ Has(EthOf(c)) => dev[EthOf(c)].master = Nil
  /\ Has(Made(c)) => dev[Made(c)].master = Nil
  /\ Has(Port(c)) => \/ dev[Port(c)].master = Nil
                     \/ /\ dev[Port(c)].master = Bridge(VNIOf[c])
                        /\ Has(BridgeAt(VNIOf[c]))

\* A net has one vxlan device.
NetShape(v) ==
  /\ \A x \in {Fresh(v), VxlanAt(v)} : Has(x) => dev[x].kind = "vxlan" /\ dev[x].of = v
  /\ Has(BridgeAt(v)) => dev[BridgeAt(v)].kind = "bridge" /\ dev[BridgeAt(v)].master = Nil
  /\ Has(DnsAt(v)) => dev[DnsAt(v)].kind = "dummy"
  /\ ~(Has(Fresh(v)) /\ Has(VxlanAt(v)))
  /\ Has(Fresh(v)) => v \notin monitored /\ dev[Fresh(v)].master = Nil
  /\ \A x \in {VxlanAt(v), DnsAt(v)} :
       Has(x) => \/ dev[x].master = Nil
                 \/ dev[x].master = Bridge(v) /\ Has(BridgeAt(v))

\* What a container that is up has: AttachedIsWired for one container.
Wired(c) ==
  LET v == VNIOf[c] IN
  /\ IsUp(EthOf(c)) /\ dev[EthOf(c)].addrs = {c}
  /\ \A i \in 1..Hops : Routes[i] \in dev[EthOf(c)].routes
  /\ Enslaved(Port(c), Bridge(v)) /\ Enslaved(VxlanAt(v), Bridge(v))

\* What a container has by how its last request ended.
LifeOf(c) ==
  /\ state[c] = "out" /\ who # c => ~Has(EthOf(c))
  /\ state[c] \in {"up", "delFailed"} => ~Has(Made(c))
  /\ state[c] = "up" /\ who # c => Wired(c)

\* The first n routes.
RoutesTo(n) == {Routes[i] : i \in 1..n}

\* How far an ADD is.
AddInv(c) ==
  LET v == VNIOf[c]
      eth == dev[EthOf(c)]
  IN /\ state[c] = "out"
     /\ pos = 2 => v \notin sandboxes
     /\ pos >= 3 => v \in sandboxes
     /\ pos \in 3..8 => v \notin monitored
     /\ pos >= 10 => IsUp(VxlanAt(v))
     /\ pos <= 11 => ~Has(EthOf(c))
     /\ pos = 12 => Has(Made(c))
     /\ pos >= 13 => Has(Port(c))
     /\ pos \in 12..13 => eth.addrs = {} /\ eth.routes = {}
     /\ pos >= 14 => eth.addrs = {c}
     /\ pos = 14 => eth.routes = {}
     /\ pos >= 15 => eth.up
     /\ pos \in 15..(15 + Hops) => eth.routes = RoutesTo(pos - 15)
     /\ pos >= 16 + Hops => eth.routes = RoutesTo(Hops)
     /\ pos >= 16 + Hops => IsUp(Port(c))
     /\ pos >= 22 + Hops => dev[VxlanAt(v)].master = Bridge(v)
     /\ pos >= 23 + Hops => dev[Port(c)].master = Bridge(v)

\* How far a DEL is. Past CountVeths nobody has a link in the sandbox.
DelInv(c) ==
  /\ state[c] \in {"up", "delFailed"}
  /\ pos >= 2 => ~Has(EthOf(c))
  /\ pos \in 3..4 => /\ VNIOf[c] \in sandboxes
                     /\ \A d \in Containers : VNIOf[d] = VNIOf[c] => ~Has(Port(d))

\* How far the running request is.
RunInv == who # Nil => IF doing = "ADD" THEN AddInv(who) ELSE DelInv(who)

-----------------------------------------------------------------------------
(* The second part: what is in a sandbox in which no command failed.         *)

\* Somebody uses the sandbox; its ADD is past position i; its DEL has not
\* destroyed it.
Used(v) == \E c \in Containers : VNIOf[c] = v /\ state[c] = "up" /\ who # c
Busy(v) == who # Nil /\ VNIOf[who] = v
Past(v, i) == Busy(v) /\ doing = "ADD" /\ pos > i
Within(v, i, j) == Busy(v) /\ doing = "ADD" /\ pos \in i..j
Held(v) == /\ Busy(v) /\ doing = "DEL"
           /\ pos \in 2..4 \/ (pos = 1 /\ state[who] = "up")

\* The ports in the sandbox are those of the containers that are up.
PortsOf(v) ==
  \A c \in Containers : VNIOf[c] = v /\ who # c => (Has(Port(c)) <=> state[c] = "up")

\* The sandbox and its monitor are there while somebody uses them.
SandboxOf(v) ==
  /\ Within(v, 2, 8) \/ Within(v, 17 + Hops, 20 + Hops) => ~Used(v)
  /\ Busy(v) /\ doing = "DEL" /\ pos \in 3..4 => ~Used(v)
  /\ Busy(v) /\ doing = "DEL" /\ pos = 1 => (Has(EthOf(who)) <=> state[who] = "up")
  /\ v \in sandboxes <=> Used(v) \/ Past(v, 2) \/ Held(v)
  /\ v \in monitored <=> Used(v) \/ Past(v, 10) \/ Held(v)

\* Where its vxlan device is.
VxlanOf(v) ==
  /\ Has(Fresh(v)) <=> Within(v, 4, 4)
  /\ Has(VxlanAt(v)) <=> Used(v) \/ Past(v, 4) \/ (Held(v) /\ pos # 4)

\* How far the dummy device is.
DnsOf(v) ==
  LET dns == dev[DnsAt(v)] IN
  /\ Has(DnsAt(v)) <=> Used(v) \/ Past(v, 5) \/ Held(v)
  /\ Has(DnsAt(v)) =>
       /\ Within(v, 6, 6) => dns.addrs = {}
       /\ Within(v, 6, 6) \/ dns.addrs = {DNS}
       /\ dns.up \/ Within(v, 6, 7)
       /\ dns.master = Bridge(v) \/ (~Used(v) /\ Within(v, 6, 20 + Hops))

\* How far the bridge is.
BridgeOf(v) ==
  LET bridge == dev[BridgeAt(v)] IN
  /\ Has(BridgeAt(v)) <=> Used(v) \/ Past(v, 17 + Hops) \/ Held(v)
  /\ Has(BridgeAt(v)) =>
       /\ Within(v, 18 + Hops, 18 + Hops) => bridge.addrs = {}
       /\ Within(v, 18 + Hops, 18 + Hops) \/ bridge.addrs = {Gateway}
       /\ bridge.up \/ Within(v, 18 + Hops, 19 + Hops)

\* All of them.
NetOf(v) == SandboxOf(v) /\ VxlanOf(v) /\ DnsOf(v) /\ BridgeOf(v)

Clean(v) == PortsOf(v) /\ NetOf(v)

\* The parts for all containers and nets.
ShapeInv == /\ \A c \in Containers : ContainerShape(c)
            /\ \A v \in VNIs : NetShape(v)
LifeInv == \A c \in Containers : LifeOf(c)
CleanInv == \A v \in VNIs \ faulty : Clean(v)

\* The inductive invariant.
IInv == BaseInv /\ ShapeInv /\ LifeInv /\ RunInv /\ CleanInv
-----------------------------------------------------------------------------
(* The programs, position by position.                                       *)

\* The routes are a sequence.
LEMMA RoutesLen == Hops \in Nat /\ DOMAIN Routes = 1..Hops /\ Routes \in Seq(Nat)
BY LinksAssumption DEF Hops

\* The sequence r stands in s behind the n-th element.
At(s, n, r) == \A i \in 1..Len(r) : s[n + i] = r[i]

\* A sequence joined from two: the first stands at its start, the second behind it.
LEMMA Joined ==
  ASSUME NEW S, NEW s \in Seq(S), NEW t \in Seq(S)
  PROVE  /\ s \o t \in Seq(S) /\ Len(s \o t) = Len(s) + Len(t)
         /\ At(s \o t, 0, s) /\ At(s \o t, Len(s), t)
<1>1. /\ Len(s) \in Nat /\ Len(t) \in Nat
      /\ s \o t \in Seq(S) /\ Len(s \o t) = Len(s) + Len(t)
  OBVIOUS
<1>2. ASSUME NEW i \in 1..Len(t) PROVE (s \o t)[Len(s) + i] = t[i]
  BY <1>1
<1>3. ASSUME NEW i \in 1..Len(s) PROVE (s \o t)[0 + i] = s[i]
  BY <1>1
<1> QED BY <1>1, <1>2, <1>3 DEF At

\* What stands in a sequence stands there when another follows.
LEMMA JoinedAfter ==
  ASSUME NEW S, NEW s \in Seq(S), NEW t \in Seq(S), NEW r \in Seq(S), NEW n \in Nat,
         At(s, n, r), n + Len(r) <= Len(s)
  PROVE  At(s \o t, n, r)
<1> SUFFICES ASSUME NEW i \in 1..Len(r) PROVE (s \o t)[n + i] = r[i] BY DEF At
<1>1. Len(r) \in Nat /\ Len(s) \in Nat OBVIOUS
<1>2. n + i \in 1..Len(s) BY <1>1
<1>3. (s \o t)[n + i] = s[n + i] BY <1>2
<1> QED BY <1>3 DEF At

\* The commands of the part that creates the sandbox.
LEMMA SandboxPart ==
  ASSUME NEW v
  PROVE  LET p == IdempotentlyCreateSandbox(v)
             in == SandboxNS(v)
         IN /\ DOMAIN p = 1..8 /\ Len(p) = 8
            /\ p[1] = Cmd("UnlessSandbox", in, Nil, 7)
            /\ p[2] = CreateSandbox(v)
            /\ p[3] = CreateVxlan(v)
            /\ p[4] = MoveLink(HostNS, Vxlan(v), v)
            /\ p[5] = CreateDummy(in, Dns)
            /\ p[6] = AddAddress(in, Dns, DNS)
            /\ p[7] = SetLinkUp(in, Dns)
            /\ p[8] = LaunchDNS(v)
BY DEF StartDNSServer, IdempotentlyCreateSandbox, UnlessSandbox

\* The commands of the part that makes the veth pair, one for each route.
LEMMA VethPart ==
  ASSUME NEW c \in Containers
  PROVE  LET p == SetupVeth(c)
             in == ContainerNS(c)
         IN /\ DOMAIN p = 1..(4 + Hops) /\ Len(p) = 4 + Hops
            /\ p[1] = CreateVeth(in, Eth, NameSandboxLink(c))
            /\ p[2] = MoveLink(in, NameSandboxLink(c), VNIOf[c])
            /\ p[3] = AddAddress(in, Eth, c)
            /\ p[4] = SetLinkUp(in, Eth)
            /\ \A i \in 1..Hops : p[4 + i] = AddRoute(in, Eth, Routes[i])
<1>1. DOMAIN AddRoutes(c) = 1..Hops /\ Len(AddRoutes(c)) = Hops
  BY RoutesLen DEF AddRoutes
<1>2. AddRoutes(c) \in Seq({AddRoute(ContainerNS(c), Eth, Routes[i]) : i \in 1..Hops})
  BY <1>1, RoutesLen DEF AddRoutes
<1>3. DOMAIN SetupVeth(c) = 1..(4 + Hops) /\ Len(SetupVeth(c)) = 4 + Hops
  BY <1>1, <1>2, RoutesLen DEF SetupVeth
<1>4. \A i \in 1..Hops : SetupVeth(c)[4 + i] = AddRoutes(c)[i]
  BY <1>1, <1>2, RoutesLen DEF SetupVeth
<1>5. \A i \in 1..Hops : AddRoutes(c)[i] = AddRoute(ContainerNS(c), Eth, Routes[i])
  BY <1>1, RoutesLen DEF AddRoutes
<1> QED
  BY <1>1, <1>2, <1>3, <1>4, <1>5 DEF SetupVeth

\* The commands of the part that sets up the bridge.
LEMMA BridgePart ==
  ASSUME NEW c
  PROVE  LET p == IdempotentlySetupBridge(c)
             v == VNIOf[c]
             in == SandboxNS(v)
         IN /\ DOMAIN p = 1..8 /\ Len(p) = 8
            /\ p[1] = SetLinkUp(in, NameSandboxLink(c))
            /\ p[2] = Cmd("UnlessLink", in, Bridge(v), 4)
            /\ p[3] = CreateBridge(in, Bridge(v))
            /\ p[4] = AddAddress(in, Bridge(v), Gateway)
            /\ p[5] = SetLinkUp(in, Bridge(v))
            /\ p[6] = SetLinkMaster(in, Dns, Bridge(v))
            /\ p[7] = SetLinkMaster(in, Vxlan(v), Bridge(v))
            /\ p[8] = SetLinkMaster(in, NameSandboxLink(c), Bridge(v))
BY DEF IdempotentlySetupBridge, UnlessLink

\* The parts follow each other.
LEMMA SetupParts ==
  ASSUME NEW c \in Containers
  PROVE  LET p == Setup(c)
             v == VNIOf[c]
         IN /\ Len(p) = 23 + Hops
            /\ At(p, 0, IdempotentlyCreateSandbox(v))
            /\ At(p, 8, IdempotentlyCreateVxlan(v))
            /\ At(p, 10, SetupVeth(c))
            /\ At(p, 14 + Hops, IdempotentlySetupBridge(c))
            /\ At(p, 22 + Hops, <<GetHardwareAddress(ContainerNS(c), Eth)>>)
<1> DEFINE v == VNIOf[c]
           p1 == IdempotentlyCreateSandbox(v)
           p2 == IdempotentlyCreateVxlan(v)
           p3 == SetupVeth(c)
           p4 == IdempotentlySetupBridge(c)
           p5 == <<GetHardwareAddress(ContainerNS(c), Eth)>>
           All == {p1[i] : i \in 1..8} \cup {p2[i] : i \in 1..2}
                  \cup {p3[i] : i \in 1..(4 + Hops)} \cup {p4[i] : i \in 1..8}
                  \cup {p5[i] : i \in 1..1}
<1>1. /\ DOMAIN p1 = 1..8 /\ DOMAIN p2 = 1..2 /\ DOMAIN p3 = 1..(4 + Hops)
      /\ DOMAIN p4 = 1..8 /\ DOMAIN p5 = 1..1
  BY SandboxPart, VethPart, BridgePart DEF IdempotentlyCreateVxlan
<1>2. p1 \in Seq(All) /\ Len(p1) = 8
  BY <1>1, SandboxPart DEF IdempotentlyCreateSandbox, UnlessSandbox, StartDNSServer
<1>3. p2 \in Seq(All) /\ Len(p2) = 2
  BY <1>1 DEF IdempotentlyCreateVxlan
<1>4. p3 \in Seq(All) /\ Len(p3) = 4 + Hops
  <2>1. \A i \in 1..(4 + Hops) : p3[i] \in All
    OBVIOUS
  <2>2. /\ p3[1] = CreateVeth(ContainerNS(c), Eth, NameSandboxLink(c))
        /\ p3[2] = MoveLink(ContainerNS(c), NameSandboxLink(c), VNIOf[c])
        /\ p3[3] = AddAddress(ContainerNS(c), Eth, c)
        /\ p3[4] = SetLinkUp(ContainerNS(c), Eth)
        /\ \A i \in 1..Hops : p3[4 + i] = AddRoutes(c)[i]
    BY VethPart, RoutesLen DEF AddRoutes
  <2> HIDE DEF p3, All
  <2>3. <<p3[1], p3[2], p3[3], p3[4]>> \in Seq(All)
    BY <2>1, RoutesLen
  <2>4. AddRoutes(c) \in Seq(All)
    <3>1. ASSUME NEW i \in 1..Hops PROVE AddRoutes(c)[i] \in All
      <4>1. 4 + i \in 1..(4 + Hops) BY RoutesLen
      <4> QED BY <4>1, <2>1, <2>2
    <3>2. DOMAIN AddRoutes(c) = 1..Hops /\ AddRoutes(c) = [i \in 1..Hops |-> AddRoutes(c)[i]]
      BY RoutesLen DEF AddRoutes
    <3> QED BY <3>1, <3>2, RoutesLen
  <2>5. p3 = <<p3[1], p3[2], p3[3], p3[4]>> \o AddRoutes(c)
    BY <2>2 DEF p3, SetupVeth
  <2> QED BY <2>3, <2>4, <2>5, VethPart DEF p3
<1>5. p4 \in Seq(All) /\ Len(p4) = 8
  BY <1>1, BridgePart DEF IdempotentlySetupBridge, UnlessLink
<1>6. p5 \in Seq(All) /\ Len(p5) = 1
  BY <1>1
<1> DEFINE q2 == p1 \o p2
           q3 == q2 \o p3
           q4 == q3 \o p4
           q5 == q4 \o p5
<1>7. q5 = Setup(c)
  BY DEF Setup
<1> HIDE DEF p1, p2, p3, p4, p5, All
<1>8. /\ Len(p1) = 8 /\ Len(p2) = 2 /\ Len(p3) = 4 + Hops /\ Len(p4) = 8 /\ Len(p5) = 1
      /\ Hops \in Nat
  BY <1>2, <1>3, <1>4, <1>5, <1>6, RoutesLen
<1>9. /\ p1 \in Seq(All) /\ p2 \in Seq(All) /\ p3 \in Seq(All)
      /\ p4 \in Seq(All) /\ p5 \in Seq(All)
  BY <1>2, <1>3, <1>4, <1>5, <1>6
<1> DEFINE n1 == 0
           n2 == 8
           n3 == 10
           n4 == 14 + Hops
           n5 == 22 + Hops
<1>10. /\ n1 \in Nat /\ n2 \in Nat /\ n3 \in Nat /\ n4 \in Nat /\ n5 \in Nat
       /\ n1 = 0 /\ n1 + Len(p1) = n2 /\ n2 + Len(p2) = n3 /\ n3 + Len(p3) = n4
       /\ n4 + Len(p4) = n5 /\ n5 + Len(p5) = 23 + Hops
       /\ n1 + Len(p1) <= n3 /\ n1 + Len(p1) <= n4 /\ n1 + Len(p1) <= n5
       /\ n2 + Len(p2) <= n4 /\ n2 + Len(p2) <= n5 /\ n3 + Len(p3) <= n5
       /\ n2 + Len(p2) <= n3 /\ n3 + Len(p3) <= n4 /\ n4 + Len(p4) <= n5
  BY <1>8
<1> HIDE DEF n1, n2, n3, n4, n5
<1>11. q2 \in Seq(All) /\ Len(q2) = n3 /\ At(q2, n1, p1) /\ At(q2, n2, p2)
  <2>1. /\ q2 \in Seq(All) /\ Len(q2) = Len(p1) + Len(p2)
        /\ At(q2, 0, p1) /\ At(q2, Len(p1), p2)
    BY ONLY <1>9, Joined, SMT
  <2>2. Len(p1) = n2 BY <1>8 DEF n2
  <2> HIDE DEF q2
  <2> QED BY <2>1, <2>2, <1>10
<1> HIDE DEF q2
<1>12. q3 \in Seq(All) /\ Len(q3) = n4 /\ At(q3, n3, p3)
  <2>1. /\ q3 \in Seq(All) /\ Len(q3) = Len(q2) + Len(p3) /\ At(q3, Len(q2), p3)
    <3>1. q2 \in Seq(All) /\ p3 \in Seq(All) BY <1>9, <1>11
    <3> QED BY ONLY <3>1, Joined, SMT
  <2> HIDE DEF q3
  <2> QED BY <2>1, <1>11, <1>10
<1>13. At(q3, n1, p1) /\ At(q3, n2, p2)
  <2>1. n1 + Len(p1) <= Len(q2) /\ n2 + Len(p2) <= Len(q2) /\ n1 \in Nat /\ n2 \in Nat
    BY <1>10, <1>11
  <2>2. At(q2, n1, p1) /\ At(q2, n2, p2) /\ q2 \in Seq(All) BY <1>11
  <2> QED BY ONLY <1>9, <2>1, <2>2, JoinedAfter, SMT
<1> HIDE DEF q3
<1>14. q4 \in Seq(All) /\ Len(q4) = n5 /\ At(q4, n4, p4)
  <2>1. /\ q4 \in Seq(All) /\ Len(q4) = Len(q3) + Len(p4) /\ At(q4, Len(q3), p4)
    <3>1. q3 \in Seq(All) /\ p4 \in Seq(All) BY <1>9, <1>12
    <3> QED BY ONLY <3>1, Joined, SMT
  <2> HIDE DEF q4
  <2> QED BY <2>1, <1>12, <1>10
<1>15. At(q4, n1, p1) /\ At(q4, n2, p2) /\ At(q4, n3, p3)
  <2>1. /\ n1 + Len(p1) <= Len(q3) /\ n2 + Len(p2) <= Len(q3) /\ n3 + Len(p3) <= Len(q3)
        /\ n1 \in Nat /\ n2 \in Nat /\ n3 \in Nat
    BY <1>10, <1>12
  <2>2. At(q3, n1, p1) /\ At(q3, n2, p2) /\ At(q3, n3, p3) /\ q3 \in Seq(All)
    BY <1>12, <1>13
  <2> QED BY ONLY <1>9, <2>1, <2>2, JoinedAfter, SMT
<1> HIDE DEF q4
<1>16. q5 \in Seq(All) /\ Len(q5) = n5 + Len(p5) /\ At(q5, n5, p5)
  <2>1. /\ q5 \in Seq(All) /\ Len(q5) = Len(q4) + Len(p5) /\ At(q5, Len(q4), p5)
    <3>1. q4 \in Seq(All) /\ p5 \in Seq(All) BY <1>9, <1>14
    <3> QED BY ONLY <3>1, Joined, SMT
  <2> HIDE DEF q5
  <2> QED BY <2>1, <1>14
<1>17. At(q5, n1, p1) /\ At(q5, n2, p2) /\ At(q5, n3, p3) /\ At(q5, n4, p4)
  <2>1. /\ n1 + Len(p1) <= Len(q4) /\ n2 + Len(p2) <= Len(q4) /\ n3 + Len(p3) <= Len(q4)
        /\ n4 + Len(p4) <= Len(q4) /\ n1 \in Nat /\ n2 \in Nat /\ n3 \in Nat /\ n4 \in Nat
    BY <1>10, <1>14
  <2>2. /\ At(q4, n1, p1) /\ At(q4, n2, p2) /\ At(q4, n3, p3) /\ At(q4, n4, p4)
        /\ q4 \in Seq(All)
    BY <1>14, <1>15
  <2> QED BY ONLY <1>9, <2>1, <2>2, JoinedAfter, SMT
<1> HIDE DEF q5
<1>18. Len(q5) = 23 + Hops BY <1>10, <1>16
<1>19. At(q5, n1, p1) /\ At(q5, n2, p2) /\ At(q5, n3, p3) /\ At(q5, n4, p4) /\ At(q5, n5, p5)
  BY <1>16, <1>17
<1> QED BY <1>7, <1>18, <1>19 DEF n1, n2, n3, n4, n5, p1, p2, p3, p4, p5

\* The command at each position of an ADD, and of a DEL.
LEMMA AddCommands ==
  ASSUME NEW c \in Containers
  PROVE  LET p == Setup(c)
             v == VNIOf[c]
             in == SandboxNS(v)
         IN /\ Len(p) = 23 + Hops
            /\ p[1] = Cmd("UnlessSandbox", in, Nil, 7)
            /\ p[2] = CreateSandbox(v)
            /\ p[3] = CreateVxlan(v)
            /\ p[4] = MoveLink(HostNS, Vxlan(v), v)
            /\ p[5] = CreateDummy(in, Dns)
            /\ p[6] = AddAddress(in, Dns, DNS)
            /\ p[7] = SetLinkUp(in, Dns)
            /\ p[8] = LaunchDNS(v)
            /\ p[9] = SetLinkUp(in, Vxlan(v))
            /\ p[10] = StartMonitor(v)
            /\ p[11] = CreateVeth(ContainerNS(c), Eth, NameSandboxLink(c))
            /\ p[12] = MoveLink(ContainerNS(c), NameSandboxLink(c), v)
            /\ p[13] = AddAddress(ContainerNS(c), Eth, c)
            /\ p[14] = SetLinkUp(ContainerNS(c), Eth)
            /\ \A i \in 1..Hops : p[14 + i] = AddRoute(ContainerNS(c), Eth, Routes[i])
            /\ p[15 + Hops] = SetLinkUp(in, NameSandboxLink(c))
            /\ p[16 + Hops] = Cmd("UnlessLink", in, Bridge(v), 4)
            /\ p[17 + Hops] = CreateBridge(in, Bridge(v))
            /\ p[18 + Hops] = AddAddress(in, Bridge(v), Gateway)
            /\ p[19 + Hops] = SetLinkUp(in, Bridge(v))
            /\ p[20 + Hops] = SetLinkMaster(in, Dns, Bridge(v))
            /\ p[21 + Hops] = SetLinkMaster(in, Vxlan(v), Bridge(v))
            /\ p[22 + Hops] = SetLinkMaster(in, NameSandboxLink(c), Bridge(v))
            /\ p[23 + Hops] = GetHardwareAddress(ContainerNS(c), Eth)
<1> DEFINE v == VNIOf[c]
           p == Setup(c)
           p1 == IdempotentlyCreateSandbox(v)
           p2 == IdempotentlyCreateVxlan(v)
           p3 == SetupVeth(c)
           p4 == IdempotentlySetupBridge(c)
           p5 == <<GetHardwareAddress(ContainerNS(c), Eth)>>
<1>1. /\ Len(p) = 23 + Hops /\ Hops \in Nat
      /\ At(p, 0, p1) /\ At(p, 8, p2) /\ At(p, 10, p3) /\ At(p, 14 + Hops, p4)
      /\ At(p, 22 + Hops, p5)
  BY SetupParts, RoutesLen
<1>2. /\ Len(p1) = 8 /\ Len(p2) = 2 /\ Len(p3) = 4 + Hops /\ Len(p4) = 8 /\ Len(p5) = 1
      /\ p2[1] = SetLinkUp(SandboxNS(v), Vxlan(v)) /\ p2[2] = StartMonitor(v)
      /\ p5[1] = GetHardwareAddress(ContainerNS(c), Eth)
  BY SandboxPart, VethPart, BridgePart DEF IdempotentlyCreateVxlan
<1> HIDE DEF p, p1, p2, p3, p4, p5
<1>3. /\ p[1] = p1[1] /\ p[2] = p1[2] /\ p[3] = p1[3] /\ p[4] = p1[4]
      /\ p[5] = p1[5] /\ p[6] = p1[6] /\ p[7] = p1[7] /\ p[8] = p1[8]
  BY <1>1, <1>2 DEF At
<1>4. p[9] = p2[1] /\ p[10] = p2[2]
  BY <1>1, <1>2 DEF At
<1>5. p[11] = p3[1] /\ p[12] = p3[2] /\ p[13] = p3[3] /\ p[14] = p3[4]
  <2>1. 1 \in 1..Len(p3) /\ 2 \in 1..Len(p3) /\ 3 \in 1..Len(p3) /\ 4 \in 1..Len(p3)
    BY <1>1, <1>2
  <2> QED BY <1>1, <2>1 DEF At
<1>6. ASSUME NEW i \in 1..Hops PROVE p[14 + i] = p3[4 + i]
  <2>1. 4 + i \in 1..Len(p3) /\ 10 + (4 + i) = 14 + i BY <1>1, <1>2
  <2> QED BY <1>1, <2>1 DEF At
<1>7. /\ p[15 + Hops] = p4[1] /\ p[16 + Hops] = p4[2] /\ p[17 + Hops] = p4[3]
      /\ p[18 + Hops] = p4[4]
  BY <1>1, <1>2 DEF At
<1>8. /\ p[19 + Hops] = p4[5] /\ p[20 + Hops] = p4[6] /\ p[21 + Hops] = p4[7]
      /\ p[22 + Hops] = p4[8]
  BY <1>1, <1>2 DEF At
<1>9. p[23 + Hops] = p5[1]
  BY <1>1, <1>2 DEF At
<1>10. /\ p1[1] = Cmd("UnlessSandbox", SandboxNS(v), Nil, 7)
       /\ p1[2] = CreateSandbox(v)
       /\ p1[3] = CreateVxlan(v)
       /\ p1[4] = MoveLink(HostNS, Vxlan(v), v)
       /\ p1[5] = CreateDummy(SandboxNS(v), Dns)
       /\ p1[6] = AddAddress(SandboxNS(v), Dns, DNS)
       /\ p1[7] = SetLinkUp(SandboxNS(v), Dns)
       /\ p1[8] = LaunchDNS(v)
  BY SandboxPart DEF p1
<1>11. /\ p3[1] = CreateVeth(ContainerNS(c), Eth, NameSandboxLink(c))
       /\ p3[2] = MoveLink(ContainerNS(c), NameSandboxLink(c), v)
       /\ p3[3] = AddAddress(ContainerNS(c), Eth, c)
       /\ p3[4] = SetLinkUp(ContainerNS(c), Eth)
       /\ \A i \in 1..Hops : p3[4 + i] = AddRoute(ContainerNS(c), Eth, Routes[i])
  BY VethPart DEF p3
<1>12. /\ p4[1] = SetLinkUp(SandboxNS(v), NameSandboxLink(c))
       /\ p4[2] = Cmd("UnlessLink", SandboxNS(v), Bridge(v), 4)
       /\ p4[3] = CreateBridge(SandboxNS(v), Bridge(v))
       /\ p4[4] = AddAddress(SandboxNS(v), Bridge(v), Gateway)
       /\ p4[5] = SetLinkUp(SandboxNS(v), Bridge(v))
       /\ p4[6] = SetLinkMaster(SandboxNS(v), Dns, Bridge(v))
       /\ p4[7] = SetLinkMaster(SandboxNS(v), Vxlan(v), Bridge(v))
       /\ p4[8] = SetLinkMaster(SandboxNS(v), NameSandboxLink(c), Bridge(v))
  BY BridgePart DEF p4
<1>13. \A i \in 1..Hops : p[14 + i] = AddRoute(ContainerNS(c), Eth, Routes[i])
  BY <1>6, <1>11
<1>14. /\ p[15 + Hops] = SetLinkUp(SandboxNS(v), NameSandboxLink(c))
       /\ p[16 + Hops] = Cmd("UnlessLink", SandboxNS(v), Bridge(v), 4)
       /\ p[17 + Hops] = CreateBridge(SandboxNS(v), Bridge(v))
       /\ p[18 + Hops] = AddAddress(SandboxNS(v), Bridge(v), Gateway)
       /\ p[19 + Hops] = SetLinkUp(SandboxNS(v), Bridge(v))
       /\ p[20 + Hops] = SetLinkMaster(SandboxNS(v), Dns, Bridge(v))
       /\ p[21 + Hops] = SetLinkMaster(SandboxNS(v), Vxlan(v), Bridge(v))
       /\ p[22 + Hops] = SetLinkMaster(SandboxNS(v), NameSandboxLink(c), Bridge(v))
       /\ p[23 + Hops] = GetHardwareAddress(ContainerNS(c), Eth)
  BY <1>2, <1>7, <1>8, <1>9, <1>12, Zenon
<1> QED BY ONLY <1>1, <1>2, <1>3, <1>4, <1>5, <1>10, <1>11, <1>13, <1>14, Zenon DEF p, v

\* The command at each position of a DEL.
LEMMA DelCommands ==
  ASSUME NEW c \in Containers
  PROVE  LET p == Delete(c)
             v == VNIOf[c]
         IN /\ Len(p) = 4
            /\ p[1] = DeleteLink(ContainerNS(c), Eth)
            /\ p[2] = CountVeths(v)
            /\ p[3] = DeleteVxlan(v)
            /\ p[4] = Destroy(v)
BY DEF Delete, CleanupSandbox

\* The program that runs.
LEMMA ProgramIs ==
  ASSUME NEW c \in Containers, who = c
  PROVE  /\ doing = "ADD" => Program = Setup(c) /\ Len(Program) = 23 + Hops
         /\ doing = "DEL" => Program = Delete(c) /\ Len(Program) = 4
<1>1. /\ doing = "ADD" => Program = Setup(c)
      /\ doing = "DEL" => Program = Delete(c)
  BY DEF Program, Programs
<1>2. Len(Setup(c)) = 23 + Hops BY AddCommands
<1>3. Len(Delete(c)) = 4 BY DelCommands
<1> QED BY <1>1, <1>2, <1>3

\* Where the running request of container c is in the program of an ADD or a
\* DEL, by the command that it executes now.
Adds(i) == doing = "ADD" /\ pos = i
Dels(i) == doing = "DEL" /\ pos = i

\* A running request executes the command of its position.
LEMMA Positions ==
  ASSUME BaseInv, NEW c \in Containers, who = c, pos <= Len(Program),
         NEW v, v = VNIOf[c]
  PROVE  LET in == SandboxNS(v)
             mine == ContainerNS(c)
         IN \/ Adds(1) /\ Now = Cmd("UnlessSandbox", in, Nil, 7)
            \/ Adds(2) /\ Now = CreateSandbox(v)
            \/ Adds(3) /\ Now = CreateVxlan(v)
            \/ Adds(4) /\ Now = MoveLink(HostNS, Vxlan(v), v)
            \/ Adds(5) /\ Now = CreateDummy(in, Dns)
            \/ Adds(6) /\ Now = AddAddress(in, Dns, DNS)
            \/ Adds(7) /\ Now = SetLinkUp(in, Dns)
            \/ Adds(8) /\ Now = LaunchDNS(v)
            \/ Adds(9) /\ Now = SetLinkUp(in, Vxlan(v))
            \/ Adds(10) /\ Now = StartMonitor(v)
            \/ Adds(11) /\ Now = CreateVeth(mine, Eth, NameSandboxLink(c))
            \/ Adds(12) /\ Now = MoveLink(mine, NameSandboxLink(c), v)
            \/ Adds(13) /\ Now = AddAddress(mine, Eth, c)
            \/ Adds(14) /\ Now = SetLinkUp(mine, Eth)
            \/ \E i \in 1..Hops : Adds(14 + i) /\ Now = AddRoute(mine, Eth, Routes[i])
            \/ Adds(15 + Hops) /\ Now = SetLinkUp(in, NameSandboxLink(c))
            \/ Adds(16 + Hops) /\ Now = Cmd("UnlessLink", in, Bridge(v), 4)
            \/ Adds(17 + Hops) /\ Now = CreateBridge(in, Bridge(v))
            \/ Adds(18 + Hops) /\ Now = AddAddress(in, Bridge(v), Gateway)
            \/ Adds(19 + Hops) /\ Now = SetLinkUp(in, Bridge(v))
            \/ Adds(20 + Hops) /\ Now = SetLinkMaster(in, Dns, Bridge(v))
            \/ Adds(21 + Hops) /\ Now = SetLinkMaster(in, Vxlan(v), Bridge(v))
            \/ Adds(22 + Hops) /\ Now = SetLinkMaster(in, NameSandboxLink(c), Bridge(v))
            \/ Adds(23 + Hops) /\ Now = GetHardwareAddress(mine, Eth)
            \/ Dels(1) /\ Now = DeleteLink(mine, Eth)
            \/ Dels(2) /\ Now = CountVeths(v)
            \/ Dels(3) /\ Now = DeleteVxlan(v)
            \/ Dels(4) /\ Now = Destroy(v)
<1>1. Hops \in Nat /\ pos \in Nat /\ pos >= 1 /\ doing \in {"ADD", "DEL"}
  BY RoutesLen, LinksAssumption DEF BaseInv
<1>2. CASE doing = "ADD"
  <2>1. pos <= 23 + Hops /\ Now = Setup(c)[pos] BY <1>2, ProgramIs DEF Now
  <2>2. \/ pos \in 1..8 \/ pos \in 9..14 \/ pos \in 15..(14 + Hops)
        \/ pos \in (15 + Hops)..(19 + Hops) \/ pos \in (20 + Hops)..(23 + Hops)
    BY <1>1, <2>1
  <2>3. CASE pos \in 1..8 BY <1>1, <1>2, <2>1, <2>3, AddCommands DEF Adds
  <2>4. CASE pos \in 9..14 BY <1>1, <1>2, <2>1, <2>4, AddCommands DEF Adds
  <2>5. CASE pos \in 15..(14 + Hops)
    <3>1. PICK i \in 1..Hops : pos = 14 + i
      <4>1. pos - 14 \in 1..Hops /\ pos = 14 + (pos - 14) BY <1>1, <2>5
      <4> QED BY <4>1
    <3>2. Now = AddRoute(ContainerNS(c), Eth, Routes[i]) BY <2>1, <3>1, AddCommands
    <3>3. Adds(14 + i) BY <1>2, <3>1 DEF Adds
    <3>4. \E k \in 1..Hops : Adds(14 + k) /\ Now = AddRoute(ContainerNS(c), Eth, Routes[k])
      BY ONLY <3>2, <3>3, i \in 1..Hops, Zenon
    <3> QED BY <3>4
  <2>6. CASE pos \in (15 + Hops)..(19 + Hops)
    <3>1. \/ pos = 15 + Hops \/ pos = 16 + Hops \/ pos = 17 + Hops \/ pos = 18 + Hops
          \/ pos = 19 + Hops
      BY <1>1, <2>6
    <3>2. CASE pos = 15 + Hops BY <1>2, <2>1, <3>2, AddCommands DEF Adds
    <3>3. CASE pos = 16 + Hops BY <1>2, <2>1, <3>3, AddCommands DEF Adds
    <3>4. CASE pos = 17 + Hops BY <1>2, <2>1, <3>4, AddCommands DEF Adds
    <3>5. CASE pos = 18 + Hops BY <1>2, <2>1, <3>5, AddCommands DEF Adds
    <3>6. CASE pos = 19 + Hops BY <1>2, <2>1, <3>6, AddCommands DEF Adds
    <3> QED BY <3>1, <3>2, <3>3, <3>4, <3>5, <3>6
  <2>7. CASE pos \in (20 + Hops)..(23 + Hops)
    <3>1. pos = 20 + Hops \/ pos = 21 + Hops \/ pos = 22 + Hops \/ pos = 23 + Hops
      BY <1>1, <2>7
    <3>2. CASE pos = 20 + Hops BY <1>2, <2>1, <3>2, AddCommands DEF Adds
    <3>3. CASE pos = 21 + Hops BY <1>2, <2>1, <3>3, AddCommands DEF Adds
    <3>4. CASE pos = 22 + Hops BY <1>2, <2>1, <3>4, AddCommands DEF Adds
    <3>5. CASE pos = 23 + Hops BY <1>2, <2>1, <3>5, AddCommands DEF Adds
    <3> QED BY <3>1, <3>2, <3>3, <3>4, <3>5
  <2> QED BY <2>2, <2>3, <2>4, <2>5, <2>6, <2>7
<1>3. CASE doing = "DEL"
  <2>1. pos \in 1..4 /\ Now = Delete(c)[pos] BY <1>1, <1>3, ProgramIs DEF Now
  <2> QED BY <1>3, <2>1, DelCommands DEF Dels
<1> QED BY <1>1, <1>2, <1>3

\* The other way round: where a command stands.
LEMMA Commanded ==
  ASSUME BaseInv, NEW c \in Containers, who = c, pos <= Len(Program),
         NEW v, v = VNIOf[c]
  PROVE  LET in == SandboxNS(v)
             mine == ContainerNS(c)
         IN /\ Now.op = "UnlessSandbox" => Adds(1) /\ Now = Cmd("UnlessSandbox", in, Nil, 7)
            /\ Now.op = "CreateSandbox" => Adds(2) /\ Now = CreateSandbox(v)
            /\ Now.op = "CreateVxlan" => Adds(3) /\ Now = CreateVxlan(v)
            /\ Now.op = "MoveLink" =>
                 \/ Adds(4) /\ Now = MoveLink(HostNS, Vxlan(v), v)
                 \/ Adds(12) /\ Now = MoveLink(mine, NameSandboxLink(c), v)
            /\ Now.op = "CreateDummy" => Adds(5) /\ Now = CreateDummy(in, Dns)
            /\ Now.op = "AddAddress" =>
                 \/ Adds(6) /\ Now = AddAddress(in, Dns, DNS)
                 \/ Adds(13) /\ Now = AddAddress(mine, Eth, c)
                 \/ Adds(18 + Hops) /\ Now = AddAddress(in, Bridge(v), Gateway)
            /\ Now.op = "SetLinkUp" =>
                 \/ Adds(7) /\ Now = SetLinkUp(in, Dns)
                 \/ Adds(9) /\ Now = SetLinkUp(in, Vxlan(v))
                 \/ Adds(14) /\ Now = SetLinkUp(mine, Eth)
                 \/ Adds(15 + Hops) /\ Now = SetLinkUp(in, NameSandboxLink(c))
                 \/ Adds(19 + Hops) /\ Now = SetLinkUp(in, Bridge(v))
            /\ Now.op = "LaunchDNS" => Adds(8) /\ Now = LaunchDNS(v)
            /\ Now.op = "StartMonitor" => Adds(10) /\ Now = StartMonitor(v)
            /\ Now.op = "CreateVeth" =>
                 Adds(11) /\ Now = CreateVeth(mine, Eth, NameSandboxLink(c))
            /\ Now.op = "AddRoute" =>
                 \E i \in 1..Hops : Adds(14 + i) /\ Now = AddRoute(mine, Eth, Routes[i])
            /\ Now.op = "UnlessLink" =>
                 Adds(16 + Hops) /\ Now = Cmd("UnlessLink", in, Bridge(v), 4)
            /\ Now.op = "CreateBridge" => Adds(17 + Hops) /\ Now = CreateBridge(in, Bridge(v))
            /\ Now.op = "SetLinkMaster" =>
                 \/ Adds(20 + Hops) /\ Now = SetLinkMaster(in, Dns, Bridge(v))
                 \/ Adds(21 + Hops) /\ Now = SetLinkMaster(in, Vxlan(v), Bridge(v))
                 \/ Adds(22 + Hops) /\ Now = SetLinkMaster(in, NameSandboxLink(c), Bridge(v))
            /\ Now.op = "GetHardwareAddress" =>
                 Adds(23 + Hops) /\ Now = GetHardwareAddress(mine, Eth)
            /\ Now.op = "DeleteLink" => Dels(1) /\ Now = DeleteLink(mine, Eth)
            /\ Now.op = "CountVeths" => Dels(2) /\ Now = CountVeths(v)
            /\ Now.op = "DeleteVxlan" => Dels(3) /\ Now = DeleteVxlan(v)
            /\ Now.op = "Destroy" => Dels(4) /\ Now = Destroy(v)
<1> DEFINE in == SandboxNS(v)
           mine == ContainerNS(c)
<1> USE Positions
    DEF Cmd, CreateVxlan, CreateDummy, CreateBridge, CreateVeth, MoveLink, SetLinkUp,
        SetLinkMaster, AddAddress, AddRoute, GetHardwareAddress, DeleteLink, CreateSandbox,
        LaunchDNS, StartMonitor, CountVeths, DeleteVxlan, Destroy
<1>1. Now.op = "UnlessSandbox" => Adds(1) /\ Now = Cmd("UnlessSandbox", in, Nil, 7)
  OBVIOUS
<1>2. Now.op = "CreateSandbox" => Adds(2) /\ Now = CreateSandbox(v)
  OBVIOUS
<1>3. Now.op = "CreateVxlan" => Adds(3) /\ Now = CreateVxlan(v)
  OBVIOUS
<1>4. Now.op = "MoveLink" =>
       \/ Adds(4) /\ Now = MoveLink(HostNS, Vxlan(v), v)
       \/ Adds(12) /\ Now = MoveLink(mine, NameSandboxLink(c), v)
  OBVIOUS
<1>5. Now.op = "CreateDummy" => Adds(5) /\ Now = CreateDummy(in, Dns)
  OBVIOUS
<1>6. Now.op = "AddAddress" =>
       \/ Adds(6) /\ Now = AddAddress(in, Dns, DNS)
       \/ Adds(13) /\ Now = AddAddress(mine, Eth, c)
       \/ Adds(18 + Hops) /\ Now = AddAddress(in, Bridge(v), Gateway)
  OBVIOUS
<1>7. Now.op = "SetLinkUp" =>
       \/ Adds(7) /\ Now = SetLinkUp(in, Dns)
       \/ Adds(9) /\ Now = SetLinkUp(in, Vxlan(v))
       \/ Adds(14) /\ Now = SetLinkUp(mine, Eth)
       \/ Adds(15 + Hops) /\ Now = SetLinkUp(in, NameSandboxLink(c))
       \/ Adds(19 + Hops) /\ Now = SetLinkUp(in, Bridge(v))
  OBVIOUS
<1>8. Now.op = "LaunchDNS" => Adds(8) /\ Now = LaunchDNS(v)
  OBVIOUS
<1>9. Now.op = "StartMonitor" => Adds(10) /\ Now = StartMonitor(v)
  OBVIOUS
<1>10. Now.op = "CreateVeth" => Adds(11) /\ Now = CreateVeth(mine, Eth, NameSandboxLink(c))
  OBVIOUS
<1>11. Now.op = "AddRoute" =>
         \E i \in 1..Hops : Adds(14 + i) /\ Now = AddRoute(mine, Eth, Routes[i])
  OBVIOUS
<1>12. Now.op = "UnlessLink" => Adds(16 + Hops) /\ Now = Cmd("UnlessLink", in, Bridge(v), 4)
  OBVIOUS
<1>13. Now.op = "CreateBridge" => Adds(17 + Hops) /\ Now = CreateBridge(in, Bridge(v))
  OBVIOUS
<1>14. Now.op = "SetLinkMaster" =>
        \/ Adds(20 + Hops) /\ Now = SetLinkMaster(in, Dns, Bridge(v))
        \/ Adds(21 + Hops) /\ Now = SetLinkMaster(in, Vxlan(v), Bridge(v))
        \/ Adds(22 + Hops) /\ Now = SetLinkMaster(in, NameSandboxLink(c), Bridge(v))
  OBVIOUS
<1>15. Now.op = "GetHardwareAddress" => Adds(23 + Hops) /\ Now = GetHardwareAddress(mine, Eth)
  OBVIOUS
<1>16. Now.op = "DeleteLink" => Dels(1) /\ Now = DeleteLink(mine, Eth)
  OBVIOUS
<1>17. Now.op = "CountVeths" => Dels(2) /\ Now = CountVeths(v)
  OBVIOUS
<1>18. Now.op = "DeleteVxlan" => Dels(3) /\ Now = DeleteVxlan(v)
  OBVIOUS
<1>19. Now.op = "Destroy" => Dels(4) /\ Now = Destroy(v)
  OBVIOUS
<1> QED
  BY ONLY <1>1, <1>2, <1>3, <1>4, <1>5, <1>6, <1>7, <1>8, <1>9, <1>10, <1>11, <1>12, <1>13,
     <1>14, <1>15, <1>16, <1>17, <1>18, <1>19, Zenon
     DEF in, mine

-----------------------------------------------------------------------------
(* Places. *)

\* The places of a container and of its net are seven, and others have others.
LEMMA OwnPlaces ==
  ASSUME NEW c, NEW v, v = VNIOf[c]
  PROVE  /\ EthOf(c) \notin {Made(c), Port(c), Fresh(v), VxlanAt(v), BridgeAt(v), DnsAt(v)}
         /\ Made(c) \notin {Port(c), Fresh(v), VxlanAt(v), BridgeAt(v), DnsAt(v)}
         /\ Port(c) \notin {Fresh(v), VxlanAt(v), BridgeAt(v), DnsAt(v)}
         /\ Fresh(v) \notin {VxlanAt(v), BridgeAt(v), DnsAt(v)}
         /\ VxlanAt(v) \notin {BridgeAt(v), DnsAt(v)}
         /\ BridgeAt(v) # DnsAt(v)
<1> USE DEF EthOf, Made, Port, Fresh, VxlanAt, BridgeAt, DnsAt, ContainerNS, SandboxNS, HostNS,
            Eth, Dns, Vxlan, Bridge, NameSandboxLink
<1>1. EthOf(c) \notin {Made(c), Port(c), Fresh(v), VxlanAt(v), BridgeAt(v), DnsAt(v)} OBVIOUS
<1>2. Made(c) \notin {Port(c), Fresh(v), VxlanAt(v), BridgeAt(v), DnsAt(v)} OBVIOUS
<1>3. Port(c) \notin {Fresh(v), VxlanAt(v), BridgeAt(v), DnsAt(v)} OBVIOUS
<1>4. Fresh(v) \notin {VxlanAt(v), BridgeAt(v), DnsAt(v)} OBVIOUS
<1>5. VxlanAt(v) \notin {BridgeAt(v), DnsAt(v)} /\ BridgeAt(v) # DnsAt(v) OBVIOUS
<1> QED BY <1>1, <1>2, <1>3, <1>4, <1>5

\* Two containers share no place.
LEMMA ContainersApart ==
  ASSUME NEW c, NEW d, c # d
  PROVE  OfContainer(c) \cap OfContainer(d) = {}
<1> USE DEF EthOf, Made, Port, ContainerNS, SandboxNS, Eth, NameSandboxLink
<1>1. EthOf(c) \notin {EthOf(d), Made(d), Port(d)} OBVIOUS
<1>2. Made(c) \notin {EthOf(d), Made(d), Port(d)} OBVIOUS
<1>3. Port(c) \notin {EthOf(d), Made(d), Port(d)} OBVIOUS
<1> QED BY ONLY <1>1, <1>2, <1>3 DEF OfContainer

\* Two nets share no place.
LEMMA NetsApart ==
  ASSUME NEW v, NEW w, v # w
  PROVE  OfNet(v) \cap OfNet(w) = {}
<1> USE DEF Fresh, VxlanAt, BridgeAt, DnsAt, SandboxNS, HostNS, Dns, Vxlan, Bridge
<1>1. Fresh(v) \notin {Fresh(w), VxlanAt(w), BridgeAt(w), DnsAt(w)} OBVIOUS
<1>2. VxlanAt(v) \notin {Fresh(w), VxlanAt(w), BridgeAt(w), DnsAt(w)} OBVIOUS
<1>3. BridgeAt(v) \notin {Fresh(w), VxlanAt(w), BridgeAt(w), DnsAt(w)} OBVIOUS
<1>4. DnsAt(v) \notin {Fresh(w), VxlanAt(w), BridgeAt(w), DnsAt(w)} OBVIOUS
<1> QED BY ONLY <1>1, <1>2, <1>3, <1>4 DEF OfNet

\* A container and a net share no place.
LEMMA ContainerNetApart ==
  ASSUME NEW c, NEW v
  PROVE  OfContainer(c) \cap OfNet(v) = {}
<1> USE DEF EthOf, Made, Port, ContainerNS, Eth, NameSandboxLink,
            Fresh, VxlanAt, BridgeAt, DnsAt, SandboxNS, HostNS, Dns, Vxlan, Bridge
<1>1. EthOf(c) \notin {Fresh(v), VxlanAt(v), BridgeAt(v), DnsAt(v)} OBVIOUS
<1>2. Made(c) \notin {Fresh(v), VxlanAt(v), BridgeAt(v), DnsAt(v)} OBVIOUS
<1>3. Port(c) \notin {Fresh(v), VxlanAt(v), BridgeAt(v), DnsAt(v)} OBVIOUS
<1> QED BY ONLY <1>1, <1>2, <1>3 DEF OfContainer, OfNet

-----------------------------------------------------------------------------
(* Steps for one container leave others alone.                               *)

\* A step leaves the device at x alone; it leaves all but those at xs alone.
Same(x) == /\ x \in DOMAIN dev' <=> x \in DOMAIN dev
           /\ x \in DOMAIN dev => dev'[x] = dev[x]
SameBut(xs) == \A x : x \notin xs => Same(x)

\* What others rely on in the sandbox of c.
Kept(c) ==
  LET v == VNIOf[c] IN
  \/ /\ Has(BridgeAt(v)) => BridgeAt(v) \in DOMAIN dev'
     /\ Enslaved(VxlanAt(v), Bridge(v)) =>
          /\ VxlanAt(v) \in DOMAIN dev'
          /\ dev'[VxlanAt(v)].up /\ dev'[VxlanAt(v)].master = Bridge(v)
  \/ \A d \in Containers \ {c} : VNIOf[d] = v => ~Has(Port(d))

\* A step for container c changes nothing of other containers and other nets.
OnlyFor(c) ==
  LET v == VNIOf[c] IN
  /\ SameBut(OfContainer(c) \cup OfNet(v)) /\ Kept(c)
  /\ who \in {c, Nil} /\ who' \in {c, Nil}
  /\ \A d \in Containers \ {c} : state'[d] = state[d]
  /\ \A w \in VNIs \ {v} : /\ w \in sandboxes' <=> w \in sandboxes
                           /\ w \in monitored' <=> w \in monitored
                           /\ w \in faulty => w \in faulty'

\* So what the invariant says of another container still holds,
LEMMA OtherContainers ==
  ASSUME IInv, NEW c \in Containers, OnlyFor(c), NEW d \in Containers \ {c}
  PROVE  ContainerShape(d)' /\ LifeOf(d)' /\ Same(Port(d))
<1> DEFINE v == VNIOf[c]
           w == VNIOf[d]
<1>1. /\ ContainerShape(d) /\ LifeOf(d) /\ v \in VNIs /\ w \in VNIs
      /\ who # d /\ who' # d /\ state'[d] = state[d]
  BY LinksAssumption DEF IInv, ShapeInv, LifeInv, OnlyFor
<1>2. Same(EthOf(d)) /\ Same(Made(d)) /\ Same(Port(d))
  BY ContainersApart, ContainerNetApart DEF OnlyFor, SameBut, OfContainer
<1>3. CASE w # v
  <2>1. Same(BridgeAt(w)) /\ Same(VxlanAt(w))
    BY <1>3, NetsApart, ContainerNetApart DEF OnlyFor, SameBut, OfNet
  <2> HIDE DEF v
  <2>2. ContainerShape(d)'
    BY <1>1, <1>2, <2>1 DEF ContainerShape, OfContainer, Same, Has
  <2>3. LifeOf(d)'
    BY <1>1, <1>2, <2>1 DEF LifeOf, Wired, IsUp, Enslaved, Same, Has
  <2> QED BY <1>2, <2>2, <2>3
<1>4. CASE w = v
  <2>1. \/ ~Has(Port(d))
        \/ /\ Has(BridgeAt(w)) => BridgeAt(w) \in DOMAIN dev'
           /\ Enslaved(VxlanAt(w), Bridge(w)) =>
                /\ VxlanAt(w) \in DOMAIN dev'
                /\ dev'[VxlanAt(w)].up /\ dev'[VxlanAt(w)].master = Bridge(w)
    BY <1>4 DEF OnlyFor, Kept
  <2>2. ContainerShape(d)'
    BY <1>1, <1>2, <2>1 DEF ContainerShape, OfContainer, Same, Has
  <2>3. LifeOf(d)'
    BY <1>1, <1>2, <2>1 DEF LifeOf, Wired, IsUp, Enslaved, Same, Has
  <2> QED BY <1>2, <2>2, <2>3
<1> QED BY <1>3, <1>4

\* and what it says of another net.
LEMMA OtherNets ==
  ASSUME IInv, NEW c \in Containers, OnlyFor(c), NEW w \in VNIs \ {VNIOf[c]}
  PROVE  NetShape(w)' /\ (w \notin faulty' => Clean(w)')
<1>1. /\ NetShape(w) /\ (w \notin faulty' => Clean(w))
      /\ w \in sandboxes' <=> w \in sandboxes
      /\ w \in monitored' <=> w \in monitored
  BY DEF IInv, ShapeInv, CleanInv, OnlyFor
<1>2. Same(Fresh(w)) /\ Same(VxlanAt(w)) /\ Same(BridgeAt(w)) /\ Same(DnsAt(w))
  BY NetsApart, ContainerNetApart DEF OnlyFor, SameBut, OfNet
<1>3. NetShape(w)'
  BY <1>1, <1>2 DEF NetShape, Same, Has
<1>4. ~Busy(w) /\ ~Busy(w)'
  BY LinksAssumption DEF Busy, OnlyFor
<1>5. \A d \in Containers : VNIOf[d] = w =>
        d # c /\ who # d /\ who' # d /\ state'[d] = state[d] /\ Same(Port(d))
  BY LinksAssumption, OtherContainers DEF OnlyFor
<1>6. Used(w)' <=> Used(w)
  BY <1>5 DEF Used
<1>7. PortsOf(w) => PortsOf(w)'
  BY <1>5 DEF PortsOf, Same, Has
<1>8. NetOf(w) => NetOf(w)'
  <2>1. SandboxOf(w) => SandboxOf(w)'
    BY <1>1, <1>4, <1>6 DEF SandboxOf, Past, Within, Held
  <2>2. VxlanOf(w) => VxlanOf(w)'
    BY <1>2, <1>4, <1>6 DEF VxlanOf, Past, Within, Held, Same, Has
  <2>3. DnsOf(w) => DnsOf(w)'
    BY <1>2, <1>4, <1>6 DEF DnsOf, Past, Within, Held, Same, Has
  <2>4. BridgeOf(w) => BridgeOf(w)'
    BY <1>2, <1>4, <1>6 DEF BridgeOf, Past, Within, Held, Same, Has
  <2> QED BY <2>1, <2>2, <2>3, <2>4 DEF NetOf
<1> QED BY <1>1, <1>3, <1>7, <1>8 DEF Clean

\* What is left to show of a step for one container.
LEMMA OneContainer ==
  ASSUME IInv, NEW c \in Containers, OnlyFor(c), NEW v, v = VNIOf[c],
         BaseInv', ContainerShape(c)', NetShape(v)', LifeOf(c)', RunInv',
         v \notin faulty' => Clean(v)'
  PROVE  IInv'
<1>1. ShapeInv' BY OtherContainers, OtherNets DEF ShapeInv
<1>2. LifeInv' BY OtherContainers DEF LifeInv
<1>3. CleanInv' BY OtherNets DEF CleanInv
<1> QED BY <1>1, <1>2, <1>3 DEF IInv

-----------------------------------------------------------------------------
(* What the steps do to the devices.                                         *)

\* A place is one of a container or one of a net,
LEMMA PlacesAre ==
  ASSUME NEW x
  PROVE  x \in Places <=> \/ \E c \in Containers : x \in OfContainer(c)
                          \/ \E v \in VNIs : x \in OfNet(v)
BY Zenon DEF Places

\* and all of theirs are places.
LEMMA InPlaces ==
  ASSUME NEW c \in Containers, NEW v \in VNIs
  PROVE  OfContainer(c) \cup OfNet(v) \subseteq Places
BY PlacesAre

\* A new device has no master, address or route and is down.
LEMMA NewDevice ==
  ASSUME NEW kind \in Kinds, NEW of \in Containers \cup VNIs \cup {Nil}
  PROVE  /\ Device(kind, of) \in DeviceType
         /\ Device(kind, of).kind = kind /\ Device(kind, of).of = of
         /\ Device(kind, of).up = FALSE /\ Device(kind, of).master = Nil
         /\ Device(kind, of).addrs = {} /\ Device(kind, of).routes = {}
BY DEF Device, DeviceType

\* New devices are there and the others are as they were,
LEMMA Added ==
  ASSUME DevInv, NEW xs \in SUBSET Places, NEW device \in DeviceType, dev' = And(xs, device)
  PROVE  /\ DevInv' /\ SameBut(xs)
         /\ \A x \in xs : x \in DOMAIN dev' /\ dev'[x] = device
BY DEF DevInv, And, SameBut, Same

\* for one new device and
LEMMA AddedOne ==
  ASSUME DevInv, NEW x \in Places, NEW kind \in Kinds,
         NEW of \in Containers \cup VNIs \cup {Nil}, dev' = And({x}, Device(kind, of))
  PROVE  /\ DevInv' /\ SameBut({x}) /\ x \in DOMAIN dev'
         /\ dev'[x].kind = kind /\ dev'[x].of = of /\ dev'[x].up = FALSE
         /\ dev'[x].master = Nil /\ dev'[x].addrs = {} /\ dev'[x].routes = {}
<1> DEFINE device == Device(kind, of)
<1>1. /\ device \in DeviceType
      /\ device.kind = kind /\ device.of = of /\ device.up = FALSE /\ device.master = Nil
      /\ device.addrs = {} /\ device.routes = {}
  BY DEF Device, DeviceType
<1>2. {x} \in SUBSET Places /\ dev' = And({x}, device) OBVIOUS
<1> HIDE DEF device
<1> QED BY <1>1, <1>2, Added

\* for the two of a veth pair.
LEMMA AddedTwo ==
  ASSUME DevInv, NEW x \in Places, NEW y \in Places, NEW kind \in Kinds,
         NEW of \in Containers \cup VNIs \cup {Nil}, dev' = And({x, y}, Device(kind, of))
  PROVE  /\ DevInv' /\ SameBut({x, y})
         /\ \A z \in {x, y} :
              /\ z \in DOMAIN dev' /\ dev'[z].kind = kind /\ dev'[z].of = of
              /\ dev'[z].up = FALSE /\ dev'[z].master = Nil
              /\ dev'[z].addrs = {} /\ dev'[z].routes = {}
<1> DEFINE device == Device(kind, of)
<1>1. /\ device \in DeviceType
      /\ device.kind = kind /\ device.of = of /\ device.up = FALSE /\ device.master = Nil
      /\ device.addrs = {} /\ device.routes = {}
  BY DEF Device, DeviceType
<1>2. {x, y} \in SUBSET Places /\ dev' = And({x, y}, device) OBVIOUS
<1> HIDE DEF device
<1> QED BY <1>1, <1>2, Added

\* A changed device is there and the others are as they were,
LEMMA Changed ==
  ASSUME DevInv, NEW x \in DOMAIN dev, NEW device \in DeviceType,
         dev' = [dev EXCEPT ![x] = device]
  PROVE  DevInv' /\ SameBut({x}) /\ x \in DOMAIN dev' /\ dev'[x] = device
BY DEF DevInv, SameBut, Same

\* when it is set up,
LEMMA SetUp ==
  ASSUME DevInv, NEW x \in DOMAIN dev, Here = x, dev' = With("up", TRUE)
  PROVE  /\ DevInv' /\ SameBut({x}) /\ x \in DOMAIN dev'
         /\ dev'[x].kind = dev[x].kind /\ dev'[x].of = dev[x].of
         /\ dev'[x].up = TRUE /\ dev'[x].master = dev[x].master
         /\ dev'[x].addrs = dev[x].addrs /\ dev'[x].routes = dev[x].routes
<1> DEFINE device == [dev[x] EXCEPT !["up"] = TRUE]
<1>1. dev[x] \in DeviceType BY DEF DevInv
<1>2. /\ device \in DeviceType /\ device.kind = dev[x].kind /\ device.of = dev[x].of
      /\ device.up = TRUE /\ device.master = dev[x].master
      /\ device.addrs = dev[x].addrs /\ device.routes = dev[x].routes
  BY <1>1 DEF DeviceType
<1>3. dev' = [dev EXCEPT ![x] = device] BY DEF With
<1> HIDE DEF device
<1> QED BY <1>2, <1>3, Changed

\* put on a bridge,
LEMMA SetMaster ==
  ASSUME DevInv, NEW x \in DOMAIN dev, Here = x, NEW v \in VNIs,
         dev' = With("master", Bridge(v))
  PROVE  /\ DevInv' /\ SameBut({x}) /\ x \in DOMAIN dev'
         /\ dev'[x].kind = dev[x].kind /\ dev'[x].of = dev[x].of
         /\ dev'[x].up = dev[x].up /\ dev'[x].master = Bridge(v)
         /\ dev'[x].addrs = dev[x].addrs /\ dev'[x].routes = dev[x].routes
<1> DEFINE device == [dev[x] EXCEPT !["master"] = Bridge(v)]
<1>1. dev[x] \in DeviceType BY DEF DevInv
<1>2. /\ device \in DeviceType /\ device.kind = dev[x].kind /\ device.of = dev[x].of
      /\ device.up = dev[x].up /\ device.master = Bridge(v)
      /\ device.addrs = dev[x].addrs /\ device.routes = dev[x].routes
  BY <1>1 DEF DeviceType
<1>3. dev' = [dev EXCEPT ![x] = device] BY DEF With
<1> HIDE DEF device
<1> QED BY <1>2, <1>3, Changed

\* given an address
LEMMA AddAddrs ==
  ASSUME DevInv, NEW x \in DOMAIN dev, Here = x, NEW a \in Containers \cup {Gateway, DNS},
         dev' = With("addrs", dev[x].addrs \cup {a})
  PROVE  /\ DevInv' /\ SameBut({x}) /\ x \in DOMAIN dev'
         /\ dev'[x].kind = dev[x].kind /\ dev'[x].of = dev[x].of
         /\ dev'[x].up = dev[x].up /\ dev'[x].master = dev[x].master
         /\ dev'[x].addrs = dev[x].addrs \cup {a} /\ dev'[x].routes = dev[x].routes
<1> DEFINE device == [dev[x] EXCEPT !["addrs"] = dev[x].addrs \cup {a}]
<1>1. dev[x] \in DeviceType BY DEF DevInv
<1>2. /\ device \in DeviceType /\ device.kind = dev[x].kind /\ device.of = dev[x].of
      /\ device.up = dev[x].up /\ device.master = dev[x].master
      /\ device.addrs = dev[x].addrs \cup {a} /\ device.routes = dev[x].routes
  BY <1>1 DEF DeviceType
<1>3. dev' = [dev EXCEPT ![x] = device] BY DEF With
<1> HIDE DEF device
<1> QED BY <1>2, <1>3, Changed

\* or a route.
LEMMA AddRoutesTo ==
  ASSUME DevInv, NEW x \in DOMAIN dev, Here = x, NEW r \in Nat,
         dev' = With("routes", dev[x].routes \cup {r})
  PROVE  /\ DevInv' /\ SameBut({x}) /\ x \in DOMAIN dev'
         /\ dev'[x].kind = dev[x].kind /\ dev'[x].of = dev[x].of
         /\ dev'[x].up = dev[x].up /\ dev'[x].master = dev[x].master
         /\ dev'[x].addrs = dev[x].addrs /\ dev'[x].routes = dev[x].routes \cup {r}
<1> DEFINE device == [dev[x] EXCEPT !["routes"] = dev[x].routes \cup {r}]
<1>1. dev[x] \in DeviceType BY DEF DevInv
<1>2. /\ device \in DeviceType /\ device.kind = dev[x].kind /\ device.of = dev[x].of
      /\ device.up = dev[x].up /\ device.master = dev[x].master
      /\ device.addrs = dev[x].addrs /\ device.routes = dev[x].routes \cup {r}
  BY <1>1 DEF DeviceType
<1>3. dev' = [dev EXCEPT ![x] = device] BY DEF With
<1> HIDE DEF device
<1> QED BY <1>2, <1>3, Changed

-----------------------------------------------------------------------------
(* Steps of a request.                                                       *)

\* FailuresHaveACause of one step.
Cause ==
  \A d \in Containers :
    state'[d] \in {"addFailed", "delFailed"} /\ state'[d] # state[d] => VNIOf[d] \in faulty'

\* A request that fails where a command failed by itself.
LEMMA Aborts ==
  ASSUME IInv, NEW c \in Containers, who = c, NEW v, v = VNIOf[c], Abort, dev' = dev,
         sandboxes' = sandboxes, leaked' = leaked,
         monitored' = monitored \/ monitored' = monitored \ {v},
         faulty' = faulty \cup {v}, faults' \in 0..MaxFaults
  PROVE  IInv' /\ Cause
<1> USE DEF Abort, End
<1>1. /\ BaseInv /\ RunInv /\ ContainerShape(c) /\ NetShape(v) /\ LifeOf(c)
      /\ v \in VNIs /\ c # Nil /\ state[c] \in {"out", "up", "delFailed"}
  BY LinksAssumption DEF IInv, ShapeInv, LifeInv, BaseInv, RunInv, AddInv, DelInv
<1>2. /\ who' = Nil /\ pos' = 0 /\ doing' = "ADD"
      /\ \A d \in Containers \ {c} : state'[d] = state[d]
      /\ state'[c] \in {"addFailed", "delFailed"}
      /\ doing = "ADD" => state'[c] = "addFailed"
      /\ state' \in [Containers -> {"out", "up", "addFailed", "delFailed"}]
  BY <1>1 DEF BaseInv
<1>3. \A x : Same(x) BY DEF Same
<1>4. OnlyFor(c)
  BY <1>2, <1>3 DEF OnlyFor, SameBut, Kept, Enslaved, IsUp, Has
<1>5. BaseInv' BY <1>1, <1>2 DEF BaseInv, DevInv
<1>6. ContainerShape(c)' BY <1>1 DEF ContainerShape, Has, OfContainer
<1>7. NetShape(v)' BY <1>1 DEF NetShape, Has
<1>8. LifeOf(c)'
  BY <1>1, <1>2 DEF LifeOf, RunInv, DelInv, Has, BaseInv
<1>9. RunInv' BY <1>2 DEF RunInv
<1>10. IInv' BY <1>4, <1>5, <1>6, <1>7, <1>8, <1>9, OneContainer
<1> QED BY <1>2, <1>10 DEF Cause

\* An ADD goes on.
AddEffect(c) ==
  LET v == VNIOf[c] IN
  /\ state' = state /\ who' = who /\ doing' = doing /\ pos' \in 1..(24 + Hops)
  /\ sandboxes' = sandboxes \/ sandboxes' = sandboxes \cup {v}
  /\ monitored' = monitored \/ (monitored' = monitored \cup {v} /\ v \in sandboxes)
  /\ leaked' = leaked /\ (faulty' = faulty \/ faulty' = faulty \cup {v})
  /\ faults' \in 0..MaxFaults

\* A step of an ADD that does not end it preserves the invariant if it does
\* so for its container and its net.
LEMMA AddGoesOn ==
  ASSUME IInv, NEW c \in Containers, who = c, doing = "ADD", NEW v, v = VNIOf[c],
         AddEffect(c), DevInv', SameBut(OfContainer(c) \cup OfNet(v)), Kept(c),
         ContainerShape(c)', NetShape(v)', AddInv(c)', v \notin faulty' => NetOf(v)'
  PROVE  IInv' /\ Cause
<1>1. /\ BaseInv /\ v \in VNIs /\ c # Nil
      /\ v \notin faulty => Clean(v)
  BY LinksAssumption DEF IInv, CleanInv
<1>2. /\ state' = state /\ who' = c /\ doing' = "ADD"
  BY DEF AddEffect
<1>3. OnlyFor(c)
  BY <1>2 DEF OnlyFor, AddEffect
<1>4. BaseInv'
  <2>1. /\ sandboxes' \subseteq VNIs /\ monitored' \subseteq sandboxes'
        /\ leaked' \subseteq VNIs
        /\ faulty' \subseteq VNIs /\ leaked' \subseteq faulty'
    BY <1>1 DEF BaseInv, AddEffect
  <2> QED BY <1>1, <1>2, <2>1 DEF BaseInv, AddEffect
<1>5. state[c] = "out"
  BY <1>1 DEF IInv, RunInv, AddInv
<1>6. LifeOf(c)'
  BY <1>2, <1>5 DEF LifeOf
<1>7. RunInv'
  BY <1>2 DEF RunInv
<1>8. ASSUME v \notin faulty' PROVE Clean(v)'
  <2>1. PortsOf(v) BY <1>1, <1>8 DEF AddEffect, Clean
  <2>2. \A d \in Containers \ {c} : Same(Port(d)) BY <1>3, OtherContainers
  <2>3. PortsOf(v)' BY <1>2, <2>1, <2>2 DEF PortsOf, Same, Has
  <2> QED BY <1>8, <2>3 DEF Clean
<1> QED BY <1>2, <1>3, <1>4, <1>6, <1>7, <1>8, OneContainer DEF Cause

\* What the invariant says of the container and the sandbox of a request.
LEMMA OwnFacts ==
  ASSUME IInv, NEW c \in Containers, who = c, NEW v, v = VNIOf[c]
  PROVE  /\ c # Nil /\ v \in VNIs /\ Hops \in Nat
         /\ BaseInv /\ DevInv /\ ContainerShape(c) /\ NetShape(v) /\ LifeOf(c)
         /\ doing = "ADD" => AddInv(c) /\ (pos >= 12 => Has(EthOf(c)))
         /\ doing = "DEL" => DelInv(c)
         /\ v \notin faulty => NetOf(v) /\ PortsOf(v)
         /\ Busy(v) /\ pos \in Nat /\ pos >= 1
         /\ {EthOf(c), Made(c), Port(c), Fresh(v), VxlanAt(v), BridgeAt(v), DnsAt(v)}
              \subseteq Places \cap (OfContainer(c) \cup OfNet(v))
<1>1. c # Nil /\ v \in VNIs BY LinksAssumption
<1>2. {EthOf(c), Made(c), Port(c), Fresh(v), VxlanAt(v), BridgeAt(v), DnsAt(v)}
        \subseteq Places \cap (OfContainer(c) \cup OfNet(v))
  BY <1>1, InPlaces DEF OfContainer, OfNet
<1>3. pos \in Nat /\ pos >= 1 BY <1>1, RoutesLen DEF IInv, BaseInv
<1>4. /\ doing = "ADD" => AddInv(c)
      /\ doing = "DEL" => DelInv(c)
  BY <1>1 DEF IInv, RunInv
<1>5. doing = "ADD" /\ pos >= 12 => Has(EthOf(c))
  <2>1. pos = 12 \/ pos >= 13 \/ pos < 12 BY <1>3
  <2>2. doing = "ADD" /\ pos >= 12 => Has(Made(c)) \/ Has(Port(c))
    BY <1>3, <1>4, <2>1 DEF AddInv
  <2>3. ContainerShape(c) BY DEF IInv, ShapeInv
  <2> QED BY <2>2, <2>3 DEF ContainerShape
<1> QED
  BY <1>1, <1>2, <1>3, <1>4, <1>5, RoutesLen
     DEF IInv, BaseInv, ShapeInv, LifeInv, CleanInv, Clean, Busy

\* A vxlan device is that of a net, before or after it is moved.
LEMMA VxlanWhere ==
  ASSUME IInv, NEW x \in DOMAIN dev, dev[x].kind = "vxlan"
  PROVE  \E w \in VNIs : dev[x].of = w /\ x \in {Fresh(w), VxlanAt(w)}
<1>1. x \in Places BY DEF IInv, BaseInv, DevInv
<1>2. ASSUME NEW d \in Containers, x \in OfContainer(d) PROVE FALSE
  BY <1>2 DEF IInv, ShapeInv, ContainerShape, Has
<1>3. PICK w \in VNIs : x \in OfNet(w) BY <1>1, <1>2, PlacesAre
<1>4. NetShape(w) BY DEF IInv, ShapeInv
<1>5. x # BridgeAt(w) /\ x # DnsAt(w) BY <1>4 DEF NetShape, Has
<1>6. x \in {Fresh(w), VxlanAt(w)} BY <1>3, <1>5 DEF OfNet
<1> QED BY <1>4, <1>6 DEF NetShape, Has

\* A veth device is that of a container, at one of its places.
LEMMA VethWhere ==
  ASSUME IInv, NEW x \in DOMAIN dev, dev[x].kind = "veth"
  PROVE  \E d \in Containers : dev[x].of = d /\ x \in OfContainer(d)
<1>1. x \in Places BY DEF IInv, BaseInv, DevInv
<1>2. ASSUME NEW w \in VNIs, x \in OfNet(w) PROVE FALSE
  BY <1>2 DEF IInv, ShapeInv, NetShape, Has, OfNet
<1>3. PICK d \in Containers : x \in OfContainer(d) BY <1>1, <1>2, PlacesAre
<1>4. ContainerShape(d) BY DEF IInv, ShapeInv
<1> QED BY <1>3, <1>4 DEF ContainerShape, Has

\* What a step leaves alone.
LEMMA ContainerSame ==
  ASSUME NEW c, ContainerShape(c), NEW v, v = VNIOf[c], NEW xs, SameBut(xs),
         xs \cap OfContainer(c) = {}, Has(BridgeAt(v)) => BridgeAt(v) \in DOMAIN dev'
  PROVE  ContainerShape(c)' /\ Same(EthOf(c)) /\ Same(Made(c)) /\ Same(Port(c))
<1>1. Same(EthOf(c)) /\ Same(Made(c)) /\ Same(Port(c)) BY DEF SameBut, OfContainer
<1> QED BY <1>1 DEF ContainerShape, OfContainer, Same, Has

\* A device that changes keeps its container in shape if its kind, its owner
\* and its master stay.
LEMMA ShapeKept ==
  ASSUME NEW c, ContainerShape(c), NEW x, Has(x), x \in DOMAIN dev', SameBut({x}),
         dev'[x].kind = dev[x].kind, dev'[x].of = dev[x].of,
         dev'[x].master = dev[x].master
  PROVE  ContainerShape(c)'
<1>1. \A y : Has(y)' <=> Has(y) BY DEF SameBut, Same, Has
<1>2. \A y : Has(y) => /\ dev'[y].kind = dev[y].kind /\ dev'[y].of = dev[y].of
                      /\ dev'[y].master = dev[y].master
  BY DEF SameBut, Same, Has
<1> HIDE DEF Has
<1> QED BY <1>1, <1>2 DEF ContainerShape

\* The same for a net.
LEMMA NetSame ==
  ASSUME NEW v, NetShape(v), NEW xs, SameBut(xs), xs \cap OfNet(v) = {},
         Has(Fresh(v)) => v \notin monitored'
  PROVE  /\ NetShape(v)'
         /\ Same(Fresh(v)) /\ Same(VxlanAt(v)) /\ Same(BridgeAt(v)) /\ Same(DnsAt(v))
<1>1. Same(Fresh(v)) /\ Same(VxlanAt(v)) /\ Same(BridgeAt(v)) /\ Same(DnsAt(v))
  BY DEF SameBut, OfNet
<1> QED BY <1>1 DEF NetShape, Same, Has

\* Whether somebody uses a sandbox depends on the states alone.
LEMMA SameUsed ==
  ASSUME NEW v, state' = state, who' = who
  PROVE  Used(v)' <=> Used(v)
BY DEF Used

\* A device that is moved is new at the other place and gone from the first.
LEMMA Moved ==
  ASSUME DevInv, NEW a \in DOMAIN dev, NEW b \in Places, a # b, b \notin DOMAIN dev,
         dev' = [x \in (DOMAIN dev \ {a}) \cup {b} |->
                   IF x = b THEN Device(dev[a].kind, dev[a].of) ELSE dev[x]]
  PROVE  /\ DevInv' /\ SameBut({a, b}) /\ a \notin DOMAIN dev' /\ b \in DOMAIN dev'
         /\ dev'[b].kind = dev[a].kind /\ dev'[b].of = dev[a].of
         /\ dev'[b].up = FALSE /\ dev'[b].master = Nil
         /\ dev'[b].addrs = {} /\ dev'[b].routes = {}
<1> DEFINE device == Device(dev[a].kind, dev[a].of)
<1>1. dev[a] \in DeviceType BY DEF DevInv
<1>2. dev[a].kind \in Kinds /\ dev[a].of \in Containers \cup VNIs \cup {Nil}
  BY <1>1 DEF DeviceType
<1>3. /\ device \in DeviceType
      /\ device.kind = dev[a].kind /\ device.of = dev[a].of
      /\ device.up = FALSE /\ device.master = Nil
      /\ device.addrs = {} /\ device.routes = {}
  BY <1>2, NewDevice
<1> HIDE DEF device
<1>4. DevInv' BY <1>3 DEF DevInv, device
<1> QED BY <1>3, <1>4 DEF SameBut, Same, device

\* An ADD that changes only devices of its net, and neither takes the bridge
\* away nor the vxlan device off it.
LEMMA AddInNet ==
  ASSUME IInv, NEW c \in Containers, who = c, doing = "ADD", NEW v, v = VNIOf[c],
         AddEffect(c), DevInv', SameBut(OfNet(v)),
         Has(BridgeAt(v)) => BridgeAt(v) \in DOMAIN dev',
         Enslaved(VxlanAt(v), Bridge(v)) =>
           /\ VxlanAt(v) \in DOMAIN dev'
           /\ dev'[VxlanAt(v)].up /\ dev'[VxlanAt(v)].master = Bridge(v),
         NetShape(v)', AddInv(c)', v \notin faulty' => NetOf(v)'
  PROVE  IInv' /\ Cause
<1>1. ContainerShape(c) BY DEF IInv, ShapeInv
<1>2. ContainerShape(c)'
  BY <1>1, ContainerNetApart, ContainerSame
<1>3. SameBut(OfContainer(c) \cup OfNet(v)) BY DEF SameBut
<1>4. Kept(c) BY DEF Kept
<1> QED BY <1>2, <1>3, <1>4, AddGoesOn

\* An ADD that changes only devices of its container.
LEMMA AddInContainer ==
  ASSUME IInv, NEW c \in Containers, who = c, doing = "ADD", NEW v, v = VNIOf[c],
         AddEffect(c), DevInv', SameBut(OfContainer(c)),
         Has(Fresh(v)) => v \notin monitored',
         ContainerShape(c)', AddInv(c)', v \notin faulty' => NetOf(v)'
  PROVE  IInv' /\ Cause
<1>1. NetShape(v) BY LinksAssumption DEF IInv, ShapeInv
<1>2. NetShape(v)' /\ Same(VxlanAt(v)) /\ Same(BridgeAt(v))
  BY <1>1, ContainerNetApart, NetSame
<1>3. SameBut(OfContainer(c) \cup OfNet(v)) BY DEF SameBut
<1>4. Kept(c) BY <1>2 DEF Kept, Same, Has, Enslaved, IsUp
<1> QED BY <1>2, <1>3, <1>4, AddGoesOn

-----------------------------------------------------------------------------
(* The commands of an ADD on devices, position by position.                  *)

\* No routes yet.
LEMMA RoutesToZero == RoutesTo(0) = {}
BY DEF RoutesTo

\* The sandbox is as it was where an ADD makes nothing in it: on its way from
\* StartMonitor to the bridge, and past the bridge.
LEMMA NetKept ==
  ASSUME IInv, NEW c \in Containers, who = c, doing = "ADD", NEW v, v = VNIOf[c],
         AddEffect(c), UNCHANGED <<sandboxes, monitored, faulty>>,
         \/ pos \in 11..(16 + Hops) /\ pos' \in 11..(16 + Hops)
         \/ pos >= 21 + Hops /\ pos' >= 21 + Hops,
         Fresh(v) \in DOMAIN dev' <=> Has(Fresh(v)),
         VxlanAt(v) \in DOMAIN dev' <=> Has(VxlanAt(v)),
         Same(DnsAt(v)), Same(BridgeAt(v))
  PROVE  v \notin faulty' => NetOf(v)'
<1> SUFFICES ASSUME v \notin faulty' PROVE NetOf(v)' OBVIOUS
<1>1. /\ SandboxOf(v) /\ VxlanOf(v) /\ DnsOf(v) /\ BridgeOf(v)
      /\ Busy(v) /\ Busy(v)' /\ doing = "ADD" /\ doing' = "ADD"
      /\ Hops \in Nat /\ pos \in Nat /\ pos' \in Nat
  BY OwnFacts DEF NetOf, AddEffect, Busy
<1>2. Used(v)' <=> Used(v) BY SameUsed DEF AddEffect
<1>3. /\ Past(v, 2) /\ Past(v, 4) /\ Past(v, 5) /\ Past(v, 10)
      /\ Past(v, 2)' /\ Past(v, 4)' /\ Past(v, 5)' /\ Past(v, 10)'
      /\ Past(v, 17 + Hops)' <=> Past(v, 17 + Hops)
  BY <1>1 DEF Past
<1>4. /\ ~Within(v, 2, 8)' /\ ~Within(v, 4, 4) /\ ~Within(v, 4, 4)'
      /\ ~Within(v, 6, 6) /\ ~Within(v, 6, 6)' /\ ~Within(v, 6, 7) /\ ~Within(v, 6, 7)'
      /\ ~Within(v, 17 + Hops, 20 + Hops)'
      /\ Within(v, 6, 20 + Hops)' <=> Within(v, 6, 20 + Hops)
  BY <1>1 DEF Within
<1>5. /\ ~Within(v, 18 + Hops, 18 + Hops) /\ ~Within(v, 18 + Hops, 18 + Hops)'
      /\ ~Within(v, 18 + Hops, 19 + Hops) /\ ~Within(v, 18 + Hops, 19 + Hops)'
  BY <1>1 DEF Within
<1>6. ~Held(v) /\ ~Held(v)' BY <1>1 DEF Held
<1>7. SandboxOf(v)' BY <1>1, <1>2, <1>3, <1>4, <1>6 DEF SandboxOf
<1>8. VxlanOf(v)' BY <1>1, <1>2, <1>3, <1>4, <1>6 DEF VxlanOf, Has
<1>9. DnsOf(v)' BY <1>1, <1>2, <1>3, <1>4, <1>6 DEF DnsOf, Same, Has
<1>10. BridgeOf(v)' BY <1>1, <1>2, <1>3, <1>5, <1>6 DEF BridgeOf, Same, Has
<1> QED BY <1>7, <1>8, <1>9, <1>10 DEF NetOf

\* The vxlan device is made.
LEMMA VxlanMade ==
  ASSUME IInv, LinkAddVxlan, NEW c \in Containers, who = c, NEW v, v = VNIOf[c],
         Adds(3), Now = CreateVxlan(v)
  PROVE  IInv' /\ Cause
<1> DEFINE ok == /\ Fresh(v) \notin DOMAIN dev /\ v \notin leaked
             /\ \A y \in DOMAIN dev : ~(dev[y].kind = "vxlan" /\ dev[y].of = v)
<1>1. /\ c # Nil /\ v \in VNIs /\ Hops \in Nat /\ doing = "ADD" /\ pos = 3 /\ Busy(v)
      /\ BaseInv /\ DevInv /\ ContainerShape(c) /\ NetShape(v) /\ AddInv(c)
      /\ pos >= 12 => Has(EthOf(c))
      /\ v \notin faulty => NetOf(v)
      /\ {Fresh(v)} \subseteq Places \cap OfNet(v)
  BY OwnFacts, OwnPlaces DEF Adds, OfNet, OfContainer
<1>2. Here = Fresh(v) /\ Now.arg = v
  BY DEF Here, Cmd, CreateVxlan, Fresh
<1>3. v \notin faulty => ok
  BY <1>1, <1>2, VxlanWhere
     DEF NetOf, SandboxOf, VxlanOf, DnsOf, BridgeOf, Within, Past, Held, Busy, Has, Found,
         BaseInv
<1>4. CASE ok
  <2>1. /\ dev' = And({Fresh(v)}, Device("vxlan", v)) /\ pos' = 4 /\ AddEffect(c)
        /\ UNCHANGED <<state, who, doing, sandboxes, monitored, leaked, faulty, faults>>
    BY <1>1, <1>2, <1>4 DEF LinkAddVxlan, Devices, Skip, AddEffect, BaseInv, Found
  <2>2. /\ DevInv' /\ SameBut({Fresh(v)})
        /\ Fresh(v) \in DOMAIN dev'
        /\ dev'[Fresh(v)].kind = "vxlan" /\ dev'[Fresh(v)].of = v /\ dev'[Fresh(v)].up = FALSE
        /\ dev'[Fresh(v)].master = Nil /\ dev'[Fresh(v)].addrs = {}
        /\ dev'[Fresh(v)].routes = {}
    BY <1>1, <2>1, AddedOne DEF Kinds
  <2>3. /\ Same(EthOf(c)) /\ Same(Made(c)) /\ Same(Port(c))
        /\ Same(VxlanAt(v)) /\ Same(BridgeAt(v)) /\ Same(DnsAt(v))
    BY <2>2, OwnPlaces DEF SameBut
  <2>4. Used(v)' <=> Used(v) BY <2>1, SameUsed
  <2>5. AddInv(c)'
    <3>1. /\ Hops \in Nat /\ pos = 3 /\ pos' = 4 /\ AddInv(c)
          /\ pos >= 12 => Has(EthOf(c))
      BY <1>1, <2>1
    <3>2. state' = state /\ sandboxes' = sandboxes /\ monitored' = monitored BY <2>1
    <3> QED BY ONLY <3>1, <3>2, <2>2, <2>3, v = VNIOf[c] DEF AddInv, Same, Has, IsUp
  <2>6. v \notin faulty' => NetOf(v)'
    <3> SUFFICES ASSUME v \notin faulty' PROVE NetOf(v)' OBVIOUS
    <3>1. /\ Past(v, 2) /\ ~Past(v, 4) /\ ~Past(v, 5) /\ ~Past(v, 10)
          /\ ~Past(v, 17 + Hops) /\ Within(v, 2, 8)
          /\ ~Within(v, 17 + Hops, 20 + Hops) /\ ~Within(v, 4, 4) /\ ~Within(v, 6, 6)
          /\ ~Within(v, 6, 7) /\ ~Within(v, 6, 20 + Hops)
          /\ ~Within(v, 18 + Hops, 18 + Hops) /\ ~Within(v, 18 + Hops, 19 + Hops)
          /\ ~Held(v)
      BY <1>1 DEF Past, Within, Held, Busy
    <3>2. /\ Past(v, 2)' /\ ~Past(v, 4)' /\ ~Past(v, 5)' /\ ~Past(v, 10)'
          /\ ~Past(v, 17 + Hops)' /\ Within(v, 2, 8)'
          /\ ~Within(v, 17 + Hops, 20 + Hops)' /\ Within(v, 4, 4)'
          /\ ~Within(v, 6, 6)' /\ ~Within(v, 6, 7)' /\ ~Within(v, 6, 20 + Hops)'
          /\ ~Within(v, 18 + Hops, 18 + Hops)' /\ ~Within(v, 18 + Hops, 19 + Hops)'
          /\ ~Held(v)'
      BY <1>1, <2>1 DEF Past, Within, Held, Busy
    <3>3. /\ SandboxOf(v) /\ VxlanOf(v) /\ DnsOf(v) /\ BridgeOf(v)
          /\ Within(v, 2, 8) \/ Within(v, 17 + Hops, 20 + Hops) => ~Used(v)
      BY <1>1, <2>1 DEF NetOf, SandboxOf
    <3>4. SandboxOf(v)' BY <1>1, <2>1, <2>4, <3>1, <3>2, <3>3 DEF SandboxOf
    <3>5. VxlanOf(v)' BY <2>2, <2>3, <2>4, <3>1, <3>2, <3>3 DEF VxlanOf, Same, Has
    <3>6. DnsOf(v)' BY <2>2, <2>3, <2>4, <3>1, <3>2, <3>3 DEF DnsOf, Same, Has
    <3>7. BridgeOf(v)' BY <2>2, <2>3, <2>4, <3>1, <3>2, <3>3 DEF BridgeOf, Same, Has
    <3> QED BY <3>4, <3>5, <3>6, <3>7 DEF NetOf
  <2>7. NetShape(v)'
    BY <1>1, <1>4, <2>1, <2>2, <2>3 DEF NetShape, Same, Has, AddInv
  <2>8. SameBut(OfNet(v)) BY <1>1, <2>2 DEF SameBut
  <2>9. /\ Has(BridgeAt(v)) => BridgeAt(v) \in DOMAIN dev'
        /\ Enslaved(VxlanAt(v), Bridge(v)) =>
             /\ VxlanAt(v) \in DOMAIN dev'
             /\ dev'[VxlanAt(v)].up /\ dev'[VxlanAt(v)].master = Bridge(v)
    BY <1>2, <1>4, <2>2, <2>3 DEF Same, Has, Enslaved, IsUp, Found
  <2> QED BY <1>1, <2>1, <2>2, <2>5, <2>6, <2>7, <2>8, <2>9, AddInNet
<1>5. CASE ~ok
  <2>1. /\ Abort /\ v \in faulty
        /\ UNCHANGED <<dev, sandboxes, leaked, monitored, faulty, faults>>
    BY <1>2, <1>3, <1>5 DEF LinkAddVxlan, Devices, Found
  <2> QED BY <1>1, <2>1, Aborts DEF BaseInv
<1> QED BY <1>4, <1>5

\* The dummy device is made.
LEMMA DummyMade ==
  ASSUME IInv, LinkAddDummy, NEW c \in Containers, who = c, NEW v, v = VNIOf[c],
         Adds(5), Now = CreateDummy(SandboxNS(v), Dns)
  PROVE  IInv' /\ Cause
<1> DEFINE ok == DnsAt(v) \notin DOMAIN dev
<1>1. /\ c # Nil /\ v \in VNIs /\ Hops \in Nat /\ doing = "ADD" /\ pos = 5 /\ Busy(v)
      /\ BaseInv /\ DevInv /\ ContainerShape(c) /\ NetShape(v) /\ AddInv(c)
      /\ pos >= 12 => Has(EthOf(c))
      /\ v \notin faulty => NetOf(v)
      /\ {DnsAt(v)} \subseteq Places \cap OfNet(v)
  BY OwnFacts, OwnPlaces DEF Adds, OfNet, OfContainer
<1>2. Here = DnsAt(v)
  BY DEF Here, Cmd, CreateDummy, DnsAt
<1>3. v \notin faulty => ok
  BY <1>1, <1>2
     DEF NetOf, SandboxOf, VxlanOf, DnsOf, BridgeOf, Within, Past, Held, Busy, Has, Found
<1>4. CASE ok
  <2>1. /\ dev' = And({DnsAt(v)}, Device("dummy", Nil)) /\ pos' = 6 /\ AddEffect(c)
        /\ UNCHANGED <<state, who, doing, sandboxes, monitored, leaked, faulty, faults>>
    BY <1>1, <1>2, <1>4 DEF LinkAddDummy, Devices, Skip, AddEffect, BaseInv, Found
  <2>2. /\ DevInv' /\ SameBut({DnsAt(v)})
        /\ DnsAt(v) \in DOMAIN dev'
        /\ dev'[DnsAt(v)].kind = "dummy" /\ dev'[DnsAt(v)].of = Nil /\ dev'[DnsAt(v)].up = FALSE
        /\ dev'[DnsAt(v)].master = Nil /\ dev'[DnsAt(v)].addrs = {}
        /\ dev'[DnsAt(v)].routes = {}
    BY <1>1, <2>1, AddedOne DEF Kinds
  <2>3. /\ Same(EthOf(c)) /\ Same(Made(c)) /\ Same(Port(c))
        /\ Same(Fresh(v)) /\ Same(VxlanAt(v)) /\ Same(BridgeAt(v))
    BY <2>2, OwnPlaces DEF SameBut
  <2>4. Used(v)' <=> Used(v) BY <2>1, SameUsed
  <2>5. AddInv(c)'
    <3>1. /\ Hops \in Nat /\ pos = 5 /\ pos' = 6 /\ AddInv(c)
          /\ pos >= 12 => Has(EthOf(c))
      BY <1>1, <2>1
    <3>2. state' = state /\ sandboxes' = sandboxes /\ monitored' = monitored BY <2>1
    <3> QED BY ONLY <3>1, <3>2, <2>2, <2>3, v = VNIOf[c] DEF AddInv, Same, Has, IsUp
  <2>6. v \notin faulty' => NetOf(v)'
    <3> SUFFICES ASSUME v \notin faulty' PROVE NetOf(v)' OBVIOUS
    <3>1. /\ Past(v, 2) /\ Past(v, 4) /\ ~Past(v, 5) /\ ~Past(v, 10)
          /\ ~Past(v, 17 + Hops) /\ Within(v, 2, 8)
          /\ ~Within(v, 17 + Hops, 20 + Hops) /\ ~Within(v, 4, 4) /\ ~Within(v, 6, 6)
          /\ ~Within(v, 6, 7) /\ ~Within(v, 6, 20 + Hops)
          /\ ~Within(v, 18 + Hops, 18 + Hops) /\ ~Within(v, 18 + Hops, 19 + Hops)
          /\ ~Held(v)
      BY <1>1 DEF Past, Within, Held, Busy
    <3>2. /\ Past(v, 2)' /\ Past(v, 4)' /\ Past(v, 5)' /\ ~Past(v, 10)'
          /\ ~Past(v, 17 + Hops)' /\ Within(v, 2, 8)'
          /\ ~Within(v, 17 + Hops, 20 + Hops)' /\ ~Within(v, 4, 4)'
          /\ Within(v, 6, 6)' /\ Within(v, 6, 7)' /\ Within(v, 6, 20 + Hops)'
          /\ ~Within(v, 18 + Hops, 18 + Hops)' /\ ~Within(v, 18 + Hops, 19 + Hops)'
          /\ ~Held(v)'
      BY <1>1, <2>1 DEF Past, Within, Held, Busy
    <3>3. /\ SandboxOf(v) /\ VxlanOf(v) /\ DnsOf(v) /\ BridgeOf(v)
          /\ Within(v, 2, 8) \/ Within(v, 17 + Hops, 20 + Hops) => ~Used(v)
      BY <1>1, <2>1 DEF NetOf, SandboxOf
    <3>4. SandboxOf(v)' BY <1>1, <2>1, <2>4, <3>1, <3>2, <3>3 DEF SandboxOf
    <3>5. VxlanOf(v)' BY <2>2, <2>3, <2>4, <3>1, <3>2, <3>3 DEF VxlanOf, Same, Has
    <3>6. DnsOf(v)' BY <2>2, <2>3, <2>4, <3>1, <3>2, <3>3 DEF DnsOf, Same, Has
    <3>7. BridgeOf(v)' BY <2>2, <2>3, <2>4, <3>1, <3>2, <3>3 DEF BridgeOf, Same, Has
    <3> QED BY <3>4, <3>5, <3>6, <3>7 DEF NetOf
  <2>7. NetShape(v)'
    BY <1>1, <1>4, <2>1, <2>2, <2>3 DEF NetShape, Same, Has, AddInv
  <2>8. SameBut(OfNet(v)) BY <1>1, <2>2 DEF SameBut
  <2>9. /\ Has(BridgeAt(v)) => BridgeAt(v) \in DOMAIN dev'
        /\ Enslaved(VxlanAt(v), Bridge(v)) =>
             /\ VxlanAt(v) \in DOMAIN dev'
             /\ dev'[VxlanAt(v)].up /\ dev'[VxlanAt(v)].master = Bridge(v)
    BY <1>2, <1>4, <2>2, <2>3 DEF Same, Has, Enslaved, IsUp, Found
  <2> QED BY <1>1, <2>1, <2>2, <2>5, <2>6, <2>7, <2>8, <2>9, AddInNet
<1>5. CASE ~ok
  <2>1. /\ Abort /\ v \in faulty
        /\ UNCHANGED <<dev, sandboxes, leaked, monitored, faulty, faults>>
    BY <1>2, <1>3, <1>5 DEF LinkAddDummy, Devices, Found
  <2> QED BY <1>1, <2>1, Aborts DEF BaseInv
<1> QED BY <1>4, <1>5

\* The bridge is made.
LEMMA BridgeMade ==
  ASSUME IInv, LinkAddBridge, NEW c \in Containers, who = c, NEW v, v = VNIOf[c],
         Adds(17 + Hops), Now = CreateBridge(SandboxNS(v), Bridge(v))
  PROVE  IInv' /\ Cause
<1> DEFINE ok == BridgeAt(v) \notin DOMAIN dev
<1>1. /\ c # Nil /\ v \in VNIs /\ Hops \in Nat /\ doing = "ADD" /\ pos = 17 + Hops /\ Busy(v)
      /\ BaseInv /\ DevInv /\ ContainerShape(c) /\ NetShape(v) /\ AddInv(c)
      /\ pos >= 12 => Has(EthOf(c))
      /\ v \notin faulty => NetOf(v)
      /\ {BridgeAt(v)} \subseteq Places \cap OfNet(v)
  BY OwnFacts, OwnPlaces DEF Adds, OfNet, OfContainer
<1>2. Here = BridgeAt(v)
  BY DEF Here, Cmd, CreateBridge, BridgeAt
<1>3. v \notin faulty => ok
  BY <1>1, <1>2
     DEF NetOf, SandboxOf, VxlanOf, DnsOf, BridgeOf, Within, Past, Held, Busy, Has, Found
<1>4. CASE ok
  <2>1. /\ dev' = And({BridgeAt(v)}, Device("bridge", Nil)) /\ pos' = 18 + Hops /\ AddEffect(c)
        /\ UNCHANGED <<state, who, doing, sandboxes, monitored, leaked, faulty, faults>>
    BY <1>1, <1>2, <1>4 DEF LinkAddBridge, Devices, Skip, AddEffect, BaseInv, Found
  <2>2. /\ DevInv' /\ SameBut({BridgeAt(v)})
        /\ BridgeAt(v) \in DOMAIN dev'
        /\ dev'[BridgeAt(v)].kind = "bridge" /\ dev'[BridgeAt(v)].of = Nil
        /\ dev'[BridgeAt(v)].up = FALSE
        /\ dev'[BridgeAt(v)].master = Nil /\ dev'[BridgeAt(v)].addrs = {}
        /\ dev'[BridgeAt(v)].routes = {}
    BY <1>1, <2>1, AddedOne DEF Kinds
  <2>3. /\ Same(EthOf(c)) /\ Same(Made(c)) /\ Same(Port(c))
        /\ Same(Fresh(v)) /\ Same(VxlanAt(v)) /\ Same(DnsAt(v))
    BY <2>2, OwnPlaces DEF SameBut
  <2>4. Used(v)' <=> Used(v) BY <2>1, SameUsed
  <2>5. AddInv(c)'
    <3>1. /\ Hops \in Nat /\ pos = 17 + Hops /\ pos' = 18 + Hops /\ AddInv(c)
          /\ pos >= 12 => Has(EthOf(c))
      BY <1>1, <2>1
    <3>2. state' = state /\ sandboxes' = sandboxes /\ monitored' = monitored BY <2>1
    <3> QED BY ONLY <3>1, <3>2, <2>2, <2>3, v = VNIOf[c] DEF AddInv, Same, Has, IsUp
  <2>6. v \notin faulty' => NetOf(v)'
    <3> SUFFICES ASSUME v \notin faulty' PROVE NetOf(v)' OBVIOUS
    <3>1. /\ Past(v, 2) /\ Past(v, 4) /\ Past(v, 5) /\ Past(v, 10)
          /\ ~Past(v, 17 + Hops) /\ ~Within(v, 2, 8)
          /\ Within(v, 17 + Hops, 20 + Hops) /\ ~Within(v, 4, 4) /\ ~Within(v, 6, 6)
          /\ ~Within(v, 6, 7) /\ Within(v, 6, 20 + Hops)
          /\ ~Within(v, 18 + Hops, 18 + Hops) /\ ~Within(v, 18 + Hops, 19 + Hops)
          /\ ~Held(v)
      BY <1>1 DEF Past, Within, Held, Busy
    <3>2. /\ Past(v, 2)' /\ Past(v, 4)' /\ Past(v, 5)' /\ Past(v, 10)'
          /\ Past(v, 17 + Hops)' /\ ~Within(v, 2, 8)'
          /\ Within(v, 17 + Hops, 20 + Hops)' /\ ~Within(v, 4, 4)'
          /\ ~Within(v, 6, 6)' /\ ~Within(v, 6, 7)' /\ Within(v, 6, 20 + Hops)'
          /\ Within(v, 18 + Hops, 18 + Hops)' /\ Within(v, 18 + Hops, 19 + Hops)'
          /\ ~Held(v)'
      BY <1>1, <2>1 DEF Past, Within, Held, Busy
    <3>3. /\ SandboxOf(v) /\ VxlanOf(v) /\ DnsOf(v) /\ BridgeOf(v)
          /\ Within(v, 2, 8) \/ Within(v, 17 + Hops, 20 + Hops) => ~Used(v)
      BY <1>1, <2>1 DEF NetOf, SandboxOf
    <3>4. SandboxOf(v)' BY <1>1, <2>1, <2>4, <3>1, <3>2, <3>3 DEF SandboxOf
    <3>5. VxlanOf(v)' BY <2>2, <2>3, <2>4, <3>1, <3>2, <3>3 DEF VxlanOf, Same, Has
    <3>6. DnsOf(v)' BY <2>2, <2>3, <2>4, <3>1, <3>2, <3>3 DEF DnsOf, Same, Has
    <3>7. BridgeOf(v)' BY <2>2, <2>3, <2>4, <3>1, <3>2, <3>3 DEF BridgeOf, Same, Has
    <3> QED BY <3>4, <3>5, <3>6, <3>7 DEF NetOf
  <2>7. NetShape(v)'
    BY <1>1, <1>4, <2>1, <2>2, <2>3 DEF NetShape, Same, Has, AddInv
  <2>8. SameBut(OfNet(v)) BY <1>1, <2>2 DEF SameBut
  <2>9. /\ Has(BridgeAt(v)) => BridgeAt(v) \in DOMAIN dev'
        /\ Enslaved(VxlanAt(v), Bridge(v)) =>
             /\ VxlanAt(v) \in DOMAIN dev'
             /\ dev'[VxlanAt(v)].up /\ dev'[VxlanAt(v)].master = Bridge(v)
    BY <1>2, <1>4, <2>2, <2>3 DEF Same, Has, Enslaved, IsUp, Found
  <2> QED BY <1>1, <2>1, <2>2, <2>5, <2>6, <2>7, <2>8, <2>9, AddInNet
<1>5. CASE ~ok
  <2>1. /\ Abort /\ v \in faulty
        /\ UNCHANGED <<dev, sandboxes, leaked, monitored, faulty, faults>>
    BY <1>2, <1>3, <1>5 DEF LinkAddBridge, Devices, Found
  <2> QED BY <1>1, <2>1, Aborts DEF BaseInv
<1> QED BY <1>4, <1>5

\* The DNS device is set up.
LEMMA DnsUp ==
  ASSUME IInv, LinkSetUp, NEW c \in Containers, who = c, NEW v, v = VNIOf[c],
         Adds(7), Now = SetLinkUp(SandboxNS(v), Dns)
  PROVE  IInv' /\ Cause
<1> DEFINE ok == DnsAt(v) \in DOMAIN dev
<1>1. /\ c # Nil /\ v \in VNIs /\ Hops \in Nat /\ doing = "ADD" /\ pos = 7 /\ Busy(v)
      /\ BaseInv /\ DevInv /\ ContainerShape(c) /\ NetShape(v) /\ AddInv(c)
      /\ pos >= 12 => Has(EthOf(c))
      /\ v \notin faulty => NetOf(v)
      /\ {DnsAt(v)} \subseteq Places \cap OfNet(v)
  BY OwnFacts, OwnPlaces DEF Adds, OfNet, OfContainer
<1>2. Here = DnsAt(v)
  BY DEF Here, Cmd, SetLinkUp, DnsAt
<1>3. v \notin faulty => ok
  BY <1>1, <1>2
     DEF NetOf, SandboxOf, VxlanOf, DnsOf, BridgeOf, Within, Past, Held, Busy, Has, Found
<1>4. CASE ok
  <2>1. /\ dev' = With("up", TRUE) /\ pos' = 8 /\ AddEffect(c)
        /\ UNCHANGED <<state, who, doing, sandboxes, monitored, leaked, faulty, faults>>
    BY <1>1, <1>2, <1>4 DEF LinkSetUp, Devices, Skip, AddEffect, BaseInv, Found
  <2>2. /\ DevInv' /\ SameBut({DnsAt(v)})
        /\ DnsAt(v) \in DOMAIN dev'
        /\ dev'[DnsAt(v)].kind = dev[DnsAt(v)].kind /\ dev'[DnsAt(v)].of = dev[DnsAt(v)].of
        /\ dev'[DnsAt(v)].up = TRUE /\ dev'[DnsAt(v)].master = dev[DnsAt(v)].master
        /\ dev'[DnsAt(v)].addrs = dev[DnsAt(v)].addrs
        /\ dev'[DnsAt(v)].routes = dev[DnsAt(v)].routes
    BY <1>1, <1>2, <1>4, <2>1, SetUp
  <2>3. /\ Same(EthOf(c)) /\ Same(Made(c)) /\ Same(Port(c))
        /\ Same(Fresh(v)) /\ Same(VxlanAt(v)) /\ Same(BridgeAt(v))
    BY <2>2, OwnPlaces DEF SameBut
  <2>4. Used(v)' <=> Used(v) BY <2>1, SameUsed
  <2>5. AddInv(c)'
    <3>1. /\ Hops \in Nat /\ pos = 7 /\ pos' = 8 /\ AddInv(c)
          /\ pos >= 12 => Has(EthOf(c))
      BY <1>1, <2>1
    <3>2. state' = state /\ sandboxes' = sandboxes /\ monitored' = monitored BY <2>1
    <3> QED BY ONLY <3>1, <3>2, <2>2, <2>3, v = VNIOf[c] DEF AddInv, Same, Has, IsUp
  <2>6. v \notin faulty' => NetOf(v)'
    <3> SUFFICES ASSUME v \notin faulty' PROVE NetOf(v)' OBVIOUS
    <3>1. /\ Past(v, 2) /\ Past(v, 4) /\ Past(v, 5) /\ ~Past(v, 10)
          /\ ~Past(v, 17 + Hops) /\ Within(v, 2, 8)
          /\ ~Within(v, 17 + Hops, 20 + Hops) /\ ~Within(v, 4, 4) /\ ~Within(v, 6, 6)
          /\ Within(v, 6, 7) /\ Within(v, 6, 20 + Hops)
          /\ ~Within(v, 18 + Hops, 18 + Hops) /\ ~Within(v, 18 + Hops, 19 + Hops)
          /\ ~Held(v)
      BY <1>1 DEF Past, Within, Held, Busy
    <3>2. /\ Past(v, 2)' /\ Past(v, 4)' /\ Past(v, 5)' /\ ~Past(v, 10)'
          /\ ~Past(v, 17 + Hops)' /\ Within(v, 2, 8)'
          /\ ~Within(v, 17 + Hops, 20 + Hops)' /\ ~Within(v, 4, 4)'
          /\ ~Within(v, 6, 6)' /\ ~Within(v, 6, 7)' /\ Within(v, 6, 20 + Hops)'
          /\ ~Within(v, 18 + Hops, 18 + Hops)' /\ ~Within(v, 18 + Hops, 19 + Hops)'
          /\ ~Held(v)'
      BY <1>1, <2>1 DEF Past, Within, Held, Busy
    <3>3. /\ SandboxOf(v) /\ VxlanOf(v) /\ DnsOf(v) /\ BridgeOf(v)
          /\ Within(v, 2, 8) \/ Within(v, 17 + Hops, 20 + Hops) => ~Used(v)
      BY <1>1, <2>1 DEF NetOf, SandboxOf
    <3>4. SandboxOf(v)' BY <1>1, <2>1, <2>4, <3>1, <3>2, <3>3 DEF SandboxOf
    <3>5. VxlanOf(v)' BY <2>2, <2>3, <2>4, <3>1, <3>2, <3>3 DEF VxlanOf, Same, Has
    <3>6. DnsOf(v)' BY <2>2, <2>3, <2>4, <3>1, <3>2, <3>3 DEF DnsOf, Same, Has
    <3>7. BridgeOf(v)' BY <2>2, <2>3, <2>4, <3>1, <3>2, <3>3 DEF BridgeOf, Same, Has
    <3> QED BY <3>4, <3>5, <3>6, <3>7 DEF NetOf
  <2>7. NetShape(v)'
    <3>1. /\ DnsAt(v) \in DOMAIN dev' /\ dev'[DnsAt(v)].kind = dev[DnsAt(v)].kind
          /\ dev'[DnsAt(v)].of = dev[DnsAt(v)].of
          /\ dev'[DnsAt(v)].master = dev[DnsAt(v)].master
          /\ DnsAt(v) \in DOMAIN dev /\ NetShape(v) /\ monitored' = monitored
      BY <1>1, <1>4, <2>1, <2>2
    <3> QED BY ONLY <3>1, <2>3 DEF NetShape, Same, Has
  <2>8. SameBut(OfNet(v)) BY <1>1, <2>2 DEF SameBut
  <2>9. /\ Has(BridgeAt(v)) => BridgeAt(v) \in DOMAIN dev'
        /\ Enslaved(VxlanAt(v), Bridge(v)) =>
             /\ VxlanAt(v) \in DOMAIN dev'
             /\ dev'[VxlanAt(v)].up /\ dev'[VxlanAt(v)].master = Bridge(v)
    BY <1>2, <1>4, <2>2, <2>3 DEF Same, Has, Enslaved, IsUp, Found
  <2> QED BY <1>1, <2>1, <2>2, <2>5, <2>6, <2>7, <2>8, <2>9, AddInNet
<1>5. CASE ~ok
  <2>1. /\ Abort /\ v \in faulty
        /\ UNCHANGED <<dev, sandboxes, leaked, monitored, faulty, faults>>
    BY <1>2, <1>3, <1>5 DEF LinkSetUp, Devices, Found
  <2> QED BY <1>1, <2>1, Aborts DEF BaseInv
<1> QED BY <1>4, <1>5

\* The vxlan device is set up.
LEMMA VxlanUp ==
  ASSUME IInv, LinkSetUp, NEW c \in Containers, who = c, NEW v, v = VNIOf[c],
         Adds(9), Now = SetLinkUp(SandboxNS(v), Vxlan(v))
  PROVE  IInv' /\ Cause
<1> DEFINE ok == VxlanAt(v) \in DOMAIN dev
<1>1. /\ c # Nil /\ v \in VNIs /\ Hops \in Nat /\ doing = "ADD" /\ pos = 9 /\ Busy(v)
      /\ BaseInv /\ DevInv /\ ContainerShape(c) /\ NetShape(v) /\ AddInv(c)
      /\ pos >= 12 => Has(EthOf(c))
      /\ v \notin faulty => NetOf(v)
      /\ {VxlanAt(v)} \subseteq Places \cap OfNet(v)
  BY OwnFacts, OwnPlaces DEF Adds, OfNet, OfContainer
<1>2. Here = VxlanAt(v)
  BY DEF Here, Cmd, SetLinkUp, VxlanAt
<1>3. v \notin faulty => ok
  BY <1>1, <1>2
     DEF NetOf, SandboxOf, VxlanOf, DnsOf, BridgeOf, Within, Past, Held, Busy, Has, Found,
         AddInv
<1>4. CASE ok
  <2>1. /\ dev' = With("up", TRUE) /\ pos' = 10 /\ AddEffect(c)
        /\ UNCHANGED <<state, who, doing, sandboxes, monitored, leaked, faulty, faults>>
    BY <1>1, <1>2, <1>4 DEF LinkSetUp, Devices, Skip, AddEffect, BaseInv, Found
  <2>2. /\ DevInv' /\ SameBut({VxlanAt(v)})
        /\ VxlanAt(v) \in DOMAIN dev'
        /\ dev'[VxlanAt(v)].kind = dev[VxlanAt(v)].kind
        /\ dev'[VxlanAt(v)].of = dev[VxlanAt(v)].of
        /\ dev'[VxlanAt(v)].up = TRUE /\ dev'[VxlanAt(v)].master = dev[VxlanAt(v)].master
        /\ dev'[VxlanAt(v)].addrs = dev[VxlanAt(v)].addrs
        /\ dev'[VxlanAt(v)].routes = dev[VxlanAt(v)].routes
    BY <1>1, <1>2, <1>4, <2>1, SetUp
  <2>3. /\ Same(EthOf(c)) /\ Same(Made(c)) /\ Same(Port(c))
        /\ Same(Fresh(v)) /\ Same(BridgeAt(v)) /\ Same(DnsAt(v))
    BY <2>2, OwnPlaces DEF SameBut
  <2>4. Used(v)' <=> Used(v) BY <2>1, SameUsed
  <2>5. AddInv(c)'
    <3>1. /\ Hops \in Nat /\ pos = 9 /\ pos' = 10 /\ AddInv(c)
          /\ pos >= 12 => Has(EthOf(c))
      BY <1>1, <2>1
    <3>2. state' = state /\ sandboxes' = sandboxes /\ monitored' = monitored BY <2>1
    <3> QED BY ONLY <3>1, <3>2, <2>2, <2>3, v = VNIOf[c] DEF AddInv, Same, Has, IsUp
  <2>6. v \notin faulty' => NetOf(v)'
    <3> SUFFICES ASSUME v \notin faulty' PROVE NetOf(v)' OBVIOUS
    <3>1. /\ Past(v, 2) /\ Past(v, 4) /\ Past(v, 5) /\ ~Past(v, 10)
          /\ ~Past(v, 17 + Hops) /\ ~Within(v, 2, 8)
          /\ ~Within(v, 17 + Hops, 20 + Hops) /\ ~Within(v, 4, 4) /\ ~Within(v, 6, 6)
          /\ ~Within(v, 6, 7) /\ Within(v, 6, 20 + Hops)
          /\ ~Within(v, 18 + Hops, 18 + Hops) /\ ~Within(v, 18 + Hops, 19 + Hops)
          /\ ~Held(v)
      BY <1>1 DEF Past, Within, Held, Busy
    <3>2. /\ Past(v, 2)' /\ Past(v, 4)' /\ Past(v, 5)' /\ ~Past(v, 10)'
          /\ ~Past(v, 17 + Hops)' /\ ~Within(v, 2, 8)'
          /\ ~Within(v, 17 + Hops, 20 + Hops)' /\ ~Within(v, 4, 4)'
          /\ ~Within(v, 6, 6)' /\ ~Within(v, 6, 7)' /\ Within(v, 6, 20 + Hops)'
          /\ ~Within(v, 18 + Hops, 18 + Hops)' /\ ~Within(v, 18 + Hops, 19 + Hops)'
          /\ ~Held(v)'
      BY <1>1, <2>1 DEF Past, Within, Held, Busy
    <3>3. /\ SandboxOf(v) /\ VxlanOf(v) /\ DnsOf(v) /\ BridgeOf(v)
          /\ Within(v, 2, 8) \/ Within(v, 17 + Hops, 20 + Hops) => ~Used(v)
      BY <1>1, <2>1 DEF NetOf, SandboxOf
    <3>4. SandboxOf(v)' BY <1>1, <2>1, <2>4, <3>1, <3>2, <3>3 DEF SandboxOf
    <3>5. VxlanOf(v)' BY <2>2, <2>3, <2>4, <3>1, <3>2, <3>3 DEF VxlanOf, Same, Has
    <3>6. DnsOf(v)' BY <2>2, <2>3, <2>4, <3>1, <3>2, <3>3 DEF DnsOf, Same, Has
    <3>7. BridgeOf(v)' BY <2>2, <2>3, <2>4, <3>1, <3>2, <3>3 DEF BridgeOf, Same, Has
    <3> QED BY <3>4, <3>5, <3>6, <3>7 DEF NetOf
  <2>7. NetShape(v)'
    <3>1. /\ VxlanAt(v) \in DOMAIN dev' /\ dev'[VxlanAt(v)].kind = dev[VxlanAt(v)].kind
          /\ dev'[VxlanAt(v)].of = dev[VxlanAt(v)].of
          /\ dev'[VxlanAt(v)].master = dev[VxlanAt(v)].master
          /\ VxlanAt(v) \in DOMAIN dev /\ NetShape(v) /\ monitored' = monitored
      BY <1>1, <1>4, <2>1, <2>2
    <3> QED BY ONLY <3>1, <2>3 DEF NetShape, Same, Has
  <2>8. SameBut(OfNet(v)) BY <1>1, <2>2 DEF SameBut
  <2>9. /\ Has(BridgeAt(v)) => BridgeAt(v) \in DOMAIN dev'
        /\ Enslaved(VxlanAt(v), Bridge(v)) =>
             /\ VxlanAt(v) \in DOMAIN dev'
             /\ dev'[VxlanAt(v)].up /\ dev'[VxlanAt(v)].master = Bridge(v)
    BY <1>2, <1>4, <2>2, <2>3 DEF Same, Has, Enslaved, IsUp, Found
  <2> QED BY <1>1, <2>1, <2>2, <2>5, <2>6, <2>7, <2>8, <2>9, AddInNet
<1>5. CASE ~ok
  <2>1. /\ Abort /\ v \in faulty
        /\ UNCHANGED <<dev, sandboxes, leaked, monitored, faulty, faults>>
    BY <1>2, <1>3, <1>5 DEF LinkSetUp, Devices, Found
  <2> QED BY <1>1, <2>1, Aborts DEF BaseInv
<1> QED BY <1>4, <1>5

\* The container's device is set up.
LEMMA EthUp ==
  ASSUME IInv, LinkSetUp, NEW c \in Containers, who = c, NEW v, v = VNIOf[c],
         Adds(14), Now = SetLinkUp(ContainerNS(c), Eth)
  PROVE  IInv' /\ Cause
<1> DEFINE ok == EthOf(c) \in DOMAIN dev
<1>1. /\ c # Nil /\ v \in VNIs /\ Hops \in Nat /\ doing = "ADD" /\ pos = 14 /\ Busy(v)
      /\ BaseInv /\ DevInv /\ ContainerShape(c) /\ NetShape(v) /\ AddInv(c)
      /\ pos >= 12 => Has(EthOf(c))
      /\ v \notin faulty => NetOf(v)
      /\ {EthOf(c)} \subseteq Places \cap OfContainer(c)
  BY OwnFacts, OwnPlaces DEF Adds, OfNet, OfContainer
<1>2. Here = EthOf(c)
  BY DEF Here, Cmd, SetLinkUp, EthOf
<1>3. v \notin faulty => ok
  BY <1>1, <1>2
     DEF NetOf, SandboxOf, VxlanOf, DnsOf, BridgeOf, Within, Past, Held, Busy, Has, Found,
         AddInv
<1>4. CASE ok
  <2>1. /\ dev' = With("up", TRUE) /\ pos' = 15 /\ AddEffect(c)
        /\ UNCHANGED <<state, who, doing, sandboxes, monitored, leaked, faulty, faults>>
    BY <1>1, <1>2, <1>4 DEF LinkSetUp, Devices, Skip, AddEffect, BaseInv, Found
  <2>2. /\ DevInv' /\ SameBut({EthOf(c)})
        /\ EthOf(c) \in DOMAIN dev'
        /\ dev'[EthOf(c)].kind = dev[EthOf(c)].kind /\ dev'[EthOf(c)].of = dev[EthOf(c)].of
        /\ dev'[EthOf(c)].up = TRUE /\ dev'[EthOf(c)].master = dev[EthOf(c)].master
        /\ dev'[EthOf(c)].addrs = dev[EthOf(c)].addrs
        /\ dev'[EthOf(c)].routes = dev[EthOf(c)].routes
    BY <1>1, <1>2, <1>4, <2>1, SetUp
  <2>3. /\ Same(Made(c)) /\ Same(Port(c)) /\ Same(Fresh(v))
        /\ Same(VxlanAt(v)) /\ Same(BridgeAt(v)) /\ Same(DnsAt(v))
    BY <2>2, OwnPlaces DEF SameBut
  <2>4. AddInv(c)'
    <3>1. /\ Hops \in Nat /\ pos = 14 /\ pos' = 15 /\ AddInv(c)
          /\ pos >= 12 => Has(EthOf(c))
      BY <1>1, <2>1
    <3>2. state' = state /\ sandboxes' = sandboxes /\ monitored' = monitored BY <2>1
    <3> QED
      BY ONLY <3>1, <3>2, <2>2, <2>3, v = VNIOf[c], RoutesToZero
         DEF AddInv, Same, Has, IsUp
  <2>5. v \notin faulty' => NetOf(v)'
    <3>1. /\ Fresh(v) \in DOMAIN dev' <=> Has(Fresh(v))
          /\ VxlanAt(v) \in DOMAIN dev' <=> Has(VxlanAt(v))
          /\ Same(DnsAt(v)) /\ Same(BridgeAt(v))
      BY <1>4, <2>2, <2>3 DEF Same, Has
    <3>2. \/ pos \in 11..(16 + Hops) /\ pos' \in 11..(16 + Hops)
          \/ pos >= 21 + Hops /\ pos' >= 21 + Hops
      BY <1>1, <2>1
    <3> QED BY <1>1, <2>1, <3>1, <3>2, NetKept
  <2>6. ContainerShape(c)'
    BY <1>1, <1>4, <2>2, ShapeKept DEF Has
  <2>7. SameBut(OfContainer(c)) BY <1>1, <2>2 DEF SameBut
  <2>8. Has(Fresh(v)) => v \notin monitored' BY <1>1, <2>1 DEF NetShape
  <2> QED BY <1>1, <2>1, <2>2, <2>4, <2>5, <2>6, <2>7, <2>8, AddInContainer
<1>5. CASE ~ok
  <2>1. /\ Abort /\ v \in faulty
        /\ UNCHANGED <<dev, sandboxes, leaked, monitored, faulty, faults>>
    BY <1>2, <1>3, <1>5 DEF LinkSetUp, Devices, Found
  <2> QED BY <1>1, <2>1, Aborts DEF BaseInv
<1> QED BY <1>4, <1>5

\* The container's port is set up.
LEMMA PortUp ==
  ASSUME IInv, LinkSetUp, NEW c \in Containers, who = c, NEW v, v = VNIOf[c],
         Adds(15 + Hops), Now = SetLinkUp(SandboxNS(v), NameSandboxLink(c))
  PROVE  IInv' /\ Cause
<1> DEFINE ok == Port(c) \in DOMAIN dev
<1>1. /\ c # Nil /\ v \in VNIs /\ Hops \in Nat /\ doing = "ADD" /\ pos = 15 + Hops /\ Busy(v)
      /\ BaseInv /\ DevInv /\ ContainerShape(c) /\ NetShape(v) /\ AddInv(c)
      /\ pos >= 12 => Has(EthOf(c))
      /\ v \notin faulty => NetOf(v)
      /\ {Port(c)} \subseteq Places \cap OfContainer(c)
  BY OwnFacts, OwnPlaces DEF Adds, OfNet, OfContainer
<1>2. Here = Port(c)
  BY DEF Here, Cmd, SetLinkUp, Port
<1>3. v \notin faulty => ok
  BY <1>1, <1>2
     DEF NetOf, SandboxOf, VxlanOf, DnsOf, BridgeOf, Within, Past, Held, Busy, Has, Found,
         AddInv
<1>4. CASE ok
  <2>1. /\ dev' = With("up", TRUE) /\ pos' = 16 + Hops /\ AddEffect(c)
        /\ UNCHANGED <<state, who, doing, sandboxes, monitored, leaked, faulty, faults>>
    BY <1>1, <1>2, <1>4 DEF LinkSetUp, Devices, Skip, AddEffect, BaseInv, Found
  <2>2. /\ DevInv' /\ SameBut({Port(c)})
        /\ Port(c) \in DOMAIN dev'
        /\ dev'[Port(c)].kind = dev[Port(c)].kind /\ dev'[Port(c)].of = dev[Port(c)].of
        /\ dev'[Port(c)].up = TRUE /\ dev'[Port(c)].master = dev[Port(c)].master
        /\ dev'[Port(c)].addrs = dev[Port(c)].addrs
        /\ dev'[Port(c)].routes = dev[Port(c)].routes
    BY <1>1, <1>2, <1>4, <2>1, SetUp
  <2>3. /\ Same(EthOf(c)) /\ Same(Made(c)) /\ Same(Fresh(v))
        /\ Same(VxlanAt(v)) /\ Same(BridgeAt(v)) /\ Same(DnsAt(v))
    BY <2>2, OwnPlaces DEF SameBut
  <2>4. AddInv(c)'
    <3>1. /\ Hops \in Nat /\ pos = 15 + Hops /\ pos' = 16 + Hops /\ AddInv(c)
          /\ pos >= 12 => Has(EthOf(c))
      BY <1>1, <2>1
    <3>2. state' = state /\ sandboxes' = sandboxes /\ monitored' = monitored BY <2>1
    <3> QED BY ONLY <3>1, <3>2, <2>2, <2>3, v = VNIOf[c] DEF AddInv, Same, Has, IsUp
  <2>5. v \notin faulty' => NetOf(v)'
    <3>1. /\ Fresh(v) \in DOMAIN dev' <=> Has(Fresh(v))
          /\ VxlanAt(v) \in DOMAIN dev' <=> Has(VxlanAt(v))
          /\ Same(DnsAt(v)) /\ Same(BridgeAt(v))
      BY <1>4, <2>2, <2>3 DEF Same, Has
    <3>2. \/ pos \in 11..(16 + Hops) /\ pos' \in 11..(16 + Hops)
          \/ pos >= 21 + Hops /\ pos' >= 21 + Hops
      BY <1>1, <2>1
    <3> QED BY <1>1, <2>1, <3>1, <3>2, NetKept
  <2>6. ContainerShape(c)'
    BY <1>1, <1>4, <2>2, ShapeKept DEF Has
  <2>7. SameBut(OfContainer(c)) BY <1>1, <2>2 DEF SameBut
  <2>8. Has(Fresh(v)) => v \notin monitored' BY <1>1, <2>1 DEF NetShape
  <2> QED BY <1>1, <2>1, <2>2, <2>4, <2>5, <2>6, <2>7, <2>8, AddInContainer
<1>5. CASE ~ok
  <2>1. /\ Abort /\ v \in faulty
        /\ UNCHANGED <<dev, sandboxes, leaked, monitored, faulty, faults>>
    BY <1>2, <1>3, <1>5 DEF LinkSetUp, Devices, Found
  <2> QED BY <1>1, <2>1, Aborts DEF BaseInv
<1> QED BY <1>4, <1>5

\* The bridge is set up.
LEMMA BridgeUp ==
  ASSUME IInv, LinkSetUp, NEW c \in Containers, who = c, NEW v, v = VNIOf[c],
         Adds(19 + Hops), Now = SetLinkUp(SandboxNS(v), Bridge(v))
  PROVE  IInv' /\ Cause
<1> DEFINE ok == BridgeAt(v) \in DOMAIN dev
<1>1. /\ c # Nil /\ v \in VNIs /\ Hops \in Nat /\ doing = "ADD" /\ pos = 19 + Hops /\ Busy(v)
      /\ BaseInv /\ DevInv /\ ContainerShape(c) /\ NetShape(v) /\ AddInv(c)
      /\ pos >= 12 => Has(EthOf(c))
      /\ v \notin faulty => NetOf(v)
      /\ {BridgeAt(v)} \subseteq Places \cap OfNet(v)
  BY OwnFacts, OwnPlaces DEF Adds, OfNet, OfContainer
<1>2. Here = BridgeAt(v)
  BY DEF Here, Cmd, SetLinkUp, BridgeAt
<1>3. v \notin faulty => ok
  BY <1>1, <1>2
     DEF NetOf, SandboxOf, VxlanOf, DnsOf, BridgeOf, Within, Past, Held, Busy, Has, Found
<1>4. CASE ok
  <2>1. /\ dev' = With("up", TRUE) /\ pos' = 20 + Hops /\ AddEffect(c)
        /\ UNCHANGED <<state, who, doing, sandboxes, monitored, leaked, faulty, faults>>
    BY <1>1, <1>2, <1>4 DEF LinkSetUp, Devices, Skip, AddEffect, BaseInv, Found
  <2>2. /\ DevInv' /\ SameBut({BridgeAt(v)})
        /\ BridgeAt(v) \in DOMAIN dev'
        /\ dev'[BridgeAt(v)].kind = dev[BridgeAt(v)].kind
        /\ dev'[BridgeAt(v)].of = dev[BridgeAt(v)].of
        /\ dev'[BridgeAt(v)].up = TRUE /\ dev'[BridgeAt(v)].master = dev[BridgeAt(v)].master
        /\ dev'[BridgeAt(v)].addrs = dev[BridgeAt(v)].addrs
        /\ dev'[BridgeAt(v)].routes = dev[BridgeAt(v)].routes
    BY <1>1, <1>2, <1>4, <2>1, SetUp
  <2>3. /\ Same(EthOf(c)) /\ Same(Made(c)) /\ Same(Port(c))
        /\ Same(Fresh(v)) /\ Same(VxlanAt(v)) /\ Same(DnsAt(v))
    BY <2>2, OwnPlaces DEF SameBut
  <2>4. Used(v)' <=> Used(v) BY <2>1, SameUsed
  <2>5. AddInv(c)'
    <3>1. /\ Hops \in Nat /\ pos = 19 + Hops /\ pos' = 20 + Hops /\ AddInv(c)
          /\ pos >= 12 => Has(EthOf(c))
      BY <1>1, <2>1
    <3>2. state' = state /\ sandboxes' = sandboxes /\ monitored' = monitored BY <2>1
    <3> QED BY ONLY <3>1, <3>2, <2>2, <2>3, v = VNIOf[c] DEF AddInv, Same, Has, IsUp
  <2>6. v \notin faulty' => NetOf(v)'
    <3> SUFFICES ASSUME v \notin faulty' PROVE NetOf(v)' OBVIOUS
    <3>1. /\ Past(v, 2) /\ Past(v, 4) /\ Past(v, 5) /\ Past(v, 10)
          /\ Past(v, 17 + Hops) /\ ~Within(v, 2, 8) /\ Within(v, 17 + Hops, 20 + Hops)
          /\ ~Within(v, 4, 4) /\ ~Within(v, 6, 6) /\ ~Within(v, 6, 7)
          /\ Within(v, 6, 20 + Hops) /\ ~Within(v, 18 + Hops, 18 + Hops)
          /\ Within(v, 18 + Hops, 19 + Hops) /\ ~Held(v)
      BY <1>1 DEF Past, Within, Held, Busy
    <3>2. /\ Past(v, 2)' /\ Past(v, 4)' /\ Past(v, 5)' /\ Past(v, 10)'
          /\ Past(v, 17 + Hops)' /\ ~Within(v, 2, 8)'
          /\ Within(v, 17 + Hops, 20 + Hops)' /\ ~Within(v, 4, 4)'
          /\ ~Within(v, 6, 6)' /\ ~Within(v, 6, 7)' /\ Within(v, 6, 20 + Hops)'
          /\ ~Within(v, 18 + Hops, 18 + Hops)' /\ ~Within(v, 18 + Hops, 19 + Hops)'
          /\ ~Held(v)'
      BY <1>1, <2>1 DEF Past, Within, Held, Busy
    <3>3. /\ SandboxOf(v) /\ VxlanOf(v) /\ DnsOf(v) /\ BridgeOf(v)
          /\ Within(v, 2, 8) \/ Within(v, 17 + Hops, 20 + Hops) => ~Used(v)
      BY <1>1, <2>1 DEF NetOf, SandboxOf
    <3>4. SandboxOf(v)' BY <1>1, <2>1, <2>4, <3>1, <3>2, <3>3 DEF SandboxOf
    <3>5. VxlanOf(v)' BY <2>2, <2>3, <2>4, <3>1, <3>2, <3>3 DEF VxlanOf, Same, Has
    <3>6. DnsOf(v)' BY <2>2, <2>3, <2>4, <3>1, <3>2, <3>3 DEF DnsOf, Same, Has
    <3>7. BridgeOf(v)' BY <2>2, <2>3, <2>4, <3>1, <3>2, <3>3 DEF BridgeOf, Same, Has
    <3> QED BY <3>4, <3>5, <3>6, <3>7 DEF NetOf
  <2>7. NetShape(v)'
    <3>1. /\ BridgeAt(v) \in DOMAIN dev' /\ dev'[BridgeAt(v)].kind = dev[BridgeAt(v)].kind
          /\ dev'[BridgeAt(v)].of = dev[BridgeAt(v)].of
          /\ dev'[BridgeAt(v)].master = dev[BridgeAt(v)].master
          /\ BridgeAt(v) \in DOMAIN dev /\ NetShape(v) /\ monitored' = monitored
      BY <1>1, <1>4, <2>1, <2>2
    <3> QED BY ONLY <3>1, <2>3 DEF NetShape, Same, Has
  <2>8. SameBut(OfNet(v)) BY <1>1, <2>2 DEF SameBut
  <2>9. /\ Has(BridgeAt(v)) => BridgeAt(v) \in DOMAIN dev'
        /\ Enslaved(VxlanAt(v), Bridge(v)) =>
             /\ VxlanAt(v) \in DOMAIN dev'
             /\ dev'[VxlanAt(v)].up /\ dev'[VxlanAt(v)].master = Bridge(v)
    BY <1>2, <1>4, <2>2, <2>3 DEF Same, Has, Enslaved, IsUp, Found
  <2> QED BY <1>1, <2>1, <2>2, <2>5, <2>6, <2>7, <2>8, <2>9, AddInNet
<1>5. CASE ~ok
  <2>1. /\ Abort /\ v \in faulty
        /\ UNCHANGED <<dev, sandboxes, leaked, monitored, faulty, faults>>
    BY <1>2, <1>3, <1>5 DEF LinkSetUp, Devices, Found
  <2> QED BY <1>1, <2>1, Aborts DEF BaseInv
<1> QED BY <1>4, <1>5

\* The DNS device gets its address.
LEMMA DnsAddress ==
  ASSUME IInv, AddrAdd, NEW c \in Containers, who = c, NEW v, v = VNIOf[c],
         Adds(6), Now = AddAddress(SandboxNS(v), Dns, DNS)
  PROVE  IInv' /\ Cause
<1> DEFINE ok == DnsAt(v) \in DOMAIN dev /\ DNS \notin dev[DnsAt(v)].addrs
<1>1. /\ c # Nil /\ v \in VNIs /\ Hops \in Nat /\ doing = "ADD" /\ pos = 6 /\ Busy(v)
      /\ BaseInv /\ DevInv /\ ContainerShape(c) /\ NetShape(v) /\ AddInv(c)
      /\ pos >= 12 => Has(EthOf(c))
      /\ v \notin faulty => NetOf(v)
      /\ {DnsAt(v)} \subseteq Places \cap OfNet(v)
  BY OwnFacts, OwnPlaces DEF Adds, OfNet, OfContainer
<1>2. Here = DnsAt(v) /\ Now.arg = DNS
  BY DEF Here, Cmd, AddAddress, DnsAt
<1>3. v \notin faulty => ok
  BY <1>1, <1>2
     DEF NetOf, SandboxOf, VxlanOf, DnsOf, BridgeOf, Within, Past, Held, Busy, Has, Found
<1>4. CASE ok
  <2>1. /\ dev' = With("addrs", dev[DnsAt(v)].addrs \cup {DNS}) /\ pos' = 7 /\ AddEffect(c)
        /\ UNCHANGED <<state, who, doing, sandboxes, monitored, leaked, faulty, faults>>
    BY <1>1, <1>2, <1>4 DEF AddrAdd, Devices, Skip, AddEffect, BaseInv, Found
  <2>2. /\ DevInv' /\ SameBut({DnsAt(v)})
        /\ DnsAt(v) \in DOMAIN dev'
        /\ dev'[DnsAt(v)].kind = dev[DnsAt(v)].kind /\ dev'[DnsAt(v)].of = dev[DnsAt(v)].of
        /\ dev'[DnsAt(v)].up = dev[DnsAt(v)].up /\ dev'[DnsAt(v)].master = dev[DnsAt(v)].master
        /\ dev'[DnsAt(v)].addrs = dev[DnsAt(v)].addrs \cup {DNS}
        /\ dev'[DnsAt(v)].routes = dev[DnsAt(v)].routes
    BY <1>1, <1>2, <1>4, <2>1, AddAddrs
  <2>3. /\ Same(EthOf(c)) /\ Same(Made(c)) /\ Same(Port(c))
        /\ Same(Fresh(v)) /\ Same(VxlanAt(v)) /\ Same(BridgeAt(v))
    BY <2>2, OwnPlaces DEF SameBut
  <2>4. Used(v)' <=> Used(v) BY <2>1, SameUsed
  <2>5. AddInv(c)'
    <3>1. /\ Hops \in Nat /\ pos = 6 /\ pos' = 7 /\ AddInv(c)
          /\ pos >= 12 => Has(EthOf(c))
      BY <1>1, <2>1
    <3>2. state' = state /\ sandboxes' = sandboxes /\ monitored' = monitored BY <2>1
    <3> QED BY ONLY <3>1, <3>2, <2>2, <2>3, v = VNIOf[c] DEF AddInv, Same, Has, IsUp
  <2>6. v \notin faulty' => NetOf(v)'
    <3> SUFFICES ASSUME v \notin faulty' PROVE NetOf(v)' OBVIOUS
    <3>1. /\ Past(v, 2) /\ Past(v, 4) /\ Past(v, 5) /\ ~Past(v, 10)
          /\ ~Past(v, 17 + Hops) /\ Within(v, 2, 8)
          /\ ~Within(v, 17 + Hops, 20 + Hops) /\ ~Within(v, 4, 4) /\ Within(v, 6, 6)
          /\ Within(v, 6, 7) /\ Within(v, 6, 20 + Hops)
          /\ ~Within(v, 18 + Hops, 18 + Hops) /\ ~Within(v, 18 + Hops, 19 + Hops)
          /\ ~Held(v)
      BY <1>1 DEF Past, Within, Held, Busy
    <3>2. /\ Past(v, 2)' /\ Past(v, 4)' /\ Past(v, 5)' /\ ~Past(v, 10)'
          /\ ~Past(v, 17 + Hops)' /\ Within(v, 2, 8)'
          /\ ~Within(v, 17 + Hops, 20 + Hops)' /\ ~Within(v, 4, 4)'
          /\ ~Within(v, 6, 6)' /\ Within(v, 6, 7)' /\ Within(v, 6, 20 + Hops)'
          /\ ~Within(v, 18 + Hops, 18 + Hops)' /\ ~Within(v, 18 + Hops, 19 + Hops)'
          /\ ~Held(v)'
      BY <1>1, <2>1 DEF Past, Within, Held, Busy
    <3>3. /\ SandboxOf(v) /\ VxlanOf(v) /\ DnsOf(v) /\ BridgeOf(v)
          /\ Within(v, 2, 8) \/ Within(v, 17 + Hops, 20 + Hops) => ~Used(v)
      BY <1>1, <2>1 DEF NetOf, SandboxOf
    <3>4. SandboxOf(v)' BY <1>1, <2>1, <2>4, <3>1, <3>2, <3>3 DEF SandboxOf
    <3>5. VxlanOf(v)' BY <2>2, <2>3, <2>4, <3>1, <3>2, <3>3 DEF VxlanOf, Same, Has
    <3>6. DnsOf(v)' BY <2>2, <2>3, <2>4, <3>1, <3>2, <3>3 DEF DnsOf, Same, Has
    <3>7. BridgeOf(v)' BY <2>2, <2>3, <2>4, <3>1, <3>2, <3>3 DEF BridgeOf, Same, Has
    <3> QED BY <3>4, <3>5, <3>6, <3>7 DEF NetOf
  <2>7. NetShape(v)'
    BY <1>1, <1>4, <2>1, <2>2, <2>3 DEF NetShape, Same, Has, AddInv
  <2>8. SameBut(OfNet(v)) BY <1>1, <2>2 DEF SameBut
  <2>9. /\ Has(BridgeAt(v)) => BridgeAt(v) \in DOMAIN dev'
        /\ Enslaved(VxlanAt(v), Bridge(v)) =>
             /\ VxlanAt(v) \in DOMAIN dev'
             /\ dev'[VxlanAt(v)].up /\ dev'[VxlanAt(v)].master = Bridge(v)
    BY <1>2, <1>4, <2>2, <2>3 DEF Same, Has, Enslaved, IsUp, Found
  <2> QED BY <1>1, <2>1, <2>2, <2>5, <2>6, <2>7, <2>8, <2>9, AddInNet
<1>5. CASE ~ok
  <2>1. /\ Abort /\ v \in faulty
        /\ UNCHANGED <<dev, sandboxes, leaked, monitored, faulty, faults>>
    BY <1>2, <1>3, <1>5 DEF AddrAdd, Devices, Found
  <2> QED BY <1>1, <2>1, Aborts DEF BaseInv
<1> QED BY <1>4, <1>5

\* The container's device gets its address.
LEMMA EthAddress ==
  ASSUME IInv, AddrAdd, NEW c \in Containers, who = c, NEW v, v = VNIOf[c],
         Adds(13), Now = AddAddress(ContainerNS(c), Eth, c)
  PROVE  IInv' /\ Cause
<1> DEFINE ok == EthOf(c) \in DOMAIN dev /\ c \notin dev[EthOf(c)].addrs
<1>1. /\ c # Nil /\ v \in VNIs /\ Hops \in Nat /\ doing = "ADD" /\ pos = 13 /\ Busy(v)
      /\ BaseInv /\ DevInv /\ ContainerShape(c) /\ NetShape(v) /\ AddInv(c)
      /\ pos >= 12 => Has(EthOf(c))
      /\ v \notin faulty => NetOf(v)
      /\ {EthOf(c)} \subseteq Places \cap OfContainer(c)
  BY OwnFacts, OwnPlaces DEF Adds, OfNet, OfContainer
<1>2. Here = EthOf(c) /\ Now.arg = c
  BY DEF Here, Cmd, AddAddress, EthOf
<1>3. v \notin faulty => ok
  BY <1>1, <1>2
     DEF NetOf, SandboxOf, VxlanOf, DnsOf, BridgeOf, Within, Past, Held, Busy, Has, Found,
         AddInv
<1>4. CASE ok
  <2>1. /\ dev' = With("addrs", dev[EthOf(c)].addrs \cup {c}) /\ pos' = 14 /\ AddEffect(c)
        /\ UNCHANGED <<state, who, doing, sandboxes, monitored, leaked, faulty, faults>>
    BY <1>1, <1>2, <1>4 DEF AddrAdd, Devices, Skip, AddEffect, BaseInv, Found
  <2>2. /\ DevInv' /\ SameBut({EthOf(c)})
        /\ EthOf(c) \in DOMAIN dev'
        /\ dev'[EthOf(c)].kind = dev[EthOf(c)].kind /\ dev'[EthOf(c)].of = dev[EthOf(c)].of
        /\ dev'[EthOf(c)].up = dev[EthOf(c)].up /\ dev'[EthOf(c)].master = dev[EthOf(c)].master
        /\ dev'[EthOf(c)].addrs = dev[EthOf(c)].addrs \cup {c}
        /\ dev'[EthOf(c)].routes = dev[EthOf(c)].routes
    BY <1>1, <1>2, <1>4, <2>1, AddAddrs
  <2>3. /\ Same(Made(c)) /\ Same(Port(c)) /\ Same(Fresh(v))
        /\ Same(VxlanAt(v)) /\ Same(BridgeAt(v)) /\ Same(DnsAt(v))
    BY <2>2, OwnPlaces DEF SameBut
  <2>4. AddInv(c)'
    <3>1. /\ Hops \in Nat /\ pos = 13 /\ pos' = 14 /\ AddInv(c)
          /\ pos >= 12 => Has(EthOf(c))
      BY <1>1, <2>1
    <3>2. state' = state /\ sandboxes' = sandboxes /\ monitored' = monitored BY <2>1
    <3> QED BY ONLY <3>1, <3>2, <2>2, <2>3, v = VNIOf[c] DEF AddInv, Same, Has, IsUp
  <2>5. v \notin faulty' => NetOf(v)'
    <3>1. /\ Fresh(v) \in DOMAIN dev' <=> Has(Fresh(v))
          /\ VxlanAt(v) \in DOMAIN dev' <=> Has(VxlanAt(v))
          /\ Same(DnsAt(v)) /\ Same(BridgeAt(v))
      BY <1>4, <2>2, <2>3 DEF Same, Has
    <3>2. \/ pos \in 11..(16 + Hops) /\ pos' \in 11..(16 + Hops)
          \/ pos >= 21 + Hops /\ pos' >= 21 + Hops
      BY <1>1, <2>1
    <3> QED BY <1>1, <2>1, <3>1, <3>2, NetKept
  <2>6. ContainerShape(c)'
    BY <1>1, <1>4, <2>2, ShapeKept DEF Has
  <2>7. SameBut(OfContainer(c)) BY <1>1, <2>2 DEF SameBut
  <2>8. Has(Fresh(v)) => v \notin monitored' BY <1>1, <2>1 DEF NetShape
  <2> QED BY <1>1, <2>1, <2>2, <2>4, <2>5, <2>6, <2>7, <2>8, AddInContainer
<1>5. CASE ~ok
  <2>1. /\ Abort /\ v \in faulty
        /\ UNCHANGED <<dev, sandboxes, leaked, monitored, faulty, faults>>
    BY <1>2, <1>3, <1>5 DEF AddrAdd, Devices, Found
  <2> QED BY <1>1, <2>1, Aborts DEF BaseInv
<1> QED BY <1>4, <1>5

\* The bridge gets the address of the gateway.
LEMMA BridgeAddress ==
  ASSUME IInv, AddrAdd, NEW c \in Containers, who = c, NEW v, v = VNIOf[c],
         Adds(18 + Hops), Now = AddAddress(SandboxNS(v), Bridge(v), Gateway)
  PROVE  IInv' /\ Cause
<1> DEFINE ok == BridgeAt(v) \in DOMAIN dev /\ Gateway \notin dev[BridgeAt(v)].addrs
<1>1. /\ c # Nil /\ v \in VNIs /\ Hops \in Nat /\ doing = "ADD" /\ pos = 18 + Hops /\ Busy(v)
      /\ BaseInv /\ DevInv /\ ContainerShape(c) /\ NetShape(v) /\ AddInv(c)
      /\ pos >= 12 => Has(EthOf(c))
      /\ v \notin faulty => NetOf(v)
      /\ {BridgeAt(v)} \subseteq Places \cap OfNet(v)
  BY OwnFacts, OwnPlaces DEF Adds, OfNet, OfContainer
<1>2. Here = BridgeAt(v) /\ Now.arg = Gateway
  BY DEF Here, Cmd, AddAddress, BridgeAt
<1>3. v \notin faulty => ok
  BY <1>1, <1>2
     DEF NetOf, SandboxOf, VxlanOf, DnsOf, BridgeOf, Within, Past, Held, Busy, Has, Found
<1>4. CASE ok
  <2>1. /\ dev' = With("addrs", dev[BridgeAt(v)].addrs \cup {Gateway}) /\ pos' = 19 + Hops
        /\ AddEffect(c)
        /\ UNCHANGED <<state, who, doing, sandboxes, monitored, leaked, faulty, faults>>
    BY <1>1, <1>2, <1>4 DEF AddrAdd, Devices, Skip, AddEffect, BaseInv, Found
  <2>2. /\ DevInv' /\ SameBut({BridgeAt(v)})
        /\ BridgeAt(v) \in DOMAIN dev'
        /\ dev'[BridgeAt(v)].kind = dev[BridgeAt(v)].kind
        /\ dev'[BridgeAt(v)].of = dev[BridgeAt(v)].of
        /\ dev'[BridgeAt(v)].up = dev[BridgeAt(v)].up
        /\ dev'[BridgeAt(v)].master = dev[BridgeAt(v)].master
        /\ dev'[BridgeAt(v)].addrs = dev[BridgeAt(v)].addrs \cup {Gateway}
        /\ dev'[BridgeAt(v)].routes = dev[BridgeAt(v)].routes
    BY <1>1, <1>2, <1>4, <2>1, AddAddrs
  <2>3. /\ Same(EthOf(c)) /\ Same(Made(c)) /\ Same(Port(c))
        /\ Same(Fresh(v)) /\ Same(VxlanAt(v)) /\ Same(DnsAt(v))
    BY <2>2, OwnPlaces DEF SameBut
  <2>4. Used(v)' <=> Used(v) BY <2>1, SameUsed
  <2>5. AddInv(c)'
    <3>1. /\ Hops \in Nat /\ pos = 18 + Hops /\ pos' = 19 + Hops /\ AddInv(c)
          /\ pos >= 12 => Has(EthOf(c))
      BY <1>1, <2>1
    <3>2. state' = state /\ sandboxes' = sandboxes /\ monitored' = monitored BY <2>1
    <3> QED BY ONLY <3>1, <3>2, <2>2, <2>3, v = VNIOf[c] DEF AddInv, Same, Has, IsUp
  <2>6. v \notin faulty' => NetOf(v)'
    <3> SUFFICES ASSUME v \notin faulty' PROVE NetOf(v)' OBVIOUS
    <3>1. /\ Past(v, 2) /\ Past(v, 4) /\ Past(v, 5) /\ Past(v, 10)
          /\ Past(v, 17 + Hops) /\ ~Within(v, 2, 8) /\ Within(v, 17 + Hops, 20 + Hops)
          /\ ~Within(v, 4, 4) /\ ~Within(v, 6, 6) /\ ~Within(v, 6, 7)
          /\ Within(v, 6, 20 + Hops) /\ Within(v, 18 + Hops, 18 + Hops)
          /\ Within(v, 18 + Hops, 19 + Hops) /\ ~Held(v)
      BY <1>1 DEF Past, Within, Held, Busy
    <3>2. /\ Past(v, 2)' /\ Past(v, 4)' /\ Past(v, 5)' /\ Past(v, 10)'
          /\ Past(v, 17 + Hops)' /\ ~Within(v, 2, 8)'
          /\ Within(v, 17 + Hops, 20 + Hops)' /\ ~Within(v, 4, 4)'
          /\ ~Within(v, 6, 6)' /\ ~Within(v, 6, 7)' /\ Within(v, 6, 20 + Hops)'
          /\ ~Within(v, 18 + Hops, 18 + Hops)' /\ Within(v, 18 + Hops, 19 + Hops)'
          /\ ~Held(v)'
      BY <1>1, <2>1 DEF Past, Within, Held, Busy
    <3>3. /\ SandboxOf(v) /\ VxlanOf(v) /\ DnsOf(v) /\ BridgeOf(v)
          /\ Within(v, 2, 8) \/ Within(v, 17 + Hops, 20 + Hops) => ~Used(v)
      BY <1>1, <2>1 DEF NetOf, SandboxOf
    <3>4. SandboxOf(v)' BY <1>1, <2>1, <2>4, <3>1, <3>2, <3>3 DEF SandboxOf
    <3>5. VxlanOf(v)' BY <2>2, <2>3, <2>4, <3>1, <3>2, <3>3 DEF VxlanOf, Same, Has
    <3>6. DnsOf(v)' BY <2>2, <2>3, <2>4, <3>1, <3>2, <3>3 DEF DnsOf, Same, Has
    <3>7. BridgeOf(v)' BY <2>2, <2>3, <2>4, <3>1, <3>2, <3>3 DEF BridgeOf, Same, Has
    <3> QED BY <3>4, <3>5, <3>6, <3>7 DEF NetOf
  <2>7. NetShape(v)'
    BY <1>1, <1>4, <2>1, <2>2, <2>3 DEF NetShape, Same, Has, AddInv
  <2>8. SameBut(OfNet(v)) BY <1>1, <2>2 DEF SameBut
  <2>9. /\ Has(BridgeAt(v)) => BridgeAt(v) \in DOMAIN dev'
        /\ Enslaved(VxlanAt(v), Bridge(v)) =>
             /\ VxlanAt(v) \in DOMAIN dev'
             /\ dev'[VxlanAt(v)].up /\ dev'[VxlanAt(v)].master = Bridge(v)
    BY <1>2, <1>4, <2>2, <2>3 DEF Same, Has, Enslaved, IsUp, Found
  <2> QED BY <1>1, <2>1, <2>2, <2>5, <2>6, <2>7, <2>8, <2>9, AddInNet
<1>5. CASE ~ok
  <2>1. /\ Abort /\ v \in faulty
        /\ UNCHANGED <<dev, sandboxes, leaked, monitored, faulty, faults>>
    BY <1>2, <1>3, <1>5 DEF AddrAdd, Devices, Found
  <2> QED BY <1>1, <2>1, Aborts DEF BaseInv
<1> QED BY <1>4, <1>5

\* The DNS device is put on the bridge.
LEMMA DnsEnslaved ==
  ASSUME IInv, LinkSetMaster, NEW c \in Containers, who = c, NEW v, v = VNIOf[c],
         Adds(20 + Hops), Now = SetLinkMaster(SandboxNS(v), Dns, Bridge(v))
  PROVE  IInv' /\ Cause
<1> DEFINE ok == /\ BridgeAt(v) \in DOMAIN dev /\ dev[BridgeAt(v)].kind = "bridge"
             /\ DnsAt(v) \in DOMAIN dev
<1>1. /\ c # Nil /\ v \in VNIs /\ Hops \in Nat /\ doing = "ADD" /\ pos = 20 + Hops /\ Busy(v)
      /\ BaseInv /\ DevInv /\ ContainerShape(c) /\ NetShape(v) /\ AddInv(c)
      /\ pos >= 12 => Has(EthOf(c))
      /\ v \notin faulty => NetOf(v)
      /\ {DnsAt(v)} \subseteq Places \cap OfNet(v)
  BY OwnFacts, OwnPlaces DEF Adds, OfNet, OfContainer
<1>2. Here = DnsAt(v) /\ <<Now.in, Now.arg>> = BridgeAt(v) /\ Now.arg = Bridge(v)
  BY DEF Here, Cmd, SetLinkMaster, DnsAt, BridgeAt
<1>3. v \notin faulty => ok
  BY <1>1, <1>2
     DEF NetOf, SandboxOf, VxlanOf, DnsOf, BridgeOf, Within, Past, Held, Busy, Has, Found,
         NetShape, AddInv
<1>4. CASE ok
  <2>1. /\ dev' = With("master", Bridge(v)) /\ pos' = 21 + Hops /\ AddEffect(c)
        /\ UNCHANGED <<state, who, doing, sandboxes, monitored, leaked, faulty, faults>>
    BY <1>1, <1>2, <1>4 DEF LinkSetMaster, Devices, Skip, AddEffect, BaseInv, Found
  <2>2. /\ DevInv' /\ SameBut({DnsAt(v)})
        /\ DnsAt(v) \in DOMAIN dev'
        /\ dev'[DnsAt(v)].kind = dev[DnsAt(v)].kind /\ dev'[DnsAt(v)].of = dev[DnsAt(v)].of
        /\ dev'[DnsAt(v)].up = dev[DnsAt(v)].up /\ dev'[DnsAt(v)].master = Bridge(v)
        /\ dev'[DnsAt(v)].addrs = dev[DnsAt(v)].addrs
        /\ dev'[DnsAt(v)].routes = dev[DnsAt(v)].routes
    BY <1>1, <1>2, <1>4, <2>1, SetMaster
  <2>3. /\ Same(EthOf(c)) /\ Same(Made(c)) /\ Same(Port(c))
        /\ Same(Fresh(v)) /\ Same(VxlanAt(v)) /\ Same(BridgeAt(v))
    BY <2>2, OwnPlaces DEF SameBut
  <2>4. Used(v)' <=> Used(v) BY <2>1, SameUsed
  <2>5. AddInv(c)'
    <3>1. /\ Hops \in Nat /\ pos = 20 + Hops /\ pos' = 21 + Hops /\ AddInv(c)
          /\ pos >= 12 => Has(EthOf(c))
      BY <1>1, <2>1
    <3>2. state' = state /\ sandboxes' = sandboxes /\ monitored' = monitored BY <2>1
    <3> QED BY ONLY <3>1, <3>2, <2>2, <2>3, v = VNIOf[c] DEF AddInv, Same, Has, IsUp
  <2>6. v \notin faulty' => NetOf(v)'
    <3> SUFFICES ASSUME v \notin faulty' PROVE NetOf(v)' OBVIOUS
    <3>1. /\ Past(v, 2) /\ Past(v, 4) /\ Past(v, 5) /\ Past(v, 10)
          /\ Past(v, 17 + Hops) /\ ~Within(v, 2, 8) /\ Within(v, 17 + Hops, 20 + Hops)
          /\ ~Within(v, 4, 4) /\ ~Within(v, 6, 6) /\ ~Within(v, 6, 7)
          /\ Within(v, 6, 20 + Hops) /\ ~Within(v, 18 + Hops, 18 + Hops)
          /\ ~Within(v, 18 + Hops, 19 + Hops) /\ ~Held(v)
      BY <1>1 DEF Past, Within, Held, Busy
    <3>2. /\ Past(v, 2)' /\ Past(v, 4)' /\ Past(v, 5)' /\ Past(v, 10)'
          /\ Past(v, 17 + Hops)' /\ ~Within(v, 2, 8)'
          /\ ~Within(v, 17 + Hops, 20 + Hops)' /\ ~Within(v, 4, 4)'
          /\ ~Within(v, 6, 6)' /\ ~Within(v, 6, 7)' /\ ~Within(v, 6, 20 + Hops)'
          /\ ~Within(v, 18 + Hops, 18 + Hops)' /\ ~Within(v, 18 + Hops, 19 + Hops)'
          /\ ~Held(v)'
      BY <1>1, <2>1 DEF Past, Within, Held, Busy
    <3>3. /\ SandboxOf(v) /\ VxlanOf(v) /\ DnsOf(v) /\ BridgeOf(v)
          /\ Within(v, 2, 8) \/ Within(v, 17 + Hops, 20 + Hops) => ~Used(v)
      BY <1>1, <2>1 DEF NetOf, SandboxOf
    <3>4. SandboxOf(v)' BY <1>1, <2>1, <2>4, <3>1, <3>2, <3>3 DEF SandboxOf
    <3>5. VxlanOf(v)' BY <2>2, <2>3, <2>4, <3>1, <3>2, <3>3 DEF VxlanOf, Same, Has
    <3>6. DnsOf(v)' BY <2>2, <2>3, <2>4, <3>1, <3>2, <3>3 DEF DnsOf, Same, Has
    <3>7. BridgeOf(v)' BY <2>2, <2>3, <2>4, <3>1, <3>2, <3>3 DEF BridgeOf, Same, Has
    <3> QED BY <3>4, <3>5, <3>6, <3>7 DEF NetOf
  <2>7. NetShape(v)'
    BY <1>1, <1>4, <2>1, <2>2, <2>3 DEF NetShape, Same, Has, AddInv
  <2>8. SameBut(OfNet(v)) BY <1>1, <2>2 DEF SameBut
  <2>9. /\ Has(BridgeAt(v)) => BridgeAt(v) \in DOMAIN dev'
        /\ Enslaved(VxlanAt(v), Bridge(v)) =>
             /\ VxlanAt(v) \in DOMAIN dev'
             /\ dev'[VxlanAt(v)].up /\ dev'[VxlanAt(v)].master = Bridge(v)
    BY <1>2, <1>4, <2>2, <2>3 DEF Same, Has, Enslaved, IsUp, Found
  <2> QED BY <1>1, <2>1, <2>2, <2>5, <2>6, <2>7, <2>8, <2>9, AddInNet
<1>5. CASE ~ok
  <2>1. /\ Abort /\ v \in faulty
        /\ UNCHANGED <<dev, sandboxes, leaked, monitored, faulty, faults>>
    BY <1>2, <1>3, <1>5 DEF LinkSetMaster, Devices, Found
  <2> QED BY <1>1, <2>1, Aborts DEF BaseInv
<1> QED BY <1>4, <1>5

\* The vxlan device is put on the bridge.
LEMMA VxlanEnslaved ==
  ASSUME IInv, LinkSetMaster, NEW c \in Containers, who = c, NEW v, v = VNIOf[c],
         Adds(21 + Hops), Now = SetLinkMaster(SandboxNS(v), Vxlan(v), Bridge(v))
  PROVE  IInv' /\ Cause
<1> DEFINE ok == /\ BridgeAt(v) \in DOMAIN dev /\ dev[BridgeAt(v)].kind = "bridge"
             /\ VxlanAt(v) \in DOMAIN dev
<1>1. /\ c # Nil /\ v \in VNIs /\ Hops \in Nat /\ doing = "ADD" /\ pos = 21 + Hops /\ Busy(v)
      /\ BaseInv /\ DevInv /\ ContainerShape(c) /\ NetShape(v) /\ AddInv(c)
      /\ pos >= 12 => Has(EthOf(c))
      /\ v \notin faulty => NetOf(v)
      /\ {VxlanAt(v)} \subseteq Places \cap OfNet(v)
  BY OwnFacts, OwnPlaces DEF Adds, OfNet, OfContainer
<1>2. Here = VxlanAt(v) /\ <<Now.in, Now.arg>> = BridgeAt(v) /\ Now.arg = Bridge(v)
  BY DEF Here, Cmd, SetLinkMaster, VxlanAt, BridgeAt
<1>3. v \notin faulty => ok
  BY <1>1, <1>2
     DEF NetOf, SandboxOf, VxlanOf, DnsOf, BridgeOf, Within, Past, Held, Busy, Has, Found,
         NetShape, AddInv
<1>4. CASE ok
  <2>1. /\ dev' = With("master", Bridge(v)) /\ pos' = 22 + Hops /\ AddEffect(c)
        /\ UNCHANGED <<state, who, doing, sandboxes, monitored, leaked, faulty, faults>>
    BY <1>1, <1>2, <1>4 DEF LinkSetMaster, Devices, Skip, AddEffect, BaseInv, Found
  <2>2. /\ DevInv' /\ SameBut({VxlanAt(v)})
        /\ VxlanAt(v) \in DOMAIN dev'
        /\ dev'[VxlanAt(v)].kind = dev[VxlanAt(v)].kind
        /\ dev'[VxlanAt(v)].of = dev[VxlanAt(v)].of
        /\ dev'[VxlanAt(v)].up = dev[VxlanAt(v)].up /\ dev'[VxlanAt(v)].master = Bridge(v)
        /\ dev'[VxlanAt(v)].addrs = dev[VxlanAt(v)].addrs
        /\ dev'[VxlanAt(v)].routes = dev[VxlanAt(v)].routes
    BY <1>1, <1>2, <1>4, <2>1, SetMaster
  <2>3. /\ Same(EthOf(c)) /\ Same(Made(c)) /\ Same(Port(c))
        /\ Same(Fresh(v)) /\ Same(BridgeAt(v)) /\ Same(DnsAt(v))
    BY <2>2, OwnPlaces DEF SameBut
  <2>4. AddInv(c)'
    <3>1. /\ Hops \in Nat /\ pos = 21 + Hops /\ pos' = 22 + Hops /\ AddInv(c)
          /\ pos >= 12 => Has(EthOf(c))
      BY <1>1, <2>1
    <3>2. state' = state /\ sandboxes' = sandboxes /\ monitored' = monitored BY <2>1
    <3> QED BY ONLY <3>1, <3>2, <2>2, <2>3, v = VNIOf[c] DEF AddInv, Same, Has, IsUp
  <2>5. v \notin faulty' => NetOf(v)'
    <3>1. /\ Fresh(v) \in DOMAIN dev' <=> Has(Fresh(v))
          /\ VxlanAt(v) \in DOMAIN dev' <=> Has(VxlanAt(v))
          /\ Same(DnsAt(v)) /\ Same(BridgeAt(v))
      BY <1>4, <2>2, <2>3 DEF Same, Has
    <3>2. \/ pos \in 11..(16 + Hops) /\ pos' \in 11..(16 + Hops)
          \/ pos >= 21 + Hops /\ pos' >= 21 + Hops
      BY <1>1, <2>1
    <3> QED BY <1>1, <2>1, <3>1, <3>2, NetKept
  <2>6. NetShape(v)'
    BY <1>1, <1>4, <2>1, <2>2, <2>3 DEF NetShape, Same, Has, AddInv
  <2>7. SameBut(OfNet(v)) BY <1>1, <2>2 DEF SameBut
  <2>8. /\ Has(BridgeAt(v)) => BridgeAt(v) \in DOMAIN dev'
        /\ Enslaved(VxlanAt(v), Bridge(v)) =>
             /\ VxlanAt(v) \in DOMAIN dev'
             /\ dev'[VxlanAt(v)].up /\ dev'[VxlanAt(v)].master = Bridge(v)
    BY <1>2, <1>4, <2>2, <2>3 DEF Same, Has, Enslaved, IsUp, Found
  <2> QED BY <1>1, <2>1, <2>2, <2>4, <2>5, <2>6, <2>7, <2>8, AddInNet
<1>5. CASE ~ok
  <2>1. /\ Abort /\ v \in faulty
        /\ UNCHANGED <<dev, sandboxes, leaked, monitored, faulty, faults>>
    BY <1>2, <1>3, <1>5 DEF LinkSetMaster, Devices, Found
  <2> QED BY <1>1, <2>1, Aborts DEF BaseInv
<1> QED BY <1>4, <1>5

\* The container's port is put on the bridge.
LEMMA PortEnslaved ==
  ASSUME IInv, LinkSetMaster, NEW c \in Containers, who = c, NEW v, v = VNIOf[c],
         Adds(22 + Hops), Now = SetLinkMaster(SandboxNS(v), NameSandboxLink(c), Bridge(v))
  PROVE  IInv' /\ Cause
<1> DEFINE ok == /\ BridgeAt(v) \in DOMAIN dev /\ dev[BridgeAt(v)].kind = "bridge"
             /\ Port(c) \in DOMAIN dev
<1>1. /\ c # Nil /\ v \in VNIs /\ Hops \in Nat /\ doing = "ADD" /\ pos = 22 + Hops /\ Busy(v)
      /\ BaseInv /\ DevInv /\ ContainerShape(c) /\ NetShape(v) /\ AddInv(c)
      /\ pos >= 12 => Has(EthOf(c))
      /\ v \notin faulty => NetOf(v)
      /\ {Port(c)} \subseteq Places \cap OfContainer(c)
  BY OwnFacts, OwnPlaces DEF Adds, OfNet, OfContainer
<1>2. Here = Port(c) /\ <<Now.in, Now.arg>> = BridgeAt(v) /\ Now.arg = Bridge(v)
  BY DEF Here, Cmd, SetLinkMaster, Port, BridgeAt
<1>3. v \notin faulty => ok
  BY <1>1, <1>2
     DEF NetOf, SandboxOf, VxlanOf, DnsOf, BridgeOf, Within, Past, Held, Busy, Has, Found,
         NetShape, AddInv
<1>4. CASE ok
  <2>1. /\ dev' = With("master", Bridge(v)) /\ pos' = 23 + Hops /\ AddEffect(c)
        /\ UNCHANGED <<state, who, doing, sandboxes, monitored, leaked, faulty, faults>>
    BY <1>1, <1>2, <1>4 DEF LinkSetMaster, Devices, Skip, AddEffect, BaseInv, Found
  <2>2. /\ DevInv' /\ SameBut({Port(c)})
        /\ Port(c) \in DOMAIN dev'
        /\ dev'[Port(c)].kind = dev[Port(c)].kind /\ dev'[Port(c)].of = dev[Port(c)].of
        /\ dev'[Port(c)].up = dev[Port(c)].up /\ dev'[Port(c)].master = Bridge(v)
        /\ dev'[Port(c)].addrs = dev[Port(c)].addrs
        /\ dev'[Port(c)].routes = dev[Port(c)].routes
    BY <1>1, <1>2, <1>4, <2>1, SetMaster
  <2>3. /\ Same(EthOf(c)) /\ Same(Made(c)) /\ Same(Fresh(v))
        /\ Same(VxlanAt(v)) /\ Same(BridgeAt(v)) /\ Same(DnsAt(v))
    BY <2>2, OwnPlaces DEF SameBut
  <2>4. AddInv(c)'
    <3>1. /\ Hops \in Nat /\ pos = 22 + Hops /\ pos' = 23 + Hops /\ AddInv(c)
          /\ pos >= 12 => Has(EthOf(c))
      BY <1>1, <2>1
    <3>2. state' = state /\ sandboxes' = sandboxes /\ monitored' = monitored BY <2>1
    <3> QED BY ONLY <3>1, <3>2, <2>2, <2>3, v = VNIOf[c] DEF AddInv, Same, Has, IsUp
  <2>5. v \notin faulty' => NetOf(v)'
    <3>1. /\ Fresh(v) \in DOMAIN dev' <=> Has(Fresh(v))
          /\ VxlanAt(v) \in DOMAIN dev' <=> Has(VxlanAt(v))
          /\ Same(DnsAt(v)) /\ Same(BridgeAt(v))
      BY <1>4, <2>2, <2>3 DEF Same, Has
    <3>2. \/ pos \in 11..(16 + Hops) /\ pos' \in 11..(16 + Hops)
          \/ pos >= 21 + Hops /\ pos' >= 21 + Hops
      BY <1>1, <2>1
    <3> QED BY <1>1, <2>1, <3>1, <3>2, NetKept
  <2>6. ContainerShape(c)'
    BY <1>1, <1>4, <2>1, <2>2, <2>3 DEF ContainerShape, OfContainer, Same, Has, AddInv
  <2>7. SameBut(OfContainer(c)) BY <1>1, <2>2 DEF SameBut
  <2>8. Has(Fresh(v)) => v \notin monitored' BY <1>1, <2>1 DEF NetShape
  <2> QED BY <1>1, <2>1, <2>2, <2>4, <2>5, <2>6, <2>7, <2>8, AddInContainer
<1>5. CASE ~ok
  <2>1. /\ Abort /\ v \in faulty
        /\ UNCHANGED <<dev, sandboxes, leaked, monitored, faulty, faults>>
    BY <1>2, <1>3, <1>5 DEF LinkSetMaster, Devices, Found
  <2> QED BY <1>1, <2>1, Aborts DEF BaseInv
<1> QED BY <1>4, <1>5

\* The vxlan device is moved into the sandbox.
LEMMA VxlanMoved ==
  ASSUME IInv, LinkSetNsFd, NEW c \in Containers, who = c, NEW v, v = VNIOf[c],
         Adds(4), Now = MoveLink(HostNS, Vxlan(v), v)
  PROVE  IInv' /\ Cause
<1> DEFINE ok == /\ Fresh(v) \in DOMAIN dev /\ v \in sandboxes /\ VxlanAt(v) \notin DOMAIN dev
<1>1. /\ c # Nil /\ v \in VNIs /\ Hops \in Nat /\ doing = "ADD" /\ pos = 4 /\ Busy(v)
      /\ BaseInv /\ DevInv /\ ContainerShape(c) /\ NetShape(v) /\ AddInv(c)
      /\ pos >= 12 => Has(EthOf(c))
      /\ v \notin faulty => NetOf(v)
      /\ {Fresh(v), VxlanAt(v)} \subseteq Places \cap OfNet(v)
  BY OwnFacts, OwnPlaces DEF Adds, OfNet, OfContainer
<1>2. Here = Fresh(v) /\ Now.arg = v /\ <<SandboxNS(Now.arg), Now.name>> = VxlanAt(v)
  BY DEF Here, Cmd, MoveLink, Fresh, VxlanAt
<1>3. v \notin faulty => ok
  <2>1. Within(v, 4, 4) BY <1>1 DEF Within
  <2>2. v \in sandboxes BY <1>1 DEF AddInv
  <2>3. v \notin faulty => Has(Fresh(v)) BY <1>1, <2>1 DEF NetOf, VxlanOf
  <2>4. Has(Fresh(v)) => ~Has(VxlanAt(v)) BY <1>1 DEF NetShape
  <2> QED BY <2>2, <2>3, <2>4 DEF Has
<1>4. CASE ok
  <2>1. /\ dev' = [x \in (DOMAIN dev \ {Fresh(v)}) \cup {VxlanAt(v)} |->
                   IF x = VxlanAt(v) THEN Device(dev[Fresh(v)].kind, dev[Fresh(v)].of)
                   ELSE dev[x]]
        /\ pos' = 5 /\ AddEffect(c)
        /\ UNCHANGED <<state, who, doing, sandboxes, monitored, leaked, faulty, faults>>
    BY <1>1, <1>2, <1>4 DEF LinkSetNsFd, Devices, Skip, AddEffect, BaseInv, Found
  <2>2. /\ DevInv' /\ SameBut({Fresh(v), VxlanAt(v)})
        /\ Fresh(v) \notin DOMAIN dev' /\ VxlanAt(v) \in DOMAIN dev'
        /\ dev'[VxlanAt(v)].kind = dev[Fresh(v)].kind /\ dev'[VxlanAt(v)].of = dev[Fresh(v)].of
        /\ dev'[VxlanAt(v)].up = FALSE /\ dev'[VxlanAt(v)].master = Nil
        /\ dev'[VxlanAt(v)].addrs = {} /\ dev'[VxlanAt(v)].routes = {}
    BY <1>1, <1>2, <1>4, <2>1, OwnPlaces, Moved
  <2>3. /\ Same(EthOf(c)) /\ Same(Made(c)) /\ Same(Port(c))
        /\ Same(BridgeAt(v)) /\ Same(DnsAt(v))
    BY <2>2, OwnPlaces DEF SameBut
  <2>4. Used(v)' <=> Used(v) BY <2>1, SameUsed
  <2>5. AddInv(c)'
    <3>1. /\ Hops \in Nat /\ pos = 4 /\ pos' = 5 /\ AddInv(c)
          /\ pos >= 12 => Has(EthOf(c))
      BY <1>1, <2>1
    <3>2. state' = state /\ sandboxes' = sandboxes /\ monitored' = monitored BY <2>1
    <3> QED BY ONLY <3>1, <3>2, <2>2, <2>3, v = VNIOf[c] DEF AddInv, Same, Has, IsUp
  <2>6. v \notin faulty' => NetOf(v)'
    <3> SUFFICES ASSUME v \notin faulty' PROVE NetOf(v)' OBVIOUS
    <3>1. /\ Past(v, 2) /\ ~Past(v, 4) /\ ~Past(v, 5) /\ ~Past(v, 10)
          /\ ~Past(v, 17 + Hops) /\ Within(v, 2, 8)
          /\ ~Within(v, 17 + Hops, 20 + Hops) /\ Within(v, 4, 4) /\ ~Within(v, 6, 6)
          /\ ~Within(v, 6, 7) /\ ~Within(v, 6, 20 + Hops)
          /\ ~Within(v, 18 + Hops, 18 + Hops) /\ ~Within(v, 18 + Hops, 19 + Hops)
          /\ ~Held(v)
      BY <1>1 DEF Past, Within, Held, Busy
    <3>2. /\ Past(v, 2)' /\ Past(v, 4)' /\ ~Past(v, 5)' /\ ~Past(v, 10)'
          /\ ~Past(v, 17 + Hops)' /\ Within(v, 2, 8)'
          /\ ~Within(v, 17 + Hops, 20 + Hops)' /\ ~Within(v, 4, 4)'
          /\ ~Within(v, 6, 6)' /\ ~Within(v, 6, 7)' /\ ~Within(v, 6, 20 + Hops)'
          /\ ~Within(v, 18 + Hops, 18 + Hops)' /\ ~Within(v, 18 + Hops, 19 + Hops)'
          /\ ~Held(v)'
      BY <1>1, <2>1 DEF Past, Within, Held, Busy
    <3>3. /\ SandboxOf(v) /\ VxlanOf(v) /\ DnsOf(v) /\ BridgeOf(v)
          /\ Within(v, 2, 8) \/ Within(v, 17 + Hops, 20 + Hops) => ~Used(v)
      BY <1>1, <2>1 DEF NetOf, SandboxOf
    <3>4. SandboxOf(v)' BY <1>1, <2>1, <2>4, <3>1, <3>2, <3>3 DEF SandboxOf
    <3>5. VxlanOf(v)' BY <2>2, <2>3, <2>4, <3>1, <3>2, <3>3 DEF VxlanOf, Same, Has
    <3>6. DnsOf(v)' BY <2>2, <2>3, <2>4, <3>1, <3>2, <3>3 DEF DnsOf, Same, Has
    <3>7. BridgeOf(v)' BY <2>2, <2>3, <2>4, <3>1, <3>2, <3>3 DEF BridgeOf, Same, Has
    <3> QED BY <3>4, <3>5, <3>6, <3>7 DEF NetOf
  <2>7. NetShape(v)'
    BY <1>1, <1>4, <2>2, <2>3 DEF NetShape, Same, Has
  <2>8. SameBut(OfNet(v)) BY <1>1, <2>2 DEF SameBut
  <2>9. /\ Has(BridgeAt(v)) => BridgeAt(v) \in DOMAIN dev'
        /\ Enslaved(VxlanAt(v), Bridge(v)) =>
             /\ VxlanAt(v) \in DOMAIN dev'
             /\ dev'[VxlanAt(v)].up /\ dev'[VxlanAt(v)].master = Bridge(v)
    BY <1>2, <1>4, <2>2, <2>3 DEF Same, Has, Enslaved, IsUp, Found
  <2>10. doing = "ADD" /\ AddEffect(c) /\ DevInv' BY <1>1, <2>1, <2>2
  <2> QED BY <2>5, <2>6, <2>7, <2>8, <2>9, <2>10, AddInNet
<1>5. CASE ~ok
  <2>1. /\ Abort /\ v \in faulty
        /\ UNCHANGED <<dev, sandboxes, leaked, monitored, faulty, faults>>
    BY <1>2, <1>3, <1>5 DEF LinkSetNsFd, Devices, Found
  <2> QED BY <1>1, <2>1, Aborts DEF BaseInv
<1> QED BY <1>4, <1>5

\* The peer of the container's device is moved into the sandbox.
LEMMA PeerMoved ==
  ASSUME IInv, LinkSetNsFd, NEW c \in Containers, who = c, NEW v, v = VNIOf[c],
         Adds(12), Now = MoveLink(ContainerNS(c), NameSandboxLink(c), v)
  PROVE  IInv' /\ Cause
<1> DEFINE ok == /\ Made(c) \in DOMAIN dev /\ v \in sandboxes /\ Port(c) \notin DOMAIN dev
<1>1. /\ c # Nil /\ v \in VNIs /\ Hops \in Nat /\ doing = "ADD" /\ pos = 12 /\ Busy(v)
      /\ BaseInv /\ DevInv /\ ContainerShape(c) /\ NetShape(v) /\ AddInv(c)
      /\ pos >= 12 => Has(EthOf(c))
      /\ v \notin faulty => NetOf(v)
      /\ {Made(c), Port(c)} \subseteq Places \cap OfContainer(c)
  BY OwnFacts, OwnPlaces DEF Adds, OfNet, OfContainer
<1>2. Here = Made(c) /\ Now.arg = v /\ <<SandboxNS(Now.arg), Now.name>> = Port(c)
  BY DEF Here, Cmd, MoveLink, Made, Port
<1>3. v \notin faulty => ok
  BY <1>1 DEF AddInv, ContainerShape, Has
<1>4. CASE ok
  <2>1. /\ dev' = [x \in (DOMAIN dev \ {Made(c)}) \cup {Port(c)} |->
                   IF x = Port(c) THEN Device(dev[Made(c)].kind, dev[Made(c)].of) ELSE dev[x]]
        /\ pos' = 13 /\ AddEffect(c)
        /\ UNCHANGED <<state, who, doing, sandboxes, monitored, leaked, faulty, faults>>
    BY <1>1, <1>2, <1>4 DEF LinkSetNsFd, Devices, Skip, AddEffect, BaseInv, Found
  <2>2. /\ DevInv' /\ SameBut({Made(c), Port(c)})
        /\ Made(c) \notin DOMAIN dev' /\ Port(c) \in DOMAIN dev'
        /\ dev'[Port(c)].kind = dev[Made(c)].kind /\ dev'[Port(c)].of = dev[Made(c)].of
        /\ dev'[Port(c)].up = FALSE /\ dev'[Port(c)].master = Nil
        /\ dev'[Port(c)].addrs = {} /\ dev'[Port(c)].routes = {}
    BY <1>1, <1>2, <1>4, <2>1, OwnPlaces, Moved
  <2>3. /\ Same(EthOf(c)) /\ Same(Fresh(v)) /\ Same(VxlanAt(v))
        /\ Same(BridgeAt(v)) /\ Same(DnsAt(v))
    BY <2>2, OwnPlaces DEF SameBut
  <2>4. AddInv(c)'
    <3>1. /\ Hops \in Nat /\ pos = 12 /\ pos' = 13 /\ AddInv(c)
          /\ pos >= 12 => Has(EthOf(c))
      BY <1>1, <2>1
    <3>2. state' = state /\ sandboxes' = sandboxes /\ monitored' = monitored BY <2>1
    <3> QED BY ONLY <3>1, <3>2, <2>2, <2>3, v = VNIOf[c] DEF AddInv, Same, Has, IsUp
  <2>5. v \notin faulty' => NetOf(v)'
    <3>1. /\ Fresh(v) \in DOMAIN dev' <=> Has(Fresh(v))
          /\ VxlanAt(v) \in DOMAIN dev' <=> Has(VxlanAt(v))
          /\ Same(DnsAt(v)) /\ Same(BridgeAt(v))
      BY <1>4, <2>2, <2>3 DEF Same, Has
    <3>2. \/ pos \in 11..(16 + Hops) /\ pos' \in 11..(16 + Hops)
          \/ pos >= 21 + Hops /\ pos' >= 21 + Hops
      BY <1>1, <2>1
    <3> QED BY <1>1, <2>1, <3>1, <3>2, NetKept
  <2>6. ContainerShape(c)'
    BY <1>1, <1>4, <2>2, <2>3 DEF ContainerShape, OfContainer, Same, Has
  <2>7. SameBut(OfContainer(c)) BY <1>1, <2>2 DEF SameBut
  <2>8. Has(Fresh(v)) => v \notin monitored' BY <1>1, <2>1 DEF NetShape
  <2> QED BY <1>1, <2>1, <2>2, <2>4, <2>5, <2>6, <2>7, <2>8, AddInContainer
<1>5. CASE ~ok
  <2>1. /\ Abort /\ v \in faulty
        /\ UNCHANGED <<dev, sandboxes, leaked, monitored, faulty, faults>>
    BY <1>2, <1>3, <1>5 DEF LinkSetNsFd, Devices, Found
  <2> QED BY <1>1, <2>1, Aborts DEF BaseInv
<1> QED BY <1>4, <1>5

\* The container's device and its peer are made.
LEMMA VethMade ==
  ASSUME IInv, LinkAddVeth, NEW c \in Containers, who = c, NEW v, v = VNIOf[c],
         Adds(11), Now = CreateVeth(ContainerNS(c), Eth, NameSandboxLink(c))
  PROVE  IInv' /\ Cause
<1> DEFINE ok == EthOf(c) \notin DOMAIN dev /\ Made(c) \notin DOMAIN dev
<1>1. /\ c # Nil /\ v \in VNIs /\ Hops \in Nat /\ doing = "ADD" /\ pos = 11 /\ Busy(v)
      /\ BaseInv /\ DevInv /\ ContainerShape(c) /\ NetShape(v) /\ AddInv(c)
      /\ pos >= 12 => Has(EthOf(c))
      /\ v \notin faulty => NetOf(v)
      /\ {EthOf(c), Made(c)} \subseteq Places \cap OfContainer(c)
  BY OwnFacts, OwnPlaces DEF Adds, OfNet, OfContainer
<1>2. Here = EthOf(c) /\ <<Now.in, Now.arg>> = Made(c)
  BY DEF Here, Cmd, CreateVeth, EthOf, Made
<1>3. v \notin faulty => ok
  BY <1>1, <1>2
     DEF NetOf, SandboxOf, VxlanOf, DnsOf, BridgeOf, Within, Past, Held, Busy, Has, Found,
         ContainerShape, AddInv
<1>4. CASE ok
  <2>1. /\ dev' = And({EthOf(c), Made(c)}, Device("veth", c)) /\ pos' = 12 /\ AddEffect(c)
        /\ UNCHANGED <<state, who, doing, sandboxes, monitored, leaked, faulty, faults>>
    <3>1. /\ dev' = And({EthOf(c), Made(c)}, Device("veth", c)) /\ pos' = pos + 1
          /\ UNCHANGED <<state, who, doing, sandboxes, monitored, leaked, faulty, faults>>
      BY <1>2, <1>4 DEF LinkAddVeth, Devices, Skip, Found
    <3> QED BY <1>1, <3>1 DEF AddEffect, BaseInv
  <2>2. /\ DevInv' /\ SameBut({EthOf(c), Made(c)})
        /\ \A z \in {EthOf(c), Made(c)} :
              /\ z \in DOMAIN dev' /\ dev'[z].kind = "veth" /\ dev'[z].of = c
              /\ dev'[z].up = FALSE /\ dev'[z].master = Nil
              /\ dev'[z].addrs = {} /\ dev'[z].routes = {}
    BY <1>1, <2>1, AddedTwo DEF Kinds
  <2>3. /\ Same(Port(c)) /\ Same(Fresh(v)) /\ Same(VxlanAt(v))
        /\ Same(BridgeAt(v)) /\ Same(DnsAt(v))
    BY <2>2, OwnPlaces DEF SameBut
  <2>4. AddInv(c)'
    <3>1. /\ Hops \in Nat /\ pos = 11 /\ pos' = 12 /\ AddInv(c)
          /\ pos >= 12 => Has(EthOf(c))
      BY <1>1, <2>1
    <3>2. state' = state /\ sandboxes' = sandboxes /\ monitored' = monitored BY <2>1
    <3> QED BY ONLY <3>1, <3>2, <2>2, <2>3, v = VNIOf[c] DEF AddInv, Same, Has, IsUp
  <2>5. v \notin faulty' => NetOf(v)'
    <3>1. /\ Fresh(v) \in DOMAIN dev' <=> Has(Fresh(v))
          /\ VxlanAt(v) \in DOMAIN dev' <=> Has(VxlanAt(v))
          /\ Same(DnsAt(v)) /\ Same(BridgeAt(v))
      BY <1>4, <2>2, <2>3 DEF Same, Has
    <3>2. \/ pos \in 11..(16 + Hops) /\ pos' \in 11..(16 + Hops)
          \/ pos >= 21 + Hops /\ pos' >= 21 + Hops
      BY <1>1, <2>1
    <3> QED BY <1>1, <2>1, <3>1, <3>2, NetKept
  <2>6. ContainerShape(c)'
    BY <1>1, <1>4, <2>2, <2>3 DEF ContainerShape, OfContainer, Same, Has
  <2>7. SameBut(OfContainer(c)) BY <1>1, <2>2 DEF SameBut
  <2>8. Has(Fresh(v)) => v \notin monitored' BY <1>1, <2>1 DEF NetShape
  <2> QED BY <1>1, <2>1, <2>2, <2>4, <2>5, <2>6, <2>7, <2>8, AddInContainer
<1>5. CASE ~ok
  <2>1. /\ Abort /\ v \in faulty
        /\ UNCHANGED <<dev, sandboxes, leaked, monitored, faulty, faults>>
    BY <1>2, <1>3, <1>5 DEF LinkAddVeth, Devices, Found
  <2> QED BY <1>1, <2>1, Aborts DEF BaseInv
<1> QED BY <1>4, <1>5

\* A route further.
LEMMA RoutesNext ==
  ASSUME NEW i \in 1..Hops
  PROVE  /\ Routes[i] \in Nat /\ Routes[i] \notin RoutesTo(i - 1)
         /\ RoutesTo(i) = RoutesTo(i - 1) \cup {Routes[i]}
<1>1. Hops \in Nat /\ DOMAIN Routes = 1..Hops /\ Routes \in Seq(Nat) BY RoutesLen
<1>2. i - 1 < i /\ 1..i = (1..(i - 1)) \cup {i} /\ 1..(i - 1) \subseteq 1..Hops BY <1>1
<1>3. Routes[i] \in Nat BY <1>1
<1>4. \A j \in 1..(i - 1) : Routes[j] # Routes[i] BY <1>1, <1>2, LinksAssumption
<1> QED BY <1>2, <1>3, <1>4 DEF RoutesTo

\* A route is added.
LEMMA RouteAdded ==
  ASSUME IInv, RouteAdd, NEW c \in Containers, who = c, NEW v, v = VNIOf[c],
         NEW i \in 1..Hops, Adds(14 + i), Now = AddRoute(ContainerNS(c), Eth, Routes[i])
  PROVE  IInv' /\ Cause
<1> DEFINE ok == /\ EthOf(c) \in DOMAIN dev /\ dev[EthOf(c)].up /\ dev[EthOf(c)].addrs # {}
             /\ Routes[i] \notin dev[EthOf(c)].routes
<1>1. /\ c # Nil /\ v \in VNIs /\ Hops \in Nat /\ doing = "ADD" /\ pos = 14 + i /\ Busy(v)
      /\ BaseInv /\ DevInv /\ ContainerShape(c) /\ NetShape(v) /\ AddInv(c)
      /\ pos >= 12 => Has(EthOf(c))
      /\ v \notin faulty => NetOf(v)
      /\ {EthOf(c)} \subseteq Places \cap OfContainer(c)
  BY OwnFacts, OwnPlaces DEF Adds, OfNet, OfContainer
<1>2. Here = EthOf(c) /\ Now.arg = Routes[i]
  BY DEF Here, Cmd, AddRoute, EthOf
<1>3. v \notin faulty => ok
  BY <1>1, <1>2, RoutesNext DEF AddInv, Has
<1>4. CASE ok
  <2>1. /\ dev' = With("routes", dev[EthOf(c)].routes \cup {Routes[i]}) /\ pos' = 15 + i
        /\ AddEffect(c)
        /\ UNCHANGED <<state, who, doing, sandboxes, monitored, leaked, faulty, faults>>
    BY <1>1, <1>2, <1>4 DEF RouteAdd, Devices, Skip, AddEffect, BaseInv, Found
  <2>2. /\ DevInv' /\ SameBut({EthOf(c)})
        /\ EthOf(c) \in DOMAIN dev'
        /\ dev'[EthOf(c)].kind = dev[EthOf(c)].kind /\ dev'[EthOf(c)].of = dev[EthOf(c)].of
        /\ dev'[EthOf(c)].up = dev[EthOf(c)].up /\ dev'[EthOf(c)].master = dev[EthOf(c)].master
        /\ dev'[EthOf(c)].addrs = dev[EthOf(c)].addrs
        /\ dev'[EthOf(c)].routes = dev[EthOf(c)].routes \cup {Routes[i]}
    BY <1>1, <1>2, <1>4, <2>1, RoutesNext, AddRoutesTo
  <2>3. /\ Same(Made(c)) /\ Same(Port(c)) /\ Same(Fresh(v))
        /\ Same(VxlanAt(v)) /\ Same(BridgeAt(v)) /\ Same(DnsAt(v))
    BY <2>2, OwnPlaces DEF SameBut
  <2>4. AddInv(c)'
    <3>1. /\ Hops \in Nat /\ i \in 1..Hops /\ pos = 14 + i /\ pos' = 15 + i /\ AddInv(c)
          /\ pos >= 12 => Has(EthOf(c))
      BY <1>1, <2>1
    <3>2. state' = state /\ sandboxes' = sandboxes /\ monitored' = monitored BY <2>1
    <3>3. /\ 14 + i - 15 = i - 1 /\ 15 + i - 15 = i
          /\ RoutesTo(i) = RoutesTo(i - 1) \cup {Routes[i]}
      BY <1>1, RoutesNext
    <3> QED
      BY ONLY <3>1, <3>2, <3>3, <2>2, <2>3, v = VNIOf[c]
         DEF AddInv, Same, Has, IsUp
  <2>5. v \notin faulty' => NetOf(v)'
    <3>1. /\ Fresh(v) \in DOMAIN dev' <=> Has(Fresh(v))
          /\ VxlanAt(v) \in DOMAIN dev' <=> Has(VxlanAt(v))
          /\ Same(DnsAt(v)) /\ Same(BridgeAt(v))
      BY <1>4, <2>2, <2>3 DEF Same, Has
    <3>2. \/ pos \in 11..(16 + Hops) /\ pos' \in 11..(16 + Hops)
          \/ pos >= 21 + Hops /\ pos' >= 21 + Hops
      BY <1>1, <2>1
    <3> QED BY <1>1, <2>1, <3>1, <3>2, NetKept
  <2>6. ContainerShape(c)'
    BY <1>1, <1>4, <2>2, ShapeKept DEF Has
  <2>7. SameBut(OfContainer(c)) BY <1>1, <2>2 DEF SameBut
  <2>8. Has(Fresh(v)) => v \notin monitored' BY <1>1, <2>1 DEF NetShape
  <2> QED BY <1>1, <2>1, <2>2, <2>4, <2>5, <2>6, <2>7, <2>8, AddInContainer
<1>5. CASE ~ok
  <2>1. /\ Abort /\ v \in faulty
        /\ UNCHANGED <<dev, sandboxes, leaked, monitored, faulty, faults>>
    BY <1>2, <1>3, <1>5 DEF RouteAdd, Devices, Found
  <2> QED BY <1>1, <2>1, Aborts DEF BaseInv
<1> QED BY <1>4, <1>5

-----------------------------------------------------------------------------
(* The other commands of an ADD.                                             *)

\* An ADD goes on and leaves the devices as they are.
LEMMA AddQuiet ==
  ASSUME IInv, NEW c \in Containers, who = c, doing = "ADD", NEW v, v = VNIOf[c],
         AddEffect(c), dev' = dev, Has(Fresh(v)) => v \notin monitored',
         AddInv(c)', v \notin faulty' => NetOf(v)'
  PROVE  IInv' /\ Cause
<1>1. \A x : Same(x) BY DEF Same
<1>2. DevInv' /\ SameBut(OfContainer(c)) BY <1>1, OwnFacts DEF DevInv, SameBut
<1>3. ContainerShape(c)' BY OwnFacts DEF ContainerShape, Has
<1> QED BY <1>2, <1>3, AddInContainer

\* The sandbox is made.
LEMMA SandboxMade ==
  ASSUME IInv, RepositoryCreate, NEW c \in Containers, who = c, NEW v, v = VNIOf[c],
         Adds(2), Now = CreateSandbox(v)
  PROVE  IInv' /\ Cause
<1>1. /\ c # Nil /\ v \in VNIs /\ Hops \in Nat /\ doing = "ADD" /\ pos = 2 /\ Busy(v)
      /\ BaseInv /\ NetShape(v) /\ AddInv(c)
      /\ v \notin faulty => NetOf(v)
      /\ pos >= 12 => Has(EthOf(c))
  BY OwnFacts DEF Adds
<1>2. /\ dev' = dev /\ pos' = 3 /\ AddEffect(c)
      /\ sandboxes' = sandboxes \cup {v} /\ UNCHANGED <<monitored, leaked, faulty, faults>>
  BY <1>1 DEF RepositoryCreate, Skip, CreateSandbox, Cmd, AddEffect, BaseInv
<1>3. Used(v)' <=> Used(v) BY <1>2, SameUsed DEF AddEffect
<1>4. AddInv(c)'
  <2>1. /\ Hops \in Nat /\ pos = 2 /\ pos' = 3 /\ AddInv(c)
        /\ pos >= 12 => Has(EthOf(c))
        /\ v \notin monitored
    BY <1>1, <1>2 DEF AddInv, BaseInv
  <2> QED BY ONLY <2>1, <1>2, v = VNIOf[c] DEF AddInv, AddEffect, Has, IsUp
<1>5. v \notin faulty' => NetOf(v)'
  <2> SUFFICES ASSUME v \notin faulty' PROVE NetOf(v)' OBVIOUS
  <2>1. /\ ~Past(v, 2) /\ ~Past(v, 4) /\ ~Past(v, 5) /\ ~Past(v, 10)
        /\ ~Past(v, 17 + Hops) /\ Within(v, 2, 8) /\ ~Within(v, 17 + Hops, 20 + Hops)
        /\ ~Within(v, 4, 4) /\ ~Within(v, 6, 6) /\ ~Within(v, 6, 7)
        /\ ~Within(v, 6, 20 + Hops) /\ ~Within(v, 18 + Hops, 18 + Hops)
        /\ ~Within(v, 18 + Hops, 19 + Hops) /\ ~Held(v)
    BY <1>1 DEF Past, Within, Held, Busy
  <2>2. /\ Past(v, 2)' /\ ~Past(v, 4)' /\ ~Past(v, 5)' /\ ~Past(v, 10)'
        /\ ~Past(v, 17 + Hops)' /\ Within(v, 2, 8)'
        /\ ~Within(v, 17 + Hops, 20 + Hops)' /\ ~Within(v, 4, 4)' /\ ~Within(v, 6, 6)'
        /\ ~Within(v, 6, 7)' /\ ~Within(v, 6, 20 + Hops)'
        /\ ~Within(v, 18 + Hops, 18 + Hops)' /\ ~Within(v, 18 + Hops, 19 + Hops)'
        /\ ~Held(v)'
    BY <1>1, <1>2 DEF Past, Within, Held, Busy, AddEffect
  <2>3. /\ SandboxOf(v) /\ VxlanOf(v) /\ DnsOf(v) /\ BridgeOf(v)
        /\ Within(v, 2, 8) \/ Within(v, 17 + Hops, 20 + Hops) => ~Used(v)
    BY <1>1, <1>2 DEF NetOf, SandboxOf
  <2>4. SandboxOf(v)' BY <1>1, <1>2, <1>3, <2>1, <2>2, <2>3 DEF SandboxOf
  <2>5. VxlanOf(v)' BY <1>2, <1>3, <2>1, <2>2, <2>3 DEF VxlanOf, Has
  <2>6. DnsOf(v)' BY <1>2, <1>3, <2>1, <2>2, <2>3 DEF DnsOf, Has
  <2>7. BridgeOf(v)' BY <1>2, <1>3, <2>1, <2>2, <2>3 DEF BridgeOf, Has
  <2> QED BY <2>4, <2>5, <2>6, <2>7 DEF NetOf
<1>6. Has(Fresh(v)) => v \notin monitored' BY <1>1, <1>2 DEF NetShape
<1> QED BY <1>1, <1>2, <1>4, <1>5, <1>6, AddQuiet

\* The DNS server is started.
LEMMA DnsLaunched ==
  ASSUME IInv, SandboxLaunchDNS, NEW c \in Containers, who = c, NEW v, v = VNIOf[c],
         Adds(8), Now = LaunchDNS(v)
  PROVE  IInv' /\ Cause
<1>1. /\ c # Nil /\ v \in VNIs /\ Hops \in Nat /\ doing = "ADD" /\ pos = 8 /\ Busy(v)
      /\ BaseInv /\ NetShape(v) /\ AddInv(c)
      /\ v \notin faulty => NetOf(v)
      /\ pos >= 12 => Has(EthOf(c))
  BY OwnFacts DEF Adds
<1>2. /\ dev' = dev /\ pos' = 9 /\ AddEffect(c)
      /\ UNCHANGED <<sandboxes, monitored, leaked, faulty, faults>>
  BY <1>1 DEF SandboxLaunchDNS, Devices, Skip, AddEffect, BaseInv
<1>3. Used(v)' <=> Used(v) BY <1>2, SameUsed DEF AddEffect
<1>4. AddInv(c)'
  <2>1. /\ Hops \in Nat /\ pos = 8 /\ pos' = 9 /\ AddInv(c)
        /\ pos >= 12 => Has(EthOf(c))
    BY <1>1, <1>2
  <2> QED BY ONLY <2>1, <1>2, v = VNIOf[c] DEF AddInv, AddEffect, Has, IsUp
<1>5. v \notin faulty' => NetOf(v)'
  <2> SUFFICES ASSUME v \notin faulty' PROVE NetOf(v)' OBVIOUS
  <2>1. /\ Past(v, 2) /\ Past(v, 4) /\ Past(v, 5) /\ ~Past(v, 10)
        /\ ~Past(v, 17 + Hops) /\ Within(v, 2, 8) /\ ~Within(v, 17 + Hops, 20 + Hops)
        /\ ~Within(v, 4, 4) /\ ~Within(v, 6, 6) /\ ~Within(v, 6, 7)
        /\ Within(v, 6, 20 + Hops) /\ ~Within(v, 18 + Hops, 18 + Hops)
        /\ ~Within(v, 18 + Hops, 19 + Hops) /\ ~Held(v)
    BY <1>1 DEF Past, Within, Held, Busy
  <2>2. /\ Past(v, 2)' /\ Past(v, 4)' /\ Past(v, 5)' /\ ~Past(v, 10)'
        /\ ~Past(v, 17 + Hops)' /\ ~Within(v, 2, 8)'
        /\ ~Within(v, 17 + Hops, 20 + Hops)' /\ ~Within(v, 4, 4)' /\ ~Within(v, 6, 6)'
        /\ ~Within(v, 6, 7)' /\ Within(v, 6, 20 + Hops)'
        /\ ~Within(v, 18 + Hops, 18 + Hops)' /\ ~Within(v, 18 + Hops, 19 + Hops)'
        /\ ~Held(v)'
    BY <1>1, <1>2 DEF Past, Within, Held, Busy, AddEffect
  <2>3. /\ SandboxOf(v) /\ VxlanOf(v) /\ DnsOf(v) /\ BridgeOf(v)
        /\ Within(v, 2, 8) \/ Within(v, 17 + Hops, 20 + Hops) => ~Used(v)
    BY <1>1, <1>2 DEF NetOf, SandboxOf
  <2>4. SandboxOf(v)' BY <1>1, <1>2, <1>3, <2>1, <2>2, <2>3 DEF SandboxOf
  <2>5. VxlanOf(v)' BY <1>2, <1>3, <2>1, <2>2, <2>3 DEF VxlanOf, Has
  <2>6. DnsOf(v)' BY <1>2, <1>3, <2>1, <2>2, <2>3 DEF DnsOf, Has
  <2>7. BridgeOf(v)' BY <1>2, <1>3, <2>1, <2>2, <2>3 DEF BridgeOf, Has
  <2> QED BY <2>4, <2>5, <2>6, <2>7 DEF NetOf
<1>6. Has(Fresh(v)) => v \notin monitored' BY <1>1, <1>2 DEF NetShape
<1> QED BY <1>1, <1>2, <1>4, <1>5, <1>6, AddQuiet

\* The monitor is started.
LEMMA MonitorStarted ==
  ASSUME IInv, WatcherStartMonitor, NEW c \in Containers, who = c, NEW v, v = VNIOf[c],
         Adds(10), Now = StartMonitor(v)
  PROVE  IInv' /\ Cause
<1>1. /\ c # Nil /\ v \in VNIs /\ Hops \in Nat /\ doing = "ADD" /\ pos = 10 /\ Busy(v)
      /\ BaseInv /\ NetShape(v) /\ AddInv(c)
      /\ v \notin faulty => NetOf(v)
      /\ pos >= 12 => Has(EthOf(c))
  BY OwnFacts DEF Adds
<1>2. /\ dev' = dev /\ pos' = 11 /\ AddEffect(c)
      /\ monitored' = monitored \cup {v} /\ UNCHANGED <<sandboxes, leaked, faulty, faults>>
  BY <1>1 DEF WatcherStartMonitor, Skip, StartMonitor, Cmd, AddInv, AddEffect, BaseInv
<1>3. Used(v)' <=> Used(v) BY <1>2, SameUsed DEF AddEffect
<1>4. AddInv(c)'
  <2>1. /\ Hops \in Nat /\ pos = 10 /\ pos' = 11 /\ AddInv(c)
        /\ pos >= 12 => Has(EthOf(c))
    BY <1>1, <1>2
  <2> QED BY ONLY <2>1, <1>2, v = VNIOf[c] DEF AddInv, AddEffect, Has, IsUp
<1>5. v \notin faulty' => NetOf(v)'
  <2> SUFFICES ASSUME v \notin faulty' PROVE NetOf(v)' OBVIOUS
  <2>1. /\ Past(v, 2) /\ Past(v, 4) /\ Past(v, 5) /\ ~Past(v, 10)
        /\ ~Past(v, 17 + Hops) /\ ~Within(v, 2, 8) /\ ~Within(v, 17 + Hops, 20 + Hops)
        /\ ~Within(v, 4, 4) /\ ~Within(v, 6, 6) /\ ~Within(v, 6, 7)
        /\ Within(v, 6, 20 + Hops) /\ ~Within(v, 18 + Hops, 18 + Hops)
        /\ ~Within(v, 18 + Hops, 19 + Hops) /\ ~Held(v)
    BY <1>1 DEF Past, Within, Held, Busy
  <2>2. /\ Past(v, 2)' /\ Past(v, 4)' /\ Past(v, 5)' /\ Past(v, 10)'
        /\ ~Past(v, 17 + Hops)' /\ ~Within(v, 2, 8)'
        /\ ~Within(v, 17 + Hops, 20 + Hops)' /\ ~Within(v, 4, 4)' /\ ~Within(v, 6, 6)'
        /\ ~Within(v, 6, 7)' /\ Within(v, 6, 20 + Hops)'
        /\ ~Within(v, 18 + Hops, 18 + Hops)' /\ ~Within(v, 18 + Hops, 19 + Hops)'
        /\ ~Held(v)'
    BY <1>1, <1>2 DEF Past, Within, Held, Busy, AddEffect
  <2>3. /\ SandboxOf(v) /\ VxlanOf(v) /\ DnsOf(v) /\ BridgeOf(v)
        /\ Within(v, 2, 8) \/ Within(v, 17 + Hops, 20 + Hops) => ~Used(v)
    BY <1>1, <1>2 DEF NetOf, SandboxOf
  <2>4. SandboxOf(v)' BY <1>1, <1>2, <1>3, <2>1, <2>2, <2>3 DEF SandboxOf
  <2>5. VxlanOf(v)' BY <1>2, <1>3, <2>1, <2>2, <2>3 DEF VxlanOf, Has
  <2>6. DnsOf(v)' BY <1>2, <1>3, <2>1, <2>2, <2>3 DEF DnsOf, Has
  <2>7. BridgeOf(v)' BY <1>2, <1>3, <2>1, <2>2, <2>3 DEF BridgeOf, Has
  <2> QED BY <2>4, <2>5, <2>6, <2>7 DEF NetOf
<1>6. Has(Fresh(v)) => v \notin monitored' BY <1>1, <1>2 DEF NetShape, AddInv, IsUp, Has
<1> QED BY <1>1, <1>2, <1>4, <1>5, <1>6, AddQuiet

\* The hardware address of the container's device is read.
LEMMA HardwareRead ==
  ASSUME IInv, HardwareAddress, NEW c \in Containers, who = c, NEW v, v = VNIOf[c],
         Adds(23 + Hops), Now = GetHardwareAddress(ContainerNS(c), Eth)
  PROVE  IInv' /\ Cause
<1>1. /\ c # Nil /\ v \in VNIs /\ Hops \in Nat /\ doing = "ADD" /\ pos = 23 + Hops /\ Busy(v)
      /\ BaseInv /\ NetShape(v) /\ AddInv(c)
      /\ v \notin faulty => NetOf(v)
      /\ pos >= 12 => Has(EthOf(c))
  BY OwnFacts DEF Adds
<1>2. /\ dev' = dev /\ pos' = 24 + Hops /\ AddEffect(c)
      /\ UNCHANGED <<sandboxes, monitored, leaked, faulty, faults>>
  BY <1>1
     DEF HardwareAddress, Devices, Skip, Found, Here, GetHardwareAddress, Cmd, EthOf, Has,
         AddEffect, BaseInv
<1>3. Used(v)' <=> Used(v) BY <1>2, SameUsed DEF AddEffect
<1>4. AddInv(c)'
  <2>1. /\ Hops \in Nat /\ pos = 23 + Hops /\ pos' = 24 + Hops /\ AddInv(c)
        /\ pos >= 12 => Has(EthOf(c))
    BY <1>1, <1>2
  <2> QED BY ONLY <2>1, <1>2, v = VNIOf[c] DEF AddInv, AddEffect, Has, IsUp
<1>5. v \notin faulty' => NetOf(v)'
  BY <1>1, <1>2, NetKept DEF Same, Has
<1>6. Has(Fresh(v)) => v \notin monitored' BY <1>1, <1>2 DEF NetShape
<1> QED BY <1>1, <1>2, <1>4, <1>5, <1>6, AddQuiet

\* The sandbox is there already, or it is not.
LEMMA SandboxLookedUp ==
  ASSUME IInv, SandboxExists, NEW c \in Containers, who = c, NEW v, v = VNIOf[c],
         Adds(1), Now = Cmd("UnlessSandbox", SandboxNS(v), Nil, 7)
  PROVE  IInv' /\ Cause
<1>1. /\ c # Nil /\ v \in VNIs /\ Hops \in Nat /\ doing = "ADD" /\ pos = 1 /\ Busy(v)
      /\ BaseInv /\ NetShape(v) /\ AddInv(c)
      /\ v \notin faulty => NetOf(v)
      /\ pos >= 12 => Has(EthOf(c))
  BY OwnFacts DEF Adds
<1>2. CASE v \in sandboxes
  <2>1. /\ dev' = dev /\ pos' = 9 /\ AddEffect(c)
        /\ UNCHANGED <<sandboxes, monitored, leaked, faulty, faults>>
    BY <1>1, <1>2 DEF SandboxExists, Skip, Cmd, AddEffect, BaseInv
  <2>2. Used(v)' <=> Used(v) BY <2>1, SameUsed DEF AddEffect
  <2>3. AddInv(c)'
    <3>1. /\ Hops \in Nat /\ pos = 1 /\ pos' = 9 /\ AddInv(c)
          /\ pos >= 12 => Has(EthOf(c))
          /\ v \in sandboxes
      BY <1>1, <2>1, <1>2
    <3> QED BY ONLY <3>1, <2>1, v = VNIOf[c] DEF AddInv, AddEffect, Has, IsUp
  <2>4. v \notin faulty' => NetOf(v)'
    <3> SUFFICES ASSUME v \notin faulty' PROVE NetOf(v)' OBVIOUS
    <3>1. /\ ~Past(v, 2) /\ ~Past(v, 4) /\ ~Past(v, 5) /\ ~Past(v, 10)
          /\ ~Past(v, 17 + Hops) /\ ~Within(v, 2, 8) /\ ~Within(v, 17 + Hops, 20 + Hops)
          /\ ~Within(v, 4, 4) /\ ~Within(v, 6, 6) /\ ~Within(v, 6, 7)
          /\ ~Within(v, 6, 20 + Hops) /\ ~Within(v, 18 + Hops, 18 + Hops)
          /\ ~Within(v, 18 + Hops, 19 + Hops) /\ ~Held(v)
      BY <1>1 DEF Past, Within, Held, Busy
    <3>2. /\ Past(v, 2)' /\ Past(v, 4)' /\ Past(v, 5)' /\ ~Past(v, 10)'
          /\ ~Past(v, 17 + Hops)' /\ ~Within(v, 2, 8)'
          /\ ~Within(v, 17 + Hops, 20 + Hops)' /\ ~Within(v, 4, 4)' /\ ~Within(v, 6, 6)'
          /\ ~Within(v, 6, 7)' /\ Within(v, 6, 20 + Hops)'
          /\ ~Within(v, 18 + Hops, 18 + Hops)' /\ ~Within(v, 18 + Hops, 19 + Hops)'
          /\ ~Held(v)'
      BY <1>1, <2>1 DEF Past, Within, Held, Busy, AddEffect
    <3>3. /\ SandboxOf(v) /\ VxlanOf(v) /\ DnsOf(v) /\ BridgeOf(v)
          /\ Within(v, 2, 8) \/ Within(v, 17 + Hops, 20 + Hops) => ~Used(v)
      BY <1>1, <2>1 DEF NetOf, SandboxOf
    <3>4. SandboxOf(v)' BY <1>1, <1>2, <2>1, <2>2, <3>1, <3>2, <3>3 DEF SandboxOf
    <3>5. VxlanOf(v)'
      BY <1>2, <2>1, <2>2, <3>1, <3>2, <3>3 DEF VxlanOf, Has, SandboxOf, BridgeOf
    <3>6. DnsOf(v)' BY <1>2, <2>1, <2>2, <3>1, <3>2, <3>3 DEF DnsOf, Has, SandboxOf, BridgeOf
    <3>7. BridgeOf(v)' BY <1>2, <2>1, <2>2, <3>1, <3>2, <3>3 DEF BridgeOf, Has, SandboxOf
    <3> QED BY <3>4, <3>5, <3>6, <3>7 DEF NetOf
  <2>5. Has(Fresh(v)) => v \notin monitored' BY <1>1, <2>1 DEF NetShape
  <2> QED BY <1>1, <2>1, <2>3, <2>4, <2>5, AddQuiet
<1>3. CASE v \notin sandboxes
  <2>1. /\ dev' = dev /\ pos' = 2 /\ AddEffect(c)
        /\ UNCHANGED <<sandboxes, monitored, leaked, faulty, faults>>
    BY <1>1, <1>3 DEF SandboxExists, Skip, Cmd, AddEffect, BaseInv
  <2>2. Used(v)' <=> Used(v) BY <2>1, SameUsed DEF AddEffect
  <2>3. AddInv(c)'
    <3>1. /\ Hops \in Nat /\ pos = 1 /\ pos' = 2 /\ AddInv(c)
          /\ pos >= 12 => Has(EthOf(c))
          /\ v \notin sandboxes
      BY <1>1, <2>1, <1>3
    <3> QED BY ONLY <3>1, <2>1, v = VNIOf[c] DEF AddInv, AddEffect, Has, IsUp
  <2>4. v \notin faulty' => NetOf(v)'
    <3> SUFFICES ASSUME v \notin faulty' PROVE NetOf(v)' OBVIOUS
    <3>1. /\ ~Past(v, 2) /\ ~Past(v, 4) /\ ~Past(v, 5) /\ ~Past(v, 10)
          /\ ~Past(v, 17 + Hops) /\ ~Within(v, 2, 8) /\ ~Within(v, 17 + Hops, 20 + Hops)
          /\ ~Within(v, 4, 4) /\ ~Within(v, 6, 6) /\ ~Within(v, 6, 7)
          /\ ~Within(v, 6, 20 + Hops) /\ ~Within(v, 18 + Hops, 18 + Hops)
          /\ ~Within(v, 18 + Hops, 19 + Hops) /\ ~Held(v)
      BY <1>1 DEF Past, Within, Held, Busy
    <3>2. /\ ~Past(v, 2)' /\ ~Past(v, 4)' /\ ~Past(v, 5)' /\ ~Past(v, 10)'
          /\ ~Past(v, 17 + Hops)' /\ Within(v, 2, 8)'
          /\ ~Within(v, 17 + Hops, 20 + Hops)' /\ ~Within(v, 4, 4)' /\ ~Within(v, 6, 6)'
          /\ ~Within(v, 6, 7)' /\ ~Within(v, 6, 20 + Hops)'
          /\ ~Within(v, 18 + Hops, 18 + Hops)' /\ ~Within(v, 18 + Hops, 19 + Hops)'
          /\ ~Held(v)'
      BY <1>1, <2>1 DEF Past, Within, Held, Busy, AddEffect
    <3>3. /\ SandboxOf(v) /\ VxlanOf(v) /\ DnsOf(v) /\ BridgeOf(v)
          /\ Within(v, 2, 8) \/ Within(v, 17 + Hops, 20 + Hops) => ~Used(v)
      BY <1>1, <2>1 DEF NetOf, SandboxOf
    <3>4. SandboxOf(v)' BY <1>1, <1>3, <2>1, <2>2, <3>1, <3>2, <3>3 DEF SandboxOf
    <3>5. VxlanOf(v)'
      BY <1>3, <2>1, <2>2, <3>1, <3>2, <3>3 DEF VxlanOf, Has, SandboxOf, BridgeOf
    <3>6. DnsOf(v)' BY <1>3, <2>1, <2>2, <3>1, <3>2, <3>3 DEF DnsOf, Has, SandboxOf, BridgeOf
    <3>7. BridgeOf(v)' BY <1>3, <2>1, <2>2, <3>1, <3>2, <3>3 DEF BridgeOf, Has, SandboxOf
    <3> QED BY <3>4, <3>5, <3>6, <3>7 DEF NetOf
  <2>5. Has(Fresh(v)) => v \notin monitored' BY <1>1, <2>1 DEF NetShape
  <2> QED BY <1>1, <2>1, <2>3, <2>4, <2>5, AddQuiet
<1> QED BY <1>2, <1>3

\* The bridge is there already, or it is not.
LEMMA BridgeLookedUp ==
  ASSUME IInv, LinkExists, NEW c \in Containers, who = c, NEW v, v = VNIOf[c],
         Adds(16 + Hops), Now = Cmd("UnlessLink", SandboxNS(v), Bridge(v), 4)
  PROVE  IInv' /\ Cause
<1>1. /\ c # Nil /\ v \in VNIs /\ Hops \in Nat /\ doing = "ADD" /\ pos = 16 + Hops /\ Busy(v)
      /\ BaseInv /\ NetShape(v) /\ AddInv(c)
      /\ v \notin faulty => NetOf(v)
      /\ pos >= 12 => Has(EthOf(c))
  BY OwnFacts DEF Adds
<1>2. CASE Has(BridgeAt(v))
  <2>1. /\ dev' = dev /\ pos' = 21 + Hops /\ AddEffect(c)
        /\ UNCHANGED <<sandboxes, monitored, leaked, faulty, faults>>
    BY <1>1, <1>2 DEF LinkExists, Skip, Cmd, Found, Here, BridgeAt, Has, AddEffect, BaseInv
  <2>2. Used(v)' <=> Used(v) BY <2>1, SameUsed DEF AddEffect
  <2>3. AddInv(c)'
    <3>1. /\ Hops \in Nat /\ pos = 16 + Hops /\ pos' = 21 + Hops /\ AddInv(c)
          /\ pos >= 12 => Has(EthOf(c))
          /\ Has(BridgeAt(v))
      BY <1>1, <2>1, <1>2
    <3> QED BY ONLY <3>1, <2>1, v = VNIOf[c] DEF AddInv, AddEffect, Has, IsUp
  <2>4. v \notin faulty' => NetOf(v)'
    <3> SUFFICES ASSUME v \notin faulty' PROVE NetOf(v)' OBVIOUS
    <3>1. /\ Past(v, 2) /\ Past(v, 4) /\ Past(v, 5) /\ Past(v, 10)
          /\ ~Past(v, 17 + Hops) /\ ~Within(v, 2, 8) /\ ~Within(v, 17 + Hops, 20 + Hops)
          /\ ~Within(v, 4, 4) /\ ~Within(v, 6, 6) /\ ~Within(v, 6, 7)
          /\ Within(v, 6, 20 + Hops) /\ ~Within(v, 18 + Hops, 18 + Hops)
          /\ ~Within(v, 18 + Hops, 19 + Hops) /\ ~Held(v)
      BY <1>1 DEF Past, Within, Held, Busy
    <3>2. /\ Past(v, 2)' /\ Past(v, 4)' /\ Past(v, 5)' /\ Past(v, 10)'
          /\ Past(v, 17 + Hops)' /\ ~Within(v, 2, 8)'
          /\ ~Within(v, 17 + Hops, 20 + Hops)' /\ ~Within(v, 4, 4)' /\ ~Within(v, 6, 6)'
          /\ ~Within(v, 6, 7)' /\ ~Within(v, 6, 20 + Hops)'
          /\ ~Within(v, 18 + Hops, 18 + Hops)' /\ ~Within(v, 18 + Hops, 19 + Hops)'
          /\ ~Held(v)'
      BY <1>1, <2>1 DEF Past, Within, Held, Busy, AddEffect
    <3>3. /\ SandboxOf(v) /\ VxlanOf(v) /\ DnsOf(v) /\ BridgeOf(v)
          /\ Within(v, 2, 8) \/ Within(v, 17 + Hops, 20 + Hops) => ~Used(v)
      BY <1>1, <2>1 DEF NetOf, SandboxOf
    <3>4. SandboxOf(v)' BY <1>1, <1>2, <2>1, <2>2, <3>1, <3>2, <3>3 DEF SandboxOf, BridgeOf
    <3>5. VxlanOf(v)'
      BY <1>2, <2>1, <2>2, <3>1, <3>2, <3>3 DEF VxlanOf, Has, SandboxOf, BridgeOf
    <3>6. DnsOf(v)' BY <1>2, <2>1, <2>2, <3>1, <3>2, <3>3 DEF DnsOf, Has, SandboxOf, BridgeOf
    <3>7. BridgeOf(v)' BY <1>2, <2>1, <2>2, <3>1, <3>2, <3>3 DEF BridgeOf, Has, SandboxOf
    <3> QED BY <3>4, <3>5, <3>6, <3>7 DEF NetOf
  <2>5. Has(Fresh(v)) => v \notin monitored' BY <1>1, <2>1 DEF NetShape
  <2> QED BY <1>1, <2>1, <2>3, <2>4, <2>5, AddQuiet
<1>3. CASE ~Has(BridgeAt(v))
  <2>1. /\ dev' = dev /\ pos' = 17 + Hops /\ AddEffect(c)
        /\ UNCHANGED <<sandboxes, monitored, leaked, faulty, faults>>
    BY <1>1, <1>3 DEF LinkExists, Skip, Cmd, Found, Here, BridgeAt, Has, AddEffect, BaseInv
  <2>2. Used(v)' <=> Used(v) BY <2>1, SameUsed DEF AddEffect
  <2>3. AddInv(c)'
    <3>1. /\ Hops \in Nat /\ pos = 16 + Hops /\ pos' = 17 + Hops /\ AddInv(c)
          /\ pos >= 12 => Has(EthOf(c))
          /\ ~Has(BridgeAt(v))
      BY <1>1, <2>1, <1>3
    <3> QED BY ONLY <3>1, <2>1, v = VNIOf[c] DEF AddInv, AddEffect, Has, IsUp
  <2>4. v \notin faulty' => NetOf(v)'
    <3> SUFFICES ASSUME v \notin faulty' PROVE NetOf(v)' OBVIOUS
    <3>1. /\ Past(v, 2) /\ Past(v, 4) /\ Past(v, 5) /\ Past(v, 10)
          /\ ~Past(v, 17 + Hops) /\ ~Within(v, 2, 8) /\ ~Within(v, 17 + Hops, 20 + Hops)
          /\ ~Within(v, 4, 4) /\ ~Within(v, 6, 6) /\ ~Within(v, 6, 7)
          /\ Within(v, 6, 20 + Hops) /\ ~Within(v, 18 + Hops, 18 + Hops)
          /\ ~Within(v, 18 + Hops, 19 + Hops) /\ ~Held(v)
      BY <1>1 DEF Past, Within, Held, Busy
    <3>2. /\ Past(v, 2)' /\ Past(v, 4)' /\ Past(v, 5)' /\ Past(v, 10)'
          /\ ~Past(v, 17 + Hops)' /\ ~Within(v, 2, 8)'
          /\ Within(v, 17 + Hops, 20 + Hops)' /\ ~Within(v, 4, 4)' /\ ~Within(v, 6, 6)'
          /\ ~Within(v, 6, 7)' /\ Within(v, 6, 20 + Hops)'
          /\ ~Within(v, 18 + Hops, 18 + Hops)' /\ ~Within(v, 18 + Hops, 19 + Hops)'
          /\ ~Held(v)'
      BY <1>1, <2>1 DEF Past, Within, Held, Busy, AddEffect
    <3>3. /\ SandboxOf(v) /\ VxlanOf(v) /\ DnsOf(v) /\ BridgeOf(v)
          /\ Within(v, 2, 8) \/ Within(v, 17 + Hops, 20 + Hops) => ~Used(v)
      BY <1>1, <2>1 DEF NetOf, SandboxOf
    <3>4. SandboxOf(v)' BY <1>1, <1>3, <2>1, <2>2, <3>1, <3>2, <3>3 DEF SandboxOf, BridgeOf
    <3>5. VxlanOf(v)'
      BY <1>3, <2>1, <2>2, <3>1, <3>2, <3>3 DEF VxlanOf, Has, SandboxOf, BridgeOf
    <3>6. DnsOf(v)' BY <1>3, <2>1, <2>2, <3>1, <3>2, <3>3 DEF DnsOf, Has, SandboxOf, BridgeOf
    <3>7. BridgeOf(v)' BY <1>3, <2>1, <2>2, <3>1, <3>2, <3>3 DEF BridgeOf, Has, SandboxOf
    <3> QED BY <3>4, <3>5, <3>6, <3>7 DEF NetOf
  <2>5. Has(Fresh(v)) => v \notin monitored' BY <1>1, <2>1 DEF NetShape
  <2> QED BY <1>1, <2>1, <2>3, <2>4, <2>5, AddQuiet
<1> QED BY <1>2, <1>3

\* The lookup of the bridge fails.
LEMMA BridgeMissed ==
  ASSUME IInv, LookupFails, NEW c \in Containers, who = c, NEW v, v = VNIOf[c],
         Adds(16 + Hops), Now = Cmd("UnlessLink", SandboxNS(v), Bridge(v), 4)
  PROVE  IInv' /\ Cause
<1>1. /\ c # Nil /\ v \in VNIs /\ Hops \in Nat /\ doing = "ADD" /\ pos = 16 + Hops /\ Busy(v)
      /\ BaseInv /\ NetShape(v) /\ AddInv(c)
      /\ v \notin faulty => NetOf(v)
      /\ pos >= 12 => Has(EthOf(c))
  BY OwnFacts DEF Adds
<1>2. /\ dev' = dev /\ pos' = 17 + Hops /\ AddEffect(c)
      /\ v \in faulty' /\ UNCHANGED <<sandboxes, monitored, leaked>>
  BY <1>1, LinksAssumption DEF LookupFails, CanFail, Failed, Skip, AddEffect, BaseInv
<1>3. Used(v)' <=> Used(v) BY <1>2, SameUsed DEF AddEffect
<1>4. AddInv(c)'
  <2>1. /\ Hops \in Nat /\ pos = 16 + Hops /\ pos' = 17 + Hops /\ AddInv(c)
        /\ pos >= 12 => Has(EthOf(c))
    BY <1>1, <1>2
  <2> QED BY ONLY <2>1, <1>2, v = VNIOf[c] DEF AddInv, AddEffect, Has, IsUp
<1>5. v \notin faulty' => NetOf(v)'
  BY <1>2
<1>6. Has(Fresh(v)) => v \notin monitored' BY <1>1, <1>2 DEF NetShape
<1> QED BY <1>1, <1>2, <1>4, <1>5, <1>6, AddQuiet

-----------------------------------------------------------------------------
(* Devices that go.                                                          *)

\* Who had a device that goes for a master has none: masters are bridges, so
\* nothing else changes if no bridge goes that has a port left.
LEMMA WithoutKeeps ==
  ASSUME DevInv, NEW xs, NEW gone, dev' = Without(xs),
         \A y : y \in gone <=>
                  \/ y \in xs
                  \/ y \in DOMAIN dev /\ \E x \in xs : /\ dev[x].kind = "veth"
                                                   /\ dev[y].kind = "veth"
                                                   /\ dev[y].of = dev[x].of,
         \A x \in DOMAIN dev \ gone, w \in VNIs :
           dev[x].master = Bridge(w) => <<x[1], Bridge(w)>> \notin gone
  PROVE  DevInv' /\ SameBut(gone) /\ DOMAIN dev' = DOMAIN dev \ gone
<1>1. dev' = [x \in DOMAIN dev \ gone |->
                IF <<x[1], dev[x].master>> \in gone THEN [dev[x] EXCEPT !.master = Nil]
                ELSE dev[x]]
  <2>1. gone = xs \cup {y \in DOMAIN dev : \E x \in xs :
                          /\ dev[x].kind = "veth" /\ dev[y].kind = "veth"
                          /\ dev[y].of = dev[x].of}
    OBVIOUS
  <2> QED BY <2>1, Zenon DEF Without
<1>2. ASSUME NEW x \in DOMAIN dev \ gone PROVE dev'[x] = dev[x]
  <2>1. dev[x] \in DeviceType BY DEF DevInv
  <2>2. CASE dev[x].master = Nil
    <3>1. [dev[x] EXCEPT !.master = Nil] = dev[x] BY <2>1, <2>2 DEF DeviceType
    <3> QED BY <1>1, <3>1
  <2>3. CASE dev[x].master # Nil
    <3>1. PICK w \in VNIs : dev[x].master = Bridge(w) BY <2>1, <2>3 DEF DeviceType
    <3> QED BY <1>1, <3>1
  <2> QED BY <2>2, <2>3
<1>3. DOMAIN dev' = DOMAIN dev \ gone /\ dev' = [x \in DOMAIN dev' |-> dev'[x]]
  BY <1>1
<1>4. gone \cap DOMAIN dev' = {} /\ DOMAIN dev' \subseteq DOMAIN dev BY <1>3
<1>5. DevInv' BY <1>2, <1>3, <1>4 DEF DevInv
<1>6. SameBut(gone)
  BY <1>2, <1>3 DEF SameBut, Same
<1> QED BY <1>3, <1>5, <1>6

\* The devices of a container go together.
LEMMA ContainerGoes ==
  ASSUME IInv, NEW c \in Containers, NEW xs \in SUBSET (OfContainer(c) \cap DOMAIN dev),
         Has(EthOf(c)) => EthOf(c) \in xs, dev' = Without(xs)
  PROVE  /\ DevInv' /\ SameBut(OfContainer(c))
         /\ OfContainer(c) \cap DOMAIN dev' = {}
<1> DEFINE gone == xs \cup {y \in DOMAIN dev : \E x \in xs :
                              /\ dev[x].kind = "veth" /\ dev[y].kind = "veth"
                              /\ dev[y].of = dev[x].of}
<1>1. DevInv /\ ContainerShape(c) BY DEF IInv, BaseInv, ShapeInv
<1>2. \A x \in xs : dev[x].kind = "veth" /\ dev[x].of = c
  BY <1>1 DEF ContainerShape, Has
<1>3. OfContainer(c) \cap DOMAIN dev \subseteq gone
  BY <1>1, <1>2 DEF ContainerShape, OfContainer, Has
<1>4. gone \subseteq OfContainer(c)
  <2> SUFFICES ASSUME NEW y \in DOMAIN dev, dev[y].kind = "veth", dev[y].of = c
               PROVE  y \in OfContainer(c)
    BY <1>2
  <2> QED BY VethWhere
<1>5. \A x, w : <<x, Bridge(w)>> \notin OfContainer(c)
  BY DEF OfContainer, EthOf, Made, Port, Bridge, Eth, NameSandboxLink
<1> HIDE DEF gone
<1>6. DevInv' /\ SameBut(gone) /\ DOMAIN dev' = DOMAIN dev \ gone
  <2>1. \A y : y \in gone <=>
              \/ y \in xs
              \/ y \in DOMAIN dev /\ \E x \in xs : /\ dev[x].kind = "veth"
                                               /\ dev[y].kind = "veth"
                                               /\ dev[y].of = dev[x].of
    BY DEF gone
  <2>2. \A x \in DOMAIN dev \ gone, w \in VNIs :
          dev[x].master = Bridge(w) => <<x[1], Bridge(w)>> \notin gone
    BY <1>4, <1>5
  <2> QED BY <1>1, <2>1, <2>2, WithoutKeeps
<1> QED BY <1>3, <1>4, <1>6 DEF SameBut

\* Devices of a sandbox go, no veth devices among them.
LEMMA SandboxGoes ==
  ASSUME IInv, NEW v \in VNIs,
         NEW xs \in SUBSET ({VxlanAt(v), BridgeAt(v), DnsAt(v)} \cap DOMAIN dev),
         \A x \in DOMAIN dev \ xs, w \in VNIs :
           dev[x].master = Bridge(w) => <<x[1], Bridge(w)>> \notin xs,
         dev' = Without(xs)
  PROVE  DevInv' /\ SameBut(xs) /\ DOMAIN dev' = DOMAIN dev \ xs
<1>1. DevInv /\ NetShape(v) BY DEF IInv, BaseInv, ShapeInv
<1>2. \A x \in xs : dev[x].kind # "veth" BY <1>1 DEF NetShape, Has
<1>3. \A y : y \in xs <=>
            \/ y \in xs
            \/ y \in DOMAIN dev /\ \E x \in xs : /\ dev[x].kind = "veth"
                                             /\ dev[y].kind = "veth"
                                             /\ dev[y].of = dev[x].of
  BY <1>2
<1> QED BY <1>1, <1>3, WithoutKeeps

-----------------------------------------------------------------------------
(* The commands of a DEL.                                                    *)

\* A DEL goes on, and the sandbox stays.
DelEffect(c) ==
  /\ state' = state /\ who' = who /\ doing' = doing /\ pos' \in 2..5
  /\ sandboxes' = sandboxes /\ monitored' = monitored /\ leaked' = leaked
  /\ faulty' = faulty \/ faulty' = faulty \cup {VNIOf[c]}
  /\ faults' \in 0..MaxFaults

\* A step of a DEL that does not end it preserves the invariant if it does
\* so for its container and its net.
LEMMA DelGoesOn ==
  ASSUME IInv, NEW c \in Containers, who = c, doing = "DEL", NEW v, v = VNIOf[c],
         DelEffect(c), DevInv', SameBut(OfContainer(c) \cup OfNet(v)), Kept(c),
         ContainerShape(c)', Made(c) \notin DOMAIN dev', NetShape(v)', DelInv(c)',
         v \notin faulty' => NetOf(v)'
  PROVE  IInv' /\ Cause
<1>1. /\ BaseInv /\ v \in VNIs /\ c # Nil
      /\ v \notin faulty => Clean(v)
      /\ who' = c /\ doing' = "DEL" /\ state' = state
  BY LinksAssumption DEF IInv, CleanInv, DelEffect
<1>2. OnlyFor(c) BY <1>1 DEF OnlyFor, DelEffect
<1>3. BaseInv' BY <1>1 DEF BaseInv, DelEffect
<1>4. LifeOf(c)' BY <1>1 DEF LifeOf, DelInv, Has
<1>5. RunInv' BY <1>1 DEF RunInv
<1>6. ASSUME v \notin faulty' PROVE Clean(v)'
  <2>1. PortsOf(v) BY <1>1, <1>6 DEF DelEffect, Clean
  <2>2. \A d \in Containers \ {c} : Same(Port(d)) BY <1>2, OtherContainers
  <2>3. PortsOf(v)' BY <1>1, <2>1, <2>2 DEF PortsOf, Same, Has
  <2> QED BY <1>6, <2>3 DEF Clean
<1> QED BY <1>1, <1>2, <1>3, <1>4, <1>5, <1>6, OneContainer DEF Cause

\* A DEL fails in a sandbox where nothing did: the container has no device,
\* for an earlier DEL of it took it and failed then.
LEMMA DelFailsAgain ==
  ASSUME IInv, NEW c \in Containers, who = c, Dels(1), NEW v, v = VNIOf[c], v \notin faulty,
         ~Has(EthOf(c)), Abort,
         UNCHANGED <<dev, sandboxes, monitored, leaked, faulty, faults>>
  PROVE  IInv' /\ Cause
<1> USE DEF Abort, End, Dels
<1>1. /\ BaseInv /\ v \in VNIs /\ c # Nil /\ ContainerShape(c) /\ NetShape(v) /\ LifeOf(c)
      /\ DelInv(c) /\ NetOf(v) /\ PortsOf(v) /\ Busy(v)
  BY OwnFacts
<1>2. state[c] = "delFailed" BY <1>1 DEF NetOf, SandboxOf, DelInv
<1>3. /\ who' = Nil /\ pos' = 0 /\ doing' = "ADD" /\ state' = state
  BY <1>1, <1>2 DEF BaseInv
<1>4. \A x : Same(x) BY DEF Same
<1>5. OnlyFor(c) BY <1>3, <1>4 DEF OnlyFor, SameBut, Kept, Enslaved, IsUp, Has
<1>6. BaseInv' BY <1>1, <1>3 DEF BaseInv, DevInv
<1>7. ContainerShape(c)' BY <1>1 DEF ContainerShape, Has, OfContainer
<1>8. NetShape(v)' BY <1>1 DEF NetShape, Has
<1>9. LifeOf(c)' BY <1>1, <1>2, <1>3 DEF LifeOf, Has
<1>10. RunInv' BY <1>3 DEF RunInv
<1>11. Clean(v)'
  <2>1. PortsOf(v)' BY <1>1, <1>2, <1>3 DEF PortsOf, ContainerShape, Has
  <2>2. Used(v)' <=> Used(v) BY <1>2, <1>3, LinksAssumption DEF Used
  <2>3. /\ SandboxOf(v) /\ VxlanOf(v) /\ DnsOf(v) /\ BridgeOf(v) /\ ~Held(v) /\ ~Held(v)'
        /\ \A i, j : ~Past(v, i) /\ ~Past(v, i)' /\ ~Within(v, i, j) /\ ~Within(v, i, j)'
    BY <1>1, <1>2, <1>3 DEF NetOf, Held, Past, Within, Busy
  <2>4. SandboxOf(v)' BY <1>3, <2>2, <2>3 DEF SandboxOf, Busy
  <2>5. VxlanOf(v)' BY <2>2, <2>3 DEF VxlanOf, Has
  <2>6. DnsOf(v)' BY <2>2, <2>3 DEF DnsOf, Has
  <2>7. BridgeOf(v)' BY <2>2, <2>3 DEF BridgeOf, Has
  <2> QED BY <2>1, <2>4, <2>5, <2>6, <2>7 DEF Clean, NetOf
<1>12. IInv' BY <1>5, <1>6, <1>7, <1>8, <1>9, <1>10, <1>11, OneContainer
<1> QED BY <1>3, <1>12 DEF Cause

\* The devices of the container are deleted.
LEMMA EthDeleted ==
  ASSUME IInv, DeleteLinkByName, NEW c \in Containers, who = c, NEW v, v = VNIOf[c],
         Dels(1), Now = DeleteLink(ContainerNS(c), Eth)
  PROVE  IInv' /\ Cause
<1>1. /\ v \in VNIs /\ doing = "DEL" /\ pos = 1 /\ Busy(v) /\ BaseInv /\ NetShape(v)
      /\ DelInv(c)
      /\ v \notin faulty => NetOf(v)
  BY OwnFacts DEF Dels
<1>2. Here = EthOf(c) BY DEF Here, Cmd, DeleteLink, EthOf
<1>3. CASE Has(EthOf(c))
  <2>1. /\ dev' = Without({EthOf(c)}) /\ pos' = 2 /\ DelEffect(c)
        /\ UNCHANGED <<state, who, doing, faulty>>
    BY <1>1, <1>2, <1>3 DEF DeleteLinkByName, Devices, Skip, DelEffect, BaseInv, Found, Has
  <2>2. /\ DevInv' /\ SameBut(OfContainer(c)) /\ OfContainer(c) \cap DOMAIN dev' = {}
    BY <1>3, <2>1, ContainerGoes DEF OfContainer, Has
  <2>3. /\ NetShape(v)'
        /\ Same(Fresh(v)) /\ Same(VxlanAt(v)) /\ Same(BridgeAt(v)) /\ Same(DnsAt(v))
    <3>1. Has(Fresh(v)) => v \notin monitored' BY <1>1, <2>1 DEF NetShape, DelEffect
    <3> QED BY <1>1, <2>2, <3>1, ContainerNetApart, NetSame
  <2>4. ContainerShape(c)' /\ Made(c) \notin DOMAIN dev'
    BY <2>2 DEF ContainerShape, OfContainer, Has
  <2>5. DelInv(c)' BY <1>1, <2>1, <2>2 DEF DelInv, OfContainer, Has
  <2>6. SameBut(OfContainer(c) \cup OfNet(v)) /\ Kept(c)
    BY <2>2, <2>3 DEF SameBut, Kept, Same, Has, Enslaved, IsUp
  <2>7. ASSUME v \notin faulty' PROVE NetOf(v)'
    <3>1. Used(v)' <=> Used(v) BY <2>1, SameUsed
    <3>2. /\ SandboxOf(v) /\ VxlanOf(v) /\ DnsOf(v) /\ BridgeOf(v) /\ Held(v) /\ Held(v)'
          /\ \A i, j : ~Past(v, i) /\ ~Past(v, i)' /\ ~Within(v, i, j) /\ ~Within(v, i, j)'
      BY <1>1, <1>3, <2>1, <2>7 DEF NetOf, SandboxOf, Held, Past, Within, Busy
    <3>3. SandboxOf(v)' BY <2>1, <3>1, <3>2 DEF SandboxOf, DelEffect
    <3>4. VxlanOf(v)' BY <1>1, <2>1, <2>3, <3>1, <3>2 DEF VxlanOf, Same, Has
    <3>5. DnsOf(v)' BY <2>3, <3>1, <3>2 DEF DnsOf, Same, Has
    <3>6. BridgeOf(v)' BY <2>3, <3>1, <3>2 DEF BridgeOf, Same, Has
    <3> QED BY <3>3, <3>4, <3>5, <3>6 DEF NetOf
  <2> QED BY <1>1, <2>1, <2>2, <2>3, <2>4, <2>5, <2>6, <2>7, DelGoesOn
<1>4. CASE ~Has(EthOf(c))
  <2>1. Abort /\ UNCHANGED <<dev, sandboxes, leaked, monitored, faulty, faults>>
    BY <1>2, <1>4 DEF DeleteLinkByName, Devices, Found, Has
  <2>2. CASE v \in faulty BY <1>1, <2>1, <2>2, Aborts DEF BaseInv
  <2>3. CASE v \notin faulty BY <1>4, <2>1, <2>3, DelFailsAgain
  <2> QED BY <2>2, <2>3
<1> QED BY <1>3, <1>4

\* A DEL goes on and leaves the devices as they are.
LEMMA DelQuiet ==
  ASSUME IInv, NEW c \in Containers, who = c, doing = "DEL", NEW v, v = VNIOf[c],
         DelEffect(c), dev' = dev, DelInv(c)', v \notin faulty' => NetOf(v)'
  PROVE  IInv' /\ Cause
<1>1. /\ DevInv /\ ContainerShape(c) /\ NetShape(v) /\ LifeOf(c) /\ DelInv(c) BY OwnFacts
<1>2. \A x : Same(x) BY DEF Same
<1>3. /\ SameBut(OfContainer(c) \cup OfNet(v)) /\ Kept(c)
  BY <1>2 DEF SameBut, Kept, Same, Has, Enslaved, IsUp
<1>4. DevInv' /\ ContainerShape(c)' BY <1>1 DEF DevInv, ContainerShape, Has
<1>5. NetShape(v)' BY <1>1 DEF NetShape, DelEffect, Has
<1>6. Made(c) \notin DOMAIN dev' BY <1>1 DEF LifeOf, DelInv, Has
<1> QED BY <1>3, <1>4, <1>5, <1>6, DelGoesOn

\* What is in the namespace of a sandbox.
LEMMA InSandbox ==
  ASSUME DevInv, NEW v \in VNIs, NEW x \in DOMAIN dev, x[1] = SandboxNS(v)
  PROVE  \/ x \in {VxlanAt(v), BridgeAt(v), DnsAt(v)}
         \/ \E d \in Containers : VNIOf[d] = v /\ x = Port(d)
<1>1. x \in Places BY DEF DevInv
<1>2. CASE \E d \in Containers : x \in OfContainer(d)
  <2>1. PICK d \in Containers : x \in OfContainer(d) BY <1>2
  <2>2. EthOf(d)[1] # SandboxNS(v) /\ Made(d)[1] # SandboxNS(v)
    BY DEF EthOf, Made, SandboxNS, ContainerNS
  <2>3. x = Port(d) BY <2>1, <2>2 DEF OfContainer
  <2>4. Port(d)[1] = SandboxNS(VNIOf[d]) BY DEF Port
  <2>5. VNIOf[d] = v BY <2>3, <2>4 DEF SandboxNS
  <2> QED BY <2>3, <2>5
<1>3. CASE \E w \in VNIs : x \in OfNet(w)
  <2>1. PICK w \in VNIs : x \in OfNet(w) BY <1>3
  <2>2. w = v /\ x # Fresh(w)
    BY <2>1 DEF OfNet, Fresh, VxlanAt, BridgeAt, DnsAt, SandboxNS, HostNS
  <2> QED BY <2>1, <2>2 DEF OfNet
<1> QED BY <1>1, <1>2, <1>3, PlacesAre

\* The veth devices in a sandbox are the ports of its containers.
LEMMA VethsArePorts ==
  ASSUME IInv, NEW v \in VNIs
  PROVE  Veths(v) = {} <=> \A d \in Containers : VNIOf[d] = v => ~Has(Port(d))
<1>1. ASSUME NEW d \in Containers, VNIOf[d] = v, Has(Port(d)) PROVE Veths(v) # {}
  <2>1. dev[Port(d)].kind = "veth"
    BY <1>1 DEF IInv, ShapeInv, ContainerShape, OfContainer
  <2>2. Port(d)[1] = SandboxNS(v) BY <1>1 DEF Port
  <2> QED BY <1>1, <2>1, <2>2 DEF Veths, Has
<1>2. ASSUME NEW x \in Veths(v) PROVE \E d \in Containers : VNIOf[d] = v /\ Has(Port(d))
  <2>1. x \in DOMAIN dev /\ dev[x].kind = "veth" /\ x[1] = SandboxNS(v) BY <1>2 DEF Veths
  <2>2. x \notin {VxlanAt(v), BridgeAt(v), DnsAt(v)}
    BY <2>1 DEF IInv, ShapeInv, NetShape, Has
  <2>3. \E d \in Containers : VNIOf[d] = v /\ x = Port(d)
    BY <2>1, <2>2, InSandbox DEF IInv, BaseInv
  <2> QED BY <2>1, <2>3 DEF Has
<1> QED BY <1>1, <1>2

\* The veth devices are counted: the DEL goes on if there are none.
LEMMA VethsCounted ==
  ASSUME IInv, VethDeviceCount, NEW c \in Containers, who = c, NEW v, v = VNIOf[c],
         Dels(2), Now = CountVeths(v)
  PROVE  IInv' /\ Cause
<1>1. /\ v \in VNIs /\ doing = "DEL" /\ pos = 2 /\ Busy(v) /\ BaseInv /\ DelInv(c)
      /\ ContainerShape(c)
      /\ v \notin faulty => NetOf(v) /\ PortsOf(v)
  BY OwnFacts DEF Dels
<1>2. Len(Program) = 4 BY <1>1, ProgramIs
<1> DEFINE none == \A d \in Containers : VNIOf[d] = v => ~Has(Port(d))
<1>3. /\ pos' = IF v \in sandboxes /\ none THEN 3 ELSE 5
      /\ UNCHANGED <<state, who, doing, dev, sandboxes, monitored, leaked, faulty, faults>>
  BY <1>1, <1>2, VethsArePorts DEF VethDeviceCount, Skip, CountVeths, Cmd
<1>4. DelEffect(c) BY <1>1, <1>3 DEF DelEffect, BaseInv
<1>5. DelInv(c)' BY <1>1, <1>3 DEF DelInv, Has
<1>6. ASSUME v \notin faulty' PROVE NetOf(v)'
  <2>1. Used(v)' <=> Used(v) BY <1>3, SameUsed
  <2>2. /\ SandboxOf(v) /\ VxlanOf(v) /\ DnsOf(v) /\ BridgeOf(v) /\ PortsOf(v) /\ Held(v)
        /\ \A i, j : ~Past(v, i) /\ ~Past(v, i)' /\ ~Within(v, i, j) /\ ~Within(v, i, j)'
    BY <1>1, <1>3, <1>6 DEF NetOf, Held, Past, Within, Busy
  <2>3. v \in sandboxes BY <2>2 DEF SandboxOf
  <2>4. Used(v) <=> ~none
    <3>1. ~Has(Port(c)) BY <1>1 DEF DelInv, ContainerShape
    <3> QED BY <2>2, <3>1 DEF Used, PortsOf
  <2>5. Held(v)' <=> none BY <1>1, <1>3, <2>3 DEF Held, Busy
  <2>6. SandboxOf(v)'
    BY <1>1, <1>3, <2>1, <2>2, <2>4, <2>5 DEF SandboxOf, Busy
  <2>7. VxlanOf(v)' BY <1>1, <1>3, <2>1, <2>2, <2>4, <2>5 DEF VxlanOf, Has
  <2>8. DnsOf(v)' BY <1>3, <2>1, <2>2, <2>4, <2>5 DEF DnsOf, Has
  <2>9. BridgeOf(v)' BY <1>3, <2>1, <2>2, <2>4, <2>5 DEF BridgeOf, Has
  <2> QED BY <2>6, <2>7, <2>8, <2>9 DEF NetOf
<1> QED BY <1>1, <1>3, <1>4, <1>5, <1>6, DelQuiet

\* The vxlan device is deleted.
LEMMA VxlanDeleted ==
  ASSUME IInv, DeleteVxlanByName, NEW c \in Containers, who = c, NEW v, v = VNIOf[c],
         Dels(3), Now = DeleteVxlan(v)
  PROVE  IInv' /\ Cause
<1>1. /\ v \in VNIs /\ doing = "DEL" /\ pos = 3 /\ Busy(v) /\ BaseInv /\ DelInv(c)
      /\ ContainerShape(c) /\ NetShape(v) /\ LifeOf(c)
      /\ v \notin faulty => NetOf(v)
  BY OwnFacts DEF Dels
<1>2. Here = VxlanAt(v) BY DEF Here, Cmd, DeleteVxlan, VxlanAt
<1> DEFINE xs == {VxlanAt(v)} \cap DOMAIN dev
<1>3. /\ dev' = Without(xs) /\ pos' = 4 /\ DelEffect(c)
      /\ UNCHANGED <<state, who, doing, sandboxes, monitored, faulty>>
  BY <1>1, <1>2 DEF DeleteVxlanByName, Devices, Skip, DelEffect, BaseInv
<1>4. /\ DevInv' /\ SameBut({VxlanAt(v)}) /\ VxlanAt(v) \notin DOMAIN dev'
  <2>1. \A x, w : <<x, Bridge(w)>> # VxlanAt(v)
    BY DEF VxlanAt, Vxlan, Bridge
  <2>2. /\ xs \in SUBSET ({VxlanAt(v), BridgeAt(v), DnsAt(v)} \cap DOMAIN dev)
        /\ \A x \in DOMAIN dev \ xs, w \in VNIs :
             dev[x].master = Bridge(w) => <<x[1], Bridge(w)>> \notin xs
    BY <2>1
  <2>3. dev' = Without(xs) BY <1>3
  <2> HIDE DEF xs
  <2>4. DevInv' /\ SameBut(xs) /\ DOMAIN dev' = DOMAIN dev \ xs
    BY <1>1, <2>2, <2>3, SandboxGoes
  <2> QED BY <2>4 DEF xs, SameBut, Same
<1>5. /\ Same(EthOf(c)) /\ Same(Made(c)) /\ Same(Port(c))
      /\ Same(Fresh(v)) /\ Same(BridgeAt(v)) /\ Same(DnsAt(v))
  BY <1>4, OwnPlaces DEF SameBut
<1>6. ContainerShape(c)' /\ Made(c) \notin DOMAIN dev'
  BY <1>1, <1>5 DEF ContainerShape, OfContainer, Same, Has, LifeOf, DelInv
<1>7. NetShape(v)' BY <1>1, <1>3, <1>4, <1>5 DEF NetShape, Same, Has
<1>8. \A d \in Containers : Same(Port(d))
  BY <1>4 DEF SameBut, Port, VxlanAt, SandboxNS, NameSandboxLink, Vxlan
<1>9. DelInv(c)' /\ Kept(c)
  BY <1>1, <1>3, <1>5, <1>8 DEF DelInv, Kept, Same, Has
<1>10. SameBut(OfContainer(c) \cup OfNet(v)) BY <1>4 DEF SameBut, OfNet
<1>11. ASSUME v \notin faulty' PROVE NetOf(v)'
  <2>1. Used(v)' <=> Used(v) BY <1>3, SameUsed
  <2>2. /\ SandboxOf(v) /\ VxlanOf(v) /\ DnsOf(v) /\ BridgeOf(v) /\ Held(v) /\ Held(v)'
        /\ \A i, j : ~Past(v, i) /\ ~Past(v, i)' /\ ~Within(v, i, j) /\ ~Within(v, i, j)'
    BY <1>1, <1>3, <1>11 DEF NetOf, Held, Past, Within, Busy
  <2>3. ~Used(v) BY <1>1, <2>2 DEF SandboxOf
  <2>4. SandboxOf(v)' BY <1>1, <1>3, <2>1, <2>2, <2>3 DEF SandboxOf, Busy
  <2>5. VxlanOf(v)' BY <1>3, <1>4, <1>5, <2>1, <2>2, <2>3 DEF VxlanOf, Same, Has
  <2>6. DnsOf(v)' BY <1>5, <2>1, <2>2 DEF DnsOf, Same, Has
  <2>7. BridgeOf(v)' BY <1>5, <2>1, <2>2 DEF BridgeOf, Same, Has
  <2> QED BY <2>4, <2>5, <2>6, <2>7 DEF NetOf
<1> QED BY <1>1, <1>3, <1>4, <1>6, <1>7, <1>9, <1>10, <1>11, DelGoesOn

\* The lookup of the vxlan device fails: it stays.
LEMMA VxlanMissed ==
  ASSUME IInv, LookupFails, NEW c \in Containers, who = c, NEW v, v = VNIOf[c],
         Dels(3), Now = DeleteVxlan(v)
  PROVE  IInv' /\ Cause
<1>1. /\ doing = "DEL" /\ pos = 3 /\ BaseInv /\ DelInv(c) BY OwnFacts DEF Dels
<1>2. /\ pos' = 4 /\ DelEffect(c) /\ v \in faulty'
      /\ UNCHANGED <<state, who, doing, dev, sandboxes>>
  BY <1>1, LinksAssumption DEF LookupFails, CanFail, Failed, Skip, DelEffect, BaseInv
<1>3. DelInv(c)' BY <1>1, <1>2 DEF DelInv, Has
<1> QED BY <1>1, <1>2, <1>3, DelQuiet

\* The sandbox is destroyed, with what is in it.
LEMMA SandboxDestroyed ==
  ASSUME IInv, RepositoryDestroy, NEW c \in Containers, who = c, NEW v, v = VNIOf[c],
         Dels(4), Now = Destroy(v)
  PROVE  IInv' /\ Cause
<1> DEFINE inside == {x \in DOMAIN dev : x[1] = SandboxNS(v)}
           mine == {VxlanAt(v), BridgeAt(v), DnsAt(v)} \cap DOMAIN dev
<1>1. /\ v \in VNIs /\ doing = "DEL" /\ pos = 4 /\ Busy(v) /\ BaseInv /\ DelInv(c)
      /\ ContainerShape(c) /\ NetShape(v) /\ LifeOf(c) /\ c # Nil /\ DevInv
      /\ v \notin faulty => NetOf(v)
      /\ \A d \in Containers : VNIOf[d] = v => ~Has(Port(d))
  BY OwnFacts DEF Dels, DelInv
<1>2. inside = mine
  <2>1. /\ VxlanAt(v)[1] = SandboxNS(v) /\ BridgeAt(v)[1] = SandboxNS(v)
        /\ DnsAt(v)[1] = SandboxNS(v)
    BY DEF VxlanAt, BridgeAt, DnsAt
  <2>2. ASSUME NEW x \in inside PROVE x \in mine
    <3>1. \/ x \in {VxlanAt(v), BridgeAt(v), DnsAt(v)}
          \/ \E d \in Containers : VNIOf[d] = v /\ x = Port(d)
      BY <1>1, InSandbox
    <3> QED BY <1>1, <3>1 DEF Has
  <2> QED BY <2>1, <2>2
<1> DEFINE ok == v \in monitored
<1>3. CASE ok
  <2> HIDE DEF inside, mine
  <2>1. /\ dev' = Without(mine) /\ pos' = 5 /\ UNCHANGED <<state, who, doing, faults>>
        /\ leaked' = IF Has(VxlanAt(v)) THEN leaked \cup {v} ELSE leaked
        /\ sandboxes' = sandboxes \ {v} /\ monitored' = monitored \ {v}
        /\ faulty' = IF v \in leaked' THEN faulty ELSE faulty \ {v}
    <3>1. VxlanAt(v) \in inside <=> Has(VxlanAt(v)) BY <1>2 DEF mine, Has
    <3>2. Now.arg = v /\ VxlanAt(v) = <<SandboxNS(v), Vxlan(v)>> BY DEF Destroy, Cmd, VxlanAt
    <3>3. /\ Skip(1) /\ dev' = Without(inside) /\ faults' = faults
          /\ leaked' = leaked \cup {w \in {v} : VxlanAt(v) \in inside}
          /\ sandboxes' = sandboxes \ {w \in {v} : TRUE}
          /\ monitored' = monitored \ {w \in {v} : TRUE}
          /\ faulty' = faulty \ {w \in {v} : v \notin leaked'}
      BY <1>3, <3>2 DEF RepositoryDestroy, inside
    <3>4. sandboxes' = sandboxes \ {v} /\ monitored' = monitored \ {v} BY <3>3
    <3>5. leaked' = IF Has(VxlanAt(v)) THEN leaked \cup {v} ELSE leaked BY <3>1, <3>3
    <3>6. faulty' = IF v \in leaked' THEN faulty ELSE faulty \ {v} BY <3>3
    <3> QED BY <1>1, <1>2, <3>3, <3>4, <3>5, <3>6 DEF Skip
  <2>2. /\ DevInv' /\ SameBut(mine)
        /\ VxlanAt(v) \notin DOMAIN dev' /\ BridgeAt(v) \notin DOMAIN dev'
        /\ DnsAt(v) \notin DOMAIN dev'
    <3>1. \A x \in DOMAIN dev \ mine : \A w : <<x[1], Bridge(w)>> \notin mine
      <4> SUFFICES ASSUME NEW x \in DOMAIN dev \ mine, NEW w, <<x[1], Bridge(w)>> \in mine
                   PROVE  FALSE
        OBVIOUS
      <4>1. x[1] = SandboxNS(v)
        BY DEF mine, VxlanAt, BridgeAt, DnsAt
      <4> QED BY <1>2, <4>1 DEF inside
    <3>2. mine \in SUBSET ({VxlanAt(v), BridgeAt(v), DnsAt(v)} \cap DOMAIN dev)
      BY DEF mine
    <3>3. DevInv' /\ SameBut(mine) /\ DOMAIN dev' = DOMAIN dev \ mine
      BY <1>1, <2>1, <3>1, <3>2, SandboxGoes
    <3> QED BY <3>3 DEF mine
  <2>3. SameBut({VxlanAt(v), BridgeAt(v), DnsAt(v)}) BY <2>2 DEF SameBut, mine
  <2>4. /\ Same(EthOf(c)) /\ Same(Made(c)) /\ Same(Port(c)) /\ Same(Fresh(v))
    BY <2>3, OwnPlaces DEF SameBut
  <2>5. ~Has(Fresh(v)) BY <1>1, <1>3 DEF NetShape
  <2>6. v \notin faulty => ~Has(VxlanAt(v))
    <3> SUFFICES ASSUME v \notin faulty PROVE ~Has(VxlanAt(v)) OBVIOUS
    <3>1. SandboxOf(v) /\ VxlanOf(v) BY <1>1 DEF NetOf
    <3> QED BY <1>1, <3>1 DEF SandboxOf, VxlanOf, Past
  <2>7. OnlyFor(c)
    <3>1. SameBut(OfContainer(c) \cup OfNet(v)) /\ Kept(c)
      BY <1>1, <2>3 DEF SameBut, OfNet, Kept
    <3> QED BY <2>1, <3>1 DEF OnlyFor
  <2>8. BaseInv'
    <3>1. leaked' \subseteq faulty'
      BY <1>1, <2>1, <2>6 DEF BaseInv
    <3>2. /\ sandboxes' \subseteq VNIs /\ monitored' \subseteq sandboxes'
          /\ leaked' \subseteq VNIs /\ faulty' \subseteq VNIs
      BY <1>1, <2>1 DEF BaseInv
    <3> QED BY <1>1, <2>1, <2>2, <3>1, <3>2 DEF BaseInv
  <2>9. ContainerShape(c)'
    <3>1. ~Has(Port(c)) BY <1>1
    <3> QED BY <1>1, <2>4, <3>1 DEF ContainerShape, OfContainer, Same, Has
  <2>10. NetShape(v)' BY <2>2, <2>4, <2>5 DEF NetShape, Same, Has
  <2>11. LifeOf(c)' BY <1>1, <2>1, <2>4 DEF LifeOf, Same, Has
  <2>12. RunInv' BY <1>1, <2>1, <2>4 DEF RunInv, DelInv, Same, Has
  <2>13. Clean(v)'
    <3>1. \A d \in Containers \ {c} : VNIOf[d] = v => ~Has(Port(d))' /\ state'[d] # "up"
      <4> SUFFICES ASSUME NEW d \in Containers \ {c}, VNIOf[d] = v
                   PROVE  ~Has(Port(d))' /\ state'[d] # "up"
        OBVIOUS
      <4>1. Same(Port(d)) /\ ~Has(Port(d)) BY <1>1, <2>7, OtherContainers
      <4>2. state[d] # "up"
        BY <4>1, <1>1 DEF IInv, LifeInv, LifeOf, Wired, Enslaved, IsUp, Has
      <4> QED BY <2>1, <4>1, <4>2 DEF Same, Has
    <3>2. PortsOf(v)' BY <2>1, <3>1 DEF PortsOf
    <3>3. ~Used(v)' BY <2>1, <3>1 DEF Used
    <3>4. /\ ~Held(v)'
          /\ \A i, j : ~Past(v, i)' /\ ~Within(v, i, j)'
      BY <1>1, <2>1 DEF Held, Past, Within, Busy
    <3>5. SandboxOf(v)' BY <1>1, <2>1, <3>3, <3>4 DEF SandboxOf, Busy
    <3>6. VxlanOf(v)' BY <2>2, <2>4, <2>5, <3>3, <3>4 DEF VxlanOf, Same, Has
    <3>7. DnsOf(v)' /\ BridgeOf(v)' BY <2>2, <3>3, <3>4 DEF DnsOf, BridgeOf, Has
    <3> QED BY <3>2, <3>5, <3>6, <3>7 DEF Clean, NetOf
  <2>14. IInv' BY <2>7, <2>8, <2>9, <2>10, <2>11, <2>12, <2>13, OneContainer
  <2> QED BY <2>1, <2>14 DEF Cause
<1>4. CASE ~ok
  <2>1. v \in faulty
    <3> SUFFICES ASSUME v \notin faulty PROVE FALSE OBVIOUS
    <3>1. SandboxOf(v) /\ Held(v) BY <1>1 DEF NetOf, Held
    <3> QED BY <1>4, <3>1 DEF SandboxOf
  <2>2. /\ Now.arg = v /\ Abort /\ dev' = dev /\ UNCHANGED faults
        /\ leaked' = leaked /\ sandboxes' = sandboxes /\ monitored' = monitored
        /\ faulty' = faulty
    <3>1. Now.arg = v BY DEF Destroy, Cmd
    <3>2. /\ Abort /\ dev' = dev /\ faults' = faults
          /\ leaked' = leaked \cup {w \in {v} : FALSE}
          /\ sandboxes' = sandboxes \ {w \in {v} : FALSE}
          /\ monitored' = monitored \ {w \in {v} : FALSE}
          /\ faulty' = faulty \ {w \in {v} : FALSE}
      BY <1>4, <3>1 DEF RepositoryDestroy
    <3> QED BY <3>1, <3>2
  <2> QED BY <1>1, <2>1, <2>2, Aborts DEF BaseInv
<1> QED BY <1>3, <1>4

-----------------------------------------------------------------------------
(* The steps of no command.                                                  *)

\* A request begins.
LEMMA Begins ==
  ASSUME IInv, NEW c \in Containers, NEW what \in {"ADD", "DEL"}, Begin(c, what)
  PROVE  IInv' /\ Cause
<1> DEFINE v == VNIOf[c]
<1>1. /\ BaseInv /\ DevInv /\ ContainerShape(c) /\ NetShape(v) /\ LifeOf(c) /\ v \in VNIs
      /\ v \notin faulty => Clean(v)
      /\ c # Nil /\ who = Nil /\ who' = c /\ doing' = what /\ pos' = 1 /\ Hops \in Nat
      /\ what = "ADD" => state[c] = "out"
      /\ what = "DEL" => state[c] \in {"up", "delFailed"}
      /\ UNCHANGED <<dev, sandboxes, monitored, leaked, state, faulty, faults>>
  BY LinksAssumption, RoutesLen DEF Begin, IInv, BaseInv, ShapeInv, LifeInv, CleanInv
<1> HIDE DEF v
<1>2. \A x : Same(x) BY <1>1 DEF Same
<1>3. OnlyFor(c) BY <1>1, <1>2 DEF OnlyFor, SameBut, Kept, Enslaved, IsUp, Has, v
<1>4. BaseInv' BY <1>1 DEF BaseInv, DevInv
<1>5. ContainerShape(c)' BY <1>1 DEF ContainerShape, Has, OfContainer
<1>6. NetShape(v)' BY <1>1 DEF NetShape, Has
<1>7. LifeOf(c)' BY <1>1 DEF LifeOf, Has
<1>8. RunInv'
  <2>1. CASE what = "ADD"
    <3>1. ~Has(EthOf(c)) BY <1>1, <2>1 DEF LifeOf
    <3> QED BY <1>1, <2>1, <3>1 DEF RunInv, AddInv, Has
  <2>2. CASE what = "DEL" BY <1>1, <2>2 DEF RunInv, DelInv
  <2> QED BY <2>1, <2>2
<1>9. ASSUME v \notin faulty' PROVE Clean(v)'
  <2>1. /\ PortsOf(v) /\ SandboxOf(v) /\ VxlanOf(v) /\ DnsOf(v) /\ BridgeOf(v) /\ ~Held(v)
        /\ \A i, j : ~Past(v, i) /\ ~Within(v, i, j)
    BY <1>1, <1>9 DEF Clean, NetOf, Past, Within, Held, Busy
  <2>2. /\ ~Past(v, 2)' /\ ~Past(v, 4)' /\ ~Past(v, 5)' /\ ~Past(v, 10)' /\ ~Past(v, 17 + Hops)'
        /\ \A j : /\ ~Within(v, 2, j)' /\ ~Within(v, 4, j)' /\ ~Within(v, 6, j)'
                  /\ ~Within(v, 17 + Hops, j)' /\ ~Within(v, 18 + Hops, j)'
        /\ Held(v)' <=> what = "DEL" /\ state[c] = "up"
    BY <1>1 DEF Past, Within, Held, Busy, v
  <2>3. Used(v)' \/ Held(v)' <=> Used(v)
    BY <1>1, <2>2, LinksAssumption DEF Used, v
  <2>4. Has(EthOf(c)) /\ what = "DEL" => state[c] = "up"
    BY <1>1, <2>1 DEF ContainerShape, LifeOf, PortsOf, v
  <2>5. what = "DEL" /\ state[c] = "up" => Has(EthOf(c))
    BY <1>1, <2>1 DEF ContainerShape, PortsOf, v
  <2>6. PortsOf(v)' BY <1>1, <2>1, LinksAssumption DEF PortsOf, Has
  <2>7. SandboxOf(v)'
    BY <1>1, <2>1, <2>2, <2>3, <2>4, <2>5 DEF SandboxOf, Busy, Has
  <2>8. VxlanOf(v)' BY <1>1, <2>1, <2>2, <2>3 DEF VxlanOf, Has
  <2>9. DnsOf(v)' BY <1>1, <2>1, <2>2, <2>3 DEF DnsOf, Has
  <2>10. BridgeOf(v)' BY <1>1, <2>1, <2>2, <2>3 DEF BridgeOf, Has
  <2> QED BY <2>6, <2>7, <2>8, <2>9, <2>10 DEF Clean, NetOf
<1>10. IInv' BY <1>3, <1>4, <1>5, <1>6, <1>7, <1>8, <1>9, OneContainer DEF v
<1> QED BY <1>1, <1>10 DEF Cause

\* A request ends well.
LEMMA Finishes ==
  ASSUME IInv, Finish
  PROVE  IInv' /\ Cause
<1>1. PICK c \in Containers : who = c BY DEF IInv, BaseInv, Finish
<1> DEFINE v == VNIOf[c]
<1>2. /\ BaseInv /\ DevInv /\ ContainerShape(c) /\ NetShape(v) /\ LifeOf(c) /\ v \in VNIs
      /\ v \notin faulty => NetOf(v) /\ PortsOf(v)
      /\ c # Nil /\ Hops \in Nat /\ Busy(v)
      /\ doing = "ADD" => AddInv(c)
      /\ doing = "DEL" => DelInv(c)
  BY <1>1, OwnFacts
<1>3. /\ doing = "ADD" => pos = 24 + Hops
      /\ doing = "DEL" => pos = 5
      /\ doing \in {"ADD", "DEL"}
  <2>1. pos > Len(Program) /\ pos \in 1..(IF doing = "ADD" THEN 24 + Hops ELSE 5)
    BY <1>1, <1>2 DEF Finish, BaseInv
  <2>2. /\ doing = "ADD" => Len(Program) = 23 + Hops
        /\ doing = "DEL" => Len(Program) = 4
    BY <1>1, ProgramIs
  <2>3. doing \in {"ADD", "DEL"} BY <1>2 DEF BaseInv
  <2>4. doing = "ADD" => pos > 23 + Hops /\ pos \in 1..(24 + Hops) BY <2>1, <2>2
  <2>5. doing = "DEL" => pos > 4 /\ pos \in 1..5 BY <2>1, <2>2
  <2> QED BY <1>2, <2>3, <2>4, <2>5
<1>4. /\ who' = Nil /\ pos' = 0 /\ doing' = "ADD"
      /\ state' = [state EXCEPT ![c] = IF doing = "ADD" THEN "up" ELSE "out"]
      /\ UNCHANGED <<dev, sandboxes, monitored, leaked, faulty, faults>>
  BY <1>1 DEF Finish, End
<1>5. /\ state'[c] = IF doing = "ADD" THEN "up" ELSE "out"
      /\ \A d \in Containers \ {c} : state'[d] = state[d]
      /\ state' \in [Containers -> {"out", "up", "addFailed", "delFailed"}]
  BY <1>2, <1>4 DEF BaseInv
<1> HIDE DEF v
<1>6. \A x : Same(x) BY <1>4 DEF Same
<1>7. OnlyFor(c) BY <1>1, <1>4, <1>5, <1>6 DEF OnlyFor, SameBut, Kept, Enslaved, IsUp, Has
<1>8. BaseInv' BY <1>2, <1>4, <1>5 DEF BaseInv, DevInv
<1>9. ContainerShape(c)' BY <1>2, <1>4 DEF ContainerShape, Has, OfContainer
<1>10. NetShape(v)' BY <1>2, <1>4 DEF NetShape, Has
<1>11. CASE doing = "ADD"
  <2>1. Wired(c) /\ ~Has(Made(c)) /\ Has(Port(c))
    <3>1. /\ pos >= 10 /\ pos >= 13 /\ pos >= 14 /\ pos >= 15 /\ pos >= 16 + Hops
          /\ pos >= 22 + Hops /\ pos >= 23 + Hops /\ pos >= 12
      BY <1>2, <1>3, <1>11
    <3>2. Has(EthOf(c)) BY <1>2, <1>11, <3>1 DEF AddInv, ContainerShape
    <3> QED
      BY <1>2, <1>11, <3>1, <3>2
         DEF Wired, AddInv, ContainerShape, IsUp, Enslaved, Has, RoutesTo, v
  <2>2. LifeOf(c)' BY <1>4, <1>5, <1>11, <2>1 DEF LifeOf, Wired, Has, IsUp, Enslaved
  <2>3. ASSUME v \notin faulty' PROVE Clean(v)'
    <3>1. /\ PortsOf(v) /\ SandboxOf(v) /\ VxlanOf(v) /\ DnsOf(v) /\ BridgeOf(v)
          /\ Past(v, 2) /\ Past(v, 4) /\ Past(v, 5) /\ Past(v, 10) /\ Past(v, 17 + Hops)
          /\ ~Within(v, 4, 4) /\ ~Within(v, 6, 6) /\ ~Within(v, 6, 7)
          /\ ~Within(v, 6, 20 + Hops) /\ ~Within(v, 18 + Hops, 18 + Hops)
          /\ ~Within(v, 18 + Hops, 19 + Hops)
      BY <1>2, <1>3, <1>4, <1>11, <2>3 DEF NetOf, Past, Within
    <3>2. /\ ~Held(v)' /\ ~Busy(v)'
          /\ \A i, j : ~Past(v, i)' /\ ~Within(v, i, j)'
      BY <1>4 DEF Past, Within, Held, Busy
    <3>3. Used(v)' BY <1>2, <1>4, <1>5, <1>11 DEF Used, v
    <3>4. PortsOf(v)' BY <1>1, <1>4, <1>5, <1>11, <2>1, <3>1 DEF PortsOf, Has
    <3>5. SandboxOf(v)' BY <1>4, <3>1, <3>2, <3>3 DEF SandboxOf
    <3>6. VxlanOf(v)' BY <1>4, <3>1, <3>2, <3>3 DEF VxlanOf, Has
    <3>7. DnsOf(v)' BY <1>4, <3>1, <3>2, <3>3 DEF DnsOf, Has
    <3>8. BridgeOf(v)' BY <1>4, <3>1, <3>2, <3>3 DEF BridgeOf, Has
    <3> QED BY <3>4, <3>5, <3>6, <3>7, <3>8 DEF Clean, NetOf
  <2>4. RunInv' BY <1>4 DEF RunInv
  <2> QED
    BY <1>4, <1>5, <1>7, <1>8, <1>9, <1>10, <1>11, <2>2, <2>3, <2>4, OneContainer
       DEF Cause, v
<1>12. CASE doing = "DEL"
  <2>1. ~Has(EthOf(c)) BY <1>2, <1>3, <1>12 DEF DelInv
  <2>2. LifeOf(c)' BY <1>4, <1>5, <1>12, <2>1 DEF LifeOf, Has
  <2>3. ASSUME v \notin faulty' PROVE Clean(v)'
    <3>1. /\ PortsOf(v) /\ SandboxOf(v) /\ VxlanOf(v) /\ DnsOf(v) /\ BridgeOf(v) /\ ~Held(v)
          /\ \A i, j : ~Past(v, i) /\ ~Within(v, i, j)
      BY <1>2, <1>3, <1>4, <1>12, <2>3 DEF NetOf, Past, Within, Held
    <3>2. /\ ~Held(v)' /\ ~Busy(v)'
          /\ \A i, j : ~Past(v, i)' /\ ~Within(v, i, j)'
      BY <1>4 DEF Past, Within, Held, Busy
    <3>3. Used(v)' <=> Used(v)
      BY <1>1, <1>4, <1>5, <1>12, LinksAssumption DEF Used
    <3>4. PortsOf(v)'
      BY <1>1, <1>2, <1>4, <1>5, <1>12, <2>1, <3>1 DEF PortsOf, ContainerShape, Has
    <3>5. SandboxOf(v)' BY <1>4, <3>1, <3>2, <3>3 DEF SandboxOf
    <3>6. VxlanOf(v)' BY <1>4, <3>1, <3>2, <3>3 DEF VxlanOf, Has
    <3>7. DnsOf(v)' BY <1>4, <3>1, <3>2, <3>3 DEF DnsOf, Has
    <3>8. BridgeOf(v)' BY <1>4, <3>1, <3>2, <3>3 DEF BridgeOf, Has
    <3> QED BY <3>4, <3>5, <3>6, <3>7, <3>8 DEF Clean, NetOf
  <2>4. RunInv' BY <1>4 DEF RunInv
  <2> QED
    BY <1>4, <1>5, <1>7, <1>8, <1>9, <1>10, <1>12, <2>2, <2>3, <2>4, OneContainer
       DEF Cause, v
<1> QED BY <1>3, <1>11, <1>12

\* A command fails by itself.
LEMMA Faults ==
  ASSUME IInv, Fault
  PROVE  IInv' /\ Cause
<1>1. PICK c \in Containers : who = c BY DEF IInv, BaseInv, Fault, CanFail
<1>2. BaseInv /\ pos <= Len(Program) BY DEF IInv, Fault, CanFail
<1>3. Now.op = "Destroy" => Now.arg = VNIOf[c]
  BY <1>1, <1>2, Commanded DEF Destroy, Cmd
<1>4. /\ Abort /\ dev' = dev /\ sandboxes' = sandboxes /\ leaked' = leaked
      /\ monitored' = monitored \/ monitored' = monitored \ {VNIOf[c]}
      /\ faulty' = faulty \cup {VNIOf[c]}
  BY <1>1, <1>3 DEF Fault, Failed
<1>5. faults' \in 0..MaxFaults
  BY <1>2, LinksAssumption DEF Fault, Failed, CanFail, BaseInv
<1> QED BY <1>1, <1>4, <1>5, Aborts

\* The daemon's files of an unmounted namespace are closed.
LEMMA NamespaceCloses ==
  ASSUME IInv, NEW v \in VNIs, CloseNamespace(v)
  PROVE  IInv' /\ Cause
<1>1. /\ leaked' = leaked \ {v}
      /\ UNCHANGED <<dev, sandboxes, monitored, state, who, doing, pos, faulty, faults>>
  BY DEF CloseNamespace
<1>2. BaseInv' BY <1>1 DEF IInv, BaseInv, DevInv
<1>3. ShapeInv' BY <1>1 DEF IInv, ShapeInv, ContainerShape, OfContainer, NetShape, Has
<1>4. LifeInv' BY <1>1 DEF IInv, LifeInv, LifeOf, Wired, IsUp, Enslaved, Has
<1>5. RunInv' BY <1>1 DEF IInv, RunInv, AddInv, DelInv, IsUp, Has
<1>6. CleanInv'
  BY <1>1 DEF IInv, CleanInv, Clean, PortsOf, NetOf, SandboxOf, VxlanOf, DnsOf, BridgeOf,
              Used, Past, Within, Held, Busy, Has
<1> QED BY <1>1, <1>2, <1>3, <1>4, <1>5, <1>6 DEF IInv, Cause

\* A container goes whose ADD failed, and what it had of the devices.
LEMMA ContainerGoesAway ==
  ASSUME IInv, NEW c \in Containers, ContainerGone(c)
  PROVE  IInv' /\ Cause
<1> DEFINE xs == {x \in DOMAIN dev : x[1] = ContainerNS(c)}
<1>1. /\ who # c /\ state[c] = "addFailed" /\ dev' = Without(xs)
      /\ state' = [state EXCEPT ![c] = "out"]
      /\ UNCHANGED <<sandboxes, monitored, leaked, who, doing, pos, faulty, faults>>
  BY DEF ContainerGone
<1>2. BaseInv /\ DevInv BY DEF IInv, BaseInv
<1>3. xs \subseteq OfContainer(c) /\ (Has(EthOf(c)) => EthOf(c) \in xs)
  <2>1. ASSUME NEW x \in xs PROVE x \in OfContainer(c)
    <3>1. x \in Places /\ x[1] = ContainerNS(c) BY <1>2 DEF DevInv
    <3>2. ASSUME NEW w \in VNIs, x \in OfNet(w) PROVE FALSE
      BY <3>1, <3>2 DEF OfNet, Fresh, VxlanAt, BridgeAt, DnsAt, HostNS, SandboxNS, ContainerNS
    <3>3. PICK d \in Containers : x \in OfContainer(d) BY <3>1, <3>2, PlacesAre
    <3>4. Port(d)[1] # ContainerNS(c) BY DEF Port, SandboxNS, ContainerNS
    <3>5. EthOf(d)[1] = ContainerNS(d) /\ Made(d)[1] = ContainerNS(d) BY DEF EthOf, Made
    <3>6. ContainerNS(d) = ContainerNS(c) BY <3>1, <3>3, <3>4, <3>5 DEF OfContainer
    <3>7. d = c BY <3>6 DEF ContainerNS
    <3> QED BY <3>3, <3>7
  <2>2. EthOf(c)[1] = ContainerNS(c) BY DEF EthOf
  <2> QED BY <2>1, <2>2 DEF Has
<1> HIDE DEF xs
<1>4. /\ DevInv' /\ SameBut(OfContainer(c)) /\ OfContainer(c) \cap DOMAIN dev' = {}
  <2>1. xs \in SUBSET (OfContainer(c) \cap DOMAIN dev) BY <1>3 DEF xs
  <2> QED BY <1>1, <1>3, <2>1, ContainerGoes
<1>5. /\ state'[c] = "out" /\ \A d \in Containers \ {c} : state'[d] = state[d]
      /\ state' \in [Containers -> {"out", "up", "addFailed", "delFailed"}]
  BY <1>1, <1>2 DEF BaseInv
<1>6. \A v : Same(Fresh(v)) /\ Same(VxlanAt(v)) /\ Same(BridgeAt(v)) /\ Same(DnsAt(v))
  BY <1>4, ContainerNetApart DEF SameBut, OfNet
<1>7. \A d \in Containers \ {c} : Same(EthOf(d)) /\ Same(Made(d)) /\ Same(Port(d))
  BY <1>4, ContainersApart DEF SameBut, OfContainer
<1>8. ~Has(EthOf(c))' /\ ~Has(Made(c))' /\ ~Has(Port(c))'
  BY <1>4 DEF OfContainer, Has
<1>9. BaseInv' BY <1>1, <1>2, <1>4, <1>5 DEF BaseInv
<1>10. ShapeInv'
  <2>1. ASSUME NEW d \in Containers \ {c} PROVE ContainerShape(d)'
    <3>1. ContainerShape(d) BY DEF IInv, ShapeInv
    <3> QED BY <1>6, <1>7, <3>1 DEF ContainerShape, OfContainer, Same, Has
  <2>2. ContainerShape(c)' BY <1>4, <1>8 DEF ContainerShape, Has
  <2>3. ASSUME NEW v \in VNIs PROVE NetShape(v)'
    <3>1. NetShape(v) BY DEF IInv, ShapeInv
    <3> QED BY <1>1, <1>6, <3>1 DEF NetShape, Same, Has
  <2> QED BY <2>1, <2>2, <2>3 DEF ShapeInv
<1>11. LifeInv'
  <2>1. ASSUME NEW d \in Containers \ {c} PROVE LifeOf(d)'
    <3>1. LifeOf(d) BY DEF IInv, LifeInv
    <3> QED BY <1>1, <1>5, <1>6, <1>7, <3>1 DEF LifeOf, Wired, IsUp, Enslaved, Same, Has
  <2>2. LifeOf(c)' BY <1>5, <1>8 DEF LifeOf
  <2> QED BY <2>1, <2>2 DEF LifeInv
<1>12. RunInv'
  <2> SUFFICES ASSUME who # Nil
               PROVE  IF doing = "ADD" THEN AddInv(who)' ELSE DelInv(who)'
    BY <1>1 DEF RunInv
  <2>1. PICK d \in Containers \ {c} : who = d BY <1>1, <1>2 DEF BaseInv
  <2>2. doing = "ADD" => AddInv(d) BY <2>1 DEF IInv, RunInv
  <2>3. doing # "ADD" => DelInv(d) BY <2>1 DEF IInv, RunInv
  <2>4. doing = "ADD" => AddInv(d)'
    <3> SUFFICES ASSUME doing = "ADD" PROVE AddInv(d)' OBVIOUS
    <3>1. pos \in Nat /\ Hops \in Nat /\ (pos >= 12 => Has(EthOf(d)))
      BY <2>1, OwnFacts
    <3>2. /\ AddInv(d) /\ state'[d] = state[d] /\ Same(EthOf(d)) /\ Same(Made(d))
          /\ Same(Port(d)) /\ Same(VxlanAt(VNIOf[d]))
          /\ UNCHANGED <<pos, sandboxes, monitored>>
      BY <1>1, <1>5, <1>6, <1>7, <2>2
    <3> QED BY ONLY <3>1, <3>2 DEF AddInv, Same, Has, IsUp
  <2>5. doing # "ADD" => DelInv(d)'
    BY <1>1, <1>5, <1>7, <1>8, <2>3 DEF DelInv, Same, Has
  <2> QED BY <1>1, <2>1, <2>4, <2>5
<1>13. CleanInv'
  <2> SUFFICES ASSUME NEW v \in VNIs \ faulty PROVE Clean(v)' BY <1>1 DEF CleanInv
  <2>1. /\ PortsOf(v) /\ SandboxOf(v) /\ VxlanOf(v) /\ DnsOf(v) /\ BridgeOf(v)
    BY DEF IInv, CleanInv, Clean, NetOf
  <2>2. Used(v)' <=> Used(v) BY <1>1, <1>5 DEF Used
  <2>3. /\ Held(v)' <=> Held(v)
        /\ \A i, j : (Past(v, i)' <=> Past(v, i)) /\ (Within(v, i, j)' <=> Within(v, i, j))
    BY <1>1, <1>5 DEF Past, Within, Held, Busy
  <2>4. PortsOf(v)' BY <1>1, <1>5, <1>7, <1>8, <2>1 DEF PortsOf, Same, Has
  <2>5. SandboxOf(v)'
    <3>1. who \in Containers => who \in Containers \ {c} BY <1>1
    <3> QED BY <1>1, <1>2, <1>5, <1>7, <2>1, <2>2, <2>3, <3>1, LinksAssumption
            DEF SandboxOf, Busy, Same, Has, BaseInv
  <2>6. VxlanOf(v)' BY <1>1, <1>6, <2>1, <2>2, <2>3 DEF VxlanOf, Same, Has
  <2>7. DnsOf(v)' BY <1>6, <2>1, <2>2, <2>3 DEF DnsOf, Same, Has
  <2>8. BridgeOf(v)' BY <1>6, <2>1, <2>2, <2>3 DEF BridgeOf, Same, Has
  <2> QED BY <2>4, <2>5, <2>6, <2>7, <2>8 DEF Clean, NetOf
<1> QED BY <1>1, <1>5, <1>9, <1>10, <1>11, <1>12, <1>13 DEF IInv, Cause

-----------------------------------------------------------------------------
(* The theorems.                                                             *)

\* A request starts.
LEMMA Starts ==
  ASSUME Init
  PROVE  IInv
<1>1. DOMAIN dev = {} BY DEF Init
<1>2. BaseInv BY <1>1, LinksAssumption DEF Init, BaseInv, DevInv
<1>3. ShapeInv BY <1>1 DEF ShapeInv, ContainerShape, NetShape, Has
<1>4. LifeInv BY <1>1 DEF Init, LifeInv, LifeOf, Has
<1>5. RunInv BY DEF Init, RunInv
<1>6. CleanInv
  <2> SUFFICES ASSUME NEW v \in VNIs PROVE Clean(v) BY DEF CleanInv
  <2>1. /\ ~Used(v) /\ ~Held(v) /\ ~Busy(v)
        /\ \A i, j : ~Past(v, i) /\ ~Within(v, i, j)
    BY DEF Init, Used, Past, Within, Held, Busy
  <2>2. PortsOf(v) BY <1>1 DEF Init, PortsOf, Has
  <2>3. SandboxOf(v) BY <2>1 DEF Init, SandboxOf
  <2>4. VxlanOf(v) BY <1>1, <2>1 DEF VxlanOf, Has
  <2>5. DnsOf(v) /\ BridgeOf(v) BY <1>1, <2>1 DEF DnsOf, BridgeOf, Has
  <2> QED BY <2>2, <2>3, <2>4, <2>5 DEF Clean, NetOf
<1> QED BY <1>2, <1>3, <1>4, <1>5, <1>6 DEF IInv

\* A command of a request.
Command ==
  \/ LinkAddVxlan \/ LinkAddDummy \/ LinkAddBridge \/ LinkAddVeth
  \/ LinkSetUp \/ LinkSetNsFd \/ LinkSetMaster \/ AddrAdd \/ RouteAdd
  \/ HardwareAddress \/ DeleteLinkByName \/ DeleteVxlanByName
  \/ SandboxExists \/ LinkExists \/ RepositoryCreate \/ SandboxLaunchDNS
  \/ WatcherStartMonitor \/ VethDeviceCount \/ RepositoryDestroy \/ LookupFails

\* Each command preserves the invariant, at the positions where it stands.
LEMMA Commands ==
  ASSUME IInv, Command
  PROVE  IInv' /\ Cause
<1>1. who # Nil /\ pos <= Len(Program)
  BY DEF Command, Running, CanFail, LinkAddVxlan, LinkAddDummy, LinkAddBridge, LinkAddVeth,
         LinkSetUp, LinkSetNsFd, LinkSetMaster, AddrAdd, RouteAdd, HardwareAddress,
         DeleteLinkByName, DeleteVxlanByName, SandboxExists, LinkExists, RepositoryCreate,
         SandboxLaunchDNS, WatcherStartMonitor, VethDeviceCount, RepositoryDestroy, LookupFails
<1>2. PICK c \in Containers : who = c BY <1>1 DEF IInv, BaseInv
<1>3. PICK v : v = VNIOf[c] OBVIOUS
<1>4. BaseInv BY DEF IInv
<1>5. CASE LinkAddVxlan
  <2>1. Now.op = "CreateVxlan" BY <1>5 DEF LinkAddVxlan, Running, Now
  <2>2. Adds(3) /\ Now = CreateVxlan(v)
    BY <1>1, <1>2, <1>3, <1>4, <2>1, Commanded
  <2> QED BY <1>2, <1>3, <1>5, <2>2, VxlanMade
<1>6. CASE LinkAddDummy
  <2>1. Now.op = "CreateDummy" BY <1>6 DEF LinkAddDummy, Running, Now
  <2>2. Adds(5) /\ Now = CreateDummy(SandboxNS(v), Dns)
    BY <1>1, <1>2, <1>3, <1>4, <2>1, Commanded
  <2> QED BY <1>2, <1>3, <1>6, <2>2, DummyMade
<1>7. CASE LinkAddBridge
  <2>1. Now.op = "CreateBridge" BY <1>7 DEF LinkAddBridge, Running, Now
  <2>2. Adds(17 + Hops) /\ Now = CreateBridge(SandboxNS(v), Bridge(v))
    BY <1>1, <1>2, <1>3, <1>4, <2>1, Commanded
  <2> QED BY <1>2, <1>3, <1>7, <2>2, BridgeMade
<1>8. CASE LinkAddVeth
  <2>1. Now.op = "CreateVeth" BY <1>8 DEF LinkAddVeth, Running, Now
  <2>2. Adds(11) /\ Now = CreateVeth(ContainerNS(c), Eth, NameSandboxLink(c))
    BY <1>1, <1>2, <1>3, <1>4, <2>1, Commanded
  <2> QED BY <1>2, <1>3, <1>8, <2>2, VethMade
<1>9. CASE LinkSetUp
  <2>1. Now.op = "SetLinkUp" BY <1>9 DEF LinkSetUp, Running, Now
  <2>2. \/ Adds(7) /\ Now = SetLinkUp(SandboxNS(v), Dns)
        \/ Adds(9) /\ Now = SetLinkUp(SandboxNS(v), Vxlan(v))
        \/ Adds(14) /\ Now = SetLinkUp(ContainerNS(c), Eth)
        \/ Adds(15 + Hops) /\ Now = SetLinkUp(SandboxNS(v), NameSandboxLink(c))
        \/ Adds(19 + Hops) /\ Now = SetLinkUp(SandboxNS(v), Bridge(v))
    BY <1>1, <1>2, <1>3, <1>4, <2>1, Commanded
  <2> QED BY <1>2, <1>3, <1>9, <2>2, DnsUp, VxlanUp, EthUp, PortUp, BridgeUp
<1>10. CASE LinkSetNsFd
  <2>1. Now.op = "MoveLink" BY <1>10 DEF LinkSetNsFd, Running, Now
  <2>2. \/ Adds(4) /\ Now = MoveLink(HostNS, Vxlan(v), v)
        \/ Adds(12) /\ Now = MoveLink(ContainerNS(c), NameSandboxLink(c), v)
    BY <1>1, <1>2, <1>3, <1>4, <2>1, Commanded
  <2> QED BY <1>2, <1>3, <1>10, <2>2, VxlanMoved, PeerMoved
<1>11. CASE LinkSetMaster
  <2>1. Now.op = "SetLinkMaster" BY <1>11 DEF LinkSetMaster, Running, Now
  <2>2. \/ Adds(20 + Hops) /\ Now = SetLinkMaster(SandboxNS(v), Dns, Bridge(v))
        \/ Adds(21 + Hops) /\ Now = SetLinkMaster(SandboxNS(v), Vxlan(v), Bridge(v))
        \/ Adds(22 + Hops) /\ Now = SetLinkMaster(SandboxNS(v), NameSandboxLink(c), Bridge(v))
    BY <1>1, <1>2, <1>3, <1>4, <2>1, Commanded
  <2> QED BY <1>2, <1>3, <1>11, <2>2, DnsEnslaved, VxlanEnslaved, PortEnslaved
<1>12. CASE AddrAdd
  <2>1. Now.op = "AddAddress" BY <1>12 DEF AddrAdd, Running, Now
  <2>2. \/ Adds(6) /\ Now = AddAddress(SandboxNS(v), Dns, DNS)
        \/ Adds(13) /\ Now = AddAddress(ContainerNS(c), Eth, c)
        \/ Adds(18 + Hops) /\ Now = AddAddress(SandboxNS(v), Bridge(v), Gateway)
    BY <1>1, <1>2, <1>3, <1>4, <2>1, Commanded
  <2> QED BY <1>2, <1>3, <1>12, <2>2, DnsAddress, EthAddress, BridgeAddress
<1>13. CASE RouteAdd
  <2>1. Now.op = "AddRoute" BY <1>13 DEF RouteAdd, Running, Now
  <2>2. \E i \in 1..Hops : Adds(14 + i) /\ Now = AddRoute(ContainerNS(c), Eth, Routes[i])
    BY <1>1, <1>2, <1>3, <1>4, <2>1, Commanded
  <2> QED BY <1>2, <1>3, <1>13, <2>2, RouteAdded
<1>14. CASE HardwareAddress
  <2>1. Now.op = "GetHardwareAddress" BY <1>14 DEF HardwareAddress, Running, Now
  <2>2. Adds(23 + Hops) /\ Now = GetHardwareAddress(ContainerNS(c), Eth)
    BY <1>1, <1>2, <1>3, <1>4, <2>1, Commanded
  <2> QED BY <1>2, <1>3, <1>14, <2>2, HardwareRead
<1>15. CASE DeleteLinkByName
  <2>1. Now.op = "DeleteLink" BY <1>15 DEF DeleteLinkByName, Running, Now
  <2>2. Dels(1) /\ Now = DeleteLink(ContainerNS(c), Eth)
    BY <1>1, <1>2, <1>3, <1>4, <2>1, Commanded
  <2> QED BY <1>2, <1>3, <1>15, <2>2, EthDeleted
<1>16. CASE DeleteVxlanByName
  <2>1. Now.op = "DeleteVxlan" BY <1>16 DEF DeleteVxlanByName, Running, Now
  <2>2. Dels(3) /\ Now = DeleteVxlan(v)
    BY <1>1, <1>2, <1>3, <1>4, <2>1, Commanded
  <2> QED BY <1>2, <1>3, <1>16, <2>2, VxlanDeleted
<1>17. CASE SandboxExists
  <2>1. Now.op = "UnlessSandbox" BY <1>17 DEF SandboxExists, Running, Now
  <2>2. Adds(1) /\ Now = Cmd("UnlessSandbox", SandboxNS(v), Nil, 7)
    BY <1>1, <1>2, <1>3, <1>4, <2>1, Commanded
  <2> QED BY <1>2, <1>3, <1>17, <2>2, SandboxLookedUp
<1>18. CASE LinkExists
  <2>1. Now.op = "UnlessLink" BY <1>18 DEF LinkExists, Running, Now
  <2>2. Adds(16 + Hops) /\ Now = Cmd("UnlessLink", SandboxNS(v), Bridge(v), 4)
    BY <1>1, <1>2, <1>3, <1>4, <2>1, Commanded
  <2> QED BY <1>2, <1>3, <1>18, <2>2, BridgeLookedUp
<1>19. CASE RepositoryCreate
  <2>1. Now.op = "CreateSandbox" BY <1>19 DEF RepositoryCreate, Running, Now
  <2>2. Adds(2) /\ Now = CreateSandbox(v)
    BY <1>1, <1>2, <1>3, <1>4, <2>1, Commanded
  <2> QED BY <1>2, <1>3, <1>19, <2>2, SandboxMade
<1>20. CASE SandboxLaunchDNS
  <2>1. Now.op = "LaunchDNS" BY <1>20 DEF SandboxLaunchDNS, Running, Now
  <2>2. Adds(8) /\ Now = LaunchDNS(v)
    BY <1>1, <1>2, <1>3, <1>4, <2>1, Commanded
  <2> QED BY <1>2, <1>3, <1>20, <2>2, DnsLaunched
<1>21. CASE WatcherStartMonitor
  <2>1. Now.op = "StartMonitor" BY <1>21 DEF WatcherStartMonitor, Running, Now
  <2>2. Adds(10) /\ Now = StartMonitor(v)
    BY <1>1, <1>2, <1>3, <1>4, <2>1, Commanded
  <2> QED BY <1>2, <1>3, <1>21, <2>2, MonitorStarted
<1>22. CASE VethDeviceCount
  <2>1. Now.op = "CountVeths" BY <1>22 DEF VethDeviceCount, Running, Now
  <2>2. Dels(2) /\ Now = CountVeths(v)
    BY <1>1, <1>2, <1>3, <1>4, <2>1, Commanded
  <2> QED BY <1>2, <1>3, <1>22, <2>2, VethsCounted
<1>23. CASE RepositoryDestroy
  <2>1. Now.op = "Destroy" BY <1>23 DEF RepositoryDestroy, Running, Now
  <2>2. Dels(4) /\ Now = Destroy(v)
    BY <1>1, <1>2, <1>3, <1>4, <2>1, Commanded
  <2> QED BY <1>2, <1>3, <1>23, <2>2, SandboxDestroyed
<1>24. CASE LookupFails
  BY <1>1, <1>2, <1>3, <1>4, <1>24, Commanded, BridgeMissed, VxlanMissed
     DEF LookupFails
<1> QED
  BY <1>5, <1>6, <1>7, <1>8, <1>9, <1>10, <1>11, <1>12, <1>13, <1>14, <1>15, <1>16,
     <1>17, <1>18, <1>19, <1>20, <1>21, <1>22, <1>23, <1>24 DEF Command

\* Every step preserves the invariant, and a request fails for a cause,
LEMMA Steps ==
  ASSUME IInv, Next
  PROVE  IInv' /\ Cause
<1>1. CASE Command BY <1>1, Commands
<1>2. CASE \E c \in Containers, what \in {"ADD", "DEL"} : Begin(c, what) BY <1>2, Begins
<1>3. CASE Finish BY <1>3, Finishes
<1>4. CASE Fault BY <1>4, Faults
<1>5. CASE \E v \in VNIs : CloseNamespace(v) BY <1>5, NamespaceCloses
<1>6. CASE \E c \in Containers : ContainerGone(c) BY <1>6, ContainerGoesAway
<1> QED BY <1>1, <1>2, <1>3, <1>4, <1>5, <1>6 DEF Next, Command

\* and so does a step that changes nothing.
LEMMA Stutters ==
  ASSUME IInv, UNCHANGED vars
  PROVE  IInv'
<1>1. UNCHANGED <<dev, sandboxes, monitored, leaked, state, who, doing, pos, faulty, faults>>
  BY DEF vars
<1>2. BaseInv' BY <1>1 DEF IInv, BaseInv, DevInv
<1>3. ShapeInv' BY <1>1 DEF IInv, ShapeInv, ContainerShape, OfContainer, NetShape, Has
<1>4. LifeInv' BY <1>1 DEF IInv, LifeInv, LifeOf, Wired, IsUp, Enslaved, Has
<1>5. RunInv' BY <1>1 DEF IInv, RunInv, AddInv, DelInv, IsUp, Has
<1>6. CleanInv'
  BY <1>1 DEF IInv, CleanInv, Clean, PortsOf, NetOf, SandboxOf, VxlanOf, DnsOf, BridgeOf,
              Used, Past, Within, Held, Busy, Has
<1> QED BY <1>2, <1>3, <1>4, <1>5, <1>6 DEF IInv

\* The invariant holds in every reachable state of every request's program
\* (container/creator.go, container/deletor.go, executor/executor.go).
THEOREM Inductive == Spec => []IInv
<1>1. Init => IInv BY Starts
<1>2. IInv /\ [Next]_vars => IInv' BY Steps, Stutters
<1> QED BY <1>1, <1>2, PTL DEF Spec

\* A device that has a master is on the bridge of its sandbox.
LEMMA MastersAreBridges ==
  ASSUME IInv, NEW x \in DOMAIN dev, dev[x].master # Nil
  PROVE  <<x[1], dev[x].master>> \in DOMAIN dev /\ dev[<<x[1], dev[x].master>>].kind = "bridge"
<1>1. x \in Places BY DEF IInv, BaseInv, DevInv
<1>2. CASE \E c \in Containers : x \in OfContainer(c)
  <2>1. PICK c \in Containers : x \in OfContainer(c) BY <1>2
  <2>2. ContainerShape(c) /\ NetShape(VNIOf[c]) BY LinksAssumption DEF IInv, ShapeInv
  <2>3. /\ x = Port(c) /\ dev[x].master = Bridge(VNIOf[c]) /\ Has(BridgeAt(VNIOf[c]))
    BY <2>1, <2>2 DEF OfContainer, ContainerShape, Has
  <2>4. <<x[1], dev[x].master>> = BridgeAt(VNIOf[c]) BY <2>3 DEF Port, BridgeAt
  <2> QED BY <2>2, <2>3, <2>4 DEF NetShape, Has
<1>3. CASE \E v \in VNIs : x \in OfNet(v)
  <2>1. PICK v \in VNIs : x \in OfNet(v) BY <1>3
  <2>2. NetShape(v) BY DEF IInv, ShapeInv
  <2>3. /\ x \in {VxlanAt(v), DnsAt(v)} /\ dev[x].master = Bridge(v) /\ Has(BridgeAt(v))
    BY <2>1, <2>2 DEF OfNet, NetShape, Has
  <2>4. <<x[1], dev[x].master>> = BridgeAt(v) BY <2>3 DEF VxlanAt, DnsAt, BridgeAt
  <2> QED BY <2>2, <2>3, <2>4 DEF NetShape, Has
<1> QED BY <1>1, <1>2, <1>3, PlacesAre

\* A set with two elements, each at most one of two.
LEMMA TwoElements ==
  ASSUME NEW a, NEW b, a # b
  PROVE  Cardinality({a, b}) = 2
<1>1. IsFiniteSet({a}) /\ Cardinality({a}) = 1 BY FS_Singleton
<1>2. Cardinality({a} \cup {b}) = 2 BY <1>1, FS_AddElement
<1>3. {a, b} = {a} \cup {b} OBVIOUS
<1> QED BY <1>2, <1>3

\* A veth device has one peer.
LEMMA VethsAreTwo ==
  ASSUME IInv, NEW x \in DOMAIN dev, dev[x].kind = "veth"
  PROVE  Cardinality({y \in DOMAIN dev : dev[y].kind = "veth" /\ dev[y].of = dev[x].of}) = 2
<1>1. PICK c \in Containers : dev[x].of = c /\ x \in OfContainer(c) BY VethWhere
<1>2. ContainerShape(c) BY DEF IInv, ShapeInv
<1> DEFINE pair == {y \in DOMAIN dev : dev[y].kind = "veth" /\ dev[y].of = dev[x].of}
<1>3. pair = OfContainer(c) \cap DOMAIN dev
  <2>1. ASSUME NEW y \in pair PROVE y \in OfContainer(c)
    <3>1. PICK d \in Containers : dev[y].of = d /\ y \in OfContainer(d) BY VethWhere
    <3> QED BY <1>1, <3>1
  <2> QED BY <1>1, <1>2, <2>1 DEF ContainerShape, Has
<1>4. Has(EthOf(c)) BY <1>1, <1>2 DEF ContainerShape, OfContainer, Has
<1>5. PICK peer \in {Made(c), Port(c)} : Has(peer) BY <1>2, <1>4 DEF ContainerShape
<1>6. pair = {EthOf(c), peer} /\ EthOf(c) # peer
  BY <1>2, <1>3, <1>4, <1>5, OwnPlaces DEF ContainerShape, OfContainer, Has
<1>7. Cardinality({EthOf(c), peer}) = 2 BY <1>6, TwoElements
<1> QED BY <1>6, <1>7

\* TypeOK: the devices are those of containers, nets and the host, a master is a
\* bridge of the same namespace, a veth device has one peer, and a request is
\* somewhere in its program.
THEOREM LinkTypes == Spec => []TypeOK
<1> SUFFICES ASSUME IInv PROVE TypeOK BY Inductive, PTL
<1>1. BaseInv BY DEF IInv
<1>2. DOMAIN dev \subseteq Namespaces \X Names
  <2>1. ASSUME NEW c \in Containers
        PROVE  OfContainer(c) \subseteq Namespaces \X Names
    BY LinksAssumption DEF OfContainer, EthOf, Made, Port, Namespaces, Names
  <2>2. ASSUME NEW v \in VNIs PROVE OfNet(v) \subseteq Namespaces \X Names
    BY DEF OfNet, Fresh, VxlanAt, BridgeAt, DnsAt, Namespaces, Names
  <2> QED BY <1>1, <2>1, <2>2, PlacesAre DEF BaseInv, DevInv
<1>3. \A x \in DOMAIN dev : dev[x].kind \in Kinds /\ dev[x].up \in BOOLEAN
  BY <1>1 DEF BaseInv, DevInv, DeviceType
<1>4. who # Nil => pos \in 1..(Len(Program) + 1)
  <2> SUFFICES ASSUME who # Nil PROVE pos \in 1..(Len(Program) + 1) OBVIOUS
  <2>1. PICK c \in Containers : who = c BY <1>1 DEF BaseInv
  <2>2. doing = "ADD" => Len(Program) = 23 + Hops BY <2>1, ProgramIs
  <2>3. doing = "DEL" => Len(Program) = 4 BY <2>1, ProgramIs
  <2>4. doing \in {"ADD", "DEL"} BY <1>1 DEF BaseInv
  <2>5. /\ doing = "ADD" => pos \in 1..(24 + Hops)
        /\ doing = "DEL" => pos \in 1..5
    BY <1>1 DEF BaseInv
  <2>6. (23 + Hops) + 1 = 24 + Hops /\ 4 + 1 = 5 BY RoutesLen
  <2> QED BY ONLY <2>2, <2>3, <2>4, <2>5, <2>6
<1> QED BY <1>1, <1>2, <1>3, <1>4, MastersAreBridges, VethsAreTwo DEF TypeOK, BaseInv

\* AttachedIsWired: a container that is up stays wired, whatever fails.
THEOREM AttachedWired == Spec => []AttachedIsWired
<1> SUFFICES ASSUME IInv PROVE AttachedIsWired BY Inductive, PTL
<1> SUFFICES ASSUME NEW c \in Containers, state[c] = "up", who # c
             PROVE  LET v == VNIOf[c]
                        eth == <<ContainerNS(c), Eth>>
                    IN /\ IsUp(eth) /\ dev[eth].addrs = {c}
                       /\ \A i \in DOMAIN Routes : Routes[i] \in dev[eth].routes
                       /\ Enslaved(<<SandboxNS(v), NameSandboxLink(c)>>, Bridge(v))
                       /\ Enslaved(<<SandboxNS(v), Vxlan(v)>>, Bridge(v))
  BY DEF AttachedIsWired
<1>1. Wired(c) BY DEF IInv, LifeInv, LifeOf
<1> QED BY <1>1, RoutesLen DEF Wired, EthOf, Port, VxlanAt

\* BridgeServes: where no command failed, the gateway and the DNS server are
\* there for all containers that are up.
THEOREM Serves == Spec => []BridgeServes
<1> SUFFICES ASSUME IInv PROVE BridgeServes BY Inductive, PTL
<1> SUFFICES ASSUME NEW c \in Containers, state[c] = "up", who # c, VNIOf[c] \notin faulty
             PROVE  LET v == VNIOf[c]
                        bridge == <<SandboxNS(v), Bridge(v)>>
                        dns == <<SandboxNS(v), Dns>>
                    IN /\ IsUp(bridge) /\ dev[bridge].addrs = {Gateway}
                       /\ Enslaved(dns, Bridge(v)) /\ dev[dns].addrs = {DNS}
  BY DEF BridgeServes
<1>1. PICK v \in VNIs : v = VNIOf[c] BY LinksAssumption
<1>2. SandboxOf(v) /\ DnsOf(v) /\ BridgeOf(v) BY <1>1 DEF IInv, CleanInv, Clean, NetOf
<1>3. Used(v) BY <1>1 DEF Used
<1>4. /\ ~Within(v, 6, 6) /\ ~Within(v, 6, 7)
      /\ ~Within(v, 18 + Hops, 18 + Hops) /\ ~Within(v, 18 + Hops, 19 + Hops)
  <2>1. ~Within(v, 2, 8) /\ ~Within(v, 17 + Hops, 20 + Hops) BY <1>2, <1>3 DEF SandboxOf
  <2> QED BY <2>1, RoutesLen DEF Within
<1>5. IsUp(BridgeAt(v)) /\ dev[BridgeAt(v)].addrs = {Gateway}
  BY <1>2, <1>3, <1>4 DEF BridgeOf, IsUp, Has
<1>6. Enslaved(DnsAt(v), Bridge(v)) /\ dev[DnsAt(v)].addrs = {DNS}
  BY <1>2, <1>3, <1>4 DEF DnsOf, Enslaved, IsUp, Has
<1> QED BY <1>1, <1>5, <1>6 DEF BridgeAt, DnsAt

\* NothingLeftBehind: between requests a sandbox where nothing failed holds
\* what its containers need, and no device waits in the host.
THEOREM LeavesNothing == Spec => []NothingLeftBehind
<1> SUFFICES ASSUME IInv PROVE NothingLeftBehind BY Inductive, PTL
<1> SUFFICES ASSUME who = Nil, NEW v \in VNIs \ faulty
             PROVE  LET users == {c \in Containers : VNIOf[c] = v /\ state[c] = "up"}
                        held == {x[2] : x \in {y \in DOMAIN dev : y[1] = SandboxNS(v)}}
                    IN /\ held = {NameSandboxLink(c) : c \in users}
                                 \cup (IF users = {} THEN {} ELSE {Vxlan(v), Bridge(v), Dns})
                       /\ <<HostNS, Vxlan(v)>> \notin DOMAIN dev
                       /\ v \in sandboxes <=> users # {}
  BY DEF NothingLeftBehind
<1> DEFINE users == {c \in Containers : VNIOf[c] = v /\ state[c] = "up"}
           held == {x[2] : x \in {y \in DOMAIN dev : y[1] = SandboxNS(v)}}
<1>1. /\ PortsOf(v) /\ SandboxOf(v) /\ VxlanOf(v) /\ DnsOf(v) /\ BridgeOf(v) /\ DevInv
  BY DEF IInv, CleanInv, Clean, NetOf, BaseInv
<1>2. /\ ~Held(v) /\ \A i, j : ~Past(v, i) /\ ~Within(v, i, j)
  BY DEF Held, Past, Within, Busy
<1>3. Used(v) <=> users # {} BY LinksAssumption DEF Used
<1>4. \A c \in Containers : VNIOf[c] = v => (Has(Port(c)) <=> c \in users)
  BY <1>1, LinksAssumption DEF PortsOf
<1>5. /\ Has(VxlanAt(v)) <=> users # {}
      /\ Has(BridgeAt(v)) <=> users # {}
      /\ Has(DnsAt(v)) <=> users # {}
      /\ ~Has(Fresh(v))
      /\ v \in sandboxes <=> users # {}
  BY <1>1, <1>2, <1>3 DEF SandboxOf, VxlanOf, DnsOf, BridgeOf
<1> DEFINE names == {NameSandboxLink(c) : c \in users}
                      \cup (IF users = {} THEN {} ELSE {Vxlan(v), Bridge(v), Dns})
<1>6. ASSUME NEW n \in held PROVE n \in names
  <2>1. PICK x \in DOMAIN dev : x[1] = SandboxNS(v) /\ n = x[2] BY <1>6
  <2>2. \/ x \in {VxlanAt(v), BridgeAt(v), DnsAt(v)}
        \/ \E d \in Containers : VNIOf[d] = v /\ x = Port(d)
    BY <1>1, <2>1, InSandbox
  <2>3. CASE x \in {VxlanAt(v), BridgeAt(v), DnsAt(v)}
    <3>1. users # {} BY <1>5, <2>3 DEF Has
    <3>2. n \in {Vxlan(v), Bridge(v), Dns} BY <2>1, <2>3 DEF VxlanAt, BridgeAt, DnsAt
    <3> QED BY <3>1, <3>2
  <2>4. CASE \E d \in Containers : VNIOf[d] = v /\ x = Port(d)
    <3>1. PICK d \in Containers : VNIOf[d] = v /\ x = Port(d) BY <2>4
    <3>2. d \in users BY <1>4, <3>1 DEF Has
    <3>3. n = NameSandboxLink(d) BY <2>1, <3>1 DEF Port
    <3> QED BY <3>2, <3>3
  <2> QED BY <2>2, <2>3, <2>4
<1>7. ASSUME NEW n \in names PROVE n \in held
  <2>1. \A x \in DOMAIN dev : x[1] = SandboxNS(v) => x[2] \in held OBVIOUS
  <2>2. CASE n \in {NameSandboxLink(c) : c \in users}
    <3>1. PICK c \in users : n = NameSandboxLink(c) BY <2>2
    <3>2. Port(c) \in DOMAIN dev BY <1>4 DEF Has
    <3>3. Port(c)[1] = SandboxNS(v) /\ Port(c)[2] = n BY <3>1 DEF Port
    <3> HIDE DEF held
    <3> QED BY <2>1, <3>2, <3>3
  <2>3. CASE n \in {Vxlan(v), Bridge(v), Dns} /\ users # {}
    <3>1. /\ VxlanAt(v) \in DOMAIN dev /\ BridgeAt(v) \in DOMAIN dev /\ DnsAt(v) \in DOMAIN dev
      BY <1>5, <2>3 DEF Has
    <3>2. /\ VxlanAt(v)[1] = SandboxNS(v) /\ VxlanAt(v)[2] = Vxlan(v)
          /\ BridgeAt(v)[1] = SandboxNS(v) /\ BridgeAt(v)[2] = Bridge(v)
          /\ DnsAt(v)[1] = SandboxNS(v) /\ DnsAt(v)[2] = Dns
      BY DEF VxlanAt, BridgeAt, DnsAt
    <3> HIDE DEF held
    <3> QED BY <2>1, <2>3, <3>1, <3>2
  <2> QED BY <2>2, <2>3
<1>8. held = names BY <1>6, <1>7
<1>9. <<HostNS, Vxlan(v)>> \notin DOMAIN dev BY <1>5 DEF Has, Fresh
<1> QED BY <1>5, <1>8, <1>9

\* FailuresHaveACause: a request fails only where a command failed by itself.
THEOREM Caused == Spec => FailuresHaveACause
<1>1. IInv /\ [Next]_vars => [Cause]_vars BY Steps
<1>2. Cause => \A c \in Containers :
                 state'[c] \in {"addFailed", "delFailed"} /\ state'[c] # state[c]
                   => VNIOf[c] \in faulty'
  BY DEF Cause
<1> QED BY <1>1, <1>2, Inductive, PTL DEF Spec, FailuresHaveACause
================================================================================
