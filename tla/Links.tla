------------------------------- MODULE Links --------------------------------
(***************************************************************************)
(* The devices that an ADD makes and a DEL removes, command by command:    *)
(* container/command_builder.go, creator.go and deletor.go build a program *)
(* of executor commands, and each command is a call of the link factory    *)
(* (lib/links), the address or the route manager (lib/ip), and through     *)
(* lib/nl of the kernel. A command may fail; the program then ends and     *)
(* nothing is undone.                                                      *)
(*                                                                         *)
(* Requests come one at a time here; those that overlap are the subject of *)
(* Sandboxes.                                                              *)
(***************************************************************************)
EXTENDS Naturals, Sequences, FiniteSets

CONSTANTS
  Containers,
  VNIs,
  VNIOf,        \* VNIOf[c]: the VNI of c's network
  Routes,       \* ipConfig.Routes: different destinations (main configures none)
  Gateway, DNS, \* addresses; a container's own address is the container
  MaxFaults,    \* bound: commands that fail although they could succeed
  Nil

ASSUME LinksAssumption ==
  /\ VNIOf \in [Containers -> VNIs]
  /\ Routes \in Seq(Nat)
  /\ \A i, j \in DOMAIN Routes : Routes[i] = Routes[j] => i = j
  /\ Gateway # DNS /\ {Gateway, DNS} \cap Containers = {}
  /\ MaxFaults \in Nat /\ Nil \notin Containers

\* Namespaces, and the names of devices.
HostNS == <<"host", 0>>
ContainerNS(c) == <<"container", c>>
SandboxNS(v) == <<"sandbox", v>>

Eth == <<"eth0", 0>>
Dns == <<"dns0", 0>>
Vxlan(v) == <<"vxlan", v>>
Bridge(v) == <<"vxlanbr", v>>

\* The hash of a container's identifier.
NameSandboxLink(c) == <<"veth", c>>

VARIABLES
  dev,        \* dev[<<ns, name>>]: the devices of all namespaces
  sandboxes,  \* VNIs with a sandbox: in the repository, its namespace mounted
  monitored,  \* sandboxes with a monitor
  leaked,     \* VNIs of vxlan devices in namespaces that were unmounted while
              \*   the daemon has a file of them
  state,      \* state[c]: "out", "up", "addFailed" or "delFailed"
  who, doing, \* the request that is running: its container, and "ADD" or "DEL"
  pos,        \* the position in its program
  faulty,     \* sandboxes in which a command failed by itself (history)
  faults

vars == <<dev, sandboxes, monitored, leaked, state, who, doing, pos, faulty, faults>>

-----------------------------------------------------------------------------
(* The commands, in the order in which the programs execute them. `in' is    *)
(* the namespace that InNamespace enters, or the host.                       *)

Cmd(op, in, name, arg) == [op |-> op, in |-> in, name |-> name, arg |-> arg]

CreateVxlan(v) == Cmd("CreateVxlan", HostNS, Vxlan(v), v)
CreateDummy(in, name) == Cmd("CreateDummy", in, name, Nil)
CreateBridge(in, name) == Cmd("CreateBridge", in, name, Nil)
CreateVeth(in, name, peer) == Cmd("CreateVeth", in, name, peer)
MoveLink(in, name, v) == Cmd("MoveLink", in, name, v)
SetLinkUp(in, name) == Cmd("SetLinkUp", in, name, Nil)
SetLinkMaster(in, slave, master) == Cmd("SetLinkMaster", in, slave, master)
AddAddress(in, name, address) == Cmd("AddAddress", in, name, address)
AddRoute(in, name, route) == Cmd("AddRoute", in, name, route)
GetHardwareAddress(in, name) == Cmd("GetHardwareAddress", in, name, Nil)
DeleteLink(in, name) == Cmd("DeleteLink", in, name, Nil)
CreateSandbox(v) == Cmd("CreateSandbox", SandboxNS(v), Nil, v)
LaunchDNS(v) == Cmd("LaunchDNS", SandboxNS(v), Dns, v)
StartMonitor(v) == Cmd("StartMonitor", SandboxNS(v), Vxlan(v), v)
CountVeths(v) == Cmd("CountVeths", SandboxNS(v), Nil, v)
DeleteVxlan(v) == Cmd("DeleteVxlan", SandboxNS(v), Vxlan(v), v)
Destroy(v) == Cmd("Destroy", SandboxNS(v), Nil, v)

\* commands.Unless: the commands that follow, as many as there are, are left
\* out if the condition holds.
UnlessSandbox(v, cs) == <<Cmd("UnlessSandbox", SandboxNS(v), Nil, Len(cs))>> \o cs
UnlessLink(in, name, cs) == <<Cmd("UnlessLink", in, name, Len(cs))>> \o cs

StartDNSServer(v) ==
  LET in == SandboxNS(v) IN
  <<CreateDummy(in, Dns), AddAddress(in, Dns, DNS), SetLinkUp(in, Dns), LaunchDNS(v)>>

IdempotentlyCreateSandbox(v) ==
  UnlessSandbox(v, <<CreateSandbox(v), CreateVxlan(v), MoveLink(HostNS, Vxlan(v), v)>>
                   \o StartDNSServer(v))

\* The device is set up here, for the kernel sets a device down that it moves.
IdempotentlyCreateVxlan(v) == <<SetLinkUp(SandboxNS(v), Vxlan(v)), StartMonitor(v)>>

AddRoutes(c) == [i \in DOMAIN Routes |-> AddRoute(ContainerNS(c), Eth, Routes[i])]

SetupVeth(c) ==
  LET in == ContainerNS(c) IN
  <<CreateVeth(in, Eth, NameSandboxLink(c)),
    MoveLink(in, NameSandboxLink(c), VNIOf[c]),
    AddAddress(in, Eth, c),
    SetLinkUp(in, Eth)>> \o AddRoutes(c)

\* Mutant: the DNS device is not put on the bridge.
BridgeWithoutDNS(c) ==
  LET v == VNIOf[c]
      in == SandboxNS(v)
  IN <<SetLinkUp(in, NameSandboxLink(c))>>
     \o UnlessLink(in, Bridge(v),
          <<CreateBridge(in, Bridge(v)), AddAddress(in, Bridge(v), Gateway),
            SetLinkUp(in, Bridge(v))>>)
     \o <<SetLinkMaster(in, Vxlan(v), Bridge(v)),
          SetLinkMaster(in, NameSandboxLink(c), Bridge(v))>>

IdempotentlySetupBridge(c) ==
  LET v == VNIOf[c]
      in == SandboxNS(v)
  IN <<SetLinkUp(in, NameSandboxLink(c))>>
     \o UnlessLink(in, Bridge(v),
          <<CreateBridge(in, Bridge(v)), AddAddress(in, Bridge(v), Gateway),
            SetLinkUp(in, Bridge(v)), SetLinkMaster(in, Dns, Bridge(v))>>)
     \o <<SetLinkMaster(in, Vxlan(v), Bridge(v)),
          SetLinkMaster(in, NameSandboxLink(c), Bridge(v))>>

\* Creator.Setup and Deletor.Delete.
Setup(c) ==
  LET v == VNIOf[c]
  IN IdempotentlyCreateSandbox(v) \o IdempotentlyCreateVxlan(v) \o SetupVeth(c)
     \o IdempotentlySetupBridge(c) \o <<GetHardwareAddress(ContainerNS(c), Eth)>>

\* Mutant: the veth devices in the sandbox are not counted.
CleanupUncounted(v) == <<DeleteVxlan(v), Destroy(v)>>

\* Mutant: the namespace is destroyed with the vxlan device in it.
CleanupKeepsVxlan(v) == <<CountVeths(v), Destroy(v)>>

CleanupSandbox(v) == <<CountVeths(v), DeleteVxlan(v), Destroy(v)>>

Delete(c) == <<DeleteLink(ContainerNS(c), Eth)>> \o CleanupSandbox(VNIOf[c])

Programs == [ADD |-> [c \in Containers |-> Setup(c)],
             DEL |-> [c \in Containers |-> Delete(c)]]
Program == Programs[doing][who]

-----------------------------------------------------------------------------
Kinds == {"vxlan", "dummy", "bridge", "veth"}
Namespaces == {HostNS} \cup {ContainerNS(c) : c \in Containers}
                       \cup {SandboxNS(v) : v \in VNIs}
Names == {Eth, Dns} \cup {Vxlan(v) : v \in VNIs} \cup {Bridge(v) : v \in VNIs}
                    \cup {NameSandboxLink(c) : c \in Containers}

\* of: the VNI of a vxlan device, the container that a veth pair was made for.
Device(kind, of) ==
  [kind |-> kind, of |-> of, up |-> FALSE, master |-> Nil, addrs |-> {}, routes |-> {}]

Veths(v) == {x \in DOMAIN dev : x[1] = SandboxNS(v) /\ dev[x].kind = "veth"}

TypeOK ==
  /\ DOMAIN dev \subseteq Namespaces \X Names
  /\ \A x \in DOMAIN dev :
       /\ dev[x].kind \in Kinds /\ dev[x].up \in BOOLEAN
       /\ dev[x].master # Nil =>     \* a master is a bridge of the namespace
            /\ <<x[1], dev[x].master>> \in DOMAIN dev
            /\ dev[<<x[1], dev[x].master>>].kind = "bridge"
       /\ dev[x].kind = "veth" =>    \* a veth device has one peer
            Cardinality({y \in DOMAIN dev : dev[y].kind = "veth" /\ dev[y].of = dev[x].of}) = 2
  /\ sandboxes \subseteq VNIs /\ monitored \subseteq sandboxes /\ leaked \subseteq VNIs
  /\ state \in [Containers -> {"out", "up", "addFailed", "delFailed"}]
  /\ who \in Containers \cup {Nil} /\ doing \in {"ADD", "DEL"}
  /\ IF who = Nil THEN pos = 0 ELSE pos \in 1..(Len(Program) + 1)
  /\ faulty \subseteq VNIs /\ faults \in 0..MaxFaults

Init ==
  /\ dev = <<>> /\ sandboxes = {} /\ monitored = {} /\ leaked = {}
  /\ state = [c \in Containers |-> "out"]
  /\ who = Nil /\ doing = "ADD" /\ pos = 0
  /\ faulty = {} /\ faults = 0

-----------------------------------------------------------------------------
(* Requests. *)

\* AllocateIP lets a container through that has no lease, Datastore.Get one
\* that has a record.
Begin(c, what) ==
  /\ who = Nil
  /\ IF what = "ADD" THEN state[c] = "out" ELSE state[c] \in {"up", "delFailed"}
  /\ who' = c /\ doing' = what /\ pos' = 1
  /\ UNCHANGED <<dev, sandboxes, monitored, leaked, state, faulty, faults>>

End(result) ==
  /\ state' = [state EXCEPT ![who] = result]
  /\ who' = Nil /\ pos' = 0 /\ doing' = "ADD"

Finish ==
  /\ who # Nil /\ pos > Len(Program)
  /\ End(IF doing = "ADD" THEN "up" ELSE "out")
  /\ UNCHANGED <<dev, sandboxes, monitored, leaked, faulty, faults>>

Running(op) == who # Nil /\ pos <= Len(Program) /\ Program[pos].op = op
Now == Program[pos]
Here == <<Now.in, Now.name>>

Skip(n) == pos' = pos + n /\ UNCHANGED <<state, who, doing>>
Abort == End(IF doing = "ADD" THEN "addFailed" ELSE "delFailed")

\* A command on devices only: Group goes on, or ends with the first error.
Devices(ok, after) ==
  /\ IF ok THEN Skip(1) ELSE Abort
  /\ dev' = IF ok THEN after ELSE dev
  /\ UNCHANGED <<sandboxes, monitored, leaked, faulty, faults>>

\* What is there when new devices are, at the places xs.
And(xs, device) ==
  [x \in DOMAIN dev \cup xs |-> IF x \in xs THEN device ELSE dev[x]]

\* A device that the factory finds by its name, changed.
Found == Here \in DOMAIN dev
With(field, value) == [dev EXCEPT ![Here] = [@ EXCEPT ![field] = value]]

-----------------------------------------------------------------------------
(* The link factory, and what the kernel does for it. *)

\* The kernel has one vxlan device for a VNI, in whatever namespace.
LinkAddVxlan ==
  /\ Running("CreateVxlan")
  /\ Devices(/\ ~Found /\ Now.arg \notin leaked
             /\ \A x \in DOMAIN dev : ~(dev[x].kind = "vxlan" /\ dev[x].of = Now.arg),
             And({Here}, Device("vxlan", Now.arg)))

LinkAddDummy ==
  /\ Running("CreateDummy")
  /\ Devices(~Found, And({Here}, Device("dummy", Nil)))

LinkAddBridge ==
  /\ Running("CreateBridge")
  /\ Devices(~Found, And({Here}, Device("bridge", Nil)))

\* Mutant: only the one end is made.
LinkAddOneEnd ==
  /\ Running("CreateVeth")
  /\ Devices(~Found, And({Here}, Device("veth", who)))

LinkAddVeth ==
  LET peer == <<Now.in, Now.arg>> IN
  /\ Running("CreateVeth")
  /\ Devices(~Found /\ peer \notin DOMAIN dev,
             And({Here, peer}, Device("veth", who)))

LinkSetUp ==
  /\ Running("SetLinkUp")
  /\ Devices(Found, With("up", TRUE))

\* A device that moves is set down and loses its master and its addresses.
LinkSetNsFd ==
  LET there == <<SandboxNS(Now.arg), Now.name>> IN
  /\ Running("MoveLink")
  /\ Devices(/\ Found /\ Now.arg \in sandboxes /\ there \notin DOMAIN dev,
             [x \in (DOMAIN dev \ {Here}) \cup {there} |->
                IF x = there THEN Device(dev[Here].kind, dev[Here].of) ELSE dev[x]])

LinkSetMaster ==
  LET master == <<Now.in, Now.arg>> IN
  /\ Running("SetLinkMaster")
  /\ Devices(/\ master \in DOMAIN dev /\ dev[master].kind = "bridge" /\ Found,
             With("master", Now.arg))

AddrAdd ==
  /\ Running("AddAddress")
  /\ Devices(Found /\ Now.arg \notin dev[Here].addrs,
             With("addrs", dev[Here].addrs \cup {Now.arg}))

\* The gateway of a route is reached through the device: it is up and has an
\* address.
RouteAdd ==
  /\ Running("AddRoute")
  /\ Devices(/\ Found /\ dev[Here].up /\ dev[Here].addrs # {}
             /\ Now.arg \notin dev[Here].routes,
             With("routes", dev[Here].routes \cup {Now.arg}))

HardwareAddress ==
  /\ Running("GetHardwareAddress")
  /\ Devices(Found, dev)

\* What is left without the devices xs and the peers of veth devices among
\* them; who had one of them for a master has none.
Without(xs) ==
  LET gone == xs \cup {y \in DOMAIN dev : \E x \in xs :
                         /\ dev[x].kind = "veth" /\ dev[y].kind = "veth"
                         /\ dev[y].of = dev[x].of}
  IN [x \in DOMAIN dev \ gone |->
        IF <<x[1], dev[x].master>> \in gone THEN [dev[x] EXCEPT !.master = Nil]
        ELSE dev[x]]

DeleteLinkByName ==
  /\ Running("DeleteLink")
  /\ Devices(Found, Without({Here}))

\* A missing vxlan device is no error.
DeleteVxlanByName ==
  /\ Running("DeleteVxlan")
  /\ Devices(TRUE, Without({Here} \cap DOMAIN dev))

-----------------------------------------------------------------------------
(* Conditions, and the commands on sandboxes. *)

\* Mutant: the condition never holds, and the sandbox is made once more.
SandboxExistsNever ==
  /\ Running("UnlessSandbox")
  /\ Skip(1)
  /\ UNCHANGED <<dev, sandboxes, monitored, leaked, faulty, faults>>

SandboxExists ==
  /\ Running("UnlessSandbox")
  /\ Skip(IF VNIOf[who] \in sandboxes THEN 1 + Now.arg ELSE 1)
  /\ UNCHANGED <<dev, sandboxes, monitored, leaked, faulty, faults>>

LinkExists ==
  /\ Running("UnlessLink")
  /\ Skip(IF Found THEN 1 + Now.arg ELSE 1)
  /\ UNCHANGED <<dev, sandboxes, monitored, leaked, faulty, faults>>

RepositoryCreate ==
  /\ Running("CreateSandbox")
  /\ Skip(1)
  /\ sandboxes' = sandboxes \cup {Now.arg}
  /\ UNCHANGED <<dev, monitored, leaked, faulty, faults>>

SandboxLaunchDNS ==
  /\ Running("LaunchDNS")
  /\ Devices(TRUE, dev)

WatcherStartMonitor ==
  /\ Running("StartMonitor")
  /\ Skip(1)
  /\ monitored' = monitored \cup {Now.arg}
  /\ UNCHANGED <<dev, sandboxes, leaked, faulty, faults>>

\* CleanupSandbox has nothing to do without a sandbox, or with veth devices
\* in it.
VethDeviceCount ==
  /\ Running("CountVeths")
  /\ Skip(IF Now.arg \in sandboxes /\ Veths(Now.arg) = {} THEN 1
          ELSE Len(Program) + 1 - pos)
  /\ UNCHANGED <<dev, sandboxes, monitored, leaked, faulty, faults>>

\* Repository.Destroy. The namespace is unmounted; the daemon has files of it,
\* and it lives on, out of reach, with a vxlan device if there is one.
RepositoryDestroy ==
  LET v == Now.arg
      inside == {x \in DOMAIN dev : x[1] = SandboxNS(v)}
      ok == v \in monitored
  IN /\ Running("Destroy")
     /\ IF ok THEN Skip(1) ELSE Abort
     /\ dev' = IF ok THEN Without(inside) ELSE dev
     /\ leaked' = leaked \cup {w \in {v} : ok /\ <<SandboxNS(v), Vxlan(v)>> \in inside}
     /\ sandboxes' = sandboxes \ {w \in {v} : ok}
     /\ monitored' = monitored \ {w \in {v} : ok}
     /\ faulty' = faulty \ {w \in {v} : ok /\ v \notin leaked'}
     /\ UNCHANGED faults

\* The garbage collector closes the files of an unmounted namespace.
CloseNamespace(v) ==
  /\ v \in leaked
  /\ leaked' = leaked \ {v}
  /\ UNCHANGED <<dev, sandboxes, monitored, state, who, doing, pos, faulty, faults>>

\* The runtime discards a container whose ADD failed, without a DEL, for there
\* is no record. Its namespace goes, and a new container takes its place.
ContainerGone(c) ==
  /\ who # c /\ state[c] = "addFailed"
  /\ state' = [state EXCEPT ![c] = "out"]
  /\ dev' = Without({x \in DOMAIN dev : x[1] = ContainerNS(c)})
  /\ UNCHANGED <<sandboxes, monitored, leaked, who, doing, pos, faulty, faults>>

CanFail == who # Nil /\ pos <= Len(Program) /\ faults < MaxFaults
Failed == faulty' = faulty \cup {VNIOf[who]} /\ faults' = faults + 1

\* The kernel, the file system or the DNS server refuses. Destroy may have
\* stopped the monitor already.
Fault ==
  /\ CanFail
  /\ Now.op \notin {"UnlessSandbox", "UnlessLink"}
  /\ Now.op \in {"CountVeths", "DeleteVxlan"} => Now.arg \in sandboxes
  /\ Abort
  /\ \/ monitored' = monitored
     \/ Now.op = "Destroy" /\ monitored' = monitored \ {Now.arg}
  /\ Failed
  /\ UNCHANGED <<dev, sandboxes, leaked>>

\* Factory.Exists takes every error for a link that is not there: a lookup that
\* fails makes LinkExists say no, and CleanupSandbox believe that the vxlan
\* device is gone.
LookupFails ==
  /\ CanFail
  /\ Now.op \in {"UnlessLink", "DeleteVxlan"}
  /\ Skip(1)
  /\ Failed
  /\ UNCHANGED <<dev, sandboxes, monitored, leaked>>

-----------------------------------------------------------------------------
Next ==
  \/ \E c \in Containers, what \in {"ADD", "DEL"} : Begin(c, what)
  \/ LinkAddVxlan \/ LinkAddDummy \/ LinkAddBridge \/ LinkAddVeth
  \/ LinkSetUp \/ LinkSetNsFd \/ LinkSetMaster \/ AddrAdd \/ RouteAdd
  \/ HardwareAddress \/ DeleteLinkByName \/ DeleteVxlanByName
  \/ SandboxExists \/ LinkExists \/ RepositoryCreate \/ SandboxLaunchDNS
  \/ WatcherStartMonitor \/ VethDeviceCount \/ RepositoryDestroy
  \/ Finish \/ Fault \/ LookupFails
  \/ \E v \in VNIs : CloseNamespace(v)
  \/ \E c \in Containers : ContainerGone(c)

Spec == Init /\ [][Next]_vars

-----------------------------------------------------------------------------
(* Properties. *)

IsUp(x) == x \in DOMAIN dev /\ dev[x].up
Enslaved(x, bridge) == IsUp(x) /\ dev[x].master = bridge

\* While no DEL of it is running, a container that is up is wired: its device
\* is up, with its address and its routes, and its peer and the vxlan device
\* are up and on the bridge of its sandbox, whatever commands of other
\* requests failed meanwhile or before.
AttachedIsWired ==
  \A c \in Containers :
    state[c] = "up" /\ who # c =>
      LET v == VNIOf[c]
          eth == <<ContainerNS(c), Eth>>
      IN /\ IsUp(eth) /\ dev[eth].addrs = {c}
         /\ \A i \in DOMAIN Routes : Routes[i] \in dev[eth].routes
         /\ Enslaved(<<SandboxNS(v), NameSandboxLink(c)>>, Bridge(v))
         /\ Enslaved(<<SandboxNS(v), Vxlan(v)>>, Bridge(v))

\* As long as no command failed in the sandbox, the containers that are up in it reach the
\* gateway and the DNS server: the bridge is up and has the gateway's address,
\* and the DNS device is up, on the bridge and has its own. (A bridge that is
\* half made is never completed: LinkExists finds it.)
BridgeServes ==
  \A c \in Containers :
    state[c] = "up" /\ who # c /\ VNIOf[c] \notin faulty =>
      LET v == VNIOf[c]
          bridge == <<SandboxNS(v), Bridge(v)>>
          dns == <<SandboxNS(v), Dns>>
      IN /\ IsUp(bridge) /\ dev[bridge].addrs = {Gateway}
         /\ Enslaved(dns, Bridge(v)) /\ dev[dns].addrs = {DNS}

\* Between requests, sandboxes where nothing failed hold the devices of their
\* containers and no others, and the host holds none of them: each ADD moves
\* all that it makes, and each DEL removes all that the ADD made.
NothingLeftBehind ==
  who = Nil =>
    \A v \in VNIs \ faulty :
      LET users == {c \in Containers : VNIOf[c] = v /\ state[c] = "up"}
          held == {x[2] : x \in {y \in DOMAIN dev : y[1] = SandboxNS(v)}}
      IN /\ held = {NameSandboxLink(c) : c \in users}
                   \cup (IF users = {} THEN {} ELSE {Vxlan(v), Bridge(v), Dns})
         /\ <<HostNS, Vxlan(v)>> \notin DOMAIN dev
         /\ v \in sandboxes <=> users # {}

\* A request fails only if a command failed by itself, in this request or
\* earlier in the same sandbox: the daemon never trips over devices of its own.
FailuresHaveACause ==
  [][\A c \in Containers :
       state'[c] \in {"addFailed", "delFailed"} /\ state'[c] # state[c]
         => VNIOf[c] \in faulty']_vars
=============================================================================
