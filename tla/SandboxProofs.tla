--------------------------- MODULE SandboxProofs ----------------------------
(***************************************************************************)
(* What Sandboxes promises for any number of containers and objects, if    *)
(* there is at most one DEL in flight.                                     *)
(*                                                                         *)
(* The argument: a link in a sandbox is in the one that has the name,      *)
(* because MoveLink looks the name up only while the request holds the     *)
(* mutex of that very object (LinkInv); the one DEL counts links under the *)
(* same mutex, so that nobody moves a link in behind its back, and nobody  *)
(* else binds the name anew (CleanInv); and no DEL can be so far while the *)
(* sandbox has no vxlan device yet (MakerInv).                             *)
(***************************************************************************)
EXTENDS Sandboxes, FiniteSetTheorems, TLAPS

\* A request holds the mutex of obj, or of dst.
HoldsObj == {"linkUp", "monitor", "createVeth", "vethGet", "moveVeth", "bridge",
             "enslave", "record", "count", "deleteVxlan", "destroy", "nsDestroy"}
HoldsDst == {"dnsDummy", "dnsLaunch"}

LockOf(c) ==
  /\ pc[c] \in HoldsObj => locks[obj[c]] = c
  /\ pc[c] \in HoldsDst => locks[dst[c]] = c

LockInv == \A c \in Containers : LockOf(c)

\* One DEL at a time.
OneDel == \A c, d \in Containers : pc[c] \in Deleting /\ pc[d] \in Deleting => c = d

\* Objects are numbered in the order in which they get the name.
NameInv ==
  /\ registered <= created /\ destroyed \subseteq 1..created
  /\ registered # None => nsFile = registered

\* The vxlan device is in the sandbox that has the name, and only while that
\* is not torn down.
VxlanInv == vxlan \in Objects => vxlan = registered /\ vxlan \notin destroyed

\* From the map's entry to the vxlan device a sandbox has one maker and no
\* links, and no DEL is about to clean it up.
Making == {"setup", "createVxlan", "vxlanGet", "moveVxlan"}
Counting == {"cleanupLock", "count"}
Emptied == {"deleteVxlan", "destroy", "nsDestroy"}
Cleaning == Counting \cup Emptied

MakerOf(c) ==
  pc[c] \in Making =>
    /\ registered \in Objects \ destroyed /\ vxlan \notin Objects
    /\ pc[c] = "moveVxlan" => dst[c] = registered
    /\ \A d \in Containers :
         /\ pc[d] \in Making => d = c
         /\ veth[d] \notin Objects
         /\ pc[d] \notin Cleaning \cup {"cleanupGet"}

MakerInv == \A c \in Containers : MakerOf(c)

\* Where the link of a container is, by what its request does next, and what
\* the sandbox has by then.
Unlinked == {"absent", "exists", "create", "dnsGet", "dnsLock", "dnsDummy",
             "dnsLaunch", "get", "lock", "linkUp", "monitor", "createVeth",
             "cleanupGet"} \cup Making \cup Cleaning
Placed == {"createVeth", "vethGet", "moveVeth", "bridge", "enslave", "record"}

LinkOf(c) ==
  /\ veth[c] \in Objects =>
       veth[c] = registered /\ registered \notin destroyed /\ monitored
  /\ pc[c] \in Unlinked => veth[c] = None
  /\ pc[c] \in {"vethGet", "moveVeth"} => veth[c] = Outside
  /\ pc[c] \in {"bridge", "enslave", "record"} => veth[c] = obj[c]
  /\ pc[c] \in {"delFailed", "alreadyDestroyed", "deleteLink"} => veth[c] # Outside
  /\ pc[c] = "monitor" => vxlan = obj[c]
  /\ pc[c] \in Placed => obj[c] = registered /\ vxlan = registered /\ monitored
  /\ pc[c] = "moveVeth" => dst[c] = obj[c]
  /\ pc[c] \in {"record", "attached"} => {"vxlan", c} \subseteq ports[registered]
  /\ pc[c] = "attached" => veth[c] = registered /\ vxlan = registered
                           /\ registered \in Objects

LinkInv == \A c \in Containers : LinkOf(c)

\* What the DEL that cleans up may rely on: the object that it got keeps the
\* name, and once its links were counted none comes.
CleanOf(d) ==
  /\ pc[d] \in Cleaning \cup {"cleanupGet"} => registered \in Objects
  /\ pc[d] \in {"cleanupGet", "deleteVxlan", "destroy"} \cup Counting =>
       registered \notin destroyed /\ monitored
  /\ pc[d] \in Cleaning => obj[d] = registered
  /\ pc[d] \in Emptied => \A x \in Containers : veth[x] \notin Objects
  /\ pc[d] \in {"destroy", "nsDestroy"} => vxlan \notin Objects

CleanInv == \A d \in Containers : CleanOf(d)

SafeInv == LockInv /\ NameInv /\ VxlanInv /\ MakerInv /\ LinkInv /\ CleanInv

\* An ADD that may yet create an object finds a number for it: the bound that
\* Add checks is enough.
Creating == {"exists", "create"}
BoundInv == created + Cardinality(InFlight(Creating)) <= MaxSandboxes

IInv == TypeOK /\ BoundInv /\ OneDel /\ SafeInv

-----------------------------------------------------------------------------
(* The types, and the number of requests. All of this holds for any number  *)
(* of DELs.                                                                 *)

\* Every set of containers is finite.
LEMMA Counted ==
  ASSUME NEW S \in SUBSET Containers
  PROVE  IsFiniteSet(S) /\ Cardinality(S) \in Nat
BY SandboxAssumption, FS_Subset, FS_CardinalityType DEF SandboxAssumption

\* A step of a request moves only that request on; it begins none, and none
\* that has found its sandbox thinks of creating one again.
Onward(c) ==
  /\ pc' = [pc EXCEPT ![c] = pc'[c]]
  /\ pc'[c] \in Resting \cup Adding \cup Deleting
  /\ pc'[c] \in Deleting => pc[c] \in Deleting
  /\ pc'[c] \in Creating => pc[c] \in Creating

\* Every command of Setup and Delete is such a step, and so is a fault.
LEMMA StepOnward ==
  ASSUME TypeOK, NEW c \in Containers, Step(c)
  PROVE  Onward(c)
<1> USE DEF Onward, TypeOK, Resting, Adding, Deleting, Creating, Command, FailedFrom
<1>1. CASE SandboxExists(c) BY <1>1 DEF SandboxExists
<1>2. CASE CreateSandbox(c) BY <1>2 DEF CreateSandbox
<1>3. CASE SetupSandbox(c) BY <1>3 DEF SetupSandbox
<1>4. CASE CreateVxlan(c) BY <1>4 DEF CreateVxlan
<1>5. CASE GetInto(c, "vxlanGet", "moveVxlan") BY <1>5 DEF GetInto
<1>6. CASE MoveVxlan(c) BY <1>6 DEF MoveVxlan
<1>7. CASE GetInto(c, "dnsGet", "dnsLock") BY <1>7 DEF GetInto
<1>8. CASE LockSandbox(c, dst[c], "dnsLock", "dnsDummy") BY <1>8 DEF LockSandbox
<1>9. CASE CreateDummy(c) BY <1>9 DEF CreateDummy
<1>10. CASE LaunchDNS(c) BY <1>10 DEF LaunchDNS
<1>11. CASE GetSandbox(c) BY <1>11 DEF GetSandbox
<1>12. CASE LockSandbox(c, obj[c], "lock", "linkUp") BY <1>12 DEF LockSandbox
<1>13. CASE VxlanUp(c) BY <1>13 DEF VxlanUp
<1>14. CASE StartMonitor(c) BY <1>14 DEF StartMonitor
<1>15. CASE CreateVeth(c) BY <1>15 DEF CreateVeth
<1>16. CASE GetInto(c, "vethGet", "moveVeth") BY <1>16 DEF GetInto
<1>17. CASE MoveVeth(c) BY <1>17 DEF MoveVeth
<1>18. CASE SetupBridge(c) BY <1>18 DEF SetupBridge
<1>19. CASE Enslave(c) BY <1>19 DEF Enslave
<1>20. CASE Record(c) BY <1>20 DEF Record
<1>21. CASE DeleteLink(c) BY <1>21 DEF DeleteLink
<1>22. CASE CleanupGet(c) BY <1>22 DEF CleanupGet
<1>23. CASE LockSandbox(c, obj[c], "cleanupLock", "count") BY <1>23 DEF LockSandbox
<1>24. CASE VethDeviceCount(c) BY <1>24 DEF VethDeviceCount
<1>25. CASE DeleteVxlan(c) BY <1>25 DEF DeleteVxlan
<1>26. CASE DestroyNotFound(c) BY <1>26 DEF DestroyNotFound
<1>27. CASE TeardownFails(c) BY <1>27 DEF TeardownFails
<1>28. CASE Teardown(c) BY <1>28 DEF Teardown
<1>29. CASE DestroyNamespace(c) BY <1>29 DEF DestroyNamespace
<1>30. CASE Fault(c) BY <1>30, SandboxAssumption DEF Fault, Fallible
<1>31. CASE CreateNamespaceFails(c) BY <1>31 DEF CreateNamespaceFails
<1> QED
   BY <1>1, <1>2, <1>3, <1>4, <1>5, <1>6, <1>7, <1>8, <1>9, <1>10, <1>11, <1>12,
      <1>13, <1>14, <1>15, <1>16, <1>17, <1>18, <1>19, <1>20, <1>21, <1>22,
      <1>23, <1>24, <1>25, <1>26, <1>27, <1>28, <1>29, <1>30, <1>31
   DEF Step, AddStep, DelStep

\* Whoever creates an object was counted among those who might.
LEMMA BoundStep ==
  ASSUME TypeOK, BoundInv, Next
  PROVE  BoundInv' /\ created' \in 0..MaxSandboxes
<1> USE SandboxAssumption DEF SandboxAssumption
<1> DEFINE n == Cardinality(InFlight(Creating))
<1>0. InFlight(Creating) \subseteq Containers /\ n \in Nat
  BY Counted DEF InFlight
<1>1. ASSUME NEW c \in Containers, Onward(c), created' = created
      PROVE  BoundInv' /\ created' \in 0..MaxSandboxes
  <2>1. InFlight(Creating)' \subseteq InFlight(Creating)
    BY <1>1 DEF Onward, InFlight, TypeOK
  <2>2. n' \in Nat /\ n' <= n BY <1>0, <2>1, Counted, FS_Subset
  <2> QED BY <1>0, <1>1, <2>2 DEF BoundInv, TypeOK
<1>2. ASSUME NEW c \in Containers, CreateSandbox(c) \/ CreateNamespaceFails(c), Onward(c)
      PROVE  BoundInv' /\ created' \in 0..MaxSandboxes
  <2>1. /\ pc[c] = "create" /\ pc'[c] \notin Creating
        /\ created' \in {created, created + 1}
    BY <1>2 DEF CreateSandbox, CreateNamespaceFails, Command, FailedFrom, Creating,
                Adding, TypeOK
  <2>2. c \in InFlight(Creating) /\ InFlight(Creating)' = InFlight(Creating) \ {c}
    BY <1>2, <2>1 DEF Onward, InFlight, Creating, TypeOK
  <2>3. n' \in Nat /\ n' = n - 1 BY <1>0, <2>2, Counted, FS_RemoveElement
  <2> QED BY <1>0, <2>1, <2>3 DEF BoundInv, TypeOK
<1>3. ASSUME NEW c \in Containers, Add(c)
      PROVE  BoundInv' /\ created' \in 0..MaxSandboxes
  <2>1. /\ InFlight(Creating)' = InFlight(Creating) \cup {c} /\ c \notin InFlight(Creating)
        /\ InFlight(Creating) \subseteq InFlight(Adding) /\ InFlight(Adding) \subseteq Containers
    BY <1>3 DEF Add, InFlight, Creating, Adding, TypeOK
  <2>2. /\ n' = n + 1 /\ n <= Cardinality(InFlight(Adding))
        /\ Cardinality(InFlight(Adding)) \in Nat
    BY <1>0, <2>1, Counted, FS_AddElement, FS_Subset
  <2> QED BY <1>0, <1>3, <2>2 DEF BoundInv, TypeOK, Add, repoVars
<1>4. ASSUME NEW c \in Containers, Del(c)
      PROVE  BoundInv' /\ created' \in 0..MaxSandboxes
  <2>1. InFlight(Creating)' = InFlight(Creating)
    BY <1>4 DEF Del, InFlight, Creating, TypeOK
  <2> QED BY <1>4, <2>1 DEF BoundInv, TypeOK, Del, repoVars
<1>5. ASSUME NEW c \in Containers, Step(c)
      PROVE  BoundInv' /\ created' \in 0..MaxSandboxes
  <2>1. Onward(c) BY <1>5, StepOnward
  <2>2. CASE CreateSandbox(c) \/ CreateNamespaceFails(c) BY <1>2, <2>1, <2>2
  <2>3. CASE ~(CreateSandbox(c) \/ CreateNamespaceFails(c))
    <3>1. created' = created
      BY <1>5, <2>3
      DEF Step, AddStep, DelStep, Fault, repoVars, SandboxExists, SetupSandbox,
          CreateVxlan, GetInto, MoveVxlan, LockSandbox, CreateDummy, LaunchDNS,
          GetSandbox, VxlanUp, StartMonitor, CreateVeth, MoveVeth, SetupBridge,
          Enslave, Record, DeleteLink, CleanupGet, VethDeviceCount, DeleteVxlan,
          DestroyNotFound, TeardownFails, Teardown, DestroyNamespace
    <3> QED BY <1>1, <2>1, <3>1
  <2> QED BY <2>2, <2>3
<1> QED BY <1>3, <1>4, <1>5 DEF Next, Arrival


\* No command goes on with a sandbox that it did not get.
LEMMA TypeStep ==
  ASSUME TypeOK, BoundInv, Next
  PROVE  TypeOK'
<1> USE SandboxAssumption
        DEF Command, FailedFrom, Unlocked, repoVars, kernelVars, Objects, None, Outside
<1> SUFFICES ASSUME NEW c \in Containers, faulted' \in BOOLEAN,
                    Step(c) \/ Add(c) \/ Del(c)
             PROVE  TypeOK'
  BY DEF Next, Arrival, Step, TypeOK
<1>0. /\ pc' = [pc EXCEPT ![c] = pc'[c]] /\ created' \in 0..MaxSandboxes
      /\ pc'[c] \in Resting \cup Adding \cup Deleting
  <2>1. CASE Step(c) BY <2>1, StepOnward, BoundStep DEF Onward
  <2>2. CASE Add(c) \/ Del(c) BY <2>2, BoundStep DEF Add, Del, TypeOK, Adding, Deleting
  <2> QED BY <2>1, <2>2
<1>1. CASE SandboxExists(c) BY <1>0, <1>1 DEF SandboxExists, TypeOK, UsesObj, UsesDst
<1>2. CASE CreateSandbox(c) BY <1>0, <1>2 DEF CreateSandbox, TypeOK, UsesObj, UsesDst
<1>3. CASE SetupSandbox(c) BY <1>0, <1>3 DEF SetupSandbox, TypeOK, UsesObj, UsesDst
<1>4. CASE CreateVxlan(c) BY <1>0, <1>4 DEF CreateVxlan, TypeOK, UsesObj, UsesDst
<1>5. CASE GetInto(c, "vxlanGet", "moveVxlan")
  BY <1>0, <1>5 DEF GetInto, TypeOK, UsesObj, UsesDst
<1>6. CASE MoveVxlan(c) BY <1>0, <1>6 DEF MoveVxlan, TypeOK, UsesObj, UsesDst
<1>7. CASE GetInto(c, "dnsGet", "dnsLock")
  BY <1>0, <1>7 DEF GetInto, TypeOK, UsesObj, UsesDst
<1>8. CASE LockSandbox(c, dst[c], "dnsLock", "dnsDummy")
  BY <1>0, <1>8 DEF LockSandbox, TypeOK, UsesObj, UsesDst
<1>9. CASE CreateDummy(c)
  <2>1. dns0' \subseteq Objects
    BY <1>9 DEF CreateDummy, TypeOK, UsesDst
  <2> QED BY <1>0, <1>9, <2>1 DEF CreateDummy, TypeOK, UsesObj, UsesDst
<1>10. CASE LaunchDNS(c)
  <2>1. dns' \in [Objects -> {"none", "running", "killed"}]
    BY <1>10 DEF LaunchDNS, TypeOK, UsesDst
  <2> QED BY <1>0, <1>10, <2>1 DEF LaunchDNS, TypeOK, UsesObj, UsesDst
<1>11. CASE GetSandbox(c) BY <1>0, <1>11 DEF GetSandbox, TypeOK, UsesObj, UsesDst
<1>12. CASE LockSandbox(c, obj[c], "lock", "linkUp")
  BY <1>0, <1>12 DEF LockSandbox, TypeOK, UsesObj, UsesDst
<1>13. CASE VxlanUp(c) BY <1>0, <1>13 DEF VxlanUp, TypeOK, UsesObj, UsesDst
<1>14. CASE StartMonitor(c) BY <1>0, <1>14 DEF StartMonitor, TypeOK, UsesObj, UsesDst
<1>15. CASE CreateVeth(c) BY <1>0, <1>15 DEF CreateVeth, TypeOK, UsesObj, UsesDst
<1>16. CASE GetInto(c, "vethGet", "moveVeth")
  BY <1>0, <1>16 DEF GetInto, TypeOK, UsesObj, UsesDst
<1>17. CASE MoveVeth(c) BY <1>0, <1>17 DEF MoveVeth, TypeOK, UsesObj, UsesDst
<1>18. CASE SetupBridge(c)
  <2>1. bridges' \subseteq Objects
    BY <1>18 DEF SetupBridge, TypeOK, UsesObj
  <2>2. ports' \in [Objects -> SUBSET (Containers \cup {"dns0", "vxlan"})]
    BY <1>18 DEF SetupBridge, TypeOK, UsesObj
  <2> QED BY <1>0, <1>18, <2>1, <2>2 DEF SetupBridge, TypeOK, UsesObj, UsesDst
<1>19. CASE Enslave(c)
  <2>1. obj[c] \in Objects BY <1>19 DEF Enslave, TypeOK, UsesObj
  <2>2. ports'[obj[c]] \subseteq Containers \cup {"dns0", "vxlan"}
    <3>1. ports[obj[c]] \cup {"vxlan", c} \subseteq Containers \cup {"dns0", "vxlan"}
      BY <2>1 DEF TypeOK
    <3> QED BY <1>19, <2>1, <3>1 DEF Enslave, TypeOK
  <2>3. ports' \in [Objects -> SUBSET (Containers \cup {"dns0", "vxlan"})]
    BY <1>19, <2>2 DEF Enslave, TypeOK
  <2> QED BY <1>0, <1>19, <2>3 DEF Enslave, TypeOK, UsesObj, UsesDst
<1>20. CASE Record(c) BY <1>0, <1>20 DEF Record, TypeOK, UsesObj, UsesDst
<1>21. CASE DeleteLink(c)
  <2>1. ports' \in [Objects -> SUBSET (Containers \cup {"dns0", "vxlan"})]
    BY <1>21 DEF DeleteLink, TypeOK
  <2> QED BY <1>0, <1>21, <2>1 DEF DeleteLink, TypeOK, UsesObj, UsesDst
<1>22. CASE CleanupGet(c) BY <1>0, <1>22 DEF CleanupGet, TypeOK, UsesObj, UsesDst
<1>23. CASE LockSandbox(c, obj[c], "cleanupLock", "count")
  BY <1>0, <1>23 DEF LockSandbox, TypeOK, UsesObj, UsesDst
<1>24. CASE VethDeviceCount(c)
  BY <1>0, <1>24 DEF VethDeviceCount, TypeOK, UsesObj, UsesDst
<1>25. CASE DeleteVxlan(c)
  <2>1. ports' \in [Objects -> SUBSET (Containers \cup {"dns0", "vxlan"})]
    BY <1>25 DEF DeleteVxlan, TypeOK, UsesObj
  <2> QED BY <1>0, <1>25, <2>1 DEF DeleteVxlan, TypeOK, UsesObj, UsesDst
<1>26. CASE DestroyNotFound(c)
  BY <1>0, <1>26 DEF DestroyNotFound, TypeOK, UsesObj, UsesDst
<1>27. CASE TeardownFails(c) BY <1>0, <1>27 DEF TeardownFails, TypeOK, UsesObj, UsesDst
<1>28. CASE Teardown(c)
  <2>1. dns' \in [Objects -> {"none", "running", "killed"}] /\ destroyed' \subseteq Objects
    BY <1>28 DEF Teardown, TypeOK
  <2>2. \A d \in Containers : /\ (pc[d] \in UsesObj => obj[d] \in Objects)'
                              /\ (pc[d] \in UsesDst => dst[d] \in Objects)'
    BY <1>28 DEF Teardown, TypeOK, UsesObj, UsesDst
  <2> QED BY <1>0, <1>28, <2>1, <2>2 DEF Teardown, TypeOK
<1>29. CASE DestroyNamespace(c)
  BY <1>0, <1>29 DEF DestroyNamespace, TypeOK, UsesObj, UsesDst
<1>30. CASE Fault(c) BY <1>0, <1>30 DEF Fault, TypeOK, UsesObj, UsesDst
<1>31. CASE CreateNamespaceFails(c)
  BY <1>0, <1>31 DEF CreateNamespaceFails, TypeOK, UsesObj, UsesDst
<1>32. CASE Add(c) BY <1>0, <1>32 DEF Add, TypeOK, UsesObj, UsesDst
<1>33. CASE Del(c) BY <1>0, <1>33 DEF Del, TypeOK, UsesObj, UsesDst
<1> QED
   BY <1>1, <1>2, <1>3, <1>4, <1>5, <1>6, <1>7, <1>8, <1>9, <1>10, <1>11, <1>12,
      <1>13, <1>14, <1>15, <1>16, <1>17, <1>18, <1>19, <1>20, <1>21, <1>22,
      <1>23, <1>24, <1>25, <1>26, <1>27, <1>28, <1>29, <1>30, <1>31, <1>32,
      <1>33
   DEF Step, AddStep, DelStep

-----------------------------------------------------------------------------
(* Steps that concern nobody but the request itself.                         *)

\* The parts of SafeInv for one container.
LEMMA Instances ==
  ASSUME IInv, NEW c \in Containers
  PROVE  LockOf(c) /\ LinkOf(c) /\ MakerOf(c) /\ CleanOf(c)
BY DEF IInv, SafeInv, LockInv, LinkInv, MakerInv, CleanInv

\* A container's request goes on, and takes or gives back a mutex; nothing
\* that SafeInv says of the sandbox changes.
Local(c) ==
  /\ UNCHANGED <<registered, nsFile, vxlan, bridges, ports, veth, monitored,
                 created, destroyed>>
  /\ pc' = [pc EXCEPT ![c] = pc'[c]] /\ obj' = [obj EXCEPT ![c] = obj'[c]]
  /\ dst' = [dst EXCEPT ![c] = dst'[c]]
  /\ \A i \in Objects : locks'[i] # locks[i] => locks[i] \in {c, Nil}

\* Such a step disturbs at most what SafeInv says of the request itself.
LEMMA LocalStep ==
  ASSUME IInv, NEW c \in Containers, Local(c), LockOf(c)', LinkOf(c)', CleanOf(c)',
         pc'[c] \in Making => pc[c] \in Making,
         pc'[c] = "moveVxlan" => dst'[c] = registered,
         pc'[c] \in Cleaning \cup {"cleanupGet"} => pc[c] \in Cleaning \cup {"cleanupGet"}
  PROVE  SafeInv'
<1> USE SandboxAssumption DEF Local, Objects, None, Outside
<1> TypeOK /\ NameInv /\ VxlanInv BY DEF IInv, SafeInv
<1>1. NameInv' /\ VxlanInv' BY DEF NameInv, VxlanInv
<1>2. ASSUME NEW d \in Containers, d # c
      PROVE  LockOf(d)' /\ MakerOf(d)' /\ LinkOf(d)' /\ CleanOf(d)'
  <2> LockOf(d) /\ MakerOf(d) /\ LinkOf(d) /\ CleanOf(d) BY Instances
  <2>0. pc'[d] = pc[d] /\ obj'[d] = obj[d] /\ dst'[d] = dst[d] BY <1>2 DEF TypeOK
  <2>1. LockOf(d)' BY <1>2, <2>0 DEF LockOf, TypeOK, UsesObj, UsesDst, HoldsObj, HoldsDst
  <2>2. MakerOf(d)' BY <2>0 DEF MakerOf, TypeOK
  <2>3. LinkOf(d)' BY <2>0 DEF LinkOf
  <2>4. CleanOf(d)' BY <2>0 DEF CleanOf
  <2> QED BY <2>1, <2>2, <2>3, <2>4
<1>3. MakerOf(c)'
  <2>1. MakerOf(c) BY Instances
  <2> QED BY <2>1 DEF MakerOf, TypeOK
<1> QED BY <1>1, <1>2, <1>3 DEF SafeInv, LockInv, MakerInv, LinkInv, CleanInv

\* What SandboxExists reads may be stale when it is used; nothing rests on it.
LEMMA SandboxExistsKeeps ==
  ASSUME IInv, NEW c \in Containers, SandboxExists(c)
  PROVE  SafeInv'
<1> USE SandboxAssumption
        DEF SandboxExists, Command, FailedFrom, Unlocked, repoVars, kernelVars,
            Objects, None, Outside
<1> TypeOK /\ LockOf(c) /\ LinkOf(c) /\ MakerOf(c) /\ CleanOf(c) BY Instances DEF IInv
<1>1. Local(c) BY DEF Local, TypeOK
<1>2. LockOf(c)' BY DEF LockOf, TypeOK, UsesObj, UsesDst, HoldsObj, HoldsDst
<1>3. LinkOf(c)' /\ CleanOf(c)'
  BY DEF IInv, SafeInv, NameInv, VxlanInv, LinkOf, CleanOf, Unlinked, Making, Placed,
         Cleaning, Counting, Emptied, TypeOK, UsesObj, UsesDst
<1> QED BY <1>1, <1>2, <1>3, LocalStep DEF Making, Cleaning, Counting, Emptied, TypeOK

\* MoveLink of a veth device gets the very object whose mutex Setup holds.
LEMMA GetIntoKeeps ==
  ASSUME IInv, NEW c \in Containers, NEW at, NEW next,
         <<at, next>> \in {<<"vxlanGet", "moveVxlan">>, <<"dnsGet", "dnsLock">>,
                          <<"vethGet", "moveVeth">>},
         GetInto(c, at, next)
  PROVE  SafeInv'
<1> USE SandboxAssumption
        DEF GetInto, Command, FailedFrom, Unlocked, repoVars, kernelVars,
            Objects, None, Outside
<1> TypeOK /\ LockOf(c) /\ LinkOf(c) /\ MakerOf(c) /\ CleanOf(c) BY Instances DEF IInv
<1>1. Local(c) BY DEF Local, TypeOK
<1>2. LockOf(c)' BY DEF LockOf, TypeOK, UsesObj, UsesDst, HoldsObj, HoldsDst
<1>3. LinkOf(c)' /\ CleanOf(c)'
  BY DEF IInv, SafeInv, NameInv, VxlanInv, LinkOf, CleanOf, Unlinked, Making, Placed,
         Cleaning, Counting, Emptied, TypeOK, UsesObj, UsesDst
<1> QED BY <1>1, <1>2, <1>3, LocalStep DEF Making, Cleaning, Counting, Emptied, TypeOK

\* A mutex is taken only when it is free.
LEMMA LockSandboxKeeps ==
  ASSUME IInv, NEW c \in Containers, NEW at, NEW next, NEW i \in Objects,
         \/ at = "dnsLock" /\ next = "dnsDummy" /\ i = dst[c]
         \/ at = "lock" /\ next = "linkUp" /\ i = obj[c]
         \/ at = "cleanupLock" /\ next = "count" /\ i = obj[c],
         LockSandbox(c, i, at, next)
  PROVE  SafeInv'
<1> USE SandboxAssumption
        DEF LockSandbox, Command, FailedFrom, Unlocked, repoVars, kernelVars,
            Objects, None, Outside
<1> TypeOK /\ LockOf(c) /\ LinkOf(c) /\ MakerOf(c) /\ CleanOf(c) BY Instances DEF IInv
<1>1. Local(c) BY DEF Local, TypeOK
<1>2. LockOf(c)' BY DEF LockOf, TypeOK, UsesObj, UsesDst, HoldsObj, HoldsDst
<1>3. LinkOf(c)' /\ CleanOf(c)'
  BY DEF IInv, SafeInv, NameInv, VxlanInv, LinkOf, CleanOf, Unlinked, Making, Placed,
         Cleaning, Counting, Emptied, TypeOK, UsesObj, UsesDst
<1> QED BY <1>1, <1>2, <1>3, LocalStep DEF Making, Cleaning, Counting, Emptied, TypeOK

\* dns0 is nobody's concern here.
LEMMA CreateDummyKeeps ==
  ASSUME IInv, NEW c \in Containers, CreateDummy(c)
  PROVE  SafeInv'
<1> USE SandboxAssumption
        DEF CreateDummy, Command, FailedFrom, Unlocked, repoVars, kernelVars,
            Objects, None, Outside
<1> TypeOK /\ LockOf(c) /\ LinkOf(c) /\ MakerOf(c) /\ CleanOf(c) BY Instances DEF IInv
<1>1. Local(c) BY DEF Local, TypeOK
<1>2. LockOf(c)' BY DEF LockOf, TypeOK, UsesObj, UsesDst, HoldsObj, HoldsDst
<1>3. LinkOf(c)' /\ CleanOf(c)'
  BY DEF IInv, SafeInv, NameInv, VxlanInv, LinkOf, CleanOf, Unlinked, Making, Placed,
         Cleaning, Counting, Emptied, TypeOK, UsesObj, UsesDst
<1> QED BY <1>1, <1>2, <1>3, LocalStep DEF Making, Cleaning, Counting, Emptied, TypeOK

\* StartDNSServer gives its mutex back.
LEMMA LaunchDNSKeeps ==
  ASSUME IInv, NEW c \in Containers, LaunchDNS(c)
  PROVE  SafeInv'
<1> USE SandboxAssumption
        DEF LaunchDNS, Command, FailedFrom, Unlocked, repoVars, kernelVars,
            Objects, None, Outside
<1> TypeOK /\ LockOf(c) /\ LinkOf(c) /\ MakerOf(c) /\ CleanOf(c) BY Instances DEF IInv
<1>1. Local(c) BY DEF Local, TypeOK
<1>2. LockOf(c)' BY DEF LockOf, TypeOK, UsesObj, UsesDst, HoldsObj, HoldsDst
<1>3. LinkOf(c)' /\ CleanOf(c)'
  BY DEF IInv, SafeInv, NameInv, VxlanInv, LinkOf, CleanOf, Unlinked, Making, Placed,
         Cleaning, Counting, Emptied, TypeOK, UsesObj, UsesDst
<1> QED BY <1>1, <1>2, <1>3, LocalStep DEF Making, Cleaning, Counting, Emptied, TypeOK

\* Setup gets a sandbox, perhaps one that a DEL is about to destroy.
LEMMA GetSandboxKeeps ==
  ASSUME IInv, NEW c \in Containers, GetSandbox(c)
  PROVE  SafeInv'
<1> USE SandboxAssumption
        DEF GetSandbox, Command, FailedFrom, Unlocked, repoVars, kernelVars,
            Objects, None, Outside
<1> TypeOK /\ LockOf(c) /\ LinkOf(c) /\ MakerOf(c) /\ CleanOf(c) BY Instances DEF IInv
<1>1. Local(c) BY DEF Local, TypeOK
<1>2. LockOf(c)' BY DEF LockOf, TypeOK, UsesObj, UsesDst, HoldsObj, HoldsDst
<1>3. LinkOf(c)' /\ CleanOf(c)'
  BY DEF IInv, SafeInv, NameInv, VxlanInv, LinkOf, CleanOf, Unlinked, Making, Placed,
         Cleaning, Counting, Emptied, TypeOK, UsesObj, UsesDst
<1> QED BY <1>1, <1>2, <1>3, LocalStep DEF Making, Cleaning, Counting, Emptied, TypeOK

\* A sandbox with the vxlan device in it is the one that has the name.
LEMMA VxlanUpKeeps ==
  ASSUME IInv, NEW c \in Containers, VxlanUp(c)
  PROVE  SafeInv'
<1> USE SandboxAssumption
        DEF VxlanUp, Command, FailedFrom, Unlocked, repoVars, kernelVars,
            Objects, None, Outside
<1> TypeOK /\ LockOf(c) /\ LinkOf(c) /\ MakerOf(c) /\ CleanOf(c) BY Instances DEF IInv
<1>1. Local(c) BY DEF Local, TypeOK
<1>2. LockOf(c)' BY DEF LockOf, TypeOK, UsesObj, UsesDst, HoldsObj, HoldsDst
<1>3. LinkOf(c)' /\ CleanOf(c)'
  BY DEF IInv, SafeInv, NameInv, VxlanInv, LinkOf, CleanOf, Unlinked, Making, Placed,
         Cleaning, Counting, Emptied, TypeOK, UsesObj, UsesDst
<1> QED BY <1>1, <1>2, <1>3, LocalStep DEF Making, Cleaning, Counting, Emptied, TypeOK

\* The ADD ends with everything connected.
LEMMA RecordKeeps ==
  ASSUME IInv, NEW c \in Containers, Record(c)
  PROVE  SafeInv'
<1> USE SandboxAssumption
        DEF Record, Command, FailedFrom, Unlocked, repoVars, kernelVars,
            Objects, None, Outside
<1> TypeOK /\ LockOf(c) /\ LinkOf(c) /\ MakerOf(c) /\ CleanOf(c) BY Instances DEF IInv
<1>1. Local(c) BY DEF Local, TypeOK
<1>2. LockOf(c)' BY DEF LockOf, TypeOK, UsesObj, UsesDst, HoldsObj, HoldsDst
<1>3. LinkOf(c)' /\ CleanOf(c)'
  BY DEF IInv, SafeInv, NameInv, VxlanInv, LinkOf, CleanOf, Unlinked, Making, Placed,
         Cleaning, Counting, Emptied, TypeOK, UsesObj, UsesDst
<1> QED BY <1>1, <1>2, <1>3, LocalStep DEF Making, Cleaning, Counting, Emptied, TypeOK

\* The DEL gets the sandbox that its own link was in.
LEMMA CleanupGetKeeps ==
  ASSUME IInv, NEW c \in Containers, CleanupGet(c)
  PROVE  SafeInv'
<1> USE SandboxAssumption
        DEF CleanupGet, Command, FailedFrom, Unlocked, repoVars, kernelVars,
            Objects, None, Outside
<1> TypeOK /\ LockOf(c) /\ LinkOf(c) /\ MakerOf(c) /\ CleanOf(c) BY Instances DEF IInv
<1>1. Local(c) BY DEF Local, TypeOK
<1>2. LockOf(c)' BY DEF LockOf, TypeOK, UsesObj, UsesDst, HoldsObj, HoldsDst
<1>3. LinkOf(c)' /\ CleanOf(c)'
  BY DEF IInv, SafeInv, NameInv, VxlanInv, LinkOf, CleanOf, Unlinked, Making, Placed,
         Cleaning, Counting, Emptied, TypeOK, UsesObj, UsesDst
<1> QED BY <1>1, <1>2, <1>3, LocalStep DEF Making, Cleaning, Counting, Emptied, TypeOK

\* Links are only in the sandbox that has the name: counting the ones in the
\* object that it got, the DEL counts them all.
LEMMA VethDeviceCountKeeps ==
  ASSUME IInv, NEW c \in Containers, VethDeviceCount(c)
  PROVE  SafeInv'
<1> USE SandboxAssumption
        DEF VethDeviceCount, Command, FailedFrom, Unlocked, repoVars, kernelVars,
            Objects, None, Outside
<1> TypeOK /\ LockOf(c) /\ LinkOf(c) /\ MakerOf(c) /\ CleanOf(c) BY Instances DEF IInv
<1>1. Local(c) BY DEF Local, TypeOK
<1>2. LockOf(c)' BY DEF LockOf, TypeOK, UsesObj, UsesDst, HoldsObj, HoldsDst
<1>3. LinkOf(c)' /\ CleanOf(c)'
  <2>1. \A x \in Containers : veth[x] \in Objects => veth[x] = obj[c]
    BY Instances DEF LinkOf, CleanOf, Cleaning, Counting
  <2> QED BY <2>1 DEF LinkOf, CleanOf, Unlinked, Making, Placed, Cleaning, Counting,
                      Emptied, TypeOK, UsesObj
<1> QED BY <1>1, <1>2, <1>3, LocalStep DEF Making, Cleaning, Counting, Emptied, TypeOK

\* The second look at the name finds nothing only if nothing was there.
LEMMA DestroyNotFoundKeeps ==
  ASSUME IInv, NEW c \in Containers, DestroyNotFound(c)
  PROVE  SafeInv'
<1> USE SandboxAssumption
        DEF DestroyNotFound, Command, FailedFrom, Unlocked, repoVars, kernelVars,
            Objects, None, Outside
<1> TypeOK /\ LockOf(c) /\ LinkOf(c) /\ MakerOf(c) /\ CleanOf(c) BY Instances DEF IInv
<1>1. Local(c) BY DEF Local, TypeOK
<1>2. LockOf(c)' BY DEF LockOf, TypeOK, UsesObj, UsesDst, HoldsObj, HoldsDst
<1>3. LinkOf(c)' /\ CleanOf(c)'
  BY DEF IInv, SafeInv, NameInv, VxlanInv, LinkOf, CleanOf, Unlinked, Making, Placed,
         Cleaning, Counting, Emptied, TypeOK, UsesObj, UsesDst
<1> QED BY <1>1, <1>2, <1>3, LocalStep DEF Making, Cleaning, Counting, Emptied, TypeOK

\* Teardown refuses, and the DEL fails.
LEMMA TeardownFailsKeeps ==
  ASSUME IInv, NEW c \in Containers, TeardownFails(c)
  PROVE  SafeInv'
<1> USE SandboxAssumption
        DEF TeardownFails, Command, FailedFrom, Unlocked, repoVars, kernelVars,
            Objects, None, Outside
<1> TypeOK /\ LockOf(c) /\ LinkOf(c) /\ MakerOf(c) /\ CleanOf(c) BY Instances DEF IInv
<1>1. Local(c) BY DEF Local, TypeOK
<1>2. LockOf(c)' BY DEF LockOf, TypeOK, UsesObj, UsesDst, HoldsObj, HoldsDst
<1>3. LinkOf(c)' /\ CleanOf(c)'
  BY DEF IInv, SafeInv, NameInv, VxlanInv, LinkOf, CleanOf, Unlinked, Making, Placed,
         Cleaning, Counting, Emptied, TypeOK, UsesObj, UsesDst
<1> QED BY <1>1, <1>2, <1>3, LocalStep DEF Making, Cleaning, Counting, Emptied, TypeOK

-----------------------------------------------------------------------------
(* Steps that change the sandbox.                                            *)

\* The name is free, so that no link is in any sandbox, nobody else is a maker
\* and no DEL has a sandbox to clean up.
LEMMA CreateSandboxKeeps ==
  ASSUME IInv, NEW c \in Containers, TypeOK', CreateSandbox(c)
  PROVE  SafeInv'
<1> USE SandboxAssumption
        DEF CreateSandbox, Command, FailedFrom, Unlocked, repoVars, kernelVars,
            Objects, None, Outside, Unlinked, Making, Placed, Cleaning, Counting,
            Emptied, UsesObj, UsesDst
<1> TypeOK /\ OneDel /\ NameInv /\ VxlanInv BY DEF IInv, SafeInv
<1>0. LockOf(c) /\ LinkOf(c) /\ MakerOf(c) /\ CleanOf(c) BY Instances
<1>1. NameInv' /\ VxlanInv'
  BY <1>0 DEF NameInv, VxlanInv, LinkOf, MakerOf, CleanOf, TypeOK
<1>2. ASSUME NEW d \in Containers
      PROVE  LockOf(d)' /\ MakerOf(d)' /\ LinkOf(d)' /\ CleanOf(d)'
  <2> LockOf(d) /\ MakerOf(d) /\ LinkOf(d) /\ CleanOf(d) BY Instances
  <2>1. LockOf(d)' BY DEF LockOf, TypeOK, HoldsObj, HoldsDst
  <2>2. MakerOf(d)'
    <3>1. CASE registered = None /\ nsFile = None
      <4>1. \A x \in Containers : /\ pc[x] \notin Making \cup Cleaning \cup {"cleanupGet"}
                                  /\ veth[x] \notin Objects
        BY <3>1, Instances DEF MakerOf, LinkOf, CleanOf
      <4>2. pc'[d] \in Making => d = c BY <3>1, <4>1 DEF TypeOK
      <4>3. registered' \in Objects \ destroyed' /\ vxlan' \notin Objects
        BY <3>1 DEF NameInv, VxlanInv, TypeOK
      <4>4. \A x \in Containers : pc'[x] # pc[x] => x = c /\ pc'[x] = "setup"
        BY <3>1 DEF TypeOK
      <4> QED BY <4>1, <4>2, <4>3, <4>4 DEF MakerOf
    <3>2. CASE ~(registered = None /\ nsFile = None)
      BY <3>2 DEF MakerOf, TypeOK, Adding
    <3> QED BY <3>1, <3>2
  <2>3. LinkOf(d)'
    BY <1>0 DEF LinkOf, MakerOf, CleanOf, VxlanInv, NameInv, TypeOK
  <2>4. CleanOf(d)'
    BY <1>0 DEF CleanOf, LinkOf, MakerOf, OneDel, Deleting, VxlanInv, NameInv, TypeOK
  <2> QED BY <2>1, <2>2, <2>3, <2>4
<1> QED BY <1>1, <1>2 DEF SafeInv, LockInv, MakerInv, LinkInv, CleanInv

\* A namespace without an entry in the map.
LEMMA CreateNamespaceFailsKeeps ==
  ASSUME IInv, NEW c \in Containers, TypeOK', CreateNamespaceFails(c)
  PROVE  SafeInv'
<1> USE SandboxAssumption
        DEF CreateNamespaceFails, Command, FailedFrom, Unlocked, repoVars, kernelVars,
            Objects, None, Outside, Unlinked, Making, Placed, Cleaning, Counting,
            Emptied, UsesObj, UsesDst
<1> TypeOK /\ OneDel /\ NameInv /\ VxlanInv BY DEF IInv, SafeInv
<1>0. LockOf(c) /\ LinkOf(c) /\ MakerOf(c) /\ CleanOf(c) BY Instances
<1>1. NameInv' /\ VxlanInv'
  BY <1>0 DEF NameInv, VxlanInv, LinkOf, MakerOf, CleanOf, TypeOK
<1>2. ASSUME NEW d \in Containers
      PROVE  LockOf(d)' /\ MakerOf(d)' /\ LinkOf(d)' /\ CleanOf(d)'
  <2> LockOf(d) /\ MakerOf(d) /\ LinkOf(d) /\ CleanOf(d) BY Instances
  <2>1. LockOf(d)' BY DEF LockOf, TypeOK, HoldsObj, HoldsDst
  <2>2. MakerOf(d)'
    BY <1>0 DEF MakerOf, LinkOf, CleanOf, VxlanInv, NameInv, TypeOK
  <2>3. LinkOf(d)'
    BY <1>0 DEF LinkOf, MakerOf, CleanOf, VxlanInv, NameInv, TypeOK
  <2>4. CleanOf(d)'
    BY <1>0 DEF CleanOf, LinkOf, MakerOf, OneDel, Deleting, VxlanInv, NameInv, TypeOK
  <2> QED BY <2>1, <2>2, <2>3, <2>4
<1> QED BY <1>1, <1>2 DEF SafeInv, LockInv, MakerInv, LinkInv, CleanInv

\* The maker leaves the repository.
LEMMA SetupSandboxKeeps ==
  ASSUME IInv, NEW c \in Containers, TypeOK', SetupSandbox(c)
  PROVE  SafeInv'
<1> USE SandboxAssumption
        DEF SetupSandbox, Command, FailedFrom, Unlocked, repoVars, kernelVars,
            Objects, None, Outside, Unlinked, Making, Placed, Cleaning, Counting,
            Emptied, UsesObj, UsesDst
<1> TypeOK /\ OneDel /\ NameInv /\ VxlanInv BY DEF IInv, SafeInv
<1>0. LockOf(c) /\ LinkOf(c) /\ MakerOf(c) /\ CleanOf(c) BY Instances
<1>1. NameInv' /\ VxlanInv'
  BY <1>0 DEF NameInv, VxlanInv, LinkOf, MakerOf, CleanOf, TypeOK
<1>2. ASSUME NEW d \in Containers
      PROVE  LockOf(d)' /\ MakerOf(d)' /\ LinkOf(d)' /\ CleanOf(d)'
  <2> LockOf(d) /\ MakerOf(d) /\ LinkOf(d) /\ CleanOf(d) BY Instances
  <2>1. LockOf(d)' BY DEF LockOf, TypeOK, HoldsObj, HoldsDst
  <2>2. MakerOf(d)'
    BY <1>0 DEF MakerOf, LinkOf, CleanOf, VxlanInv, NameInv, TypeOK
  <2>3. LinkOf(d)'
    BY <1>0 DEF LinkOf, MakerOf, CleanOf, VxlanInv, NameInv, TypeOK
  <2>4. CleanOf(d)'
    BY <1>0 DEF CleanOf, LinkOf, MakerOf, OneDel, Deleting, VxlanInv, NameInv, TypeOK
  <2> QED BY <2>1, <2>2, <2>3, <2>4
<1> QED BY <1>1, <1>2 DEF SafeInv, LockInv, MakerInv, LinkInv, CleanInv

\* The device is outside all sandboxes.
LEMMA CreateVxlanKeeps ==
  ASSUME IInv, NEW c \in Containers, TypeOK', CreateVxlan(c)
  PROVE  SafeInv'
<1> USE SandboxAssumption
        DEF CreateVxlan, Command, FailedFrom, Unlocked, repoVars, kernelVars,
            Objects, None, Outside, Unlinked, Making, Placed, Cleaning, Counting,
            Emptied, UsesObj, UsesDst
<1> TypeOK /\ OneDel /\ NameInv /\ VxlanInv BY DEF IInv, SafeInv
<1>0. LockOf(c) /\ LinkOf(c) /\ MakerOf(c) /\ CleanOf(c) BY Instances
<1>1. NameInv' /\ VxlanInv'
  BY <1>0 DEF NameInv, VxlanInv, LinkOf, MakerOf, CleanOf, TypeOK
<1>2. ASSUME NEW d \in Containers
      PROVE  LockOf(d)' /\ MakerOf(d)' /\ LinkOf(d)' /\ CleanOf(d)'
  <2> LockOf(d) /\ MakerOf(d) /\ LinkOf(d) /\ CleanOf(d) BY Instances
  <2>1. LockOf(d)' BY DEF LockOf, TypeOK, HoldsObj, HoldsDst
  <2>2. MakerOf(d)'
    BY <1>0 DEF MakerOf, LinkOf, CleanOf, VxlanInv, NameInv, TypeOK
  <2>3. LinkOf(d)'
    BY <1>0 DEF LinkOf, MakerOf, CleanOf, VxlanInv, NameInv, TypeOK
  <2>4. CleanOf(d)'
    BY <1>0 DEF CleanOf, LinkOf, MakerOf, OneDel, Deleting, VxlanInv, NameInv, TypeOK
  <2> QED BY <2>1, <2>2, <2>3, <2>4
<1> QED BY <1>1, <1>2 DEF SafeInv, LockInv, MakerInv, LinkInv, CleanInv

\* The maker moves the device to the sandbox that has the name.
LEMMA MoveVxlanKeeps ==
  ASSUME IInv, NEW c \in Containers, TypeOK', MoveVxlan(c)
  PROVE  SafeInv'
<1> USE SandboxAssumption
        DEF MoveVxlan, Command, FailedFrom, Unlocked, repoVars, kernelVars,
            Objects, None, Outside, Unlinked, Making, Placed, Cleaning, Counting,
            Emptied, UsesObj, UsesDst
<1> TypeOK /\ OneDel /\ NameInv /\ VxlanInv BY DEF IInv, SafeInv
<1>0. LockOf(c) /\ LinkOf(c) /\ MakerOf(c) /\ CleanOf(c) BY Instances
<1>1. NameInv' /\ VxlanInv'
  BY <1>0 DEF NameInv, VxlanInv, LinkOf, MakerOf, CleanOf, TypeOK
<1>2. ASSUME NEW d \in Containers
      PROVE  LockOf(d)' /\ MakerOf(d)' /\ LinkOf(d)' /\ CleanOf(d)'
  <2> LockOf(d) /\ MakerOf(d) /\ LinkOf(d) /\ CleanOf(d) BY Instances
  <2>1. LockOf(d)' BY DEF LockOf, TypeOK, HoldsObj, HoldsDst
  <2>2. MakerOf(d)'
    BY <1>0 DEF MakerOf, LinkOf, CleanOf, VxlanInv, NameInv, TypeOK
  <2>3. LinkOf(d)'
    BY <1>0 DEF LinkOf, MakerOf, CleanOf, VxlanInv, NameInv, TypeOK
  <2>4. CleanOf(d)'
    BY <1>0 DEF CleanOf, LinkOf, MakerOf, OneDel, Deleting, VxlanInv, NameInv, TypeOK
  <2> QED BY <2>1, <2>2, <2>3, <2>4
<1> QED BY <1>1, <1>2 DEF SafeInv, LockInv, MakerInv, LinkInv, CleanInv

\* Only the sandbox that has the name has the device.
LEMMA StartMonitorKeeps ==
  ASSUME IInv, NEW c \in Containers, TypeOK', StartMonitor(c)
  PROVE  SafeInv'
<1> USE SandboxAssumption
        DEF StartMonitor, Command, FailedFrom, Unlocked, repoVars, kernelVars,
            Objects, None, Outside, Unlinked, Making, Placed, Cleaning, Counting,
            Emptied, UsesObj, UsesDst
<1> TypeOK /\ OneDel /\ NameInv /\ VxlanInv BY DEF IInv, SafeInv
<1>0. LockOf(c) /\ LinkOf(c) /\ MakerOf(c) /\ CleanOf(c) BY Instances
<1>1. NameInv' /\ VxlanInv'
  BY <1>0 DEF NameInv, VxlanInv, LinkOf, MakerOf, CleanOf, TypeOK
<1>2. ASSUME NEW d \in Containers
      PROVE  LockOf(d)' /\ MakerOf(d)' /\ LinkOf(d)' /\ CleanOf(d)'
  <2> LockOf(d) /\ MakerOf(d) /\ LinkOf(d) /\ CleanOf(d) BY Instances
  <2>1. LockOf(d)' BY DEF LockOf, TypeOK, HoldsObj, HoldsDst
  <2>2. MakerOf(d)'
    BY <1>0 DEF MakerOf, LinkOf, CleanOf, VxlanInv, NameInv, TypeOK
  <2>3. LinkOf(d)'
    <3>1. CASE d = c
      BY <3>1, <1>0 DEF LinkOf, VxlanInv, TypeOK, Adding
    <3>2. CASE d # c
      <4>1. pc'[d] = pc[d] BY <3>2 DEF TypeOK
      <4> QED BY <4>1 DEF LinkOf
    <3> QED BY <3>1, <3>2
  <2>4. CleanOf(d)'
    BY <1>0 DEF CleanOf, LinkOf, MakerOf, OneDel, Deleting, VxlanInv, NameInv, TypeOK
  <2> QED BY <2>1, <2>2, <2>3, <2>4
<1> QED BY <1>1, <1>2 DEF SafeInv, LockInv, MakerInv, LinkInv, CleanInv

\* The link is outside all sandboxes.
LEMMA CreateVethKeeps ==
  ASSUME IInv, NEW c \in Containers, TypeOK', CreateVeth(c)
  PROVE  SafeInv'
<1> USE SandboxAssumption
        DEF CreateVeth, Command, FailedFrom, Unlocked, repoVars, kernelVars,
            Objects, None, Outside, Unlinked, Making, Placed, Cleaning, Counting,
            Emptied, UsesObj, UsesDst
<1> TypeOK /\ OneDel /\ NameInv /\ VxlanInv BY DEF IInv, SafeInv
<1>0. LockOf(c) /\ LinkOf(c) /\ MakerOf(c) /\ CleanOf(c) BY Instances
<1>1. NameInv' /\ VxlanInv'
  BY <1>0 DEF NameInv, VxlanInv, LinkOf, MakerOf, CleanOf, TypeOK
<1>2. ASSUME NEW d \in Containers
      PROVE  LockOf(d)' /\ MakerOf(d)' /\ LinkOf(d)' /\ CleanOf(d)'
  <2> LockOf(d) /\ MakerOf(d) /\ LinkOf(d) /\ CleanOf(d) BY Instances
  <2>1. LockOf(d)' BY DEF LockOf, TypeOK, HoldsObj, HoldsDst
  <2>2. MakerOf(d)'
    BY <1>0 DEF MakerOf, LinkOf, CleanOf, VxlanInv, NameInv, TypeOK
  <2>3. LinkOf(d)'
    BY <1>0 DEF LinkOf, MakerOf, CleanOf, VxlanInv, NameInv, TypeOK
  <2>4. CleanOf(d)'
    BY <1>0 DEF CleanOf, LinkOf, MakerOf, OneDel, Deleting, VxlanInv, NameInv, TypeOK
  <2> QED BY <2>1, <2>2, <2>3, <2>4
<1> QED BY <1>1, <1>2 DEF SafeInv, LockInv, MakerInv, LinkInv, CleanInv

\* The link goes to a sandbox whose mutex the request holds: no DEL has counted
\* its links.
LEMMA MoveVethKeeps ==
  ASSUME IInv, NEW c \in Containers, TypeOK', MoveVeth(c)
  PROVE  SafeInv'
<1> USE SandboxAssumption
        DEF MoveVeth, Command, FailedFrom, Unlocked, repoVars, kernelVars,
            Objects, None, Outside, Unlinked, Making, Placed, Cleaning, Counting,
            Emptied, UsesObj, UsesDst
<1> TypeOK /\ OneDel /\ NameInv /\ VxlanInv BY DEF IInv, SafeInv
<1>0. LockOf(c) /\ LinkOf(c) /\ MakerOf(c) /\ CleanOf(c) BY Instances
<1>1. NameInv' /\ VxlanInv'
  BY <1>0 DEF NameInv, VxlanInv, LinkOf, MakerOf, CleanOf, TypeOK
<1>2. ASSUME NEW d \in Containers
      PROVE  LockOf(d)' /\ MakerOf(d)' /\ LinkOf(d)' /\ CleanOf(d)'
  <2> LockOf(d) /\ MakerOf(d) /\ LinkOf(d) /\ CleanOf(d) BY Instances
  <2>1. LockOf(d)' BY DEF LockOf, TypeOK, HoldsObj, HoldsDst
  <2>2. MakerOf(d)'
    BY <1>0 DEF MakerOf, LinkOf, CleanOf, VxlanInv, NameInv, TypeOK
  <2>3. LinkOf(d)'
    BY <1>0 DEF LinkOf, MakerOf, CleanOf, VxlanInv, NameInv, TypeOK
  <2>4. CleanOf(d)'
    <3>1. CASE d = c BY <3>1 DEF CleanOf, TypeOK, Adding
    <3>2. CASE d # c
      <4>1. pc'[d] = pc[d] BY <3>2 DEF TypeOK
      <4>2. pc[d] \notin Emptied
        BY <1>0, <3>2 DEF LockOf, LinkOf, CleanOf, HoldsObj
      <4> QED BY <4>1, <4>2 DEF CleanOf
    <3> QED BY <3>1, <3>2
  <2> QED BY <2>1, <2>2, <2>3, <2>4
<1> QED BY <1>1, <1>2 DEF SafeInv, LockInv, MakerInv, LinkInv, CleanInv

\* A bridge, or none.
LEMMA SetupBridgeKeeps ==
  ASSUME IInv, NEW c \in Containers, TypeOK', SetupBridge(c)
  PROVE  SafeInv'
<1> USE SandboxAssumption
        DEF SetupBridge, Command, FailedFrom, Unlocked, repoVars, kernelVars,
            Objects, None, Outside, Unlinked, Making, Placed, Cleaning, Counting,
            Emptied, UsesObj, UsesDst
<1> TypeOK /\ OneDel /\ NameInv /\ VxlanInv BY DEF IInv, SafeInv
<1>0. LockOf(c) /\ LinkOf(c) /\ MakerOf(c) /\ CleanOf(c) BY Instances
<1>1. NameInv' /\ VxlanInv'
  BY <1>0 DEF NameInv, VxlanInv, LinkOf, MakerOf, CleanOf, TypeOK
<1>2. ASSUME NEW d \in Containers
      PROVE  LockOf(d)' /\ MakerOf(d)' /\ LinkOf(d)' /\ CleanOf(d)'
  <2> LockOf(d) /\ MakerOf(d) /\ LinkOf(d) /\ CleanOf(d) BY Instances
  <2>1. LockOf(d)' BY DEF LockOf, TypeOK, HoldsObj, HoldsDst
  <2>2. MakerOf(d)'
    BY <1>0 DEF MakerOf, LinkOf, CleanOf, VxlanInv, NameInv, TypeOK
  <2>3. LinkOf(d)'
    BY <1>0 DEF LinkOf, MakerOf, CleanOf, VxlanInv, NameInv, TypeOK
  <2>4. CleanOf(d)'
    BY <1>0 DEF CleanOf, LinkOf, MakerOf, OneDel, Deleting, VxlanInv, NameInv, TypeOK
  <2> QED BY <2>1, <2>2, <2>3, <2>4
<1> QED BY <1>1, <1>2 DEF SafeInv, LockInv, MakerInv, LinkInv, CleanInv

\* The ports that an attached container needs.
LEMMA EnslaveKeeps ==
  ASSUME IInv, NEW c \in Containers, TypeOK', Enslave(c)
  PROVE  SafeInv'
<1> USE SandboxAssumption
        DEF Enslave, Command, FailedFrom, Unlocked, repoVars, kernelVars,
            Objects, None, Outside, Unlinked, Making, Placed, Cleaning, Counting,
            Emptied, UsesObj, UsesDst
<1> TypeOK /\ OneDel /\ NameInv /\ VxlanInv BY DEF IInv, SafeInv
<1>0. LockOf(c) /\ LinkOf(c) /\ MakerOf(c) /\ CleanOf(c) BY Instances
<1>1. NameInv' /\ VxlanInv'
  BY <1>0 DEF NameInv, VxlanInv, LinkOf, MakerOf, CleanOf, TypeOK
<1>2. ASSUME NEW d \in Containers
      PROVE  LockOf(d)' /\ MakerOf(d)' /\ LinkOf(d)' /\ CleanOf(d)'
  <2> LockOf(d) /\ MakerOf(d) /\ LinkOf(d) /\ CleanOf(d) BY Instances
  <2>1. LockOf(d)' BY DEF LockOf, TypeOK, HoldsObj, HoldsDst
  <2>2. MakerOf(d)'
    BY <1>0 DEF MakerOf, LinkOf, CleanOf, VxlanInv, NameInv, TypeOK
  <2>3. LinkOf(d)'
    BY <1>0 DEF LinkOf, MakerOf, CleanOf, VxlanInv, NameInv, TypeOK
  <2>4. CleanOf(d)'
    BY <1>0 DEF CleanOf, LinkOf, MakerOf, OneDel, Deleting, VxlanInv, NameInv, TypeOK
  <2> QED BY <2>1, <2>2, <2>3, <2>4
<1> QED BY <1>1, <1>2 DEF SafeInv, LockInv, MakerInv, LinkInv, CleanInv

\* The link that is gone was in the sandbox that has the name, which is now
\* this DEL's to clean up.
LEMMA DeleteLinkKeeps ==
  ASSUME IInv, NEW c \in Containers, TypeOK', DeleteLink(c)
  PROVE  SafeInv'
<1> USE SandboxAssumption
        DEF DeleteLink, Command, FailedFrom, Unlocked, repoVars, kernelVars,
            Objects, None, Outside, Unlinked, Making, Placed, Cleaning, Counting,
            Emptied, UsesObj, UsesDst
<1> TypeOK /\ OneDel /\ NameInv /\ VxlanInv BY DEF IInv, SafeInv
<1>0. LockOf(c) /\ LinkOf(c) /\ MakerOf(c) /\ CleanOf(c) BY Instances
<1>1. NameInv' /\ VxlanInv'
  BY <1>0 DEF NameInv, VxlanInv, LinkOf, MakerOf, CleanOf, TypeOK
<1>2. ASSUME NEW d \in Containers
      PROVE  LockOf(d)' /\ MakerOf(d)' /\ LinkOf(d)' /\ CleanOf(d)'
  <2> LockOf(d) /\ MakerOf(d) /\ LinkOf(d) /\ CleanOf(d) BY Instances
  <2>1. LockOf(d)' BY DEF LockOf, TypeOK, HoldsObj, HoldsDst
  <2>2. MakerOf(d)'
    BY <1>0 DEF MakerOf, LinkOf, CleanOf, VxlanInv, NameInv, TypeOK
  <2>3. LinkOf(d)'
    BY <1>0 DEF LinkOf, MakerOf, CleanOf, VxlanInv, NameInv, TypeOK
  <2>4. CleanOf(d)'
    BY <1>0 DEF CleanOf, LinkOf, MakerOf, OneDel, Deleting, VxlanInv, NameInv, TypeOK
  <2> QED BY <2>1, <2>2, <2>3, <2>4
<1> QED BY <1>1, <1>2 DEF SafeInv, LockInv, MakerInv, LinkInv, CleanInv

\* The mutex keeps every other request of this sandbox away from the device.
LEMMA DeleteVxlanKeeps ==
  ASSUME IInv, NEW c \in Containers, TypeOK', DeleteVxlan(c)
  PROVE  SafeInv'
<1> USE SandboxAssumption
        DEF DeleteVxlan, Command, FailedFrom, Unlocked, repoVars, kernelVars,
            Objects, None, Outside, Unlinked, Making, Placed, Cleaning, Counting,
            Emptied, UsesObj, UsesDst
<1> TypeOK /\ OneDel /\ NameInv /\ VxlanInv BY DEF IInv, SafeInv
<1>0. LockOf(c) /\ LinkOf(c) /\ MakerOf(c) /\ CleanOf(c) BY Instances
<1>1. NameInv' /\ VxlanInv'
  BY <1>0 DEF NameInv, VxlanInv, LinkOf, MakerOf, CleanOf, TypeOK
<1>2. ASSUME NEW d \in Containers
      PROVE  LockOf(d)' /\ MakerOf(d)' /\ LinkOf(d)' /\ CleanOf(d)'
  <2> LockOf(d) /\ MakerOf(d) /\ LinkOf(d) /\ CleanOf(d) BY Instances
  <2>1. LockOf(d)' BY DEF LockOf, TypeOK, HoldsObj, HoldsDst
  <2>2. MakerOf(d)'
    BY <1>0 DEF MakerOf, LinkOf, CleanOf, VxlanInv, NameInv, TypeOK
  <2>3. LinkOf(d)'
    <3>1. CASE d = c BY <3>1, <1>0 DEF LinkOf, TypeOK
    <3>2. CASE d # c
      <4>1. pc'[d] = pc[d] BY <3>2 DEF TypeOK
      <4>2. obj[c] = registered /\ registered \in Objects /\ veth[d] \notin Objects
        BY <1>0 DEF CleanOf
      <4>3. pc[d] \notin Placed /\ pc[d] # "attached" /\ (pc[d] = "monitor" => vxlan # registered)
        BY <1>0, <3>2, <4>2 DEF LockOf, LinkOf, HoldsObj
      <4>4. pc[d] = "monitor" => vxlan' = obj[d] BY <4>2, <4>3 DEF LinkOf
      <4> QED BY <4>1, <4>2, <4>3, <4>4 DEF LinkOf
    <3> QED BY <3>1, <3>2
  <2>4. CleanOf(d)'
    BY <1>0 DEF CleanOf, LinkOf, MakerOf, OneDel, Deleting, VxlanInv, NameInv, TypeOK
  <2> QED BY <2>1, <2>2, <2>3, <2>4
<1> QED BY <1>1, <1>2 DEF SafeInv, LockInv, MakerInv, LinkInv, CleanInv

\* The object that is torn down has no links.
LEMMA TeardownKeeps ==
  ASSUME IInv, NEW c \in Containers, TypeOK', Teardown(c)
  PROVE  SafeInv'
<1> USE SandboxAssumption
        DEF Teardown, Command, FailedFrom, Unlocked, repoVars, kernelVars,
            Objects, None, Outside, Unlinked, Making, Placed, Cleaning, Counting,
            Emptied, UsesObj, UsesDst
<1> TypeOK /\ OneDel /\ NameInv /\ VxlanInv BY DEF IInv, SafeInv
<1>0. LockOf(c) /\ LinkOf(c) /\ MakerOf(c) /\ CleanOf(c) BY Instances
<1>1. NameInv' /\ VxlanInv'
  BY <1>0 DEF NameInv, VxlanInv, LinkOf, MakerOf, CleanOf, TypeOK
<1>2. ASSUME NEW d \in Containers
      PROVE  LockOf(d)' /\ MakerOf(d)' /\ LinkOf(d)' /\ CleanOf(d)'
  <2> LockOf(d) /\ MakerOf(d) /\ LinkOf(d) /\ CleanOf(d) BY Instances
  <2>1. LockOf(d)' BY DEF LockOf, TypeOK, HoldsObj, HoldsDst
  <2>2. MakerOf(d)'
    BY <1>0 DEF MakerOf, LinkOf, CleanOf, VxlanInv, NameInv, TypeOK
  <2>3. LinkOf(d)'
    BY <1>0 DEF LinkOf, MakerOf, CleanOf, VxlanInv, NameInv, TypeOK
  <2>4. CleanOf(d)'
    BY <1>0 DEF CleanOf, LinkOf, MakerOf, OneDel, Deleting, VxlanInv, NameInv, TypeOK
  <2> QED BY <2>1, <2>2, <2>3, <2>4
<1> QED BY <1>1, <1>2 DEF SafeInv, LockInv, MakerInv, LinkInv, CleanInv

\* The name is free again.
LEMMA DestroyNamespaceKeeps ==
  ASSUME IInv, NEW c \in Containers, TypeOK', DestroyNamespace(c)
  PROVE  SafeInv'
<1> USE SandboxAssumption
        DEF DestroyNamespace, Command, FailedFrom, Unlocked, repoVars, kernelVars,
            Objects, None, Outside, Unlinked, Making, Placed, Cleaning, Counting,
            Emptied, UsesObj, UsesDst
<1> TypeOK /\ OneDel /\ NameInv /\ VxlanInv BY DEF IInv, SafeInv
<1>0. LockOf(c) /\ LinkOf(c) /\ MakerOf(c) /\ CleanOf(c) BY Instances
<1>1. NameInv' /\ VxlanInv'
  BY <1>0 DEF NameInv, VxlanInv, LinkOf, MakerOf, CleanOf, TypeOK
<1>2. ASSUME NEW d \in Containers
      PROVE  LockOf(d)' /\ MakerOf(d)' /\ LinkOf(d)' /\ CleanOf(d)'
  <2> LockOf(d) /\ MakerOf(d) /\ LinkOf(d) /\ CleanOf(d) BY Instances
  <2>1. LockOf(d)' BY DEF LockOf, TypeOK, HoldsObj, HoldsDst
  <2>2. MakerOf(d)'
    BY <1>0 DEF MakerOf, LinkOf, CleanOf, VxlanInv, NameInv, TypeOK
  <2>3. LinkOf(d)'
    BY <1>0 DEF LinkOf, MakerOf, CleanOf, VxlanInv, NameInv, TypeOK
  <2>4. CleanOf(d)'
    BY <1>0 DEF CleanOf, LinkOf, MakerOf, OneDel, Deleting, VxlanInv, NameInv, TypeOK
  <2> QED BY <2>1, <2>2, <2>3, <2>4
<1> QED BY <1>1, <1>2 DEF SafeInv, LockInv, MakerInv, LinkInv, CleanInv

\* A request that fails leaves its link where it is.
LEMMA FaultKeeps ==
  ASSUME IInv, NEW c \in Containers, TypeOK', Fault(c)
  PROVE  SafeInv'
<1> USE SandboxAssumption
        DEF Fault, Command, FailedFrom, Unlocked, repoVars, kernelVars,
            Objects, None, Outside, Unlinked, Making, Placed, Cleaning, Counting,
            Emptied, UsesObj, UsesDst
<1> TypeOK /\ OneDel /\ NameInv /\ VxlanInv BY DEF IInv, SafeInv
<1>0. LockOf(c) /\ LinkOf(c) /\ MakerOf(c) /\ CleanOf(c) BY Instances
<1>1. NameInv' /\ VxlanInv'
  BY <1>0 DEF NameInv, VxlanInv, LinkOf, MakerOf, CleanOf, TypeOK
<1>2. ASSUME NEW d \in Containers
      PROVE  LockOf(d)' /\ MakerOf(d)' /\ LinkOf(d)' /\ CleanOf(d)'
  <2> LockOf(d) /\ MakerOf(d) /\ LinkOf(d) /\ CleanOf(d) BY Instances
  <2>1. LockOf(d)' BY DEF LockOf, TypeOK, HoldsObj, HoldsDst
  <2>2. MakerOf(d)'
    BY <1>0 DEF MakerOf, LinkOf, CleanOf, VxlanInv, NameInv, TypeOK
  <2>3. LinkOf(d)'
    <3>1. CASE d = c
      <4>1. pc'[c] \in {"failed", "delFailed"} /\ (monitored => monitored') BY DEF TypeOK
      <4>2. pc'[c] = "delFailed" => veth[c] # Outside
        <5>1. pc[c] \in Fallible OBVIOUS
        <5>2. pc[c] \in Adding \/ pc[c] \in {"deleteLink", "count", "deleteVxlan", "nsDestroy"}
          BY <5>1 DEF Fallible, Adding
        <5>3. pc[c] \in Adding => pc'[c] = "failed" BY DEF TypeOK
        <5> QED BY <1>0, <5>2, <5>3 DEF LinkOf
      <4> QED BY <1>0, <3>1, <4>1, <4>2 DEF LinkOf
    <3>2. CASE d # c
      <4>1. pc'[d] = pc[d] /\ (monitored => monitored') BY <3>2 DEF TypeOK
      <4> QED BY <4>1 DEF LinkOf
    <3> QED BY <3>1, <3>2
  <2>4. CleanOf(d)'
    BY <1>0 DEF CleanOf, LinkOf, MakerOf, OneDel, Deleting, VxlanInv, NameInv, TypeOK
  <2> QED BY <2>1, <2>2, <2>3, <2>4
<1> QED BY <1>1, <1>2 DEF SafeInv, LockInv, MakerInv, LinkInv, CleanInv

\* A request begins.
LEMMA AddKeeps ==
  ASSUME IInv, NEW c \in Containers, TypeOK', Add(c)
  PROVE  SafeInv'
<1> USE SandboxAssumption
        DEF Add, Command, FailedFrom, Unlocked, repoVars, kernelVars,
            Objects, None, Outside, Unlinked, Making, Placed, Cleaning, Counting,
            Emptied, UsesObj, UsesDst
<1> TypeOK /\ OneDel /\ NameInv /\ VxlanInv BY DEF IInv, SafeInv
<1>0. LockOf(c) /\ LinkOf(c) /\ MakerOf(c) /\ CleanOf(c) BY Instances
<1>1. NameInv' /\ VxlanInv'
  BY <1>0 DEF NameInv, VxlanInv, LinkOf, MakerOf, CleanOf, TypeOK
<1>2. ASSUME NEW d \in Containers
      PROVE  LockOf(d)' /\ MakerOf(d)' /\ LinkOf(d)' /\ CleanOf(d)'
  <2> LockOf(d) /\ MakerOf(d) /\ LinkOf(d) /\ CleanOf(d) BY Instances
  <2>1. LockOf(d)' BY DEF LockOf, TypeOK, HoldsObj, HoldsDst
  <2>2. MakerOf(d)'
    BY <1>0 DEF MakerOf, LinkOf, CleanOf, VxlanInv, NameInv, TypeOK
  <2>3. LinkOf(d)'
    BY <1>0 DEF LinkOf, MakerOf, CleanOf, VxlanInv, NameInv, TypeOK
  <2>4. CleanOf(d)'
    BY <1>0 DEF CleanOf, LinkOf, MakerOf, OneDel, Deleting, VxlanInv, NameInv, TypeOK
  <2> QED BY <2>1, <2>2, <2>3, <2>4
<1> QED BY <1>1, <1>2 DEF SafeInv, LockInv, MakerInv, LinkInv, CleanInv

\* The caller has one DEL in flight.
LEMMA DelKeeps ==
  ASSUME IInv, NEW c \in Containers, TypeOK', Del(c)
  PROVE  SafeInv'
<1> USE SandboxAssumption
        DEF Del, Command, FailedFrom, Unlocked, repoVars, kernelVars,
            Objects, None, Outside, Unlinked, Making, Placed, Cleaning, Counting,
            Emptied, UsesObj, UsesDst
<1> TypeOK /\ OneDel /\ NameInv /\ VxlanInv BY DEF IInv, SafeInv
<1>0. LockOf(c) /\ LinkOf(c) /\ MakerOf(c) /\ CleanOf(c) BY Instances
<1>1. NameInv' /\ VxlanInv'
  BY <1>0 DEF NameInv, VxlanInv, LinkOf, MakerOf, CleanOf, TypeOK
<1>2. ASSUME NEW d \in Containers
      PROVE  LockOf(d)' /\ MakerOf(d)' /\ LinkOf(d)' /\ CleanOf(d)'
  <2> LockOf(d) /\ MakerOf(d) /\ LinkOf(d) /\ CleanOf(d) BY Instances
  <2>1. LockOf(d)' BY DEF LockOf, TypeOK, HoldsObj, HoldsDst
  <2>2. MakerOf(d)'
    BY <1>0 DEF MakerOf, LinkOf, CleanOf, VxlanInv, NameInv, TypeOK
  <2>3. LinkOf(d)'
    BY <1>0 DEF LinkOf, MakerOf, CleanOf, VxlanInv, NameInv, TypeOK
  <2>4. CleanOf(d)'
    BY <1>0 DEF CleanOf, LinkOf, MakerOf, OneDel, Deleting, VxlanInv, NameInv, TypeOK
  <2> QED BY <2>1, <2>2, <2>3, <2>4
<1> QED BY <1>1, <1>2 DEF SafeInv, LockInv, MakerInv, LinkInv, CleanInv

-----------------------------------------------------------------------------
(* The theorems.                                                             *)

\* A sandbox is there for nobody at first.
LEMMA InitIInv == Init => IInv
<1> SUFFICES ASSUME Init PROVE IInv OBVIOUS
<1> USE SandboxAssumption DEF Init, Objects, None, Outside
<1>1. TypeOK
  <2>1. ports \in [Objects -> SUBSET (Containers \cup {"dns0", "vxlan"})] OBVIOUS
  <2>2. /\ dns \in [Objects -> {"none", "running", "killed"}]
        /\ locks \in [Objects -> Containers \cup {Nil}]
    OBVIOUS
  <2>3. /\ veth \in [Containers -> Objects \cup {None, Outside}]
        /\ obj \in [Containers -> Objects \cup {None}]
        /\ dst \in [Containers -> Objects \cup {None}]
    OBVIOUS
  <2>4. pc \in [Containers -> Resting \cup Adding \cup Deleting] BY DEF Resting
  <2>5. \A c \in Containers : /\ pc[c] \in UsesObj => obj[c] \in Objects
                              /\ pc[c] \in UsesDst => dst[c] \in Objects
    BY DEF UsesObj, UsesDst
  <2>6. created \in 0..MaxSandboxes BY DEF SandboxAssumption
  <2> QED BY <2>1, <2>2, <2>3, <2>4, <2>5, <2>6 DEF TypeOK
<1>2. BoundInv
  <2>1. InFlight(Creating) = {} BY DEF InFlight, Creating
  <2> QED BY <2>1, FS_EmptySet DEF BoundInv
<1>3. OneDel /\ LockInv BY DEF OneDel, Deleting, LockInv, LockOf, HoldsObj, HoldsDst
<1>4. NameInv /\ VxlanInv BY DEF NameInv, VxlanInv
<1>5. MakerInv /\ LinkInv /\ CleanInv
  BY DEF MakerInv, MakerOf, LinkInv, LinkOf, CleanInv, CleanOf, Unlinked, Making, Placed,
         Cleaning, Counting, Emptied
<1> QED BY <1>1, <1>2, <1>3, <1>4, <1>5 DEF IInv, SafeInv

\* With at most one DEL in flight there is at most one after any step.
LEMMA OneDelStep ==
  ASSUME TypeOK, OneDel, MaxDels <= 1, Next
  PROVE  OneDel'
<1>1. ASSUME NEW c \in Containers, Step(c) PROVE OneDel'
  <2>1. Onward(c) BY <1>1, StepOnward
  <2> QED BY <2>1 DEF Onward, OneDel, TypeOK
<1>2. ASSUME NEW c \in Containers, Add(c) PROVE OneDel'
  BY <1>2 DEF Add, OneDel, Deleting, TypeOK
<1>3. ASSUME NEW c \in Containers, Del(c) PROVE OneDel'
  <2>1. IsFiniteSet(InFlight(Deleting)) /\ Cardinality(InFlight(Deleting)) \in Nat
    BY Counted DEF InFlight
  <2>2. InFlight(Deleting) = {}
    BY <1>3, <2>1, FS_EmptySet, SandboxAssumption DEF Del, SandboxAssumption
  <2> QED BY <1>3, <2>2 DEF Del, InFlight, OneDel, TypeOK
<1> QED BY <1>1, <1>2, <1>3 DEF Next, Arrival

\* Every step keeps the invariant.
LEMMA NextIInv ==
  ASSUME IInv, MaxDels <= 1, [Next]_vars
  PROVE  IInv'
<1>1. CASE UNCHANGED vars
  BY <1>1 DEF vars, IInv, SafeInv, TypeOK, BoundInv, InFlight, OneDel, LockInv, LockOf,
              NameInv, VxlanInv, MakerInv, MakerOf, LinkInv, LinkOf, CleanInv, CleanOf
<1>2. CASE Next
  <2> TypeOK BY DEF IInv
  <2>1. TypeOK' /\ BoundInv' /\ OneDel'
    BY <1>2, TypeStep, BoundStep, OneDelStep DEF IInv
  <2>2. ASSUME NEW c \in Containers, AddStep(c) PROVE SafeInv'
    <3>1. CASE GetInto(c, "vxlanGet", "moveVxlan") \/ GetInto(c, "dnsGet", "dnsLock")
               \/ GetInto(c, "vethGet", "moveVeth")
      BY <3>1, GetIntoKeeps
    <3>2. CASE LockSandbox(c, dst[c], "dnsLock", "dnsDummy")
      <4>1. dst[c] \in Objects BY <3>2 DEF LockSandbox, TypeOK, UsesDst
      <4> QED BY <3>2, <4>1, LockSandboxKeeps
    <3>3. CASE LockSandbox(c, obj[c], "lock", "linkUp")
      <4>1. obj[c] \in Objects BY <3>3 DEF LockSandbox, TypeOK, UsesObj
      <4> QED BY <3>3, <4>1, LockSandboxKeeps
    <3> QED
      BY <2>1, <2>2, <3>1, <3>2, <3>3, SandboxExistsKeeps, CreateSandboxKeeps,
         SetupSandboxKeeps, CreateVxlanKeeps, MoveVxlanKeeps, CreateDummyKeeps,
         LaunchDNSKeeps, GetSandboxKeeps, VxlanUpKeeps, StartMonitorKeeps,
         CreateVethKeeps, MoveVethKeeps, SetupBridgeKeeps, EnslaveKeeps, RecordKeeps
      DEF AddStep
  <2>3. ASSUME NEW c \in Containers, DelStep(c) PROVE SafeInv'
    <3>1. CASE LockSandbox(c, obj[c], "cleanupLock", "count")
      <4>1. obj[c] \in Objects BY <3>1 DEF LockSandbox, TypeOK, UsesObj
      <4> QED BY <3>1, <4>1, LockSandboxKeeps
    <3> QED
      BY <2>1, <2>3, <3>1, DeleteLinkKeeps, CleanupGetKeeps, VethDeviceCountKeeps,
         DeleteVxlanKeeps, DestroyNotFoundKeeps, TeardownFailsKeeps, TeardownKeeps,
         DestroyNamespaceKeeps
      DEF DelStep
  <2>4. ASSUME NEW c \in Containers, Fault(c) \/ CreateNamespaceFails(c) PROVE SafeInv'
    BY <2>1, <2>4, FaultKeeps, CreateNamespaceFailsKeeps
  <2>5. ASSUME NEW c \in Containers, Add(c) \/ Del(c) PROVE SafeInv'
    BY <2>1, <2>5, AddKeeps, DelKeeps
  <2> QED BY <1>2, <2>1, <2>2, <2>3, <2>4, <2>5 DEF Next, Arrival, Step, IInv
<1> QED BY <1>1, <1>2

\* Whatever the bounds and however many DELs are in flight, every variable has
\* its type, no request goes on with a sandbox that it did not get, and there
\* is a number for every sandbox that Repository.Create makes.
THEOREM SandboxTypes == Spec => []TypeOK
<1>1. Init => TypeOK /\ BoundInv BY InitIInv DEF IInv
<1>2. TypeOK /\ BoundInv /\ [Next]_vars => (TypeOK /\ BoundInv)'
  <2>1. ASSUME TypeOK, BoundInv, Next PROVE (TypeOK /\ BoundInv)'
    BY <2>1, TypeStep, BoundStep
  <2>2. ASSUME TypeOK, BoundInv, UNCHANGED vars PROVE (TypeOK /\ BoundInv)'
    BY <2>2 DEF vars, TypeOK, BoundInv, InFlight
  <2> QED BY <2>1, <2>2
<1> QED BY <1>1, <1>2, PTL DEF Spec

\* The inductive invariant holds of every behaviour with one DEL at a time.
THEOREM SandboxInvariant ==
  ASSUME MaxDels <= 1
  PROVE  Spec => []IInv
<1>1. Init => IInv BY InitIInv
<1>2. IInv /\ [Next]_vars => IInv' BY NextIInv
<1> QED BY <1>1, <1>2, PTL DEF Spec

\* With one DEL at a time Teardown (sandbox/sandbox.go) never meets a sandbox
\* that has a container's link in it, whatever ADDs run at the same time and
\* whatever commands fail: CleanupSandbox counts the links of the object that
\* it got, destroys the one that has the name, and the two are the same.
THEOREM DestroyedAreEmpty ==
  ASSUME MaxDels <= 1
  PROVE  Spec => []DestroyedSandboxIsEmpty
<1>1. IInv => DestroyedSandboxIsEmpty
  BY SandboxAssumption
  DEF IInv, SafeInv, TypeOK, LinkInv, LinkOf, DestroyedSandboxIsEmpty, Objects
<1> QED BY <1>1, SandboxInvariant, PTL

\* With one DEL at a time a container whose ADD succeeded stays connected, to
\* the bridge and the vxlan device of the sandbox that has the name, until its
\* own DEL begins.
THEOREM AttachedStayConnected ==
  ASSUME MaxDels <= 1
  PROVE  Spec => []AttachedIsConnected
<1>1. IInv => AttachedIsConnected
  BY SandboxAssumption
  DEF IInv, SafeInv, NameInv, LinkInv, LinkOf, AttachedIsConnected, Objects, None
<1> QED BY <1>1, SandboxInvariant, PTL
=============================================================================
