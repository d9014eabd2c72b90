------------------------ MODULE SandboxCleanupProofs ------------------------
(***************************************************************************)
(* That the last container out leaves nothing of the sandbox behind, for   *)
(* any number of containers and objects, if there is at most one DEL in    *)
(* flight and no command fails for a reason of its own.                    *)
(*                                                                         *)
(* The argument: a sandbox that has the name always has somebody to look   *)
(* after it (CaredFor). That is the request that builds it, which never    *)
(* fails, because it is alone with it (BuilderInv); then whoever is about  *)
(* to put a link into it, or has one in it; and the last DEL, which finds  *)
(* no links and takes it down.                                             *)
(***************************************************************************)
EXTENDS SandboxProofs

\* What holds in addition as long as no command failed for a reason of its
\* own. A builder is a maker, or has yet to launch the DNS server.
Building == Making \cup {"dnsGet", "dnsLock", "dnsDummy", "dnsLaunch"}

\* A container whose ADD failed on a bridge without dns0: nothing takes its
\* link away again, and the sandbox stays.
Stuck == \E x \in Containers : pc[x] = "failed" /\ veth[x] = registered

\* A container that got over the bridge.
Passed(c) == \/ pc[c] \in {"enslave", "record", "cleanupGet"} \cup Counting
             \/ pc[c] \in {"attached", "delFailed", "alreadyDestroyed", "deleteLink"}
                /\ veth[c] \in Objects

\* The builder is alone with its sandbox and makes dns0 first. No DEL has
\* counted the links away, ...
AloneOf(c) ==
  pc[c] \in Building =>
    /\ registered \in Objects
    /\ \A d \in Containers : (pc[d] \in Building => d = c) /\ pc[d] \notin Emptied
    /\ pc[c] # "dnsLaunch" => registered \notin dns0

\* ... because a container gets over a bridge without dns0 only if another one
\* is stuck there, ...
StuckOf(c) ==
  pc[c] \in Building =>
    (registered \in bridges \/ (\E d \in Containers : Passed(d)) => Stuck)

\* ... and nothing that it has made is taken from it.
HasOf(c) ==
  /\ pc[c] \in {"vxlanGet", "moveVxlan"} => vxlan = Outside
  /\ pc[c] \in {"dnsGet", "dnsLock", "dnsDummy", "dnsLaunch"} => vxlan = registered
  /\ pc[c] \in {"dnsLock", "dnsDummy", "dnsLaunch"} => dst[c] = registered

BuilderOf(c) == AloneOf(c) /\ StuckOf(c) /\ HasOf(c)
BuilderInv == \A c \in Containers : BuilderOf(c)

\* What is there belongs to the sandbox that has the name.
OwnedInv ==
  /\ nsFile = registered
  /\ dns0 \cup bridges \subseteq 1..created
  /\ vxlan = Outside => \E c \in Containers : pc[c] \in {"vxlanGet", "moveVxlan"}
  /\ monitored => registered # None
  /\ \A i \in Objects : dns[i] = "running" => i = registered
  /\ \A d \in Containers :
       pc[d] = "nsDestroy" => ~monitored /\ dns[registered] # "running"

\* Somebody looks after the sandbox that has the name: it has a link, or a
\* request will put one into it, or one is cleaning up.
Heading == {"lock", "linkUp", "monitor", "createVeth", "vethGet", "moveVeth"}
Caring(c) == \/ pc[c] \in Building \cup Cleaning \cup {"get", "cleanupGet"}
             \/ pc[c] \in Heading /\ obj[c] = registered
             \/ veth[c] \in Objects

CaredFor ==
  /\ registered # None => \E c \in Containers : Caring(c)
  /\ registered # None /\ vxlan # registered =>
       \E c \in Containers : pc[c] \in Making \cup {"destroy", "nsDestroy"}

TidyInv == BuilderInv /\ OwnedInv /\ CaredFor

-----------------------------------------------------------------------------
(* The steps, without faults.                                                *)

\* Nobody is affected by a look at the name.
LEMMA SandboxExistsTidy ==
  ASSUME IInv, IInv', TidyInv, NEW c \in Containers, SandboxExists(c)
  PROVE  TidyInv'
<1> USE SandboxAssumption
        DEF SandboxExists, Command, FailedFrom, Unlocked, repoVars, kernelVars,
            Objects, None, Outside, Building, Making, Placed, Cleaning, Counting,
            Emptied, UsesObj, UsesDst, Unlinked
<1> TypeOK /\ NameInv /\ VxlanInv /\ OwnedInv /\ CaredFor BY DEF IInv, SafeInv, TidyInv
<1> LockOf(c) /\ LinkOf(c) /\ MakerOf(c) /\ CleanOf(c) /\ BuilderOf(c)
  BY Instances DEF TidyInv, BuilderInv
<1> TypeOK' /\ NameInv' /\ VxlanInv' /\ LinkOf(c)' /\ MakerOf(c)' /\ CleanOf(c)'
  BY DEF IInv, SafeInv, LinkInv, MakerInv, CleanInv
<1>0. Stuck /\ registered' = registered => Stuck' BY DEF Stuck, TypeOK, Adding
<1>1. OwnedInv'
  BY DEF OwnedInv, TypeOK, NameInv, VxlanInv, LinkOf, MakerOf, CleanOf, BuilderOf,
         AloneOf, StuckOf, HasOf
<1>2. ASSUME NEW d \in Containers PROVE BuilderOf(d)'
  <2> LockOf(d) /\ MakerOf(d) /\ LinkOf(d) /\ CleanOf(d) /\ BuilderOf(d)
    BY Instances DEF TidyInv, BuilderInv
  <2>1. AloneOf(d)'
    BY DEF BuilderOf, AloneOf, StuckOf, HasOf, LockOf, MakerOf, LinkOf, CleanOf,
           TypeOK
  <2>2. StuckOf(d)'
    BY <1>0 DEF BuilderOf, AloneOf, StuckOf, HasOf, Passed, LockOf, MakerOf, LinkOf,
                CleanOf, TypeOK
  <2>3. HasOf(d)'
    BY DEF BuilderOf, AloneOf, HasOf, LockOf, MakerOf, LinkOf, CleanOf, TypeOK
  <2> QED BY <2>1, <2>2, <2>3 DEF BuilderOf
<1>3. CaredFor'
  BY DEF CaredFor, Caring, Heading, TypeOK, NameInv, VxlanInv, LinkOf, MakerOf,
         CleanOf, BuilderOf, AloneOf, StuckOf, HasOf
<1> QED BY <1>1, <1>2, <1>3 DEF TidyInv, BuilderInv

\* The builder appears, and nobody has a link in what it builds.
LEMMA CreateSandboxTidy ==
  ASSUME IInv, IInv', TidyInv, NEW c \in Containers, CreateSandbox(c)
  PROVE  TidyInv'
<1> USE SandboxAssumption
        DEF CreateSandbox, Command, FailedFrom, Unlocked, repoVars, kernelVars,
            Objects, None, Outside, Building, Making, Placed, Cleaning, Counting,
            Emptied, UsesObj, UsesDst, Unlinked
<1> TypeOK /\ NameInv /\ VxlanInv /\ OwnedInv /\ CaredFor BY DEF IInv, SafeInv, TidyInv
<1> LockOf(c) /\ LinkOf(c) /\ MakerOf(c) /\ CleanOf(c) /\ BuilderOf(c)
  BY Instances DEF TidyInv, BuilderInv
<1> TypeOK' /\ NameInv' /\ VxlanInv' /\ LinkOf(c)' /\ MakerOf(c)' /\ CleanOf(c)'
  BY DEF IInv, SafeInv, LinkInv, MakerInv, CleanInv
<1>0. Stuck /\ registered' = registered => Stuck' BY DEF Stuck, TypeOK, Adding
<1>4. registered = None =>
        \A x \in Containers : /\ pc[x] \notin Building \cup Cleaning \cup Placed \cup {"cleanupGet"}
                             /\ veth[x] \notin Objects
  BY Instances DEF TidyInv, BuilderInv, BuilderOf, AloneOf, CleanOf, LinkOf, TypeOK
<1>1. OwnedInv'
  BY DEF OwnedInv, TypeOK, NameInv, VxlanInv, LinkOf, MakerOf, CleanOf, BuilderOf,
         AloneOf, StuckOf, HasOf
<1>2. ASSUME NEW d \in Containers PROVE BuilderOf(d)'
  <2> LockOf(d) /\ MakerOf(d) /\ LinkOf(d) /\ CleanOf(d) /\ BuilderOf(d)
    BY Instances DEF TidyInv, BuilderInv
  <2>1. AloneOf(d)'
    <3>1. CASE registered = None BY <1>4, <3>1 DEF AloneOf, OwnedInv, NameInv, TypeOK
    <3>2. CASE registered # None BY <3>2 DEF AloneOf, BuilderOf, TypeOK, Adding
    <3> QED BY <3>1, <3>2
  <2>2. StuckOf(d)'
    <3>1. CASE registered = None
      <4>1. registered' = created + 1 /\ registered' \notin bridges
        BY <3>1 DEF OwnedInv, TypeOK
      <4>2. \A x \in Containers : ~Passed(x)'
        BY <1>4, <3>1 DEF Passed, TypeOK, OwnedInv
      <4> QED BY <4>1, <4>2 DEF StuckOf
    <3>2. CASE registered # None
      BY <1>0, <3>2 DEF StuckOf, BuilderOf, Passed, TypeOK, Adding
    <3> QED BY <3>1, <3>2
  <2>3. HasOf(d)'
    BY DEF BuilderOf, AloneOf, HasOf, LockOf, MakerOf, LinkOf, CleanOf, TypeOK
  <2> QED BY <2>1, <2>2, <2>3 DEF BuilderOf
<1>3. CaredFor'
  <2>1. CASE registered = None
    <3>1. pc'[c] = "setup" BY <2>1 DEF OwnedInv, TypeOK
    <3> QED BY <3>1 DEF CaredFor, Caring
  <2>2. CASE registered # None
    BY <2>2 DEF CaredFor, Caring, Heading, TypeOK, OwnedInv, Adding
  <2> QED BY <2>1, <2>2
<1> QED BY <1>1, <1>2, <1>3 DEF TidyInv, BuilderInv

\* The builder goes on.
LEMMA SetupSandboxTidy ==
  ASSUME IInv, IInv', TidyInv, NEW c \in Containers, SetupSandbox(c)
  PROVE  TidyInv'
<1> USE SandboxAssumption
        DEF SetupSandbox, Command, FailedFrom, Unlocked, repoVars, kernelVars,
            Objects, None, Outside, Building, Making, Placed, Cleaning, Counting,
            Emptied, UsesObj, UsesDst, Unlinked
<1> TypeOK /\ NameInv /\ VxlanInv /\ OwnedInv /\ CaredFor BY DEF IInv, SafeInv, TidyInv
<1> LockOf(c) /\ LinkOf(c) /\ MakerOf(c) /\ CleanOf(c) /\ BuilderOf(c)
  BY Instances DEF TidyInv, BuilderInv
<1> TypeOK' /\ NameInv' /\ VxlanInv' /\ LinkOf(c)' /\ MakerOf(c)' /\ CleanOf(c)'
  BY DEF IInv, SafeInv, LinkInv, MakerInv, CleanInv
<1>0. Stuck /\ registered' = registered => Stuck' BY DEF Stuck, TypeOK, Adding
<1>1. OwnedInv'
  BY DEF OwnedInv, TypeOK, NameInv, VxlanInv, LinkOf, MakerOf, CleanOf, BuilderOf,
         AloneOf, StuckOf, HasOf
<1>2. ASSUME NEW d \in Containers PROVE BuilderOf(d)'
  <2> LockOf(d) /\ MakerOf(d) /\ LinkOf(d) /\ CleanOf(d) /\ BuilderOf(d)
    BY Instances DEF TidyInv, BuilderInv
  <2>1. AloneOf(d)'
    BY DEF BuilderOf, AloneOf, StuckOf, HasOf, LockOf, MakerOf, LinkOf, CleanOf,
           TypeOK
  <2>2. StuckOf(d)'
    BY <1>0 DEF BuilderOf, AloneOf, StuckOf, HasOf, Passed, LockOf, MakerOf, LinkOf,
                CleanOf, TypeOK
  <2>3. HasOf(d)'
    BY DEF BuilderOf, AloneOf, HasOf, LockOf, MakerOf, LinkOf, CleanOf, TypeOK
  <2> QED BY <2>1, <2>2, <2>3 DEF BuilderOf
<1>3. CaredFor'
  BY DEF CaredFor, Caring, Heading, TypeOK, NameInv, VxlanInv, LinkOf, MakerOf,
         CleanOf, BuilderOf, AloneOf, StuckOf, HasOf
<1> QED BY <1>1, <1>2, <1>3 DEF TidyInv, BuilderInv

\* The device is nowhere yet: the builder cannot fail.
LEMMA CreateVxlanTidy ==
  ASSUME IInv, IInv', TidyInv, NEW c \in Containers, CreateVxlan(c)
  PROVE  TidyInv'
<1> USE SandboxAssumption
        DEF CreateVxlan, Command, FailedFrom, Unlocked, repoVars, kernelVars,
            Objects, None, Outside, Building, Making, Placed, Cleaning, Counting,
            Emptied, UsesObj, UsesDst, Unlinked
<1> TypeOK /\ NameInv /\ VxlanInv /\ OwnedInv /\ CaredFor BY DEF IInv, SafeInv, TidyInv
<1> LockOf(c) /\ LinkOf(c) /\ MakerOf(c) /\ CleanOf(c) /\ BuilderOf(c)
  BY Instances DEF TidyInv, BuilderInv
<1> TypeOK' /\ NameInv' /\ VxlanInv' /\ LinkOf(c)' /\ MakerOf(c)' /\ CleanOf(c)'
  BY DEF IInv, SafeInv, LinkInv, MakerInv, CleanInv
<1>0. Stuck /\ registered' = registered => Stuck' BY DEF Stuck, TypeOK, Adding
<1>1. OwnedInv'
  BY DEF OwnedInv, TypeOK, NameInv, VxlanInv, LinkOf, MakerOf, CleanOf, BuilderOf,
         AloneOf, StuckOf, HasOf
<1>2. ASSUME NEW d \in Containers PROVE BuilderOf(d)'
  <2> LockOf(d) /\ MakerOf(d) /\ LinkOf(d) /\ CleanOf(d) /\ BuilderOf(d)
    BY Instances DEF TidyInv, BuilderInv
  <2>1. AloneOf(d)'
    BY DEF BuilderOf, AloneOf, StuckOf, HasOf, LockOf, MakerOf, LinkOf, CleanOf,
           TypeOK
  <2>2. StuckOf(d)'
    BY <1>0 DEF BuilderOf, AloneOf, StuckOf, HasOf, Passed, LockOf, MakerOf, LinkOf,
                CleanOf, TypeOK
  <2>3. HasOf(d)'
    BY DEF BuilderOf, AloneOf, HasOf, LockOf, MakerOf, LinkOf, CleanOf, TypeOK
  <2> QED BY <2>1, <2>2, <2>3 DEF BuilderOf
<1>3. CaredFor'
  <2>1. vxlan = None BY DEF MakerOf, OwnedInv, TypeOK
  <2>2. pc'[c] = "vxlanGet" BY <2>1 DEF TypeOK
  <2> QED BY <2>2 DEF CaredFor, Caring
<1> QED BY <1>1, <1>2, <1>3 DEF TidyInv, BuilderInv

\* The builder finds the sandbox that it made.
LEMMA VxlanGetTidy ==
  ASSUME IInv, IInv', TidyInv, NEW c \in Containers, GetInto(c, "vxlanGet", "moveVxlan")
  PROVE  TidyInv'
<1> USE SandboxAssumption
        DEF GetInto, Command, FailedFrom, Unlocked, repoVars, kernelVars,
            Objects, None, Outside, Building, Making, Placed, Cleaning, Counting,
            Emptied, UsesObj, UsesDst, Unlinked
<1> TypeOK /\ NameInv /\ VxlanInv /\ OwnedInv /\ CaredFor BY DEF IInv, SafeInv, TidyInv
<1> LockOf(c) /\ LinkOf(c) /\ MakerOf(c) /\ CleanOf(c) /\ BuilderOf(c)
  BY Instances DEF TidyInv, BuilderInv
<1> TypeOK' /\ NameInv' /\ VxlanInv' /\ LinkOf(c)' /\ MakerOf(c)' /\ CleanOf(c)'
  BY DEF IInv, SafeInv, LinkInv, MakerInv, CleanInv
<1>0. Stuck /\ registered' = registered => Stuck' BY DEF Stuck, TypeOK, Adding
<1>1. OwnedInv'
  BY DEF OwnedInv, TypeOK, NameInv, VxlanInv, LinkOf, MakerOf, CleanOf, BuilderOf,
         AloneOf, StuckOf, HasOf
<1>2. ASSUME NEW d \in Containers PROVE BuilderOf(d)'
  <2> LockOf(d) /\ MakerOf(d) /\ LinkOf(d) /\ CleanOf(d) /\ BuilderOf(d)
    BY Instances DEF TidyInv, BuilderInv
  <2>1. AloneOf(d)'
    BY DEF BuilderOf, AloneOf, StuckOf, HasOf, LockOf, MakerOf, LinkOf, CleanOf,
           TypeOK
  <2>2. StuckOf(d)'
    BY <1>0 DEF BuilderOf, AloneOf, StuckOf, HasOf, Passed, LockOf, MakerOf, LinkOf,
                CleanOf, TypeOK
  <2>3. HasOf(d)'
    BY DEF BuilderOf, AloneOf, HasOf, LockOf, MakerOf, LinkOf, CleanOf, TypeOK
  <2> QED BY <2>1, <2>2, <2>3 DEF BuilderOf
<1>3. CaredFor'
  BY DEF CaredFor, Caring, Heading, TypeOK, NameInv, VxlanInv, LinkOf, MakerOf,
         CleanOf, BuilderOf, AloneOf, StuckOf, HasOf
<1> QED BY <1>1, <1>2, <1>3 DEF TidyInv, BuilderInv

\* The device is where the builder left it.
LEMMA MoveVxlanTidy ==
  ASSUME IInv, IInv', TidyInv, NEW c \in Containers, MoveVxlan(c)
  PROVE  TidyInv'
<1> USE SandboxAssumption
        DEF MoveVxlan, Command, FailedFrom, Unlocked, repoVars, kernelVars,
            Objects, None, Outside, Building, Making, Placed, Cleaning, Counting,
            Emptied, UsesObj, UsesDst, Unlinked
<1> TypeOK /\ NameInv /\ VxlanInv /\ OwnedInv /\ CaredFor BY DEF IInv, SafeInv, TidyInv
<1> LockOf(c) /\ LinkOf(c) /\ MakerOf(c) /\ CleanOf(c) /\ BuilderOf(c)
  BY Instances DEF TidyInv, BuilderInv
<1> TypeOK' /\ NameInv' /\ VxlanInv' /\ LinkOf(c)' /\ MakerOf(c)' /\ CleanOf(c)'
  BY DEF IInv, SafeInv, LinkInv, MakerInv, CleanInv
<1>0. Stuck /\ registered' = registered => Stuck' BY DEF Stuck, TypeOK, Adding
<1>1. OwnedInv'
  BY DEF OwnedInv, TypeOK, NameInv, VxlanInv, LinkOf, MakerOf, CleanOf, BuilderOf,
         AloneOf, StuckOf, HasOf
<1>2. ASSUME NEW d \in Containers PROVE BuilderOf(d)'
  <2> LockOf(d) /\ MakerOf(d) /\ LinkOf(d) /\ CleanOf(d) /\ BuilderOf(d)
    BY Instances DEF TidyInv, BuilderInv
  <2>1. AloneOf(d)'
    BY DEF BuilderOf, AloneOf, StuckOf, HasOf, LockOf, MakerOf, LinkOf, CleanOf,
           TypeOK
  <2>2. StuckOf(d)'
    BY <1>0 DEF BuilderOf, AloneOf, StuckOf, HasOf, Passed, LockOf, MakerOf, LinkOf,
                CleanOf, TypeOK
  <2>3. HasOf(d)'
    BY DEF BuilderOf, AloneOf, HasOf, LockOf, MakerOf, LinkOf, CleanOf, TypeOK
  <2> QED BY <2>1, <2>2, <2>3 DEF BuilderOf
<1>3. CaredFor'
  BY DEF CaredFor, Caring, Heading, TypeOK, NameInv, VxlanInv, LinkOf, MakerOf,
         CleanOf, BuilderOf, AloneOf, StuckOf, HasOf
<1> QED BY <1>1, <1>2, <1>3 DEF TidyInv, BuilderInv

\* The builder finds the sandbox again.
LEMMA DNSGetTidy ==
  ASSUME IInv, IInv', TidyInv, NEW c \in Containers, GetInto(c, "dnsGet", "dnsLock")
  PROVE  TidyInv'
<1> USE SandboxAssumption
        DEF GetInto, Command, FailedFrom, Unlocked, repoVars, kernelVars,
            Objects, None, Outside, Building, Making, Placed, Cleaning, Counting,
            Emptied, UsesObj, UsesDst, Unlinked
<1> TypeOK /\ NameInv /\ VxlanInv /\ OwnedInv /\ CaredFor BY DEF IInv, SafeInv, TidyInv
<1> LockOf(c) /\ LinkOf(c) /\ MakerOf(c) /\ CleanOf(c) /\ BuilderOf(c)
  BY Instances DEF TidyInv, BuilderInv
<1> TypeOK' /\ NameInv' /\ VxlanInv' /\ LinkOf(c)' /\ MakerOf(c)' /\ CleanOf(c)'
  BY DEF IInv, SafeInv, LinkInv, MakerInv, CleanInv
<1>0. Stuck /\ registered' = registered => Stuck' BY DEF Stuck, TypeOK, Adding
<1>1. OwnedInv'
  BY DEF OwnedInv, TypeOK, NameInv, VxlanInv, LinkOf, MakerOf, CleanOf, BuilderOf,
         AloneOf, StuckOf, HasOf
<1>2. ASSUME NEW d \in Containers PROVE BuilderOf(d)'
  <2> LockOf(d) /\ MakerOf(d) /\ LinkOf(d) /\ CleanOf(d) /\ BuilderOf(d)
    BY Instances DEF TidyInv, BuilderInv
  <2>1. AloneOf(d)'
    BY DEF BuilderOf, AloneOf, StuckOf, HasOf, LockOf, MakerOf, LinkOf, CleanOf,
           TypeOK
  <2>2. StuckOf(d)'
    BY <1>0 DEF BuilderOf, AloneOf, StuckOf, HasOf, Passed, LockOf, MakerOf, LinkOf,
                CleanOf, TypeOK
  <2>3. HasOf(d)'
    BY DEF BuilderOf, AloneOf, HasOf, LockOf, MakerOf, LinkOf, CleanOf, TypeOK
  <2> QED BY <2>1, <2>2, <2>3 DEF BuilderOf
<1>3. CaredFor'
  BY DEF CaredFor, Caring, Heading, TypeOK, NameInv, VxlanInv, LinkOf, MakerOf,
         CleanOf, BuilderOf, AloneOf, StuckOf, HasOf
<1> QED BY <1>1, <1>2, <1>3 DEF TidyInv, BuilderInv

\* The builder waits for the mutex, and gets on.
LEMMA DNSLockTidy ==
  ASSUME IInv, IInv', TidyInv, NEW c \in Containers, LockSandbox(c, dst[c], "dnsLock", "dnsDummy")
  PROVE  TidyInv'
<1> USE SandboxAssumption
        DEF LockSandbox, Command, FailedFrom, Unlocked, repoVars, kernelVars,
            Objects, None, Outside, Building, Making, Placed, Cleaning, Counting,
            Emptied, UsesObj, UsesDst, Unlinked
<1> TypeOK /\ NameInv /\ VxlanInv /\ OwnedInv /\ CaredFor BY DEF IInv, SafeInv, TidyInv
<1> LockOf(c) /\ LinkOf(c) /\ MakerOf(c) /\ CleanOf(c) /\ BuilderOf(c)
  BY Instances DEF TidyInv, BuilderInv
<1> TypeOK' /\ NameInv' /\ VxlanInv' /\ LinkOf(c)' /\ MakerOf(c)' /\ CleanOf(c)'
  BY DEF IInv, SafeInv, LinkInv, MakerInv, CleanInv
<1>0. Stuck /\ registered' = registered => Stuck' BY DEF Stuck, TypeOK, Adding
<1>1. OwnedInv'
  BY DEF OwnedInv, TypeOK, NameInv, VxlanInv, LinkOf, MakerOf, CleanOf, BuilderOf,
         AloneOf, StuckOf, HasOf
<1>2. ASSUME NEW d \in Containers PROVE BuilderOf(d)'
  <2> LockOf(d) /\ MakerOf(d) /\ LinkOf(d) /\ CleanOf(d) /\ BuilderOf(d)
    BY Instances DEF TidyInv, BuilderInv
  <2>1. AloneOf(d)'
    BY DEF BuilderOf, AloneOf, StuckOf, HasOf, LockOf, MakerOf, LinkOf, CleanOf,
           TypeOK
  <2>2. StuckOf(d)'
    BY <1>0 DEF BuilderOf, AloneOf, StuckOf, HasOf, Passed, LockOf, MakerOf, LinkOf,
                CleanOf, TypeOK
  <2>3. HasOf(d)'
    BY DEF BuilderOf, AloneOf, HasOf, LockOf, MakerOf, LinkOf, CleanOf, TypeOK
  <2> QED BY <2>1, <2>2, <2>3 DEF BuilderOf
<1>3. CaredFor'
  BY DEF CaredFor, Caring, Heading, TypeOK, NameInv, VxlanInv, LinkOf, MakerOf,
         CleanOf, BuilderOf, AloneOf, StuckOf, HasOf
<1> QED BY <1>1, <1>2, <1>3 DEF TidyInv, BuilderInv

\* The builder makes dns0 for the first time.
LEMMA CreateDummyTidy ==
  ASSUME IInv, IInv', TidyInv, NEW c \in Containers, CreateDummy(c)
  PROVE  TidyInv'
<1> USE SandboxAssumption
        DEF CreateDummy, Command, FailedFrom, Unlocked, repoVars, kernelVars,
            Objects, None, Outside, Building, Making, Placed, Cleaning, Counting,
            Emptied, UsesObj, UsesDst, Unlinked
<1> TypeOK /\ NameInv /\ VxlanInv /\ OwnedInv /\ CaredFor BY DEF IInv, SafeInv, TidyInv
<1> LockOf(c) /\ LinkOf(c) /\ MakerOf(c) /\ CleanOf(c) /\ BuilderOf(c)
  BY Instances DEF TidyInv, BuilderInv
<1> TypeOK' /\ NameInv' /\ VxlanInv' /\ LinkOf(c)' /\ MakerOf(c)' /\ CleanOf(c)'
  BY DEF IInv, SafeInv, LinkInv, MakerInv, CleanInv
<1>0. Stuck /\ registered' = registered => Stuck' BY DEF Stuck, TypeOK, Adding
<1>1. OwnedInv'
  <2>1. dst[c] = registered /\ registered \in 1..created
    BY DEF BuilderOf, HasOf, NameInv, TypeOK
  <2>2. (dns0 \cup bridges \subseteq 1..created)' BY <2>1 DEF OwnedInv
  <2> QED BY <2>2 DEF OwnedInv, TypeOK, Adding
<1>2. ASSUME NEW d \in Containers PROVE BuilderOf(d)'
  <2> LockOf(d) /\ MakerOf(d) /\ LinkOf(d) /\ CleanOf(d) /\ BuilderOf(d)
    BY Instances DEF TidyInv, BuilderInv
  <2>1. AloneOf(d)'
    BY DEF BuilderOf, AloneOf, StuckOf, HasOf, LockOf, MakerOf, LinkOf, CleanOf,
           TypeOK
  <2>2. StuckOf(d)'
    BY <1>0 DEF BuilderOf, AloneOf, StuckOf, HasOf, Passed, LockOf, MakerOf, LinkOf,
                CleanOf, TypeOK
  <2>3. HasOf(d)'
    BY DEF BuilderOf, AloneOf, HasOf, LockOf, MakerOf, LinkOf, CleanOf, TypeOK
  <2> QED BY <2>1, <2>2, <2>3 DEF BuilderOf
<1>3. CaredFor'
  BY DEF CaredFor, Caring, Heading, TypeOK, NameInv, VxlanInv, LinkOf, MakerOf,
         CleanOf, BuilderOf, AloneOf, StuckOf, HasOf
<1> QED BY <1>1, <1>2, <1>3 DEF TidyInv, BuilderInv

\* The builder is done; it will come back for the sandbox with "get".
LEMMA LaunchDNSTidy ==
  ASSUME IInv, IInv', TidyInv, NEW c \in Containers, LaunchDNS(c)
  PROVE  TidyInv'
<1> USE SandboxAssumption
        DEF LaunchDNS, Command, FailedFrom, Unlocked, repoVars, kernelVars,
            Objects, None, Outside, Building, Making, Placed, Cleaning, Counting,
            Emptied, UsesObj, UsesDst, Unlinked
<1> TypeOK /\ NameInv /\ VxlanInv /\ OwnedInv /\ CaredFor BY DEF IInv, SafeInv, TidyInv
<1> LockOf(c) /\ LinkOf(c) /\ MakerOf(c) /\ CleanOf(c) /\ BuilderOf(c)
  BY Instances DEF TidyInv, BuilderInv
<1> TypeOK' /\ NameInv' /\ VxlanInv' /\ LinkOf(c)' /\ MakerOf(c)' /\ CleanOf(c)'
  BY DEF IInv, SafeInv, LinkInv, MakerInv, CleanInv
<1>0. Stuck /\ registered' = registered => Stuck' BY DEF Stuck, TypeOK, Adding
<1>1. OwnedInv'
  BY DEF OwnedInv, TypeOK, NameInv, VxlanInv, LinkOf, MakerOf, CleanOf, BuilderOf,
         AloneOf, StuckOf, HasOf
<1>2. ASSUME NEW d \in Containers PROVE BuilderOf(d)'
  <2> LockOf(d) /\ MakerOf(d) /\ LinkOf(d) /\ CleanOf(d) /\ BuilderOf(d)
    BY Instances DEF TidyInv, BuilderInv
  <2>1. AloneOf(d)'
    BY DEF BuilderOf, AloneOf, StuckOf, HasOf, LockOf, MakerOf, LinkOf, CleanOf,
           TypeOK
  <2>2. StuckOf(d)'
    BY <1>0 DEF BuilderOf, AloneOf, StuckOf, HasOf, Passed, LockOf, MakerOf, LinkOf,
                CleanOf, TypeOK
  <2>3. HasOf(d)'
    BY DEF BuilderOf, AloneOf, HasOf, LockOf, MakerOf, LinkOf, CleanOf, TypeOK
  <2> QED BY <2>1, <2>2, <2>3 DEF BuilderOf
<1>3. CaredFor'
  BY DEF CaredFor, Caring, Heading, TypeOK, NameInv, VxlanInv, LinkOf, MakerOf,
         CleanOf, BuilderOf, AloneOf, StuckOf, HasOf
<1> QED BY <1>1, <1>2, <1>3 DEF TidyInv, BuilderInv

\* There is a sandbox, for the request itself was looking after it.
LEMMA GetSandboxTidy ==
  ASSUME IInv, IInv', TidyInv, NEW c \in Containers, GetSandbox(c)
  PROVE  TidyInv'
<1> USE SandboxAssumption
        DEF GetSandbox, Command, FailedFrom, Unlocked, repoVars, kernelVars,
            Objects, None, Outside, Building, Making, Placed, Cleaning, Counting,
            Emptied, UsesObj, UsesDst, Unlinked
<1> TypeOK /\ NameInv /\ VxlanInv /\ OwnedInv /\ CaredFor BY DEF IInv, SafeInv, TidyInv
<1> LockOf(c) /\ LinkOf(c) /\ MakerOf(c) /\ CleanOf(c) /\ BuilderOf(c)
  BY Instances DEF TidyInv, BuilderInv
<1> TypeOK' /\ NameInv' /\ VxlanInv' /\ LinkOf(c)' /\ MakerOf(c)' /\ CleanOf(c)'
  BY DEF IInv, SafeInv, LinkInv, MakerInv, CleanInv
<1>0. Stuck /\ registered' = registered => Stuck' BY DEF Stuck, TypeOK, Adding
<1>1. OwnedInv'
  BY DEF OwnedInv, TypeOK, NameInv, VxlanInv, LinkOf, MakerOf, CleanOf, BuilderOf,
         AloneOf, StuckOf, HasOf
<1>2. ASSUME NEW d \in Containers PROVE BuilderOf(d)'
  <2> LockOf(d) /\ MakerOf(d) /\ LinkOf(d) /\ CleanOf(d) /\ BuilderOf(d)
    BY Instances DEF TidyInv, BuilderInv
  <2>1. AloneOf(d)'
    BY DEF BuilderOf, AloneOf, StuckOf, HasOf, LockOf, MakerOf, LinkOf, CleanOf,
           TypeOK
  <2>2. StuckOf(d)'
    BY <1>0 DEF BuilderOf, AloneOf, StuckOf, HasOf, Passed, LockOf, MakerOf, LinkOf,
                CleanOf, TypeOK
  <2>3. HasOf(d)'
    BY DEF BuilderOf, AloneOf, HasOf, LockOf, MakerOf, LinkOf, CleanOf, TypeOK
  <2> QED BY <2>1, <2>2, <2>3 DEF BuilderOf
<1>3. CaredFor'
  BY DEF CaredFor, Caring, Heading, TypeOK, NameInv, VxlanInv, LinkOf, MakerOf,
         CleanOf, BuilderOf, AloneOf, StuckOf, HasOf
<1> QED BY <1>1, <1>2, <1>3 DEF TidyInv, BuilderInv

\* The mutex of a sandbox, which may not be the one that has the name.
LEMMA LockTidy ==
  ASSUME IInv, IInv', TidyInv, NEW c \in Containers, LockSandbox(c, obj[c], "lock", "linkUp")
  PROVE  TidyInv'
<1> USE SandboxAssumption
        DEF LockSandbox, Command, FailedFrom, Unlocked, repoVars, kernelVars,
            Objects, None, Outside, Building, Making, Placed, Cleaning, Counting,
            Emptied, UsesObj, UsesDst, Unlinked
<1> TypeOK /\ NameInv /\ VxlanInv /\ OwnedInv /\ CaredFor BY DEF IInv, SafeInv, TidyInv
<1> LockOf(c) /\ LinkOf(c) /\ MakerOf(c) /\ CleanOf(c) /\ BuilderOf(c)
  BY Instances DEF TidyInv, BuilderInv
<1> TypeOK' /\ NameInv' /\ VxlanInv' /\ LinkOf(c)' /\ MakerOf(c)' /\ CleanOf(c)'
  BY DEF IInv, SafeInv, LinkInv, MakerInv, CleanInv
<1>0. Stuck /\ registered' = registered => Stuck' BY DEF Stuck, TypeOK, Adding
<1>1. OwnedInv'
  BY DEF OwnedInv, TypeOK, NameInv, VxlanInv, LinkOf, MakerOf, CleanOf, BuilderOf,
         AloneOf, StuckOf, HasOf
<1>2. ASSUME NEW d \in Containers PROVE BuilderOf(d)'
  <2> LockOf(d) /\ MakerOf(d) /\ LinkOf(d) /\ CleanOf(d) /\ BuilderOf(d)
    BY Instances DEF TidyInv, BuilderInv
  <2>1. AloneOf(d)'
    BY DEF BuilderOf, AloneOf, StuckOf, HasOf, LockOf, MakerOf, LinkOf, CleanOf,
           TypeOK
  <2>2. StuckOf(d)'
    BY <1>0 DEF BuilderOf, AloneOf, StuckOf, HasOf, Passed, LockOf, MakerOf, LinkOf,
                CleanOf, TypeOK
  <2>3. HasOf(d)'
    BY DEF BuilderOf, AloneOf, HasOf, LockOf, MakerOf, LinkOf, CleanOf, TypeOK
  <2> QED BY <2>1, <2>2, <2>3 DEF BuilderOf
<1>3. CaredFor'
  BY DEF CaredFor, Caring, Heading, TypeOK, NameInv, VxlanInv, LinkOf, MakerOf,
         CleanOf, BuilderOf, AloneOf, StuckOf, HasOf
<1> QED BY <1>1, <1>2, <1>3 DEF TidyInv, BuilderInv

\* A request fails here only if its sandbox is not the one that has the name,
\* or has no device yet and so a builder.
LEMMA VxlanUpTidy ==
  ASSUME IInv, IInv', TidyInv, NEW c \in Containers, VxlanUp(c)
  PROVE  TidyInv'
<1> USE SandboxAssumption
        DEF VxlanUp, Command, FailedFrom, Unlocked, repoVars, kernelVars,
            Objects, None, Outside, Building, Making, Placed, Cleaning, Counting,
            Emptied, UsesObj, UsesDst, Unlinked
<1> TypeOK /\ NameInv /\ VxlanInv /\ OwnedInv /\ CaredFor BY DEF IInv, SafeInv, TidyInv
<1> LockOf(c) /\ LinkOf(c) /\ MakerOf(c) /\ CleanOf(c) /\ BuilderOf(c)
  BY Instances DEF TidyInv, BuilderInv
<1> TypeOK' /\ NameInv' /\ VxlanInv' /\ LinkOf(c)' /\ MakerOf(c)' /\ CleanOf(c)'
  BY DEF IInv, SafeInv, LinkInv, MakerInv, CleanInv
<1>0. Stuck /\ registered' = registered => Stuck' BY DEF Stuck, TypeOK, Adding
<1>1. OwnedInv' BY DEF OwnedInv, TypeOK, Adding
<1>2. ASSUME NEW d \in Containers PROVE BuilderOf(d)'
  <2> LockOf(d) /\ MakerOf(d) /\ LinkOf(d) /\ CleanOf(d) /\ BuilderOf(d)
    BY Instances DEF TidyInv, BuilderInv
  <2>1. AloneOf(d)'
    BY DEF BuilderOf, AloneOf, StuckOf, HasOf, LockOf, MakerOf, LinkOf, CleanOf,
           TypeOK
  <2>2. StuckOf(d)'
    BY <1>0 DEF BuilderOf, AloneOf, StuckOf, HasOf, Passed, LockOf, MakerOf, LinkOf,
                CleanOf, TypeOK
  <2>3. HasOf(d)'
    BY DEF BuilderOf, AloneOf, HasOf, LockOf, MakerOf, LinkOf, CleanOf, TypeOK
  <2> QED BY <2>1, <2>2, <2>3 DEF BuilderOf
<1>3. CaredFor'
  BY DEF CaredFor, Caring, Heading, TypeOK, NameInv, VxlanInv, LinkOf, MakerOf,
         CleanOf, BuilderOf, AloneOf, StuckOf, HasOf
<1> QED BY <1>1, <1>2, <1>3 DEF TidyInv, BuilderInv

\* The namespace is the one of the sandbox that has the name.
LEMMA StartMonitorTidy ==
  ASSUME IInv, IInv', TidyInv, NEW c \in Containers, StartMonitor(c)
  PROVE  TidyInv'
<1> USE SandboxAssumption
        DEF StartMonitor, Command, FailedFrom, Unlocked, repoVars, kernelVars,
            Objects, None, Outside, Building, Making, Placed, Cleaning, Counting,
            Emptied, UsesObj, UsesDst, Unlinked
<1> TypeOK /\ NameInv /\ VxlanInv /\ OwnedInv /\ CaredFor BY DEF IInv, SafeInv, TidyInv
<1> LockOf(c) /\ LinkOf(c) /\ MakerOf(c) /\ CleanOf(c) /\ BuilderOf(c)
  BY Instances DEF TidyInv, BuilderInv
<1> TypeOK' /\ NameInv' /\ VxlanInv' /\ LinkOf(c)' /\ MakerOf(c)' /\ CleanOf(c)'
  BY DEF IInv, SafeInv, LinkInv, MakerInv, CleanInv
<1>0. Stuck /\ registered' = registered => Stuck' BY DEF Stuck, TypeOK, Adding
<1>1. OwnedInv'
  <2>1. nsFile = registered /\ (monitored' => registered # None) BY DEF OwnedInv
  <2>2. (vxlan = Outside => \E d \in Containers : pc[d] \in {"vxlanGet", "moveVxlan"})'
    BY DEF OwnedInv, TypeOK, Adding
  <2>3. \A d \in Containers : pc'[d] # "nsDestroy"
    BY Instances DEF CleanOf, LinkOf, TypeOK, Adding
  <2> QED BY <2>1, <2>2, <2>3 DEF OwnedInv
<1>2. ASSUME NEW d \in Containers PROVE BuilderOf(d)'
  <2> LockOf(d) /\ MakerOf(d) /\ LinkOf(d) /\ CleanOf(d) /\ BuilderOf(d)
    BY Instances DEF TidyInv, BuilderInv
  <2>1. AloneOf(d)'
    BY DEF BuilderOf, AloneOf, StuckOf, HasOf, LockOf, MakerOf, LinkOf, CleanOf,
           TypeOK
  <2>2. StuckOf(d)'
    BY <1>0 DEF BuilderOf, AloneOf, StuckOf, HasOf, Passed, LockOf, MakerOf, LinkOf,
                CleanOf, TypeOK
  <2>3. HasOf(d)'
    BY DEF BuilderOf, AloneOf, HasOf, LockOf, MakerOf, LinkOf, CleanOf, TypeOK
  <2> QED BY <2>1, <2>2, <2>3 DEF BuilderOf
<1>3. CaredFor'
  BY DEF CaredFor, Caring, Heading, TypeOK, NameInv, VxlanInv, LinkOf, MakerOf,
         CleanOf, BuilderOf, AloneOf, StuckOf, HasOf
<1> QED BY <1>1, <1>2, <1>3 DEF TidyInv, BuilderInv

\* A link outside all sandboxes.
LEMMA CreateVethTidy ==
  ASSUME IInv, IInv', TidyInv, NEW c \in Containers, CreateVeth(c)
  PROVE  TidyInv'
<1> USE SandboxAssumption
        DEF CreateVeth, Command, FailedFrom, Unlocked, repoVars, kernelVars,
            Objects, None, Outside, Building, Making, Placed, Cleaning, Counting,
            Emptied, UsesObj, UsesDst, Unlinked
<1> TypeOK /\ NameInv /\ VxlanInv /\ OwnedInv /\ CaredFor BY DEF IInv, SafeInv, TidyInv
<1> LockOf(c) /\ LinkOf(c) /\ MakerOf(c) /\ CleanOf(c) /\ BuilderOf(c)
  BY Instances DEF TidyInv, BuilderInv
<1> TypeOK' /\ NameInv' /\ VxlanInv' /\ LinkOf(c)' /\ MakerOf(c)' /\ CleanOf(c)'
  BY DEF IInv, SafeInv, LinkInv, MakerInv, CleanInv
<1>0. Stuck /\ registered' = registered => Stuck' BY DEF Stuck, TypeOK, Adding
<1>1. OwnedInv'
  BY DEF OwnedInv, TypeOK, NameInv, VxlanInv, LinkOf, MakerOf, CleanOf, BuilderOf,
         AloneOf, StuckOf, HasOf
<1>2. ASSUME NEW d \in Containers PROVE BuilderOf(d)'
  <2> LockOf(d) /\ MakerOf(d) /\ LinkOf(d) /\ CleanOf(d) /\ BuilderOf(d)
    BY Instances DEF TidyInv, BuilderInv
  <2>1. AloneOf(d)'
    BY DEF BuilderOf, AloneOf, StuckOf, HasOf, LockOf, MakerOf, LinkOf, CleanOf,
           TypeOK
  <2>2. StuckOf(d)'
    BY <1>0 DEF BuilderOf, AloneOf, StuckOf, HasOf, Passed, LockOf, MakerOf, LinkOf,
                CleanOf, TypeOK
  <2>3. HasOf(d)'
    BY DEF BuilderOf, AloneOf, HasOf, LockOf, MakerOf, LinkOf, CleanOf, TypeOK
  <2> QED BY <2>1, <2>2, <2>3 DEF BuilderOf
<1>3. CaredFor'
  BY DEF CaredFor, Caring, Heading, TypeOK, NameInv, VxlanInv, LinkOf, MakerOf,
         CleanOf, BuilderOf, AloneOf, StuckOf, HasOf
<1> QED BY <1>1, <1>2, <1>3 DEF TidyInv, BuilderInv

\* The name is still there.
LEMMA VethGetTidy ==
  ASSUME IInv, IInv', TidyInv, NEW c \in Containers, GetInto(c, "vethGet", "moveVeth")
  PROVE  TidyInv'
<1> USE SandboxAssumption
        DEF GetInto, Command, FailedFrom, Unlocked, repoVars, kernelVars,
            Objects, None, Outside, Building, Making, Placed, Cleaning, Counting,
            Emptied, UsesObj, UsesDst, Unlinked
<1> TypeOK /\ NameInv /\ VxlanInv /\ OwnedInv /\ CaredFor BY DEF IInv, SafeInv, TidyInv
<1> LockOf(c) /\ LinkOf(c) /\ MakerOf(c) /\ CleanOf(c) /\ BuilderOf(c)
  BY Instances DEF TidyInv, BuilderInv
<1> TypeOK' /\ NameInv' /\ VxlanInv' /\ LinkOf(c)' /\ MakerOf(c)' /\ CleanOf(c)'
  BY DEF IInv, SafeInv, LinkInv, MakerInv, CleanInv
<1>0. Stuck /\ registered' = registered => Stuck' BY DEF Stuck, TypeOK, Adding
<1>1. OwnedInv'
  BY DEF OwnedInv, TypeOK, NameInv, VxlanInv, LinkOf, MakerOf, CleanOf, BuilderOf,
         AloneOf, StuckOf, HasOf
<1>2. ASSUME NEW d \in Containers PROVE BuilderOf(d)'
  <2> LockOf(d) /\ MakerOf(d) /\ LinkOf(d) /\ CleanOf(d) /\ BuilderOf(d)
    BY Instances DEF TidyInv, BuilderInv
  <2>1. AloneOf(d)'
    BY DEF BuilderOf, AloneOf, StuckOf, HasOf, LockOf, MakerOf, LinkOf, CleanOf,
           TypeOK
  <2>2. StuckOf(d)'
    BY <1>0 DEF BuilderOf, AloneOf, StuckOf, HasOf, Passed, LockOf, MakerOf, LinkOf,
                CleanOf, TypeOK
  <2>3. HasOf(d)'
    BY DEF BuilderOf, AloneOf, HasOf, LockOf, MakerOf, LinkOf, CleanOf, TypeOK
  <2> QED BY <2>1, <2>2, <2>3 DEF BuilderOf
<1>3. CaredFor'
  BY DEF CaredFor, Caring, Heading, TypeOK, NameInv, VxlanInv, LinkOf, MakerOf,
         CleanOf, BuilderOf, AloneOf, StuckOf, HasOf
<1> QED BY <1>1, <1>2, <1>3 DEF TidyInv, BuilderInv

\* The link looks after the sandbox from now on.
LEMMA MoveVethTidy ==
  ASSUME IInv, IInv', TidyInv, NEW c \in Containers, MoveVeth(c)
  PROVE  TidyInv'
<1> USE SandboxAssumption
        DEF MoveVeth, Command, FailedFrom, Unlocked, repoVars, kernelVars,
            Objects, None, Outside, Building, Making, Placed, Cleaning, Counting,
            Emptied, UsesObj, UsesDst, Unlinked
<1> TypeOK /\ NameInv /\ VxlanInv /\ OwnedInv /\ CaredFor BY DEF IInv, SafeInv, TidyInv
<1> LockOf(c) /\ LinkOf(c) /\ MakerOf(c) /\ CleanOf(c) /\ BuilderOf(c)
  BY Instances DEF TidyInv, BuilderInv
<1> TypeOK' /\ NameInv' /\ VxlanInv' /\ LinkOf(c)' /\ MakerOf(c)' /\ CleanOf(c)'
  BY DEF IInv, SafeInv, LinkInv, MakerInv, CleanInv
<1>0. Stuck /\ registered' = registered => Stuck' BY DEF Stuck, TypeOK, Adding
<1>1. OwnedInv' BY DEF OwnedInv, TypeOK, Adding
<1>2. ASSUME NEW d \in Containers PROVE BuilderOf(d)'
  <2> LockOf(d) /\ MakerOf(d) /\ LinkOf(d) /\ CleanOf(d) /\ BuilderOf(d)
    BY Instances DEF TidyInv, BuilderInv
  <2>1. AloneOf(d)'
    BY DEF BuilderOf, AloneOf, StuckOf, HasOf, LockOf, MakerOf, LinkOf, CleanOf,
           TypeOK
  <2>2. StuckOf(d)'
    BY <1>0 DEF BuilderOf, AloneOf, StuckOf, HasOf, Passed, LockOf, MakerOf, LinkOf,
                CleanOf, TypeOK
  <2>3. HasOf(d)'
    BY DEF BuilderOf, AloneOf, HasOf, LockOf, MakerOf, LinkOf, CleanOf, TypeOK
  <2> QED BY <2>1, <2>2, <2>3 DEF BuilderOf
<1>3. CaredFor'
  BY DEF CaredFor, Caring, Heading, TypeOK, NameInv, VxlanInv, LinkOf, MakerOf,
         CleanOf, BuilderOf, AloneOf, StuckOf, HasOf
<1> QED BY <1>1, <1>2, <1>3 DEF TidyInv, BuilderInv

\* A request that finds no dns0 fails, and is stuck; as the builder does not
\* have the mutex, it has not made dns0 yet.
LEMMA SetupBridgeTidy ==
  ASSUME IInv, IInv', TidyInv, NEW c \in Containers, SetupBridge(c)
  PROVE  TidyInv'
<1> USE SandboxAssumption
        DEF SetupBridge, Command, FailedFrom, Unlocked, repoVars, kernelVars,
            Objects, None, Outside, Building, Making, Placed, Cleaning, Counting,
            Emptied, UsesObj, UsesDst, Unlinked
<1> TypeOK /\ NameInv /\ VxlanInv /\ OwnedInv /\ CaredFor BY DEF IInv, SafeInv, TidyInv
<1> LockOf(c) /\ LinkOf(c) /\ MakerOf(c) /\ CleanOf(c) /\ BuilderOf(c)
  BY Instances DEF TidyInv, BuilderInv
<1> TypeOK' /\ NameInv' /\ VxlanInv' /\ LinkOf(c)' /\ MakerOf(c)' /\ CleanOf(c)'
  BY DEF IInv, SafeInv, LinkInv, MakerInv, CleanInv
<1>0. Stuck /\ registered' = registered => Stuck' BY DEF Stuck, TypeOK, Adding
<1>1. OwnedInv'
  BY DEF OwnedInv, TypeOK, NameInv, VxlanInv, LinkOf, MakerOf, CleanOf, BuilderOf,
         AloneOf, StuckOf, HasOf
<1>2. ASSUME NEW d \in Containers PROVE BuilderOf(d)'
  <2> LockOf(d) /\ MakerOf(d) /\ LinkOf(d) /\ CleanOf(d) /\ BuilderOf(d)
    BY Instances DEF TidyInv, BuilderInv
  <2>1. AloneOf(d)'
    BY DEF BuilderOf, AloneOf, StuckOf, HasOf, LockOf, MakerOf, LinkOf, CleanOf,
           TypeOK
  <2>2. StuckOf(d)'
    <3>1. CASE d = c BY <3>1 DEF StuckOf, TypeOK, Adding
    <3>2. CASE d # c /\ pc[d] \in Building /\ ~Stuck
      <4>1. registered \notin bridges /\ \A x \in Containers : ~Passed(x)
        BY <3>2 DEF BuilderOf, StuckOf
      <4>2. obj[c] = registered /\ veth[c] = registered BY DEF LinkOf
      <4>3. registered \notin dns0
        BY <3>2, <4>2 DEF BuilderOf, AloneOf, HasOf, LockOf, HoldsObj, HoldsDst
      <4>4. pc' = [pc EXCEPT ![c] = "failed"] BY <4>1, <4>2, <4>3 DEF Adding
      <4>5. Stuck' BY <4>2, <4>4 DEF Stuck, TypeOK
      <4> QED BY <4>5 DEF StuckOf
    <3>3. CASE d # c /\ (pc[d] \notin Building \/ Stuck)
      BY <1>0, <3>3 DEF StuckOf, TypeOK
    <3> QED BY <3>1, <3>2, <3>3
  <2>3. HasOf(d)'
    BY DEF BuilderOf, AloneOf, HasOf, LockOf, MakerOf, LinkOf, CleanOf, TypeOK
  <2> QED BY <2>1, <2>2, <2>3 DEF BuilderOf
<1>3. CaredFor'
  BY DEF CaredFor, Caring, Heading, TypeOK, NameInv, VxlanInv, LinkOf, MakerOf,
         CleanOf, BuilderOf, AloneOf, StuckOf, HasOf
<1> QED BY <1>1, <1>2, <1>3 DEF TidyInv, BuilderInv

\* The container is connected.
LEMMA EnslaveTidy ==
  ASSUME IInv, IInv', TidyInv, NEW c \in Containers, Enslave(c)
  PROVE  TidyInv'
<1> USE SandboxAssumption
        DEF Enslave, Command, FailedFrom, Unlocked, repoVars, kernelVars,
            Objects, None, Outside, Building, Making, Placed, Cleaning, Counting,
            Emptied, UsesObj, UsesDst, Unlinked
<1> TypeOK /\ NameInv /\ VxlanInv /\ OwnedInv /\ CaredFor BY DEF IInv, SafeInv, TidyInv
<1> LockOf(c) /\ LinkOf(c) /\ MakerOf(c) /\ CleanOf(c) /\ BuilderOf(c)
  BY Instances DEF TidyInv, BuilderInv
<1> TypeOK' /\ NameInv' /\ VxlanInv' /\ LinkOf(c)' /\ MakerOf(c)' /\ CleanOf(c)'
  BY DEF IInv, SafeInv, LinkInv, MakerInv, CleanInv
<1>0. Stuck /\ registered' = registered => Stuck' BY DEF Stuck, TypeOK, Adding
<1>1. OwnedInv'
  BY DEF OwnedInv, TypeOK, NameInv, VxlanInv, LinkOf, MakerOf, CleanOf, BuilderOf,
         AloneOf, StuckOf, HasOf
<1>2. ASSUME NEW d \in Containers PROVE BuilderOf(d)'
  <2> LockOf(d) /\ MakerOf(d) /\ LinkOf(d) /\ CleanOf(d) /\ BuilderOf(d)
    BY Instances DEF TidyInv, BuilderInv
  <2>1. AloneOf(d)'
    BY DEF BuilderOf, AloneOf, StuckOf, HasOf, LockOf, MakerOf, LinkOf, CleanOf,
           TypeOK
  <2>2. StuckOf(d)'
    BY <1>0 DEF BuilderOf, AloneOf, StuckOf, HasOf, Passed, LockOf, MakerOf, LinkOf,
                CleanOf, TypeOK
  <2>3. HasOf(d)'
    BY DEF BuilderOf, AloneOf, HasOf, LockOf, MakerOf, LinkOf, CleanOf, TypeOK
  <2> QED BY <2>1, <2>2, <2>3 DEF BuilderOf
<1>3. CaredFor'
  BY DEF CaredFor, Caring, Heading, TypeOK, NameInv, VxlanInv, LinkOf, MakerOf,
         CleanOf, BuilderOf, AloneOf, StuckOf, HasOf
<1> QED BY <1>1, <1>2, <1>3 DEF TidyInv, BuilderInv

\* The container's link stays.
LEMMA RecordTidy ==
  ASSUME IInv, IInv', TidyInv, NEW c \in Containers, Record(c)
  PROVE  TidyInv'
<1> USE SandboxAssumption
        DEF Record, Command, FailedFrom, Unlocked, repoVars, kernelVars,
            Objects, None, Outside, Building, Making, Placed, Cleaning, Counting,
            Emptied, UsesObj, UsesDst, Unlinked
<1> TypeOK /\ NameInv /\ VxlanInv /\ OwnedInv /\ CaredFor BY DEF IInv, SafeInv, TidyInv
<1> LockOf(c) /\ LinkOf(c) /\ MakerOf(c) /\ CleanOf(c) /\ BuilderOf(c)
  BY Instances DEF TidyInv, BuilderInv
<1> TypeOK' /\ NameInv' /\ VxlanInv' /\ LinkOf(c)' /\ MakerOf(c)' /\ CleanOf(c)'
  BY DEF IInv, SafeInv, LinkInv, MakerInv, CleanInv
<1>0. Stuck /\ registered' = registered => Stuck' BY DEF Stuck, TypeOK, Adding
<1>1. OwnedInv'
  BY DEF OwnedInv, TypeOK, NameInv, VxlanInv, LinkOf, MakerOf, CleanOf, BuilderOf,
         AloneOf, StuckOf, HasOf
<1>2. ASSUME NEW d \in Containers PROVE BuilderOf(d)'
  <2> LockOf(d) /\ MakerOf(d) /\ LinkOf(d) /\ CleanOf(d) /\ BuilderOf(d)
    BY Instances DEF TidyInv, BuilderInv
  <2>1. AloneOf(d)'
    BY DEF BuilderOf, AloneOf, StuckOf, HasOf, LockOf, MakerOf, LinkOf, CleanOf,
           TypeOK
  <2>2. StuckOf(d)'
    BY <1>0 DEF BuilderOf, AloneOf, StuckOf, HasOf, Passed, LockOf, MakerOf, LinkOf,
                CleanOf, TypeOK
  <2>3. HasOf(d)'
    BY DEF BuilderOf, AloneOf, HasOf, LockOf, MakerOf, LinkOf, CleanOf, TypeOK
  <2> QED BY <2>1, <2>2, <2>3 DEF BuilderOf
<1>3. CaredFor'
  BY DEF CaredFor, Caring, Heading, TypeOK, NameInv, VxlanInv, LinkOf, MakerOf,
         CleanOf, BuilderOf, AloneOf, StuckOf, HasOf
<1> QED BY <1>1, <1>2, <1>3 DEF TidyInv, BuilderInv

\* The DEL will look after the sandbox in place of its link.
LEMMA DeleteLinkTidy ==
  ASSUME IInv, IInv', TidyInv, NEW c \in Containers, DeleteLink(c)
  PROVE  TidyInv'
<1> USE SandboxAssumption
        DEF DeleteLink, Command, FailedFrom, Unlocked, repoVars, kernelVars,
            Objects, None, Outside, Building, Making, Placed, Cleaning, Counting,
            Emptied, UsesObj, UsesDst, Unlinked
<1> TypeOK /\ NameInv /\ VxlanInv /\ OwnedInv /\ CaredFor BY DEF IInv, SafeInv, TidyInv
<1> LockOf(c) /\ LinkOf(c) /\ MakerOf(c) /\ CleanOf(c) /\ BuilderOf(c)
  BY Instances DEF TidyInv, BuilderInv
<1> TypeOK' /\ NameInv' /\ VxlanInv' /\ LinkOf(c)' /\ MakerOf(c)' /\ CleanOf(c)'
  BY DEF IInv, SafeInv, LinkInv, MakerInv, CleanInv
<1>0. Stuck /\ registered' = registered => Stuck' BY DEF Stuck, TypeOK, Adding
<1>1. OwnedInv'
  BY DEF OwnedInv, TypeOK, NameInv, VxlanInv, LinkOf, MakerOf, CleanOf, BuilderOf,
         AloneOf, StuckOf, HasOf
<1>2. ASSUME NEW d \in Containers PROVE BuilderOf(d)'
  <2> LockOf(d) /\ MakerOf(d) /\ LinkOf(d) /\ CleanOf(d) /\ BuilderOf(d)
    BY Instances DEF TidyInv, BuilderInv
  <2>1. AloneOf(d)'
    BY DEF BuilderOf, AloneOf, StuckOf, HasOf, LockOf, MakerOf, LinkOf, CleanOf,
           TypeOK
  <2>2. StuckOf(d)'
    BY <1>0 DEF BuilderOf, AloneOf, StuckOf, HasOf, Passed, LockOf, MakerOf, LinkOf,
                CleanOf, TypeOK
  <2>3. HasOf(d)'
    BY DEF BuilderOf, AloneOf, HasOf, LockOf, MakerOf, LinkOf, CleanOf, TypeOK
  <2> QED BY <2>1, <2>2, <2>3 DEF BuilderOf
<1>3. CaredFor'
  BY DEF CaredFor, Caring, Heading, TypeOK, NameInv, VxlanInv, LinkOf, MakerOf,
         CleanOf, BuilderOf, AloneOf, StuckOf, HasOf
<1> QED BY <1>1, <1>2, <1>3 DEF TidyInv, BuilderInv

\* There is a sandbox to clean up.
LEMMA CleanupGetTidy ==
  ASSUME IInv, IInv', TidyInv, NEW c \in Containers, CleanupGet(c)
  PROVE  TidyInv'
<1> USE SandboxAssumption
        DEF CleanupGet, Command, FailedFrom, Unlocked, repoVars, kernelVars,
            Objects, None, Outside, Building, Making, Placed, Cleaning, Counting,
            Emptied, UsesObj, UsesDst, Unlinked
<1> TypeOK /\ NameInv /\ VxlanInv /\ OwnedInv /\ CaredFor BY DEF IInv, SafeInv, TidyInv
<1> LockOf(c) /\ LinkOf(c) /\ MakerOf(c) /\ CleanOf(c) /\ BuilderOf(c)
  BY Instances DEF TidyInv, BuilderInv
<1> TypeOK' /\ NameInv' /\ VxlanInv' /\ LinkOf(c)' /\ MakerOf(c)' /\ CleanOf(c)'
  BY DEF IInv, SafeInv, LinkInv, MakerInv, CleanInv
<1>0. Stuck /\ registered' = registered => Stuck' BY DEF Stuck, TypeOK, Adding
<1>1. OwnedInv'
  BY DEF OwnedInv, TypeOK, NameInv, VxlanInv, LinkOf, MakerOf, CleanOf, BuilderOf,
         AloneOf, StuckOf, HasOf
<1>2. ASSUME NEW d \in Containers PROVE BuilderOf(d)'
  <2> LockOf(d) /\ MakerOf(d) /\ LinkOf(d) /\ CleanOf(d) /\ BuilderOf(d)
    BY Instances DEF TidyInv, BuilderInv
  <2>1. AloneOf(d)'
    BY DEF BuilderOf, AloneOf, StuckOf, HasOf, LockOf, MakerOf, LinkOf, CleanOf,
           TypeOK
  <2>2. StuckOf(d)'
    BY <1>0 DEF BuilderOf, AloneOf, StuckOf, HasOf, Passed, LockOf, MakerOf, LinkOf,
                CleanOf, TypeOK
  <2>3. HasOf(d)'
    BY DEF BuilderOf, AloneOf, HasOf, LockOf, MakerOf, LinkOf, CleanOf, TypeOK
  <2> QED BY <2>1, <2>2, <2>3 DEF BuilderOf
<1>3. CaredFor'
  BY DEF CaredFor, Caring, Heading, TypeOK, NameInv, VxlanInv, LinkOf, MakerOf,
         CleanOf, BuilderOf, AloneOf, StuckOf, HasOf
<1> QED BY <1>1, <1>2, <1>3 DEF TidyInv, BuilderInv

\* The DEL goes on.
LEMMA CleanupLockTidy ==
  ASSUME IInv, IInv', TidyInv, NEW c \in Containers, LockSandbox(c, obj[c], "cleanupLock", "count")
  PROVE  TidyInv'
<1> USE SandboxAssumption
        DEF LockSandbox, Command, FailedFrom, Unlocked, repoVars, kernelVars,
            Objects, None, Outside, Building, Making, Placed, Cleaning, Counting,
            Emptied, UsesObj, UsesDst, Unlinked
<1> TypeOK /\ NameInv /\ VxlanInv /\ OwnedInv /\ CaredFor BY DEF IInv, SafeInv, TidyInv
<1> LockOf(c) /\ LinkOf(c) /\ MakerOf(c) /\ CleanOf(c) /\ BuilderOf(c)
  BY Instances DEF TidyInv, BuilderInv
<1> TypeOK' /\ NameInv' /\ VxlanInv' /\ LinkOf(c)' /\ MakerOf(c)' /\ CleanOf(c)'
  BY DEF IInv, SafeInv, LinkInv, MakerInv, CleanInv
<1>0. Stuck /\ registered' = registered => Stuck' BY DEF Stuck, TypeOK, Adding
<1>1. OwnedInv'
  BY DEF OwnedInv, TypeOK, NameInv, VxlanInv, LinkOf, MakerOf, CleanOf, BuilderOf,
         AloneOf, StuckOf, HasOf
<1>2. ASSUME NEW d \in Containers PROVE BuilderOf(d)'
  <2> LockOf(d) /\ MakerOf(d) /\ LinkOf(d) /\ CleanOf(d) /\ BuilderOf(d)
    BY Instances DEF TidyInv, BuilderInv
  <2>1. AloneOf(d)'
    BY DEF BuilderOf, AloneOf, StuckOf, HasOf, LockOf, MakerOf, LinkOf, CleanOf,
           TypeOK
  <2>2. StuckOf(d)'
    BY <1>0 DEF BuilderOf, AloneOf, StuckOf, HasOf, Passed, LockOf, MakerOf, LinkOf,
                CleanOf, TypeOK
  <2>3. HasOf(d)'
    BY DEF BuilderOf, AloneOf, HasOf, LockOf, MakerOf, LinkOf, CleanOf, TypeOK
  <2> QED BY <2>1, <2>2, <2>3 DEF BuilderOf
<1>3. CaredFor'
  BY DEF CaredFor, Caring, Heading, TypeOK, NameInv, VxlanInv, LinkOf, MakerOf,
         CleanOf, BuilderOf, AloneOf, StuckOf, HasOf
<1> QED BY <1>1, <1>2, <1>3 DEF TidyInv, BuilderInv

\* Either another link looks after the sandbox, or nobody is stuck in it and
\* there is no builder.
LEMMA VethDeviceCountTidy ==
  ASSUME IInv, IInv', TidyInv, NEW c \in Containers, VethDeviceCount(c)
  PROVE  TidyInv'
<1> USE SandboxAssumption
        DEF VethDeviceCount, Command, FailedFrom, Unlocked, repoVars, kernelVars,
            Objects, None, Outside, Building, Making, Placed, Cleaning, Counting,
            Emptied, UsesObj, UsesDst, Unlinked
<1> TypeOK /\ NameInv /\ VxlanInv /\ OwnedInv /\ CaredFor BY DEF IInv, SafeInv, TidyInv
<1> LockOf(c) /\ LinkOf(c) /\ MakerOf(c) /\ CleanOf(c) /\ BuilderOf(c)
  BY Instances DEF TidyInv, BuilderInv
<1> TypeOK' /\ NameInv' /\ VxlanInv' /\ LinkOf(c)' /\ MakerOf(c)' /\ CleanOf(c)'
  BY DEF IInv, SafeInv, LinkInv, MakerInv, CleanInv
<1>0. Stuck /\ registered' = registered => Stuck' BY DEF Stuck, TypeOK, Adding
<1>1. OwnedInv'
  BY DEF OwnedInv, TypeOK, NameInv, VxlanInv, LinkOf, MakerOf, CleanOf, BuilderOf,
         AloneOf, StuckOf, HasOf
<1>2. ASSUME NEW d \in Containers PROVE BuilderOf(d)'
  <2> LockOf(d) /\ MakerOf(d) /\ LinkOf(d) /\ CleanOf(d) /\ BuilderOf(d)
    BY Instances DEF TidyInv, BuilderInv
  <2>1. AloneOf(d)'
    <3>1. CASE \E x \in Containers : veth[x] = obj[c]
      BY <3>1 DEF BuilderOf, AloneOf, TypeOK
    <3>2. CASE ~\E x \in Containers : veth[x] = obj[c]
      <4>1. obj[c] = registered /\ ~Stuck /\ Passed(c) BY <3>2 DEF CleanOf, Stuck, Passed
      <4>2. pc[d] \notin Building BY <4>1 DEF BuilderOf, StuckOf
      <4> QED BY <4>2 DEF AloneOf, TypeOK
    <3> QED BY <3>1, <3>2
  <2>2. StuckOf(d)'
    BY <1>0 DEF BuilderOf, AloneOf, StuckOf, HasOf, Passed, LockOf, MakerOf, LinkOf,
                CleanOf, TypeOK
  <2>3. HasOf(d)'
    BY DEF BuilderOf, AloneOf, HasOf, LockOf, MakerOf, LinkOf, CleanOf, TypeOK
  <2> QED BY <2>1, <2>2, <2>3 DEF BuilderOf
<1>3. CaredFor'
  BY DEF CaredFor, Caring, Heading, TypeOK, NameInv, VxlanInv, LinkOf, MakerOf,
         CleanOf, BuilderOf, AloneOf, StuckOf, HasOf
<1> QED BY <1>1, <1>2, <1>3 DEF TidyInv, BuilderInv

\* The DEL will go on to destroy the sandbox.
LEMMA DeleteVxlanTidy ==
  ASSUME IInv, IInv', TidyInv, NEW c \in Containers, DeleteVxlan(c)
  PROVE  TidyInv'
<1> USE SandboxAssumption
        DEF DeleteVxlan, Command, FailedFrom, Unlocked, repoVars, kernelVars,
            Objects, None, Outside, Building, Making, Placed, Cleaning, Counting,
            Emptied, UsesObj, UsesDst, Unlinked
<1> TypeOK /\ NameInv /\ VxlanInv /\ OwnedInv /\ CaredFor BY DEF IInv, SafeInv, TidyInv
<1> LockOf(c) /\ LinkOf(c) /\ MakerOf(c) /\ CleanOf(c) /\ BuilderOf(c)
  BY Instances DEF TidyInv, BuilderInv
<1> TypeOK' /\ NameInv' /\ VxlanInv' /\ LinkOf(c)' /\ MakerOf(c)' /\ CleanOf(c)'
  BY DEF IInv, SafeInv, LinkInv, MakerInv, CleanInv
<1>0. Stuck /\ registered' = registered => Stuck' BY DEF Stuck, TypeOK, Adding
<1>1. OwnedInv'
  BY DEF OwnedInv, TypeOK, NameInv, VxlanInv, LinkOf, MakerOf, CleanOf, BuilderOf,
         AloneOf, StuckOf, HasOf
<1>2. ASSUME NEW d \in Containers PROVE BuilderOf(d)'
  <2> LockOf(d) /\ MakerOf(d) /\ LinkOf(d) /\ CleanOf(d) /\ BuilderOf(d)
    BY Instances DEF TidyInv, BuilderInv
  <2>1. AloneOf(d)'
    BY DEF BuilderOf, AloneOf, StuckOf, HasOf, LockOf, MakerOf, LinkOf, CleanOf,
           TypeOK
  <2>2. StuckOf(d)'
    BY <1>0 DEF BuilderOf, AloneOf, StuckOf, HasOf, Passed, LockOf, MakerOf, LinkOf,
                CleanOf, TypeOK
  <2>3. HasOf(d)'
    BY DEF BuilderOf, AloneOf, HasOf, LockOf, MakerOf, LinkOf, CleanOf, TypeOK
  <2> QED BY <2>1, <2>2, <2>3 DEF BuilderOf
<1>3. CaredFor'
  BY DEF CaredFor, Caring, Heading, TypeOK, NameInv, VxlanInv, LinkOf, MakerOf,
         CleanOf, BuilderOf, AloneOf, StuckOf, HasOf
<1> QED BY <1>1, <1>2, <1>3 DEF TidyInv, BuilderInv

\* The sandbox is there.
LEMMA DestroyNotFoundTidy ==
  ASSUME IInv, IInv', TidyInv, NEW c \in Containers, DestroyNotFound(c)
  PROVE  TidyInv'
<1> USE SandboxAssumption
        DEF DestroyNotFound, Command, FailedFrom, Unlocked, repoVars, kernelVars,
            Objects, None, Outside, Building, Making, Placed, Cleaning, Counting,
            Emptied, UsesObj, UsesDst, Unlinked
<1> TypeOK /\ NameInv /\ VxlanInv /\ OwnedInv /\ CaredFor BY DEF IInv, SafeInv, TidyInv
<1> LockOf(c) /\ LinkOf(c) /\ MakerOf(c) /\ CleanOf(c) /\ BuilderOf(c)
  BY Instances DEF TidyInv, BuilderInv
<1> TypeOK' /\ NameInv' /\ VxlanInv' /\ LinkOf(c)' /\ MakerOf(c)' /\ CleanOf(c)'
  BY DEF IInv, SafeInv, LinkInv, MakerInv, CleanInv
<1>0. Stuck /\ registered' = registered => Stuck' BY DEF Stuck, TypeOK, Adding
<1>1. OwnedInv'
  BY DEF OwnedInv, TypeOK, NameInv, VxlanInv, LinkOf, MakerOf, CleanOf, BuilderOf,
         AloneOf, StuckOf, HasOf
<1>2. ASSUME NEW d \in Containers PROVE BuilderOf(d)'
  <2> LockOf(d) /\ MakerOf(d) /\ LinkOf(d) /\ CleanOf(d) /\ BuilderOf(d)
    BY Instances DEF TidyInv, BuilderInv
  <2>1. AloneOf(d)'
    BY DEF BuilderOf, AloneOf, StuckOf, HasOf, LockOf, MakerOf, LinkOf, CleanOf,
           TypeOK
  <2>2. StuckOf(d)'
    BY <1>0 DEF BuilderOf, AloneOf, StuckOf, HasOf, Passed, LockOf, MakerOf, LinkOf,
                CleanOf, TypeOK
  <2>3. HasOf(d)'
    BY DEF BuilderOf, AloneOf, HasOf, LockOf, MakerOf, LinkOf, CleanOf, TypeOK
  <2> QED BY <2>1, <2>2, <2>3 DEF BuilderOf
<1>3. CaredFor'
  BY DEF CaredFor, Caring, Heading, TypeOK, NameInv, VxlanInv, LinkOf, MakerOf,
         CleanOf, BuilderOf, AloneOf, StuckOf, HasOf
<1> QED BY <1>1, <1>2, <1>3 DEF TidyInv, BuilderInv

\* Teardown does not refuse.
LEMMA TeardownFailsTidy ==
  ASSUME IInv, IInv', TidyInv, NEW c \in Containers, TeardownFails(c)
  PROVE  TidyInv'
<1> USE SandboxAssumption
        DEF TeardownFails, Command, FailedFrom, Unlocked, repoVars, kernelVars,
            Objects, None, Outside, Building, Making, Placed, Cleaning, Counting,
            Emptied, UsesObj, UsesDst, Unlinked
<1> TypeOK /\ NameInv /\ VxlanInv /\ OwnedInv /\ CaredFor BY DEF IInv, SafeInv, TidyInv
<1> LockOf(c) /\ LinkOf(c) /\ MakerOf(c) /\ CleanOf(c) /\ BuilderOf(c)
  BY Instances DEF TidyInv, BuilderInv
<1> TypeOK' /\ NameInv' /\ VxlanInv' /\ LinkOf(c)' /\ MakerOf(c)' /\ CleanOf(c)'
  BY DEF IInv, SafeInv, LinkInv, MakerInv, CleanInv
<1>0. Stuck /\ registered' = registered => Stuck' BY DEF Stuck, TypeOK, Adding
<1>1. OwnedInv'
  BY DEF OwnedInv, TypeOK, NameInv, VxlanInv, LinkOf, MakerOf, CleanOf, BuilderOf,
         AloneOf, StuckOf, HasOf
<1>2. ASSUME NEW d \in Containers PROVE BuilderOf(d)'
  <2> LockOf(d) /\ MakerOf(d) /\ LinkOf(d) /\ CleanOf(d) /\ BuilderOf(d)
    BY Instances DEF TidyInv, BuilderInv
  <2>1. AloneOf(d)'
    BY DEF BuilderOf, AloneOf, StuckOf, HasOf, LockOf, MakerOf, LinkOf, CleanOf,
           TypeOK
  <2>2. StuckOf(d)'
    BY <1>0 DEF BuilderOf, AloneOf, StuckOf, HasOf, Passed, LockOf, MakerOf, LinkOf,
                CleanOf, TypeOK
  <2>3. HasOf(d)'
    BY DEF BuilderOf, AloneOf, HasOf, LockOf, MakerOf, LinkOf, CleanOf, TypeOK
  <2> QED BY <2>1, <2>2, <2>3 DEF BuilderOf
<1>3. CaredFor'
  BY DEF CaredFor, Caring, Heading, TypeOK, NameInv, VxlanInv, LinkOf, MakerOf,
         CleanOf, BuilderOf, AloneOf, StuckOf, HasOf
<1> QED BY <1>1, <1>2, <1>3 DEF TidyInv, BuilderInv

\* The monitor and the DNS server end.
LEMMA TeardownTidy ==
  ASSUME IInv, IInv', TidyInv, NEW c \in Containers, Teardown(c)
  PROVE  TidyInv'
<1> USE SandboxAssumption
        DEF Teardown, Command, FailedFrom, Unlocked, repoVars, kernelVars,
            Objects, None, Outside, Building, Making, Placed, Cleaning, Counting,
            Emptied, UsesObj, UsesDst, Unlinked
<1> TypeOK /\ NameInv /\ VxlanInv /\ OwnedInv /\ CaredFor BY DEF IInv, SafeInv, TidyInv
<1> LockOf(c) /\ LinkOf(c) /\ MakerOf(c) /\ CleanOf(c) /\ BuilderOf(c)
  BY Instances DEF TidyInv, BuilderInv
<1> TypeOK' /\ NameInv' /\ VxlanInv' /\ LinkOf(c)' /\ MakerOf(c)' /\ CleanOf(c)'
  BY DEF IInv, SafeInv, LinkInv, MakerInv, CleanInv
<1>0. Stuck /\ registered' = registered => Stuck' BY DEF Stuck, TypeOK, Adding
<1>1. OwnedInv'
  BY DEF OwnedInv, TypeOK, NameInv, VxlanInv, LinkOf, MakerOf, CleanOf, BuilderOf,
         AloneOf, StuckOf, HasOf
<1>2. ASSUME NEW d \in Containers PROVE BuilderOf(d)'
  <2> LockOf(d) /\ MakerOf(d) /\ LinkOf(d) /\ CleanOf(d) /\ BuilderOf(d)
    BY Instances DEF TidyInv, BuilderInv
  <2>1. AloneOf(d)'
    BY DEF BuilderOf, AloneOf, StuckOf, HasOf, LockOf, MakerOf, LinkOf, CleanOf,
           TypeOK
  <2>2. StuckOf(d)'
    BY <1>0 DEF BuilderOf, AloneOf, StuckOf, HasOf, Passed, LockOf, MakerOf, LinkOf,
                CleanOf, TypeOK
  <2>3. HasOf(d)'
    BY DEF BuilderOf, AloneOf, HasOf, LockOf, MakerOf, LinkOf, CleanOf, TypeOK
  <2> QED BY <2>1, <2>2, <2>3 DEF BuilderOf
<1>3. CaredFor'
  BY DEF CaredFor, Caring, Heading, TypeOK, NameInv, VxlanInv, LinkOf, MakerOf,
         CleanOf, BuilderOf, AloneOf, StuckOf, HasOf
<1> QED BY <1>1, <1>2, <1>3 DEF TidyInv, BuilderInv

\* Nothing is left.
LEMMA DestroyNamespaceTidy ==
  ASSUME IInv, IInv', TidyInv, NEW c \in Containers, DestroyNamespace(c)
  PROVE  TidyInv'
<1> USE SandboxAssumption
        DEF DestroyNamespace, Command, FailedFrom, Unlocked, repoVars, kernelVars,
            Objects, None, Outside, Building, Making, Placed, Cleaning, Counting,
            Emptied, UsesObj, UsesDst, Unlinked
<1> TypeOK /\ NameInv /\ VxlanInv /\ OwnedInv /\ CaredFor BY DEF IInv, SafeInv, TidyInv
<1> LockOf(c) /\ LinkOf(c) /\ MakerOf(c) /\ CleanOf(c) /\ BuilderOf(c)
  BY Instances DEF TidyInv, BuilderInv
<1> TypeOK' /\ NameInv' /\ VxlanInv' /\ LinkOf(c)' /\ MakerOf(c)' /\ CleanOf(c)'
  BY DEF IInv, SafeInv, LinkInv, MakerInv, CleanInv
<1>0. Stuck /\ registered' = registered => Stuck' BY DEF Stuck, TypeOK, Adding
<1>1. OwnedInv'
  <2>1. ~monitored /\ \A i \in Objects : dns[i] # "running" BY DEF OwnedInv
  <2>2. \A d \in Containers : pc'[d] # "nsDestroy" BY DEF IInv, OneDel, Deleting, TypeOK
  <2>3. (vxlan = Outside => \E d \in Containers : pc[d] \in {"vxlanGet", "moveVxlan"})'
    BY DEF OwnedInv, TypeOK
  <2> QED BY <2>1, <2>2, <2>3 DEF OwnedInv, TypeOK
<1>2. ASSUME NEW d \in Containers PROVE BuilderOf(d)'
  <2> LockOf(d) /\ MakerOf(d) /\ LinkOf(d) /\ CleanOf(d) /\ BuilderOf(d)
    BY Instances DEF TidyInv, BuilderInv
  <2>1. AloneOf(d)'
    BY DEF BuilderOf, AloneOf, StuckOf, HasOf, LockOf, MakerOf, LinkOf, CleanOf,
           TypeOK
  <2>2. StuckOf(d)'
    BY <1>0 DEF BuilderOf, AloneOf, StuckOf, HasOf, Passed, LockOf, MakerOf, LinkOf,
                CleanOf, TypeOK
  <2>3. HasOf(d)'
    BY DEF BuilderOf, AloneOf, HasOf, LockOf, MakerOf, LinkOf, CleanOf, TypeOK
  <2> QED BY <2>1, <2>2, <2>3 DEF BuilderOf
<1>3. CaredFor'
  BY DEF CaredFor, Caring, Heading, TypeOK, NameInv, VxlanInv, LinkOf, MakerOf,
         CleanOf, BuilderOf, AloneOf, StuckOf, HasOf
<1> QED BY <1>1, <1>2, <1>3 DEF TidyInv, BuilderInv

\* A request begins.
LEMMA AddTidy ==
  ASSUME IInv, IInv', TidyInv, NEW c \in Containers, Add(c)
  PROVE  TidyInv'
<1> USE SandboxAssumption
        DEF Add, Command, FailedFrom, Unlocked, repoVars, kernelVars,
            Objects, None, Outside, Building, Making, Placed, Cleaning, Counting,
            Emptied, UsesObj, UsesDst, Unlinked
<1> TypeOK /\ NameInv /\ VxlanInv /\ OwnedInv /\ CaredFor BY DEF IInv, SafeInv, TidyInv
<1> LockOf(c) /\ LinkOf(c) /\ MakerOf(c) /\ CleanOf(c) /\ BuilderOf(c)
  BY Instances DEF TidyInv, BuilderInv
<1> TypeOK' /\ NameInv' /\ VxlanInv' /\ LinkOf(c)' /\ MakerOf(c)' /\ CleanOf(c)'
  BY DEF IInv, SafeInv, LinkInv, MakerInv, CleanInv
<1>0. Stuck /\ registered' = registered => Stuck' BY DEF Stuck, TypeOK, Adding
<1>1. OwnedInv'
  BY DEF OwnedInv, TypeOK, NameInv, VxlanInv, LinkOf, MakerOf, CleanOf, BuilderOf,
         AloneOf, StuckOf, HasOf
<1>2. ASSUME NEW d \in Containers PROVE BuilderOf(d)'
  <2> LockOf(d) /\ MakerOf(d) /\ LinkOf(d) /\ CleanOf(d) /\ BuilderOf(d)
    BY Instances DEF TidyInv, BuilderInv
  <2>1. AloneOf(d)'
    BY DEF BuilderOf, AloneOf, StuckOf, HasOf, LockOf, MakerOf, LinkOf, CleanOf,
           TypeOK
  <2>2. StuckOf(d)'
    BY <1>0 DEF BuilderOf, AloneOf, StuckOf, HasOf, Passed, LockOf, MakerOf, LinkOf,
                CleanOf, TypeOK
  <2>3. HasOf(d)'
    BY DEF BuilderOf, AloneOf, HasOf, LockOf, MakerOf, LinkOf, CleanOf, TypeOK
  <2> QED BY <2>1, <2>2, <2>3 DEF BuilderOf
<1>3. CaredFor'
  BY DEF CaredFor, Caring, Heading, TypeOK, NameInv, VxlanInv, LinkOf, MakerOf,
         CleanOf, BuilderOf, AloneOf, StuckOf, HasOf
<1> QED BY <1>1, <1>2, <1>3 DEF TidyInv, BuilderInv

\* A request begins.
LEMMA DelTidy ==
  ASSUME IInv, IInv', TidyInv, NEW c \in Containers, Del(c)
  PROVE  TidyInv'
<1> USE SandboxAssumption
        DEF Del, Command, FailedFrom, Unlocked, repoVars, kernelVars,
            Objects, None, Outside, Building, Making, Placed, Cleaning, Counting,
            Emptied, UsesObj, UsesDst, Unlinked
<1> TypeOK /\ NameInv /\ VxlanInv /\ OwnedInv /\ CaredFor BY DEF IInv, SafeInv, TidyInv
<1> LockOf(c) /\ LinkOf(c) /\ MakerOf(c) /\ CleanOf(c) /\ BuilderOf(c)
  BY Instances DEF TidyInv, BuilderInv
<1> TypeOK' /\ NameInv' /\ VxlanInv' /\ LinkOf(c)' /\ MakerOf(c)' /\ CleanOf(c)'
  BY DEF IInv, SafeInv, LinkInv, MakerInv, CleanInv
<1>0. Stuck /\ registered' = registered => Stuck' BY DEF Stuck, TypeOK, Adding
<1>1. OwnedInv'
  BY DEF OwnedInv, TypeOK, NameInv, VxlanInv, LinkOf, MakerOf, CleanOf, BuilderOf,
         AloneOf, StuckOf, HasOf
<1>2. ASSUME NEW d \in Containers PROVE BuilderOf(d)'
  <2> LockOf(d) /\ MakerOf(d) /\ LinkOf(d) /\ CleanOf(d) /\ BuilderOf(d)
    BY Instances DEF TidyInv, BuilderInv
  <2>1. AloneOf(d)'
    BY DEF BuilderOf, AloneOf, StuckOf, HasOf, LockOf, MakerOf, LinkOf, CleanOf,
           TypeOK
  <2>2. StuckOf(d)'
    BY <1>0 DEF BuilderOf, AloneOf, StuckOf, HasOf, Passed, LockOf, MakerOf, LinkOf,
                CleanOf, TypeOK
  <2>3. HasOf(d)'
    BY DEF BuilderOf, AloneOf, HasOf, LockOf, MakerOf, LinkOf, CleanOf, TypeOK
  <2> QED BY <2>1, <2>2, <2>3 DEF BuilderOf
<1>3. CaredFor'
  BY DEF CaredFor, Caring, Heading, TypeOK, NameInv, VxlanInv, LinkOf, MakerOf,
         CleanOf, BuilderOf, AloneOf, StuckOf, HasOf
<1> QED BY <1>1, <1>2, <1>3 DEF TidyInv, BuilderInv

-----------------------------------------------------------------------------
(* The theorem.                                                              *)

FaultlessInv == ~faulted => TidyInv

\* There is nothing to look after at first.
LEMMA InitTidy == Init => TidyInv
<1> SUFFICES ASSUME Init PROVE TidyInv OBVIOUS
<1> USE SandboxAssumption DEF Init, Objects, None, Outside
<1>1. BuilderInv
  BY DEF BuilderInv, BuilderOf, AloneOf, StuckOf, HasOf, Building, Making
<1>2. OwnedInv /\ CaredFor BY DEF OwnedInv, CaredFor
<1> QED BY <1>1, <1>2 DEF TidyInv

\* Without a fault every step keeps TidyInv.
LEMMA NextTidy ==
  ASSUME IInv, MaxDels <= 1, FaultlessInv, [Next]_vars
  PROVE  FaultlessInv'
<1>0. IInv' BY NextIInv
<1>1. CASE UNCHANGED vars
  BY <1>1 DEF vars, FaultlessInv, TidyInv, BuilderInv, BuilderOf, AloneOf, StuckOf, HasOf,
              Stuck, Passed, OwnedInv, CaredFor, Caring
<1>2. CASE Next /\ faulted'
  BY <1>2 DEF FaultlessInv
<1>3. CASE Next /\ ~faulted'
  <2>1. TidyInv BY <1>3 DEF FaultlessInv, Next, Arrival, Step
  <2>2. ASSUME NEW c \in Containers, AddStep(c) PROVE TidyInv'
    BY <1>0, <2>1, <2>2, SandboxExistsTidy, CreateSandboxTidy, SetupSandboxTidy,
       CreateVxlanTidy, VxlanGetTidy, MoveVxlanTidy, DNSGetTidy, DNSLockTidy,
       CreateDummyTidy, LaunchDNSTidy, GetSandboxTidy, LockTidy, VxlanUpTidy,
       StartMonitorTidy, CreateVethTidy, VethGetTidy, MoveVethTidy, SetupBridgeTidy,
       EnslaveTidy, RecordTidy
    DEF AddStep
  <2>3. ASSUME NEW c \in Containers, DelStep(c) PROVE TidyInv'
    BY <1>0, <2>1, <2>3, DeleteLinkTidy, CleanupGetTidy, CleanupLockTidy,
       VethDeviceCountTidy, DeleteVxlanTidy, DestroyNotFoundTidy, TeardownFailsTidy,
       TeardownTidy, DestroyNamespaceTidy
    DEF DelStep
  <2>4. ASSUME NEW c \in Containers, Add(c) \/ Del(c) PROVE TidyInv'
    BY <1>0, <2>1, <2>4, AddTidy, DelTidy
  <2> QED BY <1>3, <2>2, <2>3, <2>4 DEF Next, Arrival, Step, FaultlessInv
<1> QED BY <1>1, <1>2, <1>3

\* When the requests are over and no link is in a sandbox, nobody looks after
\* one, so that there is none.
LEMMA QuietIsTidy ==
  ASSUME IInv, FaultlessInv
  PROVE  LastOneOutCleansUp
<1> SUFFICES ASSUME Quiet, ~faulted, \A c \in Containers : veth[c] \notin Objects
             PROVE  /\ registered = None /\ nsFile = None /\ vxlan = None /\ ~monitored
                    /\ \A i \in Objects : dns[i] # "running"
  BY DEF LastOneOutCleansUp
<1>1. \A c \in Containers : ~Caring(c)
  BY DEF Quiet, Resting, Caring, Building, Making, Cleaning, Counting, Emptied, Heading
<1>2. registered = None BY <1>1 DEF FaultlessInv, TidyInv, CaredFor
<1>3. vxlan \notin Objects BY <1>2, SandboxAssumption DEF IInv, SafeInv, VxlanInv, Objects, None
<1>4. vxlan # Outside BY DEF Quiet, Resting, FaultlessInv, TidyInv, OwnedInv
<1> QED
  BY <1>2, <1>3, <1>4, SandboxAssumption
  DEF IInv, TypeOK, FaultlessInv, TidyInv, OwnedInv, Objects, None

\* With one DEL at a time, and unless a command fails for a reason of its own,
\* CleanupSandbox leaves no sandbox, namespace, vxlan device, monitor or DNS
\* server behind when the last container has gone, although ADDs race each
\* other and some fail half-way.
THEOREM LastOneOut ==
  ASSUME MaxDels <= 1
  PROVE  Spec => []LastOneOutCleansUp
<1>1. Init => IInv /\ FaultlessInv BY InitIInv, InitTidy DEF FaultlessInv
<1>2. IInv /\ FaultlessInv /\ [Next]_vars => (IInv /\ FaultlessInv)'
  BY NextIInv, NextTidy
<1>3. IInv /\ FaultlessInv => LastOneOutCleansUp BY QuietIsTidy
<1> QED BY <1>1, <1>2, <1>3, PTL DEF Spec
=============================================================================
