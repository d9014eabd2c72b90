----------------------------- MODULE IPAMProofs -----------------------------
(***************************************************************************)
(* Theorems about IPAM, for every set of networks, containers and          *)
(* requests and every subnet.                                              *)
(***************************************************************************)
EXTENDS IPAM, TLAPS

-----------------------------------------------------------------------------
\* Types are preserved: the part of every other proof.
USE DEF Malformed, NoGateway, Torn

LEMMA TypeInit == Init => TypeOK
  BY ConfigAssumption, AddressAssumption
  DEF Init, TypeOK, Empty, Resting, Candidates

LEMMA TypeNext == TypeOK /\ [Next]_vars => TypeOK'
<1> SUFFICES ASSUME TypeOK, [Next]_vars PROVE TypeOK'
  OBVIOUS
<1> USE ConfigAssumption, AddressAssumption
<1>1. ASSUME NEW p \in Procs, NEW r \in Calls, Call(p, r) PROVE TypeOK'
  BY <1>1 DEF TypeOK, Call, Resting, Calls
<1>2. ASSUME NEW p \in Procs, Step(p) PROVE TypeOK'
  <2>0. /\ Net(p) \in Networks /\ Id(p) \in Containers
        /\ \A i \in Int : nextIP(i) \in Int
    BY DEF TypeOK, Net, Id, Calls, nextIP, Malformed
  <2>1. CASE getConfig(p)
    BY <2>0, <2>1 DEF TypeOK, getConfig, Goto, Resting
  <2>2. CASE getStore(p)
    BY <2>0, <2>2 DEF TypeOK, getStore, Goto, Resting, Empty, Calls
  <2>3. CASE ContainsVisit(p)
    BY <2>0, <2>3 DEF TypeOK, ContainsVisit, Resting
  <2>4. CASE ContainsEnd(p)
    BY <2>0, <2>4 DEF TypeOK, ContainsEnd, Goto, Resting
  <2>5. CASE GatewayIsNil(p)
    BY <2>0, <2>5 DEF TypeOK, GatewayIsNil, Goto, Resting
  <2>6. CASE GatewayIsSet(p)
    BY <2>0, <2>6 DEF TypeOK, GatewayIsSet, Goto, Resting
  <2>7. CASE SetGateway(p)
    BY <2>0, <2>7 DEF TypeOK, SetGateway, Goto, Resting
  <2>8. CASE PublishGateway(p)
    BY <2>0, <2>8 DEF TypeOK, PublishGateway, Goto, Resting
  <2>9. CASE NoMoreAddresses(p)
    BY <2>0, <2>9 DEF TypeOK, NoMoreAddresses, Goto, Resting
  <2>10. CASE SkipGateway(p)
    BY <2>0, <2>10 DEF TypeOK, SkipGateway, Goto, Resting
  <2>11. CASE TryAddress(p)
    BY <2>0, <2>11 DEF TypeOK, TryAddress, Goto, Resting
  <2>12. CASE Reserve(p)
    BY <2>0, <2>12 DEF TypeOK, Reserve, Goto, Resting
  <2>13. CASE ReserveTaken(p)
    BY <2>0, <2>13 DEF TypeOK, ReserveTaken, Goto, Resting
  <2>14. CASE ReleaseByID(p)
    BY <2>0, <2>14 DEF TypeOK, ReleaseByID, Goto, Resting, Held
  <2>. QED
    BY <1>2, <2>1, <2>2, <2>3, <2>4, <2>5, <2>6, <2>7, <2>8, <2>9, <2>10,
       <2>11, <2>12, <2>13, <2>14 DEF Step
<1>3. CASE UNCHANGED vars
  BY <1>3 DEF TypeOK, vars
<1>. QED
  BY <1>1, <1>2, <1>3 DEF Next

\* Every reachable state of the allocator has the types TypeOK declares.
THEOREM Typing == Spec => []TypeOK
  BY TypeInit, TypeNext, PTL DEF Spec

-----------------------------------------------------------------------------
(***************************************************************************)
(* The search. What is true of the addresses a request has already gone    *)
(* past is what makes NoMoreAddressesError true at the end.                *)
(***************************************************************************)
\* Up to hi, every address p may give is taken, or was when p came by.
Passed(p, hi) ==
  \A a \in Candidates \ {GatewayIP} :
    a <= hi => allocated[Net(p)][a] # Nil \/ a \in freed[p]

SearchOf(p) ==
  /\ pc[p] \in {"setGateway", "publishGateway"} =>
       ConfiguredGateway = NoGateway /\ ip[p] = nextIP(StartIP)
  /\ pc[p] = "next" =>
       \/ ip[p] \in StartIP..LastIP /\ Passed(p, ip[p])
       \/ StartIP = LastIP /\ ip[p] = nextIP(StartIP)
  /\ pc[p] = "reserve" =>
       /\ ip[p] \in Candidates /\ Passed(p, ip[p] - 1)
       /\ ConfiguredGateway # NoGateway => ip[p] # GatewayIP
  /\ pc[p] = "exhausted" => Passed(p, LastIP)

SearchInv == \A p \in Procs : SearchOf(p)

\* Before the first store of a network is made nothing is allocated on it,
\* so making it loses nothing; a request past getStore finds it.
StoreInv ==
  /\ \A n \in Networks \ stores : allocated[n] = Empty
  /\ \A p \in Procs :
       pc[p] \in (Searching \cup {"contains", "release"}) \ {"exhausted"} =>
         Net(p) \in stores

\* A gateway that can be read is the network's gateway; one that is
\* configured is never half written.
GatewayInv ==
  \A n \in Networks :
    /\ gateway[n] \in {NoGateway, Torn, GatewayIP}
    /\ ConfiguredGateway # NoGateway => gateway[n] = GatewayIP

\* Only a configured gateway is safe from the search.
LeasedInv == ConfiguredGateway # NoGateway => GatewayNeverLeased

IInv == TypeOK /\ StoreInv /\ GatewayInv /\ SearchInv /\ LeasedInv

(***************************************************************************)
(* The leases, when the caller has one call in flight per container.       *)
(***************************************************************************)
Exclusive ==
  \A p, q \in Procs :
    p # q /\ pc[p] \notin Resting /\ pc[q] \notin Resting =>
      ~SameContainer(req[p], req[q])

\* What Contains did not find is not there: neither where it has looked, nor
\* anywhere once it is over.
NotFoundBy(p) ==
  pc[p] \in (Searching \cup {"contains"}) \ {"exhausted"} =>
    /\ pc[p] # "contains" => todo[p] = {}
    /\ \A a \in Candidates \ todo[p] : allocated[Net(p)][a] # Id(p)

LeaseInv == Exclusive /\ OneLeasePerContainer /\ \A p \in Procs : NotFoundBy(p)

-----------------------------------------------------------------------------
\* What nextIP does inside the subnet: it steps by one, and leaves the subnet
\* only at its last address, whether or not that is 255.255.255.255.
LEMMA NextIP ==
  /\ \A i \in StartIP..LastIP :
       /\ i < LastIP => nextIP(i) = i + 1 /\ i + 1 \in FirstIP..LastIP
       /\ i = LastIP => nextIP(i) \notin FirstIP..LastIP
  /\ StartIP = LastIP => nextIP(nextIP(StartIP)) \notin FirstIP..LastIP
  /\ GatewayIP \in Int
  /\ ConfiguredGateway = NoGateway => GatewayIP = nextIP(StartIP)
  /\ ConfiguredGateway # NoGateway => GatewayIP = ConfiguredGateway
  BY AddressAssumption, ConfigAssumption DEF nextIP, GatewayIP

LEMMA InvInit == Init => IInv
<1> SUFFICES ASSUME Init PROVE IInv
  OBVIOUS
<1>. QED
  BY TypeInit, ConfigAssumption, AddressAssumption
  DEF Init, IInv, StoreInv, GatewayInv, SearchInv, SearchOf, LeasedInv,
      GatewayNeverLeased, GatewayIP, Empty, Searching

\* A step of one request leaves every other request where it was.
LEMMA OthersStay ==
  ASSUME TypeOK, NEW p \in Procs, Step(p), NEW q \in Procs, q # p
  PROVE  pc'[q] = pc[q] /\ ip'[q] = ip[q] /\ req' = req /\ todo'[q] = todo[q]
  BY DEF TypeOK, Step, getConfig, getStore, ContainsVisit, ContainsEnd,
     GatewayIsNil, GatewayIsSet, SetGateway, PublishGateway, NoMoreAddresses,
     SkipGateway, TryAddress, Reserve, ReserveTaken, ReleaseByID, Goto

\* The steps that touch the leases.
LEMMA LeasesMove ==
  ASSUME TypeOK, StoreInv, NEW p \in Procs, Step(p)
  PROVE  \/ Reserve(p) \/ ReleaseByID(p) \/ UNCHANGED <<allocated, freed>>
<1>1. CASE getStore(p)
  <2>1. Net(p) \in Networks
    BY DEF TypeOK, Net, Calls
  <2>2. Net(p) \notin stores => allocated[Net(p)] = Empty
    BY <2>1 DEF StoreInv
  <2>. QED
    BY <1>1, <2>1, <2>2 DEF getStore, TypeOK
<1>. QED
  BY <1>1 DEF Step, getConfig, ContainsVisit, ContainsEnd,
     GatewayIsNil, GatewayIsSet, SetGateway, PublishGateway, NoMoreAddresses,
     SkipGateway, TryAddress, ReserveTaken

\* What a searching request has passed stays passed, whoever moves.
LEMMA PassedStays ==
  ASSUME TypeOK, StoreInv, NEW p \in Procs, Step(p),
         NEW q \in Procs, pc[q] \in Searching, ~Reserve(p) \/ q # p,
         NEW hi \in Int, Passed(q, hi)
  PROVE  Passed(q, hi)'
<1>0. req' = req /\ Net(q)' = Net(q) /\ Net(p) \in Networks /\ Net(q) \in Networks
      /\ Id(p) \in Containers
  BY DEF TypeOK, Step, getConfig, getStore, ContainsVisit, ContainsEnd,
     GatewayIsNil, GatewayIsSet, SetGateway, PublishGateway, NoMoreAddresses,
     SkipGateway, TryAddress, Reserve, ReserveTaken, ReleaseByID, Net, Id, Calls
<1>1. CASE Reserve(p)
  BY <1>0, <1>1, ConfigAssumption DEF Reserve, Goto, Passed, TypeOK
<1>2. CASE ReleaseByID(p)
  BY <1>0, <1>2 DEF ReleaseByID, Goto, Passed, TypeOK, Held
<1>3. CASE UNCHANGED <<allocated, freed>>
  BY <1>0, <1>3 DEF Passed
<1>. QED
  BY <1>1, <1>2, <1>3, LeasesMove

LEMMA InvNext == IInv /\ [Next]_vars => IInv'
<1> SUFFICES ASSUME IInv, [Next]_vars PROVE IInv'
  OBVIOUS
<1> USE ConfigAssumption, AddressAssumption
<1>0. TypeOK /\ TypeOK' /\ StoreInv
  BY TypeNext DEF IInv
<1>1. ASSUME NEW p \in Procs, NEW r \in Calls, Call(p, r) PROVE IInv'
  <2>1. StoreInv' /\ GatewayInv' /\ LeasedInv'
    BY <1>0, <1>1 DEF IInv, TypeOK, Call, StoreInv, GatewayInv, LeasedInv,
       GatewayNeverLeased, Net, Searching, Resting
  <2>2. SearchInv'
    BY <1>0, <1>1 DEF IInv, TypeOK, Call, SearchInv, SearchOf, Passed, Net, Resting
  <2>. QED
    BY <1>0, <2>1, <2>2 DEF IInv
<1>2. ASSUME NEW p \in Procs, Step(p) PROVE IInv'
  <2>0. /\ Net(p) \in Networks /\ Id(p) \in Containers
        /\ SearchOf(p) /\ ip[p] \in Int
        /\ gateway[Net(p)] \in {NoGateway, Torn, GatewayIP}
        /\ ConfiguredGateway # NoGateway => gateway[Net(p)] = GatewayIP
    BY <1>0 DEF IInv, SearchInv, GatewayInv, TypeOK, Net, Id, Calls
  <2>a. ASSUME NEW q \in Procs, q # p PROVE SearchOf(q)'
    <3>1. SearchOf(q) /\ ip[q] \in Int
      BY <1>0 DEF IInv, SearchInv, TypeOK
    <3>2. pc'[q] = pc[q] /\ ip'[q] = ip[q]
      BY <1>0, <1>2, <2>a, OthersStay
    <3>3. \A hi \in Int : pc[q] \in Searching /\ Passed(q, hi) => Passed(q, hi)'
      BY <1>0, <1>2, <2>a, PassedStays
    <3>. QED
      BY <3>1, <3>2, <3>3 DEF SearchOf, Searching
  <2>b. /\ \A hi \in Int : pc[p] \in Searching /\ Passed(p, hi) /\ ~Reserve(p)
                            => Passed(p, hi)'
    BY <1>0, <1>2, PassedStays
  <2>c. SearchOf(p)' => SearchInv'
    BY <2>a DEF SearchInv
  <2>1. CASE getConfig(p)
    <3>1. StoreInv' /\ GatewayInv' /\ LeasedInv'
      BY <1>0, <2>0, <2>1, NextIP DEF IInv, TypeOK, getConfig, Goto, StoreInv, SearchOf,
         GatewayInv, LeasedInv, GatewayNeverLeased, Net, Searching, Empty
    <3>2. SearchOf(p)'
      BY <1>0, <2>0, <2>b, <2>1 DEF IInv, TypeOK, getConfig, Goto, SearchOf, Searching
    <3>. QED
      BY <1>0, <2>c, <3>1, <3>2 DEF IInv
  <2>2. CASE getStore(p)
    <3>1. StoreInv' /\ GatewayInv' /\ LeasedInv'
      BY <1>0, <2>0, <2>2 DEF IInv, TypeOK, getStore, Goto, StoreInv, SearchOf,
         GatewayInv, LeasedInv, GatewayNeverLeased, Net, Searching, Empty
    <3>2. SearchOf(p)'
      BY <1>0, <2>0, <2>b, <2>2 DEF IInv, TypeOK, getStore, Goto, SearchOf, Searching
    <3>. QED
      BY <1>0, <2>c, <3>1, <3>2 DEF IInv
  <2>3. CASE ContainsVisit(p)
    <3>1. StoreInv' /\ GatewayInv' /\ LeasedInv'
      BY <1>0, <2>0, <2>3 DEF IInv, TypeOK, ContainsVisit, StoreInv, SearchOf,
         GatewayInv, LeasedInv, GatewayNeverLeased, Net, Searching, Empty
    <3>2. SearchOf(p)'
      BY <1>0, <2>0, <2>b, <2>3 DEF IInv, TypeOK, ContainsVisit, SearchOf, Searching
    <3>. QED
      BY <1>0, <2>c, <3>1, <3>2 DEF IInv
  <2>4. CASE ContainsEnd(p)
    <3>1. StoreInv' /\ GatewayInv' /\ LeasedInv'
      BY <1>0, <2>0, <2>4 DEF IInv, TypeOK, ContainsEnd, Goto, StoreInv, SearchOf,
         GatewayInv, LeasedInv, GatewayNeverLeased, Net, Searching, Empty
    <3>2. SearchOf(p)'
      BY <1>0, <2>0, <2>b, <2>4 DEF IInv, TypeOK, ContainsEnd, Goto, SearchOf, Searching
    <3>. QED
      BY <1>0, <2>c, <3>1, <3>2 DEF IInv
  <2>5. CASE GatewayIsNil(p)
    <3>1. StoreInv' /\ GatewayInv' /\ LeasedInv'
      BY <1>0, <2>0, <2>5 DEF IInv, TypeOK, GatewayIsNil, Goto, StoreInv, SearchOf,
         GatewayInv, LeasedInv, GatewayNeverLeased, Net, Searching, Empty
    <3>2. SearchOf(p)'
      BY <1>0, <2>0, <2>5, NextIP DEF TypeOK, GatewayIsNil, Goto, SearchOf
    <3>. QED
      BY <1>0, <2>c, <3>1, <3>2 DEF IInv
  <2>6. CASE GatewayIsSet(p)
    <3>1. StoreInv' /\ GatewayInv' /\ LeasedInv'
      BY <1>0, <2>0, <2>6 DEF IInv, TypeOK, GatewayIsSet, Goto, StoreInv, SearchOf,
         GatewayInv, LeasedInv, GatewayNeverLeased, Net, Searching, Empty
    <3>2. SearchOf(p)'
      BY <1>0, <2>0, <2>6 DEF TypeOK, GatewayIsSet, Goto, SearchOf, Passed, Candidates
    <3>. QED
      BY <1>0, <2>c, <3>1, <3>2 DEF IInv
  <2>7. CASE SetGateway(p)
    <3>1. StoreInv' /\ GatewayInv' /\ LeasedInv'
      BY <1>0, <2>0, <2>7 DEF IInv, TypeOK, SetGateway, Goto, StoreInv, SearchOf,
         GatewayInv, LeasedInv, GatewayNeverLeased, Net, Searching, Empty
    <3>2. SearchOf(p)'
      BY <1>0, <2>0, <2>b, <2>7 DEF IInv, TypeOK, SetGateway, Goto, SearchOf, Searching
    <3>. QED
      BY <1>0, <2>c, <3>1, <3>2 DEF IInv
  <2>8. CASE PublishGateway(p)
    <3>1. StoreInv' /\ GatewayInv' /\ LeasedInv'
      BY <1>0, <2>0, <2>8, NextIP DEF IInv, TypeOK, PublishGateway, Goto, StoreInv, SearchOf,
         GatewayInv, LeasedInv, GatewayNeverLeased, Net, Searching, Empty
    <3>2. ip[p] = nextIP(StartIP) /\ GatewayIP = nextIP(StartIP) /\ pc'[p] = "next"
          /\ ip' = ip
      BY <1>0, <2>0, <2>8, NextIP DEF TypeOK, PublishGateway, Goto, SearchOf
    <3>3. CASE StartIP = LastIP
      BY <1>0, <2>c, <3>1, <3>2, <3>3 DEF SearchOf, IInv
    <3>4. CASE StartIP # LastIP
      <4>1. ip[p] = StartIP + 1 /\ GatewayIP = StartIP + 1 /\ ip[p] \in StartIP..LastIP
        BY <3>2, <3>4, NextIP
      <4>2. Passed(p, ip[p])'
        BY <3>2, <4>1 DEF Passed, Candidates
      <4>3. SearchOf(p)'
        BY <3>2, <4>1, <4>2 DEF SearchOf
      <4>. QED
        BY <1>0, <2>c, <3>1, <4>3 DEF IInv
    <3>. QED
      BY <3>3, <3>4
  <2>9. CASE NoMoreAddresses(p)
    <3>1. StoreInv' /\ GatewayInv' /\ LeasedInv'
      BY <1>0, <2>0, <2>9 DEF IInv, TypeOK, NoMoreAddresses, Goto, StoreInv, SearchOf,
         GatewayInv, LeasedInv, GatewayNeverLeased, Net, Searching, Empty
    <3>2. Passed(p, LastIP)'
      <4>1. CASE StartIP = LastIP
        BY <4>1 DEF Passed, Candidates
      <4>2. CASE StartIP # LastIP
        BY <2>0, <2>b, <2>9, <4>2, NextIP
        DEF NoMoreAddresses, Goto, SearchOf, Searching, Reserve
      <4>. QED
        BY <4>1, <4>2
    <3>3. SearchOf(p)'
      BY <1>0, <2>9, <3>2 DEF TypeOK, NoMoreAddresses, Goto, SearchOf
    <3>. QED
      BY <1>0, <2>c, <3>1, <3>3 DEF IInv
  <2>10. CASE SkipGateway(p)
    <3>1. StoreInv' /\ GatewayInv' /\ LeasedInv'
      BY <1>0, <2>0, <2>10 DEF IInv, TypeOK, SkipGateway, Goto, StoreInv, SearchOf,
         GatewayInv, LeasedInv, GatewayNeverLeased, Net, Searching, Empty
    <3>2. ip[p] \in StartIP..LastIP /\ Passed(p, ip[p]) /\ nextIP(ip[p]) = ip[p] + 1
          /\ ip[p] + 1 \in StartIP..LastIP /\ GatewayIP = ip[p] + 1
      BY <2>0, <2>10, NextIP DEF SkipGateway, Goto, SearchOf
    <3>3. Passed(p, ip[p] + 1)
      BY <3>2 DEF Passed, Candidates
    <3>4. SearchOf(p)'
      BY <1>0, <2>b, <2>10, <3>2, <3>3
      DEF TypeOK, SkipGateway, Goto, SearchOf, Searching, Reserve
    <3>. QED
      BY <1>0, <2>c, <3>1, <3>4 DEF IInv
  <2>11. CASE TryAddress(p)
    <3>1. StoreInv' /\ GatewayInv' /\ LeasedInv'
      BY <1>0, <2>0, <2>11 DEF IInv, TypeOK, TryAddress, Goto, StoreInv, SearchOf,
         GatewayInv, LeasedInv, GatewayNeverLeased, Net, Searching, Empty
    <3>2. ip[p] \in StartIP..LastIP /\ Passed(p, ip[p]) /\ nextIP(ip[p]) = ip[p] + 1
          /\ ip[p] + 1 \in Candidates
      BY <2>0, <2>11, NextIP DEF TryAddress, Goto, SearchOf, Candidates
    <3>3. pc'[p] = "reserve" /\ ip'[p] = ip[p] + 1
      BY <1>0, <2>11, <3>2 DEF TypeOK, TryAddress, Goto
    <3>4. \A hi \in Int : hi = ip[p] => Passed(p, hi)'
      BY <2>b, <2>11, <3>2 DEF TryAddress, Goto, Searching, Reserve
    <3>5. Passed(p, ip[p] - 1)'
      BY <2>0, <3>3, <3>4
    <3>6. ConfiguredGateway # NoGateway => ip'[p] # GatewayIP
      BY <2>0, <2>11, <3>2, <3>3 DEF TryAddress
    <3>7. SearchOf(p)'
      BY <3>2, <3>3, <3>5, <3>6 DEF SearchOf
    <3>. QED
      BY <1>0, <2>c, <3>1, <3>7 DEF IInv
  <2>12. CASE Reserve(p)
    <3>1. StoreInv' /\ GatewayInv' /\ LeasedInv'
      BY <1>0, <2>0, <2>12 DEF IInv, TypeOK, Reserve, Goto, StoreInv, SearchOf,
         GatewayInv, LeasedInv, GatewayNeverLeased, Net, Searching, Empty
    <3>2. SearchOf(p)'
      BY <1>0, <2>0, <2>b, <2>12 DEF IInv, TypeOK, Reserve, Goto, SearchOf, Searching
    <3>. QED
      BY <1>0, <2>c, <3>1, <3>2 DEF IInv
  <2>13. CASE ReserveTaken(p)
    <3>1. StoreInv' /\ GatewayInv' /\ LeasedInv'
      BY <1>0, <2>0, <2>13 DEF IInv, TypeOK, ReserveTaken, Goto, StoreInv, SearchOf,
         GatewayInv, LeasedInv, GatewayNeverLeased, Net, Searching, Empty
    <3>2. Passed(p, ip[p]) /\ ip[p] \in StartIP..LastIP
      BY <2>0, <2>13 DEF ReserveTaken, Goto, SearchOf, Passed, Candidates
    <3>3. SearchOf(p)'
      BY <1>0, <2>b, <2>13, <3>2
      DEF TypeOK, ReserveTaken, Goto, SearchOf, Searching, Reserve
    <3>. QED
      BY <1>0, <2>c, <3>1, <3>3 DEF IInv
  <2>14. CASE ReleaseByID(p)
    <3>1. StoreInv' /\ GatewayInv' /\ LeasedInv'
      BY <1>0, <2>0, <2>14 DEF IInv, TypeOK, ReleaseByID, Goto, StoreInv, SearchOf,
         GatewayInv, LeasedInv, GatewayNeverLeased, Net, Searching, Empty
    <3>2. SearchOf(p)'
      BY <1>0, <2>0, <2>b, <2>14 DEF IInv, TypeOK, ReleaseByID, Goto, SearchOf, Searching
    <3>. QED
      BY <1>0, <2>c, <3>1, <3>2 DEF IInv
  <2>. QED
    BY <1>2, <2>1, <2>2, <2>3, <2>4, <2>5, <2>6, <2>7, <2>8, <2>9, <2>10,
       <2>11, <2>12, <2>13, <2>14 DEF Step
<1>3. CASE UNCHANGED vars
  BY <1>0, <1>3 DEF IInv, vars, StoreInv, GatewayInv, SearchInv, SearchOf,
     LeasedInv, GatewayNeverLeased, Passed, Net
<1>. QED
  BY <1>1, <1>2, <1>3 DEF Next

LEMMA Invariance == Spec => []IInv
  BY InvInit, InvNext, PTL DEF Spec

\* NoMoreAddressesError is only returned when every address of the subnet that
\* AllocateIP may give was taken as the search passed it, for any number of
\* requests on any networks, serialised by the caller or not.
THEOREM ExhaustionTruthful == Spec => []ExhaustedIsTruthful
<1>1. IInv => ExhaustedIsTruthful
  BY AddressAssumption
  DEF IInv, SearchInv, SearchOf, Passed, ExhaustedIsTruthful, Candidates
<1>. QED
  BY <1>1, Invariance, PTL

\* When the configuration names the gateway, so that AllocateIP never writes
\* config.Gateway, no container is ever given the gateway's address.
THEOREM GatewaySafe ==
  ASSUME ConfiguredGateway # NoGateway
  PROVE  Spec => []GatewayNeverLeased
<1>1. IInv => GatewayNeverLeased
  BY DEF IInv, LeasedInv
<1>. QED
  BY <1>1, Invariance, PTL

-----------------------------------------------------------------------------
LEMMA LeaseInit == Init => LeaseInv
  BY ConfigAssumption
  DEF Init, LeaseInv, Exclusive, NotFoundBy, OneLeasePerContainer, Held, Empty,
      Resting, Searching

\* Only a request inside a call moves, and it does not change which call.
LEMMA MoverIsBusy ==
  ASSUME TypeOK, NEW p \in Procs, Step(p)
  PROVE  pc[p] \notin Resting /\ req' = req
  BY DEF TypeOK, Step, getConfig, getStore, ContainsVisit, ContainsEnd,
     GatewayIsNil, GatewayIsSet, SetGateway, PublishGateway, NoMoreAddresses,
     SkipGateway, TryAddress, Reserve, ReserveTaken, ReleaseByID, Goto, Resting

LEMMA LeaseNext ==
  ASSUME Serialised, IInv, LeaseInv, [Next]_vars
  PROVE  LeaseInv'
<1> USE ConfigAssumption
<1>0. TypeOK /\ TypeOK' /\ StoreInv
  BY TypeNext DEF IInv
<1>1. ASSUME NEW p \in Procs, NEW r \in Calls, Call(p, r) PROVE LeaseInv'
  <2>1. Exclusive'
    BY <1>0, <1>1 DEF LeaseInv, TypeOK, Call, Exclusive, SameContainer, Resting
  <2>2. OneLeasePerContainer'
    BY <1>1 DEF LeaseInv, Call, OneLeasePerContainer, Held
  <2>3. ASSUME NEW q \in Procs PROVE NotFoundBy(q)'
    BY <1>0, <1>1 DEF LeaseInv, TypeOK, Call, NotFoundBy, Net, Id, Searching
  <2>. QED
    BY <2>1, <2>2, <2>3 DEF LeaseInv
<1>2. ASSUME NEW p \in Procs, Step(p) PROVE LeaseInv'
  <2>0. /\ Net(p) \in Networks /\ Id(p) \in Containers /\ req' = req
        /\ pc[p] \notin Resting
    BY <1>0, <1>2, MoverIsBusy DEF TypeOK, Net, Id, Calls
  <2>1. Exclusive'
    BY <1>0, <1>2, <2>0, OthersStay DEF LeaseInv, Exclusive
  <2>2. CASE Reserve(p)
    <3>1. /\ ip[p] \in Candidates
          /\ \A a \in Candidates : allocated[Net(p)][a] # Id(p)
      BY <2>2 DEF IInv, SearchInv, SearchOf, LeaseInv, NotFoundBy, Reserve, Goto,
         Searching
    <3>2. \A n \in Networks, a \in Candidates :
            allocated'[n][a] = IF n = Net(p) /\ a = ip[p] THEN Id(p)
                                                         ELSE allocated[n][a]
      BY <1>0, <2>0, <2>2, <3>1 DEF TypeOK, Reserve
    <3>3. OneLeasePerContainer'
      BY <2>0, <3>1, <3>2 DEF LeaseInv, OneLeasePerContainer, Held
    <3>4. ASSUME NEW q \in Procs PROVE NotFoundBy(q)'
      <4>1. CASE q = p
        BY <1>0, <2>2, <4>1 DEF TypeOK, Reserve, Goto, NotFoundBy, Searching
      <4>2. CASE q # p
        <5>1. /\ Net(q)' = Net(q) /\ Id(q)' = Id(q) /\ Net(q) \in Networks
              /\ pc'[q] = pc[q] /\ todo'[q] = todo[q]
          BY <1>0, <1>2, <2>0, <4>2, OthersStay DEF TypeOK, Net, Id, Calls
        <5>2. pc[q] \notin Resting => ~(Net(q) = Net(p) /\ Id(q) = Id(p))
          BY <2>0, <4>2 DEF LeaseInv, Exclusive, SameContainer, Net, Id
        <5>. QED
          BY <3>2, <5>1, <5>2 DEF LeaseInv, NotFoundBy, Searching, Resting
      <4>. QED
        BY <4>1, <4>2
    <3>. QED
      BY <2>1, <3>3, <3>4 DEF LeaseInv
  <2>3. CASE ~Reserve(p)
    <3>1. \A n \in Networks, a \in Candidates :
            allocated'[n][a] \in {allocated[n][a], Nil}
      <4>1. CASE ReleaseByID(p)
        BY <1>0, <2>0, <4>1 DEF TypeOK, ReleaseByID
      <4>2. CASE UNCHANGED <<allocated, freed>>
        BY <4>2
      <4>. QED
        BY <1>0, <1>2, <2>3, <4>1, <4>2, LeasesMove
    <3>2. OneLeasePerContainer'
      BY <3>1 DEF LeaseInv, OneLeasePerContainer, Held
    <3>3. ASSUME NEW q \in Procs PROVE NotFoundBy(q)'
      <4>0. /\ Net(q)' = Net(q) /\ Id(q)' = Id(q) /\ Net(q) \in Networks
            /\ Id(q) \in Containers
        BY <1>0, <2>0 DEF TypeOK, Net, Id, Calls
      <4>1. CASE q # p
        <5>1. pc'[q] = pc[q] /\ todo'[q] = todo[q]
          BY <1>0, <1>2, <4>1, OthersStay
        <5>. QED
          BY <3>1, <4>0, <5>1 DEF LeaseInv, NotFoundBy
      <4>2. CASE q = p /\ getStore(p)
        BY <1>0, <4>2 DEF TypeOK, getStore, Goto, NotFoundBy, Searching
      <4>3. CASE q = p /\ ContainsVisit(p)
        BY <1>0, <4>0, <4>3 DEF TypeOK, ContainsVisit, LeaseInv, NotFoundBy, Searching, Net, Id
      <4>4. CASE q = p /\ ~getStore(p) /\ ~ContainsVisit(p)
        <5>1. pc'[p] \in (Searching \cup {"contains"}) \ {"exhausted"} =>
                /\ pc[p] \in (Searching \cup {"contains"}) \ {"exhausted"}
                /\ pc'[p] # "contains" /\ todo'[p] = todo[p] /\ todo'[p] = {}
          BY <1>0, <1>2, <2>3, <4>4 DEF LeaseInv, NotFoundBy, TypeOK, Step,
             getConfig, ContainsEnd, GatewayIsNil, GatewayIsSet, SetGateway,
             PublishGateway, NoMoreAddresses, SkipGateway, TryAddress,
             ReserveTaken, ReleaseByID, Goto, Searching
        <5>. QED
          BY <3>1, <4>0, <4>4, <5>1 DEF LeaseInv, NotFoundBy
      <4>. QED
        BY <4>1, <4>2, <4>3, <4>4
    <3>. QED
      BY <2>1, <3>2, <3>3 DEF LeaseInv
  <2>. QED
    BY <2>2, <2>3
<1>3. CASE UNCHANGED vars
  BY <1>3 DEF vars, LeaseInv, Exclusive, OneLeasePerContainer, Held, NotFoundBy,
     Net, Id
<1>. QED
  BY <1>1, <1>2, <1>3 DEF Next

LEMMA LeaseInvariance ==
  ASSUME Serialised
  PROVE  Spec => [](IInv /\ LeaseInv)
<1>1. IInv /\ LeaseInv /\ [Next]_vars => IInv' /\ LeaseInv'
  BY InvNext, LeaseNext
<1>. QED
  BY <1>1, InvInit, LeaseInit, PTL DEF Spec

\* If the caller never has two calls in flight for a container on a network,
\* Contains and Reserve need not be one critical section: no container ever
\* holds two addresses of a network.
THEOREM OneLease ==
  ASSUME Serialised
  PROVE  Spec => []OneLeasePerContainer
<1>1. IInv /\ LeaseInv => OneLeasePerContainer
  BY DEF LeaseInv
<1>. QED
  BY <1>1, LeaseInvariance, PTL

-----------------------------------------------------------------------------
\* A step of the allocator is a step of the table, or changes no lease.
LEMMA StepSimulation ==
  ASSUME IInv, LeaseInv, [Next]_vars
  PROVE  [Table!Next]_allocated
<1>0. TypeOK /\ StoreInv
  BY DEF IInv
<1>1. ASSUME NEW p \in Procs, NEW r \in Calls, Call(p, r)
      PROVE  UNCHANGED allocated
  BY <1>1 DEF Call
<1>2. ASSUME NEW p \in Procs, Step(p) PROVE [Table!Next]_allocated
  <2>0. Net(p) \in Networks /\ Id(p) \in Containers
    BY <1>0 DEF TypeOK, Net, Id, Calls
  <2>1. CASE Reserve(p)
    <3>1. ip[p] \in Candidates /\ \A b \in Candidates : allocated[Net(p)][b] # Id(p)
      BY <2>1 DEF IInv, SearchInv, SearchOf, LeaseInv, NotFoundBy, Reserve, Goto,
         Searching
    <3>2. Table!Grant(Net(p), Id(p), ip[p])
      BY <2>1, <3>1 DEF Table!Grant, Reserve
    <3>. QED
      BY <2>0, <3>1, <3>2 DEF Table!Next
  <2>2. CASE ReleaseByID(p)
    <3>1. Table!Revoke(Net(p), Id(p))
      BY <2>2 DEF Table!Revoke, ReleaseByID
    <3>. QED
      BY <2>0, <3>1 DEF Table!Next
  <2>. QED
    BY <1>0, <1>2, <2>1, <2>2, LeasesMove
<1>3. CASE UNCHANGED vars
  BY <1>3 DEF vars
<1>. QED
  BY <1>1, <1>2, <1>3 DEF Next

\* The allocator implements the table of leases: an address is only given
\* while it is free, to a container that has none, and is only taken back by
\* ReleaseIP of the container that holds it.
THEOREM Refinement ==
  ASSUME Serialised
  PROVE  Spec => LeasesAreATable
<1>1. Init => Table!Init
  BY DEF Init, Table!Init, Empty, Table!Empty
<1>2. IInv /\ LeaseInv /\ [Next]_vars => [Table!Next]_allocated
  BY StepSimulation
<1>. QED
  BY <1>1, <1>2, LeaseInvariance, PTL DEF Spec, LeasesAreATable, Table!Spec
=============================================================================
