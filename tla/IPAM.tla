-------------------------------- MODULE IPAM --------------------------------
(***************************************************************************)
(* The IP allocator: ipam/allocator.go over the in-memory stores of        *)
(* ipam/memory_store.go. Every HTTP request runs in a goroutine of its     *)
(* own, so AllocateIP and ReleaseIP of several requests interleave. A step *)
(* of the model is a critical section of the code (getConfig, getStore,    *)
(* Reserve, ReleaseByID hold a lock from end to end) or one access to      *)
(* memory that no lock protects: Contains iterates over the map unlocked,  *)
(* and AllocateIP reads and writes config.Gateway unlocked.                *)
(*                                                                         *)
(* Addresses are numbers. FirstIP..LastIP is what config.IP contains,      *)
(* StartIP is config.IP.IP, which ParseCIDR does not mask, and             *)
(* LowIP..TopIP are the numbers whose big-endian encoding has exactly the  *)
(* four bytes of an IPv4 address (1.0.0.0 to 255.255.255.255).             *)
(***************************************************************************)
EXTENDS Integers

CONSTANTS
  Networks, Containers, \* network and container identifiers
  Procs,                \* request goroutines
  FirstIP, LastIP,      \* the subnet
  StartIP,              \* where the search for an address starts
  LowIP, TopIP,         \* the four-byte numbers
  ConfiguredGateway,    \* config.Gateway as the factory makes it, or
                        \*   NoGateway
  Serialised,           \* TRUE: the caller has at most one call in flight
                        \*   for a container on a network
  Nil                   \* the absence of a container

ASSUME AddressAssumption ==
  /\ {LowIP, TopIP, FirstIP, LastIP, StartIP} \subseteq Int
  /\ LowIP <= FirstIP /\ LastIP <= TopIP
  /\ StartIP \in FirstIP..LastIP

-----------------------------------------------------------------------------
\* A value whose encoding does not have four bytes: To4 of it is nil, no
\* subnet contains it and it equals no address.
Malformed == LowIP - 1

\* A Gateway field that is nil, and one whose slice header is half written.
\* Neither equals an address.
NoGateway == LowIP - 2
Torn == LowIP - 3

ASSUME ConfigAssumption ==
  /\ Nil \notin Containers
  /\ ConfiguredGateway \in FirstIP..LastIP \cup {NoGateway}
  /\ Serialised \in BOOLEAN

\* big.Int addition: one past 255.255.255.255 has five bytes, and the
\* successor of a value To4 rejects is the one-byte 1.
nextIP(ip) == IF ip \in LowIP..(TopIP - 1) THEN ip + 1 ELSE Malformed

\* The addresses the search can reach.
Candidates == (StartIP + 1)..LastIP

\* The gateway a network has once its first allocation is over.
GatewayIP == IF ConfiguredGateway = NoGateway THEN nextIP(StartIP)
                                        ELSE ConfiguredGateway

VARIABLES
  configs,    \* networks that have an entry in allocator.configs
  gateway,    \* gateway[n]: the Gateway field of configs[n]
  stores,     \* networks that have an entry in allocator.stores
  allocated,  \* allocated[n][a]: container that reserved a, or Nil
  pc,         \* where each request is, or how its last call ended
  req,        \* the call each request makes: op, network, id
  ip,         \* local variable ip of AllocateIP
  todo,       \* addresses Contains has not visited yet
  freed       \* history: addresses freed on the network since the search began

vars == <<configs, gateway, stores, allocated, pc, req, ip, todo, freed>>

\* A request that is not inside a call; the others than "idle" are
\* the outcomes of AllocateIP.
Resting == {"idle", "granted", "already", "exhausted"}

Calls == [op : {"allocate", "release"}, network : Networks, id : Containers]

TypeOK ==
  /\ configs \subseteq Networks /\ stores \subseteq Networks
  /\ gateway \in [Networks -> Int]
  /\ allocated \in [Networks -> [Candidates -> Containers \cup {Nil}]]
  /\ pc \in [Procs -> Resting \cup {"getConfig", "getStore", "contains",
                "pickStart", "setGateway", "publishGateway", "next",
                "reserve", "release"}]
  /\ req \in [Procs -> Calls]
  /\ ip \in [Procs -> Int]
  /\ todo \in [Procs -> SUBSET Candidates]
  /\ freed \in [Procs -> SUBSET Candidates]

Empty == [a \in Candidates |-> Nil]

Init ==
  /\ configs = {} /\ stores = {}
  /\ gateway = [n \in Networks |-> ConfiguredGateway]
  /\ allocated = [n \in Networks |-> Empty]
  /\ pc = [p \in Procs |-> "idle"]
  /\ req \in [Procs -> Calls]
  /\ \A p, q \in Procs : req[p] = req[q]
  /\ ip = [p \in Procs |-> StartIP]
  /\ todo = [p \in Procs |-> {}]
  /\ freed = [p \in Procs |-> {}]

Net(p) == req[p].network
Id(p) == req[p].id
Goto(p, from, to) == pc[p] = from /\ pc' = [pc EXCEPT ![p] = to]
SameContainer(r, s) == r.network = s.network /\ r.id = s.id

-----------------------------------------------------------------------------
\* A handler calls AllocateIP (op "allocate") or ReleaseIP (op "release").
Call(p, r) ==
  /\ pc[p] \in Resting
  /\ Serialised => \A q \in Procs :
                     pc[q] \in Resting \/ ~SameContainer(req[q], r)
  /\ req' = [req EXCEPT ![p] = r]
  /\ pc' = [pc EXCEPT ![p] =
              IF r.op = "allocate" THEN "getConfig" ELSE "getStore"]
  /\ ip' = [ip EXCEPT ![p] = StartIP]
  /\ freed' = [freed EXCEPT ![p] = {}]
  /\ UNCHANGED <<configs, gateway, stores, allocated, todo>>

\* Under configLocker; ConfigFactory.Create always succeeds.
getConfig(p) ==
  /\ Goto(p, "getConfig", "getStore")
  /\ configs' = configs \cup {Net(p)}
  /\ gateway' = IF Net(p) \in configs THEN gateway
                ELSE [gateway EXCEPT ![Net(p)] = ConfiguredGateway]
  /\ UNCHANGED <<stores, allocated, req, ip, todo, freed>>

\* Mutant: the lookup in allocator.stores is lost, each call makes a store.
getStoreAlwaysNew(p) ==
  /\ Goto(p, "getStore",
          IF req[p].op = "allocate" THEN "contains" ELSE "release")
  /\ stores' = stores \cup {Net(p)}
  /\ allocated' = [allocated EXCEPT ![Net(p)] = Empty]
  /\ todo' = [todo EXCEPT ![p] = Candidates]
  /\ UNCHANGED <<configs, gateway, req, ip, freed>>

\* Under storeLocker; StoreFactory.Create always succeeds. Contains is next
\* in AllocateIP, with the whole map to visit, and ReleaseByID in ReleaseIP.
getStore(p) ==
  /\ Goto(p, "getStore",
          IF req[p].op = "allocate" THEN "contains" ELSE "release")
  /\ stores' = stores \cup {Net(p)}
  /\ allocated' = IF Net(p) \in stores THEN allocated
                  ELSE [allocated EXCEPT ![Net(p)] = Empty]
  /\ todo' = [todo EXCEPT ![p] = Candidates]
  /\ UNCHANGED <<configs, gateway, req, ip, freed>>

\* Contains takes no lock: other requests write to the map between two of
\* its steps, and the map is visited in no particular order.
ContainsVisit(p) ==
  /\ pc[p] = "contains"
  /\ \E a \in todo[p] :
       /\ pc' = [pc EXCEPT ![p] =
                   IF allocated[Net(p)][a] = Id(p) THEN "already" ELSE "contains"]
       /\ todo' = [todo EXCEPT ![p] =
                     IF allocated[Net(p)][a] = Id(p) THEN {} ELSE @ \ {a}]
  /\ UNCHANGED <<configs, gateway, stores, allocated, req, ip, freed>>

\* Mutant: Contains stops after a part of the map.
ContainsStopsEarly(p) ==
  /\ Goto(p, "contains", "pickStart")
  /\ UNCHANGED <<configs, gateway, stores, allocated, req, ip, todo, freed>>

ContainsEnd(p) ==
  /\ Goto(p, "contains", "pickStart")
  /\ todo[p] = {}
  /\ UNCHANGED <<configs, gateway, stores, allocated, req, ip, todo, freed>>

\* config.Gateway == nil compares the pointer word of the slice header. Half
\* written, the pointer may be there already or not.
GatewayIsNil(p) ==
  /\ Goto(p, "pickStart", "setGateway")
  /\ gateway[Net(p)] \in {NoGateway, Torn}
  /\ ip' = [ip EXCEPT ![p] = nextIP(StartIP)]
  /\ UNCHANGED <<configs, gateway, stores, allocated, req, todo, freed>>

GatewayIsSet(p) ==
  /\ Goto(p, "pickStart", "next")
  /\ gateway[Net(p)] # NoGateway
  /\ ip' = [ip EXCEPT ![p] = StartIP]
  /\ UNCHANGED <<configs, gateway, stores, allocated, req, todo, freed>>

\* config.Gateway = ip stores a three-word header without a lock; over a
\* header that was already written the new one has the same length, so a
\* reader that mixes the two still sees the address.
SetGateway(p) ==
  /\ Goto(p, "setGateway", "publishGateway")
  /\ gateway' = [gateway EXCEPT ![Net(p)] = IF @ = NoGateway THEN Torn ELSE @]
  /\ UNCHANGED <<configs, stores, allocated, req, ip, todo, freed>>

PublishGateway(p) ==
  /\ Goto(p, "publishGateway", "next")
  /\ gateway' = [gateway EXCEPT ![Net(p)] = ip[p]]
  /\ UNCHANGED <<configs, stores, allocated, req, ip, todo, freed>>

-----------------------------------------------------------------------------
\* Mutant: the last address of the subnet is taken for the first outside.
NoMoreAddressesEarly(p) ==
  /\ Goto(p, "next", "exhausted")
  /\ nextIP(ip[p]) \notin FirstIP..(LastIP - 1)
  /\ ip' = [ip EXCEPT ![p] = nextIP(ip[p])]
  /\ UNCHANGED <<configs, gateway, stores, allocated, req, todo, freed>>

\* One iteration of the loop: the next address is outside the subnet ...
NoMoreAddresses(p) ==
  /\ Goto(p, "next", "exhausted")
  /\ nextIP(ip[p]) \notin FirstIP..LastIP
  /\ ip' = [ip EXCEPT ![p] = nextIP(ip[p])]
  /\ UNCHANGED <<configs, gateway, stores, allocated, req, todo, freed>>

\* ... or the gateway (Equal is false of a header without its length) ...
SkipGateway(p) ==
  /\ Goto(p, "next", "next")
  /\ nextIP(ip[p]) \in FirstIP..LastIP
  /\ gateway[Net(p)] = nextIP(ip[p])
  /\ ip' = [ip EXCEPT ![p] = nextIP(ip[p])]
  /\ UNCHANGED <<configs, gateway, stores, allocated, req, todo, freed>>

\* Mutant: the comparison with the gateway is gone.
TryAnyAddress(p) ==
  /\ Goto(p, "next", "reserve")
  /\ nextIP(ip[p]) \in FirstIP..LastIP
  /\ ip' = [ip EXCEPT ![p] = nextIP(ip[p])]
  /\ UNCHANGED <<configs, gateway, stores, allocated, req, todo, freed>>

\* ... or one to reserve.
TryAddress(p) ==
  /\ Goto(p, "next", "reserve")
  /\ nextIP(ip[p]) \in FirstIP..LastIP
  /\ gateway[Net(p)] # nextIP(ip[p])
  /\ ip' = [ip EXCEPT ![p] = nextIP(ip[p])]
  /\ UNCHANGED <<configs, gateway, stores, allocated, req, todo, freed>>

\* Mutant: key and value of the map are swapped.
ReserveSwapped(p) ==
  /\ Goto(p, "reserve", "granted")
  /\ allocated[Net(p)][ip[p]] = Nil
  /\ allocated' = [allocated EXCEPT ![Net(p)] = [@ EXCEPT ![ip[p]] = ip[p]]]
  /\ freed' = [freed EXCEPT ![p] = {}]
  /\ UNCHANGED <<configs, gateway, stores, req, ip, todo>>

\* Store.Reserve under the store's lock: the key is free, and the call ends
\* with this address ...
Reserve(p) ==
  /\ Goto(p, "reserve", "granted")
  /\ allocated[Net(p)][ip[p]] = Nil
  /\ allocated' = [allocated EXCEPT ![Net(p)] = [@ EXCEPT ![ip[p]] = Id(p)]]
  /\ freed' = [freed EXCEPT ![p] = {}]
  /\ UNCHANGED <<configs, gateway, stores, req, ip, todo>>

\* Mutant: the loop advances twice after a failed Reserve.
ReserveTakenSkips(p) ==
  /\ Goto(p, "reserve", "next")
  /\ allocated[Net(p)][ip[p]] # Nil
  /\ ip' = [ip EXCEPT ![p] = nextIP(@)]
  /\ UNCHANGED <<configs, gateway, stores, allocated, req, todo, freed>>

\* Mutant: the loop tries the same address again.
ReserveTakenRetries(p) ==
  /\ Goto(p, "reserve", "reserve")
  /\ allocated[Net(p)][ip[p]] # Nil
  /\ UNCHANGED <<configs, gateway, stores, allocated, req, ip, todo, freed>>

\* ... or it is taken, and the loop goes on.
ReserveTaken(p) ==
  /\ Goto(p, "reserve", "next")
  /\ allocated[Net(p)][ip[p]] # Nil
  /\ UNCHANGED <<configs, gateway, stores, allocated, req, ip, todo, freed>>

\* Requests whose answer depends on what is free, and the one that got it.
Searching == {"pickStart", "setGateway", "publishGateway", "next", "reserve",
              "exhausted"}

Held(n, c) == {a \in Candidates : allocated[n][a] = c}

\* Store.ReleaseByID under the store's lock: every key of this id goes.
ReleaseByID(p) ==
  /\ Goto(p, "release", "idle")
  /\ allocated' = [allocated EXCEPT ![Net(p)] =
                     [a \in Candidates |-> IF @[a] = Id(p) THEN Nil ELSE @[a]]]
  /\ freed' = [q \in Procs |->
                 IF Net(q) = Net(p) /\ pc[q] \in Searching
                 THEN freed[q] \cup Held(Net(p), Id(p)) ELSE freed[q]]
  /\ UNCHANGED <<configs, gateway, stores, req, ip, todo>>

-----------------------------------------------------------------------------
\* Everything a request does once it is called.
Step(p) ==
  \/ getConfig(p) \/ getStore(p)
  \/ ContainsVisit(p) \/ ContainsEnd(p)
  \/ GatewayIsNil(p) \/ GatewayIsSet(p) \/ SetGateway(p) \/ PublishGateway(p)
  \/ NoMoreAddresses(p) \/ SkipGateway(p) \/ TryAddress(p)
  \/ Reserve(p) \/ ReserveTaken(p) \/ ReleaseByID(p)

Next == \E p \in Procs : Step(p) \/ \E r \in Calls : Call(p, r)

Spec == Init /\ [][Next]_vars

\* A goroutine that can run is run eventually, and no lock of this package is
\* held across a step of the model.
FairSpec == Spec /\ \A p \in Procs : WF_vars(Step(p))

-----------------------------------------------------------------------------
\* A container holds at most one address of a network. AllocateIP refuses a
\* container the store Contains, but Contains and Reserve are two critical
\* sections with the whole search between them.
OneLeasePerContainer ==
  \A n \in Networks, c \in Containers :
    \A a, b \in Held(n, c) : a = b

\* No container is given the address of the gateway: allocator.go compares
\* every address with config.Gateway before it reserves it.
GatewayNeverLeased ==
  \A n \in Networks, a \in Candidates : a = GatewayIP => allocated[n][a] = Nil

\* NoMoreAddressesError is the truth: when the loop of AllocateIP leaves the
\* subnet, every address it could have given is leased, or was until another
\* request released it while this one was searching.
ExhaustedIsTruthful ==
  \A p \in Procs : pc[p] = "exhausted" =>
    \A a \in Candidates \ {GatewayIP} :
      allocated[Net(p)][a] # Nil \/ a \in freed[p]

Table == INSTANCE LeaseTable WITH lease <- allocated, Addresses <- Candidates

\* The allocator implements the table of leases of LeaseTable.
LeasesAreATable == Table!Spec

\* Every call to AllocateIP and ReleaseIP returns, whatever the other
\* requests do: the loop of AllocateIP always makes progress through the
\* subnet.
CallsReturn == \A p \in Procs : []<>(pc[p] \in Resting)
=============================================================================
