------------------------------- MODULE Config -------------------------------
(***************************************************************************)
(* The daemon's configuration: config/daemon.go, and the check on it that  *)
(* cmd/ducatid/main.go adds before it starts anything.                     *)
(*                                                                         *)
(* Addresses are numbers. A network in CIDR notation is the address that   *)
(* is written in it and the number of addresses its mask leaves. A field   *)
(* is Missing (empty or zero), Bad (it does not parse) or its value.       *)
(***************************************************************************)
EXTENDS Integers

CONSTANTS
  Missing, Bad,
  IndexTop      \* the largest index that makes an octet of "${index}"

\* A network whose octet may be "${index}": step is what that octet counts
\* for, or 0 where there is no "${index}".
Subnets == [ip : Nat, size : Nat \ {0}, step : Nat]

\* The fields of type Daemon that ParseAndValidate looks at, those it parses
\* and those it only wants to be there.
Parsed == {"LocalSubnet", "OverlayNetwork", "ExternalDNSServer",
           "OverlayDNSAddress", "HostAddress"}
Opaque == {"Database", "ListenHost", "ListenPort", "SandboxDir", "Suffix"}
Required == Parsed \cup Opaque

\* net.IPNet.Contains: the masked addresses are the same.
Contains(net, a) == a \div net.size = net.ip \div net.size

\* strings.Replace of "${index}". A number that is no octet does not parse.
Interpolated(net, index) ==
  IF net.step > 0 /\ index \notin 0..IndexTop THEN Bad
  ELSE [ip |-> net.ip + net.step * index, size |-> net.size]

\* ParseCIDR returns the address and the masked network: the overlay is the
\* network, the local subnet keeps the address with the mask.
Masked(net) == [ip |-> (net.ip \div net.size) * net.size, size |-> net.size]

Addresses(net) == Masked(net).ip..(Masked(net).ip + net.size - 1)

\* Whether ParseAndValidate returns a configuration. Each test is an early
\* return of its own.
Valid(d) ==
  /\ \A f \in Required : d[f] # Missing
  /\ d.Database # Bad                  \* PostgresURL fails
  /\ d.LocalSubnet # Bad /\ Interpolated(d.LocalSubnet, d.Index) # Bad
  /\ d.OverlayNetwork # Bad
  /\ d.OverlayDNSAddress # Bad /\ Contains(Masked(d.OverlayNetwork), d.OverlayDNSAddress)
  /\ d.ExternalDNSServer # Bad
  /\ d.HostAddress # Bad /\ d.HostAddress # 0      \* IsUnspecified

\* type ValidatedConfig, as far as another component uses it.
ParseAndValidate(d) ==
  [LocalSubnet       |-> Interpolated(d.LocalSubnet, d.Index),
   OverlayNetwork    |-> Masked(d.OverlayNetwork),
   OverlayDNSAddress |-> d.OverlayDNSAddress,
   HostAddress       |-> d.HostAddress]

\* What a configuration file can be: there is none, it is not JSON (Bad), or
\* it is decoded into a Daemon.
Readable(file) == file \notin {Missing, Bad}

\* Mutant: main does not compare the local subnet with the overlay.
AcceptedUnchecked(file) == Readable(file) /\ Valid(file)

\* ParseConfigFile succeeds, and main finds the local subnet's address in the
\* overlay network. Otherwise the daemon exits.
Accepted(file) ==
  /\ Readable(file) /\ Valid(file)
  /\ LET conf == ParseAndValidate(file)
     IN Contains(conf.OverlayNetwork, conf.LocalSubnet.ip)

\* The addresses the allocator may lease under a configuration: those behind
\* the address in the local subnet, but for the first, which is the gateway.
Leasable(conf) ==
  {a \in Addresses(conf.LocalSubnet) : a > conf.LocalSubnet.ip + 1}
=============================================================================
