------------------------------ MODULE ScanTargets ------------------------------
(***************************************************************************)
(* What a call of ScanNetworks probes (pkg/port_scanner/port_scanner.go):  *)
(* the pairs of the target space in a SYN scan, the ports as given at the  *)
(* addresses of expandNetworks in a connect scan.                          *)
(***************************************************************************)
EXTENDS TargetSpace

CONSTANT maxConnectAddresses

\* An IPv6 network of more than the IPv4 space is refused before the walk of expandNetworks can get
\* to the IPv4-mapped addresses, where Contains would end it.
ASSUME BoundBelowIpv4 == maxConnectAddresses \in Nat /\ maxConnectAddresses < Space4

VARIABLES
    mode,       \* config.Mode
    skipIpv6,   \* config.SkipIpv6
    at,         \* the network expandNetworks is at
    current,    \* the address it is at
    addresses,  \* the addresses of a connect scan
    expanded    \* how expandNetworks ended

Expansion == INSTANCE ConnectTargets WITH k <- at, result <- expanded

layoutVars == <<given, ports, k, total, laid, counts, result>>
expansionVars == <<at, current, addresses, expanded>>
targetVars == <<networks, mode, skipIpv6, layoutVars, expansionVars>>

\* ScanNetworks rejects empty arguments in either mode; newTargetSpace looks at them again.
StartScan ==
    /\ SpaceInit /\ Expansion!Init
    /\ mode \in {"syn", "connect"}
    /\ mode = "connect" => networks # <<>> /\ given # <<>>

ScanSyn ==
    /\ mode = "syn"
    /\ NewTargetSpace
    /\ UNCHANGED <<mode, skipIpv6, expansionVars>>

ScanConnect ==
    /\ mode = "connect"
    /\ Expansion!Next
    /\ UNCHANGED <<mode, layoutVars>>

----------------------------------------------------------------------------
\* Every variable of either mode has its type.
TargetsTypeOK == SpaceTypeOK /\ Expansion!TypeOK

\* connect.go:191-218: what is dialled are the hosts of the networks, all of them and no other
\* address, each as often as the networks repeat it: an IPv4 network is the same in its four-byte
\* and sixteen-byte forms, and no walk wraps around the end of the address space.  An IPv4 address
\* under a mask of less than the IPv4-mapped prefix counts as a network without hosts, which the
\* code passes over.
AddressesAreTheHosts == Expansion!AddressesAreTheHosts

\* "a mistyped prefix is otherwise a run that never ends rather than an error"
\* (connect.go:22-25): a connect scan is refused if, and only if, its networks have more hosts than
\* the bound, counted together, where a mask too short for its IPv4 address counts none; a SYN scan
\* only if one has more addresses than it can count, or the pairs of the networks seen so far,
\* counted without wrapping, exceed an int64.
RefusedIfTooMany == Expansion!RefusedIfTooMany /\ RefusedOnlyIfLarge
===============================================================================
