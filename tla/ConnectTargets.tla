---------------------------- MODULE ConnectTargets ----------------------------
(***************************************************************************)
(* The addresses of a connect scan: expandNetworks, with normaliseNetwork, *)
(* isNetworkOrBroadcast and incrementAddress, of                           *)
(* pkg/port_scanner/connect.go.  It walks each network address by address. *)
(***************************************************************************)
EXTENDS Addresses, Functions

CONSTANTS
    NetworkLists,         \* the networks of a scan
    maxConnectAddresses,  \* the bound on the addresses of a scan, below the IPv4 space's
    None                  \* no result

VARIABLES
    networks, skipIpv6,  \* what expandNetworks was called with
    k,                   \* the network the outer loop is at
    current,             \* the address the inner loop is at, or Nil outside it
    addresses,           \* what has been enumerated
    result               \* "ok" or "tooMany"

input == <<networks, skipIpv6>>
vars == <<input, k, current, addresses, result>>

----------------------------------------------------------------------------
\* normaliseNetwork: address and mask at one width.  A sixteen-byte mask keeps the whole
\* IPv4-mapped prefix (isIpv4MappedMask) if it leaves no more than the IPv4 hosts.
MaskIsMapped(mask) == mask.hosts \in 1..Space4
Normalised(network) ==
    LET four == To4(network.ip) mask == network.mask IN
    IF four # Nil /\ mask.width = 4 THEN [ip |-> four, mask |-> mask]
    ELSE IF four # Nil /\ MaskIsMapped(mask) THEN [ip |-> four, mask |-> [mask EXCEPT !.width = 4]]
    ELSE IF mask.width = 6 THEN [ip |-> To16(network.ip), mask |-> mask]
    ELSE network

\* Mutant: the address and mask are taken as they are.
AsGiven(network) == network
WalkedAs(network) == Normalised(network)

First(net) == Masked(net.ip.n, net.mask.hosts)
Last(net) == First(net) + net.mask.hosts - 1

\* What the loop passes over: no network, no usable mask, IPv6 when it is to be left out.
IsSkipped(network) ==
    IF network = Nil THEN TRUE
    ELSE LET net == WalkedAs(network) IN
         \/ net.ip.width # net.mask.width
         \/ skipIpv6 /\ To4(net.ip) = Nil
         \/ net.mask.hosts = 0

\* IPNet.Contains takes an IPv4-mapped address for the IPv4 one, that of the network too, whose
\* sixteen-byte mask it then cuts to the last four bytes.
Reduced(address) == IF To4(address) # Nil THEN To4(address) ELSE address
ReducedHosts(net) ==
    IF To4(net.ip) # Nil /\ net.mask.hosts > Space4 THEN Space4 ELSE net.mask.hosts
Contains(net, address) ==
    LET x == Reduced(address) ip == Reduced(net.ip) IN
    x.width = ip.width /\ x.n \in Block(ip.n, ReducedHosts(net))

\* isNetworkOrBroadcast, of a network that has more than two addresses.  Mutant: of any network.
EdgeOfAny(net, n) == net.mask.width = 4 /\ n \in {First(net), Last(net)}
IsEdge(net, n) == net.mask.width = 4 /\ net.mask.hosts > 2 /\ n \in {First(net), Last(net)}

----------------------------------------------------------------------------
Init ==
    /\ networks \in NetworkLists /\ skipIpv6 \in BOOLEAN
    /\ k = 1 /\ current = Nil /\ addresses = <<>> /\ result = None

Skip ==
    /\ result = None /\ current = Nil /\ k =< Len(networks)
    /\ IsSkipped(networks[k])
    /\ k' = k + 1
    /\ UNCHANGED <<input, current, addresses, result>>

\* The condition of the inner loop, for the address it has come to.
WalkTo(net, address) ==
    IF Contains(net, address) THEN current' = address /\ UNCHANGED k
    ELSE current' = Nil /\ k' = k + 1

Enter ==
    /\ result = None /\ current = Nil /\ k =< Len(networks)
    /\ ~IsSkipped(networks[k])
    /\ LET net == WalkedAs(networks[k]) IN WalkTo(net, Address(net.ip.width, First(net)))
    /\ UNCHANGED <<input, addresses, result>>

\* incrementAddress; the inner loop ends where the address wraps, or leaves the network.
Advance(net) ==
    LET n == (current.n + 1) % Space(current.width) IN
    IF n = 0 THEN current' = Nil /\ k' = k + 1 ELSE WalkTo(net, Address(current.width, n))

Full == Len(addresses) >= maxConnectAddresses

\* One iteration of the inner loop: an edge, an address, or one too many.
PassEdge ==
    /\ result = None /\ current # Nil
    /\ LET net == WalkedAs(networks[k]) IN IsEdge(net, current.n) /\ Advance(net)
    /\ UNCHANGED <<input, addresses, result>>

Enumerate ==
    /\ result = None /\ current # Nil
    /\ ~Full
    /\ LET net == WalkedAs(networks[k]) IN ~IsEdge(net, current.n) /\ Advance(net)
    /\ addresses' = Append(addresses, current)
    /\ UNCHANGED <<input, result>>

Refuse ==
    /\ result = None /\ current # Nil
    /\ Full /\ ~IsEdge(WalkedAs(networks[k]), current.n)
    /\ result' = "tooMany"
    /\ UNCHANGED <<input, k, current, addresses>>

Finish ==
    /\ result = None /\ current = Nil /\ k > Len(networks)
    /\ result' = "ok"
    /\ UNCHANGED <<input, k, current, addresses>>

Finished == result # None /\ UNCHANGED vars

Next == Skip \/ Enter \/ PassEdge \/ Enumerate \/ Refuse \/ Finish \/ Finished

Spec == Init /\ [][Next]_vars

----------------------------------------------------------------------------
\* Every variable has its type.
TypeOK ==
    /\ skipIpv6 \in BOOLEAN
    /\ k \in 1..(Len(networks) + 1)
    /\ current = Nil \/ current.n \in 0..(Space(current.width) - 1)
    /\ Len(addresses) =< maxConnectAddresses
    /\ result \in {None, "ok", "tooMany"}

\* The hosts of a network that is one: the addresses that agree with it in the masked bits, at
\* one width, without the network and broadcast addresses of an IPv4 network of more than two.
\* An IPv4 address, in either form, under a mask of less than the IPv4-mapped prefix has none: the
\* code means to treat it as the IPv6 network it is (connect.go:257-259), but the first Contains is
\* false, and it is passed over without an error.
IsNetwork(network) ==
    /\ network # Nil
    /\ network.mask.hosts # 0
    /\ network.mask.width = 6 \/ To4(network.ip) # Nil
IsIpv4(network) == To4(network.ip) # Nil /\ network.mask.hosts =< Space4
HostsOf(network) ==
    IF ~IsNetwork(network) THEN {}
    ELSE IF IsIpv4(network)
    THEN LET n == To4(network.ip).n h == network.mask.hosts IN
         {Address(4, x) : x \in Block(n, h) \ (IF h > 2 THEN {Masked(n, h), Masked(n, h) + h - 1}
                                               ELSE {})}
    ELSE IF To4(network.ip) # Nil \/ skipIpv6 THEN {}
    ELSE {Address(6, x) : x \in Block(network.ip.n, network.mask.hosts)}

NumHosts == Cardinality(UNION {{n} \X HostsOf(networks[n]) : n \in 1..Len(networks)})

\* connect.go:191-218: what is dialled are the hosts of the networks, all of them and no other
\* address, each as often as the networks repeat it: an IPv4 network is the same in its four-byte
\* and sixteen-byte forms, and no walk wraps around the end of the address space.  An IPv4 address
\* under a mask of less than the IPv4-mapped prefix counts as a network without hosts (HostsOf).
AddressesAreTheHosts ==
    result = "ok" =>
        /\ Range(addresses) = UNION {HostsOf(networks[n]) : n \in 1..Len(networks)}
        /\ Len(addresses) = NumHosts

\* "a mistyped prefix is otherwise a run that never ends rather than an error"
\* (connect.go:22-25): a scan is refused if, and only if, its networks have more hosts than the
\* bound, counted together, where a mask too short for its IPv4 address counts none: that mistyped
\* prefix is passed over, however many addresses it leaves.
RefusedIfTooMany ==
    /\ result = "tooMany" => NumHosts > maxConnectAddresses
    /\ result = "ok" => NumHosts =< maxConnectAddresses
================================================================================
