------------------------------- MODULE Addresses -------------------------------
(***************************************************************************)
(* Addresses and networks as net.IP and net.IPNet have them: an address is *)
(* a number of one of two widths, and the IPv4 addresses are also the      *)
(* IPv4-mapped ones of the wider space.  A mask is known by its width and  *)
(* by how many addresses it leaves in a network.                           *)
(***************************************************************************)
EXTENDS Integers, Sequences, FiniteSets

CONSTANTS
    Space4,  \* the number of four-byte addresses (2^32)
    Space6,  \* the number of sixteen-byte addresses (2^128)
    Mapped,  \* the first IPv4-mapped address
    Nil      \* no address, no network

ASSUME AddressParameters ==
    /\ Space4 \in Nat \ {0, 1} /\ Space6 \in Nat \ {0}
    /\ Mapped \in Nat /\ Mapped + Space4 =< Space6
    /\ Mapped % (2 * Space4) = Space4  \* the prefix of the mapped addresses ends in ones

Space(width) == IF width = 4 THEN Space4 ELSE Space6

\* net.IP, net.IPMask and net.IPNet.  A mask of no prefix has 0 hosts, and so has Size() = 0, 0.  A
\* prefix leaves a power of two of them: they divide the space, and are at most the IPv4 addresses or
\* a multiple of twice as many.
IPs == [width : {4}, n : 0..(Space4 - 1)] \cup [width : {6}, n : 0..(Space6 - 1)]
Masks ==
    {mask \in [width : {4, 6}, hosts : Nat] :
        mask.hosts # 0 =>
            /\ Space(mask.width) % mask.hosts = 0
            /\ Space4 % mask.hosts = 0 \/ mask.hosts % (2 * Space4) = 0}
IPNets == [ip : IPs, mask : Masks]

ASSUME NilIsNothing == Nil \notin IPs \cup IPNets

Address(width, n) == [width |-> width, n |-> n]
IsMapped(address) == address.width = 6 /\ address.n \in Mapped..(Mapped + Space4 - 1)

To4(address) ==
    IF address.width = 4 THEN address
    ELSE IF IsMapped(address) THEN Address(4, address.n - Mapped) ELSE Nil
To16(address) == IF address.width = 6 THEN address ELSE Address(6, Mapped + address.n)

\* IP.Mask, for an address and a prefix of one width; the block is the network's addresses.
Masked(n, hosts) == n - (n % hosts)
Block(n, hosts) == Masked(n, hosts)..(Masked(n, hosts) + hosts - 1)
================================================================================
