------------------------------ MODULE TargetSpace ------------------------------
(***************************************************************************)
(* The target space of a SYN scan: newTargetSpace lays the networks out    *)
(* one after the other, counting their (address, port) pairs in unsigned   *)
(* arithmetic that wraps, and Target finds the pair of an index.           *)
(* pkg/port_scanner/targets.go.                                            *)
(***************************************************************************)
EXTENDS Addresses, Functions

CONSTANTS
    NetworkLists,  \* the networks of a scan
    PortLists,     \* the ports of a scan
    MaxPort,       \* maxPort
    MaxHosts,      \* 2^maxHostBits
    U64,           \* the number of values of a uint64
    None           \* no result

MaxCount == U64 \div 2 - 1

ASSUME SpaceParameters ==
    /\ NetworkLists \subseteq Seq(IPNets \cup {Nil}) /\ PortLists \subseteq Seq(Int)
    /\ U64 \in Nat \ {0, 1} /\ MaxHosts \in Nat /\ MaxHosts < U64 /\ MaxPort \in Nat
    /\ None \notin Nat \cup {"ok", "invalid", "nil", "mask", "tooMany"}

VARIABLES
    networks, given,  \* what newTargetSpace was called with
    ports,            \* the ports, each once and in order
    k,                \* the network the loop is at
    total,            \* the pairs so far
    laid,             \* space.networks: [width, first, hosts]
    counts,           \* space.cumulativeCounts
    result            \* "ok", or the error

spaceVars == <<networks, given, ports, k, total, laid, counts, result>>

NumPorts == Len(ports)

\* slices.Sort and slices.Compact: the elements of a list, in order and each once.
Increasing(seq) == \A x, y \in 1..Len(seq) : x < y => seq[x] < seq[y]
SortedSets(S) == {seq \in [1..Cardinality(S) -> S] : Increasing(seq)}

Folded(list) == SortedSets(Range(list))

----------------------------------------------------------------------------
\* multiply and add.  Mutant: an exclusive bound.
AddedBelow(x, y) == IF x + y < MaxCount THEN x + y ELSE None
Multiplied(x, y) == IF x * y < U64 /\ x * y =< MaxCount THEN x * y ELSE None
Added(x, y) == IF x + y < U64 /\ x + y =< MaxCount THEN x + y ELSE None

NextTotal ==
    LET count == Multiplied(networks[k].mask.hosts, NumPorts) IN
    IF count = None THEN None ELSE Added(total, count)

\* normalizeNetwork: the error, or the network with its address masked.
Widened(network) == IF network.mask.width = 4 THEN To4(network.ip) ELSE To16(network.ip)
NetworkError(network) ==
    IF network = Nil THEN "nil"
    ELSE IF network.mask.hosts = 0 \/ Widened(network) = Nil THEN "mask"
    ELSE IF network.mask.hosts > MaxHosts THEN "tooMany" ELSE "none"

Laid(network) ==
    [width |-> network.mask.width, first |-> Masked(Widened(network).n, network.mask.hosts),
     hosts |-> network.mask.hosts]

SpaceInit ==
    /\ networks \in NetworkLists /\ given \in PortLists
    /\ ports = <<>> /\ k = 1 /\ total = 0 /\ laid = <<>> /\ counts = <<>> /\ result = None

\* The arguments are looked at before the networks.
RejectArguments ==
    /\ result = None /\ ports = <<>>
    /\ networks = <<>> \/ given = <<>> \/ \E p \in Range(given) : p \notin 1..MaxPort
    /\ result' = "invalid"
    /\ UNCHANGED <<networks, given, ports, k, total, laid, counts>>

FoldPorts ==
    /\ result = None /\ ports = <<>>
    /\ networks # <<>> /\ given # <<>> /\ Range(given) \subseteq 1..MaxPort
    /\ ports' \in Folded(given)
    /\ UNCHANGED <<networks, given, k, total, laid, counts, result>>

\* One iteration of the loop over the networks.
RejectNetwork ==
    /\ result = None /\ ports # <<>> /\ k =< Len(networks)
    /\ NetworkError(networks[k]) # "none"
    /\ result' = NetworkError(networks[k])
    /\ UNCHANGED <<networks, given, ports, k, total, laid, counts>>

RejectCount ==
    /\ result = None /\ ports # <<>> /\ k =< Len(networks)
    /\ NetworkError(networks[k]) = "none"
    /\ NextTotal = None
    /\ result' = "tooMany"
    /\ UNCHANGED <<networks, given, ports, k, total, laid, counts>>

LayOut ==
    /\ result = None /\ ports # <<>> /\ k =< Len(networks)
    /\ NetworkError(networks[k]) = "none"
    /\ NextTotal # None
    /\ total' = NextTotal
    /\ laid' = Append(laid, Laid(networks[k]))
    /\ counts' = Append(counts, total')
    /\ k' = k + 1
    /\ UNCHANGED <<networks, given, ports, result>>

Finish ==
    /\ result = None /\ ports # <<>> /\ k > Len(networks)
    /\ result' = "ok"
    /\ UNCHANGED <<networks, given, ports, k, total, laid, counts>>

NewTargetSpace ==
    RejectArguments \/ FoldPorts \/ RejectNetwork \/ RejectCount \/ LayOut \/ Finish

----------------------------------------------------------------------------
\* Size, and Target with the binary search of sort.Search: the first network that ends beyond
\* the index.  A pair is [network, address, port]; the errors are strings.
Size == IF counts = <<>> THEN 0 ELSE counts[Len(counts)]

EndsBeyond(j, index) == counts[j] > index

FoundIn(j, index) == EndsBeyond(j, index) /\ \A l \in 1..(j - 1) : ~EndsBeyond(l, index)
Start(j) == IF j = 1 THEN 0 ELSE counts[j - 1]

\* nthAddress, which does not leave the address space.
NthAddress(network, n) ==
    IF network.first + n >= Space(network.width) THEN Nil
    ELSE Address(network.width, network.first + n)

PairIn(j, offset) ==
    [network |-> j, address |-> NthAddress(laid[j], offset \div NumPorts),
     port |-> ports[1 + (offset % NumPorts)]]

Target(index) ==
    IF \A j \in 1..Len(counts) : ~EndsBeyond(j, index) THEN Nil
    ELSE LET j == CHOOSE j \in 1..Len(counts) : FoundIn(j, index) IN PairIn(j, index - Start(j))

----------------------------------------------------------------------------
\* Every variable has its type.
SpaceTypeOK ==
    /\ networks \in NetworkLists /\ given \in PortLists
    /\ ports \in Seq(1..MaxPort)
    /\ k \in 1..(Len(networks) + 1)
    /\ total \in 0..MaxCount
    /\ laid \in Seq([width : {4, 6}, first : Nat, hosts : Nat])
    /\ counts \in Seq(0..MaxCount)
    /\ result \in {None, "ok", "invalid", "nil", "mask", "tooMany"}

\* The pairs of a scan, read off its arguments: each port once with each address of each network.
Pairs == {[network |-> j, address |-> Address(networks[j].mask.width, n), port |-> p] :
            j \in 1..Len(networks), n \in 0..(Space6 - 1), p \in Range(given)}
Covered == {q \in Pairs :
              q.address.n \in Block(Widened(networks[q.network]).n, networks[q.network].mask.hosts)}

\* A scan is only refused as too large when it is: a network has more than MaxHosts addresses,
\* or the pairs of the networks seen so far, counted without wrapping, exceed an int64.
RefusedOnlyIfLarge ==
    result = "tooMany" =>
        \/ networks[k].mask.hosts > MaxHosts
        \/ total + networks[k].mask.hosts * NumPorts > MaxCount
================================================================================
