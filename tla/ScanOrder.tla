------------------------------- MODULE ScanOrder -------------------------------
(***************************************************************************)
(* What a call of ScanNetworks probes, from its arguments to the packets:  *)
(* in a SYN scan newTargetSpace numbers the targets, checkAddressFamilies  *)
(* looks for their sockets, and sendProbes walks the numbers in the        *)
(* shuffled order, finding each one's pair and, through a bounded cache    *)
(* (source_ip.go), the source address for it.                              *)
(*                                                                         *)
(* How probes share slots, time out and are answered is SynScan, which     *)
(* leaves the order open.                                                  *)
(***************************************************************************)
EXTENDS Permutation, ScanTargets

CONSTANTS
    Route(_),              \* the source the kernel has for a sixteen-byte address, or Nil
    maxSourceIpCacheSize

ASSUME OrderParameters ==
    /\ W = U64 /\ maxSourceIpCacheSize \in Nat
    /\ Nil \notin {"raw4", "raw6"} \cup [network : Nat, address : IPs, port : Int]

VARIABLES
    phase,    \* "prepare", "probe", "refused", or "failed" if sendProbes gave up with an error
    entries,  \* the cache: from keys to sources
    probes    \* what was sent: [network, address, port, source, socket]

probeVars == <<phase, entries, probes>>
all == <<targetVars, vars, probeVars>>

----------------------------------------------------------------------------
\* listener_handler.Connection: the raw socket of the family, which is the IPv4 one for mapped
\* addresses.
Connection(address) ==
    IF To4(address) # Nil THEN "raw4" ELSE IF skipIpv6 THEN Nil ELSE "raw6"

\* KernelSourceIp: a destination of IPv4 has its source in four bytes.
KernelSourceIp(destination) ==
    LET source == Route(To16(destination).n) IN
    IF source # Nil /\ To4(destination) # Nil /\ To4(source) # Nil THEN To4(source) ELSE source

\* cachedSourceIpResolver.  Mutant: the key is the octets as they are.
KeyAsGiven(destination) == destination.n
Key(destination) == To16(destination).n

Resolved(destination) ==
    IF Key(destination) \in DOMAIN entries THEN entries[Key(destination)]
    ELSE KernelSourceIp(destination)

EntriesAfter(destination) ==
    IF \/ Key(destination) \in DOMAIN entries
       \/ Resolved(destination) = Nil
       \/ Cardinality(DOMAIN entries) >= maxSourceIpCacheSize
    THEN entries
    ELSE [x \in DOMAIN entries \cup {Key(destination)} |->
            IF x = Key(destination) THEN Resolved(destination) ELSE entries[x]]

----------------------------------------------------------------------------
\* Before the shuffle is drawn its fields are those of a space of one target.
StartOrder ==
    /\ StartScan
    /\ size = 1 /\ a = 1 /\ b = 1 /\ seed \in Seeds
    /\ i = 0 /\ c = 0 /\ order = <<>> /\ steps = 0
    /\ phase = "prepare" /\ entries = << >> /\ probes = <<>>

Prepare ==
    /\ ScanSyn
    /\ UNCHANGED <<vars, probeVars>>

HasSockets == \A j \in 1..Len(laid) : Connection(Address(laid[j].width, laid[j].first)) # Nil

RefuseFamily ==
    /\ phase = "prepare" /\ result = "ok" /\ ~HasSockets
    /\ phase' = "refused"
    /\ UNCHANGED <<targetVars, vars, entries, probes>>

\* permutation.New for the size of the space.
StartProbing ==
    /\ phase = "prepare" /\ result = "ok" /\ HasSockets
    /\ phase' = "probe"
    /\ size' = Size
    /\ a' \in Roots(Size) /\ b' = RoundedUp(Size, a')
    /\ UNCHANGED <<targetVars, seed, i, c, order, steps, entries, probes>>

WalkOn ==
    /\ phase = "probe" /\ Walk
    /\ UNCHANGED <<targetVars, probeVars>>

\* The rest of an iteration of sendProbes.  A target without a source address is skipped.
Probe ==
    /\ phase = "probe" /\ Land
    /\ LET target == Target(Encrypt(c)) IN
       IF target = Nil \/ target.address = Nil
       THEN phase' = "failed" /\ UNCHANGED <<entries, probes>>
       ELSE LET source == Resolved(target.address) socket == Connection(target.address) IN
            /\ entries' = EntriesAfter(target.address)
            /\ phase' = IF source # Nil /\ socket = Nil THEN "failed" ELSE phase
            /\ probes' = IF source = Nil \/ socket = Nil THEN probes
                         ELSE Append(probes, [network |-> target.network,
                                address |-> target.address, port |-> target.port,
                                source |-> source, socket |-> socket])
    /\ UNCHANGED targetVars

Expand ==
    /\ ScanConnect
    /\ UNCHANGED <<vars, probeVars>>

Returned ==
    /\ mode = "syn"
    /\ phase \in {"refused", "failed"} \/ result \notin {None, "ok"} \/ (phase = "probe" /\ i = size)
    /\ UNCHANGED all

SendProbes == WalkOn \/ Probe
OrderNext ==
    Prepare \/ RefuseFamily \/ StartProbing \/ SendProbes \/ Expand \/ Returned

OrderSpec == StartOrder /\ [][OrderNext]_all

----------------------------------------------------------------------------
\* Every variable has its type, and the cache keeps to its bound.
OrderTypeOK ==
    /\ TargetsTypeOK /\ TypeOK
    /\ phase \in {"prepare", "probe", "refused", "failed"}
    /\ Cardinality(DOMAIN entries) =< maxSourceIpCacheSize
    /\ Len(probes) =< i

\* "every address of every network, combined with every port" (targets.go:26-28), and each with the
\* source "the kernel will put on a packet" (source_ip.go:25): when the loop has ended, one probe
\* went out for every pair of the scan's arguments that has a source, none for anything else, and
\* each with the source of its own address and on a socket of its family.  On the way no count has
\* wrapped, no index fell beside its network, and no target was left without a socket although
\* all families were checked up front.
EachPairIsProbed ==
    /\ phase # "failed"
    /\ (phase = "probe" /\ i = size) =>
         LET due == {q \in Covered : KernelSourceIp(q.address) # Nil} IN
         /\ Range(probes) =
               {[network |-> q.network, address |-> q.address, port |-> q.port,
                 source |-> KernelSourceIp(q.address),
                 socket |-> IF To4(q.address) # Nil THEN "raw4" ELSE "raw6"] : q \in due}
         /\ Len(probes) = Cardinality(due)
================================================================================
