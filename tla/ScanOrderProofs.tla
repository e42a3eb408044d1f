----------------------------- MODULE ScanOrderProofs -----------------------------
(***************************************************************************)
(* What a call of ScanNetworks probes, for every list of networks and of   *)
(* ports, every shuffle and every source address the kernel may have.      *)
(*                                                                         *)
(* The numbers of the target space and the pairs of the arguments are in   *)
(* one-to-one correspondence (SpaceInv, and the lemmas about Target); the  *)
(* loop visits every number once (PermutationProofs); and what it has sent *)
(* is what was due of the numbers it has visited (ProbesAreDue).           *)
(***************************************************************************)
EXTENDS ScanOrder, PermutationProofs, SequenceTheorems, WellFoundedInduction

----------------------------------------------------------------------------
\* Blocks of addresses.

\* A multiple is followed by the next one.
LEMMA NextMultiple ==
    ASSUME NEW m \in Nat, NEW u \in Nat, NEW v \in Nat, u < v
    PROVE  m * u + m =< m * v
<1>1. m * (u + 1) =< m * v
  OBVIOUS
<1> QED BY <1>1

\* A divisor goes into a number a whole number of times.
LEMMA Quotient ==
    ASSUME NEW h \in Nat \ {0}, NEW n \in Nat
    PROVE  /\ n % h \in 0..(h - 1)
           /\ \E q \in Nat : n - (n % h) = h * q
           /\ n % h = 0 => \E q \in Nat : n = h * q
<1>1. n = h * (n \div h) + (n % h) /\ n \div h \in Nat /\ n % h \in 0..(h - 1)
  OBVIOUS
<1> DEFINE d == n \div h
<1>2. d \in Nat /\ n - (n % h) = h * d /\ (n % h = 0 => n = h * d)
  BY <1>1
<1> HIDE DEF d
<1> QED BY <1>1, <1>2

\* The products that count the pairs.
LEMMA TimesAssociates ==
    ASSUME NEW x \in Nat, NEW y \in Nat, NEW z \in Nat
    PROVE  (x * y) * z = x * (y * z) /\ y * z \in Nat
OBVIOUS

\* A masked address is the first of a block that does not leave a space it divides.
LEMMA BlockInSpace ==
    ASSUME NEW h \in Nat \ {0}, NEW s \in Nat, s % h = 0, NEW n \in 0..(s - 1)
    PROVE  /\ Masked(n, h) \in Nat /\ Masked(n, h) + h =< s
           /\ n \in Masked(n, h)..(Masked(n, h) + h - 1)
<1>1. PICK q \in Nat : n - (n % h) = h * q
  <2>1. n \in Nat
    OBVIOUS
  <2> QED BY <2>1, Quotient
<1>2. PICK t \in Nat : s = h * t
  BY Quotient
<1>3. n % h \in 0..(h - 1)
  OBVIOUS
<1>4. h * q \in Nat /\ h * t \in Nat /\ h * q =< n /\ n < h * t
  BY <1>1, <1>2, <1>3
<1>5. q < t
  <2> SUFFICES ASSUME t =< q PROVE FALSE
    OBVIOUS
  <2>1. h * t =< h * q
    OBVIOUS
  <2> QED BY <1>4, <2>1
<1>6. h * q + h =< s
  BY <1>2, <1>5, NextMultiple
<1> DEFINE f == h * q
<1>7. f \in Nat /\ f + h =< s /\ n - (n % h) = f
  BY <1>1, <1>4, <1>6
<1> HIDE DEF f
<1> QED BY <1>3, <1>7 DEF Masked

\* A block has only IPv4-mapped addresses or none, or it begins with as many others as there are
\* mapped ones.
LEMMA MappedBlock ==
    ASSUME NEW h \in Nat \ {0}, Space4 % h = 0 \/ h % (2 * Space4) = 0, NEW q \in Nat,
           NEW x \in (h * q)..(h * q + h - 1), x \in Mapped..(Mapped + Space4 - 1)
    PROVE  \/ h =< Space4 /\ \A y \in (h * q)..(h * q + h - 1) : y \in Mapped..(Mapped + Space4 - 1)
           \/ h > Space4 /\ h * q \notin Mapped..(Mapped + Space4 - 1) /\ h * q + Space4 =< Mapped
<1>0. Space4 \in Nat \ {0, 1} /\ Mapped \in Nat /\ Mapped % (2 * Space4) = Space4 /\ h * q \in Nat
  BY AddressParameters
<1>1. PICK t \in Nat : Mapped = (2 * Space4) * t + Space4
  <2>1. 2 * Space4 \in Nat \ {0}
    BY <1>0
  <2>2. PICK t \in Nat : Mapped - (Mapped % (2 * Space4)) = (2 * Space4) * t
    BY <1>0, <2>1, Quotient
  <2> QED BY <1>0, <2>2
<1>2. CASE Space4 % h = 0
  <2>1. PICK s \in Nat : Space4 = h * s
    BY <1>0, <1>2, Quotient
  <2>2. PICK u \in Nat : Mapped = h * u
    <3>1. (2 * (h * s)) * t = h * (2 * s * t) /\ h * (2 * s * t + s) = h * (2 * s * t) + h * s
      OBVIOUS
    <3>2. Mapped = h * (2 * s * t + s) /\ 2 * s * t + s \in Nat
      BY <1>1, <2>1, <3>1
    <3> QED BY <3>2
  <2>3. Mapped + Space4 = h * (u + s)
    BY <2>1, <2>2
  <2>4. u =< q
    <3> SUFFICES ASSUME q < u PROVE FALSE
      OBVIOUS
    <3>1. h * q + h =< h * u
      BY NextMultiple
    <3> QED BY <1>0, <2>2, <3>1
  <2>5. q < u + s
    <3> SUFFICES ASSUME u + s =< q PROVE FALSE
      OBVIOUS
    <3>1. h * (u + s) =< h * q
      OBVIOUS
    <3> QED BY <1>0, <2>3, <3>1
  <2>6. h * u =< h * q
    BY <2>4
  <2>7. h * q + h =< h * (u + s)
    BY <2>5, NextMultiple
  <2>8. h =< Space4
    <3>1. s # 0
      BY <1>0, <2>1
    <3>2. h * 1 =< h * s
      BY <3>1
    <3> QED BY <2>1, <3>2
  <2> QED BY <1>0, <2>2, <2>3, <2>6, <2>7, <2>8
<1>3. CASE h % (2 * Space4) = 0
  <2> DEFINE D == 2 * Space4
  <2>0. D \in Nat \ {0} /\ D = Space4 + Space4
    BY <1>0
  <2>1. PICK v \in Nat : h = D * v
    BY <1>3, <2>0, Quotient
  <2>2. h * q = D * (v * q) /\ v * q \in Nat
    BY <2>0, <2>1, TimesAssociates
  <2>7. Mapped = D * t + Space4
    BY <1>1
  <2> HIDE DEF D
  <2>3. v * q =< t
    <3> SUFFICES ASSUME t < v * q PROVE FALSE
      BY <2>2
    <3>1. D * t + D =< D * (v * q)
      BY <2>0, <2>2, NextMultiple
    <3> QED BY <1>0, <2>0, <2>2, <2>7, <3>1
  <2>4. D * (v * q) =< D * t
    BY <2>0, <2>2, <2>3
  <2>5. D * 1 =< D * v
    <3>1. v # 0
      BY <2>0, <2>1
    <3> QED BY <2>0, <3>1
  <2> QED BY <1>0, <2>0, <2>1, <2>2, <2>4, <2>5, <2>7
<1> QED BY <1>2, <1>3

----------------------------------------------------------------------------
\* Addresses.  The sixteen-byte form of an address tells whether it is one of IPv4.
LEMMA Forms ==
    ASSUME NEW x \in IPs
    PROVE  /\ x = Address(x.width, x.n) /\ x.width \in {4, 6} /\ x.n \in 0..(Space(x.width) - 1)
           /\ x # Nil
           /\ To16(x) \in IPs /\ To16(x).width = 6
           /\ To4(x) # Nil <=> To16(x).n \in Mapped..(Mapped + Space4 - 1)
           /\ To4(x) # Nil => To4(x) \in IPs /\ To4(x).width = 4
<1>0. Space4 \in Nat /\ Space6 \in Nat /\ Mapped \in Nat /\ Mapped + Space4 =< Space6 /\ Nil \notin IPs
  BY AddressParameters, NilIsNothing
<1>1. \A n \in 0..(Space4 - 1) : Address(4, n) \in IPs /\ Address(4, n).width = 4 /\ Address(4, n).n = n
  BY DEF Address, IPs
<1>2. \A n \in 0..(Space6 - 1) : Address(6, n) \in IPs /\ Address(6, n).width = 6 /\ Address(6, n).n = n
  BY DEF Address, IPs
<1>3. x = Address(x.width, x.n) /\ x.width \in {4, 6} /\ x.n \in 0..(Space(x.width) - 1)
  BY DEF IPs, Address, Space
<1>4. CASE x.width = 4
  <2>1. x.n \in 0..(Space4 - 1) /\ Mapped + x.n \in 0..(Space6 - 1)
    BY <1>0, <1>3, <1>4 DEF Space
  <2>2. To4(x) = x /\ To16(x) = Address(6, Mapped + x.n)
    BY <1>4 DEF To4, To16
  <2> QED BY <1>0, <1>2, <1>3, <1>4, <2>1, <2>2
<1>5. CASE x.width = 6
  <2>1. To16(x) = x /\ x.n \in 0..(Space6 - 1)
    BY <1>3, <1>5 DEF To16, Space
  <2>2. CASE IsMapped(x)
    <3>1. x.n \in Mapped..(Mapped + Space4 - 1) /\ x.n - Mapped \in 0..(Space4 - 1)
      BY <1>0, <2>1, <2>2 DEF IsMapped
    <3>2. To4(x) = Address(4, x.n - Mapped)
      BY <1>5, <2>2 DEF To4
    <3> QED BY <1>0, <1>1, <1>3, <1>5, <2>1, <3>1, <3>2
  <2>3. CASE ~IsMapped(x)
    <3>1. To4(x) = Nil /\ x.n \notin Mapped..(Mapped + Space4 - 1)
      BY <1>5, <2>3 DEF To4, IsMapped
    <3> QED BY <1>0, <1>3, <1>5, <2>1, <3>1
  <2> QED BY <2>2, <2>3
<1> QED BY <1>3, <1>4, <1>5

\* The source of an address depends on nothing but its key, so the cache may go by that.
LEMMA SourceOfKey ==
    ASSUME NEW x \in IPs, NEW y \in IPs, Key(x) = Key(y)
    PROVE  KernelSourceIp(x) = KernelSourceIp(y)
<1>1. To4(x) # Nil <=> To4(y) # Nil
  BY Forms DEF Key
<1> QED BY <1>1 DEF Key, KernelSourceIp

----------------------------------------------------------------------------
\* The target space.

\* What newTargetSpace has laid out of the networks before the one it is at: one after the other,
\* without gaps, none twice.
LaidAt(j) ==
    /\ NetworkError(networks[j]) = "none" /\ laid[j] = Laid(networks[j])
    /\ counts[j] = Start(j) + laid[j].hosts * NumPorts
    /\ counts[j] =< total
    /\ \A l \in 1..(k - 1) : j < l => counts[j] =< Start(l)

SpaceInv ==
    /\ SpaceTypeOK
    /\ ports = <<>> => k = 1
    /\ ports # <<>> => /\ networks # <<>> /\ given # <<>>
                       /\ Increasing(ports) /\ Range(ports) = Range(given)
    /\ Len(laid) = k - 1 /\ Len(counts) = k - 1
    /\ total = IF k = 1 THEN 0 ELSE counts[k - 1]
    /\ \A j \in 1..(k - 1) : LaidAt(j)
    /\ result = "ok" => ports # <<>> /\ k = Len(networks) + 1

\* A function on 1..n is a sequence of n elements.
LEMMA FunctionIsSeq ==
    ASSUME NEW T, NEW n \in Nat, NEW f \in [1..n -> T]
    PROVE  f \in Seq(T) /\ Len(f) = n /\ DOMAIN f = 1..n
<1>1. f \in Seq(T)
  BY SeqDef
<1>2. Len(f) \in Nat /\ DOMAIN f = 1..Len(f)
  BY <1>1, LenProperties
<1>3. 1..n = 1..Len(f)
  BY <1>2
<1>4. n =< Len(f)
  BY <1>2, <1>3
<1>5. Len(f) =< n
  BY <1>2, <1>3
<1> QED BY <1>1, <1>2, <1>4, <1>5

\* The ports are those that were given, each once.
LEMMA SortedPorts ==
    ASSUME NEW S, S \subseteq 1..MaxPort, NEW seq \in SortedSets(S)
    PROVE  /\ seq \in Seq(1..MaxPort) /\ Increasing(seq) /\ Range(seq) = S
           /\ S # {} => seq # <<>>
<1> DEFINE n == Cardinality(S)
<1>0. MaxPort \in Int /\ 1 \in Int
  BY SpaceParameters
<1>1. IsFiniteSet(S) /\ n \in Nat
  <2>1. IsFiniteSet(1..MaxPort)
    BY <1>0, FS_Interval
  <2>2. S \in SUBSET (1..MaxPort)
    OBVIOUS
  <2>3. IsFiniteSet(S)
    BY <2>1, <2>2, FS_Subset
  <2> QED BY <2>3, FS_CardinalityType
<1>2. seq \in [1..n -> S] /\ Increasing(seq)
  BY DEF SortedSets
<1>3. IsFiniteSet(1..n) /\ Cardinality(1..n) = n
  BY <1>1, FS_Interval
<1> HIDE DEF n
<1>4. seq \in Seq(1..MaxPort) /\ Len(seq) = n /\ DOMAIN seq = 1..n
  <2>1. seq \in [1..n -> 1..MaxPort]
    BY <1>2
  <2> QED BY <1>1, <2>1, FunctionIsSeq
<1>5. \A x, y \in 1..n : seq[x] = seq[y] => x = y
  <2> TAKE x, y \in 1..n
  <2>1. x < y => seq[x] < seq[y]
    BY <1>2, <1>4 DEF Increasing
  <2>2. y < x => seq[y] < seq[x]
    BY <1>2, <1>4 DEF Increasing
  <2>3. x \in Int /\ y \in Int
    BY <1>1
  <2>4. seq[x] \in 1..MaxPort /\ seq[y] \in 1..MaxPort
    BY <1>2
  <2>5. seq[x] \in Int /\ seq[y] \in Int
    BY <1>0, <2>4
  <2> QED BY <2>1, <2>2, <2>3, <2>5
<1>6. seq \in Injection(1..n, S)
  BY <1>2, <1>5 DEF Injection, IsInjective
<1>7. seq \in Surjection(1..n, S)
  BY <1>1, <1>3, <1>6, FS_Injection DEF n
<1>8. Range(seq) = S
  BY <1>2, <1>4, <1>7 DEF Range, Surjection
<1> QED BY <1>2, <1>4, <1>8 DEF Range

\* The network a laid out one came from, and where it lies.
LEMMA LaidOut ==
    ASSUME NEW net \in IPNets \cup {Nil}, NetworkError(net) = "none"
    PROVE  /\ net \in IPNets /\ net.mask.width \in {4, 6}
           /\ Widened(net) \in IPs /\ Widened(net).width = net.mask.width
           /\ Laid(net) = [width |-> net.mask.width, first |-> Laid(net).first, hosts |-> net.mask.hosts]
           /\ Laid(net).first = Masked(Widened(net).n, net.mask.hosts)
           /\ Laid(net).first \in Nat /\ net.mask.hosts \in Nat \ {0}
           /\ Laid(net).first + net.mask.hosts =< Space(net.mask.width)
<1>1. net # Nil /\ net.mask.hosts # 0 /\ Widened(net) # Nil
  BY DEF NetworkError
<1>2. net \in IPNets /\ net.ip \in IPs /\ net.mask \in Masks
  BY <1>1 DEF IPNets
<1>3. net.mask.width \in {4, 6} /\ net.mask.hosts \in Nat \ {0} /\ Space(net.mask.width) % net.mask.hosts = 0
  BY <1>1, <1>2 DEF Masks
<1>4. Widened(net) \in IPs /\ Widened(net).width = net.mask.width
  BY <1>1, <1>2, <1>3, Forms DEF Widened
<1>5. Widened(net).n \in 0..(Space(net.mask.width) - 1) /\ Space(net.mask.width) \in Nat
  BY <1>4, Forms, AddressParameters DEF Space
<1>6. /\ Masked(Widened(net).n, net.mask.hosts) \in Nat
      /\ Masked(Widened(net).n, net.mask.hosts) + net.mask.hosts =< Space(net.mask.width)
  BY <1>3, <1>5, BlockInSpace
<1> QED BY <1>2, <1>3, <1>4, <1>6 DEF Laid

\* The counts of a network are added as they are, or not at all.
LEMMA NextTotalIs ==
    ASSUME total \in 0..MaxCount, networks[k].mask.hosts \in Nat, NumPorts \in Nat, NextTotal # None
    PROVE  NextTotal = total + networks[k].mask.hosts * NumPorts /\ NextTotal \in 0..MaxCount
<1> DEFINE count == networks[k].mask.hosts * NumPorts
<1>0. count \in Nat /\ MaxCount \in Int /\ None \notin Nat
  BY SpaceParameters DEF MaxCount
<1> HIDE DEF count
<1>1. Multiplied(networks[k].mask.hosts, NumPorts) \in {count, None}
  BY DEF Multiplied, count
<1>2. Multiplied(networks[k].mask.hosts, NumPorts) = count
  BY <1>1 DEF NextTotal
<1>3. NextTotal = Added(total, count)
  BY <1>0, <1>2 DEF NextTotal
<1>4. NextTotal = total + count /\ total + count =< MaxCount
  BY <1>3 DEF Added
<1> QED BY <1>0, <1>4 DEF count

\* A step that only sets the result leaves what is laid out as it is.
LEMMA LaidStays ==
    ASSUME SpaceInv, UNCHANGED <<networks, given, ports, k, total, laid, counts>>,
           result' \in {"ok", "invalid", "nil", "mask", "tooMany"},
           result' = "ok" => ports # <<>> /\ k = Len(networks) + 1
    PROVE  SpaceInv'
<1>1. ASSUME NEW j \in 1..(k - 1) PROVE LaidAt(j) => LaidAt(j)'
  BY DEF LaidAt, NetworkError, Laid, Widened, Start, NumPorts
<1>2. SpaceTypeOK'
  BY DEF SpaceInv, SpaceTypeOK
<1>3. \A j \in 1..(k' - 1) : LaidAt(j)'
  BY <1>1 DEF SpaceInv
<1>4. (ports # <<>> => Increasing(ports) /\ Range(ports) = Range(given))'
  BY DEF SpaceInv, Increasing, Range
<1> QED BY <1>2, <1>3, <1>4 DEF SpaceInv

\* Every step of newTargetSpace keeps SpaceInv.
LEMMA SpaceStep == ASSUME SpaceInv, NewTargetSpace PROVE SpaceInv'
<1>0. /\ networks \in Seq(IPNets \cup {Nil}) /\ given \in Seq(Int) /\ Len(networks) \in Nat /\ Len(given) \in Nat
      /\ NumPorts \in Nat /\ (ports # <<>> => NumPorts # 0) /\ (given # <<>> => Range(given) # {})
      /\ k \in 1..(Len(networks) + 1) /\ total \in 0..MaxCount /\ MaxCount \in Int
      /\ laid \in Seq([width : {4, 6}, first : Nat, hosts : Nat]) /\ counts \in Seq(0..MaxCount)
  <2>1. networks \in Seq(IPNets \cup {Nil}) /\ given \in Seq(Int)
    BY SpaceParameters DEF SpaceInv, SpaceTypeOK
  <2>2. given # <<>> => 1 \in DOMAIN given
    BY <2>1
  <2>3. given # <<>> => Range(given) # {}
    BY <2>2 DEF Range
  <2>4. NumPorts \in Nat /\ (ports # <<>> => NumPorts # 0)
    BY DEF SpaceInv, SpaceTypeOK, NumPorts
  <2>5. MaxCount \in Int
    BY SpaceParameters DEF MaxCount
  <2> QED BY <2>1, <2>3, <2>4, <2>5 DEF SpaceInv, SpaceTypeOK
<1>1. CASE RejectArguments
  BY <1>1, LaidStays DEF RejectArguments
<1>2. CASE FoldPorts
  <2>1. /\ result = None /\ ports = <<>> /\ networks # <<>> /\ given # <<>> /\ Range(given) \subseteq 1..MaxPort
        /\ ports' \in SortedSets(Range(given))
        /\ UNCHANGED <<networks, given, k, total, laid, counts, result>>
    BY <1>2 DEF FoldPorts, Folded
  <2>2. /\ ports' \in Seq(1..MaxPort) /\ Increasing(ports') /\ Range(ports') = Range(given)
        /\ ports' # <<>>
    BY <1>0, <2>1, SortedPorts
  <2>3. k = 1 /\ k' = 1
    BY <2>1 DEF SpaceInv
  <2>4. \A j \in 1..(k' - 1) : LaidAt(j)'
    BY <2>3
  <2>5. SpaceTypeOK'
    BY <2>1, <2>2 DEF SpaceInv, SpaceTypeOK
  <2>6. (Increasing(ports) /\ Range(ports) = Range(given))'
    BY <2>1, <2>2 DEF Increasing, Range
  <2>7. None # "ok"
    BY SpaceParameters
  <2> QED BY <2>1, <2>2, <2>3, <2>4, <2>5, <2>6, <2>7 DEF SpaceInv
<1>3. CASE RejectNetwork
  <2>1. NetworkError(networks[k]) \in {"nil", "mask", "tooMany"}
    BY <1>3 DEF RejectNetwork, NetworkError
  <2>2. result' \in {"nil", "mask", "tooMany"} /\ UNCHANGED <<networks, given, ports, k, total, laid, counts>>
    BY <1>3, <2>1 DEF RejectNetwork
  <2> QED BY <2>2, LaidStays
<1>4. CASE RejectCount
  BY <1>4, LaidStays DEF RejectCount
<1>5. CASE LayOut
  <2> DEFINE net == networks[k]  pairs == net.mask.hosts * NumPorts
  <2>1. /\ result = None /\ ports # <<>> /\ k \in 1..Len(networks) /\ NetworkError(net) = "none"
        /\ NextTotal # None /\ total' = NextTotal /\ laid' = Append(laid, Laid(net))
        /\ counts' = Append(counts, NextTotal) /\ k' = k + 1
        /\ UNCHANGED <<networks, given, ports, result>>
    BY <1>0, <1>5 DEF LayOut
  <2>2. net \in IPNets \cup {Nil}
    BY <1>0, <2>1
  <2>3. /\ Laid(net) \in [width : {4, 6}, first : Nat, hosts : Nat]
        /\ Laid(net).hosts = net.mask.hosts /\ net.mask.hosts \in Nat \ {0}
    <3>1. NetworkError(net) = "none"
      BY <2>1
    <3> HIDE DEF net
    <3>2. /\ net.mask.width \in {4, 6} /\ Laid(net).first \in Nat /\ net.mask.hosts \in Nat \ {0}
          /\ Laid(net) = [width |-> net.mask.width, first |-> Laid(net).first, hosts |-> net.mask.hosts]
      BY <2>2, <3>1, LaidOut
    <3> QED BY ONLY <3>2
  <2>4. NextTotal = total + pairs /\ NextTotal \in 0..MaxCount
    BY <1>0, <2>1, <2>3, NextTotalIs
  <2>5. pairs \in Nat
    <3>1. net.mask.hosts \in Nat /\ NumPorts \in Nat
      BY <1>0, <2>3
    <3> HIDE DEF net
    <3> QED BY ONLY <3>1 DEF pairs
  <2>6. SpaceTypeOK'
    <3>1. laid' \in Seq([width : {4, 6}, first : Nat, hosts : Nat])
      BY <1>0, <2>1, <2>3, AppendProperties
    <3>2. counts' \in Seq(0..MaxCount)
      BY <1>0, <2>1, <2>4, AppendProperties
    <3>3. k' \in 1..(Len(networks) + 1)
      BY <1>0, <2>1
    <3> QED BY <1>0, <2>1, <2>4, <3>1, <3>2, <3>3 DEF SpaceInv, SpaceTypeOK
  <2>7. Len(laid) = k - 1 /\ Len(counts) = k - 1 /\ total = (IF k = 1 THEN 0 ELSE counts[k - 1])
        /\ (\A j \in 1..(k - 1) : LaidAt(j)) /\ Increasing(ports) /\ Range(ports) = Range(given)
        /\ networks # <<>> /\ given # <<>>
    BY <2>1 DEF SpaceInv
  <2> HIDE DEF pairs
  <2>8. /\ Len(laid') = k /\ Len(counts') = k /\ counts'[k] = NextTotal /\ laid'[k] = Laid(net)
        /\ \A j \in 1..(k - 1) : counts'[j] = counts[j] /\ laid'[j] = laid[j] /\ counts[j] \in Int
    <3>1. k \in Nat /\ (k - 1) + 1 = k
      <4>1. k \in 1..Len(networks)
        BY <2>1
      <4> QED BY ONLY <4>1
    <3>2. Len(laid') = k /\ laid'[k] = Laid(net) /\ \A j \in 1..(k - 1) : laid'[j] = laid[j]
      <4> DEFINE Networks == [width : {4, 6}, first : Nat, hosts : Nat]
      <4>1. laid \in Seq(Networks) /\ Laid(net) \in Networks /\ laid' = Append(laid, Laid(net))
            /\ Len(laid) = k - 1
        BY <1>0, <2>1, <2>3, <2>7
      <4> HIDE DEF Networks, net
      <4> QED BY ONLY <3>1, <4>1, AppendProperties
    <3>3. Len(counts') = k /\ counts'[k] = NextTotal /\ \A j \in 1..(k - 1) : counts'[j] = counts[j]
      <4>1. counts \in Seq(0..MaxCount) /\ NextTotal \in 0..MaxCount /\ counts' = Append(counts, NextTotal)
            /\ Len(counts) = k - 1
        BY <1>0, <2>1, <2>4, <2>7
      <4> QED BY ONLY <3>1, <4>1, AppendProperties
    <3>4. \A j \in 1..(k - 1) : counts[j] \in 0..MaxCount
      BY <1>0, <2>7, ElementOfSeq
    <3> QED BY <1>0, <3>2, <3>3, <3>4
  <2>9. ASSUME NEW j \in 1..k PROVE Start(j)' = IF j = k THEN total ELSE Start(j)
    <3>1. CASE j = 1
      BY <2>7, <3>1 DEF Start
    <3>2. CASE j # 1
      <4>1. j - 1 \in 1..(k - 1)
        BY <1>0, <3>2
      <4>2. Start(j)' = counts[j - 1]
        BY <2>8, <3>2, <4>1 DEF Start
      <4> QED BY <2>7, <3>2, <4>1, <4>2 DEF Start
    <3> QED BY <3>1, <3>2
  <2>10. NumPorts' = NumPorts
    BY <2>1 DEF NumPorts
  <2>11. \A j \in 1..k : NetworkError(networks[j])' = NetworkError(networks[j]) /\ Laid(networks[j])' = Laid(networks[j])
    BY ONLY <2>1 DEF NetworkError, Laid, Widened
  <2>12. ASSUME NEW j \in 1..k PROVE LaidAt(j)'
    <3>1. CASE j = k
      <4>1. /\ NetworkError(networks[j])' = "none" /\ laid'[j] = Laid(networks[j])'
            /\ counts'[j] = Start(j)' + laid'[j].hosts * NumPorts' /\ counts'[j] =< total'
        <5>1. laid'[j].hosts * NumPorts' = pairs
          <6>1. laid'[j] = Laid(net) /\ Laid(net).hosts = net.mask.hosts
            BY <2>3, <2>8, <3>1
          <6> QED BY ONLY <2>10, <6>1 DEF pairs
        <5>2. counts'[j] = Start(j)' + pairs
          <6>1. counts'[j] = NextTotal /\ Start(j)' = total
            BY <2>8, <2>9, <3>1
          <6> QED BY <2>4, <6>1
        <5>3. counts'[j] =< total'
          <6>1. counts'[j] = NextTotal /\ total' = NextTotal /\ NextTotal \in Int
            BY <1>0, <2>1, <2>4, <2>8, <3>1
          <6> QED BY ONLY <6>1
        <5>4. NetworkError(networks[j])' = "none" /\ laid'[j] = Laid(networks[j])'
          BY <2>1, <2>8, <2>11, <3>1
        <5> QED BY ONLY <5>1, <5>2, <5>3, <5>4
      <4>2. \A l \in 1..(k' - 1) : ~(j < l)
        BY <1>0, <2>1, <3>1
      <4> QED BY <4>1, <4>2 DEF LaidAt
    <3>2. CASE j # k
      <4>1. j \in 1..(k - 1)
        BY <1>0, <3>2
      <4>2. /\ NetworkError(networks[j]) = "none" /\ laid[j] = Laid(networks[j])
            /\ counts[j] = Start(j) + laid[j].hosts * NumPorts /\ counts[j] =< total
            /\ \A l \in 1..(k - 1) : j < l => counts[j] =< Start(l)
        BY <2>7, <4>1 DEF LaidAt
      <4>3. /\ NetworkError(networks[j])' = "none" /\ laid'[j] = Laid(networks[j])'
            /\ counts'[j] = Start(j)' + laid'[j].hosts * NumPorts'
        <5>1. laid'[j] = laid[j] /\ counts'[j] = counts[j] /\ Start(j)' = Start(j)
          BY <2>8, <2>9, <4>1
        <5>2. j \in 1..k
          OBVIOUS
        <5> QED BY <2>10, <2>11, <4>2, <5>1, <5>2
      <4>4. counts'[j] =< total'
        <5>1. counts'[j] = counts[j] /\ counts[j] \in Int
          BY <2>8, <4>1
        <5>2. total' = total + pairs /\ total \in Nat
          BY <1>0, <2>1, <2>4
        <5>3. counts[j] =< total
          BY <4>2
        <5> QED BY ONLY <2>5, <5>1, <5>2, <5>3
      <4>5. \A l \in 1..(k' - 1) : j < l => counts'[j] =< Start(l)'
        <5> TAKE l \in 1..(k' - 1)
        <5> HAVE j < l
        <5>0. l \in 1..k /\ counts'[j] = counts[j]
          <6>1. k' - 1 = k
            BY <1>0, <2>1
          <6> QED BY <2>8, <4>1, <6>1
        <5>1. CASE l = k
          <6>1. Start(l)' = total
            BY <2>9, <5>0, <5>1
          <6>2. counts[j] =< total
            BY <4>2
          <6> QED BY ONLY <5>0, <6>1, <6>2
        <5>2. CASE l # k
          <6>1. l \in 1..(k - 1) /\ Start(l)' = Start(l)
            BY <1>0, <2>9, <5>0, <5>2
          <6>2. counts[j] =< Start(l)
            BY <4>2, <6>1
          <6> QED BY ONLY <5>0, <6>1, <6>2
        <5> QED BY <5>1, <5>2
      <4> QED BY <4>3, <4>4, <4>5 DEF LaidAt
    <3> QED BY <3>1, <3>2
  <2>13. total' = counts'[k' - 1] /\ k' # 1 /\ k' - 1 = k
    BY <1>0, <2>1, <2>8
  <2>14. (Increasing(ports) /\ Range(ports) = Range(given))' /\ networks' # <<>> /\ given' # <<>>
    BY <2>1, <2>7 DEF Increasing, Range
  <2>15. Len(laid') = k' - 1 /\ Len(counts') = k' - 1 /\ ports' # <<>> /\ result' # "ok"
    <3>1. result' = None /\ None # "ok"
      BY <2>1, SpaceParameters
    <3> QED BY <2>1, <2>8, <2>13, <3>1
  <2>16. \A j \in 1..(k' - 1) : LaidAt(j)'
    BY <2>12, <2>13
  <2> QED BY <2>6, <2>13, <2>14, <2>15, <2>16 DEF SpaceInv
<1>6. CASE Finish
  <2>1. k = Len(networks) + 1
    BY <1>0, <1>6 DEF Finish
  <2> QED BY <1>6, <2>1, LaidStays DEF Finish
<1> QED BY <1>1, <1>2, <1>3, <1>4, <1>5, <1>6 DEF NewTargetSpace

\* A set of numbers has a least one.
LEMMA LeastNumber ==
    ASSUME NEW T, T \subseteq Nat, T # {}
    PROVE  \E x \in T : \A y \in T : x =< y
<1> DEFINE R == OpToRel(<, Nat)
<1>1. \A x, y \in Nat : y < x => <<y, x>> \in R
  BY DEF OpToRel
<1>2. IsWellFoundedOn(R, Nat)
  BY NatLessThanWellFounded
<1> HIDE DEF R
<1>3. PICK x \in T : \A y \in T : ~(<<y, x>> \in R)
  BY <1>2, WFMin
<1>4. ASSUME NEW y \in T PROVE x =< y
  <2>1. x \in Nat /\ y \in Nat
    OBVIOUS
  <2>2. ~(y < x)
    BY <1>1, <1>3, <2>1
  <2> QED BY <2>1, <2>2
<1> QED BY <1>4

\* When newTargetSpace has ended: the networks follow one another, the first begins at 0 and the
\* last ends with the size.
LEMMA SpaceIsLaid ==
    ASSUME SpaceInv, result = "ok"
    PROVE  /\ Len(networks) \in Nat \ {0} /\ Len(laid) = Len(networks) /\ Len(counts) = Len(networks)
           /\ NumPorts \in Nat \ {0} /\ Size \in 1..MaxCount
           /\ counts[Len(networks)] = Size
           /\ \A j \in 1..Len(networks) :
                /\ networks[j] \in IPNets /\ NetworkError(networks[j]) = "none"
                /\ laid[j] = Laid(networks[j])
                /\ Start(j) \in Nat /\ counts[j] \in Nat /\ Start(j) < counts[j]
                /\ counts[j] = Start(j) + networks[j].mask.hosts * NumPorts
           /\ \A j, l \in 1..Len(networks) : j < l => counts[j] =< Start(l)
<1>1. /\ ports # <<>> /\ networks # <<>> /\ k = Len(networks) + 1 /\ networks \in Seq(IPNets \cup {Nil})
      /\ ports \in Seq(1..MaxPort) /\ total \in 0..MaxCount /\ counts \in Seq(0..MaxCount)
      /\ Len(laid) = k - 1 /\ Len(counts) = k - 1 /\ \A j \in 1..(k - 1) : LaidAt(j)
      /\ total = (IF k = 1 THEN 0 ELSE counts[k - 1])
  BY SpaceParameters DEF SpaceInv, SpaceTypeOK
<1>2. Len(networks) \in Nat \ {0} /\ k - 1 = Len(networks) /\ NumPorts \in Nat \ {0}
  BY <1>1 DEF NumPorts
<1> DEFINE n == Len(networks)
<1>3. MaxCount \in Int
  BY SpaceParameters DEF MaxCount
<1> HIDE DEF n
<1>4. n \in Nat \ {0} /\ k = n + 1 /\ k - 1 = n /\ n \in 1..n
  BY <1>1, <1>2 DEF n
<1>5. \A j \in 1..n : LaidAt(j)
  BY <1>1, <1>4
<1>6. \A j \in 1..n : counts[j] \in 0..MaxCount
  <2>1. Len(counts) = n
    BY <1>1, <1>4
  <2> QED BY <1>1, <2>1, ElementOfSeq
<1>7. ASSUME NEW j \in 1..n
      PROVE  /\ networks[j] \in IPNets /\ NetworkError(networks[j]) = "none"
             /\ laid[j] = Laid(networks[j])
             /\ Start(j) \in Nat /\ counts[j] \in Nat /\ Start(j) < counts[j]
             /\ counts[j] = Start(j) + networks[j].mask.hosts * NumPorts
  <2>1. /\ NetworkError(networks[j]) = "none" /\ laid[j] = Laid(networks[j])
        /\ counts[j] = Start(j) + laid[j].hosts * NumPorts
    BY <1>5 DEF LaidAt
  <2>2. networks[j] \in IPNets \cup {Nil}
    <3>1. j \in 1..Len(networks)
      BY DEF n
    <3> QED BY <1>1, <3>1, ElementOfSeq
  <2>3. networks[j] \in IPNets /\ laid[j].hosts = networks[j].mask.hosts /\ networks[j].mask.hosts \in Nat \ {0}
    BY <2>1, <2>2, LaidOut
  <2>4. Start(j) \in Nat
    <3>1. CASE j = 1
      BY <3>1 DEF Start
    <3>2. CASE j # 1
      <4>1. j - 1 \in 1..n
        BY <1>4, <3>2
      <4>2. counts[j - 1] \in 0..MaxCount
        BY <1>6, <4>1
      <4> QED BY <1>3, <3>2, <4>2 DEF Start
    <3> QED BY <3>1, <3>2
  <2>5. networks[j].mask.hosts * NumPorts \in Nat \ {0}
    BY <1>2, <2>3
  <2>6. counts[j] \in Nat
    BY <1>3, <1>6
  <2>7. counts[j] = Start(j) + networks[j].mask.hosts * NumPorts
    BY <2>1, <2>3
  <2>8. Start(j) < counts[j]
    <3> DEFINE pairs == networks[j].mask.hosts * NumPorts
    <3> HIDE DEF pairs
    <3>1. pairs \in Nat \ {0} /\ counts[j] = Start(j) + pairs
      BY <2>5, <2>7 DEF pairs
    <3> QED BY <2>4, <2>6, <3>1
  <2> QED BY <2>1, <2>3, <2>4, <2>6, <2>7, <2>8
<1>8. \A j, l \in 1..n : j < l => counts[j] =< Start(l)
  BY <1>4, <1>5 DEF LaidAt
<1>9. Size = counts[n] /\ Size \in 1..MaxCount
  <2>1. Len(counts) = n /\ counts # <<>>
    BY <1>1, <1>4
  <2>2. Size = counts[n]
    BY <2>1 DEF Size
  <2>3. counts[n] \in 0..MaxCount /\ counts[n] \in Nat /\ Start(n) \in Nat /\ Start(n) < counts[n]
    BY <1>4, <1>6, <1>7
  <2> QED BY <1>3, <2>2, <2>3
<1> QED BY <1>1, <1>2, <1>4, <1>7, <1>8, <1>9 DEF n

\* The pair an index stands for, in the network it falls into.
PlacedIn(index, j) == j \in 1..Len(networks) /\ Start(j) =< index /\ index < counts[j]
HostAt(index, j) == (index - Start(j)) \div NumPorts
PortAt(index, j) == (index - Start(j)) % NumPorts
PairAt(index, j) ==
    [network |-> j, address |-> Address(networks[j].mask.width, laid[j].first + HostAt(index, j)),
     port |-> ports[1 + PortAt(index, j)]]

\* The binary search finds the one network an index falls into.
LEMMA SearchFinds ==
    ASSUME SpaceInv, result = "ok", NEW index \in 0..(Size - 1)
    PROVE  \E j : /\ PlacedIn(index, j)
                  /\ \A l : PlacedIn(index, l) => l = j
                  /\ Target(index) = PairIn(j, index - Start(j))
<1> DEFINE n == Len(networks)
<1>1. /\ n \in Nat \ {0} /\ Len(counts) = n /\ Size \in Nat /\ counts[n] = Size
      /\ \A j \in 1..n : Start(j) \in Nat /\ counts[j] \in Nat
      /\ \A j, l \in 1..n : j < l => counts[j] =< Start(l)
  <2>1. Size \in Nat
    BY SpaceIsLaid
  <2> QED BY <2>1, SpaceIsLaid
<1> HIDE DEF n
<1>2. index \in Nat /\ index < Size
  BY <1>1
<1> DEFINE T == {j \in 1..n : EndsBeyond(j, index)}
<1>3. T \subseteq Nat /\ n \in T
  BY <1>1, <1>2 DEF EndsBeyond
<1>4. PICK j \in T : \A y \in T : j =< y
  <2>1. T # {}
    BY <1>3
  <2> HIDE DEF T
  <2> QED BY <1>3, <2>1, LeastNumber
<1>5. j \in 1..n /\ counts[j] > index /\ j \in Nat
  BY <1>1, <1>4 DEF EndsBeyond
<1>6. FoundIn(j, index)
  <2>1. \A l \in 1..(j - 1) : ~EndsBeyond(l, index)
    <3> SUFFICES ASSUME NEW l \in 1..(j - 1), EndsBeyond(l, index) PROVE FALSE
      OBVIOUS
    <3>1. l \in 1..n /\ l < j
      BY <1>1, <1>5
    <3> QED BY <1>4, <1>5, <3>1
  <2> QED BY <1>5, <2>1 DEF FoundIn, EndsBeyond
<1>7. \A l \in 1..n : FoundIn(l, index) => l = j
  <2> SUFFICES ASSUME NEW l \in 1..n, FoundIn(l, index) PROVE l = j
    OBVIOUS
  <2>1. l \in T /\ l \in Nat
    BY <1>1 DEF FoundIn
  <2>2. j =< l
    BY <1>4, <2>1
  <2>3. ~(j \in 1..(l - 1))
    BY <1>6 DEF FoundIn
  <2> QED BY <1>5, <2>1, <2>2, <2>3
<1>8. Start(j) =< index
  <2>1. CASE j = 1
    BY <1>2, <2>1 DEF Start
  <2>2. CASE j # 1
    <3>1. j - 1 \in 1..(j - 1) /\ j - 1 \in 1..n
      BY <1>1, <1>5, <2>2
    <3>2. ~(counts[j - 1] > index)
      BY <1>6, <3>1 DEF FoundIn, EndsBeyond
    <3>3. counts[j - 1] \in Nat
      BY <1>1, <3>1
    <3> QED BY <1>2, <2>2, <3>2, <3>3 DEF Start
  <2> QED BY <2>1, <2>2
<1>9. PlacedIn(index, j)
  BY <1>5, <1>8 DEF PlacedIn, n
<1>10. ASSUME NEW l, PlacedIn(index, l) PROVE l = j
  <2>1. l \in 1..n /\ Start(l) =< index /\ index < counts[l] /\ l \in Nat
    BY <1>1, <1>10 DEF PlacedIn, n
  <2>2. /\ counts[l] \in Nat /\ Start(l) \in Nat /\ counts[j] \in Nat /\ Start(j) \in Nat
        /\ (j < l => counts[j] =< Start(l)) /\ (l < j => counts[l] =< Start(j))
    BY <1>1, <1>5, <2>1
  <2> QED BY ONLY <1>2, <1>5, <1>8, <2>1, <2>2
<1>11. Target(index) = PairIn(j, index - Start(j))
  <2>1. Len(counts) = n
    BY <1>1
  <2>2. ~\A l \in 1..n : ~EndsBeyond(l, index)
    BY <1>4
  <2>3. (CHOOSE l \in 1..n : FoundIn(l, index)) = j
    BY <1>5, <1>6, <1>7
  <2> QED BY <2>1, <2>2, <2>3 DEF Target
<1> QED BY <1>9, <1>10, <1>11

\* An index is one host and one port of its network, and stays in the network's addresses.
LEMMA PlaceSplits ==
    ASSUME SpaceInv, result = "ok", NEW index \in Nat, NEW j, PlacedIn(index, j)
    PROVE  /\ HostAt(index, j) \in 0..(networks[j].mask.hosts - 1)
           /\ PortAt(index, j) \in 0..(NumPorts - 1)
           /\ index - Start(j) = NumPorts * HostAt(index, j) + PortAt(index, j)
<1> DEFINE h == networks[j].mask.hosts
<1>1. j \in 1..Len(networks) /\ Start(j) =< index /\ index < counts[j]
  BY DEF PlacedIn
<1>2. networks[j] \in IPNets /\ NetworkError(networks[j]) = "none" /\ Start(j) \in Nat
      /\ counts[j] = Start(j) + h * NumPorts /\ NumPorts \in Nat \ {0}
  BY <1>1, SpaceIsLaid
<1>3. h \in Nat \ {0}
  BY <1>2, LaidOut
<1> HIDE DEF h
<1> DEFINE p == NumPorts
<1>4. p \in Nat \ {0} /\ h * p = p * h /\ p * h \in Nat /\ counts[j] = Start(j) + h * p
  BY <1>2, <1>3
<1> HIDE DEF p
<1> DEFINE pairs == p * h
<1>5. pairs \in Nat /\ counts[j] = Start(j) + pairs
  BY <1>4
<1> HIDE DEF pairs
<1>6. index - Start(j) \in 0..(pairs - 1)
  BY <1>1, <1>2, <1>5
<1>7. index - Start(j) \in 0..(p * h - 1)
  BY <1>6 DEF pairs
<1> DEFINE off == index - Start(j)
<1> HIDE DEF off
<1>8. off % p \in 0..(p - 1) /\ off \div p \in 0..(h - 1) /\ off = p * (off \div p) + (off % p)
  <2>1. off \in 0..(p * h - 1)
    BY <1>7 DEF off
  <2> QED BY <1>3, <1>4, <2>1, SplitBounds
<1> QED BY <1>8 DEF off, HostAt, PortAt, p, h

\* ... so the address of an index is never beside the address space.
LEMMA TargetIs ==
    ASSUME SpaceInv, result = "ok", NEW index \in 0..(Size - 1), NEW j, PlacedIn(index, j)
    PROVE  Target(index) = PairAt(index, j)
<1>1. index \in Nat
  OBVIOUS
<1>2. Target(index) = PairIn(j, index - Start(j))
  BY SearchFinds
<1>3. j \in 1..Len(networks)
  BY DEF PlacedIn
<1>4. networks[j] \in IPNets /\ NetworkError(networks[j]) = "none" /\ laid[j] = Laid(networks[j])
  BY <1>3, SpaceIsLaid
<1>5. /\ laid[j].width = networks[j].mask.width /\ laid[j].first \in Nat
      /\ networks[j].mask.hosts \in Nat \ {0}
      /\ laid[j].first + networks[j].mask.hosts =< Space(networks[j].mask.width)
      /\ networks[j].mask.width \in {4, 6}
  BY <1>4, LaidOut
<1>6. HostAt(index, j) \in 0..(networks[j].mask.hosts - 1)
  BY <1>1, PlaceSplits
<1>7. Space(networks[j].mask.width) \in Nat
  BY AddressParameters DEF Space
<1>8. ~(laid[j].first + HostAt(index, j) >= Space(networks[j].mask.width))
  BY <1>5, <1>6, <1>7
<1>9. NthAddress(laid[j], HostAt(index, j)) = Address(networks[j].mask.width, laid[j].first + HostAt(index, j))
  BY <1>5, <1>8 DEF NthAddress
<1> QED BY <1>2, <1>9 DEF PairIn, PairAt, HostAt, PortAt

\* The ports are numbered one to one.
LEMMA PortsNumbered ==
    ASSUME SpaceInv, result = "ok"
    PROVE  /\ \A r \in 0..(NumPorts - 1) : ports[1 + r] \in Range(given)
           /\ \A p \in Range(given) : \E r \in 0..(NumPorts - 1) : ports[1 + r] = p
           /\ \A r, s \in 0..(NumPorts - 1) : ports[1 + r] = ports[1 + s] => r = s
<1>1. ports \in Seq(1..MaxPort) /\ Increasing(ports) /\ Range(ports) = Range(given) /\ NumPorts \in Nat
  BY SpaceIsLaid DEF SpaceInv, SpaceTypeOK
<1>2. DOMAIN ports = 1..NumPorts /\ \A x \in 1..NumPorts : ports[x] \in Int
  <2>1. \A x \in 1..NumPorts : ports[x] \in 1..MaxPort
    BY <1>1, ElementOfSeq DEF NumPorts
  <2>2. MaxPort \in Int
    BY SpaceParameters
  <2> QED BY <1>1, <2>1, <2>2 DEF NumPorts
<1>3. ASSUME NEW r \in 0..(NumPorts - 1) PROVE ports[1 + r] \in Range(given)
  <2>1. 1 + r \in 1..NumPorts
    BY <1>1
  <2> QED BY <1>1, <1>2, <2>1 DEF Range
<1>4. ASSUME NEW p \in Range(given) PROVE \E r \in 0..(NumPorts - 1) : ports[1 + r] = p
  <2>1. PICK x \in 1..NumPorts : ports[x] = p
    BY <1>1, <1>2 DEF Range
  <2>2. x - 1 \in 0..(NumPorts - 1) /\ 1 + (x - 1) = x
    BY <1>1
  <2> QED BY <2>1, <2>2
<1>5. ASSUME NEW r \in 0..(NumPorts - 1), NEW s \in 0..(NumPorts - 1), ports[1 + r] = ports[1 + s]
      PROVE  r = s
  <2>1. 1 + r \in 1..NumPorts /\ 1 + s \in 1..NumPorts /\ r \in Nat /\ s \in Nat
    BY <1>1
  <2>2. (1 + r < 1 + s => ports[1 + r] < ports[1 + s]) /\ (1 + s < 1 + r => ports[1 + s] < ports[1 + r])
    BY <1>1, <2>1 DEF Increasing, NumPorts
  <2> QED BY <1>2, <1>5, <2>1, <2>2
<1> QED BY <1>3, <1>4, <1>5

\* The covered pairs are those of each network laid out.
PairOf(j, m, p) ==
    [network |-> j, address |-> Address(networks[j].mask.width, laid[j].first + m), port |-> p]

\* What the arguments cover, network by network.
LEMMA CoveredIs ==
    ASSUME SpaceInv, result = "ok"
    PROVE  \A q : q \in Covered <=>
              \E j \in 1..Len(networks) : \E m \in 0..(networks[j].mask.hosts - 1), p \in Range(given) :
                 q = PairOf(j, m, p)
<1>0. \A j \in 1..Len(networks) :
        /\ laid[j].first = Masked(Widened(networks[j]).n, networks[j].mask.hosts)
        /\ laid[j].first \in Nat /\ networks[j].mask.hosts \in Nat \ {0}
        /\ laid[j].first + networks[j].mask.hosts =< Space(networks[j].mask.width)
  BY SpaceIsLaid, LaidOut
<1>1. \A width : Space(width) \in Nat /\ Space(width) =< Space6 /\ Space6 \in Nat
  BY AddressParameters DEF Space
<1>2. ASSUME NEW q \in Covered
      PROVE  \E j \in 1..Len(networks) : \E m \in 0..(networks[j].mask.hosts - 1), p \in Range(given) :
                q = PairOf(j, m, p)
  <2>1. PICK j \in 1..Len(networks), n \in 0..(Space6 - 1), p \in Range(given) :
           q = [network |-> j, address |-> Address(networks[j].mask.width, n), port |-> p]
    BY DEF Covered, Pairs
  <2>2. n \in Block(Widened(networks[j]).n, networks[j].mask.hosts)
    <3>1. q.address.n = n /\ q.network = j
      BY <2>1 DEF Address
    <3> QED BY <3>1 DEF Covered
  <2>3. n \in laid[j].first..(laid[j].first + networks[j].mask.hosts - 1)
    BY <1>0, <2>2 DEF Block
  <2>4. laid[j].first \in Nat /\ networks[j].mask.hosts \in Nat
    BY <1>0
  <2>5. n - laid[j].first \in 0..(networks[j].mask.hosts - 1) /\ laid[j].first + (n - laid[j].first) = n
    <3> DEFINE f == laid[j].first  h == networks[j].mask.hosts
    <3>1. f \in Nat /\ h \in Nat /\ n \in f..(f + h - 1)
      BY <2>3, <2>4
    <3> HIDE DEF f, h
    <3>2. n - f \in 0..(h - 1) /\ f + (n - f) = n
      BY ONLY <3>1
    <3> QED BY <3>2 DEF f, h
  <2>6. q = PairOf(j, n - laid[j].first, p)
    BY <2>1, <2>5 DEF PairOf
  <2> QED BY <2>5, <2>6
<1>3. ASSUME NEW j \in 1..Len(networks), NEW m \in 0..(networks[j].mask.hosts - 1), NEW p \in Range(given)
      PROVE  PairOf(j, m, p) \in Covered
  <2> DEFINE n == laid[j].first + m
  <2>1. n \in Masked(Widened(networks[j]).n, networks[j].mask.hosts)..
               (Masked(Widened(networks[j]).n, networks[j].mask.hosts) + networks[j].mask.hosts - 1)
        /\ n \in 0..(Space6 - 1)
    <3>1. laid[j].first \in Nat /\ networks[j].mask.hosts \in Nat /\ m \in Nat /\ m < networks[j].mask.hosts
          /\ laid[j].first + networks[j].mask.hosts =< Space6
          /\ laid[j].first = Masked(Widened(networks[j]).n, networks[j].mask.hosts)
      <4>1. /\ laid[j].first = Masked(Widened(networks[j]).n, networks[j].mask.hosts)
            /\ laid[j].first \in Nat /\ networks[j].mask.hosts \in Nat \ {0}
            /\ laid[j].first + networks[j].mask.hosts =< Space(networks[j].mask.width)
        BY <1>0
      <4>2. Space(networks[j].mask.width) =< Space6 /\ Space(networks[j].mask.width) \in Nat /\ Space6 \in Nat
        BY <1>1
      <4>3. m \in Nat /\ m < networks[j].mask.hosts
        BY <4>1
      <4> QED BY <4>1, <4>2, <4>3
    <3>2. Space6 \in Nat
      BY <1>1
    <3> QED BY ONLY <3>1, <3>2 DEF n
  <2> HIDE DEF n
  <2>2. PairOf(j, m, p) = [network |-> j, address |-> Address(networks[j].mask.width, n), port |-> p]
    BY DEF PairOf, n
  <2>3. PairOf(j, m, p) \in Pairs
    BY <2>1, <2>2 DEF Pairs
  <2>4. PairOf(j, m, p).address.n = n /\ PairOf(j, m, p).network = j
    BY <2>2 DEF Address
  <2> QED BY <2>1, <2>3, <2>4 DEF Covered, Block
<1> QED BY <1>2, <1>3

\* Every index stands for a covered pair, ...
LEMMA TargetCovered ==
    ASSUME SpaceInv, result = "ok", NEW index \in 0..(Size - 1)
    PROVE  Target(index) \in Covered
<1>1. PICK j : PlacedIn(index, j)
  BY SearchFinds
<1>2. index \in Nat /\ j \in 1..Len(networks)
  BY <1>1 DEF PlacedIn
<1>3. HostAt(index, j) \in 0..(networks[j].mask.hosts - 1) /\ PortAt(index, j) \in 0..(NumPorts - 1)
  BY <1>1, <1>2, PlaceSplits
<1>4. ports[1 + PortAt(index, j)] \in Range(given)
  BY <1>3, PortsNumbered
<1>5. Target(index) = PairOf(j, HostAt(index, j), ports[1 + PortAt(index, j)])
  BY <1>1, TargetIs DEF PairAt, PairOf
<1> QED BY <1>2, <1>3, <1>4, <1>5, CoveredIs

\* ... no two for the same one, ...
LEMMA TargetOneToOne ==
    ASSUME SpaceInv, result = "ok", NEW x \in 0..(Size - 1), NEW y \in 0..(Size - 1), Target(x) = Target(y)
    PROVE  x = y
<1>1. PICK j : PlacedIn(x, j)
  BY SearchFinds
<1>2. PICK l : PlacedIn(y, l)
  BY SearchFinds
<1>3. x \in Nat /\ y \in Nat /\ j \in 1..Len(networks)
  BY <1>1 DEF PlacedIn
<1>4. Target(x) = PairAt(x, j) /\ Target(y) = PairAt(y, l)
  BY <1>1, <1>2, TargetIs
<1>5. ASSUME NEW z, NEW m
      PROVE  /\ PairAt(z, m).network = m
             /\ PairAt(z, m).address.n = laid[m].first + HostAt(z, m)
             /\ PairAt(z, m).port = ports[1 + PortAt(z, m)]
  BY DEF PairAt, Address
<1>12. PairAt(x, j) = PairAt(y, l)
  BY <1>4
<1>13. j = l
  BY <1>5, <1>12
<1>6. /\ laid[j].first + HostAt(x, j) = laid[j].first + HostAt(y, j)
      /\ ports[1 + PortAt(x, j)] = ports[1 + PortAt(y, j)]
  BY <1>5, <1>12, <1>13
<1>7. /\ HostAt(x, j) \in 0..(networks[j].mask.hosts - 1) /\ HostAt(y, j) \in 0..(networks[j].mask.hosts - 1)
      /\ PortAt(x, j) \in 0..(NumPorts - 1) /\ PortAt(y, j) \in 0..(NumPorts - 1)
      /\ x - Start(j) = NumPorts * HostAt(x, j) + PortAt(x, j)
      /\ y - Start(j) = NumPorts * HostAt(y, j) + PortAt(y, j)
  BY <1>1, <1>2, <1>3, <1>13, PlaceSplits
<1>8. PortAt(x, j) = PortAt(y, j)
  BY <1>6, <1>7, PortsNumbered
<1>9. HostAt(x, j) = HostAt(y, j)
  <2>1. laid[j].first \in Nat
    BY <1>3, SpaceIsLaid, LaidOut
  <2>2. HostAt(x, j) \in Int /\ HostAt(y, j) \in Int
    BY <1>7
  <2> QED BY <1>6, <2>1, <2>2
<1>10. x - Start(j) = y - Start(j)
  BY <1>7, <1>8, <1>9
<1>11. Start(j) \in Nat
  BY <1>3, SpaceIsLaid
<1> QED BY <1>3, <1>10, <1>11

\* ... and each covered pair has its index.
LEMMA TargetOnto ==
    ASSUME SpaceInv, result = "ok", NEW q \in Covered
    PROVE  \E index \in 0..(Size - 1) : Target(index) = q
<1>0. PICK j \in 1..Len(networks) :
         \E m \in 0..(networks[j].mask.hosts - 1), p \in Range(given) : q = PairOf(j, m, p)
  BY CoveredIs
<1>1. PICK m \in 0..(networks[j].mask.hosts - 1), p \in Range(given) : q = PairOf(j, m, p)
  BY <1>0
<1>2. PICK r \in 0..(NumPorts - 1) : ports[1 + r] = p
  BY PortsNumbered
<1> DEFINE h == networks[j].mask.hosts  w == NumPorts  pairs == w * h  off == w * m + r
           index == Start(j) + off  n == Len(networks)
<1>3. /\ n \in Nat \ {0} /\ w \in Nat \ {0} /\ Size \in Nat /\ counts[n] = Size
      /\ Start(j) \in Nat /\ counts[j] \in Nat /\ networks[j] \in IPNets /\ NetworkError(networks[j]) = "none"
      /\ counts[j] = Start(j) + h * w
      /\ \A l \in 1..n : counts[l] \in Nat /\ Start(l) \in Nat /\ Start(l) < counts[l]
      /\ j < n => counts[j] =< Start(n)
  <2>1. Size \in Nat
    BY SpaceIsLaid
  <2>2. n \in 1..n
    BY SpaceIsLaid
  <2> QED BY <2>1, <2>2, SpaceIsLaid
<1>4. h \in Nat \ {0}
  BY <1>3, LaidOut
<1> HIDE DEF h, w
<1>5. w * h = h * w /\ w * h \in Nat
  BY <1>3, <1>4
<1>6. off \in 0..(w * h - 1)
  <2>1. m \in 0..(h - 1) /\ r \in 0..(w - 1) /\ r \in 0..(w - 1)
    BY DEF h, w
  <2> QED BY <1>3, <1>4, <2>1, JoinOneToOne
<1>7. m \in 0..(h - 1) /\ r \in 0..(w - 1)
  BY DEF h, w
<1>8. pairs \in Nat /\ off \in 0..(pairs - 1) /\ counts[j] = Start(j) + pairs
  BY <1>3, <1>5, <1>6
<1> HIDE DEF pairs, off
<1>9. counts[j] =< Size
  <2>1. CASE j = n
    BY <1>3, <2>1
  <2>2. CASE j # n
    <3>1. j < n /\ n \in 1..n
      BY <1>3, <2>2 DEF n
    <3> QED BY <1>3, <3>1
  <2> QED BY <2>1, <2>2
<1>10. index \in Nat /\ Start(j) =< index /\ index < counts[j] /\ index \in 0..(Size - 1)
  <2>1. Start(j) \in Nat /\ counts[j] \in Nat /\ Size \in Nat
    BY <1>3
  <2> QED BY ONLY <1>8, <1>9, <2>1
<1>11. index - Start(j) = off
  BY <1>3, <1>8
<1> HIDE DEF index
<1>12. PlacedIn(index, j)
  BY <1>10 DEF PlacedIn
<1>13. HostAt(index, j) = m /\ PortAt(index, j) = r
  <2>1. /\ HostAt(index, j) \in 0..(h - 1) /\ PortAt(index, j) \in 0..(w - 1)
        /\ off = w * HostAt(index, j) + PortAt(index, j)
    BY <1>10, <1>11, <1>12, PlaceSplits DEF h, w
  <2>2. w * m + r = w * HostAt(index, j) + PortAt(index, j)
    BY <2>1 DEF off
  <2> DEFINE x == HostAt(index, j)  y == PortAt(index, j)
  <2>3. x \in 0..(h - 1) /\ y \in 0..(w - 1) /\ w * m + r = w * x + y
    BY <2>1, <2>2
  <2> HIDE DEF x, y
  <2>4. w \in Nat \ {0} /\ h \in Nat \ {0}
    BY <1>3, <1>4
  <2>5. m = x /\ r = y
    BY <1>7, <2>3, <2>4, JoinOneToOne
  <2> QED BY <2>5 DEF x, y
<1>14. Target(index) = q
  <2>1. Target(index) = PairAt(index, j)
    BY <1>10, <1>12, TargetIs
  <2> QED BY <1>1, <1>2, <1>13, <2>1 DEF PairAt, PairOf
<1> QED BY <1>10, <1>14

----------------------------------------------------------------------------
\* Sockets and sources.

SocketOf(address) == IF To4(address) # Nil THEN "raw4" ELSE "raw6"

\* checkAddressFamilies looks at the first address of each network, which speaks for the others.
LEMMA SocketsSuffice ==
    ASSUME SpaceInv, result = "ok", HasSockets, NEW q \in Covered
    PROVE  /\ q \in [network : Nat, address : IPs, port : Int] /\ q # Nil
           /\ q.address \in IPs /\ q.address # Nil
           /\ Connection(q.address) = SocketOf(q.address) /\ Connection(q.address) # Nil
<1>1. PICK j \in 1..Len(networks) :
         \E m \in 0..(networks[j].mask.hosts - 1), p \in Range(given) : q = PairOf(j, m, p)
  BY CoveredIs
<1>2. PICK m \in 0..(networks[j].mask.hosts - 1), p \in Range(given) : q = PairOf(j, m, p)
  BY <1>1
<1> DEFINE w == networks[j].mask.width  h == networks[j].mask.hosts  f == laid[j].first
<1>3. /\ networks[j] \in IPNets /\ laid[j].width = w /\ f \in Nat /\ h \in Nat \ {0} /\ w \in {4, 6}
      /\ f + h =< Space(w) /\ f = Masked(Widened(networks[j]).n, h)
      /\ Widened(networks[j]) \in IPs /\ Widened(networks[j]).width = w
  <2>1. networks[j] \in IPNets /\ NetworkError(networks[j]) = "none" /\ laid[j] = Laid(networks[j])
    BY SpaceIsLaid
  <2> QED BY <2>1, LaidOut
<1>4. w = 6 => Space4 % h = 0 \/ h % (2 * Space4) = 0
  <2>1. networks[j].mask \in Masks
    BY <1>3 DEF IPNets
  <2> QED BY <1>3, <2>1 DEF Masks
<1>5. q = [network |-> j, address |-> Address(w, f + m), port |-> p] /\ m \in 0..(h - 1)
  BY <1>2 DEF PairOf
<1>6. \E t \in Nat : f = h * t
  <2>1. Widened(networks[j]).n \in Nat
    BY <1>3, Forms, AddressParameters DEF Space
  <2>2. \E t \in Nat : Widened(networks[j]).n - (Widened(networks[j]).n % h) = h * t
    <3>1. h \in Nat \ {0}
      BY <1>3
    <3> HIDE DEF h
    <3> QED BY <2>1, <3>1, Quotient
  <2>3. f = Widened(networks[j]).n - (Widened(networks[j]).n % h)
    BY <1>3 DEF Masked
  <2> HIDE DEF f, h
  <2> QED BY <2>2, <2>3
<1>7. Connection(Address(w, f)) # Nil
  <2>1. j \in 1..Len(laid)
    BY SpaceIsLaid
  <2> QED BY <1>3, <2>1 DEF HasSockets
<1>8. p \in Int /\ j \in Nat
  <2>1. given \in Seq(Int)
    BY SpaceParameters DEF SpaceInv, SpaceTypeOK
  <2>2. Range(given) \subseteq Int
    BY <2>1, ElementOfSeq DEF Range
  <2> QED BY <2>2
<1>9. Space4 \in Nat \ {0, 1} /\ Space6 \in Nat /\ Mapped \in Nat
  BY AddressParameters
<1> HIDE DEF w, h, f
<1>10. Address(w, f + m) \in IPs /\ Address(w, f) \in IPs
  <2>1. f + m \in 0..(Space(w) - 1) /\ f \in 0..(Space(w) - 1)
    <3>1. Space(w) \in Nat /\ m \in 0..(h - 1) /\ f \in Nat /\ h \in Nat /\ f + h =< Space(w)
      BY <1>3, <1>5, <1>9 DEF Space
    <3> QED BY ONLY <3>1
  <2>2. \A n \in 0..(Space(w) - 1) : Address(w, n) \in IPs
    BY <1>3 DEF Address, IPs, Space
  <2> QED BY <2>1, <2>2
<1>11. /\ Address(w, f + m).width = w /\ Address(w, f + m).n = f + m
       /\ Address(w, f).width = w /\ Address(w, f).n = f
  BY DEF Address
<1>12. To4(Address(w, f)) # Nil => To4(Address(w, f + m)) # Nil
  <2>1. CASE w = 4
    BY <1>10, <1>11, <2>1, Forms DEF To4
  <2>2. CASE w = 6
    <3> SUFFICES ASSUME To4(Address(w, f)) # Nil PROVE To4(Address(w, f + m)) # Nil
      OBVIOUS
    <3>1. f \in Mapped..(Mapped + Space4 - 1)
      BY <1>11, <2>2 DEF To4, IsMapped
    <3>2. PICK t \in Nat : f = h * t
      BY <1>6
    <3>3. f \in f..(f + h - 1)
      BY <1>3
    <3>4. h * t \in (h * t)..(h * t + h - 1) /\ h * t \in Mapped..(Mapped + Space4 - 1)
      BY <3>1, <3>2, <3>3
    <3>5. \A y \in (h * t)..(h * t + h - 1) : y \in Mapped..(Mapped + Space4 - 1)
      BY <1>3, <1>4, <2>2, <3>4, MappedBlock
    <3>6. f + m \in f..(f + h - 1)
      BY <1>3, <1>5
    <3>7. f + m \in Mapped..(Mapped + Space4 - 1)
      BY <3>2, <3>5, <3>6
    <3>8. To16(Address(w, f + m)).n \in Mapped..(Mapped + Space4 - 1)
      BY <1>11, <2>2, <3>7 DEF To16
    <3> QED BY <1>10, <3>8, Forms
  <2> QED BY <1>3, <2>1, <2>2
<1>13. Connection(Address(w, f + m)) = SocketOf(Address(w, f + m))
  BY <1>7, <1>12 DEF Connection, SocketOf
<1>14. SocketOf(Address(w, f + m)) # Nil
  BY OrderParameters DEF SocketOf
<1>15. q.address = Address(w, f + m)
  BY <1>5
<1>16. q \in [network : Nat, address : IPs, port : Int]
  BY <1>5, <1>8, <1>10
<1>17. q # Nil
  BY <1>16, OrderParameters
<1> QED BY <1>10, <1>13, <1>14, <1>15, <1>16, <1>17, Forms

\* What the cache has is what the kernel would say.
CacheInv ==
    /\ IsFiniteSet(DOMAIN entries) /\ Cardinality(DOMAIN entries) =< maxSourceIpCacheSize
    /\ \A x \in DOMAIN entries : \A d \in IPs : Key(d) = x => entries[x] = KernelSourceIp(d)

\* The cache in front of the kernel changes no answer.
LEMMA ResolvedIs == ASSUME CacheInv, NEW d \in IPs PROVE Resolved(d) = KernelSourceIp(d)
BY DEF CacheInv, Resolved

\* An entry more keeps CacheInv.
LEMMA CacheStep ==
    ASSUME CacheInv, NEW d \in IPs, entries' = EntriesAfter(d)
    PROVE  CacheInv'
<1>1. CASE entries' = entries
  BY <1>1 DEF CacheInv, Key, KernelSourceIp
<1>2. CASE entries' # entries
  <2>1. /\ Key(d) \notin DOMAIN entries /\ ~(Cardinality(DOMAIN entries) >= maxSourceIpCacheSize)
        /\ entries' = [x \in DOMAIN entries \cup {Key(d)} |->
                         IF x = Key(d) THEN Resolved(d) ELSE entries[x]]
    BY <1>2 DEF EntriesAfter
  <2>2. DOMAIN entries' = DOMAIN entries \cup {Key(d)}
    BY <2>1
  <2>3. /\ IsFiniteSet(DOMAIN entries')
        /\ Cardinality(DOMAIN entries') = Cardinality(DOMAIN entries) + 1
        /\ Cardinality(DOMAIN entries) \in Nat
    BY <2>1, <2>2, FS_AddElement, FS_CardinalityType DEF CacheInv
  <2>4. Cardinality(DOMAIN entries') =< maxSourceIpCacheSize
    BY <2>1, <2>3, OrderParameters
  <2>5. ASSUME NEW x \in DOMAIN entries', NEW e \in IPs, Key(e) = x PROVE entries'[x] = KernelSourceIp(e)
    <3>1. CASE x = Key(d)
      <4>1. entries'[x] = KernelSourceIp(d)
        BY <2>1, <2>2, <3>1, ResolvedIs
      <4>2. KernelSourceIp(e) = KernelSourceIp(d)
        BY <2>5, <3>1, SourceOfKey
      <4> QED BY <4>1, <4>2
    <3>2. CASE x # Key(d)
      BY <2>1, <2>2, <2>5, <3>2 DEF CacheInv
    <3> QED BY <3>1, <3>2
  <2> QED BY <2>3, <2>4, <2>5 DEF CacheInv, Key, KernelSourceIp
<1> QED BY <1>1, <1>2

----------------------------------------------------------------------------
\* The loop of sendProbes.

Rec(q) ==
    [network |-> q.network, address |-> q.address, port |-> q.port,
     source |-> KernelSourceIp(q.address), socket |-> SocketOf(q.address)]

\* What was due of the first n positions, and what was sent.
DueUpTo(n) == {m \in 1..n : KernelSourceIp(Target(order[m]).address) # Nil}
ProbesAreDue ==
    /\ probes \in Seq({Rec(q) : q \in Covered})
    /\ Range(probes) = {Rec(Target(order[m])) : m \in DueUpTo(i)}
    /\ Len(probes) = Cardinality(DueUpTo(i))

Idle == i = 0 /\ c = 0 /\ order = <<>> /\ steps = 0

OrderInv ==
    /\ SpaceInv /\ IInv /\ CacheInv
    /\ phase \in {"prepare", "probe", "refused"}
    /\ phase # "probe" => probes = <<>> /\ Idle
    /\ phase = "probe" => result = "ok" /\ HasSockets /\ size = Size /\ ProbesAreDue

\* A permutation that has not been used is in its invariant.
LEMMA FreshInv == FieldInv /\ Idle => IInv
<1> SUFFICES ASSUME FieldInv, Idle PROVE IInv
  OBVIOUS
<1>1. TypeOK
  BY DEF FieldInv, Idle, TypeOK
<1>2. Owners([x \in Domain |-> -1])
  <2>1. 0 \in Domain
    <3>1. a * b \in Nat /\ a * b > 0
      BY DEF FieldInv
    <3> QED BY <3>1 DEF Domain
  <2>2. Owned([x \in Domain |-> -1]) = {}
    BY DEF Owned
  <2> QED BY <2>1, <2>2, FS_EmptySet DEF Idle, Owners
<1> QED BY <1>1, <1>2 DEF IInv

\* The halves of a size stay far below 2^64.
LEMMA NewFields ==
    ASSUME NEW n \in 1..MaxCount, NEW r \in 1..n
    PROVE  /\ RoundedUp(n, r) \in Nat \ {0} /\ RoundedUp(n, r) =< n
           /\ n =< r * RoundedUp(n, r) /\ r * RoundedUp(n, r) < 2 * n
           /\ 2 * r =< W /\ 2 * RoundedUp(n, r) =< W
<1>1. MaxCount \in Int /\ 2 * MaxCount =< W
  BY SpaceParameters, OrderParameters DEF MaxCount
<1>2. n \in Nat \ {0} /\ n =< MaxCount /\ r \in Nat \ {0} /\ r =< n
  BY <1>1
<1>3. RoundedUp(n, r) \in Nat \ {0} /\ n =< r * RoundedUp(n, r) /\ r * RoundedUp(n, r) < 2 * n
  BY <1>2, NewCovers
<1>4. RoundedUp(n, r) =< n
  <2> DEFINE d == n \div r  m == r * d
  <2>1. d \in Nat /\ m \in Nat /\ m =< n /\ d * r = m
    BY <1>2
  <2>2. d =< m
    <3>1. 1 * d =< r * d
      BY <1>2, <2>1
    <3> QED BY <2>1, <3>1
  <2>3. RoundedUp(n, r) = IF m < n THEN d + 1 ELSE d
    BY <2>1 DEF RoundedUp
  <2> HIDE DEF d, m
  <2> QED BY <1>2, <2>1, <2>2, <2>3
<1> DEFINE u == RoundedUp(n, r)
<1>5. u \in Nat /\ u =< n
  BY <1>3, <1>4
<1> HIDE DEF u
<1>6. 2 * r =< W /\ 2 * u =< W
  BY <1>1, <1>2, <1>5, Parameters
<1> QED BY <1>3, <1>4, <1>6 DEF u

\* Nothing but newTargetSpace changes what an index stands for.
LEMMA TargetStays ==
    ASSUME UNCHANGED <<networks, skipIpv6, layoutVars>>
    PROVE  /\ SpaceInv' <=> SpaceInv
           /\ \A index : Target(index)' = Target(index)
           /\ Covered' = Covered /\ (HasSockets' <=> HasSockets) /\ Size' = Size
<1>1. /\ networks' = networks /\ skipIpv6' = skipIpv6 /\ given' = given /\ ports' = ports /\ k' = k
      /\ total' = total /\ laid' = laid /\ counts' = counts /\ result' = result
  BY DEF layoutVars
<1>2. SpaceInv' <=> SpaceInv
  <2>1. \A j : LaidAt(j)' <=> LaidAt(j)
    BY ONLY <1>1 DEF LaidAt, NetworkError, Laid, Widened, Start, NumPorts
  <2>2. SpaceTypeOK' <=> SpaceTypeOK
    BY ONLY <1>1 DEF SpaceTypeOK
  <2>3. (Increasing(ports))' <=> Increasing(ports)
    BY ONLY <1>1 DEF Increasing
  <2>4. (\A j \in 1..(k - 1) : LaidAt(j))' <=> (\A j \in 1..(k - 1) : LaidAt(j))
    BY ONLY <1>1, <2>1
  <2>5. Range(ports)' = Range(ports) /\ Range(given)' = Range(given)
    BY ONLY <1>1 DEF Range
  <2> QED BY ONLY <1>1, <2>2, <2>3, <2>4, <2>5 DEF SpaceInv
<1>3. ASSUME NEW index PROVE Target(index)' = Target(index)
  BY ONLY <1>1 DEF Target, FoundIn, EndsBeyond, PairIn, NthAddress, Start, NumPorts
<1>4. Covered' = Covered
  BY ONLY <1>1 DEF Covered, Pairs, Widened
<1>5. HasSockets' <=> HasSockets
  BY ONLY <1>1 DEF HasSockets, Connection
<1>6. Size' = Size
  BY ONLY <1>1 DEF Size
<1> QED BY <1>2, <1>3, <1>4, <1>5, <1>6

\* newTargetSpace starts in SpaceInv.
LEMMA SpaceStart == ASSUME SpaceInit PROVE SpaceInv
<1>1. MaxCount \in Nat
  BY SpaceParameters DEF MaxCount
<1>2. networks \in Seq(IPNets \cup {Nil}) /\ Len(networks) \in Nat
  BY SpaceParameters DEF SpaceInit
<1>3. SpaceTypeOK
  BY <1>1, <1>2 DEF SpaceInit, SpaceTypeOK
<1>4. k = 1 /\ \A j \in 1..(k - 1) : FALSE
  BY DEF SpaceInit
<1> QED BY <1>3, <1>4, SpaceParameters DEF SpaceInit, SpaceInv

\* A scan starts in OrderInv.
LEMMA OrderStart == StartOrder => OrderInv
<1> SUFFICES ASSUME StartOrder PROVE OrderInv
  OBVIOUS
<1>1. SpaceInv
  BY SpaceStart DEF StartOrder, StartScan
<1>2. IInv
  <2>1. FieldInv
    <3>1. 2 =< W
      BY SpaceParameters, OrderParameters
    <3> QED BY <3>1, Parameters DEF StartOrder, FieldInv
  <2> QED BY <2>1, FreshInv DEF StartOrder, Idle
<1>3. CacheInv
  <2>1. DOMAIN entries = {}
    BY DEF StartOrder
  <2> QED BY <2>1, FS_EmptySet, OrderParameters DEF CacheInv
<1> QED BY <1>1, <1>2, <1>3 DEF StartOrder, OrderInv, Idle

\* One target of the loop: its probe is sent if it is due.
LEMMA ProbeStep == ASSUME OrderInv, Probe PROVE OrderInv'
<1> DEFINE d == Encrypt(c)  q == Target(d)  source == KernelSourceIp(q.address)
<1>1. /\ SpaceInv /\ IInv /\ CacheInv /\ phase = "probe" /\ result = "ok" /\ HasSockets /\ size = Size
      /\ ProbesAreDue /\ Land /\ UNCHANGED targetVars
  BY DEF OrderInv, Probe
<1>2. d \in 0..(Size - 1)
  <2>1. c \in Domain /\ i < size /\ ~(d >= size)
    BY <1>1 DEF IInv, Owners, Land, OutOfRange
  <2>2. d \in Domain /\ a * b \in Nat /\ size \in Nat
    BY <1>1, <2>1, EncryptOneToOne DEF IInv, FieldInv
  <2> HIDE DEF d
  <2> QED BY <1>1, <2>1, <2>2 DEF Domain
<1>3. q \in Covered
  BY <1>1, <1>2, TargetCovered
<1>4. /\ q # Nil /\ q.address # Nil /\ q.address \in IPs
      /\ Connection(q.address) = SocketOf(q.address) /\ Connection(q.address) # Nil
  BY <1>1, <1>3, SocketsSuffice
<1>5. Resolved(q.address) = source
  BY <1>1, <1>4, ResolvedIs
<1>6. /\ entries' = EntriesAfter(q.address) /\ phase' = phase
      /\ probes' = IF source = Nil THEN probes ELSE Append(probes, Rec(q))
  BY <1>4, <1>5 DEF Probe, Rec
<1>7. IInv'
  <2>1. [Next]_vars
    BY <1>1 DEF Next
  <2> QED BY <1>1, <2>1, StepInv
<1>8. CacheInv'
  BY <1>1, <1>4, <1>6, CacheStep
<1>9. /\ order' = Append(order, d) /\ i' = i + 1 /\ size' = size
  <2>1. Land
    BY <1>1
  <2>2. order' = Append(order, Encrypt(c)) /\ i' = i + 1 /\ size' = size
    BY ONLY <2>1, Zenon DEF Land, fields
  <2> QED BY <2>2 DEF d
<1>10. i \in Nat /\ order \in Seq(0..(size - 1)) /\ Len(order) = i
  BY <1>1 DEF IInv, TypeOK
<1>11. UNCHANGED <<networks, skipIpv6, layoutVars>>
  BY <1>1 DEF targetVars
<1>12. /\ SpaceInv' /\ HasSockets' /\ Size' = Size /\ Covered' = Covered
       /\ \A index : Target(index)' = Target(index)
  BY <1>1, <1>11, TargetStays
<1> HIDE DEF d
<1>13. order'[i + 1] = d /\ \A m \in 1..i : order'[m] = order[m]
  BY <1>1, <1>2, <1>9, <1>10, AppendProperties
<1>14. \A m \in 1..(i + 1) : Target(order[m])' = IF m = i + 1 THEN q ELSE Target(order[m])
  <2> TAKE m \in 1..(i + 1)
  <2>1. Target(order[m])' = Target(order'[m])
    BY ONLY <1>12
  <2> QED BY <1>10, <1>13, <2>1
<1> DEFINE Due == DueUpTo(i)
<1> HIDE DEF q
<1>15. DueUpTo(i)' = IF source = Nil THEN Due ELSE Due \cup {i + 1}
  <2>1. DueUpTo(i)' = {m \in 1..(i + 1) : KernelSourceIp(Target(order[m])'.address) # Nil}
    BY <1>9 DEF DueUpTo, KernelSourceIp
  <2>2. \A m \in 1..(i + 1) : KernelSourceIp(Target(order[m])'.address) # Nil
          <=> IF m = i + 1 THEN source # Nil ELSE KernelSourceIp(Target(order[m]).address) # Nil
    BY <1>14
  <2>3. 1..(i + 1) = (1..i) \cup {i + 1} /\ i + 1 \notin 1..i
    BY <1>10
  <2> QED BY <2>1, <2>2, <2>3 DEF DueUpTo
<1>16. ProbesAreDue'
  <2>0. IsFiniteSet(Due) /\ i + 1 \notin Due /\ Due \subseteq 1..i
    <3>1. Due \in SUBSET (1..i)
      BY DEF DueUpTo
    <3>2. IsFiniteSet(1..i)
      BY <1>10, FS_Interval
    <3> QED BY <1>10, <3>1, <3>2, FS_Subset
  <2>1. /\ probes \in Seq({Rec(r) : r \in Covered}) /\ Range(probes) = {Rec(Target(order[m])) : m \in Due}
        /\ Len(probes) = Cardinality(Due)
    BY <1>1 DEF ProbesAreDue
  <2>2. \A r : Rec(r)' = Rec(r)
    BY DEF Rec, KernelSourceIp, SocketOf
  <2>3. Rec(q) \in {Rec(r) : r \in Covered}
    BY <1>3
  <2>4. probes' \in Seq({Rec(r) : r \in Covered})
    BY <1>6, <2>1, <2>3, AppendProperties
  <2>5. {Rec(r) : r \in Covered}' = {Rec(r) : r \in Covered}
    BY <1>12, <2>2
  <2>6. \A m \in Due : Target(order[m])' = Target(order[m])
    <3> TAKE m \in Due
    <3>1. m \in 1..(i + 1) /\ m # i + 1
      BY <1>10, <2>0
    <3> QED BY <1>14, <3>1
  <2>7. {Rec(Target(order[m])) : m \in DueUpTo(i)}' = {Rec(Target(order[m])') : m \in DueUpTo(i)'}
    BY <2>2
  <2>8. CASE source = Nil
    <3>1. {Rec(Target(order[m])') : m \in Due} = {Rec(Target(order[m])) : m \in Due}
      BY <2>6
    <3>2. probes' = probes /\ DueUpTo(i)' = Due
      BY <1>6, <1>15, <2>8
    <3>3. Range(probes') = {Rec(Target(order[m])) : m \in DueUpTo(i)}'
      BY <2>1, <2>7, <3>1, <3>2
    <3> QED BY <2>1, <2>4, <2>5, <3>2, <3>3 DEF ProbesAreDue, Range
  <2>9. CASE source # Nil
    <3>1. probes' = Append(probes, Rec(q)) /\ DueUpTo(i)' = Due \cup {i + 1}
      BY <1>6, <1>15, <2>9
    <3>2. ASSUME NEW m, m = i + 1 PROVE Target(order[m])' = q
      <4>1. m \in 1..(i + 1)
        BY <1>10, <3>2
      <4> QED BY <1>14, <3>2, <4>1
    <3>3. {Rec(Target(order[m])') : m \in Due \cup {i + 1}} = {Rec(Target(order[m])) : m \in Due} \cup {Rec(q)}
      BY <2>6, <3>2
    <3>4. Range(probes') = Range(probes) \cup {Rec(q)}
      <4> DEFINE T == {Rec(r) : r \in Covered}  n == Len(probes)
      <4>1. /\ n \in Nat /\ DOMAIN probes = 1..n /\ DOMAIN probes' = 1..(n + 1)
            /\ probes'[n + 1] = Rec(q) /\ \A m \in 1..n : probes'[m] = probes[m]
        <5> HIDE DEF T
        <5>1. Len(probes') = n + 1 /\ probes' \in Seq(T)
          BY <2>1, <2>3, <3>1, AppendProperties DEF T
        <5> QED BY <2>1, <2>3, <3>1, <5>1, AppendProperties, LenProperties DEF T
      <4> HIDE DEF n
      <4>2. 1..(n + 1) = 1..n \cup {n + 1}
        BY <4>1
      <4> QED BY <4>1, <4>2 DEF Range
    <3>5. Range(probes') = {Rec(Target(order[m])) : m \in DueUpTo(i)}'
      BY <2>1, <2>7, <3>1, <3>3, <3>4
    <3>6. Len(probes') = Cardinality(DueUpTo(i)')
      <4>1. Len(probes') = Len(probes) + 1
        BY <2>1, <2>3, <3>1, AppendProperties
      <4>2. Cardinality(Due \cup {i + 1}) = Cardinality(Due) + 1
        BY <2>0, FS_AddElement
      <4> QED BY <2>1, <3>1, <4>1, <4>2
    <3> QED BY <2>4, <2>5, <3>5, <3>6 DEF ProbesAreDue, Range
  <2> QED BY <2>8, <2>9
<1>17. result' = result
  BY <1>11 DEF layoutVars
<1> QED BY <1>1, <1>6, <1>7, <1>8, <1>9, <1>12, <1>16, <1>17 DEF OrderInv

\* What a step that leaves the loop alone must keep.
LEMMA OtherSteps ==
    ASSUME OrderInv, UNCHANGED <<vars, entries, probes>>, SpaceInv',
           phase' \in {"prepare", "probe", "refused"}, phase' = "probe" <=> phase = "probe",
           phase = "probe" => UNCHANGED <<networks, skipIpv6, layoutVars>>
    PROVE  OrderInv'
<1>1. IInv'
  <2>1. UNCHANGED vars
    OBVIOUS
  <2>2. [Next]_vars
    BY ONLY <2>1
  <2> QED BY <2>2, StepInv DEF OrderInv
<1>2. CacheInv'
  BY DEF OrderInv, CacheInv, Key, KernelSourceIp
<1>3. CASE phase' = "probe"
  <2>1. /\ result' = result /\ (HasSockets' <=> HasSockets) /\ Size' = Size /\ Covered' = Covered
        /\ \A index : Target(index)' = Target(index)
    BY <1>3, TargetStays DEF layoutVars
  <2>2. order' = order /\ i' = i /\ probes' = probes /\ size' = size
    BY DEF vars, fields
  <2>3. \A r : Rec(r)' = Rec(r)
    BY DEF Rec, KernelSourceIp, SocketOf
  <2>4. \A m : Target(order[m])' = Target(order[m])
    <3> TAKE m
    <3>1. Target(order[m])' = Target(order'[m])
      BY ONLY <2>1
    <3> QED BY <2>2, <3>1
  <2>5. DueUpTo(i)' = DueUpTo(i)
    BY <2>2, <2>4 DEF DueUpTo, KernelSourceIp
  <2>6. {Rec(Target(order[m])) : m \in DueUpTo(i)}' = {Rec(Target(order[m])) : m \in DueUpTo(i)}
    BY <2>3, <2>4, <2>5
  <2>7. {Rec(r) : r \in Covered}' = {Rec(r) : r \in Covered}
    BY <2>1, <2>3
  <2>8. ProbesAreDue'
    BY <1>3, <2>2, <2>5, <2>6, <2>7 DEF OrderInv, ProbesAreDue, Range
  <2> QED BY <1>1, <1>2, <1>3, <2>1, <2>2, <2>8 DEF OrderInv
<1>4. CASE phase' # "probe"
  <2>1. phase # "probe"
    BY <1>4
  <2>2. probes = <<>> /\ Idle
    BY <2>1 DEF OrderInv
  <2>3. probes' = <<>> /\ Idle'
    BY <2>2 DEF Idle, vars, fields
  <2> QED BY <1>1, <1>2, <1>4, <2>3 DEF OrderInv
<1> QED BY <1>3, <1>4

\* The first probe finds everything prepared.
LEMMA StartStep == ASSUME OrderInv, StartProbing PROVE OrderInv'
<1>1. /\ SpaceInv /\ phase = "prepare" /\ result = "ok" /\ HasSockets /\ probes = <<>> /\ Idle /\ seed \in Seeds
      /\ CacheInv
  BY DEF OrderInv, StartProbing, IInv, FieldInv
<1>2. /\ phase' = "probe" /\ size' = Size /\ a' \in 1..Size /\ b' = RoundedUp(Size, a')
      /\ UNCHANGED <<seed, i, c, order, steps, entries, probes>>
      /\ UNCHANGED <<networks, skipIpv6, layoutVars>>
  BY DEF StartProbing, Roots, targetVars
<1>3. Size \in 1..MaxCount
  BY <1>1, SpaceIsLaid
<1>4. FieldInv'
  <2>1. /\ b' \in Nat \ {0} /\ Size =< a' * b' /\ a' * b' < 2 * Size
        /\ 2 * a' =< W /\ 2 * b' =< W
    BY <1>2, <1>3, NewFields
  <2>2. Size \in Nat \ {0} /\ a' \in Nat \ {0}
    <3>1. MaxCount \in Int
      BY SpaceParameters DEF MaxCount
    <3> QED BY <1>2, <1>3, <3>1
  <2> QED BY <1>1, <1>2, <2>1, <2>2 DEF FieldInv
<1>5. IInv'
  <2>1. (FieldInv /\ Idle)'
    BY <1>1, <1>2, <1>4 DEF Idle
  <2> QED BY <2>1, FreshInv, PTL
<1>6. /\ SpaceInv' /\ HasSockets' /\ Size' = Size /\ Covered' = Covered /\ result' = result
  BY <1>1, <1>2, TargetStays DEF layoutVars
<1>7. CacheInv'
  BY <1>1, <1>2 DEF CacheInv, Key, KernelSourceIp
<1>8. ProbesAreDue'
  <2>1. DueUpTo(i)' = {} /\ probes' = <<>>
    BY <1>1, <1>2 DEF DueUpTo, Idle
  <2>2. DOMAIN probes' = {}
    BY <2>1
  <2>3. Range(probes') = {} /\ Len(probes') = 0 /\ \A T : probes' \in Seq(T)
    BY <2>1, <2>2 DEF Range
  <2> QED BY <2>1, <2>3, FS_EmptySet DEF ProbesAreDue, Range
<1> QED BY <1>1, <1>2, <1>5, <1>6, <1>7, <1>8 DEF OrderInv

\* OrderInv is inductive.
LEMMA OrderStep == OrderInv /\ [OrderNext]_all => OrderInv'
<1> SUFFICES ASSUME OrderInv, [OrderNext]_all PROVE OrderInv'
  OBVIOUS
<1>1. CASE Prepare
  <2>1. NewTargetSpace /\ UNCHANGED <<vars, probeVars>> /\ result = None
    BY <1>1 DEF Prepare, ScanSyn, NewTargetSpace, RejectArguments, FoldPorts, RejectNetwork, RejectCount,
                LayOut, Finish
  <2>2. phase # "probe"
    BY <2>1, SpaceParameters DEF OrderInv
  <2>3. SpaceInv'
    BY <2>1, SpaceStep DEF OrderInv
  <2> QED BY <2>1, <2>2, <2>3, OtherSteps DEF probeVars, OrderInv
<1>2. CASE RefuseFamily
  <2>1. SpaceInv'
    BY <1>2, TargetStays DEF RefuseFamily, targetVars, OrderInv
  <2> QED BY <1>2, <2>1, OtherSteps DEF RefuseFamily
<1>3. CASE StartProbing
  BY <1>3, StartStep
<1>4. CASE WalkOn
  <2>1. /\ phase = "probe" /\ Walk /\ UNCHANGED <<targetVars, probeVars>>
    BY <1>4 DEF WalkOn
  <2>2. IInv'
    BY <2>1, StepInv DEF Next, OrderInv
  <2>3. order' = order /\ i' = i /\ size' = size
    BY <2>1 DEF Walk, fields
  <2>4. entries' = entries /\ probes' = probes /\ phase' = phase
        /\ UNCHANGED <<networks, skipIpv6, layoutVars>> /\ result' = result
    BY <2>1 DEF probeVars, targetVars, layoutVars
  <2>5. SpaceInv /\ HasSockets /\ result = "ok" /\ size = Size /\ ProbesAreDue /\ CacheInv
    BY <2>1 DEF OrderInv
  <2>6. /\ SpaceInv' /\ HasSockets' /\ Size' = Size /\ Covered' = Covered
        /\ \A index : Target(index)' = Target(index)
    BY <2>4, <2>5, TargetStays
  <2>7. \A r : Rec(r)' = Rec(r)
    BY DEF Rec, KernelSourceIp, SocketOf
  <2>8. \A m : Target(order[m])' = Target(order[m])
    <3> TAKE m
    <3>1. Target(order[m])' = Target(order'[m])
      BY ONLY <2>6
    <3> QED BY <2>3, <3>1
  <2>9. DueUpTo(i)' = DueUpTo(i)
    BY <2>3, <2>8 DEF DueUpTo, KernelSourceIp
  <2>10. {Rec(Target(order[m])) : m \in DueUpTo(i)}' = {Rec(Target(order[m])) : m \in DueUpTo(i)}
    BY <2>7, <2>8, <2>9
  <2>11. {Rec(r) : r \in Covered}' = {Rec(r) : r \in Covered}
    BY <2>6, <2>7
  <2>12. ProbesAreDue'
    BY <2>4, <2>5, <2>9, <2>10, <2>11 DEF ProbesAreDue, Range
  <2>13. CacheInv'
    BY <2>4, <2>5 DEF CacheInv, Key, KernelSourceIp
  <2> QED BY <2>1, <2>2, <2>3, <2>4, <2>5, <2>6, <2>12, <2>13 DEF OrderInv
<1>5. CASE Probe
  BY <1>5, ProbeStep
<1>6. CASE Expand
  <2>1. UNCHANGED <<networks, skipIpv6, layoutVars, vars, probeVars>>
    <3>1. Expansion!Next => UNCHANGED Expansion!input
      BY DEF Expansion!Next, Expansion!Skip, Expansion!Enter, Expansion!PassEdge, Expansion!Enumerate,
             Expansion!Refuse, Expansion!Finish, Expansion!Finished, Expansion!vars
    <3>2. UNCHANGED Expansion!input /\ UNCHANGED <<layoutVars, vars, probeVars>>
      BY <1>6, <3>1 DEF Expand, ScanConnect
    <3> QED BY <3>2 DEF Expansion!input
  <2>2. SpaceInv'
    BY <2>1, TargetStays DEF OrderInv
  <2> QED BY <2>1, <2>2, OtherSteps DEF probeVars, OrderInv
<1>7. CASE Returned \/ UNCHANGED all
  <2>1. UNCHANGED <<targetVars, vars, probeVars>>
    BY <1>7 DEF Returned, all
  <2>2. SpaceInv'
    BY <2>1, TargetStays DEF targetVars, OrderInv
  <2> QED BY <2>1, <2>2, OtherSteps DEF targetVars, probeVars, OrderInv
<1> QED BY <1>1, <1>2, <1>3, <1>4, <1>5, <1>6, <1>7 DEF OrderNext, SendProbes

\* OrderInv holds of every scan.
LEMMA OrderInvariant == OrderSpec => []OrderInv
BY OrderStart, OrderStep, PTL DEF OrderSpec

\* When the loop has ended, the positions that were due are in one-to-one correspondence with the
\* covered pairs that have a source.
LEMMA PairsAreProbed == OrderInv => EachPairIsProbed
<1> SUFFICES ASSUME OrderInv PROVE EachPairIsProbed
  OBVIOUS
<1>1. phase # "failed"
  BY DEF OrderInv
<1> SUFFICES ASSUME phase = "probe", i = size
             PROVE  LET due == {q \in Covered : KernelSourceIp(q.address) # Nil} IN
                    /\ Range(probes) = {Rec(q) : q \in due} /\ Len(probes) = Cardinality(due)
  BY <1>1 DEF EachPairIsProbed, Rec, SocketOf
<1> DEFINE due == {q \in Covered : KernelSourceIp(q.address) # Nil}  Due == DueUpTo(i)
<1>2. /\ SpaceInv /\ result = "ok" /\ IInv /\ size = Size
      /\ Range(probes) = {Rec(Target(order[m])) : m \in Due} /\ Len(probes) = Cardinality(Due)
  BY DEF OrderInv, ProbesAreDue
<1>3. Len(order) = i /\ i = Size /\ i \in Nat /\ order \in Seq(0..(Size - 1))
  BY <1>2 DEF IInv, TypeOK
<1>4. \A m \in 1..i : order[m] \in 0..(Size - 1)
  BY <1>3, ElementOfSeq
<1>5. \A m, n \in 1..i : order[m] = order[n] => m = n
  BY <1>2, <1>3, OrderIsOneToOne DEF VisitedOnce
<1>6. \A index \in 0..(Size - 1) : \E m \in 1..i : order[m] = index
  BY <1>2, <1>3, AllAreVisited DEF AllVisited
<1>7. \A m \in 1..i : Target(order[m]) \in Covered
  BY <1>2, <1>4, TargetCovered
<1>8. \A m, n \in 1..i : Target(order[m]) = Target(order[n]) => m = n
  BY <1>2, <1>4, <1>5, TargetOneToOne
<1>9. \A q \in Covered : \E m \in 1..i : Target(order[m]) = q
  BY <1>2, <1>6, TargetOnto
<1>10. /\ \A m \in Due : m \in 1..i /\ Target(order[m]) \in due
       /\ \A q \in due : \E m \in Due : Target(order[m]) = q
  BY <1>7, <1>9 DEF DueUpTo
<1>11. IsFiniteSet(Due)
  <2>1. Due \in SUBSET (1..i)
    BY DEF DueUpTo
  <2>2. IsFiniteSet(1..i)
    BY <1>3, FS_Interval
  <2> HIDE DEF Due
  <2> QED BY <2>1, <2>2, FS_Subset
<1> HIDE DEF Due, due
<1>12. Range(probes) = {Rec(q) : q \in due}
  BY <1>2, <1>10
<1>13. Cardinality(due) = Cardinality(Due)
  <2> DEFINE f == [m \in Due |-> Target(order[m])]
  <2>1. f \in [Due -> due] /\ \A m \in Due : f[m] = Target(order[m])
    BY <1>10
  <2> HIDE DEF f
  <2>2. f \in Injection(Due, due)
    BY <1>8, <1>10, <2>1 DEF Injection, IsInjective
  <2>3. f \in Surjection(Due, due)
    BY <1>10, <2>1 DEF Surjection
  <2>4. ExistsBijection(Due, due)
    BY <2>2, <2>3 DEF ExistsBijection, Bijection
  <2> QED BY <1>11, <2>4, FS_Bijection
<1> QED BY <1>2, <1>12, <1>13 DEF due

\* A SYN scan probes every pair of its arguments that has a source address, each once, nothing
\* else, and each with the source the kernel would use and on a socket of its family: for every list
\* of networks and ports, shuffle, routing and size of the cache.  No index falls beside its network
\* and no target is left without a socket.
THEOREM ProbesEachPair == OrderSpec => []EachPairIsProbed
BY OrderInvariant, PairsAreProbed, PTL

\* The loop of sendProbes visits every number of the space exactly once, with less than twice as many
\* calls of encrypt, whatever the space.
THEOREM OrderVisitsOnce == OrderSpec => [](ExactlyOnce /\ FewSteps)
<1>1. OrderInv => ExactlyOnce /\ FewSteps
  BY OrderIsOneToOne, AllAreVisited, StepsAreOwned DEF OrderInv, ExactlyOnce
<1> QED BY OrderInvariant, <1>1, PTL

----------------------------------------------------------------------------
\* The walk of expandNetworks over one network.

\* expandNetworks has the addresses of this module.
LEMMA SameAddresses ==
    /\ \A width, n : Expansion!Address(width, n) = Address(width, n)
    /\ \A x : Expansion!IsMapped(x) = IsMapped(x)
    /\ \A x : Expansion!To4(x) = To4(x) /\ Expansion!To16(x) = To16(x)
    /\ \A width : Expansion!Space(width) = Space(width)
    /\ \A n, h : Expansion!Masked(n, h) = Masked(n, h) /\ Expansion!Block(n, h) = Block(n, h)
<1>1. \A width, n : Expansion!Address(width, n) = Address(width, n)
  BY DEF Address, Expansion!Address
<1>2. \A x : Expansion!IsMapped(x) = IsMapped(x)
  BY DEF IsMapped, Expansion!IsMapped
<1>3. \A x : Expansion!To4(x) = To4(x) /\ Expansion!To16(x) = To16(x)
  BY <1>1, <1>2 DEF To4, Expansion!To4, To16, Expansion!To16
<1>4. \A width : Expansion!Space(width) = Space(width)
  BY DEF Space, Expansion!Space
<1>5. \A n, h : Expansion!Masked(n, h) = Masked(n, h) /\ Expansion!Block(n, h) = Block(n, h)
  BY DEF Masked, Expansion!Masked, Block, Expansion!Block
<1> QED BY <1>1, <1>2, <1>3, <1>4, <1>5

\* A network that is walked has its address and mask at one width, and is walked as an IPv4 one if
\* its addresses are all of IPv4.
LEMMA WalkedNetwork ==
    ASSUME NEW network \in IPNets \cup {Nil}, ~Expansion!IsSkipped(network),
           NEW net, net = Expansion!WalkedAs(network)
    PROVE  /\ network \in IPNets
           /\ net.ip \in IPs /\ net.ip.width \in {4, 6} /\ net.mask.width = net.ip.width
           /\ net.mask.hosts = network.mask.hosts /\ net.mask.hosts \in Nat \ {0}
           /\ Space(net.ip.width) % net.mask.hosts = 0
           /\ skipIpv6 => To4(network.ip) # Nil
           /\ net.ip.width = 4 =>
                net.ip = To4(network.ip) /\ To4(network.ip) # Nil /\ net.mask.hosts =< Space4
           /\ net.ip.width = 6 =>
                /\ net.ip = To16(network.ip) /\ ~(To4(network.ip) # Nil /\ net.mask.hosts =< Space4)
                /\ Space4 % net.mask.hosts = 0 \/ net.mask.hosts % (2 * Space4) = 0
<1> DEFINE ip == network.ip  mask == network.mask  h == network.mask.hosts
<1>0. Space4 \in Nat \ {0, 1} /\ Space6 \in Nat
  BY AddressParameters
<1>1. /\ network # Nil /\ net.ip.width = net.mask.width /\ ~(skipIpv6 /\ To4(net.ip) = Nil)
      /\ net.mask.hosts # 0
  BY SameAddresses DEF Expansion!IsSkipped
<1>2. network \in IPNets /\ ip \in IPs /\ mask \in Masks
  BY <1>1 DEF IPNets
<1>3. /\ mask.width \in {4, 6} /\ h \in Nat
      /\ h # 0 => Space(mask.width) % h = 0 /\ (Space4 % h = 0 \/ h % (2 * Space4) = 0)
  BY <1>2 DEF Masks
<1>4. /\ To16(ip) \in IPs /\ To16(ip).width = 6 /\ ip.width \in {4, 6}
      /\ To4(ip) # Nil => To4(ip) \in IPs /\ To4(ip).width = 4
  BY <1>2, Forms
<1>5. net = IF To4(ip) # Nil /\ mask.width = 4 THEN [ip |-> To4(ip), mask |-> mask]
            ELSE IF To4(ip) # Nil /\ h \in 1..Space4
            THEN [ip |-> To4(ip), mask |-> [mask EXCEPT !.width = 4]]
            ELSE IF mask.width = 6 THEN [ip |-> To16(ip), mask |-> mask]
            ELSE network
  BY SameAddresses DEF Expansion!WalkedAs, Expansion!Normalised, Expansion!MaskIsMapped
<1>6. [mask EXCEPT !.width = 4].width = 4 /\ [mask EXCEPT !.width = 4].hosts = h
  BY <1>2 DEF Masks
\* A prefix of IPv4 leaves at most the IPv4 addresses, as does one that divides them.
<1>7. ASSUME h # 0, Space4 % h = 0 PROVE h =< Space4
  <2> HIDE DEF h
  <2> SUFFICES ASSUME Space4 < h PROVE FALSE
    BY <1>0, <1>3
  <2>1. Space4 % h = Space4
    BY <1>0, <1>3
  <2> QED BY <1>0, <1>7, <2>1
<1>8. ASSUME h \in 1..Space4 PROVE ~(h % (2 * Space4) = 0)
  <2> HIDE DEF h
  <2>1. h % (2 * Space4) = h
    BY <1>0, <1>8
  <2> QED BY <1>8, <2>1
<1> HIDE DEF ip, mask, h
<1>9. CASE To4(ip) # Nil /\ mask.width = 4
  <2>1. net.ip = To4(ip) /\ net.mask = mask /\ mask.hosts = h
    BY <1>5, <1>9 DEF mask, h
  <2>2. Space4 % h = 0 /\ h # 0
    BY <1>1, <1>3, <1>9, <2>1 DEF Space
  <2>3. h =< Space4
    BY <1>7, <2>2
  <2>4. net.ip = To4(ip) /\ net.mask.width = 4 /\ net.mask.hosts = h /\ net.ip.width = 4 /\ net.ip \in IPs
    BY <1>4, <1>9, <2>1
  <2> QED BY <1>2, <1>3, <1>9, <2>2, <2>3, <2>4 DEF Space, ip, h
<1>10. CASE To4(ip) # Nil /\ mask.width # 4 /\ h \in 1..Space4
  <2>1. net.ip = To4(ip) /\ net.mask.width = 4 /\ net.mask.hosts = h
    <3> DEFINE four == [mask EXCEPT !.width = 4]
    <3>1. net = [ip |-> To4(ip), mask |-> four]
      BY <1>5, <1>10
    <3>2. four.width = 4 /\ four.hosts = h
      BY <1>6
    <3> HIDE DEF four
    <3> QED BY ONLY <3>1, <3>2
  <2>2. Space4 % h = 0 /\ h # 0 /\ h =< Space4
    BY <1>3, <1>8, <1>10
  <2> QED BY <1>2, <1>3, <1>4, <1>10, <2>1, <2>2 DEF Space, ip, mask, h
<1>11. CASE ~(To4(ip) # Nil /\ mask.width = 4) /\ ~(To4(ip) # Nil /\ h \in 1..Space4) /\ mask.width = 6
  <2>1. net.ip = To16(ip) /\ net.mask = mask /\ mask.hosts = h
    BY <1>5, <1>11 DEF mask, h
  <2>2. h # 0 /\ ~(To4(ip) # Nil /\ h =< Space4)
    BY <1>0, <1>1, <1>3, <1>11, <2>1
  <2>3. skipIpv6 => To4(ip) # Nil
    <3>1. To4(To16(ip)) # Nil <=> To4(ip) # Nil
      <4>1. To16(To16(ip)) = To16(ip)
        BY <1>4 DEF To16
      <4>2. To16(ip) \in IPs /\ ip \in IPs
        BY <1>2, <1>4
      <4> QED BY <4>1, <4>2, Forms
    <3> QED BY <1>1, <2>1, <3>1
  <2> QED BY <1>2, <1>3, <1>4, <1>11, <2>1, <2>2, <2>3 DEF Space, ip, mask, h
<1>12. CASE mask.width = 4 /\ To4(ip) = Nil
  <2>1. net = network
    BY <1>5, <1>12
  <2>2. ip.width = 4
    BY <1>1, <1>12, <2>1 DEF ip, mask
  <2>3. To4(ip) = ip /\ ip # Nil
    BY <1>2, <2>2, Forms DEF To4
  <2> QED BY <1>12, <2>3
<1> QED BY <1>3, <1>9, <1>10, <1>11, <1>12

\* The walk begins at the first address of a block that holds the network's own and does not leave
\* the space; a walk at sixteen bytes has many addresses before the first IPv4-mapped one.
LEMMA WalkBounds ==
    ASSUME NEW network \in IPNets \cup {Nil}, ~Expansion!IsSkipped(network),
           NEW net, net = Expansion!WalkedAs(network)
    PROVE  /\ Expansion!First(net) \in Nat
           /\ Expansion!First(net) + net.mask.hosts =< Space(net.ip.width)
           /\ Expansion!Last(net) = Expansion!First(net) + net.mask.hosts - 1
           /\ Expansion!First(net) =< Expansion!Last(net) /\ Expansion!Last(net) \in Nat
           /\ \A x \in Expansion!First(net)..Expansion!Last(net) :
                 net.ip.width = 6 /\ x \in Mapped..(Mapped + Space4 - 1) =>
                    Expansion!First(net) + Space4 =< x
<1> DEFINE n == net.ip.n  h == net.mask.hosts  s == Space(net.ip.width)  f == Masked(n, h)
<1>0. Space4 \in Nat \ {0, 1} /\ Mapped \in Nat
  BY AddressParameters
<1>1. h \in Nat \ {0} /\ s % h = 0 /\ net.ip \in IPs
  BY WalkedNetwork
<1>2. s \in Nat /\ n \in 0..(s - 1) /\ n \in Nat
  BY <1>1, Forms, AddressParameters DEF Space
<1>3. f \in Nat /\ f + h =< s /\ n \in f..(f + h - 1)
  <2> HIDE DEF n, h, s
  <2> QED BY <1>1, <1>2, BlockInSpace
<1>4. \E t \in Nat : f = h * t
  <2> HIDE DEF n, h
  <2> QED BY <1>1, <1>2, Quotient DEF Masked
<1>5. Expansion!First(net) = f /\ Expansion!Last(net) = f + h - 1
  BY SameAddresses DEF Expansion!First, Expansion!Last
<1>6. ASSUME NEW x \in f..(f + h - 1), net.ip.width = 6, x \in Mapped..(Mapped + Space4 - 1)
      PROVE  f + Space4 =< x
  <2>1. /\ net.ip = To16(network.ip) /\ ~(To4(network.ip) # Nil /\ h =< Space4)
        /\ Space4 % h = 0 \/ h % (2 * Space4) = 0
        /\ network \in IPNets
    BY <1>6, WalkedNetwork
  <2>2. n \in Mapped..(Mapped + Space4 - 1) => To4(network.ip) # Nil
    BY <2>1, Forms DEF IPNets
  <2> HIDE DEF n, h, s, f
  <2>3. PICK t \in Nat : f = h * t
    BY <1>4
  <2>4. \/ h =< Space4 /\ \A y \in f..(f + h - 1) : y \in Mapped..(Mapped + Space4 - 1)
        \/ h > Space4 /\ f + Space4 =< Mapped
    <3>1. x \in (h * t)..(h * t + h - 1)
      BY <1>6, <2>3
    <3> QED BY <1>1, <1>6, <2>1, <2>3, <3>1, MappedBlock
  <2>5. f + Space4 =< Mapped
    BY <1>3, <2>1, <2>2, <2>4
  <2>6. Mapped =< x /\ x \in Int /\ f \in Nat
    BY <1>0, <1>3, <1>6
  <2> QED BY ONLY <1>0, <2>5, <2>6
<1> HIDE DEF n, h, s, f
<1>7. f =< f + h - 1 /\ f + h - 1 \in Nat
  BY <1>1, <1>3
<1> QED BY <1>3, <1>5, <1>6, <1>7 DEF h, s

\* A network without a walk is skipped, or has an IPv4 address and a mask too short for it.
IsPassed(network) ==
    \/ Expansion!IsSkipped(network)
    \/ To4(network.ip) # Nil /\ network.mask.hosts > Space4

\* The addresses that a walk enumerates are the hosts of its network.
WalkHosts(net) ==
    {Address(net.ip.width, x) :
        x \in {y \in Expansion!First(net)..Expansion!Last(net) : ~Expansion!IsEdge(net, y)}}

\* The hosts of a network are the addresses of its walk that are no edges.
LEMMA HostsAre ==
    ASSUME NEW network \in IPNets \cup {Nil}, NEW net, net = Expansion!WalkedAs(network)
    PROVE  Expansion!HostsOf(network) = IF IsPassed(network) THEN {} ELSE WalkHosts(net)
<1> DEFINE ip == network.ip  mask == network.mask  h == network.mask.hosts
<1>0. Space4 \in Nat \ {0, 1}
  BY AddressParameters
<1>1. CASE Expansion!IsSkipped(network)
  <2>1. CASE network = Nil
    BY <1>1, <2>1 DEF Expansion!HostsOf, Expansion!IsNetwork, IsPassed
  <2>2. CASE network # Nil
    <3>1. ip \in IPs /\ mask.width \in {4, 6}
      BY <2>2 DEF IPNets, Masks
    <3>2. \/ net.ip.width # net.mask.width
          \/ skipIpv6 /\ To4(net.ip) = Nil
          \/ net.mask.hosts = 0
      BY <1>1, <2>2, SameAddresses DEF Expansion!IsSkipped
    <3>3. net = IF To4(ip) # Nil /\ mask.width = 4 THEN [ip |-> To4(ip), mask |-> mask]
                ELSE IF To4(ip) # Nil /\ h \in 1..Space4
                THEN [ip |-> To4(ip), mask |-> [mask EXCEPT !.width = 4]]
                ELSE IF mask.width = 6 THEN [ip |-> To16(ip), mask |-> mask]
                ELSE network
      BY SameAddresses DEF Expansion!WalkedAs, Expansion!Normalised, Expansion!MaskIsMapped
    <3>4. [mask EXCEPT !.width = 4].width = 4 /\ [mask EXCEPT !.width = 4].hosts = h
      BY <2>2 DEF IPNets, Masks
    <3>5. /\ To16(ip).width = 6 /\ (To4(ip) # Nil => To4(ip).width = 4)
          /\ To4(ip) # Nil => To4(To4(ip)) # Nil
          /\ To4(To16(ip)) # Nil <=> To4(ip) # Nil
      <4>1. /\ To16(ip) \in IPs /\ To16(ip).width = 6
            /\ To4(ip) # Nil => To4(ip) \in IPs /\ To4(ip).width = 4
        BY <3>1, Forms
      <4>2. To16(To16(ip)) = To16(ip)
        BY <4>1 DEF To16
      <4>3. To4(To16(ip)) # Nil <=> To4(ip) # Nil
        BY <3>1, <4>1, <4>2, Forms
      <4>4. To4(ip) # Nil => To4(To4(ip)) = To4(ip)
        BY <4>1 DEF To4
      <4> QED BY <4>1, <4>3, <4>4
    <3> DEFINE Networks == h # 0 /\ (mask.width = 6 \/ To4(ip) # Nil)
    <3> HIDE DEF ip, mask, h
    <3>6. ~Networks \/ (skipIpv6 /\ To4(ip) = Nil)
      <4> DEFINE four == [mask EXCEPT !.width = 4]
      <4>1. four.width = 4 /\ four.hosts = h
        BY <3>4
      <4> HIDE DEF four
      <4>2. CASE To4(ip) # Nil /\ mask.width = 4
        <5>1. net.ip = To4(ip) /\ net.mask = mask /\ mask.hosts = h
          BY <3>3, <4>2 DEF mask, h
        <5> QED BY <3>2, <3>5, <4>2, <5>1
      <4>3. CASE To4(ip) # Nil /\ mask.width # 4 /\ h \in 1..Space4
        <5>1. net = [ip |-> To4(ip), mask |-> four]
          BY <3>3, <4>3 DEF four
        <5>2. net.ip = To4(ip) /\ net.mask = four
          BY ONLY <5>1
        <5> QED BY <3>2, <3>5, <4>1, <4>3, <5>2
      <4>4. CASE ~(To4(ip) # Nil /\ mask.width = 4) /\ ~(To4(ip) # Nil /\ h \in 1..Space4) /\ mask.width = 6
        <5>1. net.ip = To16(ip) /\ net.mask = mask /\ mask.hosts = h
          BY <3>3, <4>4 DEF mask, h
        <5> QED BY <3>2, <3>5, <4>4, <5>1
      <4>5. CASE mask.width = 4 /\ To4(ip) = Nil
        BY <4>5
      <4> QED BY <3>1, <4>2, <4>3, <4>4, <4>5
    <3>7. CASE ~Networks
      <4>1. ~Expansion!IsNetwork(network)
        BY <3>7, SameAddresses DEF Expansion!IsNetwork, ip, mask, h
      <4> QED BY <1>1, <4>1 DEF Expansion!HostsOf, IsPassed
    <3>8. CASE skipIpv6 /\ To4(ip) = Nil
      <4>1. ~Expansion!IsIpv4(network)
        BY <3>8, SameAddresses DEF Expansion!IsIpv4, ip
      <4> QED BY <1>1, <3>8, <4>1 DEF Expansion!HostsOf, IsPassed
    <3> QED BY <3>6, <3>7, <3>8
  <2> QED BY <2>1, <2>2
<1>2. CASE ~Expansion!IsSkipped(network) /\ IsPassed(network)
  <2>1. network # Nil
    BY <1>2 DEF Expansion!IsSkipped
  <2>2. h \in Nat /\ To4(ip) # Nil /\ h > Space4
    BY <1>2, <2>1 DEF IsPassed, IPNets, Masks
  <2>3. ~Expansion!IsIpv4(network) /\ Expansion!To4(network.ip) # Nil
    BY <1>0, <2>2, SameAddresses DEF Expansion!IsIpv4
  <2> QED BY <1>2, <2>3 DEF Expansion!HostsOf
<1>3. CASE ~IsPassed(network)
  <2> DEFINE f == Masked(net.ip.n, h)
  <2>1. /\ network \in IPNets /\ h \in Nat \ {0} /\ net.ip.width \in {4, 6} /\ net.mask.hosts = h
        /\ net.mask.width = net.ip.width /\ network # Nil
        /\ skipIpv6 => To4(ip) # Nil
        /\ net.ip.width = 4 => net.ip = To4(ip) /\ To4(ip) # Nil /\ h =< Space4
        /\ net.ip.width = 6 => net.ip = To16(ip) /\ ~(To4(ip) # Nil /\ h =< Space4)
        /\ ip \in IPs /\ ip.width \in {4, 6}
    <3>1. network # Nil /\ ~Expansion!IsSkipped(network)
      BY <1>3 DEF Expansion!IsSkipped, IsPassed
    <3> QED BY <3>1, WalkedNetwork, Forms DEF IPNets
  <2>2. Expansion!First(net) = f /\ Expansion!Last(net) = f + h - 1
    BY <2>1, SameAddresses DEF Expansion!First, Expansion!Last
  <2>3. \A y : Expansion!IsEdge(net, y) <=> net.ip.width = 4 /\ h > 2 /\ y \in {f, f + h - 1}
    BY <2>1, <2>2 DEF Expansion!IsEdge
  <2>4. CASE net.ip.width = 4
    <3>1. Expansion!IsNetwork(network) /\ Expansion!IsIpv4(network)
      BY <2>1, <2>4, SameAddresses DEF Expansion!IsNetwork, Expansion!IsIpv4
    <3>2. Expansion!HostsOf(network) =
            {Address(4, x) : x \in Block(net.ip.n, h) \ (IF h > 2 THEN {f, f + h - 1} ELSE {})}
      BY <2>1, <2>4, <3>1, SameAddresses DEF Expansion!HostsOf
    <3>3. Block(net.ip.n, h) \ (IF h > 2 THEN {f, f + h - 1} ELSE {})
            = {y \in f..(f + h - 1) : ~Expansion!IsEdge(net, y)}
      BY <2>3, <2>4 DEF Block
    <3> QED BY <1>3, <2>2, <2>4, <3>2, <3>3 DEF WalkHosts
  <2>5. CASE net.ip.width = 6
    <3>0. To4(ip) = Nil /\ ip.width = 6
      <4>1. To4(ip) = Nil
        BY <1>0, <1>3, <2>1, <2>5 DEF IsPassed
      <4> QED BY <2>1, <4>1, NilIsNothing DEF To4
    <3>1. Expansion!IsNetwork(network) /\ ~Expansion!IsIpv4(network) /\ ~(To4(ip) # Nil \/ skipIpv6)
      <4>1. network.mask.width = 6
        <5>1. network.mask.width \in {4, 6}
          BY <2>1 DEF IPNets, Masks
        <5>2. network.mask.width = 4 => net = network
          BY <3>0, SameAddresses DEF Expansion!WalkedAs, Expansion!Normalised, Expansion!MaskIsMapped
        <5> QED BY <2>1, <2>5, <5>1, <5>2
      <4> QED BY <2>1, <2>5, <3>0, <4>1, SameAddresses DEF Expansion!IsNetwork, Expansion!IsIpv4
    <3>2. Expansion!HostsOf(network) = {Address(6, x) : x \in Block(net.ip.n, h)}
      <4>1. net.ip = ip
        BY <2>1, <2>5, <3>0 DEF To16
      <4> QED BY <3>1, <4>1, SameAddresses DEF Expansion!HostsOf
    <3>3. Block(net.ip.n, h) = {y \in f..(f + h - 1) : ~Expansion!IsEdge(net, y)}
      BY <2>3, <2>5 DEF Block
    <3> QED BY <1>3, <2>2, <2>5, <3>2, <3>3 DEF WalkHosts
  <2> QED BY <2>1, <2>4, <2>5
<1> QED BY <1>1, <1>2, <1>3

\* An address is in a network that is walked if it is one of its block, and no IPv4-mapped one at
\* sixteen bytes.
LEMMA ContainsIs ==
    ASSUME NEW network \in IPNets \cup {Nil}, ~IsPassed(network),
           NEW net, net = Expansion!WalkedAs(network),
           NEW m \in 0..(Space(net.ip.width) - 1)
    PROVE  Expansion!Contains(net, Address(net.ip.width, m)) <=>
             /\ m \in Expansion!First(net)..Expansion!Last(net)
             /\ ~(net.ip.width = 6 /\ m \in Mapped..(Mapped + Space4 - 1))
<1> DEFINE w == net.ip.width  next == Address(w, m)  x == Expansion!Reduced(next)
           B == Expansion!First(net)..Expansion!Last(net)
<1> SUFFICES Expansion!Contains(net, next) <=>
               m \in B /\ ~(w = 6 /\ m \in Mapped..(Mapped + Space4 - 1))
  OBVIOUS
<1>1. /\ ~Expansion!IsSkipped(network) /\ ~(To4(network.ip) # Nil /\ network.mask.hosts > Space4)
      /\ Space4 \in Nat
  BY AddressParameters DEF IsPassed
<1>2. /\ network \in IPNets /\ net.ip \in IPs /\ w \in {4, 6} /\ net.mask.hosts = network.mask.hosts
      /\ net.mask.hosts \in Nat
      /\ w = 4 => net.ip = To4(network.ip) /\ net.mask.hosts =< Space4
      /\ w = 6 => net.ip = To16(network.ip) /\ ~(To4(network.ip) # Nil /\ net.mask.hosts =< Space4)
  BY <1>1, WalkedNetwork
<1>3. /\ Expansion!Reduced(net.ip) = net.ip /\ Expansion!ReducedHosts(net) = net.mask.hosts
  <2>1. CASE w = 4
    <3>1. To4(net.ip) = net.ip
      BY <2>1 DEF To4
    <3>2. ~(net.mask.hosts > Space4)
      BY <1>1, <1>2, <2>1
    <3> QED BY <3>1, <3>2, SameAddresses DEF Expansion!Reduced, Expansion!ReducedHosts
  <2>2. CASE w = 6
    <3>1. To4(network.ip) = Nil /\ network.ip \in IPs
      BY <1>1, <1>2, <2>2 DEF IPNets
    <3>2. network.ip.width = 6
      BY <3>1, Forms, NilIsNothing DEF To4
    <3>3. To4(net.ip) = Nil
      BY <1>2, <2>2, <3>1, <3>2 DEF To16
    <3> QED BY <3>3, SameAddresses DEF Expansion!Reduced, Expansion!ReducedHosts
  <2> QED BY <1>2, <2>1, <2>2
<1>4. Expansion!Contains(net, next) <=> x.width = w /\ x.n \in B
  BY <1>3, SameAddresses DEF Expansion!Contains, Expansion!First, Expansion!Last, Block
<1>5. next.width = w /\ next.n = m
  BY DEF Address
<1>6. x = IF To4(next) # Nil THEN To4(next) ELSE next
  BY SameAddresses DEF Expansion!Reduced
<1> HIDE DEF next, B, x
<1>7. CASE w = 4
  BY <1>4, <1>5, <1>6, <1>7 DEF To4
<1>8. CASE w = 6 /\ m \in Mapped..(Mapped + Space4 - 1)
  <2>1. next \in IPs
    BY <1>8 DEF next, Address, IPs, Space
  <2>2. IsMapped(next)
    BY <1>5, <1>8 DEF IsMapped
  <2>3. To4(next) # Nil
    BY <1>5, <1>8, <2>1, Forms DEF To16
  <2>4. x.width = 4
    BY <1>6, <2>1, <2>3, Forms
  <2> QED BY <1>4, <1>8, <2>4
<1>9. CASE w = 6 /\ ~(m \in Mapped..(Mapped + Space4 - 1))
  <2>1. To4(next) = Nil
    BY <1>5, <1>9 DEF To4, IsMapped
  <2> QED BY <1>4, <1>5, <1>6, <1>9, <2>1
<1> QED BY <1>2, <1>7, <1>8, <1>9

\* The loop is entered in the networks that have a walk, and in no other.
LEMMA EntersIf ==
    ASSUME NEW network \in IPNets \cup {Nil}, ~Expansion!IsSkipped(network),
           NEW net, net = Expansion!WalkedAs(network)
    PROVE  Expansion!Contains(net, Address(net.ip.width, Expansion!First(net))) <=> ~IsPassed(network)
<1> DEFINE f == Expansion!First(net)  w == net.ip.width
<1>0. Space4 \in Nat \ {0, 1} /\ Mapped \in Nat /\ Space(w) \in Nat
  BY AddressParameters DEF Space
<1>1. /\ f \in Nat /\ f + net.mask.hosts =< Space(w)
      /\ Expansion!Last(net) = f + net.mask.hosts - 1 /\ f =< Expansion!Last(net)
      /\ \A x \in f..Expansion!Last(net) :
            w = 6 /\ x \in Mapped..(Mapped + Space4 - 1) => f + Space4 =< x
  BY WalkBounds
<1>2. /\ network \in IPNets /\ net.ip \in IPs /\ w \in {4, 6} /\ net.mask.hosts = network.mask.hosts
      /\ net.mask.hosts \in Nat \ {0}
      /\ w = 4 => net.mask.hosts =< Space4
      /\ w = 6 => net.ip = To16(network.ip)
  BY WalkedNetwork
<1> HIDE DEF f, w
<1>3. f \in f..Expansion!Last(net) /\ f \in 0..(Space(w) - 1) /\ Expansion!Last(net) \in Nat
  BY <1>0, <1>1, <1>2
<1>4. ~(w = 6 /\ f \in Mapped..(Mapped + Space4 - 1))
  <2>1. ~(f + Space4 =< f)
    BY <1>0, <1>1
  <2> QED BY <1>1, <1>3, <2>1
<1>5. CASE ~IsPassed(network)
  BY <1>3, <1>4, <1>5, ContainsIs DEF f, w
\* The reduced address of the network has four bytes, and the one the walk would begin at sixteen.
<1>6. CASE IsPassed(network)
  <2>1. To4(network.ip) # Nil /\ network.mask.hosts > Space4 /\ network.ip \in IPs
    BY <1>2, <1>6 DEF IsPassed, IPNets
  <2>2. w = 6
    BY <1>0, <1>2, <2>1
  <2>3. To4(net.ip) # Nil
    <3>1. To16(net.ip) = net.ip /\ To16(network.ip) = net.ip
      BY <1>2, <2>2 DEF To16, w
    <3> QED BY <1>2, <2>1, <3>1, Forms
  <2>4. Expansion!Reduced(net.ip).width = 4
    <3>1. Expansion!Reduced(net.ip) = To4(net.ip)
      BY <2>3, SameAddresses DEF Expansion!Reduced
    <3> QED BY <1>2, <2>3, <3>1, Forms
  <2>5. To4(Address(w, f)) = Nil
    BY <1>4, <2>2 DEF To4, IsMapped, Address
  <2>6. Expansion!Reduced(Address(w, f)).width = 6
    BY <2>2, <2>5, SameAddresses DEF Expansion!Reduced, Address
  <2>7. ~Expansion!Contains(net, Address(w, f))
    BY <2>4, <2>6 DEF Expansion!Contains
  <2> QED BY <1>6, <2>7 DEF f, w
<1> QED BY <1>5, <1>6

\* The walk goes on to the next address, or ends at the last one: it neither wraps nor runs into the
\* IPv4-mapped addresses.
LEMMA AdvanceIs ==
    ASSUME NEW network \in IPNets \cup {Nil}, ~IsPassed(network),
           NEW net, net = Expansion!WalkedAs(network),
           NEW n \in Expansion!First(net)..Expansion!Last(net), current = Address(net.ip.width, n),
           net.ip.width = 6 => n + 1 < Expansion!First(net) + Space4,
           Expansion!Advance(net)
    PROVE  /\ n = Expansion!Last(net) => current' = Nil /\ at' = at + 1
           /\ n # Expansion!Last(net) => current' = Address(net.ip.width, n + 1) /\ at' = at
<1> DEFINE f == Expansion!First(net)  l == Expansion!Last(net)  w == net.ip.width  s == Space(w)
           m == (n + 1) % s  next == Address(w, m)
<1>0. ~Expansion!IsSkipped(network)
  BY DEF IsPassed
<1>1. /\ w \in {4, 6} /\ f \in Nat /\ l \in Nat /\ f =< l /\ l < s /\ s \in Nat
      /\ \A x \in f..l : w = 6 /\ x \in Mapped..(Mapped + Space4 - 1) => f + Space4 =< x
  <2>1. s \in Nat
    BY AddressParameters DEF Space
  <2>2. /\ w \in {4, 6} /\ net.mask.hosts \in Nat \ {0}
    BY <1>0, WalkedNetwork
  <2>3. /\ f \in Nat /\ f + net.mask.hosts =< s /\ l = f + net.mask.hosts - 1 /\ f =< l /\ l \in Nat
        /\ \A x \in f..l : w = 6 /\ x \in Mapped..(Mapped + Space4 - 1) => f + Space4 =< x
    BY <1>0, WalkBounds
  <2> HIDE DEF f, l, w, s
  <2>4. l < s
    BY ONLY <2>1, <2>2, <2>3
  <2> QED BY <2>1, <2>2, <2>3, <2>4
<1>2. /\ current.width = w /\ current.n = n
  BY DEF Address
<1>3. IF m # 0 /\ Expansion!Contains(net, next)
      THEN current' = next /\ UNCHANGED at
      ELSE current' = Nil /\ at' = at + 1
  BY <1>2, SameAddresses DEF Expansion!Advance, Expansion!WalkTo
<1>4. n \in f..l /\ n \in Nat /\ (w = 6 => n + 1 < f + Space4)
  BY <1>1
<1>5. Expansion!Contains(net, next) <=> m \in f..l /\ ~(w = 6 /\ m \in Mapped..(Mapped + Space4 - 1))
  <2>1. m \in 0..(s - 1)
    <3> HIDE DEF s, f, l, w
    <3> QED BY <1>1, <1>4
  <2> QED BY <2>1, ContainsIs
<1> HIDE DEF f, l, w, s, next
<1>6. CASE n = l
  <2>1. m = IF l + 1 < s THEN l + 1 ELSE 0
    <3>1. CASE l + 1 < s
      BY <1>1, <1>6, <3>1
    <3>2. CASE ~(l + 1 < s)
      <4>1. l + 1 = s /\ s \in Nat \ {0}
        BY <1>1, <3>2
      <4>2. s % s = 0
        BY <4>1
      <4> QED BY <1>6, <3>2, <4>1, <4>2
    <3> QED BY <3>1, <3>2
  <2>2. m = 0 \/ m \notin f..l
    BY <1>1, <2>1
  <2> HIDE DEF m
  <2> QED BY <1>3, <1>5, <1>6, <2>2 DEF l
<1>7. CASE n # l
  <2>1. n + 1 \in f..l /\ n + 1 \in 1..(s - 1)
    BY <1>1, <1>4, <1>7
  <2>2. m = n + 1
    BY <1>1, <2>1
  <2>3. ~(w = 6 /\ n + 1 \in Mapped..(Mapped + Space4 - 1))
    <3> SUFFICES ASSUME w = 6, n + 1 \in Mapped..(Mapped + Space4 - 1) PROVE FALSE
      OBVIOUS
    <3>1. f + Space4 =< n + 1
      BY <1>1, <2>1
    <3>2. n + 1 < f + Space4 /\ f \in Nat /\ Space4 \in Nat /\ n \in Nat
      BY <1>1, <1>4, AddressParameters
    <3> QED BY ONLY <3>1, <3>2
  <2> HIDE DEF m
  <2>4. m # 0 /\ Expansion!Contains(net, next)
    BY <1>5, <2>1, <2>2, <2>3
  <2> QED BY <1>3, <1>7, <2>2, <2>4 DEF next, l, w
<1> QED BY <1>6, <1>7 DEF l

----------------------------------------------------------------------------
\* The walk of expandNetworks over all networks.

Net(j) == Expansion!WalkedAs(networks[j])
Passed(j) == IsPassed(networks[j])
FirstOf(j) == Expansion!First(Net(j))
LastOf(j) == Expansion!Last(Net(j))

\* The hosts of all networks, and those that the walk has come by.
AllHosts == UNION {{n} \X Expansion!HostsOf(networks[n]) : n \in 1..Len(networks)}
IsSeen(p) == p[1] < at \/ (p[1] = at /\ current # Nil /\ p[2].n < current.n)
Seen == {p \in AllHosts : IsSeen(p)}

\* What has been enumerated is what has been seen, each host once; at sixteen bytes every address
\* is, which keeps the walk away from the IPv4-mapped ones.
AtAddress ==
    /\ at \in 1..Len(networks) /\ ~Passed(at)
    /\ current = Address(Net(at).ip.width, current.n) /\ current.n \in FirstOf(at)..LastOf(at)
    /\ Net(at).ip.width = 6 => current.n - FirstOf(at) =< Len(addresses)
WalkInv ==
    /\ networks \in Seq(IPNets \cup {Nil}) /\ skipIpv6 \in BOOLEAN
    /\ at \in 1..(Len(networks) + 1)
    /\ expanded \in {None, "ok", "tooMany"}
    /\ addresses \in Seq(IPs) /\ Len(addresses) =< maxConnectAddresses
    /\ current # Nil => AtAddress
    /\ Len(addresses) = Cardinality(Seen) /\ Range(addresses) = {p[2] : p \in Seen}
    /\ expanded = "ok" => at = Len(networks) + 1 /\ current = Nil
    /\ expanded = "tooMany" =>
         current # Nil /\ Len(addresses) >= maxConnectAddresses /\ ~Expansion!IsEdge(Net(at), current.n)

\* There are finitely many addresses.
LEMMA AddressesFinite == IsFiniteSet(IPs)
<1>1. Space4 \in Nat /\ Space6 \in Nat /\ Space4 =< Space6
  BY AddressParameters
<1> DEFINE S == {4, 6} \X (0..(Space6 - 1))  T == {Address(p[1], p[2]) : p \in S}
           f == [p \in S |-> Address(p[1], p[2])]
<1>2. IsFiniteSet({4, 6})
  <2>1. IsFiniteSet({4}) /\ {4} \cup {6} = {4, 6}
    BY FS_Singleton
  <2> QED BY <2>1, FS_AddElement
<1>3. IsFiniteSet(0..(Space6 - 1))
  <2>1. Space6 - 1 \in Int
    BY <1>1
  <2> QED BY <2>1, FS_Interval
<1>4. IsFiniteSet(S)
  BY <1>2, <1>3, FS_Product
<1>5. f \in Surjection(S, T)
  BY DEF Surjection
<1>6. IsFiniteSet(T)
  <2> HIDE DEF S, T, f
  <2> QED BY <1>4, <1>5, FS_Surjection
<1>7. IPs \in SUBSET T
  <2> SUFFICES ASSUME NEW x \in IPs PROVE x \in T
    OBVIOUS
  <2>1. x = Address(x.width, x.n) /\ x.width \in {4, 6} /\ x.n \in 0..(Space(x.width) - 1)
    BY Forms
  <2>2. x.n \in 0..(Space6 - 1)
    BY <1>1, <2>1 DEF Space
  <2>3. <<x.width, x.n>> \in S
    BY <2>1, <2>2
  <2> HIDE DEF S
  <2>4. x = Address(<<x.width, x.n>>[1], <<x.width, x.n>>[2])
    BY <2>1
  <2> QED BY <2>3, <2>4
<1> HIDE DEF T
<1> QED BY <1>6, <1>7, FS_Subset

\* The hosts of a network are addresses of its walk.
LEMMA HostsOfWalk ==
    ASSUME networks \in Seq(IPNets \cup {Nil}), NEW j \in 1..Len(networks)
    PROVE  /\ networks[j] \in IPNets \cup {Nil}
           /\ Passed(j) => Expansion!HostsOf(networks[j]) = {}
           /\ ~Passed(j) =>
                /\ FirstOf(j) \in Nat /\ LastOf(j) \in Nat /\ FirstOf(j) =< LastOf(j)
                /\ Net(j).ip.width \in {4, 6} /\ Net(j).mask.width = Net(j).ip.width
                /\ \A y \in FirstOf(j)..LastOf(j) :
                     /\ Address(Net(j).ip.width, y) \in IPs /\ Address(Net(j).ip.width, y) # Nil
                     /\ y \in 0..(Space(Net(j).ip.width) - 1)
                /\ \A x : x \in Expansion!HostsOf(networks[j]) <=>
                     \E y \in FirstOf(j)..LastOf(j) :
                        ~Expansion!IsEdge(Net(j), y) /\ x = Address(Net(j).ip.width, y)
<1>1. networks[j] \in IPNets \cup {Nil}
  BY ElementOfSeq
<1>2. CASE Passed(j)
  BY <1>1, <1>2, HostsAre DEF Passed
<1>3. CASE ~Passed(j)
  <2> DEFINE net == Net(j)
  <2>0. /\ net = Expansion!WalkedAs(networks[j])
        /\ ~IsPassed(networks[j]) /\ ~Expansion!IsSkipped(networks[j])
    BY <1>3 DEF Net, Passed, IsPassed
  <2> HIDE DEF net
  <2>1. /\ FirstOf(j) \in Nat /\ LastOf(j) \in Nat /\ FirstOf(j) =< LastOf(j)
        /\ LastOf(j) < Space(net.ip.width)
        /\ net.ip.width \in {4, 6} /\ net.mask.width = net.ip.width
    <3>1. /\ net.ip.width \in {4, 6} /\ net.mask.width = net.ip.width /\ net.mask.hosts \in Nat \ {0}
      BY <1>1, <2>0, WalkedNetwork
    <3>2. /\ Expansion!First(net) \in Nat /\ Expansion!Last(net) \in Nat
          /\ Expansion!First(net) =< Expansion!Last(net)
          /\ Expansion!First(net) + net.mask.hosts =< Space(net.ip.width)
          /\ Expansion!Last(net) = Expansion!First(net) + net.mask.hosts - 1
      BY <1>1, <2>0, WalkBounds
    <3>3. Space(net.ip.width) \in Nat
      BY AddressParameters DEF Space
    <3>4. Expansion!Last(net) < Space(net.ip.width)
      BY ONLY <3>1, <3>2, <3>3
    <3> QED BY <3>1, <3>2, <3>4 DEF FirstOf, LastOf, net
  <2>2. ASSUME NEW y \in FirstOf(j)..LastOf(j)
        PROVE  /\ Address(net.ip.width, y) \in IPs /\ Address(net.ip.width, y) # Nil
               /\ y \in 0..(Space(net.ip.width) - 1)
    <3>1. y \in 0..(Space(net.ip.width) - 1)
      <4>1. Space(net.ip.width) \in Nat
        BY AddressParameters DEF Space
      <4> QED BY <2>1, <4>1
    <3>2. Address(net.ip.width, y) \in IPs
      BY <2>1, <3>1 DEF Address, IPs, Space
    <3> QED BY <3>1, <3>2, NilIsNothing
  <2>3. Expansion!HostsOf(networks[j]) = WalkHosts(net)
    BY <1>1, <2>0, HostsAre
  <2>4. \A x : x \in WalkHosts(net) <=>
          \E y \in FirstOf(j)..LastOf(j) : ~Expansion!IsEdge(net, y) /\ x = Address(net.ip.width, y)
    BY DEF WalkHosts, FirstOf, LastOf, net
  <2> QED BY <1>1, <1>3, <2>1, <2>2, <2>3, <2>4 DEF net
<1> QED BY <1>2, <1>3

\* There are finitely many hosts.
LEMMA HostsFinite ==
    ASSUME networks \in Seq(IPNets \cup {Nil})
    PROVE  IsFiniteSet(AllHosts) /\ IsFiniteSet(Seen)
<1>1. AllHosts \in SUBSET ((1..Len(networks)) \X IPs)
  <2> SUFFICES ASSUME NEW j \in 1..Len(networks), NEW x \in Expansion!HostsOf(networks[j]) PROVE x \in IPs
    BY DEF AllHosts
  <2>1. ~Passed(j)
    BY HostsOfWalk
  <2>2. PICK y \in FirstOf(j)..LastOf(j) :
          ~Expansion!IsEdge(Net(j), y) /\ x = Address(Net(j).ip.width, y)
    BY <2>1, HostsOfWalk
  <2>3. Address(Net(j).ip.width, y) \in IPs
    BY <2>1, HostsOfWalk
  <2> QED BY <2>2, <2>3
<1>2. IsFiniteSet((1..Len(networks)) \X IPs)
  <2>1. IsFiniteSet(1..Len(networks))
    <3>1. Len(networks) \in Int
      OBVIOUS
    <3> QED BY <3>1, FS_Interval
  <2> QED BY <2>1, AddressesFinite, FS_Product
<1>3. Seen \in SUBSET AllHosts
  BY DEF Seen
<1> QED BY <1>1, <1>2, <1>3, FS_Subset

\* An address of the walk and the pair of its network with it.
LEMMA PairsOfWalk ==
    ASSUME networks \in Seq(IPNets \cup {Nil})
    PROVE  \A p : p \in AllHosts <=>
             \E j \in 1..Len(networks) :
                /\ ~Passed(j)
                /\ \E y \in FirstOf(j)..LastOf(j) :
                     ~Expansion!IsEdge(Net(j), y) /\ p = <<j, Address(Net(j).ip.width, y)>>
<1>1. ASSUME NEW p \in AllHosts
      PROVE  \E j \in 1..Len(networks) :
                /\ ~Passed(j)
                /\ \E y \in FirstOf(j)..LastOf(j) :
                     ~Expansion!IsEdge(Net(j), y) /\ p = <<j, Address(Net(j).ip.width, y)>>
  <2>1. PICK j \in 1..Len(networks) : p \in {j} \X Expansion!HostsOf(networks[j])
    BY DEF AllHosts
  <2>2. PICK x \in Expansion!HostsOf(networks[j]) : p = <<j, x>>
    BY <2>1
  <2>3. ~Passed(j)
    BY <2>2, HostsOfWalk
  <2>4. \E y \in FirstOf(j)..LastOf(j) : ~Expansion!IsEdge(Net(j), y) /\ x = Address(Net(j).ip.width, y)
    BY <2>3, HostsOfWalk
  <2> QED BY <2>2, <2>3, <2>4
<1>2. ASSUME NEW j \in 1..Len(networks), ~Passed(j), NEW y \in FirstOf(j)..LastOf(j),
             ~Expansion!IsEdge(Net(j), y)
      PROVE  <<j, Address(Net(j).ip.width, y)>> \in AllHosts
  <2>1. Address(Net(j).ip.width, y) \in Expansion!HostsOf(networks[j])
    BY <1>2, HostsOfWalk
  <2> QED BY <2>1 DEF AllHosts
<1> QED BY <1>1, <1>2

\* The networks are not changed.
LEMMA WalkStays ==
    ASSUME UNCHANGED <<networks, skipIpv6>>
    PROVE  /\ AllHosts' = AllHosts
           /\ \A j : Net(j)' = Net(j) /\ (Passed(j)' <=> Passed(j)) /\ FirstOf(j)' = FirstOf(j)
                     /\ LastOf(j)' = LastOf(j)
           /\ \A net, y : Expansion!IsEdge(net, y)' <=> Expansion!IsEdge(net, y)
<1>1. \A network : Expansion!WalkedAs(network)' = Expansion!WalkedAs(network)
  BY DEF Expansion!WalkedAs, Expansion!Normalised, Expansion!MaskIsMapped
<1>2. \A network : Expansion!IsSkipped(network)' <=> Expansion!IsSkipped(network)
  BY <1>1 DEF Expansion!IsSkipped
<1>3. \A net : Expansion!First(net)' = Expansion!First(net) /\ Expansion!Last(net)' = Expansion!Last(net)
  BY DEF Expansion!First, Expansion!Last
<1>4. \A network : Expansion!HostsOf(network)' = Expansion!HostsOf(network)
  BY DEF Expansion!HostsOf, Expansion!IsNetwork, Expansion!IsIpv4
<1>5. \A j : networks[j]' = networks[j]
  OBVIOUS
<1>6. \A j : Net(j)' = Net(j) /\ (Passed(j)' <=> Passed(j))
  BY <1>1, <1>2, <1>5 DEF Net, Passed, IsPassed
<1>7. \A j : FirstOf(j)' = FirstOf(j) /\ LastOf(j)' = LastOf(j)
  BY <1>3, <1>6 DEF FirstOf, LastOf
<1>8. AllHosts' = AllHosts
  BY <1>4, <1>5 DEF AllHosts
<1>9. \A net, y : Expansion!IsEdge(net, y)' <=> Expansion!IsEdge(net, y)
  BY <1>3 DEF Expansion!IsEdge
<1> QED BY <1>6, <1>7, <1>8, <1>9

\* The network the walk is in stays the same.
LEMMA AtStays ==
    ASSUME UNCHANGED <<networks, skipIpv6, at>>
    PROVE  /\ Net(at)' = Net(at) /\ (Passed(at)' <=> Passed(at))
           /\ FirstOf(at)' = FirstOf(at) /\ LastOf(at)' = LastOf(at)
<1>1. Net(at)' = Net(at)
  BY DEF Net, Expansion!WalkedAs, Expansion!Normalised, Expansion!MaskIsMapped
<1>2. Passed(at)' <=> Passed(at)
  BY DEF Passed, IsPassed, Expansion!IsSkipped, Expansion!WalkedAs, Expansion!Normalised,
     Expansion!MaskIsMapped
<1>3. FirstOf(at)' = FirstOf(at) /\ LastOf(at)' = LastOf(at)
  BY <1>1 DEF FirstOf, LastOf, Expansion!First, Expansion!Last
<1> QED BY <1>1, <1>2, <1>3

\* When the walk has passed an address, it has seen its pair as well, unless it is an edge.
LEMMA PassedOne ==
    ASSUME WalkInv, current # Nil, UNCHANGED <<networks, skipIpv6>>,
           current.n = LastOf(at) => current' = Nil /\ at' = at + 1,
           current.n # LastOf(at) => current' = Address(Net(at).ip.width, current.n + 1) /\ at' = at
    PROVE  /\ <<at, current>> \notin Seen
           /\ Seen' = IF Expansion!IsEdge(Net(at), current.n) THEN Seen ELSE Seen \cup {<<at, current>>}
<1> DEFINE n == current.n  f == FirstOf(at)  l == LastOf(at)  w == Net(at).ip.width
<1>1. /\ at \in 1..Len(networks) /\ ~Passed(at) /\ current = Address(w, n) /\ n \in f..l
      /\ networks \in Seq(IPNets \cup {Nil})
  BY DEF WalkInv, AtAddress
<1>2. f \in Nat /\ l \in Nat /\ at \in Nat /\ n \in Nat
  <2>1. f \in Nat /\ l \in Nat
    BY <1>1, HostsOfWalk
  <2> QED BY <1>1, <2>1
<1>3. n # l => current' # Nil /\ current'.n = n + 1
  <2> SUFFICES ASSUME n # l PROVE current' # Nil /\ current'.n = n + 1
    OBVIOUS
  <2>1. n + 1 \in f..l
    <3> HIDE DEF n, f, l
    <3> QED BY <1>1, <1>2
  <2>2. Address(w, n + 1) # Nil
    BY <1>1, <2>1, HostsOfWalk
  <2> QED BY <2>2 DEF Address
<1>4. AllHosts' = AllHosts
  BY WalkStays
<1>5. \A p : IsSeen(p)' <=> p[1] < at' \/ (p[1] = at' /\ current' # Nil /\ p[2].n < current'.n)
  BY DEF IsSeen
<1>6. ASSUME NEW p \in AllHosts
      PROVE  IsSeen(p)' <=> IsSeen(p) \/ p = <<at, current>>
  <2>1. PICK j \in 1..Len(networks) :
          ~Passed(j) /\ \E y \in FirstOf(j)..LastOf(j) : p = <<j, Address(Net(j).ip.width, y)>>
    BY <1>1, PairsOfWalk
  <2>2. PICK y \in FirstOf(j)..LastOf(j) : p = <<j, Address(Net(j).ip.width, y)>>
    BY <2>1
  <2>3. p[1] = j /\ p[2].n = y /\ j \in Nat
    BY <2>2 DEF Address
  <2>4. j = at => (p = <<at, current>> <=> y = n)
    BY <1>1, <2>2, <2>3
  <2>5. j # at => p # <<at, current>>
    BY <2>3
  <2>6. y \in Nat
    <3>1. FirstOf(j) \in Nat /\ LastOf(j) \in Nat
      BY <1>1, <2>1, HostsOfWalk
    <3> QED BY <3>1
  <2>7. (IsSeen(p) <=> j < at \/ (j = at /\ y < n))
    BY <2>3 DEF IsSeen
  <2>8. (IsSeen(p)' <=> j < at' \/ (j = at' /\ current' # Nil /\ y < current'.n))
    BY <1>5, <2>3
  <2>9. j = at => y =< l
    BY <2>6, <1>2
  <2>10. (n = l => current' = Nil /\ at' = at + 1) /\ (n # l => at' = at)
    OBVIOUS
  <2> HIDE DEF n, f, l, w
  <2>11. CASE n = l
    <3>1. IsSeen(p)' <=> j < at + 1
      BY <2>8, <2>10, <2>11
    <3> QED BY <1>2, <2>3, <2>4, <2>5, <2>6, <2>7, <2>9, <2>11, <3>1
  <2>12. CASE n # l
    <3>1. IsSeen(p)' <=> j < at \/ (j = at /\ y < n + 1)
      BY <1>3, <2>8, <2>10, <2>12
    <3> QED BY <1>2, <2>3, <2>4, <2>5, <2>6, <2>7, <3>1
  <2> QED BY <2>11, <2>12
<1>7. <<at, current>> \in AllHosts <=> ~Expansion!IsEdge(Net(at), n)
  <2>1. ~Expansion!IsEdge(Net(at), n) => <<at, current>> \in AllHosts
    BY <1>1, PairsOfWalk
  <2>2. ASSUME <<at, current>> \in AllHosts PROVE ~Expansion!IsEdge(Net(at), n)
    <3>1. PICK j \in 1..Len(networks) :
            /\ ~Passed(j)
            /\ \E y \in FirstOf(j)..LastOf(j) :
                 ~Expansion!IsEdge(Net(j), y) /\ <<at, current>> = <<j, Address(Net(j).ip.width, y)>>
      BY <1>1, <2>2, PairsOfWalk
    <3>2. j = at
      BY <3>1
    <3>3. PICK y \in FirstOf(j)..LastOf(j) :
            ~Expansion!IsEdge(Net(j), y) /\ current = Address(Net(j).ip.width, y)
      BY <3>1
    <3>4. y = n
      BY <3>3 DEF Address
    <3> QED BY <3>2, <3>3, <3>4
  <2> QED BY <2>1, <2>2
<1>8. ~IsSeen(<<at, current>>)
  <2> HIDE DEF n
  <2> QED BY <1>2 DEF IsSeen, n
<1> HIDE DEF n
<1>9. Seen' = {p \in AllHosts : IsSeen(p)'}
  BY <1>4 DEF Seen
<1> QED BY <1>6, <1>7, <1>8, <1>9 DEF Seen, n

\* How a step of the walk leaves the rest of its invariant.
LEMMA WalkStart == StartOrder => WalkInv
<1> SUFFICES ASSUME StartOrder PROVE WalkInv
  OBVIOUS
<1>1. /\ networks \in NetworkLists /\ skipIpv6 \in BOOLEAN
      /\ at = 1 /\ current = Nil /\ addresses = <<>> /\ expanded = None
  BY DEF StartOrder, StartScan, SpaceInit, Expansion!Init
<1>2. networks \in Seq(IPNets \cup {Nil}) /\ Len(networks) \in Nat
  <2>1. networks \in Seq(IPNets \cup {Nil})
    BY <1>1, SpaceParameters
  <2> QED BY <2>1
<1>3. Seen = {}
  <2> SUFFICES ASSUME NEW p \in Seen PROVE FALSE
    OBVIOUS
  <2>1. p \in AllHosts /\ p[1] < 1
    BY <1>1 DEF Seen, IsSeen
  <2>2. PICK j \in 1..Len(networks) : p[1] = j
    BY <1>2, <2>1, PairsOfWalk
  <2> QED BY <1>2, <2>1, <2>2
<1>4. Len(addresses) = Cardinality(Seen) /\ Range(addresses) = {p[2] : p \in Seen}
  <2>1. Cardinality(Seen) = 0 /\ {p[2] : p \in Seen} = {}
    BY <1>3, FS_EmptySet
  <2>2. Len(addresses) = 0 /\ Range(addresses) = {}
    BY <1>1 DEF Range
  <2> QED BY <2>1, <2>2
<1>5. addresses \in Seq(IPs) /\ Len(addresses) =< maxConnectAddresses
  BY <1>1, BoundBelowIpv4
<1>6. expanded # "ok" /\ expanded # "tooMany"
  BY <1>1, SpaceParameters
<1>7. at \in 1..(Len(networks) + 1)
  BY <1>1, <1>2
<1> QED BY <1>1, <1>2, <1>4, <1>5, <1>6, <1>7 DEF WalkInv

\* A network that is passed over has no host.
LEMMA PassOver ==
    ASSUME WalkInv, expanded = None, current = Nil, at =< Len(networks), Passed(at), at' = at + 1,
           UNCHANGED <<networks, skipIpv6, current, addresses, expanded>>
    PROVE  WalkInv'
<1>1. /\ expanded = None /\ current = Nil /\ at =< Len(networks) /\ Passed(at)
      /\ at' = at + 1 /\ UNCHANGED <<networks, skipIpv6, current, addresses, expanded>>
  OBVIOUS
<1>2. networks \in Seq(IPNets \cup {Nil}) /\ Len(networks) \in Nat /\ at \in 1..Len(networks)
  BY <1>1 DEF WalkInv
<1>3. Seen' = Seen
  <2>1. AllHosts' = AllHosts
    BY <1>1, WalkStays
  <2>2. ASSUME NEW p \in AllHosts PROVE IsSeen(p)' <=> IsSeen(p)
    <3>1. PICK j \in 1..Len(networks) : ~Passed(j) /\ p[1] = j
      BY <1>2, PairsOfWalk
    <3>2. j # at /\ j \in Nat
      BY <1>1, <3>1
    <3>3. (IsSeen(p) <=> j < at) /\ (IsSeen(p)' <=> j < at + 1)
      BY <1>1, <3>1 DEF IsSeen
    <3> QED BY <1>2, <3>2, <3>3
  <2>3. Seen' = {p \in AllHosts : IsSeen(p)'}
    BY <2>1 DEF Seen
  <2> QED BY <2>2, <2>3 DEF Seen
<1>4. at' \in 1..(Len(networks) + 1)
  BY <1>1, <1>2
<1> QED BY <1>1, <1>2, <1>3, <1>4, SpaceParameters DEF WalkInv

\* Skipping a network passes over it.
LEMMA SkipStep == ASSUME WalkInv, Expansion!Skip PROVE WalkInv'
<1>1. /\ expanded = None /\ current = Nil /\ at =< Len(networks) /\ Passed(at)
      /\ at' = at + 1 /\ UNCHANGED <<networks, skipIpv6, current, addresses, expanded>>
  BY SameAddresses DEF Expansion!Skip, Expansion!input, Passed, IsPassed
<1> QED BY <1>1, PassOver

\* A network that is entered has no host before its first address.
LEMMA StartWalk ==
    ASSUME WalkInv, expanded = None, current = Nil, at =< Len(networks), ~Passed(at),
           current' = Address(Net(at).ip.width, FirstOf(at)),
           UNCHANGED <<networks, skipIpv6, at, addresses, expanded>>
    PROVE  WalkInv'
<1>1. /\ expanded = None /\ current = Nil /\ at =< Len(networks) /\ ~Passed(at)
      /\ current' = Address(Net(at).ip.width, FirstOf(at))
      /\ UNCHANGED <<networks, skipIpv6, at, addresses, expanded>>
  OBVIOUS
<1>2. networks \in Seq(IPNets \cup {Nil}) /\ Len(networks) \in Nat /\ at \in 1..Len(networks)
  BY <1>1 DEF WalkInv
<1>3. current'.n = FirstOf(at) /\ FirstOf(at) \in FirstOf(at)..LastOf(at) /\ FirstOf(at) \in Nat
  <2>1. FirstOf(at) \in Nat /\ LastOf(at) \in Nat /\ FirstOf(at) =< LastOf(at)
    BY <1>1, <1>2, HostsOfWalk
  <2> QED BY <1>1, <2>1 DEF Address
<1>4. Seen' = Seen
  <2>1. AllHosts' = AllHosts
    BY <1>1, WalkStays
  <2>2. ASSUME NEW p \in AllHosts PROVE IsSeen(p)' <=> IsSeen(p)
    <3>1. PICK j \in 1..Len(networks) :
            ~Passed(j) /\ \E y \in FirstOf(j)..LastOf(j) : p = <<j, Address(Net(j).ip.width, y)>>
      BY <1>2, PairsOfWalk
    <3>2. PICK y \in FirstOf(j)..LastOf(j) : p[1] = j /\ p[2].n = y
      BY <3>1 DEF Address
    <3>3. FirstOf(j) \in Nat /\ LastOf(j) \in Nat
      BY <1>2, <3>1, HostsOfWalk
    <3>4. (IsSeen(p) <=> j < at) /\ (IsSeen(p)' => j < at \/ (j = at /\ y < FirstOf(at)))
          /\ (j < at => IsSeen(p)')
      BY <1>1, <1>3, <3>2 DEF IsSeen
    <3>5. j = at => ~(y < FirstOf(at))
      BY <3>3
    <3> QED BY <3>4, <3>5
  <2>3. Seen' = {p \in AllHosts : IsSeen(p)'}
    BY <2>1 DEF Seen
  <2> QED BY <2>2, <2>3 DEF Seen
<1>5. AtAddress'
  <2>1. /\ Net(at)' = Net(at) /\ (Passed(at)' <=> Passed(at))
        /\ FirstOf(at)' = FirstOf(at) /\ LastOf(at)' = LastOf(at)
    BY <1>1, AtStays
  <2>2. current'.n - FirstOf(at) =< Len(addresses)
    BY <1>3 DEF WalkInv
  <2> QED BY <1>1, <1>2, <1>3, <2>1, <2>2 DEF AtAddress
<1> QED BY <1>1, <1>2, <1>4, <1>5, SpaceParameters DEF WalkInv

\* Entering a network begins its walk, or passes over it.
LEMMA EnterStep == ASSUME WalkInv, Expansion!Enter PROVE WalkInv'
<1>1. /\ expanded = None /\ current = Nil /\ at =< Len(networks)
      /\ ~Expansion!IsSkipped(networks[at])
      /\ Expansion!WalkTo(Net(at), Address(Net(at).ip.width, FirstOf(at)))
      /\ UNCHANGED <<networks, skipIpv6, addresses, expanded>>
  BY SameAddresses DEF Expansion!Enter, Expansion!input, Net, FirstOf
<1>2. networks[at] \in IPNets \cup {Nil}
  <2>1. networks \in Seq(IPNets \cup {Nil}) /\ at \in 1..Len(networks)
    BY <1>1 DEF WalkInv
  <2> QED BY <2>1, ElementOfSeq
<1>3. Expansion!Contains(Net(at), Address(Net(at).ip.width, FirstOf(at))) <=> ~Passed(at)
  BY <1>1, <1>2, EntersIf DEF Net, FirstOf, Passed
<1>4. CASE ~Passed(at)
  <2>1. current' = Address(Net(at).ip.width, FirstOf(at)) /\ at' = at
    BY <1>1, <1>3, <1>4 DEF Expansion!WalkTo
  <2> QED BY <1>1, <1>4, <2>1, StartWalk
<1>5. CASE Passed(at)
  <2>1. current' = Nil /\ at' = at + 1
    BY <1>1, <1>3, <1>5 DEF Expansion!WalkTo
  <2> QED BY <1>1, <1>5, <2>1, PassOver
<1> QED BY <1>4, <1>5

\* Where the walk is after an address: it has passed that one, and no other.
LEMMA MovesOn ==
    ASSUME WalkInv, current # Nil, Expansion!Advance(Net(at)), UNCHANGED <<networks, skipIpv6>>,
           Net(at).ip.width = 6 => Len(addresses) < maxConnectAddresses /\ Len(addresses') = Len(addresses) + 1
    PROVE  /\ at' \in 1..(Len(networks) + 1)
           /\ current' # Nil => AtAddress'
           /\ <<at, current>> \notin Seen
           /\ Seen' = IF Expansion!IsEdge(Net(at), current.n) THEN Seen
                      ELSE Seen \cup {<<at, current>>}
<1> DEFINE n == current.n  w == Net(at).ip.width
<1>1. /\ at \in 1..Len(networks) /\ ~Passed(at) /\ current = Address(w, n)
      /\ n \in FirstOf(at)..LastOf(at) /\ networks \in Seq(IPNets \cup {Nil})
      /\ w = 6 => n - FirstOf(at) =< Len(addresses)
      /\ Len(addresses) \in Nat
  <2>1. addresses \in Seq(IPs)
    BY DEF WalkInv
  <2> QED BY <2>1 DEF WalkInv, AtAddress
<1>2. FirstOf(at) \in Nat /\ LastOf(at) \in Nat /\ networks[at] \in IPNets \cup {Nil}
  BY <1>1, HostsOfWalk
<1>3. maxConnectAddresses \in Nat /\ maxConnectAddresses < Space4 /\ Space4 \in Nat
  BY BoundBelowIpv4, AddressParameters
<1>4. w = 6 => n + 1 < FirstOf(at) + Space4
  <2>1. w = 6 => Len(addresses) < maxConnectAddresses
    OBVIOUS
  <2> HIDE DEF n, w
  <2>2. n \in Nat
    BY <1>1, <1>2
  <2> QED BY <1>1, <1>2, <1>3, <2>1, <2>2
<1>5. /\ n = LastOf(at) => current' = Nil /\ at' = at + 1
      /\ n # LastOf(at) => current' = Address(w, n + 1) /\ at' = at
  <2> DEFINE network == networks[at]  net == Net(at)
  <2>1. /\ network \in IPNets \cup {Nil} /\ ~IsPassed(network)
        /\ net = Expansion!WalkedAs(network)
        /\ FirstOf(at) = Expansion!First(net) /\ LastOf(at) = Expansion!Last(net)
    BY <1>1, <1>2 DEF Net, Passed, FirstOf, LastOf
  <2>2. /\ n \in Expansion!First(net)..Expansion!Last(net)
        /\ current = Address(net.ip.width, n)
        /\ net.ip.width = 6 => n + 1 < Expansion!First(net) + Space4
        /\ Expansion!Advance(net)
    BY <1>1, <1>4, <2>1
  <2> HIDE DEF network, net, n
  <2>3. /\ n = Expansion!Last(net) => current' = Nil /\ at' = at + 1
        /\ n # Expansion!Last(net) => current' = Address(net.ip.width, n + 1) /\ at' = at
    BY <2>1, <2>2, AdvanceIs
  <2> QED BY <2>1, <2>3 DEF net
<1>6. /\ <<at, current>> \notin Seen
      /\ Seen' = IF Expansion!IsEdge(Net(at), current.n) THEN Seen ELSE Seen \cup {<<at, current>>}
  BY <1>5, PassedOne
<1>7. at' \in 1..(Len(networks) + 1)
  <2>1. Len(networks) \in Nat
    BY <1>1
  <2> HIDE DEF n, w
  <2> QED BY <1>1, <1>5, <2>1
<1>8. ASSUME current' # Nil PROVE AtAddress'
  <2>1. at' = at /\ current' = Address(w, n + 1) /\ n # LastOf(at)
    BY <1>5, <1>8
  <2>2. /\ Net(at)' = Net(at) /\ (Passed(at)' <=> Passed(at))
        /\ FirstOf(at)' = FirstOf(at) /\ LastOf(at)' = LastOf(at)
    BY <2>1, AtStays
  <2>3. current'.n = n + 1 /\ current' = Address(w, current'.n)
    BY <2>1 DEF Address
  <2>4. n + 1 \in FirstOf(at)..LastOf(at)
    <3> HIDE DEF n, w
    <3> QED BY <1>1, <1>2, <2>1
  <2>5. w = 6 => (n + 1) - FirstOf(at) =< Len(addresses')
    <3>1. w = 6 => Len(addresses') = Len(addresses) + 1
      OBVIOUS
    <3> HIDE DEF n, w
    <3> QED BY <1>1, <1>2, <3>1
  <2> HIDE DEF n, w
  <2>6. at' \in 1..Len(networks') /\ ~Passed(at)'
    BY <1>1, <2>1, <2>2
  <2>7. current' = Address((Net(at).ip.width)', current'.n)
    BY <2>2, <2>3 DEF w
  <2>8. current'.n \in FirstOf(at)'..LastOf(at)'
    BY <2>2, <2>3, <2>4
  <2>9. (Net(at).ip.width)' = 6 => current'.n - FirstOf(at)' =< Len(addresses')
    <3>1. current'.n - FirstOf(at)' = (n + 1) - FirstOf(at)
      <4>1. FirstOf(at)' = FirstOf(at) /\ FirstOf(at) \in Nat
        BY <1>2, <2>2
      <4>2. current'.n = n + 1 /\ n + 1 \in Nat
        BY <1>2, <2>3, <2>4
      <4> QED BY <4>1, <4>2, Zenon
    <3>2. (Net(at).ip.width)' = w
      BY <2>2 DEF w
    <3> QED BY <2>5, <3>1, <3>2
  <2> QED BY <2>6, <2>7, <2>8, <2>9 DEF AtAddress
<1> QED BY <1>6, <1>7, <1>8

\* So does passing over an edge.
LEMMA PassStep == ASSUME WalkInv, Expansion!PassEdge PROVE WalkInv'
<1>1. /\ expanded = None /\ current # Nil /\ Expansion!IsEdge(Net(at), current.n)
      /\ Expansion!Advance(Net(at))
      /\ UNCHANGED <<networks, skipIpv6, addresses, expanded>>
  BY DEF Expansion!PassEdge, Expansion!input, Net
<1>2. at \in 1..Len(networks) /\ ~Passed(at) /\ networks \in Seq(IPNets \cup {Nil})
  BY <1>1 DEF WalkInv, AtAddress
<1>3. Net(at).ip.width = 4
  <2>1. Net(at).ip.width = Net(at).mask.width
    BY <1>2, HostsOfWalk
  <2> QED BY <1>1, <2>1 DEF Expansion!IsEdge
<1>4. at' \in 1..(Len(networks) + 1) /\ (current' # Nil => AtAddress') /\ Seen' = Seen
  BY <1>1, <1>3, MovesOn
<1> QED BY <1>1, <1>4, SpaceParameters DEF WalkInv

\* So does the next host.
LEMMA EnumerateStep == ASSUME WalkInv, Expansion!Enumerate PROVE WalkInv'
<1>1. /\ expanded = None /\ current # Nil /\ ~Expansion!IsEdge(Net(at), current.n)
      /\ ~(Len(addresses) >= maxConnectAddresses)
      /\ Expansion!Advance(Net(at)) /\ addresses' = Append(addresses, current)
      /\ UNCHANGED <<networks, skipIpv6, expanded>>
  BY DEF Expansion!Enumerate, Expansion!input, Expansion!Full, Net
<1>2. /\ at \in 1..Len(networks) /\ ~Passed(at) /\ networks \in Seq(IPNets \cup {Nil})
      /\ current = Address(Net(at).ip.width, current.n) /\ current.n \in FirstOf(at)..LastOf(at)
      /\ addresses \in Seq(IPs)
  BY <1>1 DEF WalkInv, AtAddress
<1>3. current \in IPs
  BY <1>2, HostsOfWalk
<1>4. /\ addresses' \in Seq(IPs) /\ Len(addresses') = Len(addresses) + 1
      /\ Range(addresses') = Range(addresses) \cup {current}
  <2>1. /\ Append(addresses, current) \in Seq(IPs)
        /\ Len(Append(addresses, current)) = Len(addresses) + 1
        /\ \A j \in 1..Len(addresses) : Append(addresses, current)[j] = addresses[j]
        /\ Append(addresses, current)[Len(addresses) + 1] = current
    BY <1>2, <1>3, AppendProperties
  <2>2. Len(addresses) \in Nat /\ DOMAIN addresses = 1..Len(addresses)
    BY <1>2
  <2>3. DOMAIN addresses' = 1..(Len(addresses) + 1)
    BY <1>1, <2>1
  <2>4. 1..(Len(addresses) + 1) = (1..Len(addresses)) \cup {Len(addresses) + 1}
    BY <2>2
  <2>5. Range(addresses') = {addresses'[j] : j \in (1..Len(addresses)) \cup {Len(addresses) + 1}}
    BY <2>3, <2>4 DEF Range
  <2>6. Range(addresses) = {addresses[j] : j \in 1..Len(addresses)}
    BY <2>2 DEF Range
  <2>7. /\ \A j \in 1..Len(addresses) : addresses'[j] = addresses[j]
        /\ addresses'[Len(addresses) + 1] = current
    BY <1>1, <2>1
  <2>8. Range(addresses') = Range(addresses) \cup {current}
    BY ONLY <2>5, <2>6, <2>7
  <2> QED BY <1>1, <2>1, <2>8
<1>5. Len(addresses) \in Nat /\ maxConnectAddresses \in Nat
  BY <1>2, BoundBelowIpv4
<1>6. /\ at' \in 1..(Len(networks) + 1) /\ (current' # Nil => AtAddress')
      /\ <<at, current>> \notin Seen /\ Seen' = Seen \cup {<<at, current>>}
  BY <1>1, <1>4, <1>5, MovesOn
<1>7. Len(addresses') =< maxConnectAddresses
  BY <1>1, <1>4, <1>5
<1>8. Len(addresses') = Cardinality(Seen')
  <2>1. IsFiniteSet(Seen)
    BY <1>2, HostsFinite
  <2>2. Cardinality(Seen \cup {<<at, current>>}) = Cardinality(Seen) + 1
    BY <1>6, <2>1, FS_AddElement
  <2> QED BY <1>4, <1>6, <2>2 DEF WalkInv
<1>9. Range(addresses') = {p[2] : p \in Seen'}
  <2>1. {p[2] : p \in Seen'} = {p[2] : p \in Seen} \cup {current}
    BY <1>6
  <2> QED BY <1>4, <2>1 DEF WalkInv
<1>10. expanded' \in {None, "ok", "tooMany"} /\ expanded' # "ok" /\ expanded' # "tooMany"
  BY <1>1, SpaceParameters
<1>11. networks' \in Seq(IPNets \cup {Nil}) /\ skipIpv6' \in BOOLEAN
  BY <1>1, <1>2 DEF WalkInv
<1>12. at' \in 1..(Len(networks') + 1)
  BY <1>1, <1>6
<1> QED BY <1>4, <1>6, <1>7, <1>8, <1>9, <1>10, <1>11, <1>12 DEF WalkInv

\* So does all that moves nothing.
LEMMA RestStep ==
    ASSUME WalkInv, UNCHANGED <<networks, skipIpv6, at, current, addresses>>,
           expanded' \in {None, "ok", "tooMany"},
           expanded' = "ok" => at = Len(networks) + 1 /\ current = Nil,
           expanded' = "tooMany" =>
             /\ current # Nil /\ Len(addresses) >= maxConnectAddresses
             /\ ~Expansion!IsEdge(Net(at), current.n)
    PROVE  WalkInv'
<1>1. /\ Net(at)' = Net(at) /\ (Passed(at)' <=> Passed(at))
      /\ FirstOf(at)' = FirstOf(at) /\ LastOf(at)' = LastOf(at)
  BY AtStays
<1>2. Expansion!IsEdge(Net(at), current.n)' <=> Expansion!IsEdge(Net(at), current.n)
  BY <1>1 DEF Expansion!IsEdge, Expansion!First, Expansion!Last
<1>3. Seen' = Seen
  <2>1. AllHosts' = AllHosts
    BY WalkStays
  <2>2. \A p : IsSeen(p)' <=> IsSeen(p)
    BY DEF IsSeen
  <2>3. Seen' = {p \in AllHosts : IsSeen(p)'}
    BY <2>1 DEF Seen
  <2> QED BY <2>2, <2>3 DEF Seen
<1>4. current' # Nil => AtAddress'
  <2> SUFFICES ASSUME current # Nil PROVE AtAddress'
    OBVIOUS
  <2>1. AtAddress
    BY DEF WalkInv
  <2>2. (Net(at).ip.width)' = Net(at).ip.width
    BY <1>1
  <2>3. current' = Address((Net(at).ip.width)', current'.n)
    BY <2>1, <2>2 DEF AtAddress
  <2> QED BY <1>1, <2>1, <2>2, <2>3 DEF AtAddress
<1> QED BY <1>2, <1>3, <1>4 DEF WalkInv

\* WalkInv is inductive.
LEMMA WalkStep == WalkInv /\ [OrderNext]_all => WalkInv'
<1> SUFFICES ASSUME WalkInv, [OrderNext]_all PROVE WalkInv'
  OBVIOUS
<1>1. CASE UNCHANGED <<networks, skipIpv6, expansionVars>>
  <2>1. UNCHANGED <<networks, skipIpv6, at, current, addresses, expanded>>
    BY <1>1 DEF expansionVars
  <2> QED BY <2>1, RestStep DEF WalkInv
<1>2. CASE Expand
  <2>1. Expansion!Next
    BY <1>2 DEF Expand, ScanConnect
  <2>2. CASE Expansion!PassEdge
    BY <2>2, PassStep
  <2>3. CASE Expansion!Refuse
    <3>1. /\ UNCHANGED <<networks, skipIpv6, at, current, addresses>>
          /\ expanded' = "tooMany" /\ current # Nil /\ Len(addresses) >= maxConnectAddresses
          /\ ~Expansion!IsEdge(Net(at), current.n)
      BY <2>3 DEF Expansion!Refuse, Expansion!Full, Expansion!input, Net
    <3> QED BY <3>1, RestStep
  <2>4. CASE Expansion!Finish
    <3>1. /\ UNCHANGED <<networks, skipIpv6, at, current, addresses>>
          /\ expanded' = "ok" /\ current = Nil /\ at > Len(networks)
      BY <2>4 DEF Expansion!Finish, Expansion!input
    <3>2. at = Len(networks) + 1
      <4>1. Len(networks) \in Nat /\ at \in 1..(Len(networks) + 1)
        BY DEF WalkInv
      <4> QED BY <3>1, <4>1
    <3> QED BY <3>1, <3>2, RestStep
  <2>5. CASE Expansion!Finished
    <3>1. UNCHANGED <<networks, skipIpv6, at, current, addresses, expanded>>
      BY <2>5 DEF Expansion!Finished, Expansion!vars, Expansion!input
    <3> QED BY <1>1, <3>1 DEF expansionVars
  <2> QED BY <2>1, <2>2, <2>3, <2>4, <2>5, SkipStep, EnterStep, EnumerateStep DEF Expansion!Next
<1>3. CASE Prepare
  BY <1>1, <1>3 DEF Prepare, ScanSyn, NewTargetSpace, RejectArguments, FoldPorts, RejectNetwork,
     RejectCount, LayOut, Finish
<1>4. CASE UNCHANGED targetVars
  BY <1>1, <1>4 DEF targetVars
<1>5. CASE RefuseFamily \/ StartProbing \/ SendProbes
  BY <1>4, <1>5 DEF RefuseFamily, StartProbing, SendProbes, WalkOn, Probe
<1>6. CASE Returned \/ UNCHANGED all
  BY <1>4, <1>6 DEF Returned, all
<1> QED BY <1>2, <1>3, <1>5, <1>6 DEF OrderNext

\* WalkInv holds of every scan.
LEMMA WalkInvariant == OrderSpec => []WalkInv
<1> QED BY WalkStart, WalkStep, PTL DEF OrderSpec

\* The count of the hosts is that of their set.
LEMMA NumHostsIs == Expansion!NumHosts = Cardinality(AllHosts)
BY DEF Expansion!NumHosts, AllHosts, Cardinality, Expansion!Cardinality

\* A walk that has ended has seen every host.
LEMMA EndsWithAll == ASSUME WalkInv, expanded = "ok" PROVE Seen = AllHosts
<1>1. at = Len(networks) + 1 /\ networks \in Seq(IPNets \cup {Nil})
  BY DEF WalkInv
<1>2. ASSUME NEW p \in AllHosts PROVE IsSeen(p)
  <2>1. PICK j \in 1..Len(networks) : p[1] = j
    BY <1>1, <1>2, PairsOfWalk
  <2>2. Len(networks) \in Nat
    BY <1>1
  <2> QED BY <1>1, <2>1, <2>2 DEF IsSeen
<1> QED BY <1>2 DEF Seen

\* The invariant is what the walk promises.
LEMMA AddressesAre == WalkInv => AddressesAreTheHosts
<1> SUFFICES ASSUME WalkInv, expanded = "ok"
             PROVE  /\ Expansion!Range(addresses) = UNION {Expansion!HostsOf(networks[n]) : n \in 1..Len(networks)}
                    /\ Len(addresses) = Expansion!NumHosts
  BY DEF AddressesAreTheHosts, Expansion!AddressesAreTheHosts
<1>1. Seen = AllHosts
  BY EndsWithAll
<1>2. Range(addresses) = {p[2] : p \in AllHosts} /\ Len(addresses) = Cardinality(AllHosts)
  BY <1>1 DEF WalkInv
<1>3. {p[2] : p \in AllHosts} = UNION {Expansion!HostsOf(networks[n]) : n \in 1..Len(networks)}
  <2>1. ASSUME NEW p \in AllHosts
        PROVE  p[2] \in UNION {Expansion!HostsOf(networks[n]) : n \in 1..Len(networks)}
    BY DEF AllHosts
  <2>2. ASSUME NEW n \in 1..Len(networks), NEW x \in Expansion!HostsOf(networks[n])
        PROVE  x \in {p[2] : p \in AllHosts}
    <3>1. <<n, x>> \in AllHosts
      BY DEF AllHosts
    <3>2. <<n, x>>[2] = x
      OBVIOUS
    <3> QED BY <3>1, <3>2
  <2> QED BY <2>1, <2>2
<1>4. Expansion!Range(addresses) = Range(addresses)
  BY DEF Range, Expansion!Range
<1> QED BY <1>2, <1>3, <1>4, NumHostsIs

\* A walk that was given up has a host before it that it has not enumerated.
LEMMA RefusedIs == WalkInv => Expansion!RefusedIfTooMany
<1> SUFFICES ASSUME WalkInv PROVE Expansion!RefusedIfTooMany
  OBVIOUS
<1>1. /\ networks \in Seq(IPNets \cup {Nil}) /\ Len(addresses) =< maxConnectAddresses
      /\ Len(addresses) = Cardinality(Seen) /\ addresses \in Seq(IPs)
  BY DEF WalkInv
<1>2. CASE expanded = "ok"
  <2>1. Expansion!NumHosts =< maxConnectAddresses
    BY <1>1, <1>2, EndsWithAll, NumHostsIs
  <2> QED BY <1>2, <2>1 DEF Expansion!RefusedIfTooMany
<1>3. CASE expanded = "tooMany"
  <2>1. /\ AtAddress /\ Len(addresses) >= maxConnectAddresses
        /\ ~Expansion!IsEdge(Net(at), current.n) /\ current # Nil
    BY <1>3 DEF WalkInv
  <2>2. <<at, current>> \in AllHosts
    BY <1>1, <2>1, PairsOfWalk DEF AtAddress
  <2>3. <<at, current>> \notin Seen
    <3>1. at \in Nat /\ current.n \in Nat
      <4>1. FirstOf(at) \in Nat /\ LastOf(at) \in Nat
        BY <1>1, <2>1, HostsOfWalk DEF AtAddress
      <4>2. current.n \in FirstOf(at)..LastOf(at) /\ at \in 1..Len(networks)
        BY <2>1 DEF AtAddress
      <4> QED BY <4>1, <4>2
    <3>2. ~IsSeen(<<at, current>>)
      BY <3>1 DEF IsSeen
    <3> QED BY <3>2 DEF Seen
  <2>4. IsFiniteSet(Seen) /\ IsFiniteSet(AllHosts) /\ Seen \cup {<<at, current>>} \in SUBSET AllHosts
    BY <1>1, <2>2, HostsFinite DEF Seen
  <2>5. Cardinality(Seen \cup {<<at, current>>}) = Cardinality(Seen) + 1
    BY <2>3, <2>4, FS_AddElement
  <2>6. Cardinality(Seen \cup {<<at, current>>}) =< Cardinality(AllHosts)
    BY <2>4, FS_Subset
  <2>7. Cardinality(AllHosts) \in Nat /\ Len(addresses) \in Nat /\ maxConnectAddresses \in Nat
    BY <1>1, <2>4, FS_CardinalityType, BoundBelowIpv4
  <2>8. Expansion!NumHosts > maxConnectAddresses
    BY <1>1, <2>1, <2>5, <2>6, <2>7, NumHostsIs
  <2> QED BY <1>3, <2>8 DEF Expansion!RefusedIfTooMany
<1>4. CASE expanded # "ok" /\ expanded # "tooMany"
  BY <1>4 DEF Expansion!RefusedIfTooMany
<1> QED BY <1>2, <1>3, <1>4

\* The variables of the walk keep their types.
LEMMA WalkTypes == WalkInv => Expansion!TypeOK
<1> SUFFICES ASSUME WalkInv PROVE Expansion!TypeOK
  OBVIOUS
<1>1. ASSUME current # Nil PROVE current.n \in 0..(Expansion!Space(current.width) - 1)
  <2>1. AtAddress /\ networks \in Seq(IPNets \cup {Nil})
    BY <1>1 DEF WalkInv
  <2>2. current.n \in 0..(Space(Net(at).ip.width) - 1)
    BY <2>1, HostsOfWalk DEF AtAddress
  <2>3. current.width = Net(at).ip.width
    BY <2>1 DEF AtAddress, Address
  <2> QED BY <2>2, <2>3, SameAddresses
<1> QED BY <1>1 DEF WalkInv, Expansion!TypeOK

----------------------------------------------------------------------------
\* The properties of both modes.

LEMMA LargeStep == OrderInv /\ RefusedOnlyIfLarge /\ [OrderNext]_all => RefusedOnlyIfLarge'
<1> SUFFICES ASSUME OrderInv, RefusedOnlyIfLarge, [OrderNext]_all, result' = "tooMany"
             PROVE  \/ networks'[k'].mask.hosts > MaxHosts
                    \/ total' + networks'[k'].mask.hosts * NumPorts' > MaxCount
  BY DEF RefusedOnlyIfLarge
<1>1. CASE UNCHANGED <<networks, ports, k, total, result>>
  BY <1>1 DEF RefusedOnlyIfLarge, NumPorts
<1>2. CASE Prepare
  <2>1. NewTargetSpace
    BY <1>2 DEF Prepare, ScanSyn
  <2>2. CASE RejectNetwork
    BY <2>2 DEF RejectNetwork, NetworkError
  <2>3. CASE RejectCount
    <3>1. /\ NetworkError(networks[k]) = "none" /\ NextTotal = None
          /\ k =< Len(networks) /\ UNCHANGED <<networks, ports, k, total>>
      BY <2>3 DEF RejectCount
    <3>2. /\ networks \in Seq(IPNets \cup {Nil}) /\ k \in 1..Len(networks)
          /\ total \in 0..MaxCount /\ Len(ports) \in Nat
      <4>1. networks \in Seq(IPNets \cup {Nil}) /\ k \in 1..(Len(networks) + 1)
            /\ total \in 0..MaxCount /\ ports \in Seq(1..MaxPort)
        BY SpaceParameters DEF OrderInv, SpaceInv, SpaceTypeOK
      <4> QED BY <3>1, <4>1
    <3>3. networks[k] \in IPNets \cup {Nil}
      BY <3>2, ElementOfSeq
    <3>4. networks[k].mask.hosts \in Nat
      BY <3>1, <3>3, LaidOut
    <3> DEFINE count == networks[k].mask.hosts * NumPorts
    <3>5. count \in Nat /\ total \in Nat /\ MaxCount \in Int /\ MaxCount < U64 /\ U64 \in Nat
          /\ None \notin Nat
      BY <3>2, <3>4, SpaceParameters DEF MaxCount, NumPorts
    <3>6. NextTotal = LET m == IF count < U64 /\ count =< MaxCount THEN count ELSE None
                      IN  IF m = None THEN None
                          ELSE IF total + m < U64 /\ total + m =< MaxCount THEN total + m ELSE None
      BY DEF NextTotal, Multiplied, Added
    <3>7. count' = count /\ NumPorts' = NumPorts /\ networks' = networks /\ k' = k /\ total' = total
      BY <3>1 DEF NumPorts
    <3> HIDE DEF count
    <3>8. total + count > MaxCount
      BY <3>1, <3>5, <3>6
    <3> QED BY <3>7, <3>8 DEF count
  <2>4. CASE RejectArguments
    BY <2>4 DEF RejectArguments
  <2>5. CASE FoldPorts \/ LayOut
    <3>1. result' = None
      BY <2>5 DEF FoldPorts, LayOut
    <3> QED BY <3>1, SpaceParameters
  <2>6. CASE Finish
    BY <2>6 DEF Finish
  <2> QED BY <2>1, <2>2, <2>3, <2>4, <2>5, <2>6 DEF NewTargetSpace
<1>3. CASE Expand
  <2>1. UNCHANGED networks
    BY <1>3 DEF Expand, ScanConnect, Expansion!Next, Expansion!Skip, Expansion!Enter,
       Expansion!PassEdge, Expansion!Enumerate, Expansion!Refuse, Expansion!Finish,
       Expansion!Finished, Expansion!vars, Expansion!input
  <2> QED BY <1>1, <1>3, <2>1 DEF Expand, ScanConnect, layoutVars
<1>4. CASE UNCHANGED targetVars
  BY <1>1, <1>4 DEF targetVars, layoutVars
<1>5. CASE RefuseFamily \/ StartProbing \/ SendProbes
  BY <1>4, <1>5 DEF RefuseFamily, StartProbing, SendProbes, WalkOn, Probe
<1>6. CASE Returned \/ UNCHANGED all
  BY <1>4, <1>6 DEF Returned, all
<1> QED BY <1>2, <1>3, <1>5, <1>6 DEF OrderNext

\* A scan that has not started was not refused.
LEMMA LargeStart == StartOrder => RefusedOnlyIfLarge
BY SpaceParameters DEF StartOrder, StartScan, SpaceInit, RefusedOnlyIfLarge

\* No more probes were sent than positions visited, whichever of them had a source.
LEMMA OrderTypes == OrderInv /\ WalkInv => OrderTypeOK
<1> SUFFICES ASSUME OrderInv, WalkInv PROVE OrderTypeOK
  OBVIOUS
<1>1. SpaceTypeOK /\ Expansion!TypeOK
  BY WalkTypes DEF OrderInv, SpaceInv
<1>2. TypeOK /\ i \in Nat
  BY DEF OrderInv, IInv, TypeOK
<1>3. Len(probes) =< i
  <2>1. CASE phase = "probe"
    <3>1. Len(probes) = Cardinality(DueUpTo(i))
      BY <2>1 DEF OrderInv, ProbesAreDue
    <3>2. IsFiniteSet(1..i) /\ Cardinality(1..i) = i
      BY <1>2, FS_Interval
    <3>3. DueUpTo(i) \in SUBSET (1..i)
      BY DEF DueUpTo
    <3>4. Cardinality(DueUpTo(i)) =< i
      BY <3>2, <3>3, FS_Subset
    <3> QED BY <3>1, <3>4
  <2>2. CASE phase # "probe"
    BY <1>2, <2>2 DEF OrderInv
  <2> QED BY <2>1, <2>2
<1> QED BY <1>1, <1>2, <1>3 DEF OrderTypeOK, TargetsTypeOK, OrderInv, CacheInv

\* The variables of both modes have their types, the cache of source addresses keeps to its bound, and
\* sendProbes sends no more probes than it visits numbers.
THEOREM OrderIsTyped == OrderSpec => []OrderTypeOK
BY OrderInvariant, WalkInvariant, OrderTypes, PTL

\* expandNetworks enumerates the hosts of the networks, each as often as they are given: no walk
\* wraps, or strays into the IPv4-mapped addresses, whatever the networks and their forms.
THEOREM ConnectsToTheHosts == OrderSpec => []AddressesAreTheHosts
BY WalkInvariant, AddressesAre, PTL

\* A connect scan is refused if and only if its networks have too many hosts, and a SYN scan only if
\* they do: the sums that newTargetSpace compares have not wrapped.
THEOREM RefusesTheLarge == OrderSpec => []RefusedIfTooMany
<1>1. OrderSpec => []RefusedOnlyIfLarge
  BY OrderInvariant, LargeStart, LargeStep, PTL DEF OrderSpec
<1>2. WalkInv /\ RefusedOnlyIfLarge => RefusedIfTooMany
  BY RefusedIs DEF RefusedIfTooMany
<1> QED BY <1>1, <1>2, WalkInvariant, PTL

================================================================================
