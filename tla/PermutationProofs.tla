--------------------------- MODULE PermutationProofs ---------------------------
(***************************************************************************)
(* Permutation is a permutation for every size, seed and round function:   *)
(* the Feistel network is one to one, and so is what cycle walking makes   *)
(* of it.                                                                  *)
(***************************************************************************)
EXTENDS Permutation, FiniteSetTheorems, TLAPS

USE DEF fields, vars

Domain == 0..(a * b - 1)

\* The fields are those that New computes.
FieldInv ==
    /\ size \in Nat \ {0} /\ a \in Nat \ {0} /\ b \in Nat \ {0} /\ seed \in Seeds
    /\ size =< a * b /\ a * b < 2 * size
    /\ 2 * a =< W /\ 2 * b =< W

\* The owner of an element: the position whose walk called encrypt on it, if any did (the others
\* have the owner -1).  Walks do not meet: a walk starts at its position, below size, and goes on
\* at elements that its own walk led to.
Owned(owner) == {x \in Domain : owner[x] # -1}
Owners(owner) ==
    /\ owner \in [Domain -> Int]
    /\ \A x \in Domain : owner[x] =< i /\ (x < size /\ owner[x] # -1 => owner[x] = x)
    /\ \A x \in Domain : (x >= size /\ owner[x] # -1)
          => \E y \in Domain : owner[y] = owner[x] /\ Encrypt(y) = x
    /\ \A k \in 1..i : \E y \in Domain : owner[y] = k - 1 /\ Encrypt(y) = order[k]
    /\ i < size =>
          /\ c \in Domain /\ owner[c] = -1
          /\ c = i \/ (c >= size /\ \E y \in Domain : owner[y] = i /\ Encrypt(y) = c)
    /\ steps = Cardinality(Owned(owner))

IInv == FieldInv /\ TypeOK /\ \E owner : Owners(owner)

----------------------------------------------------------------------------
\* Addition modulo n, of numbers below n.
LEMMA ModSmall == ASSUME NEW n \in Nat \ {0}, NEW x \in 0..(n - 1) PROVE x % n = x
OBVIOUS

\* A sum of two residues wraps once at most.
LEMMA ModOnce ==
    ASSUME NEW n \in Nat \ {0}, NEW x \in 0..(n - 1), NEW y \in 0..(n - 1)
    PROVE  (x + y) % n = IF x + y < n THEN x + y ELSE x + y - n
OBVIOUS

\* One round is one to one in the half that it changes.
LEMMA MixOneToOne ==
    ASSUME NEW n \in Nat \ {0}, 2 * n =< W, NEW f \in Nat,
           NEW x \in 0..(n - 1), NEW y \in 0..(n - 1)
    PROVE  /\ Mix(x, f, n) \in 0..(n - 1)
           /\ Mix(x, f, n) = Mix(y, f, n) => x = y
<1> DEFINE g == f % n
<1>1. g \in 0..(n - 1)
  OBVIOUS
<1>2. ASSUME NEW z \in 0..(n - 1) PROVE Mix(z, f, n) = IF z + g < n THEN z + g ELSE z + g - n
  <2>1. z + g \in 0..(W - 1)
    BY <1>1, Parameters
  <2>2. Plus(z, g) = z + g
    BY <2>1, ModSmall, Parameters DEF Plus
  <2>3. Mix(z, f, n) = (z + g) % n
    BY <2>2 DEF Mix
  <2> HIDE DEF g
  <2> QED BY <1>1, <2>3, ModOnce
<1> HIDE DEF g
<1> QED BY <1>1, <1>2
\* Quotient and remainder are the two halves of a number below a*b, ...
LEMMA SplitBounds ==
    ASSUME NEW m \in Nat \ {0}, NEW n \in Nat \ {0}, NEW x \in 0..(m * n - 1)
    PROVE  /\ x % m \in 0..(m - 1) /\ x \div m \in 0..(n - 1)
           /\ x = m * (x \div m) + (x % m)
<1>1. m * n \in Nat /\ x \in Nat
  OBVIOUS
<1>2. x % m \in 0..(m - 1) /\ x \div m \in Nat /\ x = m * (x \div m) + (x % m)
  BY <1>1
<1>3. x \div m < n
  <2>1. SUFFICES ASSUME x \div m >= n PROVE FALSE
    BY <1>2
  <2>2. m * (x \div m) >= m * n
    BY <1>2, <2>1
  <2> QED BY <1>1, <1>2, <2>2
<1> QED BY <1>2, <1>3

\* ... and put together again they are below a*b, and tell it apart from every other.
LEMMA JoinOneToOne ==
    ASSUME NEW m \in Nat \ {0}, NEW n \in Nat \ {0},
           NEW x \in 0..(n - 1), NEW y \in 0..(n - 1), NEW r \in 0..(m - 1), NEW s \in 0..(m - 1)
    PROVE  /\ m * x + r \in 0..(m * n - 1)
           /\ m * x + r = m * y + s => x = y /\ r = s
<1>1. \A u, v \in Nat : u < v => m * u + m =< m * v
  <2> TAKE u, v \in Nat
  <2> HAVE u < v
  <2>1. m * (u + 1) =< m * v
    OBVIOUS
  <2> QED BY <2>1
<1>2. m * x \in Nat /\ m * y \in Nat /\ m * n \in Nat
  OBVIOUS
<1>3. m * x + m =< m * n
  BY <1>1
<1>4. ASSUME m * x + r = m * y + s PROVE x = y /\ r = s
  <2>1. ~(x < y)
    BY <1>1, <1>2, <1>4
  <2>2. ~(y < x)
    BY <1>1, <1>2, <1>4
  <2> QED BY <1>2, <1>4, <2>1, <2>2
<1> QED BY <1>2, <1>3, <1>4

\* encrypt maps the domain into itself, one to one.
LEMMA EncryptOneToOne ==
    ASSUME FieldInv
    PROVE  /\ \A m \in Domain : Encrypt(m) \in Domain
           /\ \A m, n \in Domain : Encrypt(m) = Encrypt(n) => m = n
<1> USE DEF FieldInv
<1> DEFINE F(j, right) == Round(seed, j, right)
           L1(m) == m % a            R1(m) == m \div a
           L2(m) == R1(m)            R2(m) == Mix(L1(m), F(1, R1(m)), a)
           L3(m) == R2(m)            R3(m) == Mix(L2(m), F(2, R2(m)), b)
           L4(m) == R3(m)            R4(m) == Mix(L3(m), F(3, R3(m)), a)
<1>0. ASSUME NEW j \in 1..3, NEW right \in 0..(W - 1) PROVE F(j, right) \in Nat
  BY Parameters
<1>1. \A m \in Domain : Encrypt(m) = a * L4(m) + R4(m)
  BY DEF Encrypt, FeistelRound, Halves
<1>2. ASSUME NEW m \in Domain PROVE L1(m) \in 0..(a - 1) /\ R1(m) \in 0..(b - 1)
  BY SplitBounds DEF Domain
<1>3. ASSUME NEW m \in Domain, NEW n \in Domain, L1(m) = L1(n), R1(m) = R1(n) PROVE m = n
  BY <1>3, SplitBounds DEF Domain
<1> HIDE DEF F, L1, R1
<1>4. ASSUME NEW m \in Domain PROVE R2(m) \in 0..(a - 1) /\ F(1, R1(m)) \in Nat
  <2>1. F(1, R1(m)) \in Nat
    BY <1>0, <1>2, Parameters
  <2> QED BY <1>2, <2>1, MixOneToOne
<1>5. ASSUME NEW m \in Domain, NEW n \in Domain, L2(m) = L2(n), R2(m) = R2(n) PROVE m = n
  <2>1. L1(m) = L1(n)
    BY <1>2, <1>4, <1>5, MixOneToOne
  <2> QED BY <1>3, <1>5, <2>1
<1> HIDE DEF R2
<1>6. ASSUME NEW m \in Domain PROVE R3(m) \in 0..(b - 1) /\ F(2, R2(m)) \in Nat
  <2>1. F(2, R2(m)) \in Nat
    BY <1>0, <1>4, Parameters
  <2> QED BY <1>2, <2>1, MixOneToOne
<1>7. ASSUME NEW m \in Domain, NEW n \in Domain, L3(m) = L3(n), R3(m) = R3(n) PROVE m = n
  <2>1. R1(m) = R1(n)
    BY <1>2, <1>6, <1>7, MixOneToOne
  <2> QED BY <1>5, <1>7, <2>1
<1> HIDE DEF R3
<1>8. ASSUME NEW m \in Domain PROVE R4(m) \in 0..(a - 1) /\ F(3, R3(m)) \in Nat
  <2>1. F(3, R3(m)) \in Nat
    BY <1>0, <1>6, Parameters
  <2> QED BY <1>4, <2>1, MixOneToOne
<1>9. ASSUME NEW m \in Domain, NEW n \in Domain, L4(m) = L4(n), R4(m) = R4(n) PROVE m = n
  <2>1. R2(m) = R2(n)
    BY <1>4, <1>8, <1>9, MixOneToOne
  <2> QED BY <1>7, <1>9, <2>1
<1> HIDE DEF R4
<1>10. ASSUME NEW m \in Domain PROVE Encrypt(m) \in Domain
  <2>1. L4(m) \in 0..(b - 1) /\ R4(m) \in 0..(a - 1)
    BY <1>6, <1>8
  <2> HIDE DEF L4
  <2>2. a * L4(m) + R4(m) \in 0..(a * b - 1)
    BY <2>1, JoinOneToOne
  <2> QED BY <1>1, <2>2 DEF Domain
<1>11. ASSUME NEW m \in Domain, NEW n \in Domain, Encrypt(m) = Encrypt(n) PROVE m = n
  <2>1. /\ L4(m) \in 0..(b - 1) /\ R4(m) \in 0..(a - 1)
        /\ L4(n) \in 0..(b - 1) /\ R4(n) \in 0..(a - 1)
    BY <1>6, <1>8
  <2> HIDE DEF L4
  <2>2. a * L4(m) + R4(m) = a * L4(n) + R4(n)
    BY ONLY <1>1, <1>11, m \in Domain, n \in Domain
  <2>3. L4(m) = L4(n) /\ R4(m) = R4(n)
    <3> DEFINE x == L4(m)  y == L4(n)  r == R4(m)  s == R4(n)
    <3>1. a \in Nat \ {0} /\ b \in Nat \ {0}
      OBVIOUS
    <3>2. x \in 0..(b - 1) /\ y \in 0..(b - 1) /\ r \in 0..(a - 1) /\ s \in 0..(a - 1)
      BY ONLY <2>1
    <3>3. a * x + r = a * y + s
      BY ONLY <2>2
    <3> HIDE DEF x, y, r, s
    <3>4. x = y /\ r = s
      BY ONLY <3>1, <3>2, <3>3, JoinOneToOne
    <3> QED BY ONLY <3>4 DEF x, y, r, s
  <2> QED BY <1>9, <2>3
<1> QED BY <1>10, <1>11

----------------------------------------------------------------------------
\* New: rounding up leaves a domain of at least size elements, and of less than twice as many.
LEMMA NewCovers ==
    ASSUME NEW n \in Nat \ {0}, NEW r \in 1..n
    PROVE  /\ RoundedUp(n, r) \in Nat \ {0}
           /\ n =< r * RoundedUp(n, r) /\ r * RoundedUp(n, r) < 2 * n
<1> DEFINE q == n \div r
<1>1. q \in Nat /\ n = r * q + (n % r) /\ n % r \in 0..(r - 1)
  OBVIOUS
<1>2. q # 0
  <2>1. SUFFICES ASSUME q = 0 PROVE FALSE
    OBVIOUS
  <2>2. r * q = 0
    BY <2>1
  <2> QED BY <1>1, <2>2
<1>3. q * r = r * q /\ r * (q + 1) = r * q + r /\ r * q \in Nat
  BY <1>1
<1>4. r =< r * q
  <2>1. \A u \in Nat \ {0} : r =< r * u
    OBVIOUS
  <2> QED BY <1>1, <1>2, <2>1
<1>5. RoundedUp(n, r) = IF q * r < n THEN q + 1 ELSE q
  BY DEF RoundedUp
<1> HIDE DEF q
<1> QED BY <1>1, <1>2, <1>3, <1>4, <1>5

\* The domain has a*b elements.
LEMMA DomainFinite ==
    ASSUME FieldInv
    PROVE  IsFiniteSet(Domain) /\ Cardinality(Domain) = a * b /\ a * b \in Nat
<1>1. a * b \in Nat /\ a * b - 1 \in Int
  BY DEF FieldInv
<1>2. a * b > 0
  BY <1>1 DEF FieldInv
<1> QED BY <1>1, <1>2, FS_Interval DEF Domain

\* The fields start in FieldInv.
LEMMA InitFields == Init => FieldInv
<1> SUFFICES ASSUME Init PROVE FieldInv
  OBVIOUS
<1>1. size \in Nat \ {0} /\ seed \in Seeds /\ a \in 1..size /\ b = RoundedUp(size, a)
  BY Parameters DEF Init, Roots
<1>2. b \in Nat \ {0} /\ size =< a * b /\ a * b < 2 * size
  BY <1>1, NewCovers
<1> QED BY <1>1, <1>2 DEF Init, FieldInv

\* An order starts in the invariant.
LEMMA InitInv == Init => IInv
<1> SUFFICES ASSUME Init PROVE IInv
  OBVIOUS
<1>1. FieldInv
  BY InitFields
<1>2. TypeOK
  BY <1>1 DEF FieldInv, Init, TypeOK
<1>3. Owners([x \in Domain |-> -1])
  <2>1. 0 \in Domain
    BY <1>1 DEF FieldInv, Domain
  <2>2. Owned([x \in Domain |-> -1]) = {}
    BY DEF Owned
  <2> QED BY <2>1, <2>2, FS_EmptySet DEF Init, Owners
<1> QED BY <1>1, <1>2, <1>3 DEF IInv

\* The invariant is inductive.
LEMMA StepInv == IInv /\ [Next]_vars => IInv'
<1> SUFFICES ASSUME IInv, [Next]_vars PROVE IInv'
  OBVIOUS
<1> USE DEF IInv
<1>1. FieldInv' /\ Domain' = Domain
  BY DEF Next, Walk, Land, Finished, FieldInv, Domain
<1>2. \A m : Encrypt(m)' = Encrypt(m)
  <2>1. UNCHANGED fields
    BY DEF Next, Walk, Land, Finished
  <2> QED BY ONLY <2>1, SMTT(20) DEF Encrypt, FeistelRound, Halves
<1>3. PICK owner : Owners(owner)
  OBVIOUS
<1>4. CASE UNCHANGED vars
  <2>1. TypeOK'
    BY <1>4 DEF TypeOK
  <2>2. Owners(owner)'
    BY <1>1, <1>2, <1>3, <1>4 DEF Owners, Owned
  <2> QED BY <1>1, <2>1, <2>2
<1>5. CASE Walk \/ Land
  <2> DEFINE d == Encrypt(c)
  <2> PICK new : new = [owner EXCEPT ![c] = i]
    OBVIOUS
  <2>1. i < size /\ i \in Nat /\ size \in Nat /\ c \in Domain /\ owner[c] = -1
    BY <1>3, <1>5 DEF Walk, Land, Owners, TypeOK
  <2>2. d \in Domain /\ \A y \in Domain : Encrypt(y) = d => y = c
    BY <2>1, EncryptOneToOne
  <2>3. /\ new \in [Domain -> Int] /\ new[c] = i
        /\ \A x \in Domain : x # c => new[x] = owner[x]
    BY <1>3, <2>1 DEF Owners
  <2>4. \A x \in Domain : new[x] =< i /\ (x < size /\ new[x] # -1 => new[x] = x)
    <3> TAKE x \in Domain
    <3>1. CASE x = c
      <4>1. c = i \/ c >= size
        BY <1>3, <2>1 DEF Owners
      <4>2. c \in Nat
        BY DEF TypeOK
      <4> QED BY <2>1, <2>3, <3>1, <4>1, <4>2
    <3>2. CASE x # c
      BY <1>3, <2>1, <2>3, <3>2 DEF Owners
    <3> QED BY <3>1, <3>2
  \* The elements walked to were walked to before, except c.
  <2>5. \A x \in Domain : (x >= size /\ new[x] # -1)
            => \E y \in Domain : new[y] = new[x] /\ Encrypt(y) = x
    <3> TAKE x \in Domain
    <3> HAVE x >= size /\ new[x] # -1
    <3>1. CASE x = c
      BY <1>3, <2>1, <2>3, <3>1 DEF Owners
    <3>2. CASE x # c
      BY <1>3, <2>1, <2>3, <3>2 DEF Owners
    <3> QED BY <3>1, <3>2
  <2>6. \A k \in 1..i : \E y \in Domain : new[y] = k - 1 /\ Encrypt(y) = order[k]
    BY <1>3, <2>1, <2>3 DEF Owners
  <2>9. steps' = Cardinality(Owned(new)')
    <3>1. Owned(new)' = Owned(owner) \cup {c} /\ c \notin Owned(owner)
      BY <1>1, <2>1, <2>3 DEF Owned
    <3>2. Owned(owner) \in SUBSET Domain
      BY DEF Owned
    <3>3. IsFiniteSet(Owned(owner))
      BY <3>2, DomainFinite, FS_Subset
    <3>4. Cardinality(Owned(owner) \cup {c}) = Cardinality(Owned(owner)) + 1
      BY <3>1, <3>3, FS_AddElement
    <3>5. steps' = steps + 1
      BY <1>5 DEF Walk, Land
    <3> QED BY <1>3, <3>1, <3>4, <3>5 DEF Owners
  <2>7. CASE Walk
    <3>1. d >= size /\ c' = d /\ UNCHANGED <<i, order, size>>
      BY <2>1, <2>2, <2>7 DEF Walk, OutOfRange, Domain, FieldInv
    \* Nobody has been at the next element: who had would have come from c, too.
    <3>2. new[d] = -1
      <4>1. SUFFICES ASSUME new[d] # -1 PROVE FALSE
        OBVIOUS
      <4>2. CASE d # c
        BY <1>3, <2>1, <2>2, <2>3, <3>1, <4>1, <4>2 DEF Owners
      <4>3. CASE d = c
        BY <1>3, <2>1, <2>2, <2>3, <3>1, <4>3 DEF Owners
      <4> QED BY <4>2, <4>3
    <3>3. Owners(new)'
      BY <1>1, <1>2, <2>1, <2>2, <2>3, <2>4, <2>5, <2>6, <2>9, <3>1, <3>2 DEF Owners
    <3>4. TypeOK'
      BY <2>2, <2>7, <3>1 DEF Walk, TypeOK, Domain
    <3> QED BY <1>1, <3>3, <3>4
  <2>8. CASE Land
    <3>1. d \in 0..(size - 1) /\ i' = i + 1 /\ c' = i + 1 /\ size' = size
      BY <2>1, <2>2, <2>8 DEF Land, OutOfRange, Domain, FieldInv
    <3>2. /\ order' \in Seq(0..(size - 1)) /\ Len(order') = i + 1 /\ order'[i + 1] = d
          /\ \A k \in 1..i : order'[k] = order[k]
      BY <2>1, <2>8, <3>1 DEF Land, TypeOK
    <3>3. i + 1 < size => i + 1 \in Domain /\ new[i + 1] = -1
      BY <1>3, <2>1, <2>3, <2>4, SMTT(20) DEF Owners, FieldInv, Domain
    <3>4. \A k \in 1..(i + 1) : \E y \in Domain : new[y] = k - 1 /\ Encrypt(y) = order'[k]
      <4> TAKE k \in 1..(i + 1)
      <4>1. CASE k = i + 1
        <5>1. new[c] = k - 1 /\ Encrypt(c) = order'[k]
          BY <2>1, <2>3, <3>2, <4>1
        <5> QED BY <2>1, <5>1
      <4>2. CASE k # i + 1
        <5>1. k \in 1..i
          BY <2>1, <4>2
        <5>2. order'[k] = order[k]
          BY <3>2, <5>1
        <5> QED BY <2>6, <5>1, <5>2
      <4> QED BY <4>1, <4>2
    <3>5. Owners(new)'
      BY <1>1, <1>2, <2>1, <2>3, <2>4, <2>5, <2>9, <3>1, <3>3, <3>4 DEF Owners
    <3>6. TypeOK'
      BY <2>1, <2>8, <3>1, <3>2 DEF Land, TypeOK
    <3> QED BY <1>1, <3>5, <3>6
  <2> QED BY <1>5, <2>7, <2>8
<1> QED BY <1>4, <1>5 DEF Next, Finished

\* The invariant holds in every reachable state.
THEOREM Invariant == Spec => []IInv
BY InitInv, StepInv, PTL DEF Spec

\* Every variable keeps its type; in particular what Index returns is below the size.
THEOREM TypeCorrect == Spec => []TypeOK
<1>1. IInv => TypeOK
  BY DEF IInv
<1> QED BY Invariant, <1>1, PTL

\* The Feistel network is one to one for every round function, although its halves differ in
\* size and its sums are taken modulo 2^64.
THEOREM FeistelIsOneToOne == Spec => []EncryptIsOneToOne
<1>1. IInv => EncryptIsOneToOne
  BY EncryptOneToOne DEF IInv, EncryptIsOneToOne, Domain
<1> QED BY Invariant, <1>1, PTL

\* Two positions that led to the same element came from the same element before it, which only
\* one position owns.
LEMMA OrderIsOneToOne == IInv => VisitedOnce
<1> SUFFICES ASSUME IInv, NEW k \in 1..Len(order), NEW l \in 1..Len(order), order[k] = order[l]
             PROVE  k = l
  BY DEF VisitedOnce
<1>1. PICK owner : Owners(owner)
  BY DEF IInv
<1>2. k \in 1..i /\ l \in 1..i
  BY DEF IInv, TypeOK
<1>3. PICK y \in Domain : owner[y] = k - 1 /\ Encrypt(y) = order[k]
  BY <1>1, <1>2 DEF Owners
<1>4. PICK z \in Domain : owner[z] = l - 1 /\ Encrypt(z) = order[l]
  BY <1>1, <1>2 DEF Owners
<1>5. y = z
  BY <1>3, <1>4, EncryptOneToOne DEF IInv
<1> QED BY <1>2, <1>3, <1>4, <1>5

\* No target is visited twice, for every size, seed and round function.
THEOREM VisitsOnce == Spec => []VisitedOnce
BY Invariant, OrderIsOneToOne, PTL

\* As many elements below size as there are, all of them different, are all of them.
LEMMA AllAreVisited == IInv => AllVisited
<1> SUFFICES ASSUME IInv, i = size, NEW t \in 0..(size - 1)
             PROVE  \E k \in 1..Len(order) : order[k] = t
  BY DEF AllVisited
<1>1. size \in Nat \ {0} /\ Len(order) = size /\ order \in [1..size -> 0..(size - 1)]
  BY DEF IInv, TypeOK
<1>2. order \in Injection(1..size, 0..(size - 1))
  BY <1>1, OrderIsOneToOne DEF VisitedOnce, Injection, IsInjective
<1>3. IsFiniteSet(0..(size - 1)) /\ Cardinality(0..(size - 1)) = size /\ Cardinality(1..size) = size
  BY <1>1, FS_Interval
<1>4. order \in Surjection(1..size, 0..(size - 1))
  BY <1>2, <1>3, FS_Injection
<1> QED BY <1>1, <1>4 DEF Surjection

\* The loop of sendProbes visits every target.
THEOREM VisitsAll == Spec => []AllVisited
BY Invariant, AllAreVisited, PTL

\* The loop of sendProbes visits every target exactly once.
THEOREM VisitsExactlyOnce == Spec => []ExactlyOnce
BY VisitsOnce, VisitsAll, PTL DEF ExactlyOnce

\* Every step of the loop gives another element its owner, and there are few elements.
LEMMA StepsAreOwned == IInv => FewSteps
<1> SUFFICES ASSUME IInv PROVE FewSteps
  OBVIOUS
<1>1. PICK owner : Owners(owner)
  BY DEF IInv
<1>2. Owned(owner) \in SUBSET Domain
  BY DEF Owned
<1>3. Cardinality(Owned(owner)) =< a * b
  BY <1>2, DomainFinite, FS_Subset DEF IInv
<1>4. steps \in Nat /\ a * b \in Nat /\ size \in Nat
  BY DomainFinite DEF IInv, TypeOK
<1> QED BY <1>1, <1>3, <1>4 DEF Owners, FewSteps, IInv, FieldInv

\* encrypt is called less than twice per position, whatever the seed.
THEOREM StepsAreFew == Spec => []FewSteps
BY Invariant, StepsAreOwned, PTL

================================================================================
