------------------------------ MODULE Permutation ------------------------------
(***************************************************************************)
(* The keyed bijection of pkg/types/permutation/permutation.go, walked the *)
(* way sendProbes walks it (scanner.go:372-386): Index(0), Index(1), ...,  *)
(* Index(size - 1).  Encrypt is one pass of the Feistel network over       *)
(* [0, a*b); Index repeats it until the value lands below size.            *)
(***************************************************************************)
EXTENDS Integers, Sequences, FiniteSets

CONSTANTS
    Sizes,         \* the sizes a target space may have
    Seeds,         \* the seeds, which select the round functions
    Round(_,_,_),  \* round: any function of the seed, the round number and the right half
    W              \* the number of values of a uint64

ASSUME Parameters ==
    /\ Sizes \subseteq Nat \ {0}
    /\ W \in Nat \ {0}
    /\ \A seed \in Seeds, j \in 1..3, right \in 0..(W - 1) :
           Round(seed, j, right) \in 0..(W - 1)

VARIABLES
    size, a, b, seed,  \* the fields of the Permutation
    i,                 \* the position whose Index is computed
    c,                 \* the element the walk of i is at, before the next encrypt
    order,             \* what Index(0), ..., Index(i - 1) returned
    steps              \* how often encrypt was called

fields == <<size, a, b, seed>>
vars == <<fields, i, c, order, steps>>

Plus(x, y) == (x + y) % W

----------------------------------------------------------------------------
\* Mutants: the quotient is always rounded up; the round function is added unreduced.
AlwaysUp(n, m) == n \div m + 1
RoundedUp(n, m) == IF (n \div m) * m < n THEN n \div m + 1 ELSE n \div m
MixUnreduced(left, f, modulus) == Plus(left, f) % modulus
Mix(left, f, modulus) == Plus(left, f % modulus) % modulus

\* New.  Rounding in math.Sqrt may leave a one off from the root of a large size.
Roots(n) == {r \in 1..n : (r - 1) * (r - 1) =< n /\ n < (r + 2) * (r + 2)}

\* The three rounds of encrypt, the halves swapping places: a, b and a again are the moduli.
Halves(m) == <<m % a, m \div a>>
FeistelRound(j, halves, modulus) ==
    <<halves[2], Mix(halves[1], Round(seed, j, halves[2]), modulus)>>
Encrypt(m) ==
    LET first  == FeistelRound(1, Halves(m), a)
        second == FeistelRound(2, first, b)
        third  == FeistelRound(3, second, a)
    IN  a * third[1] + third[2]

----------------------------------------------------------------------------
Init ==
    /\ size \in Sizes /\ seed \in Seeds
    /\ a \in Roots(size) /\ b = RoundedUp(size, a)
    \* a and b are near the root of a size below 2^63.
    /\ 2 * a =< W /\ 2 * b =< W
    /\ i = 0 /\ c = 0 /\ order = <<>> /\ steps = 0

\* Mutant: off by one.
Beyond(x) == x > size
OutOfRange(x) == x >= size

\* One call of encrypt: the walk goes on, or ends with the next element of the order.
Walk ==
    /\ i < size
    /\ OutOfRange(Encrypt(c))
    /\ c' = Encrypt(c)
    /\ steps' = steps + 1
    /\ UNCHANGED <<fields, i, order>>

Land ==
    /\ i < size
    /\ ~OutOfRange(Encrypt(c))
    /\ order' = Append(order, Encrypt(c))
    /\ i' = i + 1 /\ c' = i + 1
    /\ steps' = steps + 1
    /\ UNCHANGED fields

Finished == i = size /\ UNCHANGED vars

Next == Walk \/ Land \/ Finished

Spec == Init /\ [][Next]_vars

----------------------------------------------------------------------------
\* Every variable has its type.
TypeOK ==
    /\ size \in Nat \ {0} /\ a \in Nat \ {0} /\ b \in Nat \ {0} /\ seed \in Seeds
    /\ i \in 0..size /\ c \in Nat
    /\ order \in Seq(0..(size - 1)) /\ Len(order) = i
    /\ steps \in Nat

\* No target comes twice, ...
VisitedOnce == \A k, l \in 1..Len(order) : order[k] = order[l] => k = l

\* ... and when the loop has ended none is left out.
AllVisited == i = size => \A t \in 0..(size - 1) : \E k \in 1..Len(order) : order[k] = t

\* "a scan can visit every target exactly once" (permutation.go:1-2).
ExactlyOnce == VisitedOnce /\ AllVisited

\* "encrypt maps [0, a*b) onto itself" (permutation.go:69), for every round function.
EncryptIsOneToOne ==
    /\ \A m \in 0..(a * b - 1) : Encrypt(m) \in 0..(a * b - 1)
    /\ \A m, n \in 0..(a * b - 1) : Encrypt(m) = Encrypt(n) => m = n

\* "keeps the expected number of cycle-walking steps below two" (permutation.go:33-34): the mean
\* over all positions is, also when the seed is a bad one.  Since each step of the loop calls
\* encrypt, no cycle walk is endless either.
FewSteps == steps < 2 * size
================================================================================
