----------------------------- MODULE BannerProofs -----------------------------
(***************************************************************************)
(* What Banner guarantees for every sequence of octets, every bound and    *)
(* threshold, and every port and signature.  TextInv relates the run and   *)
(* the line that text has built to the stretches that can be read off the  *)
(* octets before it; that text and those agree is counting.                *)
(***************************************************************************)
EXTENDS Banner, FiniteSetTheorems, SequenceTheorems, TLAPS

Ends == {"n", "x"}
Before == 1..(at - 1)

\* The octets of the run that text is in, those before it, and those of the run that its builder
\* gets once a printable one follows the last blank.
Current == {j \in Before : \A m \in j..(at - 1) : octets[m] \notin Ends}
Printable(S) == {j \in S : octets[j] = "p"}
Pieces ==
    {j \in Current :
        \/ octets[j] = "p"
        \/ octets[j] = "b" /\ j > 1 /\ octets[j - 1] = "p" /\ \E m \in (j + 1)..(at - 1) : octets[m] = "p"}

\* The blank at b follows a printable octet, and nothing but blanks has followed it.
Pending(b) ==
    /\ b \in Current /\ b > 1 /\ octets[b - 1] = "p"
    /\ \A m \in b..(at - 1) : octets[m] = "b"

TextTypes ==
    /\ octets \in Seq(Octet) /\ at \in 1..(Len(octets) + 1)
    /\ run \in Seq({"p", "b"}) /\ line \in Seq({"p", "b"})
    /\ rendered \in BOOLEAN

\* The run is its printable octets, with one blank for all between two of them.
RunInv ==
    ~rendered =>
        /\ Count({"p"}, run) = Cardinality(Printable(Current))
        /\ Len(Trimmed(run)) = Cardinality(Pieces)
        /\ EndsBlank(run) <=> \E b \in Current : Pending(b)
        /\ (run # <<>> /\ ~EndsBlank(run)) <=> (at > 1 /\ octets[at - 1] = "p")
        /\ \A j \in 1..Len(run) : run[j] = "b" => j > 1 /\ run[j - 1] = "p"

\* The line is the runs that were worth keeping.
Neat(seq) == \A j \in 1..Len(seq) : seq[j] = "b" => 1 < j /\ j < Len(seq) /\ seq[j + 1] # "b"
LineInv ==
    ~rendered =>
        /\ Neat(line)
        /\ Count({"p"}, line) = Cardinality({j \in Worth : j < at} \ Current)
        /\ Len(line) >= maxTextLength => run = <<>>

TextInv == TextTypes /\ RunInv /\ LineInv /\ TextIsOneLine

----------------------------------------------------------------------------
\* How many elements of a sequence are in a set.
LEMMA CountType ==
    ASSUME NEW T, NEW S, NEW s \in Seq(T)
    PROVE  /\ IsFiniteSet({j \in 1..Len(s) : s[j] \in S})
           /\ Count(S, s) \in 0..Len(s)
<1> DEFINE A == {j \in 1..Len(s) : s[j] \in S}
<1>1. IsFiniteSet(1..Len(s)) /\ Cardinality(1..Len(s)) = Len(s) /\ Len(s) \in Nat
  <2>1. Len(s) \in Nat /\ 1 \in Int
    OBVIOUS
  <2>2. Cardinality(1..Len(s)) = (IF 1 > Len(s) THEN 0 ELSE Len(s) - 1 + 1) /\ IsFiniteSet(1..Len(s))
    BY <2>1, FS_Interval
  <2> QED BY <2>1, <2>2
<1>2. A \in SUBSET (1..Len(s))
  OBVIOUS
<1> HIDE DEF A
<1>3. IsFiniteSet(A) /\ Cardinality(A) =< Len(s)
  BY <1>1, <1>2, FS_Subset
<1>4. Cardinality(A) \in Nat
  BY <1>3, FS_CardinalityType
<1> QED BY <1>1, <1>3, <1>4 DEF A, Count

\* There is nothing to count in the empty sequence.
LEMMA CountEmpty == ASSUME NEW S PROVE Count(S, <<>>) = 0
<1>1. {j \in 1..Len(<<>>) : <<>>[j] \in S} = {}
  OBVIOUS
<1> QED BY <1>1, FS_EmptySet DEF Count

\* Counts add up.
LEMMA CountConcat ==
    ASSUME NEW T, NEW S, NEW s \in Seq(T), NEW t \in Seq(T)
    PROVE  Count(S, s \o t) = Count(S, s) + Count(S, t)
<1> DEFINE u == s \o t  m == Len(s)  n == Len(t)
           A == {j \in 1..m : s[j] \in S}
           B == {j \in 1..n : t[j] \in S}
           C == {j \in 1..(m + n) : u[j] \in S}
           D == {j \in (m + 1)..(m + n) : u[j] \in S}
<1>1. /\ Len(u) = m + n /\ m \in Nat /\ n \in Nat
      /\ \A j \in 1..(m + n) : u[j] = IF j =< m THEN s[j] ELSE t[j - m]
  BY ConcatProperties
<1>2. /\ IsFiniteSet(A) /\ Count(S, s) = Cardinality(A)
      /\ IsFiniteSet(B) /\ Count(S, t) = Cardinality(B)
  BY CountType DEF Count
<1>3. Count(S, u) = Cardinality(C)
  BY <1>1 DEF Count
<1> HIDE DEF u, m, n
<1>4. C = A \cup D /\ A \cap D = {}
  <2>1. \A j \in 1..m : j \in 1..(m + n) /\ u[j] = s[j]
    BY <1>1
  <2>2. \A j \in 1..(m + n) : j \in 1..m \/ j \in (m + 1)..(m + n)
    BY <1>1
  <2>3. \A j \in (m + 1)..(m + n) : j \in 1..(m + n) /\ j \notin 1..m
    BY <1>1
  <2> QED BY <2>1, <2>2, <2>3
<1>5. IsFiniteSet(D) /\ Cardinality(D) = Cardinality(B)
  <2> DEFINE f == [j \in B |-> j + m]
  <2>1. \A j \in B : j + m \in D
    <3> SUFFICES ASSUME NEW j \in B PROVE j + m \in D
      OBVIOUS
    <3>1. j + m \in (m + 1)..(m + n) /\ j + m \in 1..(m + n) /\ ~(j + m =< m) /\ (j + m) - m = j
      BY <1>1
    <3>2. u[j + m] = t[j]
      BY <1>1, <3>1
    <3> QED BY <3>1, <3>2
  <2>2. \A d \in D : d - m \in B /\ (d - m) + m = d
    <3> SUFFICES ASSUME NEW d \in D PROVE d - m \in B /\ (d - m) + m = d
      OBVIOUS
    <3>1. d - m \in 1..n /\ d \in 1..(m + n) /\ ~(d =< m) /\ (d - m) + m = d
      BY <1>1
    <3> QED BY <1>1, <3>1
  <2>3. B \subseteq Nat
    BY <1>1
  <2> HIDE DEF B, D
  <2>4. f \in Injection(B, D)
    <3>1. f \in [B -> D]
      BY <2>1
    <3>2. \A x, y \in B : f[x] = f[y] => x = y
      BY <1>1, <2>3
    <3> QED BY <3>1, <3>2 DEF Injection, IsInjective
  <2>5. f \in Surjection(B, D)
    <3>1. f \in [B -> D]
      BY <2>1
    <3>2. \A d \in D : \E x \in B : f[x] = d
      BY <2>2
    <3> QED BY <3>1, <3>2 DEF Surjection
  <2> HIDE DEF f
  <2>6. ExistsBijection(B, D)
    BY <2>4, <2>5 DEF ExistsBijection, Bijection
  <2> QED BY <1>2, <2>6, FS_Bijection
<1> HIDE DEF A, B, C, D
<1>6. Cardinality(A \cup D) = Cardinality(A) + Cardinality(D) - Cardinality(A \cap D)
  BY <1>2, <1>5, FS_Union
<1>7. Cardinality(A) \in Nat /\ Cardinality(D) \in Nat
  BY <1>2, <1>5, FS_CardinalityType
<1>8. Cardinality(A \cap D) = 0
  BY <1>4, FS_EmptySet
<1> QED BY <1>2, <1>3, <1>4, <1>5, <1>6, <1>7, <1>8 DEF u

\* One more element counts if it is in the set.
LEMMA CountAppend ==
    ASSUME NEW T, NEW S, NEW s \in Seq(T), NEW e \in T
    PROVE  Count(S, Append(s, e)) = Count(S, s) + IF e \in S THEN 1 ELSE 0
<1>1. <<e>> \in Seq(T) /\ Len(<<e>>) = 1 /\ <<e>>[1] = e
  OBVIOUS
<1>2. Append(s, e) = s \o <<e>>
  BY AppendIsConcat
<1>3. Count(S, <<e>>) = IF e \in S THEN 1 ELSE 0
  <2>1. {j \in 1..1 : <<e>>[j] \in S} = IF e \in S THEN {1} ELSE {}
    OBVIOUS
  <2> QED BY <1>1, <2>1, FS_Singleton, FS_EmptySet DEF Count
<1>4. Count(S, s \o <<e>>) = Count(S, s) + Count(S, <<e>>)
  BY <1>1, CountConcat
<1> QED BY <1>2, <1>3, <1>4

\* A prefix counts no more than the whole.
LEMMA CountPrefix ==
    ASSUME NEW T, NEW S, NEW s \in Seq(T), NEW n \in 0..Len(s)
    PROVE  /\ SubSeq(s, 1, n) \in Seq(T) /\ Len(SubSeq(s, 1, n)) = n
           /\ \A j \in 1..n : SubSeq(s, 1, n)[j] = s[j]
           /\ Count(S, SubSeq(s, 1, n)) =< Count(S, s)
<1> DEFINE t == SubSeq(s, 1, n)
<1>1. t \in Seq(T) /\ Len(t) = n /\ \A j \in 1..n : t[j] = s[j]
  OBVIOUS
<1> HIDE DEF t
<1>2. {j \in 1..Len(t) : t[j] \in S} \subseteq {j \in 1..Len(s) : s[j] \in S}
  BY <1>1
<1>3. IsFiniteSet({j \in 1..Len(s) : s[j] \in S})
  BY CountType
<1>4. Count(S, t) =< Count(S, s)
  BY <1>2, <1>3, FS_Subset DEF Count
<1> QED BY <1>1, <1>4 DEF t

\* What trimming takes away is a blank.
LEMMA TrimmedIsTrimmed ==
    ASSUME NEW s \in Seq({"p", "b"})
    PROVE  /\ Trimmed(s) \in Seq({"p", "b"})
           /\ Len(Trimmed(s)) = IF EndsBlank(s) THEN Len(s) - 1 ELSE Len(s)
           /\ \A j \in 1..Len(Trimmed(s)) : j \in 1..Len(s) /\ Trimmed(s)[j] = s[j]
           /\ Count({"p"}, Trimmed(s)) = Count({"p"}, s)
<1>1. CASE ~EndsBlank(s)
  BY <1>1 DEF Trimmed
<1>2. CASE EndsBlank(s)
  <2> DEFINE n == Len(s) - 1  t == SubSeq(s, 1, n)
  <2>1. Len(s) \in Nat \ {0} /\ s[Len(s)] = "b" /\ Trimmed(s) = t
    BY <1>2 DEF EndsBlank, Trimmed
  <2>2. n \in 0..Len(s) /\ n + 1 = Len(s)
    BY <2>1
  <2> HIDE DEF n
  <2>3. t \in Seq({"p", "b"}) /\ Len(t) = n /\ \A j \in 1..n : t[j] = s[j]
    BY <2>2, CountPrefix
  <2> HIDE DEF t
  <2>4. {j \in 1..n : t[j] \in {"p"}} = {j \in 1..Len(s) : s[j] \in {"p"}}
    BY <2>1, <2>2, <2>3
  <2>5. Count({"p"}, t) = Count({"p"}, s)
    BY <2>3, <2>4 DEF Count
  <2> QED BY <1>2, <2>1, <2>2, <2>3, <2>5
<1> QED BY <1>1, <1>2

----------------------------------------------------------------------------
\* The run that text is in, and what the next octet makes of it.
LEMMA CurrentIsFinite ==
    ASSUME TextTypes
    PROVE  /\ Current \subseteq 1..(at - 1) /\ Current \subseteq 1..Len(octets)
           /\ IsFiniteSet(Current)
           /\ IsFiniteSet(Pieces) /\ Cardinality(Pieces) \in Nat
           /\ IsFiniteSet(Printable(Current)) /\ Cardinality(Printable(Current)) \in Nat
<1>1. at \in 1..(Len(octets) + 1) /\ Len(octets) \in Nat
  BY DEF TextTypes
<1>2. Current \subseteq 1..(at - 1) /\ Current \subseteq 1..Len(octets)
  BY <1>1 DEF Current, Before
<1>3. IsFiniteSet(1..(at - 1))
  BY <1>1, FS_Interval
<1>4. IsFiniteSet(Current)
  BY <1>2, <1>3, FS_Subset
<1>5. IsFiniteSet(Pieces) /\ IsFiniteSet(Printable(Current))
  <2>1. Pieces \in SUBSET Current /\ Printable(Current) \in SUBSET Current
    BY DEF Pieces, Printable
  <2> QED BY <1>4, <2>1, FS_Subset
<1> QED BY <1>2, <1>4, <1>5, FS_CardinalityType

\* The next octet joins the run it is in, or ends it.
LEMMA NextCurrent ==
    ASSUME TextTypes, at =< Len(octets), octets' = octets, at' = at + 1
    PROVE  /\ at \notin Current
           /\ octets[at] \in Ends => Current' = {}
           /\ octets[at] \notin Ends => Current' = Current \cup {at}
<1>1. at \in Nat \ {0} /\ Before = 1..(at - 1) /\ Before' = 1..at /\ at' - 1 = at
  BY DEF TextTypes, Before
<1>2. Current' = {j \in 1..at : \A m \in j..at : octets[m] \notin Ends}
  BY <1>1 DEF Current
<1>3. Current = {j \in 1..(at - 1) : \A m \in j..(at - 1) : octets[m] \notin Ends}
  BY <1>1 DEF Current
<1>4. at \notin Current
  BY <1>1, <1>3
<1>5. ASSUME octets[at] \in Ends PROVE Current' = {}
  <2>1. \A j \in 1..at : at \in j..at
    BY <1>1
  <2> QED BY <1>2, <1>5, <2>1
<1>6. ASSUME octets[at] \notin Ends PROVE Current' = Current \cup {at}
  <2>1. ASSUME NEW j \in Current' PROVE j \in Current \cup {at}
    <3>1. j \in 1..at /\ \A m \in j..(at - 1) : m \in j..at
      BY <1>1, <1>2, <2>1
    <3>2. j = at \/ j \in 1..(at - 1)
      BY <1>1, <3>1
    <3> QED BY <1>2, <1>3, <2>1, <3>1, <3>2
  <2>2. ASSUME NEW j \in Current PROVE j \in Current'
    <3>1. j \in 1..at /\ \A m \in j..at : m \in j..(at - 1) \/ m = at
      BY <1>1, <1>3, <2>2
    <3> QED BY <1>2, <1>3, <1>6, <2>2, <3>1
  <2>3. at \in Current'
    <3>1. at \in 1..at /\ \A m \in at..at : m = at
      BY <1>1
    <3> QED BY <1>2, <1>6, <3>1
  <2> QED BY <2>1, <2>2, <2>3
<1> QED BY <1>4, <1>5, <1>6

\* Before a blank that is pending there is a printable octet of the run.
LEMMA RunStepBlank == ASSUME TextTypes, RunInv, KeepBlank PROVE RunInv'
<1>1. /\ at =< Len(octets) /\ octets[at] = "b" /\ octets' = octets /\ at' = at + 1
      /\ ~rendered /\ ~rendered' /\ at \in Nat \ {0} /\ at' - 1 = at
      /\ Len(run) \in Nat /\ run \in Seq({"p", "b"})
  BY DEF KeepBlank, Rendering, TextTypes
<1>2. Current' = Current \cup {at} /\ at \notin Current /\ Current \subseteq 1..(at - 1)
  BY <1>1, NextCurrent, CurrentIsFinite DEF Ends
<1>3. Printable(Current)' = Printable(Current)
  BY <1>1, <1>2 DEF Printable
<1>4. Pieces' = Pieces
  <2>1. Pieces' = {j \in Current \cup {at} :
                     \/ octets[j] = "p"
                     \/ /\ octets[j] = "b" /\ j > 1 /\ octets[j - 1] = "p"
                        /\ \E m \in (j + 1)..at : octets[m] = "p"}
    BY <1>1, <1>2 DEF Pieces
  <2>2. at \notin Pieces'
    <3>1. (at + 1)..at = {}
      BY <1>1
    <3> QED BY <1>1, <2>1, <3>1
  <2>3. ASSUME NEW j \in Current PROVE j \in Pieces' <=> j \in Pieces
    <3>1. \A m \in (j + 1)..at : octets[m] = "p" => m \in (j + 1)..(at - 1)
      BY <1>1, <1>2
    <3>2. \A m \in (j + 1)..(at - 1) : m \in (j + 1)..at
      BY <1>1, <1>2
    <3> QED BY <2>1, <3>1, <3>2 DEF Pieces
  <2>4. Pieces' \subseteq Current \cup {at} /\ Pieces \subseteq Current
    BY <2>1 DEF Pieces
  <2> QED BY <2>2, <2>3, <2>4
<1> DEFINE Awaits(b) == b > 1 /\ octets[b - 1] = "p" /\ \A m \in b..at : octets[m] = "b"
<1>5. (\E b \in Current' : Pending(b)') <=> \E b \in Current \cup {at} : Awaits(b)
  BY <1>1, <1>2 DEF Pending
<1>6. Awaits(at) <=> at > 1 /\ octets[at - 1] = "p"
  <2>1. \A m \in at..at : m = at
    BY <1>1
  <2> QED BY <1>1, <2>1
<1>7. \A b \in Current : Awaits(b) <=> Pending(b)
  <2> SUFFICES ASSUME NEW b \in Current PROVE Awaits(b) <=> Pending(b)
    OBVIOUS
  <2>1. \A m \in b..at : m \in b..(at - 1) \/ m = at
    BY <1>1, <1>2
  <2>2. \A m \in b..(at - 1) : m \in b..at
    BY <1>1, <1>2
  <2> QED BY <1>1, <2>1, <2>2 DEF Pending
<1> HIDE DEF Awaits
<1>8. (\E b \in Current' : Pending(b)') <=> (\E b \in Current : Pending(b)) \/ (at > 1 /\ octets[at - 1] = "p")
  BY <1>5, <1>6, <1>7
<1>9. ~(at' > 1 /\ octets'[at' - 1] = "p")
  BY <1>1
<1>10. /\ Count({"p"}, run) = Cardinality(Printable(Current))
       /\ Len(Trimmed(run)) = Cardinality(Pieces)
       /\ EndsBlank(run) <=> \E b \in Current : Pending(b)
       /\ (run # <<>> /\ ~EndsBlank(run)) <=> (at > 1 /\ octets[at - 1] = "p")
       /\ \A j \in 1..Len(run) : run[j] = "b" => j > 1 /\ run[j - 1] = "p"
  BY <1>1 DEF RunInv
<1>11. CASE run # <<>> /\ ~EndsBlank(run)
  <2> DEFINE new == Append(run, "b")
  <2>1. /\ run' = new /\ Len(new) = Len(run) + 1 /\ new[Len(run) + 1] = "b" /\ new \in Seq({"p", "b"})
        /\ \A j \in 1..Len(run) : new[j] = run[j]
    BY <1>1, <1>11 DEF KeepBlank
  <2>2. Count({"p"}, new) = Count({"p"}, run)
    <3>1. "b" \in {"p", "b"} /\ "b" \notin {"p"}
      OBVIOUS
    <3>2. Count({"p"}, run) \in Nat
      BY <1>10, CurrentIsFinite
    <3>3. Count({"p"}, new) = Count({"p"}, run) + IF "b" \in {"p"} THEN 1 ELSE 0
      BY <1>1, <3>1, CountAppend
    <3> QED BY <3>1, <3>2, <3>3
  <2> HIDE DEF new
  <2>3. EndsBlank(new)
    BY <1>1, <2>1 DEF EndsBlank
  <2>4. Len(Trimmed(new)) = Len(run)
    BY <1>1, <2>1, <2>3, TrimmedIsTrimmed
  <2>5. Trimmed(run) = run
    BY <1>11 DEF Trimmed
  <2>6. run[Len(run)] = "p" /\ Len(run) >= 1
    BY <1>1, <1>11 DEF EndsBlank
  <2>7. \A j \in 1..Len(new) : new[j] = "b" => j > 1 /\ new[j - 1] = "p"
    <3> SUFFICES ASSUME NEW j \in 1..Len(new), new[j] = "b" PROVE j > 1 /\ new[j - 1] = "p"
      OBVIOUS
    <3>1. CASE j = Len(run) + 1
      BY <1>1, <2>1, <2>6, <3>1
    <3>2. CASE j \in 1..Len(run)
      <4>1. run[j] = "b" /\ j > 1 /\ run[j - 1] = "p"
        BY <1>10, <2>1, <3>2
      <4>2. j - 1 \in 1..Len(run)
        BY <1>1, <3>2, <4>1
      <4> QED BY <2>1, <4>1, <4>2
    <3> QED BY <1>1, <2>1, <3>1, <3>2
  <2>8. run' # <<>>
    BY <2>1, <2>3 DEF EndsBlank
  <2>9. EndsBlank(run')
    BY <2>1, <2>3
  <2>10. Count({"p"}, run') = Cardinality(Printable(Current)') /\ Len(Trimmed(run')) = Cardinality(Pieces')
    BY <1>3, <1>4, <1>10, <2>1, <2>2, <2>4, <2>5
  <2>11. \E b \in Current' : Pending(b)'
    BY <1>8, <1>10, <1>11
  <2> QED BY <1>9, <2>1, <2>7, <2>9, <2>10, <2>11 DEF RunInv
<1>12. CASE ~(run # <<>> /\ ~EndsBlank(run))
  <2>1. run' = run
    BY <1>12 DEF KeepBlank
  <2>2. (\E b \in Current' : Pending(b)') <=> (\E b \in Current : Pending(b))
    BY <1>8, <1>10, <1>12
  <2> QED BY <1>3, <1>4, <1>9, <1>10, <1>12, <2>1, <2>2 DEF RunInv
<1> QED BY <1>11, <1>12
\* A printable octet keeps the run, its blank included.
LEMMA RunStepPrintable == ASSUME TextTypes, RunInv, KeepPrintable PROVE RunInv'
<1>1. /\ at =< Len(octets) /\ octets[at] = "p" /\ octets' = octets /\ at' = at + 1
      /\ ~rendered /\ ~rendered' /\ at \in Nat \ {0} /\ at' - 1 = at
      /\ Len(run) \in Nat /\ run \in Seq({"p", "b"}) /\ run' = Append(run, "p")
      /\ Len(octets) \in Nat /\ \A j \in 1..Len(octets) : octets[j] \in Octet
  BY DEF KeepPrintable, Rendering, TextTypes
<1>2. Current' = Current \cup {at} /\ at \notin Current /\ Current \subseteq 1..(at - 1)
  BY <1>1, NextCurrent, CurrentIsFinite DEF Ends
<1>3. Cardinality(Printable(Current)') = Cardinality(Printable(Current)) + 1
  <2>1. Printable(Current)' = Printable(Current) \cup {at} /\ at \notin Printable(Current)
    BY <1>1, <1>2 DEF Printable
  <2> QED BY <2>1, CurrentIsFinite, FS_AddElement
<1>4. Pieces' = {j \in Current \cup {at} :
                   \/ octets[j] = "p"
                   \/ /\ octets[j] = "b" /\ j > 1 /\ octets[j - 1] = "p"
                      /\ \E m \in (j + 1)..at : octets[m] = "p"}
  BY <1>1, <1>2 DEF Pieces
<1>5. ASSUME NEW j \in Current PROVE j \in Pieces' <=> j \in Pieces \/ Pending(j)
  <2>1. at \in (j + 1)..at /\ \A m \in (j + 1)..(at - 1) : m \in (j + 1)..at
    BY <1>1, <1>2
  <2>2. ASSUME j \in Pieces \/ Pending(j) PROVE j \in Pieces'
    <3>1. CASE j \in Pieces
      BY <1>4, <2>1, <3>1 DEF Pieces
    <3>2. CASE Pending(j)
      <4>1. octets[j] = "b"
        BY <1>1, <1>2, <3>2 DEF Pending
      <4> QED BY <1>1, <1>4, <2>1, <3>2, <4>1 DEF Pending
    <3> QED BY <2>2, <3>1, <3>2
  <2>3. ASSUME j \in Pieces', j \notin Pieces PROVE Pending(j)
    <3>1. /\ octets[j] = "b" /\ j > 1 /\ octets[j - 1] = "p"
          /\ \A m \in (j + 1)..(at - 1) : octets[m] # "p"
      BY <1>4, <2>3 DEF Pieces
    <3>2. \A m \in j..(at - 1) : octets[m] \notin Ends
      BY DEF Current
    <3>3. ASSUME NEW m \in j..(at - 1) PROVE octets[m] = "b"
      <4>1. m = j \/ m \in (j + 1)..(at - 1)
        BY <1>1, <1>2
      <4>2. m \in 1..Len(octets)
        BY <1>1, <1>2
      <4>3. octets[m] \in Octet
        BY <1>1, <4>2
      <4> QED BY <3>1, <3>2, <4>1, <4>3 DEF Octet, Ends
    <3> QED BY <3>1, <3>3 DEF Pending
  <2> QED BY <2>2, <2>3
<1>6. ASSUME NEW j \in Current, Pending(j)
      PROVE  j \notin Pieces /\ \A b \in Current : Pending(b) => b = j
  <2>1. /\ \A m \in j..(at - 1) : octets[m] = "b"
        /\ j \in Nat /\ j > 1 /\ octets[j - 1] = "p"
    BY <1>2, <1>6 DEF Pending
  <2>2. j \notin Pieces
    <3>1. j \in j..(at - 1) /\ \A m \in (j + 1)..(at - 1) : m \in j..(at - 1)
      BY <1>1, <1>2
    <3> QED BY <2>1, <3>1 DEF Pieces
  <2>3. ASSUME NEW b \in Current, Pending(b) PROVE b = j
    <3>1. /\ \A m \in b..(at - 1) : octets[m] = "b"
          /\ b \in Nat /\ b > 1 /\ octets[b - 1] = "p" /\ b =< at - 1 /\ j =< at - 1
      BY <1>1, <1>2, <2>3 DEF Pending
    <3>2. ~(b < j)
      <4> SUFFICES ASSUME b < j PROVE FALSE
        OBVIOUS
      <4>1. j - 1 \in b..(at - 1)
        BY <1>1, <2>1, <3>1
      <4> QED BY <2>1, <3>1, <4>1
    <3>3. ~(j < b)
      <4> SUFFICES ASSUME j < b PROVE FALSE
        OBVIOUS
      <4>1. b - 1 \in j..(at - 1)
        BY <1>1, <2>1, <3>1
      <4> QED BY <2>1, <3>1, <4>1
    <3> QED BY <2>1, <3>1, <3>2, <3>3
  <2> QED BY <2>2, <2>3
<1>7. /\ Count({"p"}, run) = Cardinality(Printable(Current))
      /\ Len(Trimmed(run)) = Cardinality(Pieces)
      /\ EndsBlank(run) <=> \E b \in Current : Pending(b)
      /\ \A j \in 1..Len(run) : run[j] = "b" => j > 1 /\ run[j - 1] = "p"
  BY <1>1 DEF RunInv
<1>8. at \in Pieces' /\ at \notin Pieces /\ Pieces' \subseteq Current \cup {at} /\ Pieces \subseteq Current
  BY <1>1, <1>2, <1>4 DEF Pieces
<1>9. Cardinality(Pieces') = Len(run) + 1
  <2>1. Len(Trimmed(run)) = IF EndsBlank(run) THEN Len(run) - 1 ELSE Len(run)
    BY <1>1, TrimmedIsTrimmed
  <2>2. CASE EndsBlank(run)
    <3>1. PICK b \in Current : Pending(b)
      BY <1>7, <2>2
    <3>2. Pieces' = (Pieces \cup {b}) \cup {at}
      BY <1>5, <1>6, <1>8, <3>1
    <3>3. b \notin Pieces /\ at \notin Pieces \cup {b}
      BY <1>2, <1>6, <1>8, <3>1
    <3>4. IsFiniteSet(Pieces \cup {b}) /\ Cardinality(Pieces \cup {b}) = Cardinality(Pieces) + 1
      BY <3>3, CurrentIsFinite, FS_AddElement
    <3>5. Cardinality((Pieces \cup {b}) \cup {at}) = Cardinality(Pieces \cup {b}) + 1
      BY <3>3, <3>4, FS_AddElement
    <3> QED BY <1>1, <1>7, <2>1, <2>2, <3>2, <3>4, <3>5
  <2>3. CASE ~EndsBlank(run)
    <3>1. Pieces' = Pieces \cup {at}
      BY <1>5, <1>7, <1>8, <2>3
    <3>2. Cardinality(Pieces \cup {at}) = Cardinality(Pieces) + 1
      BY <1>8, CurrentIsFinite, FS_AddElement
    <3> QED BY <1>1, <1>7, <2>1, <2>3, <3>1, <3>2
  <2> QED BY <2>2, <2>3
<1> DEFINE new == Append(run, "p")
<1>10. /\ Len(new) = Len(run) + 1 /\ new[Len(run) + 1] = "p" /\ new \in Seq({"p", "b"}) /\ new # <<>>
       /\ \A j \in 1..Len(run) : new[j] = run[j]
  BY <1>1
<1>11. Count({"p"}, new) = Count({"p"}, run) + 1
  <2>1. "p" \in {"p", "b"} /\ "p" \in {"p"}
    OBVIOUS
  <2>2. Count({"p"}, new) = Count({"p"}, run) + IF "p" \in {"p"} THEN 1 ELSE 0
    BY <1>1, <2>1, CountAppend
  <2> QED BY <2>1, <2>2
<1>12. run' = new
  BY <1>1
<1> HIDE DEF new
<1>13. ~EndsBlank(new) /\ Len(Trimmed(new)) = Len(run) + 1
  <2>1. ~EndsBlank(new)
    BY <1>1, <1>10 DEF EndsBlank
  <2> QED BY <1>10, <2>1, TrimmedIsTrimmed
<1>14. \A j \in 1..Len(new) : new[j] = "b" => j > 1 /\ new[j - 1] = "p"
  <2> SUFFICES ASSUME NEW j \in 1..Len(new), new[j] = "b" PROVE j > 1 /\ new[j - 1] = "p"
    OBVIOUS
  <2>1. j \in 1..Len(run)
    BY <1>1, <1>10
  <2>2. run[j] = "b" /\ j > 1 /\ run[j - 1] = "p"
    BY <1>7, <1>10, <2>1
  <2>3. j - 1 \in 1..Len(run)
    BY <1>1, <2>1, <2>2
  <2> QED BY <1>10, <2>2, <2>3
<1>15. ~(\E b \in Current' : Pending(b)')
  <2> SUFFICES ASSUME NEW b \in Current \cup {at}, \A m \in b..at : octets[m] = "b" PROVE FALSE
    BY <1>1, <1>2 DEF Pending
  <2>1. at \in b..at
    BY <1>1, <1>2
  <2> QED BY <1>1, <2>1
<1>16. at' > 1 /\ octets'[at' - 1] = "p"
  BY <1>1
<1> QED BY <1>1, <1>3, <1>7, <1>9, <1>10, <1>11, <1>12, <1>13, <1>14, <1>15, <1>16 DEF RunInv

\* The end of a run leaves an empty one.
LEMMA RunStepEnd == ASSUME TextTypes, EndRun PROVE RunInv'
<1>1. /\ at =< Len(octets) /\ octets[at] \in Ends /\ octets' = octets /\ at' = at + 1
      /\ at \in Nat /\ at' - 1 = at /\ run' = <<>>
  BY DEF EndRun, Rendering, TextTypes, Ends
<1>2. Current' = {}
  BY <1>1, NextCurrent
<1>3. Printable(Current)' = {} /\ Pieces' = {}
  BY <1>2 DEF Printable, Pieces
<1>4. Cardinality({}) = 0
  BY FS_EmptySet
<1>5. ~EndsBlank(<<>>) /\ Trimmed(<<>>) = <<>> /\ Len(<<>>) = 0
  BY DEF EndsBlank, Trimmed
<1>6. octets'[at' - 1] # "p"
  BY <1>1 DEF Ends
<1>7. Count({"p"}, run') = Cardinality(Printable(Current)') /\ Len(Trimmed(run')) = Cardinality(Pieces')
  <2>1. Count({"p"}, <<>>) = 0
    BY CountEmpty
  <2> QED BY <1>1, <1>3, <1>4, <1>5, <2>1
<1>8. ~(\E b \in Current' : Pending(b)')
  BY <1>2
<1>9. /\ ~EndsBlank(run') /\ ~(run' # <<>> /\ ~EndsBlank(run'))
      /\ \A j \in 1..Len(run') : run'[j] = "b" => j > 1 /\ run'[j - 1] = "p"
  <2>1. 1..Len(<<>>) = {}
    BY <1>5
  <2> QED BY <1>1, <1>5, <2>1
<1> QED BY <1>6, <1>7, <1>8, <1>9 DEF RunInv
----------------------------------------------------------------------------
\* What a run that has ended adds to the line.
LEMMA CollapsedIsMeasured ==
    ASSUME TextTypes, at > Len(octets) \/ octets[at] \in Ends, NEW i \in Current
    PROVE  Collapsed(i) = Cardinality(Pieces)
<1>1. /\ at \in Nat /\ Len(octets) \in Nat /\ at =< Len(octets) + 1 /\ at >= 1
      /\ i \in 1..(at - 1) /\ i \in 1..Len(octets)
      /\ Current \subseteq 1..(at - 1) /\ Current \subseteq 1..Len(octets)
  BY CurrentIsFinite DEF TextTypes
<1>2. ASSUME NEW j \in 1..Len(octets) PROVE Together(i, j) <=> j \in Current
  <2>1. ASSUME Together(i, j) PROVE j \in Current
    <3>1. \A m \in 1..Len(octets) : (i =< m /\ m =< j) \/ (j =< m /\ m =< i) => octets[m] \notin Ends
      BY <2>1 DEF Together, Ends
    <3>2. j < at
      <4> SUFFICES ASSUME j >= at PROVE FALSE
        BY <1>1
      <4>1. at \in 1..Len(octets) /\ i =< at /\ at =< j /\ octets[at] \in Ends
        BY <1>1
      <4> QED BY <3>1, <4>1
    <3>3. ASSUME NEW m \in j..(at - 1) PROVE octets[m] \notin Ends
      <4>1. m \in 1..Len(octets) /\ (m \in i..(at - 1) \/ (j =< m /\ m =< i))
        BY <1>1
      <4> QED BY <3>1, <4>1 DEF Current
    <3>4. j \in Before
      BY <1>1, <3>2 DEF Before
    <3> QED BY <3>3, <3>4 DEF Current
  <2>2. ASSUME j \in Current PROVE Together(i, j)
    <3> SUFFICES ASSUME NEW m \in 1..Len(octets), (i =< m /\ m =< j) \/ (j =< m /\ m =< i)
                 PROVE  octets[m] \notin Ends
      BY DEF Together, Ends
    <3>1. m \in i..(at - 1) \/ m \in j..(at - 1)
      BY <1>1, <2>2
    <3> QED BY <2>2, <3>1 DEF Current
  <2> QED BY <2>1, <2>2
<1>3. ASSUME NEW j \in Current
      PROVE  (\E m \in (j + 1)..Len(octets) : octets[m] = "p" /\ Together(i, m))
                <=> \E m \in (j + 1)..(at - 1) : octets[m] = "p"
  <2>1. ASSUME NEW m \in (j + 1)..Len(octets), octets[m] = "p", Together(i, m)
        PROVE  m \in (j + 1)..(at - 1)
    <3>1. m \in 1..Len(octets)
      BY <1>1
    <3>2. m \in Current
      BY <1>2, <2>1, <3>1
    <3> QED BY <1>1, <3>2
  <2>2. ASSUME NEW m \in (j + 1)..(at - 1)
        PROVE  m \in (j + 1)..Len(octets) /\ Together(i, m)
    <3>1. /\ m \in 1..Len(octets) /\ m \in (j + 1)..Len(octets) /\ m \in 1..(at - 1)
          /\ \A n \in m..(at - 1) : n \in j..(at - 1)
      BY <1>1
    <3>2. m \in Current
      BY <3>1 DEF Current, Before
    <3> QED BY <1>2, <3>1, <3>2
  <2> QED BY <2>1, <2>2
<1> DEFINE C == {j \in 1..Len(octets) : Together(i, j) /\
                   \/ octets[j] = "p"
                   \/ /\ octets[j] = "b" /\ j > 1 /\ octets[j - 1] = "p"
                      /\ \E m \in (j + 1)..Len(octets) : octets[m] = "p" /\ Together(i, m)}
<1>4. C = Pieces
  <2>1. \A j \in C : j \in Current
    BY <1>2
  <2>2. \A j \in Pieces : j \in Current /\ j \in 1..Len(octets)
    BY <1>1 DEF Pieces
  <2>3. ASSUME NEW j \in Current PROVE j \in C <=> j \in Pieces
    <3>1. j \in 1..Len(octets) /\ Together(i, j)
      BY <1>1, <1>2
    <3>2. j \in C <=>
             \/ octets[j] = "p"
             \/ /\ octets[j] = "b" /\ j > 1 /\ octets[j - 1] = "p"
                /\ \E m \in (j + 1)..(at - 1) : octets[m] = "p"
      BY <1>3, <3>1
    <3> QED BY <3>2 DEF Pieces
  <2> HIDE DEF C
  <2> QED BY <2>1, <2>2, <2>3
<1>5. Collapsed(i) = Cardinality(C)
  BY DEF Collapsed
<1> HIDE DEF C
<1> QED BY <1>4, <1>5

\* A run that is kept is not empty.
LEMMA MinimumIsPositive == MinimumRun \in Nat \ {0}
BY TextParameters DEF MinimumRun

\* A stretch that is long enough is worth keeping, and no other.
LEMMA WorthOfRun ==
    ASSUME TextTypes, RunInv, ~rendered, at > Len(octets) \/ octets[at] \in Ends
    PROVE  /\ IsFiniteSet({j \in Worth : j < at} \ Current)
           /\ Cardinality({j \in Worth : j < at}) =
                Cardinality({j \in Worth : j < at} \ Current)
                + IF Len(Trimmed(run)) < MinimumRun THEN 0 ELSE Count({"p"}, run)
<1> DEFINE All == {j \in Worth : j < at}  Past == All \ Current
           Here == IF Len(Trimmed(run)) < MinimumRun THEN {} ELSE Printable(Current)
<1>1. /\ Len(octets) \in Nat /\ at \in Nat /\ at >= 1
      /\ Current \subseteq 1..(at - 1) /\ Current \subseteq 1..Len(octets)
      /\ IsFiniteSet(Printable(Current))
  BY CurrentIsFinite DEF TextTypes
<1>2. Count({"p"}, run) = Cardinality(Printable(Current)) /\ Len(Trimmed(run)) = Cardinality(Pieces)
  BY DEF RunInv
<1>3. IsFiniteSet(Past)
  <2>1. IsFiniteSet(1..Len(octets))
    BY <1>1, FS_Interval
  <2>2. Past \in SUBSET (1..Len(octets))
    BY DEF Worth
  <2> QED BY <2>1, <2>2, FS_Subset
<1>4. IsFiniteSet(Here) /\ Cardinality(Here) = IF Len(Trimmed(run)) < MinimumRun THEN 0 ELSE Count({"p"}, run)
  BY <1>1, <1>2, FS_EmptySet
<1>5. ASSUME NEW j \in Current PROVE j \in All <=> j \in Here
  <2>1. Collapsed(j) = Len(Trimmed(run))
    BY <1>2, CollapsedIsMeasured
  <2>2. j \in 1..Len(octets) /\ j < at
    BY <1>1
  <2>3. Len(Trimmed(run)) \in Nat /\ MinimumRun \in Nat
    BY <1>2, CurrentIsFinite, MinimumIsPositive
  <2>4. j \in All <=> octets[j] = "p" /\ Len(Trimmed(run)) >= MinimumRun
    BY <2>1, <2>2 DEF Worth
  <2> QED BY <2>3, <2>4 DEF Printable
<1>6. Here \subseteq Current
  BY DEF Printable
<1> HIDE DEF All, Here
<1>7. All = Past \cup Here /\ Past \cap Here = {}
  BY <1>5, <1>6
<1>8. Cardinality(Past \cup Here) = Cardinality(Past) + Cardinality(Here) - Cardinality(Past \cap Here)
  BY <1>3, <1>4, FS_Union
<1>9. Cardinality(Past) \in Nat /\ Cardinality(Here) \in Nat /\ Cardinality({}) = 0
  BY <1>3, <1>4, FS_CardinalityType, FS_EmptySet
<1>10. Cardinality(All) = Cardinality(Past) + Cardinality(Here)
  <2> HIDE DEF Past
  <2>1. Cardinality(All) = Cardinality(Past \cup Here) /\ Cardinality(Past \cap Here) = Cardinality({})
    BY ONLY <1>7
  <2>2. Cardinality(Past) - 0 = Cardinality(Past) /\ Cardinality(Here) - 0 = Cardinality(Here)
    BY ONLY <1>9
  <2> QED BY ONLY <1>8, <1>9, <2>1, <2>2
<1>11. Cardinality(All) = Cardinality(Past) + IF Len(Trimmed(run)) < MinimumRun THEN 0 ELSE Count({"p"}, run)
  <2> HIDE DEF Past
  <2> QED BY ONLY <1>4, <1>10
<1> QED BY <1>3, <1>11 DEF All

\* A trimmed run has no blank at its ends, or beside another.
LEMMA TrimmedIsNeat ==
    ASSUME NEW s \in Seq({"p", "b"}),
           \A j \in 1..Len(s) : s[j] = "b" => j > 1 /\ s[j - 1] = "p"
    PROVE  Neat(Trimmed(s)) /\ (Trimmed(s) # <<>> => Trimmed(s)[1] # "b")
<1> DEFINE t == Trimmed(s)
<1>1. /\ t \in Seq({"p", "b"}) /\ Len(t) = IF EndsBlank(s) THEN Len(s) - 1 ELSE Len(s)
      /\ \A j \in 1..Len(t) : j \in 1..Len(s) /\ t[j] = s[j]
  BY TrimmedIsTrimmed
<1> HIDE DEF t
<1>2. Len(s) \in Nat /\ Len(t) \in Nat
  BY <1>1
<1>3. ASSUME NEW j \in 1..Len(t), t[j] = "b" PROVE 1 < j /\ j < Len(t) /\ t[j + 1] # "b"
  <2>1. s[j] = "b" /\ j > 1 /\ j \in 1..Len(s)
    BY <1>1, <1>3
  <2>2. \A m \in 1..Len(s) : m = j + 1 => s[m] # "b"
    BY <2>1
  <2>3. j # Len(t)
    <3>1. CASE EndsBlank(s)
      <4>1. s[Len(s)] = "b" /\ Len(s) \in 1..Len(s) /\ (j = Len(t) => Len(s) = j + 1)
        BY <1>1, <1>2, <2>1, <3>1 DEF EndsBlank
      <4> QED BY <2>2, <4>1
    <3>2. CASE ~EndsBlank(s)
      <4>1. s # <<>> /\ s[Len(s)] # "b" /\ Len(t) = Len(s)
        BY <1>1, <1>2, <2>1, <3>2 DEF EndsBlank
      <4> QED BY <2>1, <4>1
    <3> QED BY <3>1, <3>2
  <2>4. j + 1 \in 1..Len(t) /\ j < Len(t)
    BY <1>2, <2>3
  <2>5. t[j + 1] # "b"
    BY <1>1, <2>2, <2>4
  <2> QED BY <2>1, <2>4, <2>5
<1>4. ASSUME t # <<>> PROVE t[1] # "b"
  <2>1. 1 \in 1..Len(t)
    BY <1>1, <1>2, <1>4
  <2> QED BY <1>3, <2>1
<1> QED BY <1>3, <1>4 DEF Neat, t

\* Two neat lines with a blank between them are one.
LEMMA JoinIsNeat ==
    ASSUME NEW s \in Seq({"p", "b"}), NEW t \in Seq({"p", "b"}), s # <<>>, t # <<>>,
           Neat(s), Neat(t), t[1] # "b"
    PROVE  /\ Append(s, "b") \o t \in Seq({"p", "b"}) /\ Neat(Append(s, "b") \o t)
           /\ Len(Append(s, "b") \o t) = Len(s) + 1 + Len(t)
           /\ Count({"p"}, Append(s, "b") \o t) = Count({"p"}, s) + Count({"p"}, t)
<1> DEFINE r == Append(s, "b")  u == r \o t  m == Len(s)  n == Len(t)
<1>1. /\ r \in Seq({"p", "b"}) /\ Len(r) = m + 1 /\ r[m + 1] = "b" /\ m \in Nat \ {0} /\ n \in Nat \ {0}
      /\ \A j \in 1..m : r[j] = s[j]
  OBVIOUS
<1>2. Count({"p"}, r) = Count({"p"}, s)
  <2>1. "b" \in {"p", "b"} /\ "b" \notin {"p"}
    OBVIOUS
  <2>2. Count({"p"}, r) = Count({"p"}, s) + IF "b" \in {"p"} THEN 1 ELSE 0
    BY <2>1, CountAppend
  <2>3. Count({"p"}, s) \in 0..Len(s)
    BY CountType
  <2> QED BY <2>1, <2>2, <2>3
<1> HIDE DEF r
<1>3. Count({"p"}, u) = Count({"p"}, s) + Count({"p"}, t)
  BY <1>1, <1>2, CountConcat
<1>4. /\ u \in Seq({"p", "b"}) /\ Len(u) = m + 1 + n
      /\ \A j \in 1..(m + 1 + n) : u[j] = IF j =< m + 1 THEN r[j] ELSE t[j - (m + 1)]
  <2>1. /\ u \in Seq({"p", "b"}) /\ Len(u) = Len(r) + Len(t)
        /\ \A j \in 1..(Len(r) + Len(t)) : u[j] = IF j =< Len(r) THEN r[j] ELSE t[j - Len(r)]
    BY <1>1, ConcatProperties
  <2>2. Len(r) = m + 1 /\ Len(t) = n
    BY <1>1
  <2> HIDE DEF u, m, n
  <2> QED BY <2>1, <2>2
<1> HIDE DEF u, m, n
<1>5. ASSUME NEW j \in 1..(m + 1 + n), u[j] = "b" PROVE 1 < j /\ j < m + 1 + n /\ u[j + 1] # "b"
  <2>1. CASE j =< m
    <3>1. j \in 1..m /\ s[j] = "b"
      BY <1>1, <1>4, <1>5, <2>1
    <3>2. 1 < j /\ j < m /\ s[j + 1] # "b"
      BY <3>1 DEF Neat, m
    <3>3. j + 1 \in 1..m /\ j + 1 \in 1..(m + 1 + n) /\ j + 1 =< m + 1
      BY <1>1, <3>1, <3>2
    <3> QED BY <1>1, <1>4, <3>2, <3>3
  <2>2. CASE j = m + 1
    <3>1. j + 1 \in 1..(m + 1 + n) /\ ~(j + 1 =< m + 1) /\ (j + 1) - (m + 1) = 1
      BY <1>1, <2>2
    <3>2. u[j + 1] = t[1]
      BY <1>4, <3>1
    <3> QED BY <1>1, <2>2, <3>2
  <2>3. CASE j > m + 1
    <3>1. PICK x \in 1..n : x = j - (m + 1)
      BY <1>1, <2>3
    <3>2. t[x] = "b"
      BY <1>1, <1>4, <1>5, <2>3, <3>1
    <3>3. 1 < x /\ x < n /\ t[x + 1] # "b"
      BY <3>2 DEF Neat, n
    <3>4. j + 1 \in 1..(m + 1 + n) /\ ~(j + 1 =< m + 1) /\ (j + 1) - (m + 1) = x + 1
      BY <1>1, <3>1, <3>3
    <3>5. u[j + 1] = t[x + 1]
      BY <1>4, <3>4
    <3> QED BY <1>1, <3>1, <3>3, <3>4, <3>5
  <2> QED BY <1>1, <2>1, <2>2, <2>3
<1> QED BY <1>3, <1>4, <1>5 DEF Neat, u, m, n, r
\* Where a run ends, what was worth keeping of it is in the line.
LEMMA FlushedIs ==
    ASSUME TextTypes, RunInv, LineInv, ~rendered
    PROVE  /\ Flushed(line, run) \in Seq({"p", "b"}) /\ Neat(Flushed(line, run))
           /\ Len(line) =< Len(Flushed(line, run))
           /\ Count({"p"}, Flushed(line, run)) =
                Count({"p"}, line)
                + IF Len(Trimmed(run)) < MinimumRun THEN 0 ELSE Count({"p"}, run)
<1> DEFINE t == Trimmed(run)
<1>1. /\ line \in Seq({"p", "b"}) /\ run \in Seq({"p", "b"}) /\ Neat(line)
      /\ \A j \in 1..Len(run) : run[j] = "b" => j > 1 /\ run[j - 1] = "p"
  BY DEF TextTypes, RunInv, LineInv
<1>2. t \in Seq({"p", "b"}) /\ Count({"p"}, t) = Count({"p"}, run) /\ Neat(t) /\ (t # <<>> => t[1] # "b")
  BY <1>1, TrimmedIsTrimmed, TrimmedIsNeat
<1>3. MinimumRun \in Nat \ {0} /\ Count({"p"}, line) \in Nat /\ Count({"p"}, run) \in Nat
  <2>1. Count({"p"}, line) \in 0..Len(line) /\ Count({"p"}, run) \in 0..Len(run)
    BY <1>1, CountType
  <2> QED BY <2>1, MinimumIsPositive
<1>4. Flushed(line, run) =
        IF Len(t) < MinimumRun THEN line
        ELSE (IF line = <<>> THEN <<>> ELSE Append(line, "b")) \o t
  BY DEF Flushed
<1> HIDE DEF t
<1>5. CASE Len(t) < MinimumRun
  BY <1>1, <1>3, <1>4, <1>5 DEF t
<1>6. CASE ~(Len(t) < MinimumRun) /\ line = <<>>
  <2>1. <<>> \o t = t /\ Len(line) = 0 /\ Len(t) >= 0
    BY <1>2, <1>6
  <2>2. Count({"p"}, line) = 0
    BY <1>6, CountEmpty
  <2>3. Flushed(line, run) = t
    BY <1>4, <1>6, <2>1
  <2> QED BY <1>2, <1>3, <1>6, <2>1, <2>2, <2>3 DEF t
<1>7. CASE ~(Len(t) < MinimumRun) /\ line # <<>>
  <2>1. t # <<>> /\ Len(line) \in Nat /\ Len(t) \in Nat
    BY <1>1, <1>2, <1>3, <1>7
  <2> DEFINE u == Append(line, "b") \o t
  <2>2. Flushed(line, run) = u
    BY <1>4, <1>7
  <2>3. /\ u \in Seq({"p", "b"}) /\ Neat(u) /\ Len(u) = Len(line) + 1 + Len(t)
        /\ Count({"p"}, u) = Count({"p"}, line) + Count({"p"}, t)
    BY <1>1, <1>2, <1>7, <2>1, JoinIsNeat
  <2> HIDE DEF u
  <2> QED BY <1>2, <1>7, <2>1, <2>2, <2>3 DEF t
<1> QED BY <1>5, <1>6, <1>7

\* Cutting and trimming the line loses nothing but what is beyond the bound.
LEMMA CutIs ==
    ASSUME NEW s \in Seq({"p", "b"}), Neat(s)
    PROVE  LET t == Trimmed(Cut(s)) IN
           /\ t \in Seq({"p", "b"}) /\ Neat(t)
           /\ Len(t) =< maxTextLength
           /\ Count({"p"}, t) =< Count({"p"}, s)
           /\ Len(t) < maxTextLength - 1 => t = s
<1> DEFINE c == Cut(s)  t == Trimmed(c)
<1>0. maxTextLength \in Nat \ {0} /\ Len(s) \in Nat
  BY TextParameters
<1>1. /\ c \in Seq({"p", "b"}) /\ Len(c) = IF Len(s) > maxTextLength THEN maxTextLength ELSE Len(s)
      /\ \A j \in 1..Len(c) : c[j] = s[j]
      /\ Count({"p"}, c) =< Count({"p"}, s)
      /\ Len(s) =< maxTextLength => c = s
  <2>1. CASE Len(s) > maxTextLength
    <3>1. maxTextLength \in 0..Len(s) /\ c = SubSeq(s, 1, maxTextLength)
      BY <1>0, <2>1 DEF Cut
    <3> HIDE DEF c
    <3>2. /\ SubSeq(s, 1, maxTextLength) \in Seq({"p", "b"}) /\ Len(SubSeq(s, 1, maxTextLength)) = maxTextLength
          /\ \A j \in 1..maxTextLength : SubSeq(s, 1, maxTextLength)[j] = s[j]
          /\ Count({"p"}, SubSeq(s, 1, maxTextLength)) =< Count({"p"}, s)
      BY <3>1, CountPrefix
    <3> QED BY <1>0, <2>1, <3>1, <3>2
  <2>2. CASE ~(Len(s) > maxTextLength)
    <3>1. c = s
      BY <2>2 DEF Cut
    <3>2. Count({"p"}, s) \in 0..Len(s)
      BY CountType
    <3> QED BY <1>0, <2>2, <3>1, <3>2
  <2> QED BY <2>1, <2>2
<1> HIDE DEF c
<1>2. /\ t \in Seq({"p", "b"}) /\ Len(t) = IF EndsBlank(c) THEN Len(c) - 1 ELSE Len(c)
      /\ \A j \in 1..Len(t) : j \in 1..Len(c) /\ t[j] = c[j]
      /\ Count({"p"}, t) = Count({"p"}, c)
  BY <1>1, TrimmedIsTrimmed
<1>3. ~EndsBlank(s)
  <2>1. s # <<>> => Len(s) \in 1..Len(s)
    BY <1>0
  <2> QED BY <1>0, <2>1 DEF Neat, EndsBlank
<1>4. ASSUME Len(t) < maxTextLength - 1 PROVE t = s
  <2>1. Len(c) \in Nat
    BY <1>1
  <2>2. c = s
    BY <1>0, <1>1, <1>2, <1>4, <2>1
  <2> QED BY <1>3, <2>2 DEF Trimmed
<1>5. Neat(t)
  <2> SUFFICES ASSUME NEW j \in 1..Len(t), t[j] = "b" PROVE 1 < j /\ j < Len(t) /\ t[j + 1] # "b"
    BY DEF Neat
  <2>0. Len(c) \in Nat /\ Len(t) \in Nat /\ Len(c) =< Len(s)
    BY <1>0, <1>1, <1>2
  <2>1. j \in 1..Len(c) /\ c[j] = "b" /\ j \in 1..Len(s) /\ s[j] = "b"
    BY <1>1, <1>2, <2>0
  <2>2. 1 < j /\ s[j + 1] # "b"
    BY <2>1 DEF Neat
  <2>3. j # Len(t)
    <3>1. CASE EndsBlank(c)
      <4>1. c[Len(c)] = "b" /\ Len(c) \in 1..Len(c) /\ Len(t) = Len(c) - 1 /\ s[Len(c)] = "b"
        BY <1>1, <1>2, <2>0, <2>1, <3>1 DEF EndsBlank
      <4>2. j = Len(t) => j + 1 = Len(c)
        BY <2>0, <4>1
      <4> QED BY <2>2, <4>1, <4>2
    <3>2. CASE ~EndsBlank(c)
      <4>1. Len(t) = Len(c) /\ c[Len(c)] # "b"
        BY <1>1, <1>2, <2>0, <2>1, <3>2 DEF EndsBlank
      <4> QED BY <2>1, <4>1
    <3> QED BY <3>1, <3>2
  <2>4. j + 1 \in 1..Len(t) /\ j < Len(t)
    BY <2>0, <2>3
  <2>5. t[j + 1] = s[j + 1]
    BY <1>1, <1>2, <2>4
  <2> QED BY <2>2, <2>4, <2>5
<1>6. Len(t) =< maxTextLength
  BY <1>0, <1>1, <1>2
<1> QED BY <1>1, <1>2, <1>4, <1>5, <1>6 DEF c
----------------------------------------------------------------------------
\* The variables of text keep their types.
LEMMA TextTypesStep == ASSUME TextTypes, RunInv, LineInv, TextNext PROVE TextTypes'
<1> USE DEF TextTypes
<1>0. at \in 1..(Len(octets) + 1) /\ Len(octets) \in Nat /\ run \in Seq({"p", "b"})
  OBVIOUS
<1>1. CASE KeepBlank
  <2>1. Append(run, "b") \in Seq({"p", "b"})
    BY <1>0
  <2> QED BY <1>0, <1>1, <2>1 DEF KeepBlank, Rendering
<1>2. CASE KeepPrintable
  <2>1. Append(run, "p") \in Seq({"p", "b"})
    BY <1>0
  <2> QED BY <1>0, <1>2, <2>1 DEF KeepPrintable, Rendering
<1>3. CASE EndRun
  <2>1. Flushed(line, run) \in Seq({"p", "b"}) /\ <<>> \in Seq({"p", "b"})
    BY <1>3, FlushedIs DEF EndRun, Rendering
  <2> QED BY <1>0, <1>3, <2>1 DEF EndRun, Rendering
<1>4. CASE EndText
  <2>1. Flushed(line, run) \in Seq({"p", "b"}) /\ Neat(Flushed(line, run)) /\ <<>> \in Seq({"p", "b"})
    BY <1>4, FlushedIs DEF EndText
  <2>2. Trimmed(Cut(Flushed(line, run))) \in Seq({"p", "b"})
    BY <2>1, CutIs
  <2> QED BY <1>0, <1>4, <2>1, <2>2 DEF EndText
<1> QED BY <1>1, <1>2, <1>3, <1>4 DEF TextNext

\* Every step of text keeps LineInv.
LEMMA LineStep == ASSUME TextTypes, RunInv, LineInv, TextNext PROVE LineInv'
<1>0. at \in Nat /\ at >= 1 /\ Worth' = Worth /\ octets' = octets /\ \A j \in Worth : j \in Nat /\ octets[j] = "p"
  <2>1. octets' = octets
    BY DEF TextNext, KeepBlank, KeepPrintable, EndRun, EndText
  <2> QED BY <2>1 DEF TextTypes, Worth, Collapsed, Together, MinimumRun
<1>1. CASE KeepBlank \/ KeepPrintable
  <2>1. /\ at =< Len(octets) /\ octets[at] \notin Ends /\ at' = at + 1 /\ line' = line /\ ~rendered
        /\ Len(line) < maxTextLength
    BY <1>1 DEF KeepBlank, KeepPrintable, Rendering, Ends
  <2>2. Current' = Current \cup {at}
    BY <1>0, <2>1, NextCurrent
  <2>3. {j \in Worth : j < at + 1} \ (Current \cup {at}) = {j \in Worth : j < at} \ Current
    BY <1>0
  <2>4. Len(line) \in Nat /\ maxTextLength \in Nat
    BY TextParameters DEF TextTypes
  <2>5. Cardinality({j \in Worth' : j < at'} \ Current') = Cardinality({j \in Worth : j < at} \ Current)
    BY <1>0, <2>1, <2>2, <2>3
  <2>6. Neat(line') /\ Count({"p"}, line') = Cardinality({j \in Worth' : j < at'} \ Current')
    BY <2>1, <2>5 DEF LineInv
  <2> QED BY <2>1, <2>4, <2>6 DEF LineInv
<1>2. CASE EndRun
  <2>1. /\ at =< Len(octets) /\ octets[at] \in Ends /\ at' = at + 1 /\ line' = Flushed(line, run) /\ ~rendered
        /\ run' = <<>>
    BY <1>2 DEF EndRun, Rendering, Ends
  <2>2. Current' = {}
    BY <1>0, <2>1, NextCurrent
  <2>3. {j \in Worth' : j < at'} \ Current' = {j \in Worth : j < at}
    <3>1. at \notin Worth
      BY <1>0, <2>1 DEF Ends
    <3> QED BY <1>0, <2>1, <2>2, <3>1
  <2>4. Cardinality({j \in Worth : j < at}) =
          Cardinality({j \in Worth : j < at} \ Current)
          + IF Len(Trimmed(run)) < MinimumRun THEN 0 ELSE Count({"p"}, run)
    BY <2>1, WorthOfRun
  <2>5. /\ Neat(Flushed(line, run))
        /\ Count({"p"}, Flushed(line, run)) =
             Count({"p"}, line) + IF Len(Trimmed(run)) < MinimumRun THEN 0 ELSE Count({"p"}, run)
    BY <2>1, FlushedIs
  <2>6. Count({"p"}, line) = Cardinality({j \in Worth : j < at} \ Current)
    BY <2>1 DEF LineInv
  <2>7. Count({"p"}, line') = Cardinality({j \in Worth' : j < at'} \ Current')
    <3>1. Count({"p"}, Flushed(line, run)) = Cardinality({j \in Worth : j < at})
      BY ONLY <2>4, <2>5, <2>6
    <3> QED BY <2>1, <2>3, <3>1
  <2>8. Neat(line')
    BY <2>1, <2>5
  <2> QED BY <2>1, <2>7, <2>8 DEF LineInv
<1>3. CASE EndText
  BY <1>3 DEF EndText, LineInv
<1> QED BY <1>1, <1>2, <1>3 DEF TextNext

\* The text is what was worth keeping, as far as it fits.
LEMMA TextEnds == ASSUME TextTypes, RunInv, LineInv, EndText PROVE TextIsOneLine'
<1> DEFINE flushed == Flushed(line, run)
<1>1. /\ ~rendered /\ (at > Len(octets) \/ Len(line) >= maxTextLength)
      /\ line' = Trimmed(Cut(flushed)) /\ octets' = octets
  BY DEF EndText
<1>2. /\ flushed \in Seq({"p", "b"}) /\ Neat(flushed) /\ Len(line) =< Len(flushed)
      /\ Count({"p"}, flushed) =
           Count({"p"}, line) + IF Len(Trimmed(run)) < MinimumRun THEN 0 ELSE Count({"p"}, run)
  BY <1>1, FlushedIs
<1> HIDE DEF flushed
<1>3. /\ line' \in Seq({"p", "b"}) /\ Neat(line')
      /\ Len(line') =< maxTextLength
      /\ Count({"p"}, line') =< Count({"p"}, flushed)
      /\ Len(line') < maxTextLength - 1 => line' = flushed
  BY <1>1, <1>2, CutIs
<1>4. IsFiniteSet(Worth) /\ Cardinality(Worth) \in Nat /\ Worth \subseteq 1..Len(octets) /\ Len(octets) \in Nat
  <2>1. Len(octets) \in Nat /\ Worth \in SUBSET (1..Len(octets))
    BY DEF TextTypes, Worth
  <2>2. IsFiniteSet(1..Len(octets))
    BY <2>1, FS_Interval
  <2> QED BY <2>1, <2>2, FS_Subset, FS_CardinalityType
<1>5. Count({"p"}, line) = Cardinality({j \in Worth : j < at} \ Current)
  BY <1>1 DEF LineInv
<1>6. ASSUME at > Len(octets) PROVE Count({"p"}, flushed) = Cardinality(Worth)
  <2>1. {j \in Worth : j < at} = Worth
    <3>1. at \in Nat
      BY <1>4 DEF TextTypes
    <3>2. \A j \in Worth : j < at
      BY <1>4, <1>6, <3>1
    <3> HIDE DEF Worth
    <3> QED BY <3>2
  <2>2. Cardinality({j \in Worth : j < at}) =
          Cardinality({j \in Worth : j < at} \ Current)
          + IF Len(Trimmed(run)) < MinimumRun THEN 0 ELSE Count({"p"}, run)
    BY <1>1, <1>6, WorthOfRun
  <2>3. Count({"p"}, flushed) = Cardinality({j \in Worth : j < at})
    BY ONLY <1>2, <1>5, <2>2
  <2> QED BY <2>1, <2>3
<1>7. ASSUME ~(at > Len(octets))
      PROVE  Count({"p"}, flushed) =< Cardinality(Worth) /\ ~(Len(line') < maxTextLength - 1)
  <2>1. run = <<>> /\ Len(line) >= maxTextLength
    BY <1>1, <1>7 DEF LineInv
  <2>2. Len(Trimmed(run)) < MinimumRun
    <3>1. Trimmed(<<>>) = <<>> /\ Len(<<>>) = 0
      BY DEF Trimmed, EndsBlank
    <3> QED BY <2>1, <3>1, MinimumIsPositive
  <2>3. ({j \in Worth : j < at} \ Current) \in SUBSET Worth
    OBVIOUS
  <2>4. Cardinality({j \in Worth : j < at} \ Current) =< Cardinality(Worth)
    BY <1>4, <2>3, FS_Subset
  <2>5. Count({"p"}, line) \in Nat
    <3>1. line \in Seq({"p", "b"})
      BY DEF TextTypes
    <3>2. Count({"p"}, line) \in 0..Len(line)
      BY <3>1, CountType
    <3> QED BY <3>1, <3>2
  <2>6. Count({"p"}, flushed) =< Cardinality(Worth)
    BY <1>2, <1>5, <2>2, <2>4, <2>5
  <2>7. ~(Len(line') < maxTextLength - 1)
    <3>1. Len(line) \in Nat /\ Len(flushed) \in Nat /\ maxTextLength \in Nat
      BY <1>2, TextParameters DEF TextTypes
    <3> QED BY <1>2, <1>3, <2>1, <3>1
  <2> QED BY <2>6, <2>7
<1>8. /\ Count({"p"}, flushed) =< Cardinality(Worth)
      /\ Len(line') < maxTextLength - 1 => Count({"p"}, flushed) = Cardinality(Worth)
  BY <1>4, <1>6, <1>7
<1>9. Worth' = Worth
  BY <1>1 DEF Worth, Collapsed, Together, MinimumRun
<1>10. Count({"p"}, line') \in Nat /\ Count({"p"}, flushed) \in Nat
  <2>1. Count({"p"}, line') \in 0..Len(line') /\ Count({"p"}, flushed) \in 0..Len(flushed)
    BY <1>2, <1>3, CountType
  <2> QED BY <1>2, <1>3, <2>1
<1>11. \A j \in 1..Len(line') : line'[j] \in {"p", "b"}
  BY <1>3
<1>12. Count({"p"}, line') =< Cardinality(Worth)
  BY <1>3, <1>4, <1>8, <1>10
<1>13. Len(line') < maxTextLength - 1 => Count({"p"}, line') = Cardinality(Worth)
  BY <1>3, <1>8
<1>14. /\ Count({"p"}, line') =< Cardinality(Worth')
       /\ Len(line') < maxTextLength - 1 => Count({"p"}, line') = Cardinality(Worth')
  BY <1>9, <1>12, <1>13
<1> QED BY <1>3, <1>11, <1>14 DEF TextIsOneLine, Neat

\* TextInv is inductive.
LEMMA TextStep == ASSUME TextInv, TextNext PROVE TextInv'
<1> USE DEF TextInv
<1>1. TextTypes' /\ LineInv'
  BY TextTypesStep, LineStep
<1>2. RunInv'
  <2>1. EndText => RunInv'
    BY DEF EndText, RunInv
  <2> QED BY <2>1, RunStepBlank, RunStepPrintable, RunStepEnd DEF TextNext
<1>3. TextIsOneLine'
  <2>1. CASE EndText
    BY <2>1, TextEnds
  <2>2. CASE KeepBlank \/ KeepPrintable \/ EndRun
    <3>1. ~rendered'
      BY <2>2 DEF KeepBlank, KeepPrintable, EndRun, Rendering
    <3> QED BY <3>1 DEF TextIsOneLine
  <2> QED BY <2>1, <2>2 DEF TextNext
<1> QED BY <1>1, <1>2, <1>3

\* text starts in TextInv, whatever the bytes.
LEMMA TextStarts == ASSUME NEW bytes \in Seq(Octet), TextInit(bytes) PROVE TextInv
<1>1. octets \in Seq(Octet) /\ at = 1 /\ run = <<>> /\ line = <<>> /\ rendered = FALSE /\ Len(octets) \in Nat
  BY DEF TextInit
<1>2. TextTypes
  <2>1. <<>> \in Seq({"p", "b"}) /\ 1 \in 1..(Len(octets) + 1)
    BY <1>1
  <2> QED BY <1>1, <2>1 DEF TextTypes
<1>3. Current = {} /\ Pieces = {} /\ Printable(Current) = {}
  BY <1>1 DEF Current, Before, Pieces, Printable
<1>4. Count({"p"}, run) = 0 /\ Count({"p"}, line) = 0 /\ Trimmed(run) = <<>> /\ ~EndsBlank(run) /\ Len(<<>>) = 0
  <2>1. Count({"p"}, <<>>) = 0
    BY CountEmpty
  <2> QED BY <1>1, <2>1 DEF Trimmed, EndsBlank
<1>5. Cardinality({}) = 0
  BY FS_EmptySet
<1>6. RunInv
  <2>1. Count({"p"}, run) = Cardinality(Printable(Current)) /\ Len(Trimmed(run)) = Cardinality(Pieces)
    BY <1>3, <1>4, <1>5
  <2>2. 1..Len(run) = {}
    BY <1>1, <1>4
  <2> QED BY <1>1, <1>3, <1>4, <2>1, <2>2 DEF RunInv
<1>7. LineInv
  <2>1. {j \in Worth : j < at} \ Current = {}
    BY <1>1 DEF Worth
  <2>2. Neat(line)
    BY <1>1, <1>4 DEF Neat
  <2> QED BY <1>1, <1>4, <1>5, <2>1, <2>2 DEF LineInv
<1>8. TextIsOneLine
  BY <1>1 DEF TextIsOneLine
<1> QED BY <1>2, <1>6, <1>7, <1>8 DEF TextInv

----------------------------------------------------------------------------
\* The name is the one of what was read, and the grab's half renders nothing.
BannerInv ==
    /\ TextInv
    /\ signature \in {None, "http", "other"} /\ tlsDetails \in BOOLEAN
    /\ port \in Ports
    /\ rendered => name = Identified

\* The invariant is what the banner promises.
LEMMA NamesAreTold == BannerInv => BannerTellsWhatWasSaid
<1> SUFFICES ASSUME BannerInv PROVE BannerTellsWhatWasSaid
  OBVIOUS
<1>1. TextIsOneLine
  BY DEF BannerInv, TextInv
<1>2. ASSUME rendered
      PROVE  /\ (signature # None /\ ~tlsDetails) => name = signature
             /\ name = "plain port" => signature = None /\ ~tlsDetails
             /\ tlsDetails => name # "http" /\ (port.tls # None => name = port.tls)
             /\ (signature = "other" /\ port.tls = None) => name = "other"
             /\ name = None <=> signature = None /\ ~tlsDetails /\ port.plain = None
             /\ (tlsDetails \/ signature # None) => name # None
  <2>1. /\ name = Identified /\ signature \in {None, "http", "other"} /\ tlsDetails \in BOOLEAN
        /\ \/ port.plain \in {"http", "plain port", None} /\ port.tls = None
           \/ port.plain \in {"tls port", None} /\ port.tls = "tls port"
    BY <1>2 DEF BannerInv, Ports
  <2> QED BY <2>1, NameParameters DEF Identified, WithTls
<1> QED BY <1>1, <1>2 DEF BannerTellsWhatWasSaid

\* A grab in this composition is one of BannerGrab, so that what is proved of those holds of it.
THEOREM GrabsAsAlone == BannerSpec => Spec
<1>1. StartGrab \/ StartBanner => Init
  BY DEF StartGrab, StartBanner
<1>2. [GrabStep \/ Render \/ Rendered]_all => [Next]_vars
  BY DEF GrabStep, Render, Rendered, all
<1> QED BY <1>1, <1>2, PTL DEF BannerSpec, Spec

\* Whatever was read, a banner's text is one line of printable ASCII within its bound that holds
\* every stretch worth keeping and nothing else, and it is named by what was said, in the clear or by
\* the handshake, before the port's convention (identify.go, text, identify and withTls).
THEOREM BannersAreTrue == BannerSpec => []BannerTellsWhatWasSaid
<1>1. StartGrab \/ StartBanner => BannerInv
  <2>1. CASE StartGrab
    <3>1. TextInit(<<>>) /\ <<>> \in Seq(Octet)
      BY <2>1 DEF StartGrab
    <3>2. TextInv /\ ~rendered
      BY <3>1, TextStarts DEF TextInit
    <3> QED BY <2>1, <3>2 DEF StartGrab, BannerInv, Ports
  <2>2. CASE StartBanner
    <3>1. PICK n \in 0..Length : \E bytes \in [1..n -> Octet] : TextInit(bytes)
      BY <2>2 DEF StartBanner
    <3>2. PICK bytes \in [1..n -> Octet] : TextInit(bytes)
      BY <3>1
    <3>3. bytes \in Seq(Octet)
      BY SeqDef
    <3>4. TextInv /\ ~rendered
      BY <3>2, <3>3, TextStarts DEF TextInit
    <3> QED BY <2>2, <3>4 DEF StartBanner, BannerInv
  <2> QED BY <2>1, <2>2
<1>2. BannerInv /\ [GrabStep \/ Render \/ Rendered]_all => BannerInv'
  <2> SUFFICES ASSUME BannerInv, [GrabStep \/ Render \/ Rendered]_all PROVE BannerInv'
    OBVIOUS
  <2>1. CASE Render
    <3>1. TextInv'
      BY <2>1, TextStep DEF Render, BannerInv
    <3>2. UNCHANGED <<port, signature, tlsDetails>> /\ (rendered' => name' = Identified)
      BY <2>1 DEF Render
    <3> QED BY <3>1, <3>2 DEF BannerInv, Identified, WithTls
  <2>2. CASE GrabStep \/ Rendered \/ UNCHANGED all
    <3>1. UNCHANGED <<textVars, nameVars>>
      BY <2>2 DEF GrabStep, Rendered, all
    <3>2. TextInv'
      BY <3>1 DEF textVars, BannerInv, TextInv, TextTypes, RunInv, LineInv, TextIsOneLine, Current,
                  Before, Printable, Pieces, Pending, Worth, Collapsed, Together, MinimumRun
    <3> QED BY <3>1, <3>2 DEF textVars, nameVars, BannerInv, Identified, WithTls
  <2> QED BY <2>1, <2>2
<1> QED BY <1>1, <1>2, NamesAreTold, PTL DEF BannerSpec

===============================================================================
