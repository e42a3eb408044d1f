------------------------------ MODULE BannerText ------------------------------
(***************************************************************************)
(* What newBanner makes of the bytes that were read (pkg/banner/identify.go *)
(* and newBanner): text walks over them octet by octet and renders them as *)
(* one line, identify names the service.                                   *)
(*                                                                         *)
(* Octets are known by what text tells apart: "p" printable, "b" a blank   *)
(* or tab, "n" a line end, "x" anything else.                              *)
(***************************************************************************)
EXTENDS Integers, Sequences, FiniteSets

CONSTANTS
    maxTextLength, binaryRunLength,
    Share           \* textualThreshold, in percent

ASSUME TextParameters ==
    maxTextLength \in Nat \ {0} /\ binaryRunLength \in Nat \ {0} /\ Share \in 0..100

VARIABLES
    octets,      \* what was read
    at,          \* the octet text is at
    run,         \* the run it is in
    line,        \* what builder holds
    rendered     \* whether text has returned line

Octet == {"p", "b", "n", "x"}

Count(S, seq) == Cardinality({j \in 1..Len(seq) : seq[j] \in S})

\* isTextual
IsTextual(seq) == seq # <<>> /\ 100 * Count({"p", "b", "n"}, seq) >= Share * Len(seq)
MinimumRun == IF IsTextual(octets) THEN 1 ELSE binaryRunLength

EndsBlank(seq) == seq # <<>> /\ seq[Len(seq)] = "b"

\* A run has no two blanks in a row, so there is one to trim at most.
Trimmed(seq) == IF EndsBlank(seq) THEN SubSeq(seq, 1, Len(seq) - 1) ELSE seq

\* flush.  Mutants: the run is measured before it is trimmed; pieces are not parted.
Untrimmed(builder, piece) ==
    IF Len(piece) < MinimumRun THEN builder
    ELSE (IF builder = <<>> THEN <<>> ELSE Append(builder, "b")) \o piece
Flushed(builder, piece) ==
    IF Len(Trimmed(piece)) < MinimumRun THEN builder
    ELSE (IF builder = <<>> THEN <<>> ELSE Append(builder, "b")) \o Trimmed(piece)

TextInit(bytes) ==
    octets = bytes /\ at = 1 /\ run = <<>> /\ line = <<>> /\ rendered = FALSE

Rendering == ~rendered /\ at =< Len(octets) /\ Len(line) < maxTextLength

KeepBlank ==
    /\ Rendering /\ octets[at] = "b"
    /\ run' = IF run # <<>> /\ ~EndsBlank(run) THEN Append(run, "b") ELSE run
    /\ at' = at + 1
    /\ UNCHANGED <<octets, line, rendered>>

KeepPrintable ==
    /\ Rendering /\ octets[at] = "p"
    /\ run' = Append(run, "p")
    /\ at' = at + 1
    /\ UNCHANGED <<octets, line, rendered>>

EndRun ==
    /\ Rendering /\ octets[at] \in {"n", "x"}
    /\ line' = Flushed(line, run) /\ run' = <<>>
    /\ at' = at + 1
    /\ UNCHANGED <<octets, rendered>>

Cut(seq) == IF Len(seq) > maxTextLength THEN SubSeq(seq, 1, maxTextLength) ELSE seq

EndText ==
    /\ ~rendered /\ (at > Len(octets) \/ Len(line) >= maxTextLength)
    /\ line' = Trimmed(Cut(Flushed(line, run))) /\ run' = <<>>
    /\ rendered' = TRUE
    /\ UNCHANGED <<octets, at>>

TextNext == KeepBlank \/ KeepPrintable \/ EndRun \/ EndText

----------------------------------------------------------------------------
\* The runs of the bytes, read off them: the stretch around a printable octet reaches as far as
\* there is no line end or foreign octet; its length is that with blanks collapsed.
Together(i, j) == \A k \in 1..Len(octets) :
    (i =< k /\ k =< j) \/ (j =< k /\ k =< i) => octets[k] \notin {"n", "x"}
Collapsed(i) == Cardinality({j \in 1..Len(octets) : Together(i, j) /\
    \/ octets[j] = "p"
    \/ /\ octets[j] = "b" /\ j > 1 /\ octets[j - 1] = "p"
       /\ \E k \in (j + 1)..Len(octets) : octets[k] = "p" /\ Together(i, k)})
Worth == {i \in 1..Len(octets) : octets[i] = "p" /\ Collapsed(i) >= MinimumRun}

\* "Banner.Text is a single line of printable ASCII, and nothing else", "mined only for the stretches
\* long enough" where it is not text (README.md, Banners): no foreign octet, no blank at either end
\* or beside another, no more than the maximum, and every octet that is worth keeping unless that
\* is reached.
TextIsOneLine ==
    rendered =>
        /\ \A j \in 1..Len(line) : line[j] \in {"p", "b"}
        /\ \A j \in 1..Len(line) : line[j] = "b" => 1 < j /\ j < Len(line) /\ line[j + 1] # "b"
        /\ Len(line) =< maxTextLength
        /\ Count({"p"}, line) =< Cardinality(Worth)
        /\ Len(line) < maxTextLength - 1 => Count({"p"}, line) = Cardinality(Worth)
===============================================================================
