----------------------------- MODULE MCSynScan -----------------------------
(***************************************************************************)
(* Instances of SynScan for TLC.                                           *)
(***************************************************************************)
EXTENDS SynScanInv, TLC

CONSTANTS t1, t2, t3, e1, e2, stranger, a, b

OneTarget == {t1}
OneEndpoint == t1 :> e1

TwoTargets == {t1, t2}
DistinctEndpoints == (t1 :> e1) @@ (t2 :> e2)

\* Two overlapping networks number the endpoint e1 twice.
OverlappingEndpoints == (t1 :> e1) @@ (t2 :> e1)

MCEndpoints == {e1, e2, stranger}

\* With base 2 of 3 numbers: a stranger's SYN/ACKs that name slots 0 and 1, and one of e1's
\* that names slot 2.
MCNoise == {[from |-> stranger, ack |-> 0], [from |-> stranger, ack |-> 1], [from |-> e1, ack |-> 2]}

SourceSymmetry == Permutations({a, b})
============================================================================
