----------------------------- MODULE ConnectScanInv -----------------------------
(***************************************************************************)
(* The inductive invariant of ConnectScan, from which ConnectScanProofs    *)
(* derives its safety properties for every value of the constants.         *)
(***************************************************************************)
EXTENDS ConnectScan

\* The goroutines that hold a value of the semaphore, those the WaitGroup counts, and those
\* that have counted a local failure.
Holding == {j \in Jobs : job[j] \in {"dial", "classify", "banner", "close", "callback", "release"}}
Counted == {j \in Jobs : job[j] \notin {"unlaunched", "ended"}}
Failed == {j \in Jobs : dialled[j] = "unasked" /\ job[j] # "classify"}

\* The three counters count what they are meant to, and the channel is never over its capacity.
CounterInv ==
    /\ semaphore = Cardinality(Holding) /\ semaphore =< Concurrency
    /\ waitGroup = Cardinality(Counted)
    /\ localFailures = Cardinality(Failed)

\* What a goroutine knows at each of its steps.
JobInv ==
    \A j \in Jobs :
        /\ job[j] = "unlaunched" <=> j >= next
        /\ dialled[j] = "pending" <=> job[j] \in {"unlaunched", "dial"}
        /\ job[j] \in {"banner", "close", "callback"} => dialled[j] = "open"
        /\ job[j] = "classify" => dialled[j] \notin {"pending", "open"}
        /\ j \in delivered <=> dialled[j] = "open" /\ job[j] \in {"release", "done", "ended"}

\* Past the wait there is nothing left to wait for.
WaitInv ==
    /\ pc \in {"check", "tally"} => \A j \in Jobs : job[j] = "ended"
    /\ pc = "returned" => \A j \in Jobs : job[j] \in {"unlaunched", "ended"}
    /\ outcome = None <=> pc # "returned"

\* Past the last check of the context no dial was cut by it, and none is late without a deadline.
CutInv ==
    /\ (\E j \in Jobs : dialled[j] = "cut") => ctxDone /\ pc # "tally" /\ outcome # "nil"
    /\ ~HasDeadline => ~expired /\ \A j \in Jobs : dialled[j] # "late"

IInv == TypeOK /\ CounterInv /\ JobInv /\ WaitInv /\ CutInv
=================================================================================
