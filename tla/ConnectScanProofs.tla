--------------------------- MODULE ConnectScanProofs ---------------------------
(***************************************************************************)
(* What ConnectScan guarantees for any number of addresses, ports and      *)
(* goroutines.  IInv is proved inductive, one lemma per conjunct, and the  *)
(* theorems follow from it; the last ones are that a scan implements       *)
(* ScanContract and, if its context has no deadline, that a nil return is  *)
(* a scan no dial of which was cut.                                        *)
(***************************************************************************)
EXTENDS ConnectScanInv, FiniteSetTheorems, TLAPS

USE DEF vars, jobVars, ctxVars

\* The probes are finitely many, and there is one.
LEMMA JobsFinite ==
    /\ NProbes \in Nat \ {0} /\ IsFiniteSet(Jobs) /\ Cardinality(Jobs) = NProbes
    /\ \A S \in SUBSET Jobs : IsFiniteSet(S) /\ Cardinality(S) \in Nat
<1>1. NProbes \in Nat \ {0}
  <2>1. \A m, n \in Nat \ {0} : m * n \in Nat \ {0}
    OBVIOUS
  <2> QED BY <2>1, Parameters DEF NProbes
<1>2. IsFiniteSet(Jobs) /\ Cardinality(Jobs) = NProbes
  BY <1>1, FS_Interval DEF Jobs
<1>3. ASSUME NEW S \in SUBSET Jobs PROVE IsFiniteSet(S) /\ Cardinality(S) \in Nat
  BY <1>2, FS_Subset, FS_CardinalityType
<1> QED BY <1>1, <1>2, <1>3

\* Every step of a goroutine moves it from one location to another.
LEMMA JobMoves ==
    ASSUME NEW j \in Jobs, Job(j)
    PROVE  \E to \in Locations : job' = [job EXCEPT ![j] = to]
BY DEF Job, Dial, DialOpens, DialRefused, DialFailsLocally, DialCut, DialExpires, DialResult, Classify,
       GrabBanner, CloseConnection, CallbackReturns, Release, Done, Step, Locations

\* What a goroutine knows stays true: only its own steps change it.
LEMMA JobStep == ASSUME IInv, [Next]_vars PROVE JobInv'
<1> USE DEF IInv
<1>1. CASE Launch
  BY <1>1, JobsFinite DEF Launch, JobInv, TypeOK, Jobs
<1>2. CASE \E j \in Jobs : Job(j)
  <2> PICK j \in Jobs : Job(j)
    BY <1>2
  <2>1. CASE Dial(j)
    BY <2>1 DEF Dial, DialOpens, DialRefused, DialFailsLocally, DialCut, DialExpires, DialResult, Step, JobInv,
       TypeOK
  <2>2. CASE ~Dial(j)
    BY <2>2 DEF Job, Classify, GrabBanner, CloseConnection, CallbackReturns, Release, Done, Step,
       JobInv, TypeOK
  <2> QED BY <2>1, <2>2
<1>3. CASE StopLaunching \/ ReturnEarly \/ WaitForJobs \/ CheckContext \/ Tally
           \/ DeadlinePasses \/ ContextEnds \/ Finished \/ UNCHANGED vars
  BY <1>3 DEF StopLaunching, ReturnEarly, WaitForJobs, CheckContext, Tally, DeadlinePasses,
     ContextEnds, Finished, JobInv, TypeOK
<1> QED BY <1>1, <1>2, <1>3 DEF Next, Scan

\* The counters change with the sets they count.
LEMMA CounterStep == ASSUME IInv, [Next]_vars PROVE CounterInv'
<1> USE DEF IInv
<1>0. /\ Holding \in SUBSET Jobs /\ Counted \in SUBSET Jobs /\ Failed \in SUBSET Jobs
      /\ IsFiniteSet(Holding) /\ IsFiniteSet(Counted) /\ IsFiniteSet(Failed)
  BY JobsFinite DEF Holding, Counted, Failed
<1>1. CASE Launch
  <2>1. next \in Jobs /\ job[next] = "unlaunched" /\ dialled[next] = "pending"
    BY <1>1, JobsFinite DEF Launch, Jobs, JobInv, TypeOK
  <2>2. Holding' = Holding \cup {next} /\ next \notin Holding
    BY <1>1, <2>1 DEF Launch, Holding, TypeOK
  <2>3. Counted' = Counted \cup {next} /\ next \notin Counted
    BY <1>1, <2>1 DEF Launch, Counted, TypeOK
  <2>4. Failed' = Failed
    BY <1>1, <2>1 DEF Launch, Failed, TypeOK
  <2>5. Cardinality(Holding') = Cardinality(Holding) + 1
    BY <1>0, <2>2, FS_AddElement
  <2>6. Cardinality(Counted') = Cardinality(Counted) + 1
    BY <1>0, <2>3, FS_AddElement
  <2> QED BY <1>1, <2>4, <2>5, <2>6, Parameters DEF Launch, HasRoom, CounterInv, TypeOK
<1>2. ASSUME NEW j \in Jobs, Job(j) PROVE CounterInv'
  <2> USE <1>2
  <2>1. CASE Dial(j) \/ GrabBanner(j) \/ CloseConnection(j) \/ CallbackReturns(j)
    <3>1. Holding' = Holding /\ Counted' = Counted
      BY <2>1 DEF Dial, DialOpens, DialRefused, DialFailsLocally, DialCut, DialExpires, DialResult, GrabBanner,
         CloseConnection, CallbackReturns, Step, Holding, Counted, TypeOK
    <3>2. Failed' = Failed
      BY <2>1 DEF Dial, DialOpens, DialRefused, DialFailsLocally, DialCut, DialExpires, DialResult, GrabBanner,
         CloseConnection, CallbackReturns, Step, Failed, JobInv, TypeOK
    <3> QED BY <2>1, <3>1, <3>2 DEF Dial, DialOpens, DialRefused, DialFailsLocally, DialCut,
               DialExpires, DialResult, GrabBanner, CloseConnection, CallbackReturns, CounterInv
  <2>2. CASE Classify(j)
    <3>1. Holding' = Holding /\ Counted' = Counted
      BY <2>2 DEF Classify, Step, Holding, Counted, TypeOK
    <3>2. j \notin Failed /\ Failed' = IF FailedLocally(j) THEN Failed \cup {j} ELSE Failed
      BY <2>2 DEF Classify, Step, Failed, FailedLocally, TypeOK
    <3>3. Cardinality(Failed \cup {j}) = Cardinality(Failed) + 1
      BY <1>0, <3>2, FS_AddElement
    <3> QED BY <2>2, <3>1, <3>2, <3>3 DEF Classify, CounterInv
  <2>3. CASE Release(j)
    <3>1. Holding' = Holding \ {j} /\ j \in Holding /\ Counted' = Counted /\ Failed' = Failed
      BY <2>3 DEF Release, Step, Holding, Counted, Failed, TypeOK
    <3>2. Cardinality(Holding') = Cardinality(Holding) - 1
      BY <1>0, <3>1, FS_RemoveElement
    <3> QED BY <2>3, <3>1, <3>2, Parameters DEF Release, SemaphoreAfter, CounterInv, TypeOK
  <2>4. CASE Done(j)
    <3>1. Counted' = Counted \ {j} /\ j \in Counted /\ Holding' = Holding /\ Failed' = Failed
      BY <2>4 DEF Done, Step, Holding, Counted, Failed, TypeOK
    <3>2. Cardinality(Counted') = Cardinality(Counted) - 1
      BY <1>0, <3>1, FS_RemoveElement
    <3> QED BY <2>4, <3>1, <3>2 DEF Done, CounterInv, TypeOK
  <2> QED BY <2>1, <2>2, <2>3, <2>4 DEF Job
<1>3. CASE StopLaunching \/ ReturnEarly \/ WaitForJobs \/ CheckContext \/ Tally
           \/ DeadlinePasses \/ ContextEnds \/ Finished \/ UNCHANGED vars
  BY <1>3 DEF StopLaunching, ReturnEarly, WaitForJobs, CheckContext, Tally, DeadlinePasses,
     ContextEnds, Finished, CounterInv, Holding, Counted, Failed
<1> QED BY <1>1, <1>2, <1>3 DEF Next, Scan

\* Every step keeps every variable's type.
LEMMA TypeStep == ASSUME IInv, [Next]_vars PROVE TypeOK'
<1> USE DEF IInv
<1>0. semaphore' \in 0..Concurrency /\ waitGroup' \in Nat
  <2>1. CounterInv'
    BY CounterStep
  <2>2. Holding' \in SUBSET Jobs /\ Counted' \in SUBSET Jobs
    BY DEF Holding, Counted
  <2> QED BY <2>1, <2>2, JobsFinite, Parameters DEF CounterInv
<1>1. CASE Scan
  BY <1>0, <1>1, JobsFinite DEF Scan, Launch, StopLaunching, ReturnEarly, WaitForJobs, CheckContext,
     Tally, TypeOK, Locations
<1>2. CASE \E j \in Jobs : Job(j)
  <2> PICK j \in Jobs : Job(j)
    BY <1>2
  <2>1. job' \in [Jobs -> Locations]
    BY JobMoves DEF TypeOK
  <2>2. CASE Dial(j)
    BY <1>0, <2>1, <2>2 DEF Dial, DialOpens, DialRefused, DialFailsLocally, DialCut, DialExpires, DialResult,
       TypeOK
  <2>3. CASE ~Dial(j)
    BY <1>0, <2>1, <2>3 DEF Job, Classify, GrabBanner, CloseConnection, CallbackReturns, Release,
       Done, TypeOK
  <2> QED BY <2>2, <2>3
<1>3. CASE DeadlinePasses \/ ContextEnds \/ Finished \/ UNCHANGED vars
  BY <1>0, <1>3 DEF DeadlinePasses, ContextEnds, Finished, TypeOK
<1> QED BY <1>1, <1>2, <1>3 DEF Next

\* A WaitGroup at zero has nobody left to count.
LEMMA ZeroMeansEnded ==
    ASSUME IInv, waitGroup = 0
    PROVE  \A j \in Jobs : job[j] \in {"unlaunched", "ended"}
<1>1. Counted \in SUBSET Jobs /\ Cardinality(Counted) = 0
  BY DEF IInv, CounterInv, Counted
<1>2. Counted = {}
  BY <1>1, JobsFinite, FS_EmptySet
<1> QED BY <1>2 DEF Counted

\* After the wait nothing moves but the loop.
LEMMA WaitStep == ASSUME IInv, [Next]_vars PROVE WaitInv'
<1> USE DEF IInv
<1>1. CASE Launch \/ StopLaunching \/ DeadlinePasses \/ ContextEnds \/ Finished \/ UNCHANGED vars
  BY <1>1 DEF Launch, StopLaunching, DeadlinePasses, ContextEnds, Finished, WaitInv
<1>2. CASE ReturnEarly
  BY <1>2, ZeroMeansEnded, Parameters DEF ReturnEarly, Drained, WaitInv
<1>3. CASE WaitForJobs
  <2>1. \A j \in Jobs : job[j] # "unlaunched"
    BY <1>3, JobsFinite DEF WaitForJobs, JobInv, TypeOK, Jobs
  <2> QED BY <1>3, <2>1, ZeroMeansEnded DEF WaitForJobs, WaitInv
<1>4. CASE CheckContext \/ Tally
  BY <1>4, Parameters DEF CheckContext, Tally, WaitInv
<1>5. CASE \E j \in Jobs : Job(j)
  <2> PICK j \in Jobs : Job(j)
    BY <1>5
  <2>1. job[j] \notin {"unlaunched", "ended"}
    BY DEF Job, Dial, DialOpens, DialRefused, DialFailsLocally, DialCut, DialExpires, DialResult, Classify,
       GrabBanner, CloseConnection, CallbackReturns, Release, Done, Step
  <2>2. UNCHANGED <<pc, outcome>>
    BY DEF Job, Dial, DialOpens, DialRefused, DialFailsLocally, DialCut, DialExpires, DialResult, Classify,
       GrabBanner, CloseConnection, CallbackReturns, Release, Done
  <2> QED BY <2>1, <2>2 DEF WaitInv
<1> QED BY <1>1, <1>2, <1>3, <1>4, <1>5 DEF Next, Scan

\* A cut dial leaves a context that stays ended, and is seen by the check after the wait.
LEMMA CutStep == ASSUME IInv, [Next]_vars PROVE CutInv'
<1> USE DEF IInv
<1>0. /\ ctxDone => ctxDone'
      /\ ~HasDeadline => ~expired /\ ~expired'
  BY DEF CutInv, Next, Scan, Launch, StopLaunching, ReturnEarly, WaitForJobs, CheckContext, Tally,
     Job, Dial, DialOpens, DialRefused, DialFailsLocally, DialCut, DialExpires, DialResult,
     Classify, GrabBanner, CloseConnection, CallbackReturns, Release, Done, DeadlinePasses,
     ContextEnds, Finished
<1>1. CASE Scan
  <2>1. dialled' = dialled
    BY <1>1 DEF Scan, Launch, StopLaunching, ReturnEarly, WaitForJobs, CheckContext, Tally
  <2>2. CASE CheckContext \/ Tally
    BY <1>0, <2>1, <2>2 DEF CheckContext, Overtaken, Tally, CutInv
  <2>3. CASE Launch \/ StopLaunching \/ ReturnEarly \/ WaitForJobs
    BY <1>0, <2>1, <2>3 DEF Launch, StopLaunching, ReturnEarly, WaitForJobs, CutInv
  <2> QED BY <1>1, <2>2, <2>3 DEF Scan
<1>2. CASE \E j \in Jobs : Job(j)
  <2> PICK j \in Jobs : Job(j)
    BY <1>2
  <2>1. pc \notin {"tally", "returned"} /\ UNCHANGED <<pc, outcome>>
    BY DEF Job, Dial, DialOpens, DialRefused, DialFailsLocally, DialCut, DialExpires, DialResult,
       Classify, GrabBanner, CloseConnection, CallbackReturns, Release, Done, Step, WaitInv
  <2>2. CASE Dial(j)
    <3>1. outcome' # "nil"
      BY <2>1, Parameters DEF WaitInv
    <3>2. (dialled'[j] = "cut" => ctxDone') /\ (dialled'[j] = "late" => expired)
      BY <1>0, <2>2 DEF Dial, DialOpens, DialRefused, DialFailsLocally, DialCut, DialExpires,
         DialResult, TypeOK
    <3>3. \A i \in Jobs \ {j} : dialled'[i] = dialled[i]
      BY <2>2 DEF Dial, DialOpens, DialRefused, DialFailsLocally, DialCut, DialExpires, DialResult,
         TypeOK
    <3> QED BY <1>0, <2>1, <3>1, <3>2, <3>3 DEF CutInv
  <2>3. CASE ~Dial(j)
    <3>1. dialled' = dialled
      BY <2>3 DEF Job, Classify, GrabBanner, CloseConnection, CallbackReturns, Release, Done
    <3> QED BY <1>0, <2>1, <3>1 DEF CutInv
  <2> QED BY <2>2, <2>3
<1>3. CASE DeadlinePasses \/ ContextEnds \/ Finished \/ UNCHANGED vars
  BY <1>0, <1>3 DEF DeadlinePasses, ContextEnds, Finished, CutInv
<1> QED BY <1>1, <1>2, <1>3 DEF Next

\* The invariant holds at first.
LEMMA InitInv == Init => IInv
<1> SUFFICES ASSUME Init PROVE IInv
  OBVIOUS
<1> USE DEF Init
<1>1. TypeOK
  <2>1. 1 \in 1..(NProbes + 1)
    BY JobsFinite
  <2>2. job \in [Jobs -> Locations]
    BY DEF Locations
  <2>3. dialled \in [Jobs -> {"pending", "open", "shut", "unasked", "cut", "late"}]
    OBVIOUS
  <2>4. expired \in BOOLEAN /\ ctxDone \in BOOLEAN
    OBVIOUS
  <2>5. outcome \in {None, "nil", "ctx", "noProbes"} /\ delivered \subseteq Jobs
    OBVIOUS
  <2>6. next \in 1..(NProbes + 1) /\ pc \in {"loop", "drain", "check", "tally", "returned"}
    BY <2>1
  <2>7. semaphore \in 0..Concurrency /\ waitGroup \in Nat /\ localFailures \in Nat
    BY Parameters
  <2> HIDE DEF Init
  <2> QED BY <2>2, <2>3, <2>4, <2>5, <2>6, <2>7 DEF TypeOK
<1>2. Holding = {} /\ Counted = {} /\ Failed = {}
  BY DEF Holding, Counted, Failed
<1>3. CounterInv
  BY <1>2, FS_EmptySet, Parameters DEF CounterInv
<1>4. JobInv /\ WaitInv /\ CutInv
  BY DEF JobInv, WaitInv, CutInv, Jobs
<1> QED BY <1>1, <1>3, <1>4 DEF IInv

\* The invariant holds in every reachable state.
THEOREM Invariant == Spec => []IInv
<1>1. IInv /\ [Next]_vars => IInv'
  BY TypeStep, CounterStep, JobStep, WaitStep, CutStep DEF IInv
<1> QED BY InitInv, <1>1, PTL DEF Spec

\* Every variable keeps its type, for every value of the constants.
THEOREM TypeCorrect == Spec => []TypeOK
<1>1. IInv => TypeOK
  BY DEF IInv
<1> QED BY Invariant, <1>1, PTL

\* No more than Concurrency sockets are open at once, whatever the dials do: the semaphore of
\* scanConnect (connect.go:48, 58, 67).
THEOREM SocketsAreBounded == Spec => []SocketsBounded
<1>1. IInv => SocketsBounded
  <2> SUFFICES ASSUME IInv PROVE SocketsBounded
    OBVIOUS
  <2>1. Holding \in SUBSET Jobs /\ Connecting \in SUBSET Holding
    BY DEF Holding, Connecting
  <2>2. Cardinality(Connecting) =< Cardinality(Holding)
    BY <2>1, JobsFinite, FS_Subset
  <2>3. Cardinality(Connecting) \in Nat /\ Cardinality(Holding) \in Nat
    BY <2>1, JobsFinite
  <2> QED BY <2>2, <2>3, Parameters DEF IInv, CounterInv, SocketsBounded
<1> QED BY Invariant, <1>1, PTL

\* When scanConnect has returned, every goroutine it launched has ended.
THEOREM ReturnsLast == Spec => []NothingOutlivesTheScan
<1>1. IInv => NothingOutlivesTheScan
  BY DEF IInv, WaitInv, NothingOutlivesTheScan
<1> QED BY Invariant, <1>1, PTL

\* What scanConnect returns is what the contract lets a scan return: nil only when every dial was
\* decided and one of them by the network, ErrNoProbesSent only when none was.
LEMMA ReturnKeepsContract ==
    ASSUME IInv, ReturnEarly \/ CheckContext \/ Tally
    PROVE  [Contract!Next]_(Contract!vars)
<1> USE DEF IInv, Contract!vars, Contract!Next, Contract!Return, Contract!OpenPorts
<1>1. outcome = None /\ UNCHANGED <<dialled, delivered>>
  BY DEF ReturnEarly, CheckContext, Tally, WaitInv
<1>2. CASE pc' # "returned"
  BY <1>1, <1>2 DEF ReturnEarly, CheckContext, Tally
<1>3. CASE pc' = "returned"
  <2>1. \A j \in Jobs : job[j] \in {"unlaunched", "ended"}
    BY <1>3, ZeroMeansEnded DEF ReturnEarly, Drained, CheckContext, Tally, WaitInv
  <2>2. delivered = {j \in Jobs : dialled[j] = "open"}
    BY <2>1 DEF JobInv, TypeOK
  <2>3. CASE outcome' = "ctx"
    BY <1>1, <2>2, <2>3 DEF Contract!ReturnContext
  <2>4. CASE outcome' # "ctx"
    <3>1. Tally /\ outcome' = IF AllFailed THEN "noProbes" ELSE "nil"
      BY <1>3, <2>4 DEF ReturnEarly, CheckContext, Tally
    <3>2. \A j \in Jobs : dialled[j] \in {"open", "shut", "unasked", "late"}
      BY <3>1 DEF Tally, WaitInv, JobInv, CutInv, TypeOK
    <3>3. Failed = {j \in Jobs : dialled[j] = "unasked"} /\ Failed \in SUBSET Jobs
      BY <2>1 DEF Failed
    <3>4. AllFailed <=> Failed = Jobs
      BY <3>3, JobsFinite, FS_Subset DEF AllFailed, CounterInv
    <3>5. CASE AllFailed
      <4>1. \A j \in Jobs : dialled[j] = "unasked"
        BY <3>3, <3>4, <3>5
      <4> QED BY <1>1, <2>2, <3>1, <3>5, <4>1 DEF Contract!ReturnNoProbes
    <3>6. CASE ~AllFailed
      <4>1. \E j \in Jobs : dialled[j] # "unasked"
        BY <3>3, <3>4, <3>6
      <4> QED BY <1>1, <2>2, <3>1, <3>2, <3>6, <4>1 DEF Contract!ReturnNil
    <3> QED BY <3>5, <3>6
  <2> QED BY <2>3, <2>4
<1> QED BY <1>2, <1>3

\* Every other step decides a probe, delivers a result, or is none of the contract's business.
LEMMA StepKeepsContract ==
    ASSUME IInv, [Next]_vars
    PROVE  [Contract!Next]_(Contract!vars)
<1> USE DEF IInv, Contract!vars
<1>1. CASE ReturnEarly \/ CheckContext \/ Tally
  BY <1>1, ReturnKeepsContract
<1>2. CASE Launch \/ StopLaunching \/ WaitForJobs \/ DeadlinePasses \/ ContextEnds \/ Finished
           \/ UNCHANGED vars
  BY <1>2 DEF Launch, StopLaunching, WaitForJobs, DeadlinePasses, ContextEnds, Finished
<1>3. CASE \E j \in Jobs : Job(j)
  <2> PICK j \in Jobs : Job(j)
    BY <1>3
  <2>1. CASE Dial(j)
    <3>0. expired => HasDeadline
      BY DEF CutInv
    <3>1. PICK f \in Contract!Fates : DialResult(j, f)
      <4>1. CASE DialExpires(j)
        BY <3>0, <4>1 DEF DialExpires, Contract!Fates
      <4>2. CASE ~DialExpires(j)
        BY <2>1, <4>2 DEF Dial, DialOpens, DialRefused, DialFailsLocally, DialCut, Contract!Fates
      <4> QED BY <4>1, <4>2
    <3>2. dialled[j] = "pending" /\ outcome = None
      BY <3>1 DEF DialResult, Step, JobInv, WaitInv
    <3>3. Contract!Decide(j, f)
      BY <3>1, <3>2 DEF DialResult, Contract!Decide
    <3> QED BY <3>3 DEF Contract!Next
  <2>2. CASE CallbackReturns(j)
    <3>1. dialled[j] = "open" /\ j \notin delivered /\ outcome = None
      BY <2>2 DEF CallbackReturns, Step, JobInv, WaitInv
    <3>2. Contract!Deliver(j)
      BY <2>2, <3>1 DEF CallbackReturns, Contract!Deliver, Contract!OpenPorts
    <3> QED BY <3>2 DEF Contract!Next
  <2>3. CASE Classify(j) \/ GrabBanner(j) \/ CloseConnection(j) \/ Release(j) \/ Done(j)
    BY <2>3 DEF Classify, GrabBanner, CloseConnection, Release, Done
  <2> QED BY <2>1, <2>2, <2>3 DEF Job
<1> QED BY <1>1, <1>2, <1>3 DEF Next, Scan

\* A connect scan keeps the promise of a scan to its caller, for any number of addresses, ports
\* and goroutines and any mixture of answers, local failures and cancellation.
THEOREM Implements == Spec => KeepsContract
<1>1. Init => Contract!Init
  BY DEF Init, Contract!Init
<1>2. IInv /\ [Next]_vars => [Contract!Next]_(Contract!vars)
  BY StepKeepsContract
<1> QED BY Invariant, <1>1, <1>2, PTL DEF Spec, KeepsContract, Contract!Spec

\* Without a deadline a nil return is a scan no dial of which was ended by the context: the check
\* after the wait (connect.go:101-108) is enough.
THEOREM UncutWithoutDeadline == ASSUME ~HasDeadline PROVE Spec => []NilMeansUncut
<1>1. IInv => NilMeansUncut
  BY DEF IInv, CutInv, NilMeansUncut
<1> QED BY Invariant, <1>1, PTL

================================================================================
