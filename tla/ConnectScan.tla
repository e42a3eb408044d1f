------------------------------ MODULE ConnectScan ------------------------------
(***************************************************************************)
(* The connect scan: scanConnect and connectOpen of                        *)
(* pkg/port_scanner/connect.go, on the addresses that expandNetworks       *)
(* returned (ConnectTargets; with none of them scanConnect returns nil).   *)
(*                                                                         *)
(* The loop of scanConnect (pc) launches a goroutine per address and port, *)
(* at most Concurrency at a time; each dials (job), classifies a failure,  *)
(* or reads a banner, closes the connection and runs the callback.         *)
(***************************************************************************)
EXTENDS Integers, Sequences, FiniteSets

CONSTANTS
    Addresses,    \* what expandNetworks returned, in its order; overlaps repeat an address
    Ports,        \* the ports, as they were given: a repeated one is dialled again
    Open,         \* the endpoints that accept a connection
    LocalFaults,  \* the endpoints a dial to which may fail before it reaches the network
    Concurrency,  \* config.Concurrency, the capacity of the semaphore
    Banner,       \* config.Banner
    Cancelable,   \* whether the caller may cancel the context
    HasDeadline,  \* whether the context has a deadline
    None          \* no outcome

NProbes == Len(Addresses) * Len(Ports)
Jobs == 1..NProbes
EndpointOf(j) == <<Addresses[1 + ((j - 1) \div Len(Ports))], Ports[1 + ((j - 1) % Len(Ports))]>>

\* ScanNetworks rejects an empty list of ports, validateConfig a Concurrency below 1.
ASSUME Parameters ==
    /\ Len(Addresses) \in Nat \ {0} /\ Len(Ports) \in Nat \ {0}
    /\ Concurrency \in Nat \ {0}
    /\ Banner \in BOOLEAN /\ Cancelable \in BOOLEAN /\ HasDeadline \in BOOLEAN
    /\ None \notin {"nil", "ctx", "noProbes"}

VARIABLES
    pc,             \* where scanConnect is: "loop", "drain", "check", "tally", "returned"
    next,           \* the probe the two nested loops are at
    semaphore,      \* how many values the channel holds
    waitGroup,      \* the WaitGroup's counter
    localFailures,  \* the atomic counter
    job,            \* where each goroutine is
    dialled,        \* what its dial returned: "open", or the kind of its error
    delivered,      \* the goroutines whose callback has returned
    expired,        \* whether the context's deadline has passed
    ctxDone,        \* whether the context has ended: ctx.Err() # nil
    outcome         \* what scanConnect returned

jobVars == <<semaphore, waitGroup, localFailures, job, dialled, delivered>>
ctxVars == <<expired, ctxDone>>
vars == <<pc, next, outcome, jobVars, ctxVars>>

Init ==
    /\ pc = "loop" /\ next = 1
    /\ semaphore = 0 /\ waitGroup = 0 /\ localFailures = 0
    /\ job = [j \in Jobs |-> "unlaunched"]
    /\ dialled = [j \in Jobs |-> "pending"]
    /\ delivered = {}
    /\ expired = FALSE /\ ctxDone = FALSE
    /\ outcome = None

----------------------------------------------------------------------------
\* The loop of scanConnect.  Its select may choose a free slot although the context has ended.

\* Mutant: a channel of one value more.
HasRoomForOneMore == semaphore =< Concurrency
HasRoom == semaphore < Concurrency

Launch ==
    /\ pc = "loop" /\ next =< NProbes
    /\ HasRoom
    /\ semaphore' = semaphore + 1
    /\ waitGroup' = waitGroup + 1
    /\ job' = [job EXCEPT ![next] = "dial"]
    /\ next' = next + 1
    /\ UNCHANGED <<pc, localFailures, dialled, delivered, outcome, ctxVars>>

StopLaunching ==
    /\ pc = "loop" /\ next =< NProbes
    /\ ctxDone
    /\ pc' = "drain"
    /\ UNCHANGED <<next, outcome, jobVars, ctxVars>>

\* Mutant: the early return does not wait.
DrainSkipped == TRUE
Drained == waitGroup = 0

ReturnEarly ==
    /\ pc = "drain" /\ pc' = "returned"
    /\ Drained
    /\ outcome' = "ctx"
    /\ UNCHANGED <<next, jobVars, ctxVars>>

WaitForJobs ==
    /\ pc = "loop" /\ pc' = "check"
    /\ next > NProbes /\ waitGroup = 0
    /\ UNCHANGED <<next, outcome, jobVars, ctxVars>>

\* Mutant: the context is only looked at in the loop.
NeverOvertaken == FALSE
Overtaken == ctxDone

\* ctx.Err() after the wait.
CheckContext ==
    /\ pc = "check"
    /\ IF Overtaken THEN pc' = "returned" /\ outcome' = "ctx"
                    ELSE pc' = "tally" /\ UNCHANGED outcome
    /\ UNCHANGED <<next, jobVars, ctxVars>>

\* Mutant: one local failure is enough.
AnyFailed == localFailures > 0
AllFailed == localFailures = NProbes

Tally ==
    /\ pc = "tally" /\ pc' = "returned"
    /\ outcome' = IF AllFailed THEN "noProbes" ELSE "nil"
    /\ UNCHANGED <<next, jobVars, ctxVars>>

----------------------------------------------------------------------------
\* The goroutine of probe j.

Step(j, from, to) == job[j] = from /\ job' = [job EXCEPT ![j] = to]

\* connectOpen.  The outcome of a dial is the network's, except that it can be cut by the
\* context and that an endpoint that is not Open refuses, or stays silent for ConnectTimeout.
\* Silence may meet any endpoint.
DialResult(j, result) ==
    /\ Step(j, "dial", IF result # "open" THEN "classify" ELSE IF Banner THEN "banner" ELSE "close")
    /\ dialled' = [dialled EXCEPT ![j] = result]
    /\ UNCHANGED <<pc, next, semaphore, waitGroup, localFailures, delivered, outcome, ctxVars>>

DialOpens(j) == EndpointOf(j) \in Open /\ DialResult(j, "open")
DialRefused(j) == DialResult(j, "shut")
DialFailsLocally(j) == EndpointOf(j) \in LocalFaults /\ DialResult(j, "unasked")

\* The context ends a dial; its deadline is the dial's own too, whether or not the context has
\* noticed.
DialCut(j) == ctxDone /\ DialResult(j, "cut")
DialExpires(j) == expired /\ DialResult(j, "late")

FailedLocally(j) == dialled[j] = "unasked"

\* isLocalFailure, and the counter.
Classify(j) ==
    /\ Step(j, "classify", "release")
    /\ localFailures' = IF FailedLocally(j) THEN localFailures + 1 ELSE localFailures
    /\ UNCHANGED <<pc, next, semaphore, waitGroup, dialled, delivered, outcome, ctxVars>>

\* banner.Grab, on the connection of the dial, returns; what it read is part of the result.
GrabBanner(j) ==
    /\ Step(j, "banner", "close")
    /\ UNCHANGED <<pc, next, semaphore, waitGroup, localFailures, dialled, delivered, outcome,
                   ctxVars>>

CloseConnection(j) ==
    /\ Step(j, "close", "callback")
    /\ UNCHANGED <<pc, next, semaphore, waitGroup, localFailures, dialled, delivered, outcome,
                   ctxVars>>

CallbackReturns(j) ==
    /\ Step(j, "callback", "release")
    /\ delivered' = delivered \cup {j}
    /\ UNCHANGED <<pc, next, semaphore, waitGroup, localFailures, dialled, outcome, ctxVars>>

\* Mutant: the semaphore is only released after a success.
SemaphoreAfterSuccess(j) == IF j \in delivered THEN semaphore - 1 ELSE semaphore
\* Mutant: it is released where the dial failed, and again by the deferred call.
SemaphoreAfterTwice(j) == IF j \in delivered THEN semaphore - 1 ELSE semaphore - 2
SemaphoreAfter(j) == semaphore - 1

\* The deferred calls, the last one first.
Release(j) ==
    /\ Step(j, "release", "done")
    /\ semaphore' = SemaphoreAfter(j)
    /\ UNCHANGED <<pc, next, waitGroup, localFailures, dialled, delivered, outcome, ctxVars>>

Done(j) ==
    /\ Step(j, "done", "ended")
    /\ waitGroup' = waitGroup - 1
    /\ UNCHANGED <<pc, next, semaphore, localFailures, dialled, delivered, outcome, ctxVars>>

----------------------------------------------------------------------------
\* The caller's context.  The timer that ends a context with a deadline may run late.

DeadlinePasses ==
    /\ HasDeadline /\ ~expired
    /\ expired' = TRUE
    /\ UNCHANGED <<pc, next, outcome, jobVars, ctxDone>>

ContextEnds ==
    /\ Cancelable \/ expired
    /\ ~ctxDone /\ ctxDone' = TRUE
    /\ UNCHANGED <<pc, next, outcome, jobVars, expired>>

Finished == pc = "returned" /\ UNCHANGED vars

----------------------------------------------------------------------------
Scan == Launch \/ StopLaunching \/ ReturnEarly \/ WaitForJobs \/ CheckContext \/ Tally

Dial(j) == DialOpens(j) \/ DialRefused(j) \/ DialFailsLocally(j) \/ DialCut(j) \/ DialExpires(j)

Job(j) ==
    \/ Dial(j) \/ Classify(j) \/ GrabBanner(j) \/ CloseConnection(j) \/ CallbackReturns(j)
    \/ Release(j) \/ Done(j)

Next ==
    \/ Scan
    \/ \E j \in Jobs : Job(j)
    \/ DeadlinePasses \/ ContextEnds
    \/ Finished

Spec == Init /\ [][Next]_vars

\* The loop and the goroutines are scheduled; a dial is bounded by ConnectTimeout, a banner grab
\* by its own timeouts, and the callback returns.
Fairness == WF_vars(Scan) /\ \A j \in Jobs : WF_vars(Job(j))
FairSpec == Spec /\ Fairness

----------------------------------------------------------------------------
Locations == {"unlaunched", "dial", "classify", "banner", "close", "callback", "release", "done",
              "ended"}

\* Every variable has its type.
TypeOK ==
    /\ pc \in {"loop", "drain", "check", "tally", "returned"}
    /\ next \in 1..(NProbes + 1)
    /\ semaphore \in 0..Concurrency /\ waitGroup \in Nat /\ localFailures \in Nat
    /\ job \in [Jobs -> Locations]
    /\ dialled \in [Jobs -> {"pending", "open", "shut", "unasked", "cut", "late"}]
    /\ delivered \subseteq Jobs
    /\ expired \in BOOLEAN /\ ctxDone \in BOOLEAN
    /\ outcome \in {None, "nil", "ctx", "noProbes"}

\* The goroutines that hold a file descriptor: a socket that connects, or a connection.
Connecting == {j \in Jobs : job[j] \in {"dial", "banner", "close"}}

\* A scan has no more than Concurrency sockets open, those it reads banners from included.
SocketsBounded == Cardinality(Connecting) =< Concurrency

\* By the time scanConnect returns, on either path, every goroutine it started is past its
\* callback and its last step: none is left to use the callback or hold a connection.
NothingOutlivesTheScan ==
    pc = "returned" => \A j \in Jobs : job[j] \in {"unlaunched", "ended"}

\* The promise of the scan to its caller, with a probe for each goroutine.
Contract == INSTANCE ScanContract WITH Probes <- Jobs, fate <- dialled

\* connect.go:101-105 and 110-112: a scan cut short, or one that asked nothing, "reports every
\* remaining port closed ... the one wrong answer nothing downstream can catch".  What scanConnect
\* returns says which it was, but for the dials a deadline ended before the context had noticed, and
\* every open port found has been delivered by then and none is after.
KeepsContract == Contract!Spec

\* The same without the exception: when nil is returned no dial was ended by the context or its
\* deadline.  It does not hold of a context with a deadline.
NilMeansUncut == outcome = "nil" => \A j \in Jobs : dialled[j] \notin {"cut", "late"}

\* scanConnect returns, whether the ports answer, refuse or stay silent and however many dials
\* share the semaphore.
ScanReturns == <>(pc = "returned")
===============================================================================
