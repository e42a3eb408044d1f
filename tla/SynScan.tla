------------------------------ MODULE SynScan ------------------------------
(***************************************************************************)
(* The probe/reply loop of a SYN scan: Scan, sendProbes, sendWithRetries,  *)
(* readReplies, waitFor and consumeReply of pkg/port_scanner/scanner.go.   *)
(*                                                                         *)
(* The goroutines are the one that runs Scan (pc), a reader per packet     *)
(* source and scan (rpc), the timers of time.AfterFunc (timer), the body   *)
(* of each probe's sync.OnceFunc (hold) and the callbacks (delivered).  A  *)
(* Scanner runs NScans scans, one after the other; the readers, timers and *)
(* replies of a scan live on while the next one runs.  The network is the  *)
(* set of SYNs that went out: a reply to any of them may be read by any    *)
(* reader at any time, any number of times, in any order, or never.        *)
(***************************************************************************)
EXTENDS Integers, Sequences, FiniteSets

CONSTANTS
    NScans,        \* how often Scan is called on the one Scanner
    Targets,       \* the numbers of the (address, port) pairs of the target space
    Endpoints,     \* the (address, port) pairs there are
    EndpointOf,    \* the pair a number stands for; overlapping networks repeat it
    Open,          \* the endpoints that answer a SYN with a SYN/ACK
    Noise,         \* SYN/ACKs on the network that answer no probe
    Sources,       \* the packet sources, one reader each
    Failing,       \* the sources whose reads may fail
    Ending,        \* the sources whose reads may report io.EOF
    Unroutable,    \* the targets for which resolving a source address may fail
    SendFaults,    \* how sending may fail: "transient", "permanent"
    Cancelable,    \* whether the caller may end a scan's context
    Concurrency,   \* config.Concurrency, the number of slots
    SendAttempts,  \* config.SendAttempts
    SeqMod,        \* the number of sequence numbers (2^32)
    Bases,         \* the values the random sequence base may take
    None           \* no probe, no slot, no frame, no outcome

Scans == 1..NScans
Slots == 0..(Concurrency - 1)
SeqNumbers == 0..(SeqMod - 1)
Probe == Scans \X Targets
Reader == Scans \X Sources
Reply == [from : Endpoints, ack : SeqNumbers]

\* What Scan joins: sendProbes' error, how many readers' errors, the context's error.
Outcome == [send : BOOLEAN, readers : Nat, ctx : BOOLEAN]

\* What newTargetSpace (no empty space) and validateConfig (the bounds of Concurrency and
\* SendAttempts) let through.
ASSUME Parameters ==
    /\ NScans \in Nat \ {0}
    /\ Targets # {} /\ EndpointOf \in [Targets -> Endpoints]
    /\ Open \subseteq Endpoints /\ Noise \subseteq Reply
    /\ IsFiniteSet(Sources) /\ Failing \subseteq Sources /\ Ending \subseteq Sources
    /\ Unroutable \subseteq Targets /\ SendFaults \subseteq {"transient", "permanent"}
    /\ Concurrency \in Nat \ {0} /\ SendAttempts \in Nat \ {0}
    /\ SeqMod \in Nat /\ Concurrency =< SeqMod /\ Bases \subseteq SeqNumbers
    /\ None \notin Probe \cup Slots \cup Reply \cup Outcome

VARIABLES
    \* The Scanner and the goroutine that runs Scan.
    scan,       \* the number of the scan that runs, or ran last
    pc,         \* where Scan is; "idle" between scans
    todo,       \* the targets sendProbes has not visited
    cur,        \* the probe sendProbes is at, or None
    attempt,    \* the attempt sendWithRetries is at
    sendErr,    \* whether sendProbes returned ErrNoProbesSent
    lingered,   \* whether Scan waited out the timeout after the last probe
    \* Per scan.
    slots,      \* the array it assigned to scanner.slots: each slot's probe, or None
    base,       \* what it assigned to scanner.sequenceBase
    free,       \* freeSlots: the channel of free slot numbers
    live,       \* liveReaders
    errs,       \* the number of errors in the channel readerErrors
    ctxDone,    \* the scans whose caller's context has ended
    cancelled,  \* the scans whose scanCtx was cancelled by Scan or a reader
    outcome,    \* what Scan returned, or None
    \* Per probe.
    slotOf,     \* the slot taken for it, or None
    hold,       \* its OnceFunc: "held", "cleared" the slot, "released" it
    timer,      \* its time.AfterFunc: "unset", "armed", "fired"
    answered,   \* the probes whose answered flag is set
    wire,       \* the SYNs that went out: [probe, seq]
    results,    \* the endpoints its callbacks were started with
    delivered,  \* how many of its callbacks have returned
    \* Per reader.
    rpc,        \* where readReplies is
    frame,      \* the reply it has decoded, or None
    index,      \* the slot the reply names, or None
    match,      \* the probe it loaded from that slot, or None
    \* The packet sources.
    closed      \* those the caller has closed

sendVars   == <<todo, cur, attempt, sendErr, lingered>>
probeVars  == <<slotOf, hold, timer, answered, wire>>
faultVars  == <<live, errs, ctxDone, cancelled>>
resultVars == <<results, delivered>>
readerVars == <<rpc, frame, index, match>>
\* What no step of sendProbes changes, what no step of a reader does, and all but pc.
aroundSend == <<scan, base, sendErr, lingered, answered, faultVars, resultVars, readerVars,
                outcome, closed>>
aroundRead == <<scan, base, pc, sendVars, free, slotOf, timer, wire, delivered, ctxDone,
                outcome, closed>>
allButPc == <<scan, slots, base, sendVars, free, faultVars, outcome, probeVars, resultVars,
              readerVars, closed>>
vars == <<pc, allButPc>>

----------------------------------------------------------------------------
\* The end of scanCtx: cancelled itself, or its parent has ended.
ScanDone(k) == k \in ctxDone \cup cancelled

EndpointOfProbe(p) == EndpointOf[p[2]]

\* What a goroutine of scan k may find in scanner.slots and scanner.sequenceBase: what its own
\* scan assigned or, since a later Scan assigns both again without synchronising with the timers
\* and readers that are left of k, what one of those did.
Seen(k) == k..scan

\* uint32 arithmetic: the number a probe is given, the SYN/ACK that answers it, and the slot
\* consumeReply reads off a SYN/ACK with the base of scan k.
SequenceNumber(slot) == (base[scan] + slot) % SeqMod
Answering(syn) == [from |-> EndpointOfProbe(syn.probe), ack |-> (syn.seq + 1) % SeqMod]
SlotOfReply(reply, k) == (reply.ack - 1 - base[k]) % SeqMod

\* The SYN/ACKs a read may return.
Arriving == Noise \cup {Answering(syn) : syn \in {w \in wire : EndpointOfProbe(w.probe) \in Open}}

\* The counter sent of sendProbes is not 0: every probe sent has its timer set.
Sent == \E t \in Targets : timer[<<scan, t>>] # "unset"

\* Mutant: a release without the OnceFunc.
AnyCall(p) == TRUE
FirstCall(p) == hold[p] = "held"

\* Mutants: the slot is not cleared; Store(nil) for CompareAndSwap(outstanding, nil).
SlotsKept(p, k) == slots
SlotsWithout(p, k) == [slots EXCEPT ![k][slotOf[p]] = None]
SlotsCleared(p, k) == [slots EXCEPT ![k][slotOf[p]] = IF @ = p THEN None ELSE @]

\* probe.release.  The first call runs the body of the OnceFunc: it clears the slot, if that
\* still holds this very probe, and hands it back (HandBack).  A later call changes nothing.
\* Any call returns once hold is "released".
CallRelease(p) ==
    \/ /\ FirstCall(p)
       /\ hold' = [hold EXCEPT ![p] = "cleared"]
       /\ \E k \in Seen(p[1]) : slots' = SlotsCleared(p, k)
    \/ ~FirstCall(p) /\ UNCHANGED <<hold, slots>>

\* The send on the buffered channel freeSlots, which blocks while it is full.
HandBack(p) ==
    /\ hold[p] = "cleared"
    /\ Len(free[p[1]]) < Concurrency
    /\ hold' = [hold EXCEPT ![p] = "released"]
    /\ free' = [free EXCEPT ![p[1]] = Append(@, slotOf[p])]
    /\ UNCHANGED <<pc, slots, todo, cur, attempt, slotOf, timer, wire, aroundSend>>

----------------------------------------------------------------------------
Init ==
    /\ scan = 0 /\ pc = "idle"
    /\ slots = [k \in Scans |-> [s \in Slots |-> None]] /\ base = [k \in Scans |-> 0]
    /\ todo = {} /\ cur = None /\ attempt = 0 /\ sendErr = FALSE /\ lingered = FALSE
    /\ free = [k \in Scans |-> <<>>]
    /\ live = [k \in Scans |-> 0] /\ errs = [k \in Scans |-> 0]
    /\ ctxDone = {} /\ cancelled = {}
    /\ outcome = [k \in Scans |-> None]
    /\ slotOf = [p \in Probe |-> None] /\ hold = [p \in Probe |-> "held"]
    /\ timer = [p \in Probe |-> "unset"]
    /\ answered = {} /\ wire = {}
    /\ results = [p \in Probe |-> <<>>] /\ delivered = [p \in Probe |-> 0]
    /\ rpc = [r \in Reader |-> "unstarted"] /\ frame = [r \in Reader |-> None]
    /\ index = [r \in Reader |-> None] /\ match = [r \in Reader |-> None]
    /\ closed = {}

\* Scan up to the call of sendProbes: new slots, a random base, a full pool, and the readers
\* started.  A call that is rejected (a scan in progress, bad targets, a family without a socket,
\* an ended context) changes no state.
StartScan(b) ==
    /\ pc = "idle" /\ pc' = "loop"
    /\ scan < NScans /\ scan' = scan + 1
    /\ base' = [base EXCEPT ![scan + 1] = b]
    /\ free' = [free EXCEPT ![scan + 1] = [i \in 1..Concurrency |-> i - 1]]
    /\ live' = [live EXCEPT ![scan + 1] = Cardinality(Sources)]
    /\ rpc' = [r \in Reader |-> IF r[1] = scan + 1 THEN "check" ELSE rpc[r]]
    /\ todo' = Targets /\ sendErr' = FALSE /\ lingered' = FALSE
    /\ UNCHANGED <<slots, cur, attempt, errs, ctxDone, cancelled, probeVars, resultVars,
                   frame, index, match, outcome, closed>>

----------------------------------------------------------------------------
\* sendProbes and sendWithRetries.

\* The context check at the head of the loop, which an exhausted space never reaches.
StopSending ==
    /\ pc = "loop" /\ pc' = "linger"
    /\ todo # {} /\ ScanDone(scan)
    /\ UNCHANGED allButPc

\* No source address for the target: it is skipped.
SkipTarget(t) ==
    /\ pc = "loop"
    /\ t \in todo \cap Unroutable /\ ~ScanDone(scan)
    /\ todo' = todo \ {t}
    /\ UNCHANGED <<pc, slots, cur, attempt, slotOf, hold, timer, wire, free, aroundSend>>

\* The shuffle visits each target once; in which order is left open.
TakeTarget(t) ==
    /\ pc = "loop" /\ pc' = "acquire"
    /\ t \in todo /\ ~ScanDone(scan)
    /\ todo' = todo \ {t}
    /\ cur' = <<scan, t>>
    /\ UNCHANGED <<slots, attempt, slotOf, hold, timer, wire, free, aroundSend>>

\* The two cases of the select: a free slot, or the end of the context.
Acquire ==
    /\ pc = "acquire" /\ pc' = "install"
    /\ free[scan] # <<>>
    /\ slotOf' = [slotOf EXCEPT ![cur] = Head(free[scan])]
    /\ free' = [free EXCEPT ![scan] = Tail(@)]
    /\ UNCHANGED <<slots, todo, cur, attempt, hold, timer, wire, aroundSend>>

StopAcquiring ==
    /\ pc = "acquire" /\ pc' = "linger"
    /\ ScanDone(scan)
    /\ cur' = None
    /\ UNCHANGED <<slots, todo, attempt, slotOf, hold, timer, wire, free, aroundSend>>

\* scanner.slots[slot].Store(outstanding)
Install ==
    /\ pc = "install" /\ pc' = "send"
    /\ slots' = [slots EXCEPT ![scan][slotOf[cur]] = cur]
    /\ attempt' = 1
    /\ UNCHANGED <<todo, cur, slotOf, hold, timer, wire, free, aroundSend>>

SendSucceeds ==
    /\ pc = "send" /\ pc' = "arm"
    /\ wire' = wire \cup {[probe |-> cur, seq |-> SequenceNumber(slotOf[cur])]}
    /\ UNCHANGED <<slots, todo, cur, attempt, slotOf, hold, timer, free, aroundSend>>

\* A failure is final at the last attempt, and when trying again cannot help.
SendFails(fault) ==
    /\ pc = "send"
    /\ pc' = IF fault = "permanent" \/ attempt >= SendAttempts THEN "discard" ELSE "wait"
    /\ UNCHANGED allButPc

RetrySend ==
    /\ pc = "wait" /\ pc' = "send"
    /\ attempt' = attempt + 1
    /\ UNCHANGED <<slots, todo, cur, slotOf, hold, timer, wire, free, aroundSend>>

StopRetrying ==
    /\ pc = "wait" /\ pc' = "discard"
    /\ ScanDone(scan)
    /\ UNCHANGED allButPc

\* outstanding.release() of a probe that could not be sent: the call, and its return.
Discard ==
    /\ pc = "discard" /\ pc' = "discarded"
    /\ CallRelease(cur)
    /\ UNCHANGED <<todo, cur, attempt, slotOf, timer, wire, free, aroundSend>>

Discarded ==
    /\ pc = "discarded" /\ pc' = "loop"
    /\ hold[cur] = "released"
    /\ cur' = None
    /\ UNCHANGED <<slots, todo, attempt, slotOf, hold, timer, wire, free, aroundSend>>

\* Mutant: no timer is set.
TimerUnset == timer
TimerSet == [timer EXCEPT ![cur] = "armed"]

\* sent++ and time.AfterFunc(timeout, outstanding.release)
Arm ==
    /\ pc = "arm" /\ pc' = "loop"
    /\ timer' = TimerSet
    /\ cur' = None
    /\ UNCHANGED <<slots, todo, attempt, slotOf, hold, wire, free, aroundSend>>

\* The space is exhausted; not one probe sent is ErrNoProbesSent, unless the context ended.
FinishSending ==
    /\ pc = "loop" /\ pc' = "linger"
    /\ todo = {}
    /\ sendErr' = (~Sent /\ ~ScanDone(scan))
    /\ UNCHANGED <<scan, slots, base, todo, cur, attempt, lingered, free, faultVars, probeVars,
                   resultVars, readerVars, outcome, closed>>

\* The goroutine of a probe's timer.  It outlives the scan.
TimerFires(p) ==
    /\ timer[p] = "armed"
    /\ timer' = [timer EXCEPT ![p] = "fired"]
    /\ CallRelease(p)
    /\ UNCHANGED <<pc, todo, cur, attempt, slotOf, wire, free, aroundSend>>

----------------------------------------------------------------------------
\* The end of Scan.

\* The wait for late replies runs out, or ends early (or never starts) with the context.
Linger ==
    /\ pc = "linger" /\ pc' = "cancel"
    /\ ~sendErr
    /\ lingered' = TRUE
    /\ UNCHANGED <<scan, slots, base, todo, cur, attempt, sendErr, free, faultVars, probeVars,
                   resultVars, readerVars, outcome, closed>>

StopLingering ==
    /\ pc = "linger" /\ pc' = "cancel"
    /\ sendErr \/ ScanDone(scan)
    /\ UNCHANGED allButPc

Cancel ==
    /\ pc = "cancel" /\ pc' = "grace"
    /\ cancelled' = cancelled \cup {scan}
    /\ UNCHANGED <<scan, slots, base, sendVars, free, live, errs, ctxDone, probeVars, resultVars,
                   readerVars, outcome, closed>>

\* Mutant: readers.Wait() without a grace period.
AllEnded(graceOver) == \A s \in Sources : rpc[<<scan, s>>] = "ended"
ReadersAwaited(graceOver) == graceOver \/ AllEnded(graceOver)

\* waitFor: the readers of this scan have ended, or the grace period is over.
WaitForReaders(graceOver) ==
    /\ pc = "grace" /\ pc' = "callbacks"
    /\ ReadersAwaited(graceOver)
    /\ UNCHANGED allButPc

\* callbacks.Wait: the WaitGroup is the Scanner's, and counts the callbacks of every scan.
WaitForCallbacks ==
    /\ pc = "callbacks" /\ pc' = "collect"
    /\ \A p \in Probe : delivered[p] = Len(results[p])
    /\ UNCHANGED allButPc

\* Mutants: one failed source fails the scan; the error of the context is not joined.
AnyReaderLost == errs[scan] > 0
NoContextError == FALSE
AllReadersLost == Sources # {} /\ live[scan] = 0
ContextError == scan \in ctxDone

\* The errors that are joined; none of them is the nil return.
NilOutcome == [send |-> FALSE, readers |-> 0, ctx |-> FALSE]

Return ==
    /\ pc = "collect" /\ pc' = "idle"
    /\ outcome' = [outcome EXCEPT ![scan] =
                     [send    |-> sendErr,
                      readers |-> IF AllReadersLost THEN errs[scan] ELSE 0,
                      ctx     |-> ContextError]]
    /\ errs' = IF AllReadersLost THEN [errs EXCEPT ![scan] = 0] ELSE errs
    /\ UNCHANGED <<scan, slots, base, sendVars, free, live, ctxDone, cancelled, probeVars,
                   resultVars, readerVars, closed>>

----------------------------------------------------------------------------
\* readReplies and consumeReply, for the reader r of scan r[1] and source r[2].

\* A reader goes on to another step with what it has in hand, or drops that first.
Step(r, from, to) == rpc[r] = from /\ rpc' = [rpc EXCEPT ![r] = to]
Keep(r, from, to) == Step(r, from, to) /\ UNCHANGED <<frame, index, match>>
Drop(r, from, to) ==
    /\ Step(r, from, to)
    /\ frame' = [frame EXCEPT ![r] = None]
    /\ index' = [index EXCEPT ![r] = None]
    /\ match' = [match EXCEPT ![r] = None]
readOnly == <<aroundRead, slots, live, errs, cancelled, answered, hold, results>>

\* The loop condition, before each read.
CheckContext(r) ==
    /\ Keep(r, "check", IF ScanDone(r[1]) THEN "ended" ELSE "read")
    /\ UNCHANGED readOnly

\* ReadPacketData returns a SYN/ACK that decodeReply accepts, ...
ReadReply(r, reply) ==
    /\ Step(r, "read", "recheck")
    /\ r[2] \notin closed
    /\ frame' = [frame EXCEPT ![r] = reply]
    /\ UNCHANGED <<index, match, readOnly>>

\* ... or a frame that is no reply, ...
ReadOther(r) ==
    /\ Keep(r, "read", "check")
    /\ r[2] \notin closed
    /\ UNCHANGED readOnly

\* Mutant: closing a source does not wake its reader.
AtEof(r) == r[2] \in Ending
Exhausted(r) == r[2] \in Ending \cup closed

\* ... or io.EOF, or the error of a source that Closed() reports closed: no failure.
ReadEnds(r) ==
    /\ Keep(r, "read", "ended")
    /\ Exhausted(r)
    /\ UNCHANGED readOnly

\* ... or any other error.
ReadFails(r) ==
    /\ Keep(r, "read", "failed")
    /\ r[2] \in Failing \ closed
    /\ UNCHANGED readOnly

\* readerErrors <- err, on a channel with room for one error per source.
ReportFailure(r) ==
    /\ Keep(r, "failed", "count")
    /\ errs[r[1]] < Cardinality(Sources)
    /\ errs' = [errs EXCEPT ![r[1]] = @ + 1]
    /\ UNCHANGED <<aroundRead, slots, live, cancelled, answered, hold, results>>

\* liveReaders.Add(-1), and cancel() by the one that takes it to 0.  Nobody else can tell
\* the two apart: Scan reads the counter only after it has called cancel itself.
CountFailure(r) ==
    /\ Keep(r, "count", "ended")
    /\ live' = [live EXCEPT ![r[1]] = @ - 1]
    /\ cancelled' = IF live[r[1]] = 1 THEN cancelled \cup {r[1]} ELSE cancelled
    /\ UNCHANGED <<aroundRead, slots, errs, answered, hold, results>>

\* Mutant: the context is not checked again.
NotOvertaken(r) == FALSE
Overtaken(r) == ScanDone(r[1])

\* The context is checked again: the scan may have ended during the read.
RecheckContext(r) ==
    /\ IF Overtaken(r) THEN Drop(r, "recheck", "ended") ELSE Keep(r, "recheck", "slot")
    /\ UNCHANGED readOnly

\* Mutant: a bound that is off by one.
SlotOrNext(i) == i =< Concurrency
NamesSlot(i) == i \in Slots

FindSlot(r) ==
    /\ rpc[r] = "slot"
    /\ \E k \in Seen(r[1]) :
        LET slot == SlotOfReply(frame[r], k) IN
        IF NamesSlot(slot)
        THEN /\ Step(r, "slot", "load")
             /\ index' = [index EXCEPT ![r] = slot]
             /\ UNCHANGED <<frame, match>>
        ELSE Drop(r, "slot", "check")
    /\ UNCHANGED readOnly

\* Mutant: the reply's address and port are not compared with the probe's.
MatchesAny(outstanding, reply) == outstanding # None
Matches(outstanding, reply) == outstanding # None /\ EndpointOfProbe(outstanding) = reply.from

\* Load the slot and compare the probe in it, which never changes, with the reply.
LoadProbe(r) ==
    /\ rpc[r] = "load"
    /\ \E k \in Seen(r[1]) :
        LET outstanding == slots[k][index[r]] IN
        IF Matches(outstanding, frame[r])
        THEN /\ Step(r, "load", "answer")
             /\ match' = [match EXCEPT ![r] = outstanding]
             /\ UNCHANGED <<frame, index>>
        ELSE Drop(r, "load", "check")
    /\ UNCHANGED readOnly

\* Mutant: answered is stored without being tested.
NeverAnswered(p) == FALSE
AlreadyAnswered(p) == p \in answered

\* answered.CompareAndSwap(false, true)
Answer(r) ==
    /\ IF AlreadyAnswered(match[r])
       THEN Drop(r, "answer", "check")
       ELSE Keep(r, "answer", "release")
    /\ answered' = answered \cup {match[r]}
    /\ UNCHANGED <<aroundRead, slots, live, errs, cancelled, hold, results>>

ReleaseAnswered(r) ==
    /\ Keep(r, "release", "dispatch")
    /\ CallRelease(match[r])
    /\ UNCHANGED <<aroundRead, live, errs, cancelled, answered, results>>

\* Mutant: a match that the end of the scan overtakes is dropped.
ReportedInTime(r) == IF ScanDone(r[1]) THEN <<>> ELSE <<frame[r].from>>
Reported(r) == <<frame[r].from>>

\* release has returned; callbacks.Go starts the callback with the reply's endpoint.
Dispatch(r) ==
    /\ Drop(r, "dispatch", "check")
    /\ hold[match[r]] = "released"
    /\ results' = [results EXCEPT ![match[r]] = @ \o Reported(r)]
    /\ UNCHANGED <<aroundRead, slots, live, errs, cancelled, answered, hold>>

\* The callback (and the banner grab before it) returns.
CallbackReturns(p) ==
    /\ delivered[p] < Len(results[p])
    /\ delivered' = [delivered EXCEPT ![p] = @ + 1]
    /\ UNCHANGED <<pc, scan, slots, base, sendVars, free, faultVars, probeVars, results,
                   readerVars, outcome, closed>>

----------------------------------------------------------------------------
\* The caller: ends a scan's context, or closes a source once Scan has returned.

CallerCancels ==
    /\ Cancelable /\ pc # "idle" /\ scan \notin ctxDone
    /\ ctxDone' = ctxDone \cup {scan}
    /\ UNCHANGED <<pc, scan, slots, base, sendVars, free, live, errs, cancelled, probeVars,
                   resultVars, readerVars, outcome, closed>>

CloseSource(s) ==
    /\ pc = "idle" /\ scan > 0 /\ s \notin closed
    /\ closed' = closed \cup {s}
    /\ UNCHANGED <<pc, scan, slots, base, sendVars, free, faultVars, probeVars, resultVars,
                   readerVars, outcome>>

\* All scans have returned; what is left of them may still move, or not.
Finished == pc = "idle" /\ scan = NScans /\ UNCHANGED vars

----------------------------------------------------------------------------
SendProbes ==
    \/ StopSending \/ Acquire \/ StopAcquiring \/ Install \/ SendSucceeds
    \/ RetrySend \/ StopRetrying \/ Discard \/ Discarded \/ Arm \/ FinishSending
    \/ \E t \in Targets : SkipTarget(t) \/ TakeTarget(t)
    \/ \E fault \in SendFaults : SendFails(fault)

EndScan ==
    \/ Linger \/ StopLingering \/ Cancel \/ WaitForCallbacks \/ Return
    \/ \E graceOver \in BOOLEAN : WaitForReaders(graceOver)

ConsumeReply(r) ==
    \/ CheckContext(r) \/ RecheckContext(r) \/ FindSlot(r) \/ LoadProbe(r) \/ Answer(r)
    \/ ReleaseAnswered(r) \/ Dispatch(r) \/ ReportFailure(r) \/ CountFailure(r)

Read(r) ==
    \/ ReadOther(r) \/ ReadEnds(r) \/ ReadFails(r)
    \/ \E reply \in Arriving : ReadReply(r, reply)

Next ==
    \/ \E b \in Bases : StartScan(b)
    \/ SendProbes
    \/ EndScan
    \/ \E p \in Probe : TimerFires(p) \/ HandBack(p) \/ CallbackReturns(p)
    \/ \E r \in Reader : ConsumeReply(r) \/ Read(r)
    \/ CallerCancels
    \/ \E s \in Sources : CloseSource(s)
    \/ Finished

Spec == Init /\ [][Next]_vars

\* Every goroutine that can run does, timers fire, callbacks return, and a read of a closed
\* source comes back.  Nothing is assumed of a read of an open source, of the caller, or of
\* which way a send goes.
Fairness ==
    /\ WF_vars(SendProbes)
    /\ WF_vars(EndScan)
    /\ \A p \in Probe :
          WF_vars(TimerFires(p)) /\ WF_vars(HandBack(p)) /\ WF_vars(CallbackReturns(p))
    /\ \A r \in Reader : WF_vars(ConsumeReply(r)) /\ WF_vars(r[2] \in closed /\ ReadEnds(r))

FairSpec == Spec /\ Fairness

----------------------------------------------------------------------------
\* Every variable has its type.
TypeOK ==
    /\ scan \in 0..NScans
    /\ pc \in {"idle", "loop", "acquire", "install", "send", "wait", "discard", "discarded",
               "arm", "linger", "cancel", "grace", "callbacks", "collect"}
    /\ slots \in [Scans -> [Slots -> Probe \cup {None}]] /\ base \in [Scans -> SeqNumbers]
    /\ todo \subseteq Targets /\ cur \in Probe \cup {None} /\ attempt \in Nat
    /\ sendErr \in BOOLEAN /\ lingered \in BOOLEAN
    /\ free \in [Scans -> Seq(Slots)]
    /\ live \in [Scans -> Int] /\ errs \in [Scans -> Nat]
    /\ ctxDone \subseteq Scans /\ cancelled \subseteq Scans
    /\ outcome \in [Scans -> Outcome \cup {None}]
    /\ slotOf \in [Probe -> Slots \cup {None}]
    /\ hold \in [Probe -> {"held", "cleared", "released"}]
    /\ timer \in [Probe -> {"unset", "armed", "fired"}]
    /\ answered \subseteq Probe
    /\ wire \subseteq [probe : Probe, seq : SeqNumbers]
    /\ results \in [Probe -> Seq(Endpoints)] /\ delivered \in [Probe -> Nat]
    /\ rpc \in [Reader -> {"unstarted", "check", "read", "recheck", "slot", "load", "answer",
                           "release", "dispatch", "failed", "count", "ended"}]
    /\ frame \in [Reader -> Reply \cup {None}]
    /\ index \in [Reader -> Slots \cup {None}]
    /\ match \in [Reader -> Probe \cup {None}]
    /\ closed \subseteq Sources

Elements(seq) == {seq[i] : i \in 1..Len(seq)}
Distinct(seq) == \A i, j \in 1..Len(seq) : i # j => seq[i] # seq[j]

\* The probes of scan k that have taken the slot s and not handed it back.
Holders(k, s) == {p \in Probe : p[1] = k /\ slotOf[p] = s /\ hold[p] # "released"}

\* The pool of slot numbers, in the words of scanner.go:239-240: "Every number is in the channel
\* or held by exactly one probe".  It is what keeps two probes from sharing a sequence number,
\* and it survives a reply, its duplicate and the timeout racing to release one probe, also
\* after the scan has returned and while the next one runs.
SlotPool ==
    \A k \in 1..scan :
        /\ Distinct(free[k])
        /\ \A s \in Slots : IF s \in Elements(free[k])
                            THEN Holders(k, s) = {}
                            ELSE \E p \in Probe : Holders(k, s) = {p}

\* "... so a release never blocks" (scanner.go:240): a probe that has cleared its slot finds room
\* for it in the channel, so neither a timer nor a reader is ever stuck in a release.
ReleaseNeverBlocks == \A p \in Probe : hold[p] = "cleared" => Len(free[p[1]]) < Concurrency

\* "a probe never sees an earlier probe in the slot it was just given" (scanner.go:423-424): the
\* number that is handed out names a nil slot, although readers and timers clear slots at will.
FreeSlotIsNil ==
    /\ scan > 0 => \A s \in Elements(free[scan]) : slots[scan][s] = None
    /\ pc = "install" => slots[scan][slotOf[cur]] = None

\* A reply can always be matched: while a probe of the running scan is out and unreleased, its
\* slot holds it, and the acknowledgement of the number it went out with names that slot.  A
\* stale release, of an earlier probe or an earlier scan, never takes it away.
ProbeFindable ==
    \A w \in wire :
        (w.probe[1] = scan /\ hold[w.probe] = "held")
            => /\ slots[scan][slotOf[w.probe]] = w.probe
               /\ SlotOfReply(Answering(w), scan) = slotOf[w.probe]

\* "a retransmitted SYN/ACK does not produce a second result" (README.md, How SYN replies are
\* matched): one callback for a probe, also when two sources capture the same reply.
AtMostOneResult == \A p \in Probe : Len(results[p]) =< 1

\* A reported port is the one its probe went to, and one that answered a SYN of this Scanner; a
\* stray, late or foreign SYN/ACK makes no other port open.
ResultsAreSound ==
    \A p \in Probe : \A e \in Elements(results[p]) :
        /\ e = EndpointOfProbe(p)
        /\ e \in Open
        /\ \E w \in wire : EndpointOfProbe(w.probe) = e

\* A nil return is a complete scan: every target was visited, a probe went out, and the last one
\* was given its timeout.  A scan that the caller's context or the loss of the last source cut
\* short says so.
NilMeansComplete ==
    (pc = "idle" /\ scan > 0 /\ outcome[scan] = NilOutcome) => (todo = {} /\ lingered /\ Sent)

\* When the scan fails for want of a source, the error of every one of them is in what Scan
\* returns: a reader writes readerErrors before the counter that Scan decides by
\* (scanner.go:257-258, 311).
LostReadersAreAllReported ==
    \A k \in Scans : outcome[k] # None => outcome[k].readers \in {0, Cardinality(Sources)}

\* "A reader that outlives its scan delivers no further results" (README.md, Shutdown), for one
\* that was parked: a frame that is read after the context has ended is never matched.
ParkedReaderIsSilent ==
    [][\A r \in Reader :
        (rpc[r] \in {"check", "read", "recheck"} /\ ScanDone(r[1]))
            => rpc'[r] \in {"check", "read", "recheck", "failed", "ended"}]_vars

\* A probe whose result is out is done with: it gets no other result, is released only once
\* although its timer is still to fire, and never turns up in a slot again.
ResultIsFinal ==
    [][\A p \in Probe : results[p] # <<>> =>
        /\ results'[p] = results[p]
        /\ hold'[p] = "released"
        /\ p[1] = scan => \A s \in Slots : slots'[scan][s] # p]_vars

\* "Every callback has returned by the time Scan does" (scanner.go:198).  It does not hold: a
\* reader that passed the second context check just before the scan was cancelled may get to
\* callbacks.Go after the grace period and callbacks.Wait are over.
CallbacksReturnBeforeScan ==
    (pc = "idle" /\ scan > 0) => \A p \in Probe : delivered[p] = Len(results[p])

\* "Nothing is lost by not waiting for it" (scanner.go:295), said of a parked reader.  It does not
\* hold when the Scanner is used again on its sources: the parked reader takes a frame that the
\* running scan is waiting for, and throws it away.
NothingIsLostToParkedReaders ==
    [][\A r \in Reader :
        (rpc[r] = "read" /\ rpc'[r] = "recheck" /\ r[1] < scan /\ ~ScanDone(scan))
            => ~\E w \in wire : /\ w.probe[1] = scan /\ hold[w.probe] = "held"
                                /\ frame'[r] = Answering(w)]_vars

\* Scan returns, whatever its readers do: also with a reader parked in a read nobody ends, with
\* probes that are never answered and with sources that fail or end (scanner.go:288-298).
ScanReturns == (pc # "idle") ~> (pc = "idle")

\* The first matching reply to a probe is reported, exactly once, also when the timeout or the
\* end of the scan comes in between the match and the callback.
AnsweredIsReported == \A p \in Probe : (p \in answered) ~> (delivered[p] = 1)

\* A slot that is taken comes back: the sender is never left waiting for a number that no reply,
\* timer or failed send will return.
SlotsComeBack == \A p \in Probe : (slotOf[p] # None) ~> (hold[p] = "released")

\* A reader that outlived its scan "ends as soon as the source is closed" (scanner.go:200-201).
ClosingFreesReaders ==
    \A r \in Reader : (r[2] \in closed /\ r[1] =< scan) ~> (rpc[r] = "ended")
============================================================================
