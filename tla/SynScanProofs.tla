--------------------------- MODULE SynScanProofs ---------------------------
(***************************************************************************)
(* What SynScan guarantees for every number of scans, targets, sources and *)
(* slots, every network and every fault.  IInv of SynScanInv is proved     *)
(* inductive, one lemma per conjunct and one step per action, and the      *)
(* theorems after it follow from it; OutcomeInv and SoundInv, which the    *)
(* last ones rest on, are inductive on top of it.                          *)
(***************************************************************************)
EXTENDS SynScanInv, FiniteSetTheorems, TLAPS

USE DEF vars, allButPc, aroundSend, aroundRead, readOnly, sendVars, probeVars, faultVars,
        resultVars, readerVars

\* None is none of the values that it stands in for.
LEMMA NoneAssumption ==
    None \notin Probe /\ None \notin Slots /\ None \notin Reply /\ None \notin Outcome
BY Parameters

\* uint32 arithmetic stays among the sequence numbers.
LEMMA ModType == ASSUME NEW x \in Int PROVE x % SeqMod \in SeqNumbers
BY Parameters DEF SeqNumbers

\* Whatever a read returns is a reply.
LEMMA ArrivingType == ASSUME TypeOK PROVE Arriving \subseteq Reply
<1>1. \A w \in wire : Answering(w) \in Reply
  <2> TAKE w \in wire
  <2>1. w.probe[2] \in Targets /\ w.seq + 1 \in Int
    BY Parameters DEF TypeOK, Probe, SeqNumbers
  <2>2. (w.seq + 1) % SeqMod \in SeqNumbers
    BY <2>1, ModType
  <2> QED BY <2>1, <2>2, Parameters DEF Answering, EndpointOfProbe, Reply
<1> QED BY <1>1, Parameters DEF Arriving

\* A call of release keeps the types of what it writes.
LEMMA ReleaseType ==
    ASSUME TypeOK, NEW p \in Probe, CallRelease(p)
    PROVE  /\ hold' \in [Probe -> {"held", "cleared", "released"}]
           /\ slots' \in [Scans -> [Slots -> Probe \cup {None}]]
<1>1. CASE FirstCall(p)
  <2>1. PICK k \in Seen(p[1]) : slots' = SlotsCleared(p, k)
    BY <1>1 DEF CallRelease
  <2>2. slots' \in [Scans -> [Slots -> Probe \cup {None}]]
    <3> DEFINE cleared(j) == [slots[j] EXCEPT ![slotOf[p]] = IF @ = p THEN None ELSE @]
    <3>1. \A j \in Scans : cleared(j) \in [Slots -> Probe \cup {None}]
      <4> TAKE j \in Scans
      <4>1. slots[j] \in [Slots -> Probe \cup {None}]
        BY DEF TypeOK
      <4> QED BY <4>1
    <3>2. slots' = [j \in Scans |-> IF j = k THEN cleared(j) ELSE slots[j]]
      BY <2>1 DEF SlotsCleared, TypeOK
    <3> HIDE DEF cleared
    <3> QED BY <3>1, <3>2 DEF TypeOK
  <2> QED BY <1>1, <2>2 DEF CallRelease, TypeOK
<1>2. CASE ~FirstCall(p)
  BY <1>2 DEF CallRelease, TypeOK
<1> QED BY <1>1, <1>2

\* So does a reader that goes on with what it has in hand, or drops that first.
LEMMA DropType ==
    ASSUME TypeOK, NEW r \in Reader, NEW from,
           NEW to \in {"check", "read", "recheck", "slot", "answer", "release", "dispatch",
                       "failed", "count", "ended"},
           Keep(r, from, to) \/ Drop(r, from, to)
    PROVE  /\ rpc' \in [Reader -> {"unstarted", "check", "read", "recheck", "slot", "load", "answer",
                                   "release", "dispatch", "failed", "count", "ended"}]
           /\ frame' \in [Reader -> Reply \cup {None}]
           /\ index' \in [Reader -> Slots \cup {None}]
           /\ match' \in [Reader -> Probe \cup {None}]
<1>1. rpc' = [rpc EXCEPT ![r] = to]
  BY DEF Keep, Drop, Step
<1>2. UNCHANGED <<frame, index, match>> \/ (/\ frame' = [frame EXCEPT ![r] = None]
                                          /\ index' = [index EXCEPT ![r] = None]
                                          /\ match' = [match EXCEPT ![r] = None])
  BY DEF Keep, Drop
<1> QED BY <1>1, <1>2 DEF TypeOK

\* Every step keeps every variable's type.
LEMMA TypeStep == ASSUME IInv, [Next]_vars PROVE TypeOK'
<1> USE DEF IInv
<1>1. CASE \E b \in Bases : StartScan(b)
  <2>1. PICK b \in Bases : StartScan(b)
    BY <1>1
  <2>2. scan' \in 0..NScans /\ b \in SeqNumbers /\ Cardinality(Sources) \in Nat
    BY <2>1, Parameters, FS_CardinalityType DEF StartScan, TypeOK
  <2>3. [i \in 1..Concurrency |-> i - 1] \in Seq(Slots)
    BY Parameters DEF Slots
  <2>4. /\ base' \in [Scans -> SeqNumbers] /\ free' \in [Scans -> Seq(Slots)]
        /\ live' \in [Scans -> Int]
    <3>1. base' \in [Scans -> SeqNumbers]
      BY <2>1, <2>2 DEF StartScan, TypeOK
    <3>2. free' = [free EXCEPT ![scan + 1] = [i \in 1..Concurrency |-> i - 1]]
      BY <2>1 DEF StartScan
    <3>3. free' \in [Scans -> Seq(Slots)]
      <4> DEFINE new == [i \in 1..Concurrency |-> i - 1]
      <4>1. new \in Seq(Slots) /\ free \in [Scans -> Seq(Slots)] /\ free' = [free EXCEPT ![scan + 1] = new]
        BY <2>3, <3>2 DEF TypeOK
      <4> HIDE DEF new
      <4> QED BY <4>1
    <3>4. live' \in [Scans -> Int]
      <4> DEFINE new == Cardinality(Sources)
      <4>1. new \in Int /\ live \in [Scans -> Int] /\ live' = [live EXCEPT ![scan + 1] = new]
        BY <2>1, <2>2 DEF StartScan, TypeOK
      <4> HIDE DEF new
      <4> QED BY <4>1
    <3> QED BY <3>1, <3>3, <3>4
  <2>5. rpc' \in [Reader -> {"unstarted", "check", "read", "recheck", "slot", "load", "answer",
                             "release", "dispatch", "failed", "count", "ended"}]
    BY <2>1 DEF StartScan, TypeOK
  <2> QED BY <2>1, <2>2, <2>4, <2>5 DEF StartScan, TypeOK
<1>3. CASE SendProbes
  <2>1. CASE StopSending \/ Discarded \/ RetrySend \/ StopRetrying \/ StopAcquiring
    BY <1>3, <2>1 DEF StopSending, Discarded, RetrySend, StopRetrying, StopAcquiring, TypeOK
  <2>2. CASE Acquire
    <3>1. cur \in Probe /\ scan \in Scans /\ free[scan] # <<>>
      BY <2>2 DEF Acquire, SenderInv, Probing
    <3>2. Head(free[scan]) \in Slots /\ Tail(free[scan]) \in Seq(Slots)
      BY <3>1 DEF TypeOK
    <3> QED BY <2>2, <3>1, <3>2 DEF Acquire, TypeOK
  <2>3. CASE Install
    BY <2>3 DEF Install, TypeOK, SenderInv, Probing
  <2>4. CASE SendSucceeds
    <3>1. cur \in Probe /\ slotOf[cur] \in Slots
      BY <2>4 DEF SendSucceeds, TypeOK, SenderInv, Probing
    <3>2. SequenceNumber(slotOf[cur]) \in SeqNumbers
      <4>1. scan \in Scans
        BY <2>4 DEF SendSucceeds, SenderInv
      <4>2. base[scan] + slotOf[cur] \in Int
        BY <3>1, <4>1, Parameters DEF TypeOK, Slots, SeqNumbers
      <4> QED BY <4>2, ModType DEF SequenceNumber
    <3> QED BY <2>4, <3>1, <3>2 DEF SendSucceeds, TypeOK
  <2>5. CASE Discard
    BY <2>5, ReleaseType DEF Discard, TypeOK, SenderInv, Probing
  <2>6. CASE Arm
    BY <2>6 DEF Arm, TimerSet, TypeOK
  <2>7. CASE FinishSending
    BY <2>7 DEF FinishSending, TypeOK
  <2>8. CASE \E t \in Targets : SkipTarget(t) \/ TakeTarget(t)
    <3>1. CASE \E t \in Targets : SkipTarget(t)
      BY <3>1 DEF SkipTarget, TypeOK
    <3>2. CASE \E t \in Targets : TakeTarget(t)
      <4>1. cur' \in Probe
        BY <3>2 DEF TakeTarget, SenderInv, Probe
      <4> QED BY <3>2, <4>1 DEF TakeTarget, TypeOK
    <3> QED BY <2>8, <3>1, <3>2
  <2>9. CASE \E fault \in SendFaults : SendFails(fault)
    BY <2>9 DEF SendFails, TypeOK
  <2> QED BY <1>3, <2>1, <2>2, <2>3, <2>4, <2>5, <2>6, <2>7, <2>8, <2>9 DEF SendProbes
<1>4. CASE EndScan
  <2>1. CASE Linger \/ StopLingering \/ WaitForCallbacks \/ \E g \in BOOLEAN : WaitForReaders(g)
    BY <2>1 DEF Linger, StopLingering, WaitForCallbacks, WaitForReaders, TypeOK
  <2>2. CASE Cancel
    BY <2>2 DEF Cancel, TypeOK, SenderInv
  <2>3. CASE Return
    <3>1. scan \in Scans /\ errs[scan] \in Nat
      BY <2>3 DEF Return, TypeOK, SenderInv
    <3>2. errs' \in [Scans -> Nat]
      BY <2>3, <3>1 DEF Return, TypeOK
    <3>3. outcome' \in [Scans -> Outcome \cup {None}]
      BY <2>3, <3>1 DEF Return, TypeOK, ContextError, Outcome
    <3> QED BY <2>3, <3>2, <3>3 DEF Return, TypeOK
  <2> QED BY <1>4, <2>1, <2>2, <2>3 DEF EndScan
<1>5. CASE \E p \in Probe : TimerFires(p) \/ HandBack(p) \/ CallbackReturns(p)
  <2> PICK p \in Probe : TimerFires(p) \/ HandBack(p) \/ CallbackReturns(p)
    BY <1>5
  <2>1. CASE TimerFires(p)
    BY <2>1, ReleaseType DEF TimerFires, TypeOK
  <2>2. CASE HandBack(p)
    <3>1. p[1] \in Scans /\ slotOf[p] \in Slots
      BY <2>2 DEF HandBack, TypeOK, ProbeInv, Placed, Probe
    <3>2. Append(free[p[1]], slotOf[p]) \in Seq(Slots)
      BY <3>1 DEF TypeOK
    <3> QED BY <2>2, <3>1, <3>2 DEF HandBack, TypeOK
  <2>3. CASE CallbackReturns(p)
    BY <2>3 DEF CallbackReturns, TypeOK
  <2> QED BY <2>1, <2>2, <2>3
<1>6. CASE \E r \in Reader : ConsumeReply(r) \/ Read(r)
  <2> PICK r \in Reader : ConsumeReply(r) \/ Read(r)
    BY <1>6
  <2>1. CASE CheckContext(r) \/ ReadOther(r) \/ ReadEnds(r) \/ ReadFails(r) \/ RecheckContext(r)
    <3>1. CASE CheckContext(r)
      BY <3>1, DropType DEF CheckContext, TypeOK
    <3>2. CASE RecheckContext(r)
      BY <3>2, DropType DEF RecheckContext, TypeOK
    <3>3. CASE ReadOther(r) \/ ReadEnds(r) \/ ReadFails(r)
      BY <3>3, DropType, SMTT(20) DEF ReadOther, ReadEnds, ReadFails, TypeOK
    <3> QED BY <2>1, <3>1, <3>2, <3>3
  <2>2. CASE \E reply \in Arriving : ReadReply(r, reply)
    <3>1. Arriving \subseteq Reply
      BY ArrivingType
    <3> QED BY <2>2, <3>1 DEF ReadReply, Step, TypeOK
  <2>3. CASE FindSlot(r)
    <3>1. CASE Drop(r, "slot", "check")
      BY <2>3, <3>1, DropType DEF FindSlot, TypeOK
    <3>2. CASE \E slot \in Slots : /\ Step(r, "slot", "load") /\ UNCHANGED <<frame, match>>
                                   /\ index' = [index EXCEPT ![r] = slot]
      BY <2>3, <3>2 DEF FindSlot, Step, TypeOK
    <3> QED BY <2>3, <3>1, <3>2 DEF FindSlot, NamesSlot
  <2>4. CASE LoadProbe(r)
    <3>1. \A k \in Seen(r[1]) : k \in Scans
      BY Parameters DEF Seen, Reader, Scans, TypeOK
    <3>2. index[r] \in Slots
      BY <2>4 DEF LoadProbe, ReaderInv, InHand
    <3>3. \A k \in Seen(r[1]) : slots[k][index[r]] \in Probe \cup {None}
      BY <3>1, <3>2 DEF TypeOK
    <3>4. \/ Drop(r, "load", "check")
          \/ \E q \in Probe \cup {None} : /\ Step(r, "load", "answer") /\ UNCHANGED <<frame, index>>
                                         /\ match' = [match EXCEPT ![r] = q]
      BY <2>4, <3>3 DEF LoadProbe
    <3>5. /\ rpc' \in [Reader -> {"unstarted", "check", "read", "recheck", "slot", "load", "answer",
                                  "release", "dispatch", "failed", "count", "ended"}]
          /\ frame' \in [Reader -> Reply \cup {None}] /\ index' \in [Reader -> Slots \cup {None}]
          /\ match' \in [Reader -> Probe \cup {None}]
      <4>1. CASE Drop(r, "load", "check")
        BY ONLY <4>1, DropType, TypeOK, r \in Reader
      <4>2. CASE \E q \in Probe \cup {None} : /\ Step(r, "load", "answer") /\ UNCHANGED <<frame, index>>
                                              /\ match' = [match EXCEPT ![r] = q]
        BY <4>2 DEF Step, TypeOK
      <4> QED BY ONLY <3>4, <4>1, <4>2
    <3> QED BY <2>4, <3>5 DEF LoadProbe, TypeOK
  <2>5. CASE Answer(r)
    <3>1. match[r] \in Probe
      BY <2>5 DEF Answer, Keep, Drop, Step, ReaderInv, InHand
    <3> QED BY <2>5, <3>1, DropType, SMTT(20) DEF Answer, TypeOK
  <2>6. CASE ReleaseAnswered(r)
    BY <2>6, ReleaseType DEF ReleaseAnswered, Keep, Step, TypeOK, ReaderInv, InHand
  <2>7. CASE Dispatch(r)
    <3>1. match[r] \in Probe /\ frame[r].from \in Endpoints
      BY <2>7 DEF Dispatch, Drop, Step, ReaderInv, InHand, Reply
    <3>2. results[match[r]] \o Reported(r) \in Seq(Endpoints)
      BY <3>1 DEF Reported, TypeOK
    <3> QED BY <2>7, <3>1, <3>2, DropType DEF Dispatch, TypeOK
  <2>8. CASE ReportFailure(r)
    BY <2>8, SMTT(20) DEF ReportFailure, Keep, Step, TypeOK, Reader
  <2>9. CASE CountFailure(r)
    BY <2>9, SMTT(20) DEF CountFailure, Keep, Step, TypeOK, Reader
  <2> QED BY <2>1, <2>2, <2>3, <2>4, <2>5, <2>6, <2>7, <2>8, <2>9 DEF ConsumeReply, Read
<1>7. CASE CallerCancels \/ \E s \in Sources : CloseSource(s)
  BY <1>7 DEF CallerCancels, CloseSource, TypeOK, SenderInv
<1>8. CASE Finished \/ UNCHANGED vars
  BY <1>8 DEF Finished, TypeOK
<1> QED BY <1>1, <1>3, <1>4, <1>5, <1>6, <1>7, <1>8 DEF Next

----------------------------------------------------------------------------
\* What the steps of a reader leave alone.
LEMMA ReaderFrame ==
    ASSUME NEW r \in Reader, ConsumeReply(r) \/ Read(r)
    PROVE  /\ UNCHANGED <<scan, base, pc, sendVars, free, slotOf, timer, wire>>
           /\ rpc[r] # "answer" => UNCHANGED answered
           /\ rpc[r] # "dispatch" => UNCHANGED results
           /\ rpc[r] # "release" => UNCHANGED <<slots, hold>>
           /\ rpc[r] = "release" => ReleaseAnswered(r)
           /\ rpc[r] = "dispatch" => Dispatch(r)
           /\ rpc[r] = "answer" => Answer(r)
BY DEF ConsumeReply, Read, CheckContext, ReadReply, ReadOther, ReadEnds, ReadFails, ReportFailure,
       CountFailure, RecheckContext, FindSlot, LoadProbe, Answer, ReleaseAnswered, Dispatch,
       Keep, Drop, Step

\* What the steps of the end of Scan leave alone.
LEMMA EndFrame ==
    ASSUME EndScan
    PROVE  /\ UNCHANGED <<scan, base, todo, cur, slots, free, slotOf, hold, timer, answered, wire,
                          results, readerVars>>
           /\ pc \in {"linger", "cancel", "grace", "callbacks", "collect"}
           /\ pc' \in {"cancel", "grace", "callbacks", "collect", "idle"}
BY DEF EndScan, Linger, StopLingering, Cancel, WaitForReaders, WaitForCallbacks, Return

\* What the steps of sendProbes leave alone.
LEMMA SendFrame ==
    ASSUME SendProbes
    PROVE  /\ UNCHANGED <<scan, base, answered, results, readerVars>>
           /\ pc \in {"loop", "acquire", "install", "send", "wait", "discard", "discarded", "arm"}
           /\ pc' # "idle"
           /\ ~Acquire => UNCHANGED <<slotOf, free>>
           /\ pc # "discard" => UNCHANGED hold
           /\ pc \notin {"discard", "install"} => UNCHANGED slots
           /\ pc # "arm" => UNCHANGED timer
           /\ pc # "send" => UNCHANGED wire
           /\ pc = "discard" => Discard
           /\ pc = "install" => Install
BY DEF SendProbes, StopSending, Acquire, StopAcquiring, Install, SendSucceeds, SendFails, RetrySend,
       StopRetrying, Discard, Discarded, Arm, FinishSending, SkipTarget, TakeTarget

\* What the caller's steps, and stuttering, leave alone.
LEMMA CallFrame ==
    ASSUME CallerCancels \/ (\E s \in Sources : CloseSource(s)) \/ Finished \/ UNCHANGED vars
    PROVE  UNCHANGED <<scan, base, pc, todo, cur, slots, free, slotOf, hold, timer, answered, wire,
                       results, readerVars>>
BY DEF CallerCancels, CloseSource, Finished

\* A call of release hands nothing back.
LEMMA ReleaseHold ==
    ASSUME TypeOK, NEW p \in Probe, CallRelease(p)
    PROVE  \A q \in Probe : /\ hold'[q] = "released" <=> hold[q] = "released"
                            /\ hold'[q] = hold[q] \/ (q = p /\ hold[q] = "held" /\ hold'[q] = "cleared")
BY DEF CallRelease, FirstCall, TypeOK

\* What taking from the channel and putting into it do to the numbers in it.
LEMMA TailElements ==
    ASSUME NEW S, NEW f \in Seq(S), f # <<>>, Distinct(f)
    PROVE  /\ Distinct(Tail(f))
           /\ Elements(Tail(f)) = Elements(f) \ {Head(f)}
           /\ Head(f) \in Elements(f)
<1>1. /\ Len(f) \in Nat \ {0} /\ Len(Tail(f)) = Len(f) - 1 /\ Head(f) = f[1]
      /\ \A i \in 1..(Len(f) - 1) : Tail(f)[i] = f[i + 1]
  OBVIOUS
<1>2. Distinct(Tail(f))
  BY <1>1 DEF Distinct
<1>3. ASSUME NEW x \in Elements(f), x # Head(f) PROVE x \in Elements(Tail(f))
  <2>1. PICK i \in 1..Len(f) : x = f[i]
    BY <1>3 DEF Elements
  <2>2. i - 1 \in 1..(Len(f) - 1) /\ Tail(f)[i - 1] = x
    BY <1>1, <1>3, <2>1
  <2> QED BY <1>1, <2>2 DEF Elements
<1>4. ASSUME NEW x \in Elements(Tail(f)) PROVE x \in Elements(f) /\ x # Head(f)
  <2>1. PICK i \in 1..(Len(f) - 1) : x = f[i + 1]
    BY <1>1, <1>4 DEF Elements
  <2> QED BY <1>1, <2>1 DEF Elements, Distinct
<1>5. Head(f) \in Elements(f)
  BY <1>1 DEF Elements
<1> QED BY <1>2, <1>3, <1>4, <1>5

\* Appending a number that is not in the channel adds just that.
LEMMA AppendElements ==
    ASSUME NEW S, NEW f \in Seq(S), NEW x \in S, x \notin Elements(f), Distinct(f)
    PROVE  /\ Distinct(Append(f, x))
           /\ Elements(Append(f, x)) = Elements(f) \cup {x}
<1>1. /\ Len(f) \in Nat /\ Len(Append(f, x)) = Len(f) + 1 /\ Append(f, x)[Len(f) + 1] = x
      /\ \A i \in 1..Len(f) : Append(f, x)[i] = f[i]
  OBVIOUS
<1>2. Distinct(Append(f, x))
  <2>1. \A i \in 1..Len(f) : f[i] # x
    BY DEF Elements
  <2> QED BY <1>1, <2>1 DEF Distinct
<1>3. \A y \in Elements(Append(f, x)) : y \in Elements(f) \cup {x}
  BY <1>1 DEF Elements
<1>4. \A y \in Elements(f) \cup {x} : y \in Elements(Append(f, x))
  BY <1>1 DEF Elements
<1> QED BY <1>2, <1>3, <1>4

\* The pool: only Acquire takes a number out of the channel, and only HandBack puts one back.
LEMMA PoolStep == ASSUME IInv, [Next]_vars, TypeOK' PROVE PoolInv'
<1> USE DEF IInv
<1>1. ASSUME UNCHANGED <<free, slotOf>>, \A k \in Scans : Pooled(k)' => Pooled(k),
             \A p \in Probe : hold'[p] = "released" <=> hold[p] = "released"
      PROVE  PoolInv'
  BY <1>1 DEF PoolInv, Holds, Elements, Distinct
<1>3. CASE \E b \in Bases : StartScan(b)
  <2>1. PICK b \in Bases : StartScan(b)
    BY <1>3
  <2> DEFINE j == scan + 1
  <2>2. j \in Scans /\ j > scan /\ scan \in Nat /\ \A p \in Probe : p[1] = j => slotOf[p] = None
    BY <2>1, Parameters DEF StartScan, TypeOK, ProbeInv, Scans
  <2>0. scan' = j
    BY <2>1 DEF StartScan
  <2>3. free'[j] = [i \in 1..Concurrency |-> i - 1] /\ \A k \in Scans \ {j} : free'[k] = free[k]
    BY <2>1, <2>2 DEF StartScan, TypeOK
  <2>9. \A k \in Scans : k =< j => k = j \/ k =< scan
    BY <2>2, Parameters DEF Scans
  <2> HIDE DEF j
  <2>4. Len(free'[j]) = Concurrency /\ \A i \in 1..Concurrency : free'[j][i] = i - 1
    BY <2>3, Parameters
  <2>5. Elements(free'[j]) = Slots
    <3>1. \A s \in Slots : s + 1 \in 1..Concurrency /\ free'[j][s + 1] = s
      BY <2>4, Parameters DEF Slots
    <3>2. \A i \in 1..Concurrency : free'[j][i] \in Slots
      BY <2>4, Parameters DEF Slots
    <3> QED BY <2>4, <3>1, <3>2 DEF Elements
  <2>6. UNCHANGED <<slotOf, hold>>
    BY <2>1 DEF StartScan
  <2> SUFFICES ASSUME NEW k \in Scans, Pooled(k)' PROVE
        /\ Distinct(free'[k])
        /\ \A p \in Probe : \A s \in Slots :
              (p[1] = k /\ Holds(p, s)') => s \notin Elements(free'[k])
        /\ \A p, q \in Probe : \A s \in Slots :
              (p[1] = k /\ q[1] = k /\ Holds(p, s)' /\ Holds(q, s)') => p = q
        /\ \A s \in Slots : s \in Elements(free'[k]) \/ \E p \in Probe : p[1] = k /\ Holds(p, s)'
    BY DEF PoolInv, Elements, Distinct, Holds
  <2>7. CASE k = j
    <3>1. Distinct(free'[k])
      BY <2>4, <2>7, Parameters DEF Distinct
    <3>2. \A p \in Probe : \A s \in Slots : p[1] = k => ~Holds(p, s)'
      BY <2>2, <2>6, <2>7, Parameters DEF Holds
    <3> QED BY <2>5, <2>7, <3>1, <3>2
  <2>8. CASE k # j
    <3>1. Pooled(k)
      BY <2>0, <2>8, <2>9 DEF Pooled
    <3> QED BY <2>3, <2>6, <2>8, <3>1 DEF Holds, PoolInv
  <2> QED BY <2>7, <2>8
<1>4. CASE SendProbes
  <2>1. CASE Acquire
    <3>1. /\ cur \in Probe /\ cur[1] = scan /\ slotOf[cur] = None /\ scan \in Scans
          /\ hold[cur] # "released"
      BY <2>1 DEF Acquire, SenderInv, Probing, ProbeInv, Placed
    <3>2. /\ slotOf' = [slotOf EXCEPT ![cur] = Head(free[scan])]
          /\ free' = [free EXCEPT ![scan] = Tail(free[scan])]
          /\ UNCHANGED <<scan, hold>> /\ free[scan] # <<>> /\ pc = "acquire"
      BY <2>1 DEF Acquire
    <3>3. free[scan] \in Seq(Slots) /\ Distinct(free[scan])
      BY <3>1, <3>2 DEF TypeOK, PoolInv, Pooled
    <3>4. /\ Distinct(free'[scan])
          /\ Elements(free'[scan]) = Elements(free[scan]) \ {Head(free[scan])}
          /\ Head(free[scan]) \in Elements(free[scan])
      BY <3>1, <3>2, <3>3, TailElements DEF TypeOK
    <3> SUFFICES ASSUME NEW k \in Scans, Pooled(k)' PROVE
          /\ Distinct(free'[k])
          /\ \A p \in Probe : \A s \in Slots :
                (p[1] = k /\ Holds(p, s)') => s \notin Elements(free'[k])
          /\ \A p, q \in Probe : \A s \in Slots :
                (p[1] = k /\ q[1] = k /\ Holds(p, s)' /\ Holds(q, s)') => p = q
          /\ \A s \in Slots : s \in Elements(free'[k]) \/ \E p \in Probe : p[1] = k /\ Holds(p, s)'
      BY DEF PoolInv, Elements, Distinct, Holds
    <3>5. Pooled(k)
      BY <3>2 DEF Pooled
    <3>6. \A p \in Probe, s \in Slots :
             Holds(p, s)' <=> IF p = cur THEN s = Head(free[scan]) ELSE Holds(p, s)
      BY <3>1, <3>2 DEF Holds, TypeOK
    <3>7. CASE k = scan
      <4>1. \A p \in Probe, s \in Slots : p[1] = k /\ Holds(p, s) => s # Head(free[scan])
        BY <3>4, <3>5, <3>7 DEF PoolInv
      <4>2. \A p \in Probe, s \in Slots : p[1] = k /\ Holds(p, s)' => s \notin Elements(free'[k])
        BY <3>4, <3>5, <3>6, <3>7 DEF PoolInv
      <4>3. \A p, q \in Probe, s \in Slots :
               (p[1] = k /\ q[1] = k /\ Holds(p, s)' /\ Holds(q, s)') => p = q
        BY <3>5, <3>6, <4>1 DEF PoolInv
      <4>4. \A s \in Slots : s \in Elements(free'[k]) \/ \E p \in Probe : p[1] = k /\ Holds(p, s)'
        <5> TAKE s \in Slots
        <5>1. CASE s \in Elements(free[k])
          BY <3>1, <3>4, <3>6, <3>7, <5>1
        <5>2. CASE s \notin Elements(free[k])
          <6>1. PICK p \in Probe : p[1] = k /\ Holds(p, s)
            BY <3>5, <5>2 DEF PoolInv
          <6>2. p # cur
            BY <3>1, <6>1, NoneAssumption DEF Holds
          <6> QED BY <3>6, <6>1, <6>2
        <5> QED BY <5>1, <5>2
      <4> QED BY <3>4, <3>7, <4>2, <4>3, <4>4
    <3>8. CASE k # scan
      <4>1. free'[k] = free[k]
        BY <3>2, <3>8 DEF TypeOK
      <4>2. \A p \in Probe, s \in Slots : p[1] = k => (Holds(p, s)' <=> Holds(p, s))
        BY <3>1, <3>6, <3>8
      <4> QED BY <3>5, <4>1, <4>2 DEF PoolInv
    <3> QED BY <3>7, <3>8
  <2>2. CASE pc = "discard"
    BY <1>1, <1>4, <2>2, SendFrame, ReleaseHold DEF Discard, SenderInv, Probing, Pooled
  <2>3. CASE pc # "discard" /\ ~Acquire
    BY <1>1, <1>4, <2>3, SendFrame DEF Pooled
  <2> QED BY <2>1, <2>2, <2>3
<1>5. CASE EndScan
  BY <1>1, <1>5, EndFrame DEF Pooled
<1>6. CASE \E p \in Probe : TimerFires(p) \/ CallbackReturns(p)
  BY <1>1, <1>6, ReleaseHold DEF TimerFires, CallbackReturns, Pooled
<1>7. CASE \E p \in Probe : HandBack(p)
  <2>1. PICK p \in Probe : HandBack(p)
    BY <1>7
  <2>2. /\ hold' = [hold EXCEPT ![p] = "released"] /\ hold[p] = "cleared"
        /\ free' = [free EXCEPT ![p[1]] = Append(free[p[1]], slotOf[p])]
        /\ UNCHANGED <<scan, pc, slotOf>>
    BY <2>1 DEF HandBack
  <2>3. p[1] \in Scans /\ slotOf[p] \in Slots
    BY <2>2 DEF Probe, ProbeInv, Placed, TypeOK
  <2>4. Pooled(p[1])
    <3>1. p[1] \in Nat /\ scan \in Nat /\ p[2] \in Targets
      BY <2>3, Parameters DEF TypeOK, Probe, Scans
    <3>2. ~(p[1] > scan \/ (p[1] = scan /\ p[2] \in todo))
      BY <2>3, NoneAssumption DEF ProbeInv
    <3> QED BY <3>1, <3>2 DEF SenderInv, Pooled
  <2>5. Holds(p, slotOf[p]) /\ slotOf[p] \notin Elements(free[p[1]]) /\ Distinct(free[p[1]])
    BY <2>2, <2>3, <2>4 DEF PoolInv, Holds
  <2>6. /\ Distinct(free'[p[1]])
        /\ Elements(free'[p[1]]) = Elements(free[p[1]]) \cup {slotOf[p]}
    BY <2>2, <2>3, <2>5, AppendElements DEF TypeOK
  <2> SUFFICES ASSUME NEW k \in Scans, Pooled(k)' PROVE
        /\ Distinct(free'[k])
        /\ \A q \in Probe : \A s \in Slots :
              (q[1] = k /\ Holds(q, s)') => s \notin Elements(free'[k])
        /\ \A q, r \in Probe : \A s \in Slots :
              (q[1] = k /\ r[1] = k /\ Holds(q, s)' /\ Holds(r, s)') => q = r
        /\ \A s \in Slots : s \in Elements(free'[k]) \/ \E q \in Probe : q[1] = k /\ Holds(q, s)'
    BY DEF PoolInv, Elements, Distinct, Holds
  <2>7. Pooled(k)
    BY <2>2 DEF Pooled
  <2>8. \A q \in Probe, s \in Slots : Holds(q, s)' <=> (q # p /\ Holds(q, s))
    BY <2>2 DEF Holds, TypeOK
  <2>9. CASE k = p[1]
    <3>1. \A s \in Slots : Holds(p, s) => s = slotOf[p]
      BY DEF Holds
    <3> QED BY <2>3, <2>5, <2>6, <2>7, <2>8, <2>9, <3>1 DEF PoolInv
  <2>10. CASE k # p[1]
    <3>1. free'[k] = free[k]
      BY <2>2, <2>3, <2>10 DEF TypeOK
    <3>2. \A s \in Slots : \A q \in Probe : q[1] = k => (Holds(q, s)' <=> Holds(q, s))
      BY <2>8, <2>10
    <3> QED BY <2>7, <3>1, <3>2 DEF PoolInv
  <2> QED BY <2>9, <2>10
<1>8. CASE \E r \in Reader : ConsumeReply(r) \/ Read(r)
  <2>1. PICK r \in Reader : ConsumeReply(r) \/ Read(r)
    BY <1>8
  <2>2. CASE rpc[r] = "release"
    BY <1>1, <2>1, <2>2, ReaderFrame, ReleaseHold DEF ReleaseAnswered, ReaderInv, InHand, Pooled
  <2>3. CASE rpc[r] # "release"
    BY <1>1, <2>1, <2>3, ReaderFrame DEF Pooled
  <2> QED BY <2>2, <2>3
<1>9. CASE CallerCancels \/ (\E s \in Sources : CloseSource(s)) \/ Finished \/ UNCHANGED vars
  BY <1>1, <1>9, CallFrame DEF Pooled
<1> QED BY <1>3, <1>4, <1>5, <1>6, <1>7, <1>8, <1>9 DEF Next

\* What sendProbes has in hand.
LEMMA SenderStep == ASSUME IInv, [Next]_vars PROVE SenderInv'
<1> USE DEF IInv
<1>1. CASE \E b \in Bases : StartScan(b)
  BY <1>1, Parameters DEF StartScan, SenderInv, Probing, TypeOK, Scans
<1>3. CASE SendProbes
  <2>1. CASE StopSending \/ StopAcquiring \/ Discarded \/ FinishSending
    BY <2>1 DEF StopSending, StopAcquiring, Discarded, FinishSending, SenderInv, Probing
  <2>2. CASE Acquire
    <3>1. scan \in Scans /\ Head(free[scan]) \in Slots
      BY <2>2 DEF Acquire, SenderInv, TypeOK
    <3> QED BY <2>2, <3>1, NoneAssumption DEF Acquire, SenderInv, Probing, TypeOK
  <2>3. CASE Install \/ SendSucceeds \/ RetrySend \/ StopRetrying \/ \E f \in SendFaults : SendFails(f)
    BY <2>3 DEF Install, SendSucceeds, RetrySend, StopRetrying, SendFails, SenderInv, Probing
  <2>4. CASE Discard
    BY <2>4 DEF Discard, CallRelease, FirstCall, SenderInv, Probing, TypeOK
  <2>5. CASE Arm
    BY <2>5 DEF Arm, TimerSet, SenderInv, Probing
  <2>6. CASE \E t \in Targets : SkipTarget(t) \/ TakeTarget(t)
    BY <2>6 DEF SkipTarget, TakeTarget, SenderInv, Probing, ProbeInv, Placed, Installing, Probe
  <2> QED BY <1>3, <2>1, <2>2, <2>3, <2>4, <2>5, <2>6 DEF SendProbes
<1>4. CASE EndScan
  BY <1>4, EndFrame DEF SenderInv, Probing
<1>5. CASE \E p \in Probe : TimerFires(p) \/ HandBack(p) \/ CallbackReturns(p)
  <2>1. PICK p \in Probe : TimerFires(p) \/ HandBack(p) \/ CallbackReturns(p)
    BY <1>5
  <2>2. CASE TimerFires(p)
    BY <2>2 DEF TimerFires, CallRelease, FirstCall, SenderInv, Probing, TypeOK
  <2>3. CASE HandBack(p)
    BY <2>3 DEF HandBack, SenderInv, Probing, TypeOK
  <2>4. CASE CallbackReturns(p)
    BY <2>4 DEF CallbackReturns, SenderInv, Probing
  <2> QED BY <2>1, <2>2, <2>3, <2>4
<1>6. CASE \E r \in Reader : ConsumeReply(r) \/ Read(r)
  <2>1. PICK r \in Reader : ConsumeReply(r) \/ Read(r)
    BY <1>6
  <2>2. CASE rpc[r] = "release"
    BY <2>1, <2>2, ReaderFrame DEF ReleaseAnswered, CallRelease, FirstCall, SenderInv, Probing, TypeOK
  <2>3. CASE rpc[r] # "release"
    BY <2>1, <2>3, ReaderFrame DEF SenderInv, Probing
  <2> QED BY <2>2, <2>3
<1>7. CASE CallerCancels \/ (\E s \in Sources : CloseSource(s)) \/ Finished \/ UNCHANGED vars
  BY <1>7, CallFrame DEF SenderInv, Probing
<1> QED BY <1>1, <1>3, <1>4, <1>5, <1>6, <1>7 DEF Next

\* Nothing happens to a probe before it is placed.
LEMMA ProbeStep == ASSUME IInv, [Next]_vars PROVE ProbeInv'
<1> USE DEF IInv
<1>1. CASE \E b \in Bases : StartScan(b)
  <2>1. /\ scan' = scan + 1 /\ scan \in Nat /\ pc = "idle" /\ pc' = "loop"
        /\ UNCHANGED <<slotOf, hold, timer, answered>>
    BY <1>1, Parameters DEF StartScan, TypeOK
  <2>2. \A p \in Probe : p[1] \in Nat
    BY Parameters DEF Probe, Scans
  <2>3. \A p \in Probe : p[1] >= scan' => p[1] > scan
    BY <2>1, <2>2
  <2>4. \A p \in Probe : Placed(p)' <=> Placed(p)
    BY <2>1 DEF Placed, Installing
  <2>5. \A p \in Probe : (p[1] > scan' \/ (p[1] = scan' /\ p[2] \in todo')) => slotOf'[p] = None
    BY <2>1, <2>2, <2>3 DEF ProbeInv
  <2> QED BY <2>1, <2>4, <2>5 DEF ProbeInv
<1>3. CASE SendProbes
  <2>1. CASE StopSending \/ StopAcquiring \/ Discarded \/ FinishSending
    BY <2>1 DEF StopSending, StopAcquiring, Discarded, FinishSending, ProbeInv, Placed, Installing
  <2>2. CASE Acquire
    BY <2>2 DEF Acquire, SenderInv, Probing, ProbeInv, Placed, Installing, TypeOK
  <2>3. CASE Install \/ SendSucceeds \/ RetrySend \/ StopRetrying \/ \E f \in SendFaults : SendFails(f)
    BY <2>3 DEF Install, SendSucceeds, RetrySend, StopRetrying, SendFails, ProbeInv, Placed, Installing
  <2>4. CASE Discard
    BY <2>4 DEF Discard, CallRelease, FirstCall, SenderInv, Probing, ProbeInv, Placed, Installing, TypeOK
  <2>5. CASE Arm
    BY <2>5 DEF Arm, TimerSet, SenderInv, Probing, ProbeInv, Placed, Installing, TypeOK
  <2>6. CASE \E t \in Targets : SkipTarget(t) \/ TakeTarget(t)
    BY <2>6 DEF SkipTarget, TakeTarget, ProbeInv, Placed, Installing
  <2> QED BY <1>3, <2>1, <2>2, <2>3, <2>4, <2>5, <2>6 DEF SendProbes
<1>4. CASE EndScan
  BY <1>4, EndFrame DEF ProbeInv, Placed, Installing
<1>5. CASE \E p \in Probe : TimerFires(p) \/ HandBack(p) \/ CallbackReturns(p)
  <2>1. PICK p \in Probe : TimerFires(p) \/ HandBack(p) \/ CallbackReturns(p)
    BY <1>5
  <2>2. CASE TimerFires(p)
    BY <2>2 DEF TimerFires, CallRelease, FirstCall, ProbeInv, Placed, Installing, TypeOK
  <2>3. CASE HandBack(p)
    BY <2>3 DEF HandBack, ProbeInv, Placed, Installing, TypeOK
  <2>4. CASE CallbackReturns(p)
    BY <2>4 DEF CallbackReturns, ProbeInv, Placed, Installing
  <2> QED BY <2>1, <2>2, <2>3, <2>4
<1>6. CASE \E r \in Reader : ConsumeReply(r) \/ Read(r)
  <2>1. PICK r \in Reader : ConsumeReply(r) \/ Read(r)
    BY <1>6
  <2>2. CASE rpc[r] = "release"
    BY <2>1, <2>2, ReaderFrame DEF ReleaseAnswered, CallRelease, FirstCall, ReaderInv, InHand, ProbeInv, Placed, Installing, TypeOK
  <2>3. CASE rpc[r] = "answer"
    BY <2>1, <2>3, ReaderFrame DEF Answer, ReaderInv, InHand, ProbeInv, Placed, Installing
  <2>4. CASE rpc[r] \notin {"release", "answer"}
    BY <2>1, <2>4, ReaderFrame DEF ProbeInv, Placed, Installing
  <2> QED BY <2>2, <2>3, <2>4
<1>7. CASE CallerCancels \/ (\E s \in Sources : CloseSource(s)) \/ Finished \/ UNCHANGED vars
  BY <1>7, CallFrame DEF ProbeInv, Placed, Installing
<1> QED BY <1>1, <1>3, <1>4, <1>5, <1>6, <1>7 DEF Next

\* A probe that has been placed stays placed.
LEMMA PlacedStays ==
    ASSUME IInv, [Next]_vars, NEW p \in Probe, Placed(p)
    PROVE  Placed(p)' /\ slotOf'[p] = slotOf[p]
<1> USE DEF IInv
<1>1. CASE \E b \in Bases : StartScan(b)
  BY <1>1 DEF StartScan, Placed, Installing
<1>2. CASE Acquire
  BY <1>2 DEF Acquire, SenderInv, Probing, Placed, Installing, TypeOK
<1>3. CASE SendProbes /\ ~Acquire
  <2>1. pc' # "install"
    BY <1>3 DEF SendProbes, StopSending, StopAcquiring, Install, SendSucceeds, SendFails, RetrySend,
       StopRetrying, Discard, Discarded, Arm, FinishSending, SkipTarget, TakeTarget
  <2> QED BY <1>3, <2>1, SendFrame DEF Placed, Installing
<1>4. CASE EndScan
  BY <1>4, EndFrame DEF Placed, Installing
<1>5. CASE \E q \in Probe : TimerFires(q) \/ HandBack(q) \/ CallbackReturns(q)
  BY <1>5 DEF TimerFires, HandBack, CallbackReturns, Placed, Installing
<1>6. CASE \E r \in Reader : ConsumeReply(r) \/ Read(r)
  BY <1>6, ReaderFrame DEF Placed, Installing
<1>7. CASE CallerCancels \/ (\E s \in Sources : CloseSource(s)) \/ Finished \/ UNCHANGED vars
  BY <1>7, CallFrame DEF Placed, Installing
<1> QED BY <1>1, <1>2, <1>3, <1>4, <1>5, <1>6, <1>7 DEF Next

\* release is called, and a number handed back, only once.
LEMMA HoldStays ==
    ASSUME IInv, [Next]_vars, NEW p \in Probe
    PROVE  /\ hold'[p] = "held" => hold[p] = "held"
           /\ hold[p] = "released" => hold'[p] = "released"
<1> USE DEF IInv
<1>1. CASE \E b \in Bases : StartScan(b)
  BY <1>1 DEF StartScan
<1>2. CASE SendProbes
  <2>1. CASE pc = "discard"
    BY <1>2, <2>1, SendFrame, ReleaseHold DEF Discard, SenderInv, Probing
  <2>2. CASE pc # "discard"
    BY <1>2, <2>2, SendFrame
  <2> QED BY <2>1, <2>2
<1>3. CASE EndScan
  BY <1>3, EndFrame
<1>4. CASE \E q \in Probe : TimerFires(q) \/ HandBack(q) \/ CallbackReturns(q)
  <2>1. PICK q \in Probe : TimerFires(q) \/ HandBack(q) \/ CallbackReturns(q)
    BY <1>4
  <2>2. CASE TimerFires(q)
    BY <2>2, ReleaseHold DEF TimerFires
  <2>3. CASE HandBack(q)
    BY <2>3 DEF HandBack, TypeOK
  <2>4. CASE CallbackReturns(q)
    BY <2>4 DEF CallbackReturns
  <2> QED BY <2>1, <2>2, <2>3, <2>4
<1>5. CASE \E r \in Reader : ConsumeReply(r) \/ Read(r)
  <2>1. PICK r \in Reader : ConsumeReply(r) \/ Read(r)
    BY <1>5
  <2>2. CASE rpc[r] = "release"
    BY <2>1, <2>2, ReaderFrame, ReleaseHold DEF ReleaseAnswered, ReaderInv, InHand
  <2>3. CASE rpc[r] # "release"
    BY <2>1, <2>3, ReaderFrame
  <2> QED BY <2>2, <2>3
<1>6. CASE CallerCancels \/ (\E s \in Sources : CloseSource(s)) \/ Finished \/ UNCHANGED vars
  BY <1>6, CallFrame
<1> QED BY <1>1, <1>2, <1>3, <1>4, <1>5, <1>6 DEF Next

\* A reader moves alone, and only Answer brings it to where it reports a match.
LEMMA ReaderMove ==
    ASSUME TypeOK, NEW r \in Reader, ConsumeReply(r) \/ Read(r)
    PROVE  /\ \A q \in Reader \ {r} : /\ rpc'[q] = rpc[q] /\ frame'[q] = frame[q]
                                      /\ index'[q] = index[q] /\ match'[q] = match[q]
           /\ (rpc[r] # "answer" /\ rpc'[r] \in {"release", "dispatch"})
                 => rpc[r] = "release" /\ match'[r] = match[r]
<1>1. CASE CheckContext(r)
  BY <1>1 DEF CheckContext, Keep, Step, TypeOK
<1>2. CASE ReadOther(r) \/ ReadEnds(r) \/ ReadFails(r) \/ ReportFailure(r) \/ CountFailure(r)
  BY <1>2 DEF ReadOther, ReadEnds, ReadFails, ReportFailure, CountFailure, Keep, Step, TypeOK
<1>3. CASE \E reply \in Arriving : ReadReply(r, reply)
  BY <1>3 DEF ReadReply, Step, TypeOK
<1>4. CASE RecheckContext(r)
  BY <1>4 DEF RecheckContext, Keep, Drop, Step, TypeOK
<1>5. CASE FindSlot(r)
  BY <1>5 DEF FindSlot, Drop, Step, TypeOK
<1>6. CASE LoadProbe(r)
  <2>1. \/ Drop(r, "load", "check")
        \/ \E p : /\ Step(r, "load", "answer") /\ UNCHANGED <<frame, index>>
                  /\ match' = [match EXCEPT ![r] = p]
    BY <1>6 DEF LoadProbe
  <2> QED BY <2>1 DEF Drop, Step, TypeOK
<1>7. CASE Answer(r)
  BY <1>7 DEF Answer, Keep, Drop, Step, TypeOK
<1>8. CASE ReleaseAnswered(r)
  BY <1>8 DEF ReleaseAnswered, Keep, Step, TypeOK
<1>9. CASE Dispatch(r)
  BY <1>9 DEF Dispatch, Drop, Step, TypeOK
<1> QED BY <1>1, <1>2, <1>3, <1>4, <1>5, <1>6, <1>7, <1>8, <1>9 DEF ConsumeReply, Read

\* What the readers have in hand.
LEMMA ReaderStep == ASSUME IInv, [Next]_vars PROVE ReaderInv'
<1> USE DEF IInv
\* A reader that does not move, or goes back to the head of its loop.
<1>1. ASSUME NEW q \in Reader, UNCHANGED <<frame[q], index[q], match[q]>>,
             rpc'[q] = rpc[q] \/ rpc'[q] \in {"check", "read", "failed", "count", "ended"}
      PROVE  InHand(q)'
  <2>1. CASE rpc'[q] \in {"answer", "release", "dispatch"}
    <3>1. match[q] \in Probe /\ Placed(match[q]) /\ frame[q].from = EndpointOfProbe(match[q])
          /\ (rpc[q] = "dispatch" => hold[match[q]] # "held")
      BY <1>1, <2>1 DEF ReaderInv, InHand
    <3>2. Placed(match[q])' /\ (rpc[q] = "dispatch" => hold'[match[q]] # "held")
      BY <1>1, <3>1, PlacedStays, HoldStays DEF Placed, Installing
    <3> QED BY <1>1, <2>1, <3>1, <3>2 DEF ReaderInv, InHand, EndpointOfProbe
  <2>2. CASE rpc'[q] \notin {"answer", "release", "dispatch"}
    BY <1>1, <2>2 DEF ReaderInv, InHand
  <2> QED BY <2>1, <2>2
<1>2. ASSUME UNCHANGED <<frame, index, match>>,
             \A q \in Reader : rpc'[q] = rpc[q] \/ rpc'[q] = "check"
      PROVE  ReaderInv'
  BY <1>1, <1>2 DEF ReaderInv
<1>3. CASE SendProbes \/ EndScan
  BY <1>2, <1>3, SendFrame, EndFrame
<1>4. CASE \E b \in Bases : StartScan(b)
  BY <1>2, <1>4 DEF StartScan
<1>5. CASE \E p \in Probe : TimerFires(p) \/ HandBack(p) \/ CallbackReturns(p)
  BY <1>2, <1>5 DEF TimerFires, HandBack, CallbackReturns
<1>6. CASE CallerCancels \/ (\E s \in Sources : CloseSource(s)) \/ Finished \/ UNCHANGED vars
  BY <1>2, <1>6, CallFrame
<1>7. CASE \E r \in Reader : ConsumeReply(r) \/ Read(r)
  <2>1. PICK r \in Reader : ConsumeReply(r) \/ Read(r)
    BY <1>7
  <2>2. \A q \in Reader \ {r} : InHand(q)'
    BY <1>1, <2>1, ReaderMove
  <2> SUFFICES InHand(r)'
    BY <2>2 DEF ReaderInv
  <2> InHand(r)
    BY DEF ReaderInv
  <2>3. CASE CheckContext(r) \/ ReadOther(r) \/ ReadEnds(r) \/ ReadFails(r)
             \/ ReportFailure(r) \/ CountFailure(r)
    BY <1>1, <2>3 DEF CheckContext, ReadOther, ReadEnds, ReadFails, ReportFailure, CountFailure,
       Keep, Step, TypeOK
  <2>4. CASE \E reply \in Arriving : ReadReply(r, reply)
    <3>1. Arriving \subseteq Reply
      BY ArrivingType
    <3> QED BY <2>4, <3>1 DEF ReadReply, Step, InHand, TypeOK
  <2>5. CASE Drop(r, rpc[r], "check") \/ Drop(r, rpc[r], "ended")
    BY <2>5 DEF Drop, Step, InHand, TypeOK
  <2>6. CASE RecheckContext(r)
    BY <2>5, <2>6 DEF RecheckContext, Keep, Drop, Step, InHand, TypeOK
  <2>7. CASE FindSlot(r)
    BY <2>5, <2>7 DEF FindSlot, NamesSlot, Drop, Step, InHand, TypeOK
  <2>8. CASE LoadProbe(r)
    <3>1. PICK k \in Seen(r[1]) : IF Matches(slots[k][index[r]], frame[r])
                                  THEN /\ Step(r, "load", "answer")
                                       /\ match' = [match EXCEPT ![r] = slots[k][index[r]]]
                                       /\ UNCHANGED <<frame, index>>
                                  ELSE Drop(r, "load", "check")
      BY <2>8 DEF LoadProbe
    <3>2. k \in Scans
      BY Parameters DEF Seen, Reader, Scans, TypeOK
    <3>3. rpc[r] = "load" /\ index[r] \in Slots /\ frame[r] \in Reply
      BY <2>8 DEF LoadProbe, InHand
    <3>4. CASE Matches(slots[k][index[r]], frame[r])
      <4>1. PICK p \in Probe : p = slots[k][index[r]] /\ Placed(p) /\ frame[r].from = EndpointOfProbe(p)
        BY <3>2, <3>3, <3>4 DEF Matches, SlotInv, TypeOK
      <4>2. rpc'[r] = "answer" /\ UNCHANGED <<frame, index>> /\ match'[r] = p
        BY <3>1, <3>4, <4>1 DEF Step, TypeOK
      <4>3. Placed(p)'
        BY <4>1, PlacedStays
      <4> QED BY <3>3, <4>1, <4>2, <4>3 DEF InHand, EndpointOfProbe, Placed, Installing
    <3>5. CASE ~Matches(slots[k][index[r]], frame[r])
      BY <2>5, <3>1, <3>3, <3>5
    <3> QED BY <3>4, <3>5
  <2>9. CASE Answer(r)
    <3>1. CASE Keep(r, "answer", "release")
      <4>1. match[r] \in Probe /\ Placed(match[r])
        BY <3>1 DEF Keep, Step, InHand
      <4>2. Placed(match[r])'
        BY <2>1, <3>1, <4>1, ReaderFrame DEF Placed, Installing, Keep
      <4> QED BY <3>1, <4>1, <4>2 DEF Keep, Step, InHand, EndpointOfProbe, TypeOK
    <3> QED BY <2>5, <2>9, <3>1 DEF Answer, Drop, Step
  <2>10. CASE ReleaseAnswered(r)
    <3>1. rpc[r] = "release" /\ rpc'[r] = "dispatch" /\ UNCHANGED <<frame, index, match>>
      BY <2>10 DEF ReleaseAnswered, Keep, Step, TypeOK
    <3>2. match[r] \in Probe /\ Placed(match[r])
      BY <3>1 DEF InHand
    <3>3. Placed(match[r])'
      BY <2>1, <3>1, <3>2, ReaderFrame DEF Placed, Installing
    <3>4. hold'[match[r]] # "held"
      BY <2>10, <3>2 DEF ReleaseAnswered, CallRelease, FirstCall, TypeOK
    <3> QED BY <3>1, <3>2, <3>3, <3>4 DEF InHand, EndpointOfProbe
  <2>11. CASE Dispatch(r)
    BY <2>5, <2>11 DEF Dispatch, Drop, Step
  <2> QED BY <2>1, <2>3, <2>4, <2>6, <2>7, <2>8, <2>9, <2>10, <2>11 DEF ConsumeReply, Read
<1> QED BY <1>3, <1>4, <1>5, <1>6, <1>7 DEF Next

\* One winner per probe, and one result.
LEMMA AnswerStep == ASSUME IInv, [Next]_vars PROVE AnswerInv'
<1> USE DEF IInv
<1>1. ASSUME UNCHANGED <<answered, results>>,
             \A q \in Reader : rpc'[q] \in {"release", "dispatch"}
                => rpc[q] \in {"release", "dispatch"} /\ match'[q] = match[q]
      PROVE  AnswerInv'
  <2>1. \A p \in Probe : hold[p] = "released" => hold'[p] = "released"
    BY HoldStays
  <2> QED BY <1>1, <2>1 DEF AnswerInv, EndpointOfProbe
<1>2. CASE SendProbes \/ EndScan
  BY <1>1, <1>2, SendFrame, EndFrame
<1>3. CASE \E b \in Bases : StartScan(b)
  BY <1>1, <1>3 DEF StartScan
<1>4. CASE \E p \in Probe : TimerFires(p) \/ HandBack(p) \/ CallbackReturns(p)
  BY <1>1, <1>4 DEF TimerFires, HandBack, CallbackReturns
<1>5. CASE CallerCancels \/ (\E s \in Sources : CloseSource(s)) \/ Finished \/ UNCHANGED vars
  BY <1>1, <1>5, CallFrame
<1>6. CASE \E r \in Reader : ConsumeReply(r) \/ Read(r)
  <2>1. PICK r \in Reader : ConsumeReply(r) \/ Read(r)
    BY <1>6
  <2>2. \A q \in Reader \ {r} : rpc'[q] = rpc[q] /\ match'[q] = match[q]
    BY <2>1, ReaderMove
  <2>3. CASE rpc[r] \notin {"answer", "dispatch"}
    BY <1>1, <2>1, <2>2, <2>3, ReaderFrame, ReaderMove
  <2>4. CASE rpc[r] = "answer"
    <3>1. Answer(r) /\ match[r] \in Probe
      BY <2>1, <2>4, ReaderFrame DEF ReaderInv, InHand
    <3>2. CASE match[r] \in answered
      <4>1. UNCHANGED <<answered, results>> /\ rpc'[r] = "check"
        BY <3>1, <3>2 DEF Answer, AlreadyAnswered, Drop, Step, TypeOK
      <4> QED BY <1>1, <2>2, <4>1
    <3>3. CASE match[r] \notin answered
      <4>1. /\ rpc'[r] = "release" /\ UNCHANGED <<match, results, hold>>
            /\ answered' = answered \cup {match[r]}
        BY <3>1, <3>3 DEF Answer, AlreadyAnswered, Keep, Step, TypeOK
      <4>2. results[match[r]] = <<>>
        BY <3>1, <3>3 DEF AnswerInv
      <4>3. \A q \in Reader \ {r} : rpc[q] \in {"release", "dispatch"} => match[q] # match[r]
        BY <3>3 DEF AnswerInv
      <4> QED BY <2>2, <4>1, <4>2, <4>3 DEF AnswerInv, EndpointOfProbe
    <3> QED BY <3>2, <3>3
  <2>5. CASE rpc[r] = "dispatch"
    <3>1. /\ match[r] \in Probe /\ match[r] \in answered /\ results[match[r]] = <<>>
          /\ frame[r].from = EndpointOfProbe(match[r])
      BY <2>5 DEF ReaderInv, InHand, AnswerInv
    <3>2. /\ hold[match[r]] = "released" /\ rpc'[r] = "check" /\ UNCHANGED <<answered, hold>>
          /\ results' = [results EXCEPT ![match[r]] = results[match[r]] \o <<frame[r].from>>]
      <4>1. Dispatch(r)
        BY <2>1, <2>5, ReaderFrame
      <4> QED BY <4>1 DEF Dispatch, Reported, Drop, Step, TypeOK
    <3>3. results'[match[r]] = <<EndpointOfProbe(match[r])>>
      BY <3>1, <3>2 DEF TypeOK
    <3>4. \A p \in Probe \ {match[r]} : results'[p] = results[p]
      BY <3>1, <3>2 DEF TypeOK
    <3>5. \A q \in Reader \ {r} : rpc[q] \in {"release", "dispatch"} => match[q] # match[r]
      BY <2>5 DEF AnswerInv
    <3>6. \A q \in Reader : rpc'[q] \in {"release", "dispatch"}
             => q # r /\ match'[q] \in answered /\ match'[q] \in Probe /\ match'[q] # match[r]
      BY <2>2, <3>2, <3>5 DEF AnswerInv, ReaderInv, InHand
    <3>7. \A q \in Reader : rpc'[q] \in {"release", "dispatch"} => results'[match'[q]] = <<>>
      BY <2>2, <3>4, <3>6 DEF AnswerInv
    <3>8. \A p \in Probe : /\ results'[p] \in {<<>>, <<EndpointOfProbe(p)>>}
                           /\ results'[p] # <<>> => p \in answered' /\ hold'[p] = "released"
      BY <3>1, <3>2, <3>3, <3>4 DEF AnswerInv
    <3>9. \A q, o \in Reader :
             (rpc'[q] \in {"release", "dispatch"} /\ rpc'[o] \in {"release", "dispatch"} /\ q # o)
                => match'[q] # match'[o]
      BY <2>2, <3>6 DEF AnswerInv
    <3> QED BY ONLY <3>2, <3>6, <3>7, <3>8, <3>9 DEF AnswerInv, EndpointOfProbe
  <2> QED BY <2>3, <2>4, <2>5
<1> QED BY <1>2, <1>3, <1>4, <1>5, <1>6 DEF Next

\* A release clears the slot of the probe it is called for, and no other.
LEMMA ReleaseSlot ==
    ASSUME IInv, NEW p \in Probe, Placed(p), CallRelease(p), UNCHANGED <<scan, slotOf>>,
           \A q \in Probe : Placed(q)' <=> Placed(q)
    PROVE  SlotInv'
<1> USE DEF IInv
<1>1. CASE ~FirstCall(p)
  <2>1. UNCHANGED <<hold, slots>>
    BY <1>1 DEF CallRelease
  <2>2. \A k \in Scans : \A s \in Slots : slots[k][s] # None => slots[k][s] \in Probe /\ Placed(slots[k][s])'
    BY <2>1 DEF SlotInv, TypeOK, Placed, Installing
  <2> QED BY <2>1, <2>2 DEF SlotInv, Placed, Installing
<1>2. CASE FirstCall(p)
  <2>1. PICK j \in Seen(p[1]) : slots' = SlotsCleared(p, j)
    BY <1>2 DEF CallRelease
  <2>2. /\ hold[p] = "held" /\ hold' = [hold EXCEPT ![p] = "cleared"]
        /\ slotOf[p] \in Slots /\ p[1] \in Scans /\ p[1] =< scan
    <3>1. hold[p] = "held" /\ hold' = [hold EXCEPT ![p] = "cleared"]
      BY <1>2 DEF CallRelease, FirstCall
    <3>2. slotOf[p] \in Slots
      BY DEF Placed, TypeOK
    <3>3. p[1] \in Scans /\ ~(p[1] > scan)
      BY DEF Placed, ProbeInv, Probe
    <3>4. p[1] \in Int /\ scan \in Int
      BY <3>3, Parameters DEF Scans, TypeOK
    <3> QED BY ONLY <3>1, <3>2, <3>3, <3>4
  <2>3. j \in Scans /\ (p[1] = scan => j = scan)
    <3>1. NScans \in Nat /\ scan \in 0..NScans
      BY Parameters DEF TypeOK
    <3>2. p[1] \in 1..NScans /\ j \in p[1]..scan
      BY <2>1, <2>2 DEF Seen, Scans
    <3> QED BY ONLY <3>1, <3>2 DEF Scans
  <2>4. ASSUME NEW k \in Scans, NEW s \in Slots
        PROVE  slots'[k][s] = IF k = j /\ s = slotOf[p] /\ slots[k][s] = p THEN None ELSE slots[k][s]
    BY <2>1, <2>2, <2>3 DEF SlotsCleared, TypeOK
  <2>5. ASSUME NEW k \in Scans, NEW s \in Slots, slots'[k][s] # None
        PROVE  /\ slots'[k][s] = slots[k][s] /\ slots[k][s] \in Probe
               /\ slots[k][s][1] = k /\ slotOf[slots[k][s]] = s /\ Placed(slots[k][s])'
    BY <2>4, <2>5 DEF SlotInv, TypeOK
  <2>6. ASSUME NEW q \in Probe, q[1] = scan, Placed(q)
        PROVE  slots'[scan][slotOf[q]] = q <=> hold'[q] = "held"
    <3>1. slotOf[q] \in Slots /\ scan \in Scans /\ (slots[scan][slotOf[q]] = q <=> hold[q] = "held")
      BY <2>6 DEF SlotInv, Placed, TypeOK, Probe
    <3>2. CASE q = p
      BY <2>2, <2>3, <2>4, <2>6, <3>1, <3>2, NoneAssumption DEF TypeOK
    <3>3. CASE q # p
      <4>1. hold'[q] = hold[q]
        BY <2>2, <3>3 DEF TypeOK
      <4>2. slots'[scan][slotOf[q]] = IF scan = j /\ slotOf[q] = slotOf[p] /\ slots[scan][slotOf[q]] = p
                                      THEN None ELSE slots[scan][slotOf[q]]
        BY <2>4, <3>1
      <4> QED BY <3>1, <3>3, <4>1, <4>2, NoneAssumption
    <3> QED BY <3>2, <3>3
  <2> QED BY <2>5, <2>6 DEF SlotInv, Placed, Installing
<1> QED BY <1>1, <1>2

\* The slots, into which only Install writes a probe.
LEMMA SlotStep == ASSUME IInv, [Next]_vars PROVE SlotInv'
<1> USE DEF IInv
<1>1. ASSUME UNCHANGED <<slots, scan, slotOf>>,
             \A p \in Probe : (Placed(p)' <=> Placed(p)) /\ (hold'[p] = "held" <=> hold[p] = "held")
      PROVE  SlotInv'
  <2>1. \A k \in Scans : \A s \in Slots : slots[k][s] # None => slots[k][s] \in Probe /\ Placed(slots[k][s])'
    BY <1>1 DEF SlotInv, TypeOK, Placed, Installing
  <2> QED BY <1>1, <2>1 DEF SlotInv, Placed, Installing
<1>2. CASE \E b \in Bases : StartScan(b)
  <2>1. /\ scan' = scan + 1 /\ scan \in Nat /\ pc' # "install" /\ pc # "install"
        /\ UNCHANGED <<slots, slotOf, hold>>
    BY <1>2, Parameters DEF StartScan, TypeOK
  <2>2. \A p \in Probe : p[1] = scan' => slotOf'[p] = None
    BY <2>1 DEF ProbeInv
  <2> QED BY <2>1, <2>2 DEF SlotInv, Placed, Installing
<1>4. CASE SendProbes
  <2>1. CASE Acquire
    <3>1. cur \in Probe /\ slotOf[cur] = None /\ slotOf' = [slotOf EXCEPT ![cur] = Head(free[scan])]
          /\ UNCHANGED <<slots, scan, hold, cur>> /\ pc = "acquire" /\ pc' = "install"
      BY <2>1 DEF Acquire, SenderInv, Probing
    <3>2. \A p \in Probe : (Placed(p)' <=> Placed(p)) /\ (Placed(p) => slotOf'[p] = slotOf[p])
      BY <3>1 DEF Placed, Installing, TypeOK
    <3>3. \A k \in Scans : \A s \in Slots : slots[k][s] # None =>
             /\ slots[k][s] \in Probe /\ Placed(slots[k][s])
             /\ slots[k][s][1] = k /\ slotOf[slots[k][s]] = s
      BY DEF TypeOK, SlotInv
    <3>4. \A k \in Scans : \A s \in Slots : slots[k][s] # None =>
             /\ slots[k][s][1] = k /\ slotOf'[slots[k][s]] = s /\ Placed(slots[k][s])'
      BY <3>1, <3>2, <3>3 DEF Placed, Installing
    <3>5. \A p \in Probe : (p[1] = scan /\ Placed(p)') => (slots[scan][slotOf'[p]] = p <=> hold[p] = "held")
      BY <3>2 DEF SlotInv
    <3> QED BY <3>1, <3>4, <3>5 DEF SlotInv, Placed, Installing
  <2>2. CASE pc = "install"
    <3>1. /\ cur \in Probe /\ cur[1] = scan /\ slotOf[cur] \in Slots /\ hold[cur] = "held"
          /\ slots' = [slots EXCEPT ![scan][slotOf[cur]] = cur] /\ scan \in Scans /\ pc' = "send"
          /\ UNCHANGED <<scan, slotOf, hold, cur>>
      <4>1. cur \in Probe /\ cur[1] = scan /\ slotOf[cur] # None /\ hold[cur] = "held" /\ scan \in Scans
        BY <2>2 DEF SenderInv, Probing, ProbeInv, Placed, Installing
      <4> QED BY <1>4, <2>2, <4>1, SendFrame DEF Install, TypeOK
    <3>2. \A p \in Probe : Placed(p)' <=> (Placed(p) \/ p = cur)
      BY <2>2, <3>1, NoneAssumption DEF Placed, Installing
    <3>3. ASSUME NEW p \in Probe, p[1] = scan, hold[p] = "held", slotOf[p] = slotOf[cur] PROVE p = cur
      BY <3>1, <3>3, Parameters DEF PoolInv, Pooled, Holds, Scans
    <3>4. ASSUME NEW k \in Scans, NEW s \in Slots
          PROVE  slots'[k][s] = IF k = scan /\ s = slotOf[cur] THEN cur ELSE slots[k][s]
      BY <3>1 DEF TypeOK
    <3>5. ASSUME NEW k \in Scans, NEW s \in Slots, slots'[k][s] # None
          PROVE  /\ slots'[k][s] \in Probe /\ slots'[k][s][1] = k /\ slotOf[slots'[k][s]] = s
                 /\ Placed(slots'[k][s]) \/ slots'[k][s] = cur
      BY <3>1, <3>4, <3>5 DEF SlotInv, TypeOK
    <3>6. ASSUME NEW k \in Scans, NEW s \in Slots, slots'[k][s] # None
          PROVE  slotOf'[slots'[k][s]] # None /\ ~(pc' = "install" /\ cur' = slots'[k][s])
      BY <3>1, <3>5, <3>6, NoneAssumption
    <3>7. ASSUME NEW p \in Probe, p[1] = scan, Placed(p)'
          PROVE  slots'[scan][slotOf[p]] = p <=> hold[p] = "held"
      <4>1. CASE p = cur
        BY <3>1, <3>4, <4>1
      <4>2. CASE p # cur
        <5>1. Placed(p) /\ slotOf[p] \in Slots
          BY <3>2, <3>7, <4>2 DEF Placed, TypeOK
        <5>2. slots[scan][slotOf[p]] = p <=> hold[p] = "held"
          BY <3>7, <5>1 DEF SlotInv
        <5> QED BY <3>1, <3>3, <3>4, <3>7, <4>2, <5>1, <5>2
      <4> QED BY <4>1, <4>2
    <3> QED BY <3>1, <3>5, <3>6, <3>7 DEF SlotInv, Placed, Installing
  <2>3. CASE pc = "discard"
    <3>1. cur \in Probe /\ Placed(cur)
      BY <2>3 DEF SenderInv, Probing, Placed, Installing
    <3>2. CallRelease(cur) /\ UNCHANGED <<scan, slotOf, cur>> /\ pc' = "discarded"
      BY <1>4, <2>3, SendFrame DEF Discard
    <3>3. \A q \in Probe : Placed(q)' <=> Placed(q)
      BY <2>3, <3>2 DEF Placed, Installing
    <3> QED BY <3>1, <3>2, <3>3, ReleaseSlot
  <2>4. CASE ~Acquire /\ pc # "install" /\ pc # "discard"
    <3>1. pc' # "install"
      BY <1>4, <2>4 DEF SendProbes, StopSending, StopAcquiring, Install, SendSucceeds, SendFails,
         RetrySend, StopRetrying, Discard, Discarded, Arm, FinishSending, SkipTarget, TakeTarget
    <3> QED BY <1>1, <1>4, <2>4, <3>1, SendFrame DEF Placed, Installing
  <2> QED BY <2>1, <2>2, <2>3, <2>4
<1>5. CASE EndScan
  BY <1>1, <1>5, EndFrame DEF Placed, Installing
<1>6. CASE \E p \in Probe : TimerFires(p) \/ HandBack(p) \/ CallbackReturns(p)
  <2>1. PICK p \in Probe : TimerFires(p) \/ HandBack(p) \/ CallbackReturns(p)
    BY <1>6
  <2>2. CASE TimerFires(p)
    <3>1. Placed(p)
      BY <2>2 DEF TimerFires, ProbeInv
    <3>2. CallRelease(p) /\ UNCHANGED <<scan, slotOf, cur, pc>>
      BY <2>2 DEF TimerFires
    <3>3. \A q \in Probe : Placed(q)' <=> Placed(q)
      BY <3>2 DEF Placed, Installing
    <3> QED BY <3>1, <3>2, <3>3, ReleaseSlot
  <2>3. CASE HandBack(p)
    BY <1>1, <2>3 DEF HandBack, TypeOK, Placed, Installing
  <2>4. CASE CallbackReturns(p)
    BY <1>1, <2>4 DEF CallbackReturns, Placed, Installing
  <2> QED BY <2>1, <2>2, <2>3, <2>4
<1>7. CASE \E r \in Reader : ConsumeReply(r) \/ Read(r)
  <2>1. PICK r \in Reader : ConsumeReply(r) \/ Read(r)
    BY <1>7
  <2>2. UNCHANGED <<scan, slotOf, cur, pc>> /\ \A q \in Probe : Placed(q)' <=> Placed(q)
    BY <2>1, ReaderFrame DEF Placed, Installing
  <2>3. CASE rpc[r] = "release"
    <3>1. match[r] \in Probe /\ Placed(match[r]) /\ CallRelease(match[r])
      BY <2>1, <2>3, ReaderFrame DEF ReleaseAnswered, ReaderInv, InHand
    <3> QED BY <2>2, <3>1, ReleaseSlot
  <2>4. CASE rpc[r] # "release"
    BY <1>1, <2>1, <2>2, <2>4, ReaderFrame
  <2> QED BY <2>3, <2>4
<1>8. CASE CallerCancels \/ (\E s \in Sources : CloseSource(s)) \/ Finished \/ UNCHANGED vars
  BY <1>1, <1>8, CallFrame DEF Placed, Installing
<1> QED BY <1>2, <1>4, <1>5, <1>6, <1>7, <1>8 DEF Next

\* The sequence numbers on the wire.
LEMMA WireStep == ASSUME IInv, [Next]_vars PROVE WireInv'
<1> USE DEF IInv
<1>1. ASSUME UNCHANGED <<wire, scan, base>>
      PROVE  WireInv'
  <2> SUFFICES ASSUME NEW w \in wire
               PROVE  /\ Placed(w.probe)'
                      /\ w.probe[1] = scan => w.seq = SequenceNumber(slotOf[w.probe])'
    BY <1>1 DEF WireInv, Placed, Installing, SequenceNumber
  <2>1. w.probe \in Probe /\ Placed(w.probe)
    BY DEF TypeOK, WireInv
  <2>2. Placed(w.probe)' /\ slotOf'[w.probe] = slotOf[w.probe]
    BY <2>1, PlacedStays
  <2> QED BY <1>1, <2>2 DEF WireInv, SequenceNumber
<1>2. CASE \E b \in Bases : StartScan(b)
  <2>1. scan' = scan + 1 /\ scan \in Nat /\ pc' # "install" /\ UNCHANGED <<wire, slotOf>>
    BY <1>2, Parameters DEF StartScan, TypeOK
  <2>2. \A w \in wire : w.probe \in Probe /\ slotOf[w.probe] # None
    BY DEF WireInv, Placed, TypeOK
  <2>3. \A w \in wire : w.probe[1] # scan + 1
    BY <2>1, <2>2 DEF ProbeInv
  <2> QED BY <2>1, <2>2, <2>3 DEF WireInv, Placed, Installing
<1>4. CASE SendProbes
  <2>1. CASE SendSucceeds
    <3>1. /\ wire' = wire \cup {[probe |-> cur, seq |-> SequenceNumber(slotOf[cur])]}
          /\ UNCHANGED <<scan, base, slotOf, cur>> /\ pc = "send" /\ pc' = "arm"
      BY <2>1 DEF SendSucceeds
    <3>2. slotOf[cur] # None
      BY <3>1 DEF SenderInv, Probing
    <3>3. \A w \in wire : slotOf[w.probe] # None
      BY DEF WireInv, Placed
    <3>4. ASSUME NEW w \in wire'
          PROVE  /\ slotOf[w.probe] # None
                 /\ w.probe[1] = scan => w.seq = SequenceNumber(slotOf[w.probe])
      <4>1. CASE w \in wire
        BY <3>1, <3>3, <4>1 DEF WireInv
      <4>2. CASE w = [probe |-> cur, seq |-> SequenceNumber(slotOf[cur])]
        BY <3>2, <4>2
      <4> QED BY <3>1, <4>1, <4>2
    <3>5. \A w \in wire' : Placed(w.probe)'
      BY <3>1, <3>4 DEF Placed, Installing
    <3>6. \A w \in wire' : w.probe[1] = scan => w.seq = SequenceNumber(slotOf[w.probe])'
      BY <3>1, <3>4 DEF SequenceNumber
    <3> QED BY <3>1, <3>5, <3>6 DEF WireInv
  <2>2. CASE ~SendSucceeds
    <3>1. UNCHANGED wire
      BY <1>4, <2>2 DEF SendProbes, StopSending, Acquire, StopAcquiring, Install, SendFails,
         RetrySend, StopRetrying, Discard, Discarded, Arm, FinishSending, SkipTarget, TakeTarget
    <3> QED BY <1>1, <1>4, <3>1, SendFrame
  <2> QED BY <2>1, <2>2
<1>5. CASE EndScan
  BY <1>1, <1>5, EndFrame
<1>6. CASE \E p \in Probe : TimerFires(p) \/ HandBack(p) \/ CallbackReturns(p)
  BY <1>1, <1>6 DEF TimerFires, HandBack, CallbackReturns
<1>7. CASE \E r \in Reader : ConsumeReply(r) \/ Read(r)
  BY <1>1, <1>7, ReaderFrame
<1>8. CASE CallerCancels \/ (\E s \in Sources : CloseSource(s)) \/ Finished \/ UNCHANGED vars
  BY <1>1, <1>8, CallFrame
<1> QED BY <1>2, <1>4, <1>5, <1>6, <1>7, <1>8 DEF Next

\* A Scanner that has not run.
LEMMA InitInv == Init => IInv
<1> SUFFICES ASSUME Init PROVE IInv
  OBVIOUS
<1> USE DEF Init
<1>1. TypeOK
  <2>1. 0 \in SeqNumbers /\ 0 \in 0..NScans
    BY Parameters DEF SeqNumbers
  <2>2. free \in [Scans -> Seq(Slots)] /\ results \in [Probe -> Seq(Endpoints)]
    <3>1. <<>> \in Seq(Slots) /\ <<>> \in Seq(Endpoints)
      OBVIOUS
    <3> QED BY <3>1, Zenon
  <2>6. slots \in [Scans -> [Slots -> Probe \cup {None}]] /\ base \in [Scans -> SeqNumbers]
    <3>1. [s \in Slots |-> None] \in [Slots -> Probe \cup {None}]
      OBVIOUS
    <3> QED BY <2>1, <3>1
  <2>3. /\ live \in [Scans -> Int] /\ errs \in [Scans -> Nat]
        /\ slotOf \in [Probe -> Slots \cup {None}] /\ delivered \in [Probe -> Nat]
        /\ frame \in [Reader -> Reply \cup {None}] /\ index \in [Reader -> Slots \cup {None}]
        /\ match \in [Reader -> Probe \cup {None}]
    OBVIOUS
  <2>4. outcome \in [Scans -> Outcome \cup {None}]
    OBVIOUS
  <2>5. /\ hold \in [Probe -> {"held", "cleared", "released"}]
        /\ timer \in [Probe -> {"unset", "armed", "fired"}]
        /\ rpc \in [Reader -> {"unstarted", "check", "read", "recheck", "slot", "load", "answer",
                               "release", "dispatch", "failed", "count", "ended"}]
    OBVIOUS
  <2> QED BY <2>1, <2>2, <2>3, <2>4, <2>5, <2>6 DEF TypeOK
<1>2. SenderInv /\ ProbeInv /\ ReaderInv
  BY DEF SenderInv, Probing, ProbeInv, ReaderInv, InHand
<1>3. AnswerInv /\ SlotInv /\ WireInv
  BY DEF AnswerInv, SlotInv, WireInv, Placed
<1>4. PoolInv
  <2>1. \A k \in Scans : ~Pooled(k)
    BY Parameters DEF Pooled, Scans
  <2> QED BY <2>1 DEF PoolInv
<1> QED BY <1>1, <1>2, <1>3, <1>4 DEF IInv

\* Every step keeps the invariant.
LEMMA NextInv == ASSUME IInv, [Next]_vars PROVE IInv'
BY TypeStep, PoolStep, SenderStep, ProbeStep, ReaderStep, AnswerStep, SlotStep, WireStep DEF IInv

\* The inductive invariant holds in every state of a Scanner.
THEOREM Invariant == Spec => []IInv
<1> QED BY InitInv, NextInv, PTL DEF Spec

\* Every variable keeps its type, whatever the targets, the sources and the faults are.
THEOREM TypeCorrect == Spec => []TypeOK
<1>1. IInv => TypeOK
  BY DEF IInv
<1> QED BY <1>1, Invariant, PTL

----------------------------------------------------------------------------
\* Every slot number is in the channel or held by exactly one probe (scanner.go:239-240), for any
\* concurrency and any number of scans, readers and duplicate replies.
THEOREM SlotPoolCorrect == Spec => []SlotPool
<1>1. ASSUME IInv PROVE SlotPool
  <2> SUFFICES ASSUME NEW k \in 1..scan
               PROVE  /\ Distinct(free[k])
                      /\ \A s \in Slots : IF s \in Elements(free[k])
                                          THEN Holders(k, s) = {}
                                          ELSE \E p \in Probe : Holders(k, s) = {p}
    BY DEF SlotPool
  <2> k \in Scans /\ Pooled(k)
    BY <1>1, Parameters DEF IInv, TypeOK, Scans, Pooled
  <2>1. Distinct(free[k])
    BY <1>1 DEF IInv, PoolInv
  <2>2. ASSUME NEW s \in Slots, s \in Elements(free[k]) PROVE Holders(k, s) = {}
    BY <1>1, <2>2 DEF IInv, PoolInv, Holders, Holds
  <2>3. ASSUME NEW s \in Slots, s \notin Elements(free[k]) PROVE \E p \in Probe : Holders(k, s) = {p}
    <3>1. PICK p \in Probe : p[1] = k /\ Holds(p, s)
      BY <1>1, <2>3 DEF IInv, PoolInv
    <3>2. \A q \in Probe : (q[1] = k /\ Holds(q, s)) => q = p
      BY <1>1, <3>1 DEF IInv, PoolInv
    <3>3. Holders(k, s) = {p}
      BY <3>1, <3>2 DEF Holders, Holds
    <3> QED BY <3>3
  <2> QED BY <2>1, <2>2, <2>3
<1> QED BY <1>1, Invariant, PTL

\* Numbers that are all different and miss one slot leave room in the channel.
LEMMA RoomForOne ==
    ASSUME NEW f \in Seq(Slots), Distinct(f), NEW s \in Slots, s \notin Elements(f)
    PROVE  Len(f) < Concurrency
<1>1. IsFiniteSet(Slots) /\ Cardinality(Slots) = Concurrency
  BY FS_Interval, Parameters DEF Slots
<1>2. IsFiniteSet(Slots \ {s}) /\ Cardinality(Slots \ {s}) = Concurrency - 1
  BY <1>1, FS_RemoveElement
<1>3. IsFiniteSet(1..Len(f)) /\ Cardinality(1..Len(f)) = Len(f)
  <2>1. 1 \in Int /\ Len(f) \in Nat
    OBVIOUS
  <2> QED BY <2>1, FS_Interval
<1>4. f \in [1..Len(f) -> Slots \ {s}]
  <2>1. \A i \in 1..Len(f) : f[i] \in Slots \ {s}
    BY DEF Elements
  <2> QED BY <2>1
<1>5. Len(f) =< Concurrency - 1
  <2> SUFFICES ASSUME Len(f) > Concurrency - 1 PROVE FALSE
    BY Parameters
  <2>1. PICK i, j \in 1..Len(f) : i # j /\ f[i] = f[j]
    BY <1>2, <1>3, <1>4, FS_PigeonHole
  <2> QED BY <2>1 DEF Distinct
<1> QED BY <1>5, Parameters

\* A release never blocks (scanner.go:240): there is room in the channel for the number of every
\* probe that has cleared its slot.
THEOREM ReleaseHasRoom == Spec => []ReleaseNeverBlocks
<1>1. ASSUME IInv PROVE ReleaseNeverBlocks
  <2> SUFFICES ASSUME NEW p \in Probe, hold[p] = "cleared" PROVE Len(free[p[1]]) < Concurrency
    BY DEF ReleaseNeverBlocks
  <2>1. Placed(p) /\ p[1] \in Scans /\ p[1] =< scan /\ (p[1] = scan => p[2] \notin todo)
    <3>1. Placed(p)
      BY <1>1 DEF IInv, ProbeInv
    <3>2. p[1] \in Scans /\ ~(p[1] > scan \/ (p[1] = scan /\ p[2] \in todo))
      BY <1>1, <3>1 DEF IInv, ProbeInv, Placed, Probe
    <3>3. p[1] \in Int /\ scan \in Int
      BY <1>1, <3>2, Parameters DEF IInv, Scans, TypeOK
    <3> QED BY <3>1, <3>2, <3>3
  <2>2. Pooled(p[1])
    BY <1>1, <2>1, Parameters DEF IInv, SenderInv, Pooled, Probe, TypeOK, Scans
  <2>3. slotOf[p] \in Slots /\ Holds(p, slotOf[p])
    BY <1>1, <2>1 DEF IInv, TypeOK, Placed, Holds
  <2>4. Distinct(free[p[1]]) /\ slotOf[p] \notin Elements(free[p[1]])
    BY <1>1, <2>1, <2>2, <2>3 DEF IInv, PoolInv
  <2>5. free[p[1]] \in Seq(Slots)
    BY <1>1, <2>1 DEF IInv, TypeOK
  <2> QED BY <2>3, <2>4, <2>5, RoomForOne
<1> QED BY <1>1, Invariant, PTL

\* The number that is handed out names a nil slot (scanner.go:423-424).
THEOREM FreeSlotsAreNil == Spec => []FreeSlotIsNil
<1>1. ASSUME IInv PROVE FreeSlotIsNil
  <2>1. ASSUME scan > 0, NEW s \in Elements(free[scan]) PROVE slots[scan][s] = None
    <3>1. scan \in Scans /\ Pooled(scan)
      BY <1>1, <2>1, Parameters DEF IInv, TypeOK, Scans, Pooled
    <3>2. s \in Slots
      BY <1>1, <3>1 DEF IInv, TypeOK, Elements
    <3> DEFINE p == slots[scan][s]
    <3>3. p # None => /\ p \in Probe /\ p[1] = scan /\ slotOf[p] = s /\ Placed(p) /\ hold[p] = "held"
      BY <1>1, <3>1, <3>2 DEF IInv, TypeOK, SlotInv
    <3> QED BY <1>1, <3>1, <3>2, <3>3 DEF IInv, PoolInv, Holds
  <2>2. ASSUME pc = "install" PROVE slots[scan][slotOf[cur]] = None
    <3>1. /\ scan \in Scans /\ Pooled(scan) /\ cur \in Probe /\ cur[1] = scan
          /\ slotOf[cur] \in Slots /\ hold[cur] = "held"
      BY <1>1, <2>2 DEF IInv, TypeOK, SenderInv, Probing, ProbeInv, Placed, Installing, Pooled, Scans
    <3> DEFINE p == slots[scan][slotOf[cur]]
    <3>2. p # None => p \in Probe /\ p[1] = scan /\ Holds(p, slotOf[cur]) /\ Placed(p)
      BY <1>1, <3>1 DEF IInv, TypeOK, SlotInv, Holds
    <3>3. Holds(cur, slotOf[cur])
      BY <3>1 DEF Holds
    <3>4. p # None => p = cur
      BY <1>1, <3>1, <3>2, <3>3 DEF IInv, PoolInv
    <3> QED BY <2>2, <3>2, <3>4 DEF Placed, Installing
  <2> QED BY <2>1, <2>2 DEF FreeSlotIsNil
<1> QED BY <1>1, Invariant, PTL

----------------------------------------------------------------------------
\* A probe never has a second result (README.md, How SYN replies are matched), however many
\* readers match copies of its reply at once.
THEOREM OneResult == Spec => []AtMostOneResult
<1>1. ASSUME IInv PROVE AtMostOneResult
  <2> SUFFICES ASSUME NEW p \in Probe PROVE Len(results[p]) =< 1
    BY DEF AtMostOneResult
  <2>1. results[p] = <<>> \/ results[p] = <<EndpointOfProbe(p)>>
    BY <1>1 DEF IInv, AnswerInv
  <2>2. CASE results[p] = <<>>
    BY <2>2
  <2>3. CASE results[p] = <<EndpointOfProbe(p)>>
    BY <2>3
  <2> QED BY <2>1, <2>2, <2>3
<1> QED BY <1>1, Invariant, PTL

\* The remainder of a number at most two moduli away.
LEMMA ModRange ==
    /\ \A x \in 0..(SeqMod - 1) : x % SeqMod = x
    /\ \A x \in SeqMod..(2 * SeqMod - 1) : x % SeqMod = x - SeqMod
    /\ \A x \in (-SeqMod)..(-1) : x % SeqMod = x + SeqMod
    /\ \A x \in (-(2 * SeqMod))..(-SeqMod - 1) : x % SeqMod = x + 2 * SeqMod
<1>1. SeqMod \in Nat /\ SeqMod > 0
  BY Parameters
<1> QED BY <1>1

\* The acknowledgement of a probe's number names its slot again, across every wrap-around.
LEMMA NumberNamesSlot ==
    ASSUME NEW b \in SeqNumbers, NEW s \in Slots
    PROVE  (((((b + s) % SeqMod) + 1) % SeqMod) - 1 - b) % SeqMod = s
<1>1. /\ SeqMod \in Nat /\ SeqMod > 0 /\ s \in 0..(SeqMod - 1) /\ b \in 0..(SeqMod - 1)
  BY Parameters DEF Slots, SeqNumbers
<1> DEFINE n == (b + s) % SeqMod
           a == (n + 1) % SeqMod
<1>2. n = IF b + s < SeqMod THEN b + s ELSE b + s - SeqMod
  BY <1>1, ModRange
<1>3. n \in 0..(SeqMod - 1)
  BY <1>1, <1>2
<1> HIDE DEF n
<1>4. a = IF n + 1 < SeqMod THEN n + 1 ELSE 0
  BY <1>1, <1>3, ModRange
<1> HIDE DEF a
<1>5. a \in 0..(SeqMod - 1)
  BY <1>1, <1>3, <1>4
<1>6. a - 1 - b \in {s, s - SeqMod, s - 2 * SeqMod}
  BY <1>1, <1>2, <1>3, <1>4
<1>7. (a - 1 - b) % SeqMod = s
  BY <1>1, <1>5, <1>6, ModRange
<1> QED BY <1>7 DEF a, n

\* A reply to a probe that is out and unreleased is matched: the slot that its acknowledgement
\* names holds the probe, whatever stale timers, readers and earlier scans do to the slots.
THEOREM ProbesFindable == Spec => []ProbeFindable
<1>1. ASSUME IInv PROVE ProbeFindable
  <2> SUFFICES ASSUME NEW w \in wire, w.probe[1] = scan, hold[w.probe] = "held"
               PROVE  /\ slots[scan][slotOf[w.probe]] = w.probe
                      /\ SlotOfReply(Answering(w), scan) = slotOf[w.probe]
    BY DEF ProbeFindable
  <2>1. w.probe \in Probe /\ Placed(w.probe) /\ w.seq = SequenceNumber(slotOf[w.probe])
    BY <1>1 DEF IInv, TypeOK, WireInv
  <2>2. slotOf[w.probe] \in Slots /\ base[scan] \in SeqNumbers
    BY <1>1, <2>1 DEF IInv, TypeOK, Placed, Probe
  <2>3. slots[scan][slotOf[w.probe]] = w.probe
    BY <1>1, <2>1 DEF IInv, SlotInv
  <2>4. SlotOfReply(Answering(w), scan) = slotOf[w.probe]
    BY <2>1, <2>2, NumberNamesSlot DEF SlotOfReply, Answering, SequenceNumber
  <2> QED BY <2>3, <2>4
<1> QED BY <1>1, Invariant, PTL

\* A probe that has its result keeps it, stays released and never returns to a slot.
THEOREM ResultStays == Spec => ResultIsFinal
<1>1. ASSUME IInv, IInv', [Next]_vars
      PROVE  \A p \in Probe : results[p] # <<>> =>
                /\ results'[p] = results[p]
                /\ hold'[p] = "released"
                /\ p[1] = scan => \A s \in Slots : slots'[scan][s] # p
  <2> SUFFICES ASSUME NEW p \in Probe, results[p] # <<>>
               PROVE  /\ results'[p] = results[p]
                      /\ hold'[p] = "released"
                      /\ p[1] = scan => \A s \in Slots : slots'[scan][s] # p
    OBVIOUS
  <2>1. hold[p] = "released" /\ hold'[p] = "released"
    BY <1>1, HoldStays DEF IInv, AnswerInv
  <2>2. ASSUME p[1] = scan, NEW s \in Slots, slots'[scan][s] = p PROVE FALSE
    <3>1. scan \in Scans /\ slotOf'[p] = s /\ Placed(p)'
      BY <1>1, <2>2, NoneAssumption DEF IInv, SlotInv, Probe, Placed, Installing
    <3>2. CASE scan' = scan
      BY <1>1, <2>1, <2>2, <3>1, <3>2 DEF IInv, SlotInv, Placed, Installing
    <3>3. CASE scan' # scan
      <4>1. UNCHANGED <<slots, slotOf, hold>> /\ pc # "install"
        BY <1>1, <3>3, SendFrame, EndFrame, ReaderFrame, CallFrame DEF Next, StartScan, TimerFires, HandBack,
           CallbackReturns
      <4>2. Placed(p)
        BY <3>1, <4>1 DEF Placed, Installing
      <4> QED BY <1>1, <2>1, <2>2, <3>1, <4>1, <4>2 DEF IInv, SlotInv
    <3> QED BY <3>2, <3>3
  <2>3. results'[p] = results[p]
    <3>1. CASE \E r \in Reader : ConsumeReply(r) \/ Read(r)
      <4>1. PICK r \in Reader : ConsumeReply(r) \/ Read(r)
        BY <3>1
      <4>2. CASE rpc[r] = "dispatch"
        <5>1. match[r] # p
          BY <1>1, <4>2 DEF IInv, AnswerInv
        <5> QED BY <1>1, <4>1, <4>2, <5>1, ReaderFrame DEF Dispatch, IInv, TypeOK
      <4>3. CASE rpc[r] # "dispatch"
        BY <4>1, <4>3, ReaderFrame
      <4> QED BY <4>2, <4>3
    <3>2. CASE \E q \in Probe : TimerFires(q) \/ HandBack(q) \/ CallbackReturns(q)
      BY <3>2 DEF TimerFires, HandBack, CallbackReturns
    <3>3. CASE \E b \in Bases : StartScan(b)
      BY <3>3 DEF StartScan
    <3>4. CASE SendProbes \/ EndScan
      BY <3>4, SendFrame, EndFrame
    <3>5. CASE CallerCancels \/ (\E s \in Sources : CloseSource(s)) \/ Finished \/ UNCHANGED vars
      BY <3>5, CallFrame
    <3> QED BY <1>1, <3>1, <3>2, <3>3, <3>4, <3>5 DEF Next
  <2> QED BY <2>1, <2>2, <2>3
<1> QED BY <1>1, Invariant, PTL DEF Spec, ResultIsFinal

\* A reader that is still reading when its scan's context ends matches nothing any more
\* (README.md, Shutdown).
THEOREM ParkedReadersAreSilent == Spec => ParkedReaderIsSilent
<1>1. ASSUME IInv, [Next]_vars
      PROVE  \A r \in Reader :
                (rpc[r] \in {"check", "read", "recheck"} /\ ScanDone(r[1]))
                    => rpc'[r] \in {"check", "read", "recheck", "failed", "ended"}
  <2> SUFFICES ASSUME NEW q \in Reader, rpc[q] \in {"check", "read", "recheck"}, ScanDone(q[1])
               PROVE  rpc'[q] \in {"check", "read", "recheck", "failed", "ended"}
    OBVIOUS
  <2>1. CASE UNCHANGED rpc
    BY <2>1
  <2>2. CASE \E b \in Bases : StartScan(b)
    BY <2>2 DEF StartScan
  <2>3. CASE \E r \in Reader : ConsumeReply(r) \/ Read(r)
    <3>1. PICK r \in Reader : ConsumeReply(r) \/ Read(r)
      BY <2>3
    <3>2. CASE q = r
      <4>1. CASE rpc[r] = "check"
        BY <1>1, <3>1, <3>2, <4>1 DEF ConsumeReply, Read, CheckContext, RecheckContext, FindSlot,
           LoadProbe, Answer, ReleaseAnswered, Dispatch, ReportFailure, CountFailure, ReadReply,
           ReadOther, ReadEnds, ReadFails, Keep, Drop, Step, IInv, TypeOK
      <4>2. CASE rpc[r] = "read"
        BY <1>1, <3>1, <3>2, <4>2 DEF ConsumeReply, Read, CheckContext, RecheckContext, FindSlot,
           LoadProbe, Answer, ReleaseAnswered, Dispatch, ReportFailure, CountFailure, ReadReply,
           ReadOther, ReadEnds, ReadFails, Keep, Drop, Step, IInv, TypeOK
      <4>3. CASE rpc[r] = "recheck"
        BY <1>1, <3>1, <3>2, <4>3 DEF ConsumeReply, Read, CheckContext, RecheckContext, Overtaken,
           FindSlot, LoadProbe, Answer, ReleaseAnswered, Dispatch, ReportFailure, CountFailure,
           ReadReply, ReadOther, ReadEnds, ReadFails, Keep, Drop, Step, IInv, TypeOK
      <4> QED BY <3>2, <4>1, <4>2, <4>3
    <3>3. CASE q # r
      BY <1>1, <3>1, <3>3, ReaderMove DEF IInv
    <3> QED BY <3>2, <3>3
  <2>4. CASE SendProbes \/ EndScan
    BY <2>1, <2>4, SendFrame, EndFrame
  <2>5. CASE \E p \in Probe : TimerFires(p) \/ HandBack(p) \/ CallbackReturns(p)
    BY <2>1, <2>5 DEF TimerFires, HandBack, CallbackReturns
  <2>6. CASE CallerCancels \/ (\E s \in Sources : CloseSource(s)) \/ Finished \/ UNCHANGED vars
    BY <2>1, <2>6, CallFrame
  <2> QED BY <1>1, <2>2, <2>3, <2>4, <2>5, <2>6 DEF Next
<1> QED BY <1>1, Invariant, PTL DEF Spec, ParkedReaderIsSilent

----------------------------------------------------------------------------
\* What a scan's return and its results tell: a nil return is a complete scan, a scan that has lost
\* its readers returns the error of every one of them, and a result is an answer to a probe.

\* The steps that touch none of the counters of lost readers, and where they leave Scan.
LEMMA CountFrame ==
    ASSUME \/ SendProbes
           \/ EndScan /\ ~Cancel /\ ~Return
           \/ \E p \in Probe : TimerFires(p) \/ HandBack(p) \/ CallbackReturns(p)
           \/ \E s \in Sources : CloseSource(s)
           \/ Finished \/ UNCHANGED vars
    PROVE  /\ UNCHANGED <<scan, live, errs, ctxDone, cancelled, outcome, rpc>>
           /\ pc' = "idle" <=> pc = "idle"
<1>1. CASE SendProbes
  BY <1>1 DEF SendProbes, StopSending, Acquire, StopAcquiring, Install, SendSucceeds, SendFails,
     RetrySend, StopRetrying, Discard, Discarded, Arm, FinishSending, SkipTarget, TakeTarget
<1>2. CASE EndScan /\ ~Cancel /\ ~Return
  BY <1>2 DEF EndScan, Linger, StopLingering, WaitForReaders, WaitForCallbacks
<1>3. CASE \E p \in Probe : TimerFires(p) \/ HandBack(p) \/ CallbackReturns(p)
  BY <1>3 DEF TimerFires, HandBack, CallbackReturns
<1>4. CASE (\E s \in Sources : CloseSource(s)) \/ Finished \/ UNCHANGED vars
  BY <1>4 DEF CloseSource, Finished
<1> QED BY <1>1, <1>2, <1>3, <1>4

\* A step of a reader reports a failure, counts the reader out, or has to do with neither.
LEMMA CountMove ==
    ASSUME TypeOK, NEW r \in Reader, ConsumeReply(r) \/ Read(r)
    PROVE  /\ UNCHANGED <<scan, pc, ctxDone, outcome>>
           /\ rpc[r] # "unstarted" /\ rpc'[r] # "unstarted"
           /\ \A q \in Reader \ {r} : rpc'[q] = rpc[q]
           /\ \/ ReportFailure(r)
              \/ CountFailure(r)
              \/ /\ UNCHANGED <<live, errs, cancelled>>
                 /\ rpc[r] # "count" /\ rpc'[r] # "count"
<1>1. CASE CheckContext(r)
  BY <1>1 DEF CheckContext, Keep, Step, TypeOK
<1>2. CASE ReadOther(r) \/ ReadEnds(r) \/ ReadFails(r)
  BY <1>2 DEF ReadOther, ReadEnds, ReadFails, Keep, Step, TypeOK
<1>3. CASE \E reply \in Arriving : ReadReply(r, reply)
  BY <1>3 DEF ReadReply, Step, TypeOK
<1>4. CASE RecheckContext(r)
  BY <1>4 DEF RecheckContext, Keep, Drop, Step, TypeOK
<1>5. CASE FindSlot(r)
  <2>1. Drop(r, "slot", "check") \/ Step(r, "slot", "load")
    BY <1>5 DEF FindSlot
  <2> QED BY <1>5, <2>1 DEF FindSlot, Drop, Step, TypeOK
<1>6. CASE LoadProbe(r)
  <2>1. Drop(r, "load", "check") \/ Step(r, "load", "answer")
    BY <1>6 DEF LoadProbe
  <2> QED BY <1>6, <2>1 DEF LoadProbe, Drop, Step, TypeOK
<1>7. CASE Answer(r)
  BY <1>7 DEF Answer, Keep, Drop, Step, TypeOK
<1>8. CASE ReleaseAnswered(r)
  BY <1>8 DEF ReleaseAnswered, Keep, Step, TypeOK
<1>9. CASE Dispatch(r)
  BY <1>9 DEF Dispatch, Drop, Step, TypeOK
<1>10. CASE ReportFailure(r)
  BY <1>10 DEF ReportFailure, Keep, Step, TypeOK
<1>11. CASE CountFailure(r)
  BY <1>11 DEF CountFailure, Keep, Step, TypeOK
<1> QED BY <1>1, <1>2, <1>3, <1>4, <1>5, <1>6, <1>7, <1>8, <1>9, <1>10, <1>11 DEF ConsumeReply, Read

\* The readers of a scan are finitely many, and so are those about to count themselves out.
LEMMA CountingType ==
    ASSUME NEW k \in Scans
    PROVE  /\ Cardinality(Sources) \in Nat
           /\ IsFiniteSet(Counting(k)) /\ Cardinality(Counting(k)) \in Nat
           /\ Cardinality(Counting(k)) = 0 <=> Counting(k) = {}
           /\ Cardinality(Sources) = 0 <=> Sources = {}
<1>1. Counting(k) \subseteq Sources
  BY DEF Counting
<1>2. IsFiniteSet(Sources) /\ IsFiniteSet(Counting(k))
  BY <1>1, Parameters, FS_Subset
<1> QED BY <1>2, FS_CardinalityType, FS_EmptySet

\* With no reader left, each has sent its error, and none is still about to count itself out.
LEMMA AllLost ==
    ASSUME TypeOK, CountInv, NEW k \in Scans, k =< scan, outcome[k] = None, live[k] = 0
    PROVE  errs[k] = Cardinality(Sources) /\ Counting(k) = {}
<1>1. errs[k] =< Cardinality(Sources) /\ errs[k] \in Nat
      /\ errs[k] + live[k] = Cardinality(Sources) + Cardinality(Counting(k))
  BY DEF CountInv, TypeOK
<1> QED BY <1>1, CountingType

\* The counters go together in every step of a reader.
LEMMA CountReaderStep ==
    ASSUME TypeOK, CountInv, NEW r \in Reader, ConsumeReply(r) \/ Read(r)
    PROVE  CountInv'
<1> DEFINE j == r[1]
           s == r[2]
<1>0. j \in Scans /\ s \in Sources /\ r = <<j, s>> /\ j =< scan /\ scan \in Nat /\ j \in Nat
  <2>1. j \in Scans /\ s \in Sources /\ r = <<j, s>>
    BY DEF Reader
  <2>2. scan \in Nat /\ j \in Nat
    BY <2>1, Parameters DEF Scans, TypeOK
  <2>3. rpc[r] # "unstarted"
    BY CountMove
  <2>4. ~(j > scan)
    BY <2>3 DEF CountInv
  <2> QED BY <2>1, <2>2, <2>4
<1>1. /\ UNCHANGED <<scan, pc, ctxDone, outcome>>
      /\ \A q \in Reader : rpc'[q] = "unstarted" <=> q[1] > scan'
  BY CountMove DEF CountInv
<1>2. ASSUME NEW k \in Scans, k # j PROVE Counting(k)' = Counting(k)
  BY <1>2, CountMove DEF Counting, Reader
<1>3. CASE ReportFailure(r)
  <2>1. /\ UNCHANGED <<live, cancelled>>
        /\ errs[j] < Cardinality(Sources) /\ errs' = [errs EXCEPT ![j] = @ + 1]
        /\ rpc[r] = "failed" /\ rpc'[r] = "count"
    BY <1>0, <1>3 DEF ReportFailure, Keep, Step, TypeOK
  <2>2. Counting(j)' = Counting(j) \cup {s} /\ s \notin Counting(j)
    BY <1>0, <2>1, CountMove DEF Counting, Reader
  <2>3. Cardinality(Counting(j)') = Cardinality(Counting(j)) + 1
    BY <1>0, <2>2, CountingType, FS_AddElement
  <2>4. errs'[j] = errs[j] + 1 /\ errs[j] \in Nat /\ \A k \in Scans \ {j} : errs'[k] = errs[k]
    BY <1>0, <2>1 DEF TypeOK
  <2> HIDE DEF j
  <2>5. (outcome[j] = None) => /\ errs'[j] =< Cardinality(Sources)
                               /\ errs'[j] + live[j] = Cardinality(Sources) + Cardinality(Counting(j)')
    <3>1. live[j] \in Int /\ Cardinality(Sources) \in Nat /\ Cardinality(Counting(j)) \in Nat
      BY <1>0, CountingType DEF TypeOK
    <3> QED BY <1>0, <2>1, <2>3, <2>4, <3>1 DEF CountInv
  <2> QED BY <1>0, <1>1, <1>2, <2>1, <2>4, <2>5 DEF CountInv
<1>4. CASE CountFailure(r)
  <2>1. /\ UNCHANGED errs /\ live' = [live EXCEPT ![j] = @ - 1]
        /\ cancelled' \subseteq cancelled \cup {j}
        /\ rpc[r] = "count" /\ rpc'[r] = "ended"
    BY <1>0, <1>4 DEF CountFailure, Keep, Step, TypeOK
  <2>2. Counting(j)' = Counting(j) \ {s} /\ s \in Counting(j)
    BY <1>0, <2>1, CountMove DEF Counting, Reader
  <2>3. Cardinality(Counting(j)') = Cardinality(Counting(j)) - 1
    <3>1. IsFiniteSet(Counting(j))
      BY <1>0, CountingType
    <3> QED BY <2>2, <3>1, FS_RemoveElement
  <2>4. live'[j] = live[j] - 1 /\ live[j] \in Int /\ \A k \in Scans \ {j} : live'[k] = live[k]
    BY <1>0, <2>1 DEF TypeOK
  <2> HIDE DEF j
  <2>5. (outcome[j] = None) => errs[j] + live'[j] = Cardinality(Sources) + Cardinality(Counting(j)')
    <3>1. errs[j] \in Nat /\ Cardinality(Sources) \in Nat /\ Cardinality(Counting(j)) \in Nat
      BY <1>0, CountingType DEF TypeOK
    <3> QED BY <1>0, <2>3, <2>4, <3>1 DEF CountInv
  <2>6. j \in 1..scan
    BY <1>0 DEF Scans
  <2> QED BY <1>0, <1>1, <1>2, <2>1, <2>4, <2>5, <2>6 DEF CountInv
<1>5. CASE UNCHANGED <<live, errs, cancelled>> /\ rpc[r] # "count" /\ rpc'[r] # "count"
  <2>1. \A k \in Scans : Counting(k)' = Counting(k)
    BY <1>5, CountMove DEF Counting, Reader
  <2> QED BY <1>1, <1>5, <2>1 DEF CountInv
<1> QED BY <1>3, <1>4, <1>5, CountMove

\* StartScan counts every reader of the new scan, and Return takes the errors of a scan whose
\* readers are all lost.
LEMMA CountStep == ASSUME IInv, CountInv, EndInv, [Next]_vars, TypeOK' PROVE CountInv'
<1> USE DEF IInv
<1>1. ASSUME UNCHANGED <<scan, live, errs, ctxDone, cancelled, outcome, rpc>>, pc' = "idle" <=> pc = "idle"
      PROVE  CountInv'
  BY <1>1 DEF CountInv, Counting
<1>2. CASE \E b \in Bases : StartScan(b)
  <2>1. /\ pc = "idle" /\ pc' # "idle" /\ scan < NScans /\ scan' = scan + 1 /\ scan \in Nat
        /\ live' = [live EXCEPT ![scan + 1] = Cardinality(Sources)]
        /\ rpc' = [r \in Reader |-> IF r[1] = scan + 1 THEN "check" ELSE rpc[r]]
        /\ UNCHANGED <<errs, ctxDone, cancelled, outcome>>
    BY <1>2 DEF StartScan, TypeOK
  <2>0. PICK j \in Scans : j = scan + 1
    BY <2>1, Parameters DEF Scans
  <2>2. j = scan + 1 /\ live'[j] = Cardinality(Sources) /\ \A k \in Scans \ {j} : live'[k] = live[k]
    BY <2>0, <2>1 DEF TypeOK
  <2>3. Counting(j)' = {} /\ \A k \in Scans \ {j} : Counting(k)' = Counting(k)
    <3>0. \A k \in Scans : \A s \in Sources : <<k, s>> \in Reader
      BY DEF Reader
    <3>1. ASSUME NEW s \in Sources PROVE rpc'[<<j, s>>] = "check"
      BY <2>0, <2>1, <3>0
    <3>2. ASSUME NEW k \in Scans \ {j}, NEW s \in Sources PROVE rpc'[<<k, s>>] = rpc[<<k, s>>]
      BY <2>0, <2>1, <3>0, <3>2
    <3>3. Counting(j)' = {}
      BY <3>1 DEF Counting
    <3>4. ASSUME NEW k \in Scans \ {j} PROVE Counting(k)' = Counting(k)
      <4>1. \A s \in Sources : rpc'[<<k, s>>] = rpc[<<k, s>>]
        BY <3>2
      <4> QED BY <4>1 DEF Counting
    <3> QED BY <3>3, <3>4
  <2>4. ctxDone' \cup cancelled' \subseteq 1..scan'
    BY <2>1 DEF CountInv
  <2>5. \A r \in Reader : rpc'[r] = "unstarted" <=> r[1] > scan'
    <3> SUFFICES ASSUME NEW r \in Reader PROVE rpc'[r] = "unstarted" <=> r[1] > scan'
      OBVIOUS
    <3>1. r[1] \in Nat /\ (rpc[r] = "unstarted" <=> r[1] > scan)
      BY DEF CountInv, Reader, Scans
    <3>2. rpc'[r] = IF r[1] = scan + 1 THEN "check" ELSE rpc[r]
      BY <2>1
    <3> QED BY <2>1, <3>1, <3>2
  <2>6. ASSUME NEW k \in Scans
        PROVE  /\ outcome'[k] = None <=> k > scan' \/ (k = scan' /\ pc' # "idle")
               /\ k > scan' => errs'[k] = 0
               /\ outcome'[k] # None => outcome'[k].readers \in {0, Cardinality(Sources)}
    <3>1. k \in Nat
      BY DEF Scans
    <3> QED BY <2>1, <3>1 DEF CountInv
  <2>7. ASSUME NEW k \in Scans, k =< scan', outcome'[k] = None
        PROVE  /\ errs'[k] =< Cardinality(Sources)
               /\ errs'[k] + live'[k] = Cardinality(Sources) + Cardinality(Counting(k)')
    <3>1. k = j
      <4>1. k > scan
        BY <2>1, <2>7 DEF CountInv
      <4> QED BY <2>0, <2>1, <2>7, <4>1 DEF Scans
    <3>2. errs'[j] = 0
      BY <2>1, <2>2 DEF CountInv
    <3>3. Cardinality(Counting(j)') = 0 /\ Cardinality(Sources) \in Nat
      BY <2>2, <2>3, CountingType, FS_EmptySet
    <3>4. live'[j] = Cardinality(Sources)
      BY <2>2
    <3>5. Cardinality(Counting(k)') = 0
      BY <3>1, <3>3
    <3> QED BY <3>1, <3>2, <3>3, <3>4, <3>5
  <2> QED BY <2>4, <2>5, <2>6, <2>7 DEF CountInv
<1>3. CASE Cancel \/ CallerCancels
  <2>1. /\ UNCHANGED <<scan, live, errs, outcome, rpc>> /\ pc # "idle" /\ pc' # "idle"
        /\ ctxDone' \cup cancelled' \subseteq ctxDone \cup cancelled \cup {scan}
    BY <1>3 DEF Cancel, CallerCancels
  <2>2. scan \in 1..scan
    BY <2>1 DEF SenderInv, Scans
  <2> QED BY <2>1, <2>2 DEF CountInv, Counting
<1>4. CASE Return
  <2>1. /\ UNCHANGED <<scan, live, ctxDone, cancelled, rpc>> /\ pc = "collect" /\ pc' = "idle"
        /\ scan \in Scans /\ scan \in Nat
    BY <1>4 DEF Return, SenderInv, TypeOK
  <2>2. outcome'[scan] = [send |-> sendErr, readers |-> IF AllReadersLost THEN errs[scan] ELSE 0,
                          ctx |-> ContextError]
    BY <1>4, <2>1 DEF Return, TypeOK
  <2>3. \A k \in Scans \ {scan} : outcome'[k] = outcome[k] /\ errs'[k] = errs[k]
    BY <1>4, <2>1 DEF Return, TypeOK
  <2>4. outcome[scan] = None
    BY <2>1 DEF CountInv
  <2>5. AllReadersLost => errs[scan] = Cardinality(Sources)
    BY <2>1, <2>4, AllLost DEF AllReadersLost
  <2>6. outcome'[scan].readers \in {0, Cardinality(Sources)}
    BY <2>2, <2>5
  <2>7. outcome'[scan] # None
    <3>1. outcome'[scan] \in Outcome
      BY <2>1, <2>2 DEF TypeOK, ContextError, Outcome
    <3> QED BY <3>1, NoneAssumption
  <2>8. ASSUME NEW k \in Scans, k # scan
        PROVE  /\ outcome'[k] = None <=> k > scan' \/ (k = scan' /\ pc' # "idle")
               /\ k > scan' => errs'[k] = 0
               /\ (k =< scan' /\ outcome'[k] = None)
                     => /\ errs'[k] =< Cardinality(Sources)
                        /\ errs'[k] + live'[k] = Cardinality(Sources) + Cardinality(Counting(k)')
               /\ outcome'[k] # None => outcome'[k].readers \in {0, Cardinality(Sources)}
    BY <2>1, <2>3, <2>8 DEF CountInv, Counting
  <2>9. /\ outcome'[scan] = None <=> scan > scan' \/ (scan = scan' /\ pc' # "idle")
        /\ ~(scan > scan')
    BY <2>1, <2>7
  <2> QED BY <2>1, <2>6, <2>7, <2>8, <2>9 DEF CountInv
<1>5. CASE \E r \in Reader : ConsumeReply(r) \/ Read(r)
  BY <1>5, CountReaderStep
<1> QED BY <1>1, <1>2, <1>3, <1>4, <1>5, CountFrame DEF Next, EndScan
\* Timers are set and fire, and are never taken back.
LEMMA TimerStays ==
    ASSUME IInv, [Next]_vars, NEW p \in Probe, timer[p] # "unset"
    PROVE  timer'[p] # "unset"
<1>1. CASE UNCHANGED timer
  BY <1>1
<1>2. CASE \E q \in Probe : TimerFires(q)
  BY <1>2 DEF TimerFires, IInv, TypeOK
<1>3. CASE \E q \in Probe : HandBack(q) \/ CallbackReturns(q)
  BY <1>1, <1>3 DEF HandBack, CallbackReturns
<1>4. CASE SendProbes
  <2>1. CASE Arm
    BY <2>1 DEF Arm, TimerSet, IInv, TypeOK
  <2>2. CASE ~Arm
    BY <1>1, <1>4, <2>2 DEF SendProbes, StopSending, Acquire, StopAcquiring, Install, SendSucceeds,
       SendFails, RetrySend, StopRetrying, Discard, Discarded, FinishSending, SkipTarget, TakeTarget
  <2> QED BY <2>1, <2>2
<1>5. CASE \E b \in Bases : StartScan(b)
  BY <1>1, <1>5 DEF StartScan
<1>6. CASE \E r \in Reader : ConsumeReply(r) \/ Read(r)
  BY <1>1, <1>6, ReaderFrame
<1>7. CASE EndScan \/ CallerCancels \/ (\E s \in Sources : CloseSource(s)) \/ Finished \/ UNCHANGED vars
  BY <1>1, <1>7, EndFrame, CallFrame
<1> QED BY <1>2, <1>3, <1>4, <1>5, <1>6, <1>7 DEF Next

\* A probe that went out stays sent.
LEMMA SentStays ==
    ASSUME IInv, [Next]_vars, scan \in Scans, scan' = scan, Sent
    PROVE  Sent'
<1>1. PICK t \in Targets : timer[<<scan, t>>] # "unset"
  BY DEF Sent
<1>2. timer'[<<scan, t>>] # "unset"
  BY <1>1, TimerStays DEF Probe
<1> QED BY <1>2 DEF Sent

\* A scan that has lost its readers, or its context, has lost them for good.
LEMMA CutStays ==
    ASSUME IInv, CountInv, [Next]_vars, scan \in Scans, scan' = scan, outcome[scan] = None
    PROVE  (AllReadersLost => AllReadersLost') /\ (CutShort => CutShort')
<1> USE DEF IInv
<1>1. ctxDone \subseteq ctxDone'
  BY CountFrame, CountMove DEF Next, EndScan, Cancel, Return, StartScan, CallerCancels
<1>2. ASSUME AllReadersLost PROVE live'[scan] = live[scan]
  <2>1. Counting(scan) = {}
    <3>1. scan =< scan /\ live[scan] = 0
      BY <1>2 DEF AllReadersLost, TypeOK
    <3> QED BY <3>1, AllLost
  <2>2. CASE \E r \in Reader : ConsumeReply(r) \/ Read(r)
    <3>1. PICK r \in Reader : ConsumeReply(r) \/ Read(r)
      BY <2>2
    <3>2. CASE CountFailure(r)
      <4>1. rpc[r] = "count" /\ live' = [live EXCEPT ![r[1]] = @ - 1]
        BY <3>2 DEF CountFailure, Keep, Step
      <4>2. r[1] # scan
        BY <2>1, <4>1 DEF Counting, Reader
      <4> QED BY <4>1, <4>2 DEF TypeOK
    <3>3. CASE ~CountFailure(r)
      BY <3>1, <3>3, CountMove DEF ReportFailure
    <3> QED BY <3>2, <3>3
  <2>3. CASE \E b \in Bases : StartScan(b)
    BY <2>3 DEF StartScan, TypeOK
  <2>4. CASE Cancel \/ Return \/ CallerCancels
    BY <2>4 DEF Cancel, Return, CallerCancels
  <2> QED BY <2>2, <2>3, <2>4, CountFrame DEF Next, EndScan
<1>3. AllReadersLost => AllReadersLost'
  BY <1>2 DEF AllReadersLost
<1> QED BY <1>1, <1>3 DEF CutShort

\* Scan goes on to wait for late replies, and to return, only when its targets are exhausted or
\* its outcome tells why they are not.
LEMMA EndStep == ASSUME IInv, CountInv, EndInv, [Next]_vars PROVE EndInv'
<1> USE DEF IInv
<1>1. pc # "idle" => scan \in Scans /\ outcome[scan] = None
  BY DEF SenderInv, CountInv
<1>2. (pc \notin {"idle", "grace", "callbacks", "collect"} /\ ScanDone(scan)) => CutShort
  BY DEF EndInv, ScanDone, CutShort
<1>3. ASSUME UNCHANGED <<scan, pc, todo, sendErr, lingered, outcome>>,
             scan \in Scans => (scan \in cancelled' => scan \in cancelled \/ pc = "idle" \/ AllReadersLost')
      PROVE  EndInv'
  <2>1. CASE pc = "idle"
    <3>1. (scan > 0 /\ Sent) => Sent'
      <4>1. scan > 0 => scan \in Scans
        BY DEF Scans, TypeOK
      <4> QED BY <1>3, <4>1, SentStays
    <3>2. NilMeansComplete'
      <4> SUFFICES ASSUME scan > 0, outcome[scan] = NilOutcome PROVE todo = {} /\ lingered /\ Sent'
        BY <1>3 DEF NilMeansComplete, NilOutcome
      <4> QED BY <2>1, <3>1 DEF EndInv, NilMeansComplete
    <3> QED BY <1>3, <2>1, <3>2 DEF EndInv
  <2>2. CASE pc # "idle"
    <3>1. (Sent => Sent') /\ (AllReadersLost => AllReadersLost') /\ (CutShort => CutShort')
      BY <1>1, <1>3, <2>2, SentStays, CutStays
    <3> QED BY <1>1, <1>3, <2>2, <3>1 DEF EndInv, NilMeansComplete
  <2> QED BY <2>1, <2>2
<1>4. CASE \E b \in Bases : StartScan(b)
  <2>1. pc' = "loop" /\ scan' = scan + 1 /\ UNCHANGED cancelled /\ scan \in Nat
    BY <1>4 DEF StartScan, TypeOK
  <2>2. scan' \notin cancelled'
    BY <2>1 DEF CountInv
  <2> QED BY <2>1, <2>2 DEF EndInv, NilMeansComplete
<1>5. CASE SendProbes
  <2>1. /\ UNCHANGED <<scan, cancelled>> /\ pc \notin {"idle", "grace", "callbacks", "collect"}
        /\ pc' \notin {"idle", "cancel", "grace", "callbacks", "collect"}
    BY <1>5 DEF SendProbes, StopSending, Acquire, StopAcquiring, Install, SendSucceeds, SendFails,
       RetrySend, StopRetrying, Discard, Discarded, Arm, FinishSending, SkipTarget, TakeTarget
  <2>2. (AllReadersLost => AllReadersLost') /\ (CutShort => CutShort')
    BY <1>1, <2>1, CutStays
  <2>3. ASSUME pc' = "linger" PROVE (sendErr \/ CutShort \/ (todo = {} /\ Sent))'
    <3>1. CASE ScanDone(scan)
      BY <1>2, <2>1, <2>2, <3>1
    <3>2. CASE ~ScanDone(scan)
      <4>1. FinishSending
        BY <1>5, <2>3, <3>2 DEF SendProbes, StopSending, Acquire, StopAcquiring, Install, SendSucceeds,
           SendFails, RetrySend, StopRetrying, Discard, Discarded, Arm, SkipTarget, TakeTarget
      <4>2. Sent => Sent'
        BY <1>1, <2>1, SentStays
      <4> QED BY <3>2, <4>1, <4>2 DEF FinishSending
    <3> QED BY <3>1, <3>2
  <2> QED BY <2>1, <2>2, <2>3 DEF EndInv, NilMeansComplete
<1>6. CASE EndScan
  <2>0. UNCHANGED scan /\ pc # "idle" /\ scan \in Scans /\ outcome[scan] = None
    BY <1>1, <1>6, EndFrame
  <2>1. (Sent => Sent') /\ (AllReadersLost => AllReadersLost') /\ (CutShort => CutShort')
    BY <2>0, SentStays, CutStays
  <2>2. CASE Linger \/ StopLingering
    <3>1. /\ pc = "linger" /\ pc' = "cancel" /\ UNCHANGED <<todo, sendErr, cancelled>>
          /\ sendErr \/ ScanDone(scan) \/ lingered'
      BY <2>2 DEF Linger, StopLingering
    <3>2. (sendErr \/ CutShort \/ (todo = {} /\ Sent /\ lingered))'
      BY <1>2, <2>1, <3>1 DEF EndInv
    <3> QED BY <2>0, <2>1, <3>1, <3>2 DEF EndInv, NilMeansComplete
  <2>3. CASE Cancel \/ WaitForCallbacks \/ \E g \in BOOLEAN : WaitForReaders(g)
    <3>1. /\ pc \in {"cancel", "grace", "callbacks"} /\ pc' \in {"grace", "callbacks", "collect"}
          /\ UNCHANGED <<todo, sendErr, lingered>>
      BY <2>3 DEF Cancel, WaitForCallbacks, WaitForReaders
    <3> QED BY <2>1, <3>1 DEF EndInv, NilMeansComplete
  <2>4. CASE Return
    <3>1. /\ pc = "collect" /\ pc' = "idle" /\ UNCHANGED <<todo, lingered>>
          /\ outcome'[scan] = [send |-> sendErr, readers |-> IF AllReadersLost THEN errs[scan] ELSE 0,
                               ctx |-> ContextError]
      BY <2>0, <2>4 DEF Return, TypeOK
    <3>2. AllReadersLost => errs[scan] # 0
      <4>1. scan =< scan /\ (Sources # {} => Cardinality(Sources) # 0)
        BY <2>0, CountingType DEF TypeOK
      <4> QED BY <2>0, <4>1, AllLost DEF AllReadersLost
    <3>3. outcome'[scan] = NilOutcome => ~sendErr /\ ~CutShort
      <4> SUFFICES ASSUME outcome'[scan] = NilOutcome PROVE ~sendErr /\ ~CutShort
        OBVIOUS
      <4>1. /\ outcome'[scan].send = sendErr /\ outcome'[scan].ctx = ContextError
            /\ outcome'[scan].readers = IF AllReadersLost THEN errs[scan] ELSE 0
        BY <3>1
      <4>2. outcome'[scan].send = FALSE /\ outcome'[scan].ctx = FALSE /\ outcome'[scan].readers = 0
        BY DEF NilOutcome
      <4>3. ~sendErr /\ ~ContextError
        BY <4>1, <4>2
      <4>4. ~AllReadersLost
        BY <3>2, <4>1, <4>2
      <4> QED BY <4>3, <4>4 DEF ContextError, CutShort
    <3>4. outcome'[scan] = NilOutcome => todo' = {} /\ lingered' /\ Sent'
      BY <2>1, <3>1, <3>3 DEF EndInv
    <3> QED BY <2>0, <3>1, <3>4 DEF EndInv, NilMeansComplete
  <2> QED BY <1>6, <2>2, <2>3, <2>4 DEF EndScan
<1>7. CASE \E p \in Probe : TimerFires(p) \/ HandBack(p) \/ CallbackReturns(p)
  BY <1>3, <1>7 DEF TimerFires, HandBack, CallbackReturns
<1>8. CASE \E r \in Reader : ConsumeReply(r) \/ Read(r)
  <2>1. PICK r \in Reader : ConsumeReply(r) \/ Read(r)
    BY <1>8
  <2>2. UNCHANGED <<scan, pc, todo, sendErr, lingered, outcome>>
    BY <2>1, ReaderFrame, CountMove
  <2>3. ASSUME scan \in Scans, scan \in cancelled', scan \notin cancelled, pc # "idle" PROVE AllReadersLost'
    <3>1. CountFailure(r)
      BY <2>1, <2>3, CountMove DEF ReportFailure
    <3>2. r[1] = scan /\ live[scan] = 1 /\ live' = [live EXCEPT ![scan] = @ - 1] /\ r[2] \in Sources
      BY <2>3, <3>1 DEF CountFailure, Reader
    <3> QED BY <2>2, <2>3, <3>2 DEF AllReadersLost, TypeOK
  <2> QED BY <1>3, <2>2, <2>3
<1>9. CASE CallerCancels \/ (\E s \in Sources : CloseSource(s)) \/ Finished \/ UNCHANGED vars
  BY <1>3, <1>9 DEF CallerCancels, CloseSource, Finished
<1> QED BY <1>4, <1>5, <1>6, <1>7, <1>8, <1>9 DEF Next

\* Before the first scan.
LEMMA InitOutcome == Init => CountInv /\ EndInv
<1> SUFFICES ASSUME Init PROVE CountInv /\ EndInv
  OBVIOUS
<1>1. \A k \in Scans : k > scan
  BY DEF Init, Scans
<1>2. CountInv
  <2>1. \A r \in Reader : rpc[r] = "unstarted" /\ r[1] > scan
    BY <1>1 DEF Init, Reader
  <2> QED BY <1>1, <2>1 DEF Init, CountInv, Scans
<1>3. EndInv
  BY DEF Init, EndInv, NilMeansComplete
<1> QED BY <1>2, <1>3

\* OutcomeInv holds in every state of a Scanner.
THEOREM OutcomeInvariant == Spec => []OutcomeInv
<1>1. Init => OutcomeInv
  BY InitInv, InitOutcome DEF OutcomeInv
<1>2. OutcomeInv /\ [Next]_vars => OutcomeInv'
  <2>1. ASSUME IInv, [Next]_vars PROVE IInv'
    BY <2>1, NextInv
  <2> QED BY <2>1, CountStep, EndStep DEF OutcomeInv, IInv
<1> QED BY <1>1, <1>2, PTL DEF Spec

\* Nil is returned for a complete scan only (scanner.go:276-323): with any number of targets,
\* sources and faults, a scan that was cut short, or that sent nothing, returns an error.
THEOREM NilIsComplete == Spec => []NilMeansComplete
<1>1. OutcomeInv => NilMeansComplete
  BY DEF OutcomeInv, EndInv
<1> QED BY <1>1, OutcomeInvariant, PTL

\* A scan returns no reader's error, or that of every reader: the counter that Scan decides by
\* never runs ahead of the channel that it drains (scanner.go:257-258, 311).
THEOREM LostReadersReported == Spec => []LostReadersAreAllReported
<1>1. OutcomeInv => LostReadersAreAllReported
  BY DEF OutcomeInv, CountInv, LostReadersAreAllReported
<1> QED BY <1>1, OutcomeInvariant, PTL
----------------------------------------------------------------------------
\* SYNs that went out are never taken back.
LEMMA WireGrows == ASSUME IInv, [Next]_vars PROVE wire \subseteq wire'
<1>1. CASE SendProbes
  BY <1>1 DEF SendProbes, StopSending, Acquire, StopAcquiring, Install, SendSucceeds, SendFails,
     RetrySend, StopRetrying, Discard, Discarded, Arm, FinishSending, SkipTarget, TakeTarget
<1>2. CASE \E b \in Bases : StartScan(b)
  BY <1>2 DEF StartScan
<1>3. CASE \E p \in Probe : TimerFires(p) \/ HandBack(p) \/ CallbackReturns(p)
  BY <1>3 DEF TimerFires, HandBack, CallbackReturns
<1>4. CASE \E r \in Reader : ConsumeReply(r) \/ Read(r)
  BY <1>4, ReaderFrame
<1>5. CASE EndScan \/ CallerCancels \/ (\E s \in Sources : CloseSource(s)) \/ Finished \/ UNCHANGED vars
  BY <1>5, EndFrame, CallFrame
<1> QED BY <1>1, <1>2, <1>3, <1>4, <1>5 DEF Next

\* An endpoint that answered a SYN remains one that did.
LEMMA GenuineStays ==
    ASSUME IInv, [Next]_vars, NEW e, Genuine(e)
    PROVE  Genuine(e)'
<1>1. PICK w \in wire : EndpointOfProbe(w.probe) = e
  BY DEF Genuine
<1>2. w \in wire' /\ EndpointOfProbe(w.probe)' = e
  BY <1>1, WireGrows DEF EndpointOfProbe
<1> QED BY <1>2 DEF Genuine, EndpointOfProbe

\* What a reader has in hand is genuine, or is noise that goes no further.
LEMMA SoundReader ==
    ASSUME IInv, SoundInv, NoiseMisses, NEW r \in Reader, ConsumeReply(r) \/ Read(r)
    PROVE  /\ rpc'[r] \in {"recheck", "slot"} => frame'[r] \in Noise \/ Genuine(frame'[r].from)
           /\ rpc'[r] = "load" => \/ Genuine(frame'[r].from)
                                 \/ \A t \in Targets : frame'[r].from # EndpointOf[t]
           /\ rpc'[r] \in {"answer", "release", "dispatch"} => Genuine(frame'[r].from)
<1> USE DEF IInv
<1>1. CASE \/ CheckContext(r) \/ ReadOther(r) \/ ReadEnds(r) \/ ReadFails(r) \/ ReportFailure(r)
           \/ CountFailure(r) \/ Dispatch(r)
  <2>1. rpc'[r] \in {"check", "read", "ended", "failed", "count"}
    BY <1>1 DEF CheckContext, ReadOther, ReadEnds, ReadFails, ReportFailure, CountFailure, Dispatch,
       Keep, Drop, Step, TypeOK
  <2> QED BY <2>1
<1>2. CASE \E reply \in Arriving : ReadReply(r, reply)
  <2>1. PICK reply \in Arriving : ReadReply(r, reply)
    BY <1>2
  <2>2. rpc'[r] = "recheck" /\ frame'[r] = reply
    BY <2>1 DEF ReadReply, Step, TypeOK
  <2>3. reply \in Noise \/ Genuine(reply.from)
    BY <2>1 DEF Arriving, Answering, Genuine
  <2> QED BY <2>2, <2>3
<1>3. CASE RecheckContext(r)
  <2>1. rpc'[r] = "ended" \/ (rpc[r] = "recheck" /\ rpc'[r] = "slot" /\ UNCHANGED frame)
    BY <1>3 DEF RecheckContext, Keep, Drop, Step, TypeOK
  <2> QED BY <2>1 DEF SoundInv
<1>4. CASE FindSlot(r)
  <2>1. CASE Drop(r, "slot", "check")
    <3>1. rpc'[r] = "check"
      BY <2>1 DEF Drop, Step, TypeOK
    <3> QED BY <3>1
  <2>2. CASE ~Drop(r, "slot", "check")
    <3>1. PICK k \in Seen(r[1]) : SlotOfReply(frame[r], k) \in Slots
      BY <1>4, <2>2 DEF FindSlot, NamesSlot
    <3>2. rpc[r] = "slot" /\ rpc'[r] = "load" /\ UNCHANGED frame
      BY <1>4, <2>2 DEF FindSlot, Step, TypeOK
    <3>3. k \in 1..scan
      BY <3>1, Parameters DEF Seen, Reader, Scans, TypeOK
    <3>4. frame[r] \in Noise => \A t \in Targets : frame[r].from # EndpointOf[t]
      BY <3>1, <3>3 DEF NoiseMisses
    <3> QED BY <3>2, <3>4 DEF SoundInv
  <2> QED BY <2>1, <2>2
<1>5. CASE LoadProbe(r)
  <2>1. CASE Drop(r, "load", "check")
    <3>1. rpc'[r] = "check"
      BY <2>1 DEF Drop, Step, TypeOK
    <3> QED BY <3>1
  <2>2. CASE ~Drop(r, "load", "check")
    <3>1. PICK k \in Seen(r[1]) : Matches(slots[k][index[r]], frame[r])
      BY <1>5, <2>2 DEF LoadProbe
    <3>2. rpc[r] = "load" /\ rpc'[r] = "answer" /\ UNCHANGED frame
      BY <1>5, <2>2 DEF LoadProbe, Step, TypeOK
    <3>3. k \in Scans /\ index[r] \in Slots
      BY <3>1, <3>2, Parameters DEF Seen, Reader, Scans, TypeOK, ReaderInv, InHand
    <3>4. slots[k][index[r]] \in Probe
      BY <3>1, <3>3 DEF Matches, TypeOK
    <3>5. \E t \in Targets : frame[r].from = EndpointOf[t]
      BY <3>1, <3>4 DEF Matches, EndpointOfProbe, Probe
    <3> QED BY <3>2, <3>5 DEF SoundInv
  <2> QED BY <2>1, <2>2
<1>6. CASE Answer(r) \/ ReleaseAnswered(r)
  <2>1. \/ rpc'[r] = "check"
        \/ /\ rpc[r] \in {"answer", "release"} /\ rpc'[r] \in {"release", "dispatch"}
           /\ UNCHANGED frame
    BY <1>6 DEF Answer, ReleaseAnswered, Keep, Drop, Step, TypeOK
  <2> QED BY <2>1 DEF SoundInv
<1> QED BY <1>1, <1>2, <1>3, <1>4, <1>5, <1>6 DEF ConsumeReply, Read

\* Results stay genuine: only Dispatch adds one, of a match that a reader has in hand.
LEMMA SoundStep == ASSUME IInv, SoundInv, NoiseMisses, [Next]_vars PROVE SoundInv'
<1> USE DEF IInv
<1>1. ASSUME UNCHANGED <<rpc, frame, results>> PROVE SoundInv'
  BY <1>1, GenuineStays DEF SoundInv, EndpointOfProbe
<1>2. CASE \E r \in Reader : ConsumeReply(r) \/ Read(r)
  <2>1. PICK r \in Reader : ConsumeReply(r) \/ Read(r)
    BY <1>2
  <2>2. ASSUME NEW q \in Reader
        PROVE  /\ rpc'[q] \in {"recheck", "slot"} => frame'[q] \in Noise \/ Genuine(frame[q].from)'
               /\ rpc'[q] = "load" => \/ Genuine(frame[q].from)'
                                     \/ \A t \in Targets : frame'[q].from # EndpointOf[t]
               /\ rpc'[q] \in {"answer", "release", "dispatch"} => Genuine(frame[q].from)'
    <3>1. PICK f : f = frame'[q]
      OBVIOUS
    <3>2. /\ rpc'[q] \in {"recheck", "slot"} => f \in Noise \/ Genuine(f.from)
          /\ rpc'[q] = "load" => Genuine(f.from) \/ \A t \in Targets : f.from # EndpointOf[t]
          /\ rpc'[q] \in {"answer", "release", "dispatch"} => Genuine(f.from)
      <4>1. CASE q = r
        BY <2>1, <3>1, <4>1, SoundReader
      <4>2. CASE q # r
        <5>1. rpc'[q] = rpc[q] /\ f = frame[q]
          BY <2>1, <3>1, <4>2, ReaderMove
        <5> QED BY <5>1 DEF SoundInv
      <4> QED BY <4>1, <4>2
    <3>3. Genuine(f.from) => Genuine(frame[q].from)'
      <4>1. Genuine(f.from) => Genuine(f.from)'
        BY GenuineStays
      <4> QED BY <3>1, <4>1 DEF Genuine
    <3> QED BY <3>1, <3>2, <3>3
  <2>3. ASSUME NEW p \in Probe, results'[p] # <<>> PROVE Genuine(EndpointOfProbe(p))'
    <3>1. Genuine(EndpointOfProbe(p))
      <4>1. CASE results'[p] = results[p]
        BY <2>3, <4>1 DEF SoundInv
      <4>2. CASE results'[p] # results[p]
        <5>1. rpc[r] = "dispatch" /\ Dispatch(r)
          BY <2>1, <4>2, ReaderFrame
        <5>2. match[r] = p
          BY <4>2, <5>1 DEF Dispatch, TypeOK
        <5>3. frame[r].from = EndpointOfProbe(p) /\ Genuine(frame[r].from)
          BY <5>1, <5>2 DEF ReaderInv, InHand, SoundInv
        <5> QED BY <5>3
      <4> QED BY <4>1, <4>2
    <3> QED BY <3>1, GenuineStays DEF EndpointOfProbe
  <2> QED BY <2>2, <2>3 DEF SoundInv
<1>3. CASE \E b \in Bases : StartScan(b)
  <2>1. /\ UNCHANGED <<frame, results>>
        /\ \A r \in Reader : rpc'[r] \in {"check", rpc[r]}
    BY <1>3 DEF StartScan
  <2> QED BY <2>1, GenuineStays DEF SoundInv, EndpointOfProbe
<1>4. CASE SendProbes \/ EndScan
  BY <1>1, <1>4, SendFrame, EndFrame
<1>5. CASE \E p \in Probe : TimerFires(p) \/ HandBack(p) \/ CallbackReturns(p)
  BY <1>1, <1>5 DEF TimerFires, HandBack, CallbackReturns
<1>6. CASE CallerCancels \/ (\E s \in Sources : CloseSource(s)) \/ Finished \/ UNCHANGED vars
  BY <1>1, <1>6, CallFrame
<1> QED BY <1>2, <1>3, <1>4, <1>5, <1>6 DEF Next

\* What is reported open is a probed endpoint that answered a SYN of this Scanner (README.md, How
\* SYN replies are matched), whatever stray, late, duplicate and foreign SYN/ACKs arrive, as long
\* as no unasked one of a probed endpoint guesses the random number of a slot.
THEOREM ResultsSound == Spec /\ []NoiseMisses => []ResultsAreSound
<1>1. Init => SoundInv
  BY DEF Init, SoundInv
<1>2. IInv /\ SoundInv /\ NoiseMisses /\ [Next]_vars => SoundInv'
  BY SoundStep
<1>3. IInv /\ SoundInv => ResultsAreSound
  <2> SUFFICES ASSUME IInv, SoundInv, NEW p \in Probe, NEW e \in Elements(results[p])
               PROVE  e = EndpointOfProbe(p) /\ e \in Open /\ \E w \in wire : EndpointOfProbe(w.probe) = e
    BY DEF ResultsAreSound
  <2>1. results[p] # <<>> /\ results[p] \in {<<>>, <<EndpointOfProbe(p)>>}
    BY DEF IInv, AnswerInv, Elements
  <2>2. e = EndpointOfProbe(p)
    BY <2>1 DEF Elements
  <2> QED BY <2>1, <2>2 DEF SoundInv, Genuine
<1> QED BY <1>1, <1>2, <1>3, Invariant, PTL DEF Spec
============================================================================
