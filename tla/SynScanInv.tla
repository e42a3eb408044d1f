---------------------------- MODULE SynScanInv ----------------------------
(***************************************************************************)
(* The inductive invariant of SynScan, from which SynScanProofs derives    *)
(* its safety properties for every value of the constants.                 *)
(***************************************************************************)
EXTENDS SynScan

\* sendProbes has a probe in hand, and the probe has a slot but is not yet in it.
Probing == pc \in {"acquire", "install", "send", "wait", "discard", "discarded", "arm"}
Installing(p) == pc = "install" /\ cur = p

\* p has a slot, and readers and timers may know it.
Placed(p) == slotOf[p] # None /\ ~Installing(p)

\* The probe in hand is the running scan's, of a target already visited, with no timer.
SenderInv ==
    /\ pc # "idle" => scan \in Scans
    /\ IF Probing
       THEN /\ cur \in Probe /\ cur[1] = scan /\ cur[2] \notin todo /\ timer[cur] = "unset"
            /\ slotOf[cur] = None <=> pc = "acquire"
            /\ pc \in {"discarded"} => hold[cur] # "held"
       ELSE cur = None

\* A probe has no slot before its turn, and nothing happens to it before it is placed.
ProbeInv ==
    \A p \in Probe :
        /\ (p[1] > scan \/ (p[1] = scan /\ p[2] \in todo)) => slotOf[p] = None
        /\ ~Placed(p) => hold[p] = "held" /\ timer[p] = "unset" /\ p \notin answered

\* What a reader has in hand at each of its steps.
InHand(r) ==
    /\ rpc[r] \in {"recheck", "slot", "load", "answer", "release", "dispatch"} => frame[r] \in Reply
    /\ rpc[r] = "load" => index[r] \in Slots
    /\ rpc[r] \in {"answer", "release", "dispatch"}
          => /\ match[r] \in Probe /\ Placed(match[r])
             /\ frame[r].from = EndpointOfProbe(match[r])
    /\ rpc[r] = "dispatch" => hold[match[r]] # "held"
ReaderInv == \A r \in Reader : InHand(r)

\* One reader wins the race to answer a probe, and has yet to report it.
AnswerInv ==
    /\ \A r \in Reader : rpc[r] \in {"release", "dispatch"}
          => match[r] \in answered /\ results[match[r]] = <<>>
    /\ \A q, r \in Reader :
          (rpc[q] \in {"release", "dispatch"} /\ rpc[r] \in {"release", "dispatch"} /\ q # r)
              => match[q] # match[r]
    /\ \A p \in Probe :
          /\ results[p] \in {<<>>, <<EndpointOfProbe(p)>>}
          /\ results[p] # <<>> => p \in answered /\ hold[p] = "released"

\* A slot holds a probe that was placed in it, and the running scan's hold the very probes that
\* are placed and still held.
SlotInv ==
    /\ \A k \in Scans : \A s \in Slots : slots[k][s] # None =>
          slots[k][s][1] = k /\ slotOf[slots[k][s]] = s /\ Placed(slots[k][s])
    /\ \A p \in Probe : (p[1] = scan /\ Placed(p))
          => (slots[scan][slotOf[p]] = p <=> hold[p] = "held")

\* The number p has taken and not handed back.
Holds(p, s) == slotOf[p] = s /\ hold[p] # "released"

\* A scan that has started, and so has filled its pool.
Pooled(k) == k =< scan

\* Each number is in the channel once, or has one holder.
PoolInv ==
    \A k \in Scans : Pooled(k) =>
        /\ Distinct(free[k])
        /\ \A p \in Probe : \A s \in Slots :
              (p[1] = k /\ Holds(p, s)) => s \notin Elements(free[k])
        /\ \A p, q \in Probe : \A s \in Slots :
              (p[1] = k /\ q[1] = k /\ Holds(p, s) /\ Holds(q, s)) => p = q
        /\ \A s \in Slots : s \in Elements(free[k]) \/ \E p \in Probe : p[1] = k /\ Holds(p, s)

\* A SYN went out with the number that its slot and the base of its scan give.
WireInv ==
    \A w \in wire :
        /\ Placed(w.probe)
        /\ w.probe[1] = scan => w.seq = SequenceNumber(slotOf[w.probe])

IInv == /\ TypeOK /\ SenderInv /\ ProbeInv /\ ReaderInv /\ AnswerInv
        /\ SlotInv /\ PoolInv /\ WireInv
----------------------------------------------------------------------------
\* What the errors of lost readers and the end of a scan rest on (SynScanProofs).

\* The readers of scan k that have sent their error and not yet counted themselves out.
Counting(k) == {s \in Sources : rpc[<<k, s>>] = "count"}

\* A scan that has not returned has the error of every reader that liveReaders no longer counts.
CountInv ==
    /\ ctxDone \cup cancelled \subseteq 1..scan
    /\ \A r \in Reader : rpc[r] = "unstarted" <=> r[1] > scan
    /\ \A k \in Scans :
          /\ outcome[k] = None <=> k > scan \/ (k = scan /\ pc # "idle")
          /\ k > scan => errs[k] = 0
          /\ (k =< scan /\ outcome[k] = None)
                => /\ errs[k] =< Cardinality(Sources)
                   /\ errs[k] + live[k] = Cardinality(Sources) + Cardinality(Counting(k))
          /\ outcome[k] # None => outcome[k].readers \in {0, Cardinality(Sources)}

\* The running scan was cut short in a way that its outcome tells.
CutShort == scan \in ctxDone \/ AllReadersLost

\* Before Scan cancels its context itself, only the loss of the last reader does; and a scan is
\* on its way to return an error, or has gone through all of its targets.
EndInv ==
    /\ (pc \notin {"idle", "grace", "callbacks", "collect"} /\ scan \in cancelled) => AllReadersLost
    /\ pc = "linger" => sendErr \/ CutShort \/ (todo = {} /\ Sent)
    /\ pc \in {"cancel", "grace", "callbacks", "collect"}
          => sendErr \/ CutShort \/ (todo = {} /\ Sent /\ lingered)
    /\ NilMeansComplete

OutcomeInv == IInv /\ CountInv /\ EndInv
----------------------------------------------------------------------------
\* What the soundness of results rests on (SynScanProofs).

\* The base of a scan is random.  What a probed endpoint sends unasked names no slot of the
\* scans so far, unless it guesses one of Concurrency numbers out of SeqMod.
NoiseMisses ==
    \A n \in Noise : (\E t \in Targets : n.from = EndpointOf[t])
        => \A k \in 1..scan : SlotOfReply(n, k) \notin Slots

\* An endpoint that answers SYNs and was sent one.
Genuine(e) == e \in Open /\ \E w \in wire : EndpointOfProbe(w.probe) = e

\* A reader loses the noise of probed endpoints at FindSlot, all other noise at LoadProbe.
SoundInv ==
    /\ \A r \in Reader :
          /\ rpc[r] \in {"recheck", "slot"} => frame[r] \in Noise \/ Genuine(frame[r].from)
          /\ rpc[r] = "load" => Genuine(frame[r].from) \/ \A t \in Targets : frame[r].from # EndpointOf[t]
          /\ rpc[r] \in {"answer", "release", "dispatch"} => Genuine(frame[r].from)
    /\ \A p \in Probe : results[p] # <<>> => Genuine(EndpointOfProbe(p))
============================================================================
