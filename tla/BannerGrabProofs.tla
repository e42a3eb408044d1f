---------------------------- MODULE BannerGrabProofs ----------------------------
(***************************************************************************)
(* What BannerGrab guarantees for every configuration, service and         *)
(* deadline.  IInv is proved inductive, one lemma per conjunct; the heart  *)
(* of it is TimeInv, which bounds the time a grab may still take by where  *)
(* it is, so that whatever it does the budget lasts.                       *)
(***************************************************************************)
EXTENDS BannerGrab, TLAPS

USE DEF vars, input, clockVars, readVars, serviceVars

\* What remains to be read costs at most this, byte by byte.
Cost(length) == (Length - length) * SettleTimeout

\* What a first read that stays silent may cost, with the request that follows and, in a SYN
\* scan, the attempt on another connection; and what that attempt may cost.
Whole == IF mode = "syn" THEN DialTimeout + 4 * Timeout + Cost(1) ELSE 2 * Timeout + Cost(1)
Encore == 2 * Timeout + Cost(1)

Waiting == pc \in {"dialing", "reading", "handshaking"}

\* Where the grab is, and on which connection.
PlaceInv ==
    /\ pc \in {"dial", "dialing"} => mode = "syn"
    /\ mode = "connect" => conn = 1
    /\ conn = 0 => pc = "dial" /\ stage = "plain"
    /\ pc = "dial" => conn # 2
    /\ pc = "grab" => conn = 1
    /\ pc \in {"dial", "dialing", "grab", "handshake", "handshaking"} => ~shaken
    /\ shaken => stage = "tls"
    /\ (conn = 1 /\ (stage = "tls" \/ pc \in {"handshake", "handshaking"})) => tlsPort
    /\ pc = "probe" /\ ~shaken => stage = "plain"
    /\ pc = "reading" => raw < Length
    /\ pc \in {"more", "reading"} =>
         timeout = IF raw = 0 THEN Timeout ELSE SettleTimeout

\* Connections to come are untouched, and the one a handshake starts on is.
WireInv ==
    /\ \A c \in Connections : c > conn => wire[c] = <<>> /\ taken[c] = 0
    /\ pc \in {"dialing", "grab", "handshake"} => wire[conn] = <<>> /\ taken[conn] = 0
    /\ FreshHandshake

OpenInv ==
    /\ mode = "connect" => open = {1} \/ pc \in {"said", "returned"}
    /\ mode = "syn" => open \subseteq {conn}
    /\ NothingStaysOpen

\* The time spent and the time ahead, after the wait the grab is in if it is in one, fit the budget.
Fits(ahead) ==
    /\ now + ahead =< Budget
    /\ Waiting => deadline + ahead =< Budget

Silent == raw = 0

TimeInv ==
    /\ pc = "dial" /\ conn = 0 => Fits(DialTimeout + Whole)
    /\ pc = "dial" /\ conn = 1 => Fits(DialTimeout + Encore)
    /\ pc = "dialing" /\ conn = 1 => Fits(Whole)
    /\ pc = "dialing" /\ conn = 2 => Fits(Encore)
    /\ pc = "grab" => Fits(Whole)
    /\ pc = "more" /\ ~Silent => Fits(Cost(raw))
    /\ pc = "more" /\ Silent /\ stage = "plain" => Fits(Whole)
    /\ pc = "more" /\ Silent /\ stage = "probe" => Fits(Whole - Timeout)
    /\ pc = "more" /\ Silent /\ stage = "tls" => Fits(Timeout + Cost(1))
    /\ pc = "reading" /\ ~Silent => Fits(Cost(raw) - SettleTimeout)
    /\ pc = "reading" /\ Silent /\ stage = "plain" => Fits(Whole - Timeout)
    /\ pc = "reading" /\ Silent /\ stage = "probe" => Fits(Whole - 2 * Timeout)
    /\ pc = "reading" /\ Silent /\ stage = "tls" => Fits(Cost(1))
    /\ pc = "said" /\ Silent /\ stage = "plain" => Fits(Whole - Timeout)
    /\ pc = "said" /\ Silent /\ stage = "probe" => Fits(Whole - 2 * Timeout)
    /\ pc = "probe" => Fits(IF shaken THEN Timeout + Cost(1) ELSE Whole - Timeout)
    /\ pc = "handshake" => Fits(Encore)
    /\ pc = "handshaking" => Fits(Timeout + Cost(1))
    /\ Fits(0)

CutInv ==
    /\ ctxDeadline # None => now =< ctxDeadline
    /\ (ctxDeadline # None /\ Waiting) => deadline =< ctxDeadline
    /\ pc = "reading" => deadline =< now + Longest
    /\ cancelled # {} => cutAt =< now /\ now =< cutAt + Longest
    /\ (cancelled # {} /\ pc = "reading") => deadline =< cutAt + Longest

IInv == TypeOK /\ PlaceInv /\ WireInv /\ OpenInv /\ TimeInv /\ CutInv

----------------------------------------------------------------------------
\* The configuration has no zero in it.
LEMMA Positive ==
    /\ DialTimeout \in Nat \ {0} /\ Timeout \in Nat \ {0} /\ SettleTimeout \in Nat \ {0}
    /\ Length \in Nat \ {0}
BY Parameters DEF Setting, Settings, DialTimeout, Timeout, SettleTimeout, Length

\* What a banner of bytes may still cost, and the budget, are numbers.
LEMMA CostType == \A r \in 0..Length : Cost(r) \in Nat
<1> SUFFICES ASSUME NEW r \in 0..Length PROVE Cost(r) \in Nat
  OBVIOUS
<1>1. \A x, y \in Nat : x * y \in Nat
  OBVIOUS
<1>2. Length - r \in Nat /\ SettleTimeout \in Nat
  BY Positive
<1> QED BY <1>1, <1>2 DEF Cost

\* One more byte is one wait less.
LEMMA CostDrops ==
    ASSUME NEW r \in 0..Length, NEW q \in 0..Length, r < q
    PROVE  Cost(q) + SettleTimeout =< Cost(r)
<1>1. \A x, y, s \in Nat : x < y => x * s + s =< y * s
  OBVIOUS
<1>2. Length - q \in Nat /\ Length - r \in Nat /\ Length - q < Length - r /\ SettleTimeout \in Nat
  BY Positive
<1> QED BY <1>1, <1>2 DEF Cost

\* The budget is a number.
LEMMA BudgetType == Budget \in Nat
<1>1. (Length - 1) * SettleTimeout \in Nat
  BY CostType, Positive DEF Cost
<1> QED BY <1>1, Positive DEF Budget

\* What fits with more to come fits; and a wait of w from n is over before what fits with it.
LEMMA FitsLess == \A x, y, b \in Nat : x + y =< b => x + 0 =< b
OBVIOUS

\* A deadline set for a part of the budget ends within it.
LEMMA FitsAfterWait == \A n, w, y, b, d \in Nat : n + w + y =< b /\ d =< n + w => d + y =< b
OBVIOUS

\* A wait ends after its timeout at the latest, and within the context's deadline.
LEMMA WaitBounds ==
    ASSUME TypeOK, NEW t \in Nat
    PROVE  /\ WaitUntil(t) \in Nat /\ WaitUntil(t) =< now + t
           /\ ctxDeadline # None => WaitUntil(t) =< ctxDeadline
BY Parameters DEF TypeOK, WaitUntil

\* What a step needs of the whole it splits.
LEMMA NextSplits ==
    ASSUME [Next]_vars
    PROVE  \/ Dial \/ DialSucceeds \/ DialFails \/ Grab \/ NextRead \/ EndRead \/ ReadBytes
           \/ ReadFails \/ Ask \/ Handshake \/ HandshakeSucceeds \/ Retry \/ Return
           \/ (\E interrupted \in BOOLEAN : HandshakeFails(interrupted))
           \/ (\E written \in BOOLEAN : Request(written))
           \/ (\E n \in {1, left} : Say(n)) \/ HangUp
           \/ (\E who \in {"caller", "scan"} : Cancel(who)) \/ Tick \/ UNCHANGED vars
BY DEF Next, Step, Finished

\* Once it has dialled, a grab is on a connection.
LEMMA OnAConnection == TypeOK /\ PlaceInv /\ pc # "dial" => conn \in Connections
BY DEF TypeOK, PlaceInv, Connections

\* Every step keeps the types.
LEMMA TypeStep == ASSUME TypeOK, PlaceInv, [Next]_vars PROVE TypeOK'
<1> USE DEF TypeOK
<1>1. CASE Dial
  <2>1. deadline' \in Nat
    BY <1>1, WaitBounds, Positive DEF Dial
  <2>2. left' \in Nat /\ conn' \in 0..2
    BY <1>1, Parameters DEF Dial, PlaceInv
  <2> QED BY <1>1, <2>1, <2>2 DEF Dial
<1>2. CASE DialSucceeds
  BY <1>2 DEF DialSucceeds, Connections, PlaceInv
<1>3. CASE DialFails
  BY <1>3 DEF DialFails
<1>4. CASE Grab
  BY <1>4, Positive DEF Grab
<1>5. CASE NextRead
  BY <1>5, WaitBounds DEF NextRead
<1>6. CASE EndRead \/ ReadFails \/ Ask
  <2>1. CASE EndRead
    BY <2>1 DEF EndRead
  <2>2. CASE ReadFails
    BY <2>2 DEF ReadFails
  <2>3. CASE Ask
    BY <2>3 DEF Ask
  <2> QED BY <1>6, <2>1, <2>2, <2>3
<1>7. CASE ReadBytes
  <2>1. ChunkThatFits \in Nat /\ raw + ChunkThatFits \in 0..Length /\ inbox - ChunkThatFits \in Nat
    BY <1>7, Positive DEF ChunkThatFits
  <2>2. taken' \in [Connections -> Nat]
    BY <1>7, <2>1, OnAConnection DEF ReadBytes
  <2> QED BY <1>7, <2>1, <2>2, Positive DEF ReadBytes
<1>8. CASE Handshake
  <2>1. deadline' \in Nat
    BY <1>8, WaitBounds, Positive DEF Handshake
  <2>2. wire' \in [Connections -> Seq({"hello", "request"})]
    BY <1>8, OnAConnection DEF Handshake
  <2> QED BY <1>8, <2>1, <2>2 DEF Handshake
<1>9. CASE HandshakeSucceeds
  BY <1>9, Positive DEF HandshakeSucceeds
<1>10. CASE \E interrupted \in BOOLEAN : HandshakeFails(interrupted)
  BY <1>10, Positive DEF HandshakeFails
<1>11. CASE Retry
  BY <1>11 DEF Retry, AnotherConnection, ClosedAfter
<1>12. CASE Return
  BY <1>12 DEF Return, ClosedAfter, Grabbed
<1>13. CASE \E written \in BOOLEAN : Request(written)
  <2>1. wire' \in [Connections -> Seq({"hello", "request"})]
    BY <1>13, OnAConnection DEF Request
  <2> QED BY <1>13, <2>1, Positive DEF Request
<1>14. CASE \E n \in {1, left} : Say(n)
  BY <1>14 DEF Say, Speaks
<1>15. CASE HangUp
  BY <1>15 DEF HangUp
<1>16. CASE \E who \in {"caller", "scan"} : Cancel(who)
  BY <1>16 DEF Cancel
<1>17. CASE Tick
  BY <1>17 DEF Tick
<1>18. CASE UNCHANGED vars
  BY <1>18
<1> QED BY <1>1, <1>2, <1>3, <1>4, <1>5, <1>6, <1>7, <1>8, <1>9, <1>10, <1>11, <1>12, <1>13, <1>14,
           <1>15, <1>16, <1>17, <1>18, NextSplits

\* A grab moves on from place to place.
LEMMA PlaceStep == ASSUME TypeOK, PlaceInv, [Next]_vars PROVE PlaceInv'
<1> USE Positive DEF TypeOK, PlaceInv
<1>1. CASE Dial
  BY <1>1 DEF Dial
<1>2. CASE DialSucceeds
  BY <1>2 DEF DialSucceeds
<1>3. CASE DialFails
  BY <1>3 DEF DialFails
<1>4. CASE Grab
  BY <1>4 DEF Grab, TlsFirst
<1>5. CASE NextRead
  BY <1>5 DEF NextRead
<1>6. CASE EndRead
  BY <1>6 DEF EndRead
<1>7. CASE ReadBytes
  BY <1>7 DEF ReadBytes, ChunkThatFits
<1>8. CASE ReadFails
  BY <1>8 DEF ReadFails
<1>9. CASE Ask
  BY <1>9 DEF Ask, MustAsk
<1>10. CASE Handshake
  BY <1>10 DEF Handshake
<1>11. CASE HandshakeSucceeds
  BY <1>11 DEF HandshakeSucceeds
<1>12. CASE \E interrupted \in BOOLEAN : HandshakeFails(interrupted)
  BY <1>12 DEF HandshakeFails
<1>13. CASE Retry
  BY <1>13 DEF Retry, AnotherConnection, MayRetry, Grabbed, MustAsk
<1>14. CASE Return
  BY <1>14 DEF Return
<1>15. CASE \E written \in BOOLEAN : Request(written)
  BY <1>15 DEF Request
<1>16. CASE (\E n \in {1, left} : Say(n)) \/ HangUp
  BY <1>16, SMTT(20) DEF Say, HangUp
<1>17. CASE \E who \in {"caller", "scan"} : Cancel(who)
  BY <1>17 DEF Cancel
<1>18. CASE Tick
  BY <1>18 DEF Tick
<1>19. CASE UNCHANGED vars
  BY <1>19
<1> QED BY <1>1, <1>2, <1>3, <1>4, <1>5, <1>6, <1>7, <1>8, <1>9, <1>10,
           <1>11, <1>12, <1>13, <1>14, <1>15, <1>16, <1>17, <1>18, <1>19, NextSplits

\* What was written and read so far stays on its connection.
LEMMA WireStep == ASSUME TypeOK, PlaceInv, WireInv, [Next]_vars PROVE WireInv'
<1> USE OnAConnection DEF TypeOK, PlaceInv, WireInv, FreshHandshake, Connections
<1>1. CASE Dial
  BY <1>1 DEF Dial
<1>2. CASE DialSucceeds
  BY <1>2 DEF DialSucceeds
<1>3. CASE DialFails
  BY <1>3 DEF DialFails
<1>4. CASE Grab
  BY <1>4 DEF Grab
<1>5. CASE NextRead
  BY <1>5 DEF NextRead
<1>6. CASE EndRead
  BY <1>6 DEF EndRead
<1>7. CASE ReadBytes
  BY <1>7, SMTT(20) DEF ReadBytes
<1>8. CASE ReadFails
  BY <1>8 DEF ReadFails
<1>9. CASE Ask
  BY <1>9 DEF Ask
<1>10. CASE Handshake
  <2>1. conn \in Connections /\ wire[conn] = <<>> /\ taken[conn] = 0
    BY <1>10 DEF Handshake
  <2>2. Append(wire[conn], "hello") = <<"hello">>
    BY <2>1
  <2>3. wire' = [wire EXCEPT ![conn] = <<"hello">>] /\ conn' = conn /\ taken' = taken
    BY <1>10, <2>2 DEF Handshake
  <2> QED BY <1>10, <2>1, <2>3 DEF Handshake
<1>11. CASE HandshakeSucceeds
  BY <1>11 DEF HandshakeSucceeds
<1>12. CASE \E interrupted \in BOOLEAN : HandshakeFails(interrupted)
  BY <1>12 DEF HandshakeFails
<1>13. CASE Retry
  BY <1>13 DEF Retry, AnotherConnection, MayRetry
<1>14. CASE Return
  BY <1>14 DEF Return
<1>15. CASE \E written \in BOOLEAN : Request(written)
  BY <1>15 DEF Request
<1>16. CASE (\E n \in {1, left} : Say(n)) \/ HangUp
  BY <1>16 DEF Say, HangUp
<1>17. CASE \E who \in {"caller", "scan"} : Cancel(who)
  BY <1>17 DEF Cancel
<1>18. CASE Tick
  BY <1>18 DEF Tick
<1>19. CASE UNCHANGED vars
  BY <1>19
<1> QED BY <1>1, <1>2, <1>3, <1>4, <1>5, <1>6, <1>7, <1>8, <1>9, <1>10,
           <1>11, <1>12, <1>13, <1>14, <1>15, <1>16, <1>17, <1>18, <1>19, NextSplits

\* A context that has ended stays so.
LEMMA ContextStaysEnded == ASSUME TypeOK, [Next]_vars, ContextEnded PROVE ContextEnded'
<1>1. UNCHANGED ctxDeadline /\ now \in Nat /\ now' \in Nat /\ now =< now'
      /\ cancelled \subseteq cancelled'
  <2>1. now' \in {now, now + 1} /\ UNCHANGED ctxDeadline
    BY NextSplits DEF Dial, DialSucceeds, DialFails, Grab, NextRead, EndRead, ReadBytes, ReadFails, Ask,
       Handshake, HandshakeSucceeds, HandshakeFails, Retry, Return, Request, Say, HangUp, Cancel, Tick
  <2>2. cancelled \subseteq cancelled'
    BY NextSplits DEF Dial, DialSucceeds, DialFails, Grab, NextRead, EndRead, ReadBytes, ReadFails, Ask,
       Handshake, HandshakeSucceeds, HandshakeFails, Retry, Return, Request, Say, HangUp, Cancel, Tick
  <2> QED BY <2>1, <2>2 DEF TypeOK
<1>2. ctxDeadline # None => ctxDeadline \in Nat
  BY Parameters DEF TypeOK
<1>3. DeadlinePassed => DeadlinePassed'
  BY <1>1, <1>2 DEF DeadlinePassed
<1>4. cancelled # {} => cancelled' # {}
  BY <1>1
<1> QED BY <1>3, <1>4 DEF ContextEnded

\* A connection is closed before the next is dialled.
LEMMA OpenStep == ASSUME TypeOK, PlaceInv, OpenInv, [Next]_vars PROVE OpenInv'
<1>0. ContextEnded => ContextEnded'
  BY ContextStaysEnded
<1> USE <1>0 DEF TypeOK, PlaceInv, OpenInv, NothingStaysOpen
<1>1. CASE Dial
  BY <1>1 DEF Dial
<1>2. CASE DialSucceeds
  BY <1>2 DEF DialSucceeds
<1>3. CASE DialFails
  BY <1>3 DEF DialFails
<1>4. CASE Grab
  BY <1>4 DEF Grab
<1>5. CASE NextRead
  BY <1>5 DEF NextRead
<1>6. CASE EndRead
  BY <1>6 DEF EndRead
<1>7. CASE ReadBytes
  BY <1>7 DEF ReadBytes
<1>8. CASE ReadFails
  BY <1>8 DEF ReadFails
<1>9. CASE Ask
  BY <1>9 DEF Ask, MustAsk
<1>10. CASE Handshake
  BY <1>10 DEF Handshake
<1>11. CASE HandshakeSucceeds
  BY <1>11 DEF HandshakeSucceeds
<1>12. CASE \E interrupted \in BOOLEAN : HandshakeFails(interrupted)
  BY <1>12 DEF HandshakeFails
<1>13. CASE Retry
  BY <1>13 DEF Retry, AnotherConnection, ClosedAfter, MayRetry
<1>14. CASE Return
  BY <1>14 DEF Return, ClosedAfter
<1>15. CASE \E written \in BOOLEAN : Request(written)
  BY <1>15 DEF Request
<1>16. CASE (\E n \in {1, left} : Say(n)) \/ HangUp
  BY <1>16 DEF Say, HangUp
<1>17. CASE \E who \in {"caller", "scan"} : Cancel(who)
  BY <1>17 DEF Cancel
<1>18. CASE Tick
  BY <1>18 DEF Tick
<1>19. CASE UNCHANGED vars
  BY <1>19
<1> QED BY <1>1, <1>2, <1>3, <1>4, <1>5, <1>6, <1>7, <1>8, <1>9, <1>10,
           <1>11, <1>12, <1>13, <1>14, <1>15, <1>16, <1>17, <1>18, <1>19, NextSplits

\* Whatever a grab does, what it has left to do shrinks by the time it may take.
LEMMA TimeStep == ASSUME TypeOK, PlaceInv, TimeInv, [Next]_vars PROVE TimeInv'
<1>a. Cost(1) \in Nat /\ Cost(raw) \in Nat /\ Budget \in Nat
  BY CostType, BudgetType, Positive DEF TypeOK
<1>b. raw < Length => SettleTimeout =< Cost(raw)
  <2> SUFFICES ASSUME raw < Length PROVE SettleTimeout =< Cost(raw)
    OBVIOUS
  <2>1. raw \in 0..Length /\ Length \in 0..Length
    BY Positive DEF TypeOK
  <2>2. Cost(Length) \in Nat /\ Cost(Length) + SettleTimeout =< Cost(raw)
    BY <2>1, CostType, CostDrops
  <2> QED BY <1>a, <2>2, Positive
<1>c. raw' \in 1..Length => Cost(raw') \in Nat /\ Cost(raw') =< Cost(1)
  BY CostType, CostDrops, Positive
<1>d. /\ Whole \in Nat /\ Encore \in Nat
      /\ Whole >= Encore /\ Encore = 2 * Timeout + Cost(1)
      /\ mode = "syn" => Whole = DialTimeout + 2 * Timeout + Encore
      /\ Whole' = (IF mode' = "syn" THEN DialTimeout + 2 * Timeout + Encore ELSE Encore)
      /\ mode # "syn" => Whole = Encore
  BY <1>a, Positive DEF Whole, Encore
<1>e. mode' = mode /\ Budget' = Budget
  BY NextSplits DEF Budget, Dial, DialSucceeds, DialFails, Grab, NextRead, EndRead, ReadBytes,
     ReadFails, Ask, Handshake, HandshakeSucceeds, HandshakeFails, Retry, Return, Request, Say,
     HangUp, Cancel, Tick
<1>f. /\ now \in Nat /\ deadline \in Nat /\ raw \in 0..Length /\ conn \in 0..2
      /\ shaken \in BOOLEAN /\ stage \in {"plain", "probe", "tls"}
  BY DEF TypeOK
<1> USE <1>a, <1>d, <1>e, <1>f, Positive DEF PlaceInv, TimeInv, Fits, Silent, Waiting
<1>1. CASE Dial
  BY <1>1, WaitBounds DEF Dial
<1>2. CASE DialSucceeds
  BY <1>2 DEF DialSucceeds
<1>3. CASE DialFails
  BY <1>3 DEF DialFails
<1>4. CASE Grab
  BY <1>4 DEF Grab, TlsFirst
<1>5. CASE NextRead
  <2>1. timeout \in Nat /\ timeout = IF raw = 0 THEN Timeout ELSE SettleTimeout
    BY <1>5 DEF NextRead
  <2>2. deadline' \in Nat /\ deadline' =< now + timeout
    BY <1>5, <2>1, WaitBounds DEF NextRead
  <2>3. /\ pc = "more" /\ pc' = "reading" /\ raw < Length
        /\ now' = now /\ raw' = raw /\ stage' = stage
    BY <1>5 DEF NextRead
  <2> DEFINE ahead == IF raw # 0 THEN Cost(raw) - SettleTimeout
                      ELSE IF stage = "plain" THEN Whole - Timeout
                      ELSE IF stage = "probe" THEN Whole - 2 * Timeout ELSE Cost(1)
  <2>4. ahead \in Nat /\ now + timeout + ahead =< Budget
    <3>1. CASE raw # 0
      BY <1>b, <2>1, <2>3, <3>1
    <3>2. CASE raw = 0 /\ stage = "plain"
      BY <2>1, <2>3, <3>2
    <3>3. CASE raw = 0 /\ stage = "probe"
      BY <2>1, <2>3, <3>3
    <3>4. CASE raw = 0 /\ stage = "tls"
      BY <2>1, <2>3, <3>4
    <3> QED BY <3>1, <3>2, <3>3, <3>4
  <2>5. deadline' + ahead =< Budget /\ now' + ahead =< Budget
    <3> HIDE DEF ahead
    <3>1. now + ahead =< Budget
      BY ONLY <1>a, <1>f, <2>1, <2>4
    <3> QED BY ONLY <1>a, <1>f, <2>1, <2>2, <2>3, <2>4, <3>1, FitsAfterWait
  <2>6. deadline' + 0 =< Budget /\ now' + 0 =< Budget
    <3> HIDE DEF ahead
    <3> QED BY ONLY <1>a, <1>f, <2>2, <2>3, <2>4, <2>5, FitsLess
  <2>7. CASE raw # 0
    BY ONLY <1>e, <1>f, <2>3, <2>5, <2>6, <2>7 DEF TimeInv, Fits, Silent, Waiting
  <2>8. CASE raw = 0
    <3>1. Whole' = Whole
      BY <1>e DEF Whole
    <3> QED BY ONLY <1>e, <1>f, <2>3, <2>5, <2>6, <2>8, <3>1 DEF TimeInv, Fits, Silent, Waiting
  <2> QED BY <2>7, <2>8
<1>6. CASE EndRead
  BY <1>6 DEF EndRead
<1>7. CASE ReadBytes
  <2>1. raw' \in 1..Length /\ raw < raw'
    BY <1>7 DEF ReadBytes, ChunkThatFits, TypeOK
  <2>2. pc = "reading" /\ pc' = "more" /\ now' = now
    BY <1>7 DEF ReadBytes
  <2>3. Cost(raw') \in Nat /\ Cost(raw') + SettleTimeout =< Cost(raw) /\ Cost(raw') =< Cost(1)
    BY <1>c, <2>1, CostDrops
  <2>4. now + Cost(raw') =< Budget
    BY <2>2, <2>3
  <2> QED BY <2>1, <2>2, <2>3, <2>4
<1>8. CASE ReadFails
  BY <1>8 DEF ReadFails
<1>9. CASE Ask
  BY <1>9 DEF Ask, MustAsk
<1>10. CASE Handshake
  <2>1. deadline' \in Nat /\ deadline' =< now + Timeout
    BY <1>10, WaitBounds DEF Handshake
  <2>2. pc = "handshake" /\ pc' = "handshaking" /\ now' = now
    BY <1>10 DEF Handshake
  <2>3. deadline' + (Timeout + Cost(1)) =< Budget /\ now + (Timeout + Cost(1)) =< Budget
    BY <2>1, <2>2
  <2>4. deadline' + 0 =< Budget /\ now + 0 =< Budget
    <3>1. Timeout + Cost(1) \in Nat
      BY ONLY <1>a, Positive
    <3> QED BY ONLY <1>a, <1>f, <2>1, <2>3, <3>1, FitsLess
  <2> QED BY ONLY <1>e, <2>2, <2>3, <2>4 DEF TimeInv, Fits, Silent, Waiting
<1>11. CASE HandshakeSucceeds
  BY <1>11 DEF HandshakeSucceeds
<1>12. CASE \E interrupted \in BOOLEAN : HandshakeFails(interrupted)
  BY <1>12 DEF HandshakeFails
<1>13. CASE Retry
  BY <1>13 DEF Retry, AnotherConnection, MayRetry, Grabbed, MustAsk
<1>14. CASE Return
  BY <1>14 DEF Return
<1>15. CASE \E written \in BOOLEAN : Request(written)
  <2>1. PICK written \in BOOLEAN : Request(written)
    BY <1>15
  <2>2. CASE pc' = "more"
    BY <2>1, <2>2 DEF Request
  <2>3. CASE pc' = "said"
    <3>1. /\ pc = "probe" /\ UNCHANGED <<mode, now, deadline, shaken, conn>> /\ raw' = 0
          /\ stage' = IF shaken THEN "tls" ELSE "probe"
      BY ONLY <2>1 DEF Request, input, clockVars
    <3>2. Fits(IF shaken THEN Timeout + Cost(1) ELSE Whole - Timeout) /\ Fits(0)
      BY ONLY <3>1, TimeInv DEF TimeInv
    <3>3. Whole' = Whole
      BY ONLY <3>1 DEF Whole, Encore
    <3> QED BY ONLY <1>a, <1>d, <1>e, <1>f, <2>3, <3>1, <3>2, <3>3, Positive
               DEF TimeInv, Fits, Silent, Waiting
  <2>4. pc' = "more" \/ pc' = "said"
    BY ONLY <2>1 DEF Request
  <2> QED BY ONLY <2>2, <2>3, <2>4
<1>16. CASE (\E n \in {1, left} : Say(n)) \/ HangUp
  BY <1>16 DEF Say, HangUp
<1>17. CASE \E who \in {"caller", "scan"} : Cancel(who)
  BY <1>17 DEF Cancel
<1>18. CASE Tick
  BY <1>18 DEF Tick, Waits, Expired
<1>19. CASE UNCHANGED vars
  BY <1>19
<1> QED BY <1>1, <1>2, <1>3, <1>4, <1>5, <1>6, <1>7, <1>8, <1>9, <1>10,
           <1>11, <1>12, <1>13, <1>14, <1>15, <1>16, <1>17, <1>18, <1>19, NextSplits

\* A wait ends with the context's deadline, and a read soon after the context is cancelled.
LEMMA CutStep == ASSUME TypeOK, PlaceInv, CutInv, [Next]_vars PROVE CutInv'
<1> USE Positive DEF TypeOK, PlaceInv, CutInv, Waiting, Longest
<1>1. CASE Dial
  BY <1>1, WaitBounds DEF Dial
<1>2. CASE DialSucceeds
  BY <1>2 DEF DialSucceeds
<1>3. CASE DialFails
  BY <1>3 DEF DialFails
<1>4. CASE Grab
  BY <1>4 DEF Grab
<1>5. CASE NextRead
  <2>1. timeout \in Nat /\ timeout =< Longest
    BY <1>5 DEF NextRead
  <2>2. /\ deadline' \in Nat /\ deadline' =< now + timeout
        /\ ctxDeadline # None => deadline' =< ctxDeadline
    BY <1>5, <2>1, WaitBounds DEF NextRead
  <2>3. now' = now /\ cancelled' = {} /\ cancelled = {} /\ ctxDeadline' = ctxDeadline
    BY <1>5 DEF NextRead, ContextEnded
  <2>4. pc' = "reading" /\ now \in Nat /\ Longest \in Nat
    BY <1>5 DEF NextRead
  <2>5. deadline' =< now + Longest
    <3> HIDE DEF Longest, TypeOK, CutInv
    <3> QED BY <2>1, <2>2, <2>4
  <2> HIDE DEF Longest
  <2> QED BY <2>2, <2>3, <2>4, <2>5
<1>6. CASE EndRead
  BY <1>6 DEF EndRead
<1>7. CASE ReadBytes
  BY <1>7 DEF ReadBytes
<1>8. CASE ReadFails
  BY <1>8 DEF ReadFails
<1>9. CASE Ask
  BY <1>9 DEF Ask
<1>10. CASE Handshake
  BY <1>10, WaitBounds DEF Handshake
<1>11. CASE HandshakeSucceeds
  BY <1>11 DEF HandshakeSucceeds
<1>12. CASE \E interrupted \in BOOLEAN : HandshakeFails(interrupted)
  BY <1>12 DEF HandshakeFails
<1>13. CASE Retry
  BY <1>13 DEF Retry, AnotherConnection
<1>14. CASE Return
  BY <1>14 DEF Return
<1>15. CASE \E written \in BOOLEAN : Request(written)
  BY <1>15 DEF Request
<1>16. CASE (\E n \in {1, left} : Say(n)) \/ HangUp
  BY <1>16 DEF Say, HangUp
<1>17. CASE \E who \in {"caller", "scan"} : Cancel(who)
  BY <1>17 DEF Cancel
<1>18. CASE Tick
  <2>1. /\ pc' = pc /\ now' = now + 1 /\ now < deadline /\ Waiting
        /\ pc # "reading" => cancelled = {}
        /\ UNCHANGED <<ctxDeadline, cancelled, cutAt, deadline>>
    BY <1>18 DEF Tick, Waits, Expired, ContextEnded
  <2> HIDE DEF Longest, Waiting
  <2>2. /\ Longest \in Nat /\ now \in Nat /\ deadline \in Nat /\ cutAt \in Nat
        /\ ctxDeadline # None => ctxDeadline \in Nat
    BY Parameters DEF Longest
  <2> HIDE DEF TypeOK
  <2>3. now + 1 =< deadline
    BY <2>1, <2>2
  <2> QED BY <2>1, <2>2, <2>3 DEF Waiting
<1>19. CASE UNCHANGED vars
  BY <1>19
<1> QED BY <1>1, <1>2, <1>3, <1>4, <1>5, <1>6, <1>7, <1>8, <1>9, <1>10,
           <1>11, <1>12, <1>13, <1>14, <1>15, <1>16, <1>17, <1>18, <1>19, NextSplits

----------------------------------------------------------------------------
\* A grab starts in the invariant.
LEMMA InitInv == Init => IInv
<1> SUFFICES ASSUME Init PROVE IInv
  OBVIOUS
<1> USE Positive, Parameters DEF Init
<1>1. TypeOK
  <2>1. service.size \in Nat
    OBVIOUS
  <2>2. <<>> \in Seq({"hello", "request"})
    OBVIOUS
  <2>3. /\ deadline \in Nat /\ now \in Nat /\ cutAt \in Nat /\ timeout \in Nat \ {0}
        /\ raw \in 0..Length /\ conn \in 0..2 /\ inbox \in Nat /\ left \in Nat
    BY <2>1
  <2>4. /\ wire \in [Connections -> Seq({"hello", "request"})] /\ taken \in [Connections -> Nat]
        /\ open \subseteq Connections
    BY <2>2 DEF Connections
  <2> QED BY <2>3, <2>4 DEF TypeOK
<1>2. PlaceInv /\ OpenInv
  BY DEF PlaceInv, OpenInv, NothingStaysOpen
<1>3. WireInv
  BY DEF WireInv, FreshHandshake, Connections
<1>4. TimeInv
  <2>1. Cost(1) \in Nat /\ Cost(1) = (Length - 1) * SettleTimeout
    BY CostType, Positive DEF Cost
  <2> HIDE DEF Cost
  <2>2. Budget = IF mode = "syn" THEN DialTimeout + Whole ELSE Whole
    BY <2>1 DEF Budget, Whole
  <2> QED BY <2>1, <2>2, SMTT(20) DEF TimeInv, Fits, Silent, Waiting, Whole, Encore
<1>5. CutInv
  BY DEF CutInv, Waiting
<1> QED BY <1>1, <1>2, <1>3, <1>4, <1>5 DEF IInv

\* The inductive invariant.
THEOREM Invariant == Spec => []IInv
<1>1. IInv /\ [Next]_vars => IInv'
  BY TypeStep, PlaceStep, WireStep, OpenStep, TimeStep, CutStep DEF IInv
<1> QED BY <1>1, InitInv, PTL DEF Spec

\* The variables keep their types: whatever a service sends, no more is kept than config.Length.
THEOREM TypeCorrect == Spec => []TypeOK
<1>1. IInv => TypeOK
  BY DEF IInv
<1> QED BY <1>1, Invariant, PTL

\* A handshake is the first thing on its wire, after every history of the grab.
THEOREM HandshakesAreFresh == Spec => []FreshHandshake
<1>1. IInv => FreshHandshake
  BY DEF IInv, WireInv
<1> QED BY <1>1, Invariant, PTL

\* GrabAddress leaves no connection open and never has two; Grab leaves the one it was given open,
\* unless its context ended during a handshake on it.
THEOREM ConnectionsAreClosed == Spec => []NothingStaysOpen
<1>1. IInv => NothingStaysOpen
  BY DEF IInv, OpenInv
<1> QED BY <1>1, Invariant, PTL

\* For every choice of the four options a grab ends within its budget, within one wait of the end
\* of its context, and by the context's deadline.
THEOREM GrabsAreBounded == Spec => []GrabIsBounded
<1>1. IInv => GrabIsBounded
  BY BudgetType DEF IInv, TypeOK, TimeInv, CutInv, GrabIsBounded, Fits
<1> QED BY <1>1, Invariant, PTL

----------------------------------------------------------------------------
\* What a grab finds.  The invariant is about a service and a context that let it.

\* A service that does what it is going to do, and a context that lets it.
Obliging == service.prompt /\ ~ContextEnded

\* The grab is at a connection in the clear, where the service talks unasked or when it is asked.
InClear == pc \in {"grab", "more", "reading", "said", "probe"} /\ ~shaken /\ stage # "tls"
TalksUnasked == ~service.tls /\ service.first
TalksAsked == IF service.tls THEN service.objects ELSE service.first \/ service.asked
Talks == IF stage = "plain" THEN TalksUnasked ELSE TalksAsked

\* The service has not said a word, nor hung up.
Untouched == inbox = 0 /\ left = service.size /\ ~eof

\* In the clear, what the service has to say is on its way until a byte of it is read.
ClearInv ==
    InClear =>
        /\ pc # "grab" => ~TlsFirst
        /\ pc = "probe" => raw = 0 /\ http
        /\ conn = 1 /\ wire[1] = IF stage = "plain" THEN <<>> ELSE <<"request">>
        /\ stage = "probe" => http
        /\ IF Talks
           THEN /\ eof => left = 0
                /\ raw = 0 => /\ inbox + left > 0 /\ pc \in {"grab", "more", "reading"}
                              /\ pc = "reading" => now < deadline
           ELSE /\ raw = 0 /\ inbox = 0 /\ left = service.size
                /\ stage = "plain" => ~eof

\* A connection that has just been dialled, or is being shaken hands on, is as good as new.
FreshInv ==
    /\ pc \in {"dial", "dialing", "grab"} => raw = 0
    /\ pc = "grab" \/ (pc = "dialing" /\ conn = 1) => stage = "plain"
    /\ pc = "dialing" => Untouched /\ now < deadline
    /\ pc \in {"handshake", "handshaking"} => tls /\ (service.tls => Untouched)
    /\ (pc = "handshaking" /\ service.tls) => now < deadline
    /\ pc \notin {"dial", "dialing", "returned"} => conn \in open

\* A grab tries TLS where the convention or a silence in the clear makes it, and is shaken hands
\* with by a service that speaks it.
ShakenInv ==
    /\ (conn = 2 \/ (pc = "dial" /\ conn = 1)) => mode = "syn" /\ tls /\ ~tlsPort /\ ~InTheClear
    /\ stage = "tls" => tls
    /\ shaken => service.tls /\ tls /\ UnderTls
    /\ (stage = "tls" /\ ~shaken) => pc \in {"said", "returned"} /\ raw = 0 /\ ~service.tls

FindInv == Obliging => ClearInv /\ FreshInv /\ ShakenInv /\ FindsWhatIsThere

\* A context that has not ended has not ended before.
LEMMA ObligingBefore == ASSUME TypeOK, [Next]_vars, Obliging' PROVE Obliging
<1>1. UNCHANGED service
  BY NextSplits DEF Dial, DialSucceeds, DialFails, Grab, NextRead, EndRead, ReadBytes, ReadFails, Ask,
     Handshake, HandshakeSucceeds, HandshakeFails, Retry, Return, Request, Say, HangUp, Cancel, Tick
<1> QED BY <1>1, ContextStaysEnded DEF Obliging

\* A wait that begins does not end at once.
LEMMA WaitsAhead ==
    ASSUME TypeOK, ~ContextEnded, NEW t \in Nat \ {0}
    PROVE  now < WaitUntil(t)
BY Parameters DEF TypeOK, ContextEnded, DeadlinePassed, WaitUntil

\* Who speaks in the clear.
LEMMA SpeaksInTheClear ==
    ASSUME TypeOK, ~shaken, conn = 1, stage # "tls",
           wire[1] = IF stage = "plain" THEN <<>> ELSE <<"request">>
    PROVE  /\ Speaks <=> 1 \in open /\ ~eof /\ left > 0 /\ Talks
           /\ IsForeign <=> stage # "plain" /\ service.tls
<1>1. CASE stage = "plain"
  <2>1. ~IsForeign /\ ~Wrote("request")
    BY <1>1 DEF IsForeign, Wrote
  <2> QED BY <1>1, <2>1 DEF Speaks, Talks, TalksUnasked
<1>2. CASE stage # "plain"
  <2>1. wire[conn] = <<"request">> /\ wire[conn] # <<>> /\ wire[conn][1] = "request" /\ Len(wire[conn]) = 1
    BY <1>2
  <2>2. (IsForeign <=> service.tls) /\ Wrote("request")
    BY <2>1 DEF IsForeign, Wrote
  <2> QED BY <1>2, <2>2 DEF Speaks, Talks, TalksAsked
<1> QED BY <1>1, <1>2

\* A service that speaks TLS says nothing, and does not take offence, before the handshake.
LEMMA SilentBeforeHandshake ==
    ASSUME TypeOK, ~shaken, service.tls, wire[conn] \in {<<>>, <<"hello">>}
    PROVE  ~Speaks /\ ~IsForeign
<1>1. ~IsForeign
  BY DEF IsForeign
<1> QED BY <1>1 DEF Speaks

\* What the service still has to say in the clear is not lost on the way.
LEMMA ClearStep == ASSUME IInv, Obliging, ClearInv, FreshInv, ShakenInv, [Next]_vars PROVE ClearInv'
<1> USE Positive DEF IInv, TypeOK
<1>0. /\ now \in Nat /\ inbox \in Nat /\ left \in Nat /\ raw \in 0..Length /\ service.size \in Nat \ {0}
  BY Parameters
<1>1. CASE \/ Dial \/ DialFails \/ Handshake \/ HandshakeSucceeds \/ Return
           \/ \E interrupted \in BOOLEAN : HandshakeFails(interrupted)
  <2>1. (pc' \in {"dialing", "returned", "handshaking"}) \/ stage' = "tls"
    BY <1>1 DEF Dial, DialFails, Handshake, HandshakeSucceeds, HandshakeFails, Return
  <2> QED BY <2>1 DEF ClearInv, InClear
<1>2. CASE DialSucceeds
  <2>1. /\ pc = "dialing" /\ pc' = (IF conn = 1 THEN "grab" ELSE "handshake")
        /\ UNCHANGED <<service, stage, conn, raw, shaken, wire, inbox, left, eof, http, now, deadline>>
    BY <1>2 DEF DialSucceeds
  <2>2. raw = 0 /\ Untouched /\ (conn = 1 => stage = "plain" /\ wire[1] = <<>>)
    BY <2>1 DEF FreshInv, WireInv
  <2> QED BY <1>0, <2>1, <2>2 DEF ClearInv, InClear, Untouched, Talks, TalksUnasked
<1>3. CASE Grab
  <2>1. /\ pc = "grab" /\ pc' = (IF TlsFirst THEN "handshake" ELSE "more") /\ stage' = "plain" /\ raw' = 0
        /\ UNCHANGED <<tls, tlsPort, service, conn, shaken, wire, inbox, left, eof>>
    BY <1>3 DEF Grab
  <2>2. raw = 0 /\ (TlsFirst' <=> TlsFirst)
    BY <2>1 DEF FreshInv, TlsFirst
  <2>3. InClear' => InClear /\ stage = "plain" /\ (Talks' <=> Talks)
    BY <2>1, <2>2 DEF InClear, FreshInv, Talks, TalksUnasked
  <2> HIDE DEF TlsFirst, Talks
  <2> QED BY <2>1, <2>2, <2>3 DEF ClearInv, InClear
<1>4. CASE NextRead
  <2>1. now < WaitUntil(timeout)
    BY WaitsAhead DEF Obliging
  <2> QED BY <1>4, <2>1 DEF NextRead, ClearInv, InClear, Talks, TalksUnasked, TalksAsked, TlsFirst
<1>5. CASE EndRead
  BY <1>5 DEF EndRead, Obliging, ClearInv, InClear, Talks, TalksUnasked, TalksAsked, TlsFirst
<1>6. CASE ReadBytes
  <2>1. ChunkThatFits \in Nat \ {0} /\ raw + ChunkThatFits > 0
    BY <1>6 DEF ReadBytes, ChunkThatFits, PlaceInv
  <2> QED BY <1>6, <2>1 DEF ReadBytes, ClearInv, InClear, Talks, TalksUnasked, TalksAsked, TlsFirst
<1>7. CASE ReadFails
  BY <1>7 DEF ReadFails, Expired, ClearInv, InClear, Talks, TalksUnasked, TalksAsked, TlsFirst
<1>8. CASE Ask
  BY <1>8 DEF Ask, MustAsk, ClearInv, InClear, Talks, TalksUnasked, TalksAsked, TlsFirst
<1>9. CASE \E written \in BOOLEAN : Request(written)
  <2>1. CASE shaken
    BY <1>9, <2>1 DEF Request, ClearInv, InClear
  <2>2. CASE ~shaken
    <3>1. pc = "probe" /\ stage = "plain" /\ stage # "tls"
      BY <1>9, <2>2 DEF Request, PlaceInv
    <3>2. /\ conn = 1 /\ wire[1] = <<>> /\ raw = 0 /\ http /\ ~TlsFirst /\ ~Talks /\ Untouched
      BY <2>2, <3>1 DEF ClearInv, InClear, Untouched
    <3>3. now < WaitUntil(Timeout)
      BY WaitsAhead DEF Obliging
    <3>4. Request(TRUE)
      <4>1. WaitUntil(Timeout) \in Nat
        BY WaitBounds
      <4> QED BY <1>0, <1>9, <3>2, <3>3, <4>1 DEF Request, Untouched
    <3>5. /\ pc' = "more" /\ stage' = "probe" /\ raw' = 0
          /\ wire' = [wire EXCEPT ![1] = Append(<<>>, "request")]
          /\ UNCHANGED <<tls, http, tlsPort, service, conn, inbox, left, eof>>
      BY <2>2, <3>2, <3>4 DEF Request
    <3>6. wire'[1] = <<"request">>
      BY <3>5 DEF Connections
    <3> QED BY <1>0, <3>2, <3>5, <3>6 DEF ClearInv, InClear, Talks, TalksAsked, TlsFirst, Untouched
  <2> QED BY <2>1, <2>2
<1>10. CASE Retry
  BY <1>10 DEF Retry, AnotherConnection, ClearInv, InClear
<1>11. CASE (\E n \in {1, left} : Say(n)) \/ HangUp \/ (\E who \in {"caller", "scan"} : Cancel(who)) \/ Tick
  <2>1. UNCHANGED <<tls, http, tlsPort, service, pc, stage, conn, deadline, raw, shaken, wire>>
    BY <1>11 DEF Say, HangUp, Cancel, Tick
  <2> SUFFICES ASSUME InClear PROVE ClearInv'
    BY <2>1 DEF ClearInv, InClear
  <2>2. 1 \in open /\ conn = 1
    BY DEF ClearInv, FreshInv, InClear
  <2>3. (Speaks <=> ~eof /\ left > 0 /\ Talks) /\ (IsForeign <=> stage # "plain" /\ service.tls)
    BY <2>2, SpeaksInTheClear DEF ClearInv, InClear
  <2>4. (Talks' <=> Talks) /\ (TlsFirst' <=> TlsFirst)
    BY <2>1 DEF Talks, TalksUnasked, TalksAsked, TlsFirst
  <2> HIDE DEF Talks, TlsFirst
  <2>5. CASE \E n \in {1, left} : Say(n)
    <3>1. PICK n \in {1, left} : Say(n)
      BY <2>5
    <3>2. Talks /\ ~eof /\ inbox' = inbox + n /\ left' = left - n /\ n \in Nat /\ n =< left /\ UNCHANGED <<eof, now>>
      BY <1>0, <2>3, <3>1 DEF Say
    <3> QED BY <1>0, <2>1, <2>4, <3>2 DEF ClearInv, InClear
  <2>6. CASE HangUp
    <3>1. UNCHANGED <<inbox, left, now>> /\ ~Owes /\ ~eof /\ (left = 0 \/ IsForeign)
      BY <2>6 DEF HangUp, Obliging
    <3>2. ~Speaks
      BY <3>1 DEF Owes, Obliging
    <3>3. Talks => left = 0
      BY <1>0, <2>3, <3>1, <3>2
    <3>4. ~Talks => stage # "plain"
      BY <1>0, <2>3, <3>1 DEF ClearInv
    <3> QED BY <2>1, <2>4, <3>1, <3>3, <3>4 DEF ClearInv, InClear
  <2>7. CASE \E who \in {"caller", "scan"} : Cancel(who)
    <3>1. UNCHANGED <<inbox, left, eof, now>>
      BY <2>7 DEF Cancel
    <3> QED BY <2>1, <2>4, <3>1 DEF ClearInv, InClear
  <2>8. CASE Tick
    <3>1. UNCHANGED <<inbox, left, eof>> /\ ~Owes /\ Waits
      BY <2>8 DEF Tick
    <3>2. inbox = 0 /\ ~eof
      BY <3>1 DEF Waits, InClear
    <3>3. ~Speaks
      BY <3>1 DEF Owes, Obliging
    <3>4. ~(Talks /\ raw = 0)
      BY <1>0, <2>3, <3>2, <3>3 DEF ClearInv
    <3> QED BY <2>1, <2>4, <3>1, <3>4 DEF ClearInv, InClear
  <2> QED BY <1>11, <2>5, <2>6, <2>7, <2>8
<1>12. CASE UNCHANGED vars
  BY <1>12 DEF ClearInv, InClear, Talks, TalksUnasked, TalksAsked, TlsFirst
<1> QED BY <1>1, <1>2, <1>3, <1>4, <1>5, <1>6, <1>7, <1>8, <1>9, <1>10, <1>11, <1>12, NextSplits
\* A connection stays as good as new until it is used.
LEMMA FreshStep ==
    ASSUME IInv, Obliging, ClearInv, FreshInv, ShakenInv, [Next]_vars PROVE FreshInv'
<1> USE Positive DEF IInv, TypeOK
<1>0. now \in Nat /\ inbox \in Nat /\ left \in Nat /\ service.size \in Nat \ {0}
  BY Parameters
<1>1. CASE Dial
  <2>1. now < WaitUntil(DialTimeout)
    BY WaitsAhead DEF Obliging
  <2>2. conn \in {0, 1} /\ (conn = 0 => stage = "plain")
    BY <1>1 DEF Dial, PlaceInv
  <2> QED BY <1>1, <2>1, <2>2 DEF Dial, FreshInv, Untouched
<1>2. CASE DialSucceeds
  <2>1. conn \in {1, 2} /\ tls = (conn = 2 \/ tls)
    BY <1>2 DEF DialSucceeds, PlaceInv, ShakenInv
  <2> QED BY <1>2, <2>1 DEF DialSucceeds, FreshInv, Untouched, ShakenInv
<1>3. CASE DialFails \/ Return
  BY <1>3 DEF DialFails, Return, FreshInv
<1>4. CASE Grab
  <2>1. service.tls => Untouched
    <3>1. ~shaken /\ stage = "plain"
      BY <1>4 DEF Grab, PlaceInv, FreshInv
    <3>2. InClear /\ (service.tls => ~Talks)
      BY <1>4, <3>1 DEF Grab, InClear, Talks, TalksUnasked
    <3> QED BY <3>1, <3>2 DEF ClearInv, Untouched
  <2> QED BY <1>4, <2>1 DEF Grab, FreshInv, Untouched, TlsFirst
<1>5. CASE NextRead \/ EndRead \/ ReadBytes \/ ReadFails \/ Ask
  BY <1>5 DEF NextRead, EndRead, ReadBytes, ReadFails, Ask, FreshInv
<1>6. CASE \E written \in BOOLEAN : Request(written)
  BY <1>6 DEF Request, FreshInv
<1>7. CASE Handshake
  <2>1. now < WaitUntil(Timeout)
    BY WaitsAhead DEF Obliging
  <2> QED BY <1>7, <2>1 DEF Handshake, FreshInv, Untouched
<1>8. CASE HandshakeSucceeds \/ (\E interrupted \in BOOLEAN : HandshakeFails(interrupted))
  BY <1>8 DEF HandshakeSucceeds, HandshakeFails, FreshInv, Obliging
<1>9. CASE Retry
  BY <1>9 DEF Retry, AnotherConnection, Grabbed, FreshInv
<1>10. CASE (\E n \in {1, left} : Say(n)) \/ HangUp
  <2>1. /\ UNCHANGED <<tls, service, pc, stage, conn, open, deadline, raw, shaken, now>>
        /\ conn \in open /\ (Speaks \/ left = 0 \/ IsForeign)
    <3>1. CASE \E n \in {1, left} : Say(n)
      <4>1. Speaks
        BY <3>1 DEF Say
      <4> QED BY <3>1, <4>1 DEF Say, Speaks
    <3>2. CASE HangUp
      BY <3>2 DEF HangUp, Obliging
    <3> QED BY <1>10, <3>1, <3>2
  <2>2. pc \notin {"dial", "dialing"}
    BY <2>1 DEF OpenInv, NothingStaysOpen
  <2>3. ~(pc \in {"handshake", "handshaking"} /\ service.tls)
    <3> SUFFICES ASSUME pc \in {"handshake", "handshaking"}, service.tls PROVE FALSE
      OBVIOUS
    <3>1. ~shaken /\ wire[conn] \in {<<>>, <<"hello">>}
      BY DEF PlaceInv, WireInv, FreshHandshake
    <3>2. ~Speaks /\ ~IsForeign
      BY <3>1, SilentBeforeHandshake
    <3>3. left # 0
      BY <1>0 DEF FreshInv, Untouched
    <3> QED BY <2>1, <3>2, <3>3
  <2> QED BY <2>1, <2>2, <2>3 DEF FreshInv
<1>11. CASE \E who \in {"caller", "scan"} : Cancel(who)
  BY <1>11 DEF Cancel, FreshInv, Untouched
<1>12. CASE Tick
  <2>1. UNCHANGED <<tls, service, pc, stage, conn, open, deadline, raw, inbox, left, eof>> /\ ~Owes
    BY <1>12 DEF Tick
  <2>2. pc # "dialing" /\ ~(pc = "handshaking" /\ service.tls)
    BY <2>1 DEF Owes, Obliging
  <2> QED BY <2>1, <2>2 DEF FreshInv, Untouched
<1>13. CASE UNCHANGED vars
  BY <1>13 DEF FreshInv, Untouched
<1> QED BY <1>1, <1>2, <1>3, <1>4, <1>5, <1>6, <1>7, <1>8, <1>9, <1>10, <1>11, <1>12, <1>13, NextSplits

\* A handshake is made where it has to be, and with whom it can be.
LEMMA ShakenStep ==
    ASSUME IInv, Obliging, ClearInv, FreshInv, ShakenInv, [Next]_vars PROVE ShakenInv'
<1> USE Positive DEF IInv, TypeOK
<1>0. /\ UNCHANGED <<mode, tls, http, tlsPort, service>>
      /\ (InTheClear' <=> InTheClear) /\ (UnderTls' <=> UnderTls)
  <2>1. UNCHANGED <<mode, tls, http, tlsPort, service>>
    BY NextSplits DEF Dial, DialSucceeds, DialFails, Grab, NextRead, EndRead, ReadBytes, ReadFails, Ask,
       Handshake, HandshakeSucceeds, HandshakeFails, Retry, Return, Request, Say, HangUp, Cancel, Tick
  <2> QED BY <2>1 DEF InTheClear, UnderTls
<1> HIDE DEF InTheClear, UnderTls
<1>1. CASE Dial
  <2>1. /\ pc = "dial" /\ pc' = "dialing" /\ conn \in {0, 1} /\ conn' = conn + 1
        /\ UNCHANGED <<stage, shaken, raw>> /\ ~shaken
    BY <1>1 DEF Dial, PlaceInv
  <2>2. stage # "tls"
    BY <2>1 DEF ShakenInv
  <2>3. conn' = 2 => conn = 1
    BY <2>1
  <2> QED BY <1>0, <2>1, <2>2, <2>3 DEF ShakenInv
<1>2. CASE DialSucceeds \/ DialFails
  BY <1>0, <1>2 DEF DialSucceeds, DialFails, ShakenInv, PlaceInv
<1>3. CASE Grab
  BY <1>0, <1>3 DEF Grab, ShakenInv
<1>4. CASE NextRead \/ EndRead \/ ReadBytes \/ ReadFails \/ Ask
  <2>1. /\ pc \in {"more", "reading", "said"} /\ pc' \in {"more", "reading", "said", "probe"}
        /\ UNCHANGED <<stage, conn, shaken>>
    BY <1>4 DEF NextRead, EndRead, ReadBytes, ReadFails, Ask
  <2>2. (stage = "tls" /\ ~shaken) => pc' \in {"said", "returned"} /\ raw' = raw
    <3>1. CASE stage = "tls" /\ ~shaken
      <4>1. pc = "said" /\ stage = "tls"
        BY <2>1, <3>1 DEF ShakenInv
      <4> QED BY <1>4, <4>1 DEF NextRead, EndRead, ReadBytes, ReadFails, Ask, MustAsk
    <3> QED BY <3>1
  <2> QED BY <1>0, <2>1, <2>2 DEF ShakenInv
<1>5. CASE \E written \in BOOLEAN : Request(written)
  BY <1>0, <1>5 DEF Request, ShakenInv
<1>6. CASE Handshake
  BY <1>0, <1>6 DEF Handshake, ShakenInv
<1>7. CASE HandshakeSucceeds
  <2>1. service.tls /\ tls /\ conn \in {1, 2} /\ (conn = 1 => tlsPort)
    BY <1>7 DEF HandshakeSucceeds, FreshInv, PlaceInv
  <2>2. UnderTls
    BY <2>1 DEF ShakenInv, UnderTls
  <2> QED BY <1>0, <1>7, <2>1, <2>2 DEF HandshakeSucceeds, ShakenInv
<1>8. CASE \E interrupted \in BOOLEAN : HandshakeFails(interrupted)
  <2>1. ~service.tls /\ tls
    BY <1>8 DEF HandshakeFails, FreshInv, Obliging, Expired, WireInv, FreshHandshake, Untouched
  <2> QED BY <1>0, <1>8, <2>1 DEF HandshakeFails, ShakenInv, PlaceInv
<1>9. CASE Retry
  <2>1. /\ pc = "said" /\ ~MustAsk /\ raw = 0 /\ ~shaken /\ mode = "syn" /\ conn = 1 /\ tls /\ ~tlsPort
        /\ pc' = "dial" /\ UNCHANGED <<stage, conn, shaken, raw>>
    BY <1>9 DEF Retry, AnotherConnection, Grabbed, MayRetry
  <2>2. stage # "tls"
    BY <2>1 DEF PlaceInv
  <2>3. ~Talks
    BY <2>1, <2>2 DEF ClearInv, InClear
  <2>4. stage = "plain" => ~http
    BY <2>1 DEF MustAsk
  <2>5. ~InTheClear
    BY <2>2, <2>3, <2>4 DEF Talks, TalksUnasked, TalksAsked, InTheClear
  <2> QED BY <1>0, <2>1, <2>2, <2>5 DEF ShakenInv
<1>10. CASE Return
  BY <1>0, <1>10 DEF Return, ShakenInv
<1>11. CASE \/ (\E n \in {1, left} : Say(n)) \/ HangUp \/ (\E who \in {"caller", "scan"} : Cancel(who))
            \/ Tick \/ UNCHANGED vars
  <2>1. UNCHANGED <<pc, stage, conn, shaken, raw>>
    BY <1>11 DEF Say, HangUp, Cancel, Tick
  <2> QED BY <1>0, <2>1 DEF ShakenInv
<1> QED BY <1>1, <1>2, <1>3, <1>4, <1>5, <1>6, <1>7, <1>8, <1>9, <1>10, <1>11, NextSplits

\* What is returned is what was there to be found.
LEMMA FindsStep ==
    ASSUME IInv, Obliging, ClearInv, FreshInv, ShakenInv, FindsWhatIsThere, [Next]_vars, Obliging'
    PROVE  FindsWhatIsThere'
<1> USE Positive DEF IInv, TypeOK
<1>1. /\ UNCHANGED <<mode, tls, http, tlsPort, service>>
      /\ (InTheClear' <=> InTheClear) /\ (UnderTls' <=> UnderTls)
  <2>1. UNCHANGED <<mode, tls, http, tlsPort, service>>
    BY NextSplits DEF Dial, DialSucceeds, DialFails, Grab, NextRead, EndRead, ReadBytes, ReadFails, Ask,
       Handshake, HandshakeSucceeds, HandshakeFails, Retry, Return, Request, Say, HangUp, Cancel, Tick
  <2> QED BY <2>1 DEF InTheClear, UnderTls
<1>2. CASE Return
  <2>1. /\ pc = "said" /\ ~MustAsk /\ (Grabbed \/ ~MayRetry) /\ (found' <=> Grabbed)
        /\ UNCHANGED <<stage, conn, shaken, raw>>
    BY <1>2 DEF Return, Grabbed
  <2>0. found' = Grabbed /\ found' \in BOOLEAN /\ shaken' \in BOOLEAN
    BY <1>2, <2>1 DEF Return, Grabbed
  <2>2. CASE shaken
    BY <1>1, <2>1, <2>2 DEF FindsWhatIsThere, Grabbed, ShakenInv
  <2>3. CASE ~shaken /\ stage = "tls"
    <3>1. ~Grabbed /\ ~UnderTls
      BY <2>3 DEF Grabbed, ShakenInv, UnderTls
    <3>2. ~InTheClear
      <4>1. conn \in {1, 2} /\ (conn = 1 => tls /\ tlsPort)
        BY <2>1, <2>3 DEF PlaceInv, ShakenInv
      <4> QED BY <4>1 DEF ShakenInv, InTheClear
    <3>3. found' = FALSE /\ shaken' = FALSE /\ ~InTheClear' /\ ~UnderTls'
      BY <1>1, <2>0, <2>1, <2>3, <3>1, <3>2
    <3> QED BY <3>3 DEF FindsWhatIsThere, InTheClear, UnderTls
  <2>4. CASE ~shaken /\ stage # "tls"
    <3>1. /\ ~TlsFirst /\ conn = 1 /\ (stage = "probe" => http)
          /\ IF Talks THEN raw > 0 ELSE raw = 0
      BY <2>1, <2>4 DEF ClearInv, InClear
    <3>2. CASE Talks
      <4>1. InTheClear /\ ~UnderTls
        BY <2>4, <3>1, <3>2 DEF Talks, TalksUnasked, TalksAsked, InTheClear, UnderTls, TlsFirst
      <4>2. found' = TRUE /\ shaken' = FALSE /\ InTheClear' /\ ~UnderTls'
        BY <1>1, <2>0, <2>1, <2>4, <3>1, <3>2, <4>1 DEF Grabbed
      <4> QED BY <4>2 DEF FindsWhatIsThere, InTheClear, UnderTls
    <3>3. CASE ~Talks
      <4>1. stage = "plain" => ~http
        BY <2>1, <3>1, <3>3 DEF MustAsk
      <4>2. ~InTheClear
        BY <2>4, <3>3, <4>1 DEF Talks, TalksUnasked, TalksAsked, InTheClear
      <4>3. ~Grabbed /\ ~MayRetry
        BY <2>1, <2>4, <3>1, <3>3 DEF Grabbed
      <4>4. ~UnderTls
        BY <3>1, <4>3 DEF UnderTls, MayRetry, TlsFirst
      <4>5. found' = FALSE /\ shaken' = FALSE /\ ~InTheClear' /\ ~UnderTls'
        BY <1>1, <2>0, <2>1, <2>4, <4>2, <4>3, <4>4
      <4> QED BY <4>5 DEF FindsWhatIsThere, InTheClear, UnderTls
    <3> QED BY <3>2, <3>3
  <2> QED BY <2>2, <2>3, <2>4
<1>3. CASE DialFails
  <2>1. ~Expired
    BY <1>3 DEF DialFails, Expired, FreshInv
  <2> QED BY <1>3, <2>1 DEF DialFails, Obliging
<1>4. CASE \/ Dial \/ DialSucceeds \/ Grab \/ NextRead \/ EndRead \/ ReadBytes \/ ReadFails \/ Ask
           \/ Handshake \/ HandshakeSucceeds \/ Retry
           \/ (\E written \in BOOLEAN : Request(written))
           \/ \E interrupted \in BOOLEAN : HandshakeFails(interrupted)
  <2>1. pc' # "returned"
    BY <1>4 DEF Dial, DialSucceeds, Grab, NextRead, EndRead, ReadBytes, ReadFails, Ask, Handshake,
       HandshakeSucceeds, HandshakeFails, Retry, AnotherConnection, Request
  <2> QED BY <2>1 DEF FindsWhatIsThere
<1>5. CASE \/ (\E n \in {1, left} : Say(n)) \/ HangUp \/ (\E who \in {"caller", "scan"} : Cancel(who))
           \/ Tick \/ UNCHANGED vars
  <2>1. UNCHANGED <<pc, found, shaken>>
    BY <1>5 DEF Say, HangUp, Cancel, Tick
  <2>2. pc = "returned" => found = (InTheClear \/ UnderTls) /\ shaken = UnderTls
    BY DEF FindsWhatIsThere, Obliging
  <2>3. pc' = "returned" => found' = (InTheClear' \/ UnderTls') /\ shaken' = UnderTls'
    BY <1>1, <2>1, <2>2 DEF InTheClear, UnderTls
  <2> QED BY <2>3 DEF FindsWhatIsThere
<1> QED BY <1>2, <1>3, <1>4, <1>5, NextSplits

\* A service that does not keep the grab waiting is found out, in the clear or under TLS, exactly
\* when the options, the port and the connections at hand allow it (banner.go, Grab and
\* GrabAddress), for every configuration, service and deadline: no timeout cuts it off.
THEOREM GrabsFind == Spec => []FindsWhatIsThere
<1>1. Init => FindInv
  <2> SUFFICES ASSUME Init PROVE ClearInv /\ FreshInv /\ ShakenInv /\ FindsWhatIsThere
    BY DEF FindInv
  <2>1. service.size \in Nat \ {0}
    BY Parameters DEF Init
  <2>2. ClearInv
    <3>1. wire[1] = <<>>
      BY DEF Init, Connections
    <3>2. /\ pc \in {"dial", "grab"} /\ stage = "plain" /\ raw = 0 /\ inbox = 0 /\ left = service.size
          /\ eof = FALSE /\ (pc = "grab" => conn = 1)
      BY DEF Init
    <3> QED BY <2>1, <3>1, <3>2 DEF ClearInv, InClear
  <2>3. FreshInv
    BY DEF Init, FreshInv
  <2>4. ShakenInv /\ FindsWhatIsThere
    BY DEF Init, ShakenInv, FindsWhatIsThere
  <2> QED BY <2>2, <2>3, <2>4
<1>2. IInv /\ FindInv /\ [Next]_vars => FindInv'
  <2> SUFFICES ASSUME IInv, FindInv, [Next]_vars, Obliging'
               PROVE  (ClearInv /\ FreshInv /\ ShakenInv /\ FindsWhatIsThere)'
    BY DEF FindInv
  <2>1. Obliging
    BY ObligingBefore DEF IInv
  <2> QED BY <2>1, ClearStep, FreshStep, ShakenStep, FindsStep DEF FindInv
<1>3. FindInv => FindsWhatIsThere
  BY DEF FindInv, FindsWhatIsThere, Obliging
<1> QED BY <1>1, <1>2, <1>3, Invariant, PTL DEF Spec

================================================================================
