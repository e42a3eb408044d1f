------------------------------ MODULE BannerGrab ------------------------------
(***************************************************************************)
(* A banner grab (pkg/banner/banner.go): Grab on the connection a connect  *)
(* scan has just made, or GrabAddress from the callback of a SYN scan,     *)
(* against one service.  What makes it hard is time: dial, handshake and   *)
(* read have deadlines of their own, the context may have one and may be   *)
(* cancelled, a read is not woken by the cancellation, and the service     *)
(* speaks when it likes.                                                   *)
(*                                                                         *)
(* now counts ticks.  What the goroutine does between two waits takes no   *)
(* time; a tick passes only while it waits.                                *)
(***************************************************************************)
EXTENDS Integers, Sequences

CONSTANTS
    Options,    \* what the options set: dialTimeout, timeout, settleTimeout, length
    Defaults,   \* the values of an option that is not positive
    Services,   \* the services: [tls, first, asked, objects, prompt, size]
    Deadlines,  \* the deadlines the caller's context may have: times, or None
    None

Settings == {"dialTimeout", "timeout", "settleTimeout", "length"}

\* A service that says something says a byte at least; one that never does is not first, cannot be
\* asked and does not object.
ASSUME Parameters ==
    /\ Options \in [Settings -> Int] /\ Defaults \in [Settings -> Nat \ {0}]
    /\ Services \subseteq [tls : BOOLEAN, first : BOOLEAN, asked : BOOLEAN, objects : BOOLEAN,
                           prompt : BOOLEAN, size : Nat \ {0}]
    /\ Deadlines \subseteq Nat \cup {None} /\ None \notin Nat

\* banner_config.New with its options.
Setting(name) == IF Options[name] > 0 THEN Options[name] ELSE Defaults[name]
DialTimeout == Setting("dialTimeout")
Timeout == Setting("timeout")
SettleTimeout == Setting("settleTimeout")
Length == Setting("length")

VARIABLES
    mode,         \* "connect": Grab with the caller's context; "syn": GrabAddress with scanCtx
    tls, http,    \* config.Tls and config.Http
    tlsPort,      \* isTlsPort: the port conventionally speaks TLS
    service,      \* the service behind the port
    ctxDeadline,  \* the deadline of the context, or None
    now,          \* the time
    cancelled,    \* who has cancelled the context: "caller", "scan"
    cutAt,        \* when it was first cancelled
    pc,           \* where the grab is
    stage,        \* what the read is for: "plain", "probe", "tls"
    conn,         \* the connection it is at, 0 before the first
    open,         \* the connections that are open
    deadline,     \* when the wait ends
    timeout,      \* how long the next read may take
    raw,          \* the length of what was read
    shaken,       \* whether a handshake succeeded
    found,        \* whether the grab found a banner
    wire,         \* what was written to each connection: "hello", "request"
    taken,        \* how much was read from each, decrypted or not
    inbox,        \* how much of what the service said is yet to be read
    left,         \* how much it may still say on this connection
    eof           \* whether it has closed the connection

input == <<mode, tls, http, tlsPort, service, ctxDeadline>>
clockVars == <<now, cancelled, cutAt>>
readVars == <<timeout, raw, taken>>
serviceVars == <<inbox, left, eof>>
vars == <<input, clockVars, pc, stage, conn, open, deadline, readVars, shaken, found, wire,
          serviceVars>>

Connections == 1..2

----------------------------------------------------------------------------
\* ctx.Err() # nil
DeadlinePassed == ctxDeadline # None /\ now >= ctxDeadline
ContextEnded == cancelled # {} \/ DeadlinePassed

\* Mutant: the context's deadline is not looked at.
TimeoutOnly(t) == now + t
WaitUntil(t) == IF ctxDeadline # None /\ ctxDeadline < now + t THEN ctxDeadline ELSE now + t

Expired == now >= deadline

\* Mutant: a port's convention is not looked at.
NeverFirst == FALSE
TlsFirst == tls /\ tlsPort

Init ==
    /\ mode \in {"connect", "syn"}
    /\ tls \in BOOLEAN /\ http \in BOOLEAN /\ tlsPort \in BOOLEAN
    /\ service \in Services /\ ctxDeadline \in Deadlines
    /\ now = 0 /\ cancelled = {} /\ cutAt = 0
    /\ pc = IF mode = "syn" THEN "dial" ELSE "grab"
    /\ stage = "plain"
    /\ conn = IF mode = "syn" THEN 0 ELSE 1
    /\ open = IF mode = "syn" THEN {} ELSE {1}
    /\ deadline = 0 /\ timeout = Timeout /\ raw = 0 /\ shaken = FALSE /\ found = FALSE
    /\ wire = [c \in Connections |-> <<>>] /\ taken = [c \in Connections |-> 0]
    /\ inbox = 0 /\ left = service.size /\ eof = FALSE

----------------------------------------------------------------------------
\* dial

Dial ==
    /\ pc = "dial" /\ pc' = "dialing"
    /\ conn' = conn + 1
    /\ deadline' = WaitUntil(DialTimeout)
    /\ inbox' = 0 /\ left' = service.size /\ eof' = FALSE
    /\ UNCHANGED <<input, clockVars, stage, open, readVars, shaken, found, wire>>

DialSucceeds ==
    /\ pc = "dialing" /\ ~ContextEnded
    /\ pc' = IF conn = 1 THEN "grab" ELSE "handshake"
    /\ open' = open \cup {conn}
    /\ UNCHANGED <<input, clockVars, stage, conn, deadline, readVars, shaken, found, wire,
                   serviceVars>>

\* A prompt service accepts before time passes, and does not refuse.
DialFails ==
    /\ pc = "dialing" /\ pc' = "returned"
    /\ ContextEnded \/ Expired \/ ~service.prompt
    /\ UNCHANGED <<input, clockVars, stage, conn, open, deadline, readVars, shaken, found, wire,
                   serviceVars>>

----------------------------------------------------------------------------
\* grab

Grab ==
    /\ pc = "grab"
    /\ pc' = IF TlsFirst THEN "handshake" ELSE "more"
    /\ stage' = "plain" /\ raw' = 0 /\ timeout' = Timeout
    /\ UNCHANGED <<input, clockVars, conn, open, deadline, taken, shaken, found, wire, serviceVars>>

\* read: each round of the loop sets a deadline of its own.
NextRead ==
    /\ pc = "more" /\ pc' = "reading"
    /\ raw < Length /\ ~ContextEnded
    /\ deadline' = WaitUntil(timeout)
    /\ UNCHANGED <<input, clockVars, stage, conn, open, readVars, shaken, found, wire, serviceVars>>

EndRead ==
    /\ pc = "more" /\ pc' = "said"
    /\ raw >= Length \/ ContextEnded
    /\ UNCHANGED <<input, clockVars, stage, conn, open, deadline, readVars, shaken, found, wire,
                   serviceVars>>

\* Mutant: the chunk is not cut to the room there is.
WholeChunk == inbox
ChunkThatFits == IF inbox < Length - raw THEN inbox ELSE Length - raw

ReadBytes ==
    /\ pc = "reading" /\ pc' = "more"
    /\ inbox > 0
    /\ raw' = raw + ChunkThatFits
    /\ inbox' = inbox - ChunkThatFits
    /\ taken' = [taken EXCEPT ![conn] = @ + ChunkThatFits]
    /\ timeout' = SettleTimeout
    /\ UNCHANGED <<input, clockVars, stage, conn, open, deadline, shaken, found, wire, left, eof>>

\* A read that waits is not woken by the end of its context.  One whose deadline comes with the
\* bytes may go either way.
ReadFails ==
    /\ pc = "reading" /\ pc' = "said"
    /\ Expired \/ (inbox = 0 /\ eof)
    /\ UNCHANGED <<input, clockVars, stage, conn, open, deadline, readVars, shaken, found, wire,
                   serviceVars>>

\* What was said is the banner; a silent port is asked.
MustAsk == stage = "plain" /\ raw = 0 /\ http

Ask ==
    /\ pc = "said" /\ pc' = "probe"
    /\ MustAsk
    /\ UNCHANGED <<input, clockVars, stage, conn, open, deadline, readVars, shaken, found, wire,
                   serviceVars>>

\* probeHttp.  The write fails if the peer is gone (and may not notice), or no time is left.
Request(written) ==
    /\ pc = "probe"
    /\ written => WaitUntil(Timeout) > now
    /\ ~written => eof \/ WaitUntil(Timeout) =< now
    /\ pc' = IF written THEN "more" ELSE "said"
    /\ wire' = IF written THEN [wire EXCEPT ![conn] = Append(@, "request")] ELSE wire
    /\ stage' = IF shaken THEN "tls" ELSE "probe"
    /\ raw' = 0 /\ timeout' = Timeout
    /\ UNCHANGED <<input, clockVars, conn, open, deadline, taken, shaken, found, serviceVars>>

----------------------------------------------------------------------------
\* grabTls

Handshake ==
    /\ pc = "handshake" /\ pc' = "handshaking"
    /\ deadline' = WaitUntil(Timeout)
    /\ wire' = [wire EXCEPT ![conn] = Append(@, "hello")]
    /\ UNCHANGED <<input, clockVars, stage, conn, open, readVars, shaken, found, serviceVars>>

\* The service has to find the hello where it looks for it.
HandshakeSucceeds ==
    /\ pc = "handshaking"
    /\ service.tls /\ ~eof /\ wire[conn] = <<"hello">> /\ ~ContextEnded
    /\ shaken' = TRUE
    /\ pc' = IF http THEN "probe" ELSE "said"
    /\ stage' = "tls" /\ raw' = 0
    /\ UNCHANGED <<input, clockVars, conn, open, deadline, timeout, taken, found, wire, serviceVars>>

\* HandshakeContext returns as soon as its context ends, time runs out, or the answer is none.  The
\* first interrupts it by closing the connection beneath.
HandshakeFails(interrupted) ==
    /\ pc = "handshaking" /\ pc' = "said"
    /\ interrupted => ContextEnded
    /\ ~interrupted => \/ Expired \/ eof \/ (~service.tls /\ inbox > 0)
                       \/ (service.tls /\ ~service.prompt) \/ wire[conn] # <<"hello">>
    /\ open' = IF interrupted THEN open \ {conn} ELSE open
    /\ stage' = "tls" /\ raw' = 0
    /\ UNCHANGED <<input, clockVars, conn, deadline, timeout, taken, shaken, found, wire,
                   serviceVars>>

----------------------------------------------------------------------------
\* The end of a grab: GrabAddress closes its connection, and tries a handshake on another.

Grabbed == raw > 0 \/ shaken
MayRetry == mode = "syn" /\ conn = 1 /\ tls /\ ~tlsPort

\* Mutants: the connection is left open; the first one is used again.
KeptOpen == open
ClosedAfter == IF mode = "syn" THEN open \ {conn} ELSE open
SameConnection == "handshake"
AnotherConnection == "dial"

Retry ==
    /\ pc = "said" /\ pc' = AnotherConnection
    /\ ~MustAsk /\ ~Grabbed /\ MayRetry
    /\ open' = ClosedAfter
    /\ UNCHANGED <<input, clockVars, stage, conn, deadline, readVars, shaken, found, wire,
                   serviceVars>>

Return ==
    /\ pc = "said" /\ pc' = "returned"
    /\ ~MustAsk /\ (Grabbed \/ ~MayRetry)
    /\ found' = Grabbed
    /\ open' = ClosedAfter
    /\ UNCHANGED <<input, clockVars, stage, conn, deadline, readVars, shaken, wire, serviceVars>>

Finished == pc = "returned" /\ UNCHANGED vars

----------------------------------------------------------------------------
\* The service.  It speaks first, or when it is asked, in its own protocol; it may object to
\* another one.  A prompt service does what it is going to do before time passes.

Wrote(what) == \E i \in 1..Len(wire[conn]) : wire[conn][i] = what
IsForeign == wire[conn] # <<>> /\ wire[conn][1] = (IF service.tls THEN "request" ELSE "hello")

Speaks ==
    /\ conn \in open /\ ~eof /\ left > 0
    /\ \/ IsForeign /\ service.objects
       \/ (service.tls => shaken) /\ (service.first \/ (service.asked /\ Wrote("request")))

Owes == service.prompt /\ (Speaks \/ pc = "dialing" \/ (pc = "handshaking" /\ service.tls))

Say(n) ==
    /\ Speaks
    /\ n =< left
    /\ inbox' = inbox + n /\ left' = left - n
    /\ UNCHANGED <<input, clockVars, pc, stage, conn, open, deadline, readVars, shaken, found, wire,
                   eof>>

HangUp ==
    /\ conn \in open /\ ~eof /\ ~Owes
    /\ service.prompt => left = 0 \/ IsForeign
    /\ eof' = TRUE
    /\ UNCHANGED <<input, clockVars, pc, stage, conn, open, deadline, readVars, shaken, found, wire,
                   inbox, left>>

----------------------------------------------------------------------------
\* The context: the caller ends it, or Scan does when it has sent its last probe and waited for
\* the replies (scanner.go:284), before it waits for the callbacks.
Cancel(who) ==
    /\ pc # "returned" /\ who \notin cancelled
    /\ who = "scan" => mode = "syn"
    /\ cancelled' = cancelled \cup {who}
    /\ cutAt' = IF cancelled = {} THEN now ELSE cutAt
    /\ UNCHANGED <<input, now, pc, stage, conn, open, deadline, readVars, shaken, found, wire,
                   serviceVars>>

\* Whether the goroutine has nothing to do but wait.
Waits ==
    \/ pc \in {"dialing", "handshaking"} /\ ~ContextEnded
    \/ pc = "reading" /\ inbox = 0 /\ ~eof

Tick ==
    /\ Waits /\ ~Expired /\ ~Owes
    /\ now' = now + 1
    /\ UNCHANGED <<input, cancelled, cutAt, pc, stage, conn, open, deadline, readVars, shaken, found,
                   wire, serviceVars>>

----------------------------------------------------------------------------
Step ==
    \/ Dial \/ DialSucceeds \/ DialFails \/ Grab \/ NextRead \/ EndRead \/ ReadBytes \/ ReadFails
    \/ Ask \/ Handshake \/ HandshakeSucceeds \/ Retry \/ Return
    \/ \E written \in BOOLEAN : Request(written)
    \/ \E interrupted \in BOOLEAN : HandshakeFails(interrupted)

Next ==
    \/ Step
    \/ \E n \in {1, left} : Say(n)
    \/ HangUp
    \/ \E who \in {"caller", "scan"} : Cancel(who)
    \/ Tick
    \/ Finished

Spec == Init /\ [][Next]_vars

----------------------------------------------------------------------------
\* Every variable has its type; in particular no more is kept than config.Length.
TypeOK ==
    /\ mode \in {"connect", "syn"} /\ tls \in BOOLEAN /\ http \in BOOLEAN /\ tlsPort \in BOOLEAN
    /\ service \in Services /\ ctxDeadline \in Deadlines
    /\ now \in Nat /\ cancelled \subseteq {"caller", "scan"} /\ cutAt \in Nat
    /\ pc \in {"dial", "dialing", "grab", "more", "reading", "said", "probe", "handshake",
               "handshaking", "returned"}
    /\ stage \in {"plain", "probe", "tls"}
    /\ conn \in 0..2 /\ open \subseteq Connections
    /\ deadline \in Nat /\ timeout \in Nat \ {0} /\ raw \in 0..Length
    /\ shaken \in BOOLEAN /\ found \in BOOLEAN
    /\ wire \in [Connections -> Seq({"hello", "request"})] /\ taken \in [Connections -> Nat]
    /\ inbox \in Nat /\ left \in Nat /\ eof \in BOOLEAN

\* "a handshake has to be the first thing on the wire" (banner.go:129-130): no request was written
\* and no byte was read before it, whatever was tried first.
FreshHandshake ==
    pc = "handshaking" => wire[conn] = <<"hello">> /\ taken[conn] = 0

\* A grab ends in bounded time, against a service that never stops dripping bytes too: dials,
\* silent reads and handshakes as often as they can follow each other, then one banner byte by byte
\* (banner_config.go:19-21).  Once its context is cancelled it waits for one read at most, which
\* is how long it can hold up the end of a scan (scanner.go:302), and it never waits beyond the
\* context's own deadline.
Longest == IF Timeout > SettleTimeout THEN Timeout ELSE SettleTimeout
Budget ==
    IF mode = "connect" THEN 2 * Timeout + (Length - 1) * SettleTimeout
    ELSE 2 * DialTimeout + 4 * Timeout + (Length - 1) * SettleTimeout

GrabIsBounded ==
    /\ now =< Budget
    /\ cancelled # {} => now =< cutAt + Longest
    /\ ctxDeadline # None => now =< ctxDeadline

\* What a grab is for: a service that does not keep it waiting is found out, in the clear or under
\* TLS, if the options, the port and the connections at hand allow it to be asked; and none
\* is made up.  A context that ends excuses the grab.
InTheClear ==
    /\ ~(tls /\ tlsPort)
    /\ IF service.tls THEN http /\ service.objects ELSE service.first \/ (http /\ service.asked)
UnderTls == service.tls /\ tls /\ (tlsPort \/ (mode = "syn" /\ ~InTheClear))

FindsWhatIsThere ==
    (pc = "returned" /\ service.prompt /\ ~ContextEnded)
        => found = (InTheClear \/ UnderTls) /\ shaken = UnderTls

\* No connection of GrabAddress is left behind, and it never has two at a time.  Grab leaves the
\* connection it was given to its owner, in whatever way it ends but one: although "It is not
\* closed here" (banner.go:89-91), a handshake whose context ends under it closes it.
NothingStaysOpen ==
    /\ pc \in {"dial", "dialing"} => open = {}
    /\ (pc = "returned" /\ mode = "syn") => open = {}
    /\ mode = "connect" => open = {1} \/ (open = {} /\ ContextEnded /\ stage = "tls" /\ ~shaken)

\* "A port that was not asked and a port that was asked and said nothing are both nil here;
\* Config.Banner is what tells them apart" (port_scanner.go:47-48): in a scan with banners whose
\* caller let it finish, a port without one has nothing to say.  It does not hold in a SYN scan,
\* which ends the context of its grabs as soon as the wait for late replies is over.
SilentMeansSilent ==
    (pc = "returned" /\ ~found /\ service.prompt /\ "caller" \notin cancelled /\ ~DeadlinePassed)
        => ~(InTheClear \/ UnderTls)
===============================================================================
