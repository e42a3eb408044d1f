----------------------------- MODULE CaptureHandle -----------------------------
(***************************************************************************)
(* A capture handle and those who read it: ReadPacketData and Close of     *)
(* pkg/port_scanner/capture_handle.go, and what readReplies makes of a     *)
(* read that failed (scanner.go:507-520).  The readers of one handle share *)
(* its buffer: a Scanner's own and those its earlier scans left behind.    *)
(*                                                                         *)
(* Reading goes through the runtime's poller: a read holds the read lock   *)
(* of the file from before its first recvfrom until it has returned,       *)
(* parked or not; a close fails the reads to come, wakes a parked one, and *)
(* closes the descriptor when no read holds it.                            *)
(***************************************************************************)
EXTENDS ReplyFilter, Functions

CONSTANTS
    Readers,        \* the goroutines that read the handle
    PacketLists,    \* the packets that may reach the socket, in order
    Faulty,         \* whether recvfrom may fail
    MaxInterrupts,  \* how often recvfrom may be interrupted by a signal
    None            \* no reader, no packet

ASSUME Parameters ==
    /\ PacketLists \subseteq Seq(Packet) /\ Faulty \in BOOLEAN /\ MaxInterrupts \in Nat
    /\ None \notin Readers

VARIABLES
    packets,     \* the packets to come
    arrived,     \* how many of them have reached the socket
    kept,        \* the filter's verdict on each that it has run on
    queue,       \* those the socket holds, by number
    interrupts,  \* how often recvfrom was interrupted
    buffer,      \* the packet in handle.buffer, or 0
    lock,        \* the reader that holds the file's read lock
    rpc,         \* where each reader is
    data,        \* the packet each has copied
    returned,    \* what ReadPacketData has returned to each
    error,       \* why its read failed
    closed,      \* handle.closed
    closing,     \* whether the poller fails the file's reads
    open,        \* whether the descriptor is open
    closer       \* the step Close is at

socketVars == <<packets, arrived, kept, queue, interrupts, filterVars>>
closeVars == <<closed, closing, open, closer>>
vars == <<socketVars, buffer, lock, rpc, data, returned, error, closeVars>>

Numbers == 1..Len(packets)

Init ==
    /\ packets \in PacketLists /\ FilterIdle
    /\ arrived = 0 /\ kept = <<>> /\ queue = <<>> /\ interrupts = 0 /\ buffer = 0
    /\ lock = None
    /\ rpc = [r \in Readers |-> "call"]
    /\ data = [r \in Readers |-> 0]
    /\ returned = [r \in Readers |-> <<>>]
    /\ error = [r \in Readers |-> "none"]
    /\ closed = FALSE /\ closing = FALSE /\ open = TRUE /\ closer = 1

\* The kernel: a packet comes, and the filter runs on it before the socket has it.
Arrive ==
    /\ open /\ arrived < Len(packets)
    /\ StartFilter(packets[arrived + 1])
    /\ arrived' = arrived + 1
    /\ UNCHANGED <<packets, kept, queue, interrupts, buffer, lock, rpc, data, returned, error,
                   closeVars>>

RunFilter ==
    /\ Load \/ Mask \/ Jump
    /\ UNCHANGED <<packets, arrived, kept, queue, interrupts, buffer, lock, rpc, data, returned,
                   error, closeVars>>

EndFilter(keep) ==
    /\ Decide(keep)
    /\ kept' = Append(kept, keep)
    /\ queue' = IF keep THEN Append(queue, arrived) ELSE queue
    /\ UNCHANGED <<packets, arrived, interrupts, buffer, lock, rpc, data, returned, error,
                   closeVars>>

Filter == RunFilter \/ \E keep \in BOOLEAN : EndFilter(keep)

----------------------------------------------------------------------------
\* ReadPacketData, called by reader r.

Step(r, from, to) == rpc[r] = from /\ rpc' = [rpc EXCEPT ![r] = to]

\* The packet is copied in the callback, before the lock is released.  Mutant: after it.
CopyUnlocked == [receive |-> "unlock", unlock |-> "copy", copy |-> "inspect"]
After == [receive |-> "copy", copy |-> "unlock", unlock |-> "inspect"]

\* Mutant: a read that failed is tried again.
TryAgain == "call"
AfterError == "error"

Lock(r) ==
    /\ Step(r, "call", "prepare")
    /\ ~closing /\ lock = None
    /\ lock' = r
    /\ UNCHANGED <<socketVars, buffer, data, returned, error, closeVars>>

CallFails(r) ==
    /\ Step(r, "call", AfterError)
    /\ closing
    /\ error' = [error EXCEPT ![r] = "closing"]
    /\ UNCHANGED <<socketVars, buffer, lock, data, returned, closeVars>>

\* The poller looks for a close once more before the first recvfrom.
Prepare(r) ==
    /\ Step(r, "prepare", "receive")
    /\ ~closing
    /\ UNCHANGED <<socketVars, buffer, lock, data, returned, error, closeVars>>

Receive(r) ==
    /\ Step(r, "receive", After.receive)
    /\ queue # <<>>
    /\ buffer' = Head(queue) /\ queue' = Tail(queue)
    /\ UNCHANGED <<packets, arrived, kept, interrupts, filterVars, lock, data, returned, error,
                   closeVars>>

\* EAGAIN: the goroutine parks until the poller finds something to read.
Park(r) ==
    /\ Step(r, "receive", "parked")
    /\ queue = <<>>
    /\ UNCHANGED <<socketVars, buffer, lock, data, returned, error, closeVars>>

Wake(r) ==
    /\ Step(r, "parked", "receive")
    /\ queue # <<>>
    /\ UNCHANGED <<socketVars, buffer, lock, data, returned, error, closeVars>>

Evicted(r) ==
    /\ \E at \in {"prepare", "parked"} : Step(r, at, AfterError)
    /\ closing
    /\ lock' = None
    /\ error' = [error EXCEPT ![r] = "closing"]
    /\ UNCHANGED <<socketVars, buffer, data, returned, closeVars>>

ReceiveFails(r) ==
    /\ Faulty
    /\ Step(r, "receive", AfterError)
    /\ lock' = None
    /\ error' = [error EXCEPT ![r] = "recv"]
    /\ UNCHANGED <<socketVars, buffer, data, returned, closeVars>>

\* EINTR: the loop calls again.
Interrupted(r) ==
    /\ interrupts < MaxInterrupts
    /\ Step(r, "receive", "call")
    /\ interrupts' = interrupts + 1
    /\ lock' = None
    /\ UNCHANGED <<packets, arrived, kept, queue, filterVars, buffer, data, returned, error,
                   closeVars>>

Copy(r) ==
    /\ Step(r, "copy", After.copy)
    /\ data' = [data EXCEPT ![r] = buffer]
    /\ UNCHANGED <<socketVars, buffer, lock, returned, error, closeVars>>

Unlock(r) ==
    /\ Step(r, "unlock", After.unlock)
    /\ lock' = None
    /\ UNCHANGED <<socketVars, buffer, data, returned, error, closeVars>>

\* Mutant: only the direction is looked at.
IsInbound(p) == ~p.outgoing
IsReply(p) == ~p.outgoing /\ p.link \in {"ipv4", "ipv6"}

\* What the host sends and what is not IP is passed over; the caller reads on.
Inspect(r) ==
    /\ Step(r, "inspect", "call")
    /\ returned' = IF IsReply(packets[data[r]]) THEN [returned EXCEPT ![r] = Append(@, data[r])]
                                       ELSE returned
    /\ UNCHANGED <<socketVars, buffer, lock, data, error, closeVars>>

\* readReplies: an error from a closed source is the way out of the scan, another a failure.
Judge(r) ==
    /\ Step(r, "error", IF closed THEN "ended" ELSE "failed")
    /\ UNCHANGED <<socketVars, buffer, lock, data, returned, error, closeVars>>

----------------------------------------------------------------------------
\* Close, called once.  Mutant: the file first.
FileFirst == <<"file", "flag">>
CloseOrder == <<"flag", "file">>

SetFlag ==
    /\ closer \in DOMAIN CloseOrder /\ CloseOrder[closer] = "flag"
    /\ closed' = TRUE /\ closer' = closer + 1
    /\ UNCHANGED <<socketVars, buffer, lock, rpc, data, returned, error, closing, open>>

\* file.Close wakes the readers, ...
StartClosing ==
    /\ closer \in DOMAIN CloseOrder /\ CloseOrder[closer] = "file"
    /\ ~closing /\ closing' = TRUE
    /\ UNCHANGED <<socketVars, buffer, lock, rpc, data, returned, error, closed, open, closer>>

\* ... and returns when the last of them has let go of the descriptor, which is then closed.
FinishClosing ==
    /\ closer \in DOMAIN CloseOrder /\ CloseOrder[closer] = "file"
    /\ closing /\ lock = None
    /\ open' = FALSE /\ closer' = closer + 1
    /\ UNCHANGED <<socketVars, buffer, lock, rpc, data, returned, error, closed, closing>>

Finished == (\A r \in Readers : rpc[r] \in {"ended", "failed"}) /\ UNCHANGED vars

----------------------------------------------------------------------------
Read(r) ==
    \/ Lock(r) \/ CallFails(r) \/ Prepare(r) \/ Receive(r) \/ Park(r) \/ Wake(r) \/ Evicted(r)
    \/ ReceiveFails(r) \/ Interrupted(r) \/ Copy(r) \/ Unlock(r) \/ Inspect(r) \/ Judge(r)

Close == SetFlag \/ StartClosing \/ FinishClosing

Next == Arrive \/ Filter \/ (\E r \in Readers : Read(r)) \/ Close \/ Finished

Spec == Init /\ [][Next]_vars

\* Readers are scheduled, and so is a Close once it was called.
Fairness == (\A r \in Readers : WF_vars(Read(r))) /\ WF_vars((closer # 1 \/ closing) /\ Close)
FairSpec == Spec /\ Fairness

----------------------------------------------------------------------------
\* Every variable has its type, and the lock is held by the reader that is inside the read.
TypeOK ==
    /\ packets \in PacketLists
    /\ ip \in 0..Len(Instructions) /\ acc \in Nat /\ index \in Nat
    /\ ip # 0 => arrived # 0 /\ packet = packets[arrived]
    /\ arrived \in 0..Len(packets) /\ kept \in Seq(BOOLEAN)
    /\ Len(kept) = (IF ip = 0 THEN arrived ELSE arrived - 1)
    /\ queue \in Seq(Numbers) /\ interrupts \in 0..MaxInterrupts
    /\ buffer \in 0..Len(packets)
    /\ lock \in Readers \cup {None}
    /\ rpc \in [Readers -> {"call", "prepare", "receive", "parked", "copy", "unlock", "inspect",
                            "error", "ended", "failed"}]
    /\ data \in [Readers -> 0..Len(packets)]
    /\ returned \in [Readers -> Seq(Numbers)]
    /\ error \in [Readers -> {"none", "closing", "recv"}]
    /\ closed \in BOOLEAN /\ closing \in BOOLEAN /\ open \in BOOLEAN
    /\ closer \in 1..(Len(CloseOrder) + 1)
    /\ \A r \in Readers : rpc[r] \in {"prepare", "receive", "parked", "copy", "unlock"} => lock = r

Taken == (1..Len(kept)) \ Range(queue)
HandsAreEmpty == \A r \in Readers : rpc[r] \notin {"copy", "unlock", "inspect"}

\* The filter "keeps only what could be a reply to a probe sent from listenPort"
\* (reply_filter.go:48-50), and all of it: every packet that decodes as a reply and is for the port,
\* and nothing that is not a TCP segment for it, with its ports in it.  A mistake in one of the
\* offsets would make a whole kind of packet, and no other, disappear or get through.
FilterKeepsReplies ==
    \A n \in 1..Len(kept) : LET p == packets[n] IN
        /\ DecodesAsReply(p) /\ p.port = listenPort => kept[n]
        /\ kept[n] => /\ p.version \in {4, 6} /\ p.protocol = protocolTcp
                      /\ Parses(p) => /\ p.port = listenPort /\ p.length >= HeaderLength(p) + 4
                                      /\ p.version = 4 => p.fragment = 0

\* "concurrent readers split the packets between them" (capture_handle.go:70): a reader gets
\* packets in the order they arrived, no two readers get the same one, and each that left the
\* socket has been returned to one when none has a packet in hand, if it was kept and is an IP
\* packet from outside.
EveryReplyOnce ==
    /\ \A r \in Readers : \A k, l \in 1..Len(returned[r]) :
           k < l => returned[r][k] < returned[r][l]
    /\ \A r, s \in Readers : r # s => Range(returned[r]) \cap Range(returned[s]) = {}
    /\ HandsAreEmpty =>
          UNION {Range(returned[r]) : r \in Readers} =
              {n \in Taken : kept[n] /\ ~packets[n].outgoing /\ packets[n].link # "other"}

\* "A reader needs this to tell the scan ending from the capture failing"
\* (capture_handle.go:58-60): a reader whose read the close has failed never takes it for a failure
\* of the source, which would count against the scan.
CloseIsNotAFailure == \A r \in Readers : rpc[r] = "failed" => error[r] = "recv"

\* "Close closes the handle, waking any reader blocked on it" (capture_handle.go:45): once it was
\* called it returns, the descriptor is closed, and every reader gets out of its read.
ClosingEnds ==
    closer # 1 \/ closing ~> ~open /\ \A r \in Readers : rpc[r] \in {"ended", "failed"}
================================================================================
