------------------------------ MODULE ReplyFilter ------------------------------
(***************************************************************************)
(* The program that the kernel runs on every packet that reaches a capture *)
(* socket (pkg/port_scanner/reply_filter.go), instruction by instruction,  *)
(* and what decodeReply (decode.go) makes of a packet that was kept.       *)
(*                                                                         *)
(* A packet is known by the fields that either looks at, at the offsets    *)
(* where the program finds them; the rest of it is made up of octets that  *)
(* happen to look like the port that is listened for.                      *)
(***************************************************************************)
EXTENDS Integers, Sequences, FiniteSets

CONSTANTS
    listenPort,  \* the port the probes are sent from
    maxPort

protocolTcp == 6
fragmentOffsetMask == 8191

Packet ==
    [link : {"ipv4", "ipv6", "other"}, outgoing : BOOLEAN,  \* what recvfrom says of it
     version : 0..15, words : 0..15,                        \* the first octet
     protocol : 0..255,                                     \* or the IPv6 next header
     more : 0..1, fragment : 0..fragmentOffsetMask,
     port : 0..maxPort,                                     \* the destination port
     flags : SUBSET {"SYN", "ACK", "RST", "FIN"},
     length : Nat]

ASSUME FilterParameters == maxPort \in Nat /\ listenPort \in 1..maxPort

VARIABLES
    packet,  \* the packet the program runs on
    ip,      \* the instruction it is at, from 1; 0 when it does not run
    acc,     \* the accumulator
    index    \* the index register

filterVars == <<packet, ip, acc, index>>

----------------------------------------------------------------------------
\* The instructions of golang.org/x/net/bpf.
LoadAbsolute(off, size) == [op |-> "load", off |-> off, size |-> size]
LoadIndirect(off, size) == [op |-> "loadIndirect", off |-> off, size |-> size]
LoadMemShift(off) == [op |-> "loadMemShift", off |-> off, size |-> 1]
ALUOpAnd(val) == [op |-> "and", val |-> val]
JumpIf(cond, val, skipTrue, skipFalse) ==
    [op |-> "jump", cond |-> cond, val |-> val, skip |-> [true |-> skipTrue, false |-> skipFalse]]
RetConstant(val) == [op |-> "ret", val |-> val]

snapshotLength == 262144

\* Mutant: off by one.
ShortOfReject == 7
ToReject == 8

\* ReplyFilterInstructions.
Instructions == <<
    LoadAbsolute(0, 1),
    ALUOpAnd(240),
    JumpIf("equal", 16 * 4, 1, 0),
    JumpIf("equal", 16 * 6, 7, 12),
    \* IPv4
    LoadAbsolute(9, 1),
    JumpIf("notEqual", protocolTcp, 10, 0),
    LoadAbsolute(6, 2),
    JumpIf("bitsSet", fragmentOffsetMask, ToReject, 0),
    LoadMemShift(0),
    LoadIndirect(2, 2),
    JumpIf("equal", listenPort, 4, 5),
    \* IPv6
    LoadAbsolute(6, 1),
    JumpIf("notEqual", protocolTcp, 3, 0),
    LoadAbsolute(40 + 2, 2),
    JumpIf("notEqual", listenPort, 1, 0),
    RetConstant(snapshotLength),
    RetConstant(0)>>

----------------------------------------------------------------------------
\* The machine.

Octets(off, size) ==
    CASE off = 0                                            -> 16 * packet.version + packet.words
      [] packet.version = 4 /\ off = 9                      -> packet.protocol
      [] packet.version = 4 /\ off = 6 /\ size = 2          ->
                                        (fragmentOffsetMask + 1) * packet.more + packet.fragment
      [] packet.version = 4 /\ packet.words # 1 /\ off = 4 * packet.words + 2 -> packet.port
      [] packet.version = 6 /\ off = 6 /\ size = 1          -> packet.protocol
      [] packet.version = 6 /\ off = 40 + 2                 -> packet.port
      [] OTHER                                              -> listenPort

\* a & val: for a val of ones at the top of an octet, and one of ones at the bottom.
TopBits(a, val) == a - (a % (256 - val))
LowBits(a, val) == a % (val + 1)

Holds(cond, val) ==
    CASE cond = "equal"    -> acc = val
      [] cond = "notEqual" -> acc # val
      [] cond = "bitsSet"  -> LowBits(acc, val) # 0

Running == ip # 0
Instruction == Instructions[ip]
Offset == IF Instruction.op = "loadIndirect" THEN index + Instruction.off ELSE Instruction.off
IsLoad == Running /\ Instruction.op \in {"load", "loadIndirect", "loadMemShift"}
IsBeyond == Offset + Instruction.size > packet.length

FilterIdle == packet = << >> /\ ip = 0 /\ acc = 0 /\ index = 0
StartFilter(p) == ip = 0 /\ packet' = p /\ ip' = 1 /\ acc' = 0 /\ index' = 0

Load ==
    /\ IsLoad /\ ~IsBeyond
    /\ IF Instruction.op = "loadMemShift"
       THEN index' = 4 * (Octets(Offset, 1) % 16) /\ acc' = acc
       ELSE acc' = Octets(Offset, Instruction.size) /\ index' = index
    /\ ip' = ip + 1 /\ UNCHANGED packet

Mask ==
    /\ Running /\ Instruction.op = "and"
    /\ acc' = TopBits(acc, Instruction.val)
    /\ ip' = ip + 1 /\ UNCHANGED <<packet, index>>

Jump ==
    /\ Running /\ Instruction.op = "jump"
    /\ ip' = ip + 1 + (IF Holds(Instruction.cond, Instruction.val)
                       THEN Instruction.skip.true ELSE Instruction.skip.false)
    /\ UNCHANGED <<packet, acc, index>>

\* The program ends with how much of the packet to keep; a load beyond the packet ends it too.
Decide(keep) ==
    /\ Running
    /\ IF IsLoad THEN IsBeyond /\ ~keep
                 ELSE Instruction.op = "ret" /\ keep = (Instruction.val > 0)
    /\ ip' = 0 /\ UNCHANGED <<packet, acc, index>>

----------------------------------------------------------------------------
\* decodeReply.  ParseIp and ParseTcp take headers that are all there.
HeaderLength(p) == IF p.version = 4 THEN 4 * p.words ELSE 40
Parses(p) == p.version = 6 \/ (p.version = 4 /\ p.words >= 5)
Fragmented(p) == p.version = 4 /\ (p.more = 1 \/ p.fragment # 0)
DecodesAsReply(p) ==
    /\ Parses(p) /\ p.length >= HeaderLength(p) + 20
    /\ p.protocol = protocolTcp /\ ~Fragmented(p)
    /\ {"SYN", "ACK"} \subseteq p.flags /\ "RST" \notin p.flags
================================================================================
