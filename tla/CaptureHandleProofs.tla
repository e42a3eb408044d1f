--------------------------- MODULE CaptureHandleProofs ---------------------------
(***************************************************************************)
(* The proofs about the capture handle, for any packets, however many      *)
(* readers and wherever the close comes.                                   *)
(*                                                                         *)
(* First, what the filter's program computes: FilterInv says what has been *)
(* found out about the packet when the program is at an instruction, and   *)
(* what is in the registers there.  Then its verdicts are tied to the      *)
(* packets, and every packet that was kept is followed from the socket's   *)
(* queue through a reader's hand to what the reader was returned.          *)
(***************************************************************************)
EXTENDS CaptureHandle, TLAPS

\* What the scan wants of a packet, and what a packet that passes is.
Wants(p) == DecodesAsReply(p) /\ p.port = listenPort
Passes(p) ==
    /\ p.version \in {4, 6} /\ p.protocol = protocolTcp
    /\ Parses(p) => /\ p.port = listenPort /\ p.length >= HeaderLength(p) + 4
                    /\ p.version = 4 => p.fragment = 0

FilterInv ==
    /\ ip \in 0..17 /\ acc \in Nat /\ index \in Nat
    /\ ip # 0 => packet \in Packet
    /\ ip = 2 => acc = 16 * packet.version + packet.words
    /\ ip \in {3, 4} => acc = 16 * packet.version
    /\ ip = 4 => packet.version # 4
    /\ ip \in 5..11 => packet.version = 4
    /\ ip \in {6, 13} => acc = packet.protocol
    /\ ip \in 7..11 => packet.protocol = protocolTcp
    /\ ip = 8 => acc = (fragmentOffsetMask + 1) * packet.more + packet.fragment
    /\ ip \in 9..11 => packet.fragment = 0
    /\ ip \in {10, 11} => index = 4 * packet.words
    /\ ip = 11 => (packet.words >= 5 => acc = packet.port /\ packet.length >= index + 4)
    /\ ip \in 12..15 => packet.version = 6
    /\ ip \in {14, 15} => packet.protocol = protocolTcp
    /\ ip = 15 => acc = packet.port /\ packet.length >= 44
    /\ ip = 16 => Passes(packet)
    /\ ip = 17 => ~Wants(packet)

----------------------------------------------------------------------------
\* A packet's fields.
LEMMA Fields ==
    ASSUME NEW p \in Packet
    PROVE  /\ p.version \in 0..15 /\ p.words \in 0..15 /\ p.protocol \in 0..255
           /\ p.more \in 0..1 /\ p.fragment \in 0..fragmentOffsetMask /\ p.port \in 0..maxPort /\ p.length \in Nat
BY DEF Packet

\* The masks take apart what the packet's octets were put together from.
LEMMA Masks ==
    /\ \A v, w \in 0..15 : TopBits(16 * v + w, 240) = 16 * v
    /\ \A m \in 0..1, f \in 0..fragmentOffsetMask :
         LET word == (fragmentOffsetMask + 1) * m + f IN
         LowBits(word, fragmentOffsetMask) = f /\ word \in Nat
    /\ \A w \in 0..15, v \in 0..15 : (16 * v + w) % 16 = w
<1>1. \A v, w \in 0..15 : (16 * v + w) % 16 = w
  OBVIOUS
<1>2. \A m \in 0..1, f \in 0..fragmentOffsetMask :
        ((fragmentOffsetMask + 1) * m + f) % (fragmentOffsetMask + 1) = f
  BY SMTT(20) DEF fragmentOffsetMask
<1>3. 256 - 240 = 16
  OBVIOUS
<1>4. \A v, w \in 0..15 : TopBits(16 * v + w, 240) = 16 * v
  <2> SUFFICES ASSUME NEW v \in 0..15, NEW w \in 0..15 PROVE TopBits(16 * v + w, 240) = 16 * v
    OBVIOUS
  <2>1. TopBits(16 * v + w, 240) = (16 * v + w) - ((16 * v + w) % 16)
    BY <1>3 DEF TopBits
  <2> QED BY <1>1, <2>1
<1>5. \A m \in 0..1, f \in 0..fragmentOffsetMask : LowBits((fragmentOffsetMask + 1) * m + f, fragmentOffsetMask) = f
  BY <1>2, <1>3 DEF LowBits
<1>6. \A m \in 0..1, f \in 0..fragmentOffsetMask : (fragmentOffsetMask + 1) * m + f \in Nat
  BY DEF fragmentOffsetMask
<1> QED BY <1>1, <1>4, <1>5, <1>6

\* The filter starts with nothing known of the packet.
LEMMA StartInv == ASSUME NEW p \in Packet, StartFilter(p) PROVE FilterInv'
BY DEF StartFilter, FilterInv

\* The fields of an instruction.
LEMMA InstructionFields ==
    ASSUME NEW off, NEW size, NEW val, NEW cond, NEW skipTrue, NEW skipFalse
    PROVE  /\ LET load == LoadAbsolute(off, size) IN
                load.op = "load" /\ load.off = off /\ load.size = size
           /\ LET load == LoadIndirect(off, size) IN
                load.op = "loadIndirect" /\ load.off = off /\ load.size = size
           /\ LET load == LoadMemShift(off) IN
                load.op = "loadMemShift" /\ load.off = off /\ load.size = 1
           /\ ALUOpAnd(val).op = "and" /\ ALUOpAnd(val).val = val
           /\ LET jump == JumpIf(cond, val, skipTrue, skipFalse) IN
                /\ jump.op = "jump" /\ jump.cond = cond /\ jump.val = val
                /\ jump.skip.true = skipTrue /\ jump.skip.false = skipFalse
           /\ RetConstant(val).op = "ret" /\ RetConstant(val).val = val
BY DEF LoadAbsolute, LoadIndirect, LoadMemShift, ALUOpAnd, JumpIf, RetConstant

\* The instruction the program is at.
LEMMA InstructionAt ==
    /\ ip = 1 => Instruction.op = "load" /\ Instruction.off = 0 /\ Instruction.size = 1
    /\ ip = 2 => Instruction.op = "and" /\ Instruction.val = 240
    /\ ip = 3 => /\ Instruction.op = "jump" /\ Instruction.cond = "equal" /\ Instruction.val = 64
                /\ Instruction.skip.true = 1 /\ Instruction.skip.false = 0
    /\ ip = 4 => /\ Instruction.op = "jump" /\ Instruction.cond = "equal" /\ Instruction.val = 96
                /\ Instruction.skip.true = 7 /\ Instruction.skip.false = 12
    /\ ip = 5 => Instruction.op = "load" /\ Instruction.off = 9 /\ Instruction.size = 1
    /\ ip = 6 => /\ Instruction.op = "jump" /\ Instruction.cond = "notEqual" /\ Instruction.val = 6
                /\ Instruction.skip.true = 10 /\ Instruction.skip.false = 0
    /\ ip = 7 => Instruction.op = "load" /\ Instruction.off = 6 /\ Instruction.size = 2
    /\ ip = 8 => /\ Instruction.op = "jump" /\ Instruction.cond = "bitsSet" /\ Instruction.val = fragmentOffsetMask
                /\ Instruction.skip.true = 8 /\ Instruction.skip.false = 0
    /\ ip = 9 => Instruction.op = "loadMemShift" /\ Instruction.off = 0 /\ Instruction.size = 1
    /\ ip = 10 => Instruction.op = "loadIndirect" /\ Instruction.off = 2 /\ Instruction.size = 2
    /\ ip = 11 => /\ Instruction.op = "jump" /\ Instruction.cond = "equal" /\ Instruction.val = listenPort
                /\ Instruction.skip.true = 4 /\ Instruction.skip.false = 5
    /\ ip = 12 => Instruction.op = "load" /\ Instruction.off = 6 /\ Instruction.size = 1
    /\ ip = 13 => /\ Instruction.op = "jump" /\ Instruction.cond = "notEqual" /\ Instruction.val = 6
                /\ Instruction.skip.true = 3 /\ Instruction.skip.false = 0
    /\ ip = 14 => Instruction.op = "load" /\ Instruction.off = 42 /\ Instruction.size = 2
    /\ ip = 15 => /\ Instruction.op = "jump" /\ Instruction.cond = "notEqual" /\ Instruction.val = listenPort
                /\ Instruction.skip.true = 1 /\ Instruction.skip.false = 0
    /\ ip = 16 => Instruction.op = "ret" /\ Instruction.val = snapshotLength
    /\ ip = 17 => Instruction.op = "ret" /\ Instruction.val = 0
<1>0. 16 * 4 = 64 /\ 16 * 6 = 96 /\ 40 + 2 = 42
  OBVIOUS
<1>1. /\ ip = 1 => Instruction = LoadAbsolute(0, 1)
      /\ ip = 2 => Instruction = ALUOpAnd(240)
      /\ ip = 3 => Instruction = JumpIf("equal", 64, 1, 0)
      /\ ip = 4 => Instruction = JumpIf("equal", 96, 7, 12)
      /\ ip = 5 => Instruction = LoadAbsolute(9, 1)
      /\ ip = 6 => Instruction = JumpIf("notEqual", 6, 10, 0)
  BY <1>0 DEF Instruction, Instructions, ToReject, protocolTcp
<1>2. /\ ip = 7 => Instruction = LoadAbsolute(6, 2)
      /\ ip = 8 => Instruction = JumpIf("bitsSet", fragmentOffsetMask, 8, 0)
      /\ ip = 9 => Instruction = LoadMemShift(0)
      /\ ip = 10 => Instruction = LoadIndirect(2, 2)
      /\ ip = 11 => Instruction = JumpIf("equal", listenPort, 4, 5)
  BY <1>0 DEF Instruction, Instructions, ToReject, protocolTcp
<1>3. /\ ip = 12 => Instruction = LoadAbsolute(6, 1)
      /\ ip = 13 => Instruction = JumpIf("notEqual", 6, 3, 0)
      /\ ip = 14 => Instruction = LoadAbsolute(42, 2)
      /\ ip = 15 => Instruction = JumpIf("notEqual", listenPort, 1, 0)
      /\ ip = 16 => Instruction = RetConstant(snapshotLength)
      /\ ip = 17 => Instruction = RetConstant(0)
  BY <1>0 DEF Instruction, Instructions, ToReject, protocolTcp
<1>4. /\ ip = 1 => Instruction.op = "load" /\ Instruction.off = 0 /\ Instruction.size = 1
      /\ ip = 2 => Instruction.op = "and" /\ Instruction.val = 240
      /\ ip = 3 => /\ Instruction.op = "jump" /\ Instruction.cond = "equal" /\ Instruction.val = 64
                  /\ Instruction.skip.true = 1 /\ Instruction.skip.false = 0
      /\ ip = 4 => /\ Instruction.op = "jump" /\ Instruction.cond = "equal" /\ Instruction.val = 96
                  /\ Instruction.skip.true = 7 /\ Instruction.skip.false = 12
      /\ ip = 5 => Instruction.op = "load" /\ Instruction.off = 9 /\ Instruction.size = 1
      /\ ip = 6 => /\ Instruction.op = "jump" /\ Instruction.cond = "notEqual" /\ Instruction.val = 6
                  /\ Instruction.skip.true = 10 /\ Instruction.skip.false = 0
  BY ONLY <1>1, InstructionFields
<1>5. /\ ip = 7 => Instruction.op = "load" /\ Instruction.off = 6 /\ Instruction.size = 2
      /\ ip = 8 => /\ Instruction.op = "jump" /\ Instruction.cond = "bitsSet" /\ Instruction.val = fragmentOffsetMask
                  /\ Instruction.skip.true = 8 /\ Instruction.skip.false = 0
      /\ ip = 9 => Instruction.op = "loadMemShift" /\ Instruction.off = 0 /\ Instruction.size = 1
      /\ ip = 10 => Instruction.op = "loadIndirect" /\ Instruction.off = 2 /\ Instruction.size = 2
      /\ ip = 11 => /\ Instruction.op = "jump" /\ Instruction.cond = "equal" /\ Instruction.val = listenPort
                  /\ Instruction.skip.true = 4 /\ Instruction.skip.false = 5
  BY ONLY <1>2, InstructionFields
<1>6. /\ ip = 12 => Instruction.op = "load" /\ Instruction.off = 6 /\ Instruction.size = 1
      /\ ip = 13 => /\ Instruction.op = "jump" /\ Instruction.cond = "notEqual" /\ Instruction.val = 6
                  /\ Instruction.skip.true = 3 /\ Instruction.skip.false = 0
      /\ ip = 14 => Instruction.op = "load" /\ Instruction.off = 42 /\ Instruction.size = 2
      /\ ip = 15 => /\ Instruction.op = "jump" /\ Instruction.cond = "notEqual" /\ Instruction.val = listenPort
                  /\ Instruction.skip.true = 1 /\ Instruction.skip.false = 0
      /\ ip = 16 => Instruction.op = "ret" /\ Instruction.val = snapshotLength
      /\ ip = 17 => Instruction.op = "ret" /\ Instruction.val = 0
  BY ONLY <1>3, InstructionFields
<1> QED BY ONLY <1>4, <1>5, <1>6

\* What is at the offsets that the program looks at.
LEMMA OctetsAt ==
    ASSUME packet \in Packet
    PROVE  /\ Octets(0, 1) = 16 * packet.version + packet.words
           /\ packet.version = 4 => /\ Octets(9, 1) = packet.protocol
                                    /\ Octets(6, 2) = (fragmentOffsetMask + 1) * packet.more + packet.fragment
           /\ packet.version = 4 /\ packet.words >= 5 => Octets(4 * packet.words + 2, 2) = packet.port
           /\ packet.version = 6 => Octets(6, 1) = packet.protocol /\ Octets(42, 2) = packet.port
<1>0. packet.version \in 0..15 /\ packet.words \in 0..15
  BY Fields
<1>1. \A off, size \in Nat : off = 0 => Octets(off, size) = 16 * packet.version + packet.words
  BY <1>0 DEF Octets
<1>2. \A off, size \in Nat : packet.version = 4 /\ off = 9 => Octets(off, size) = packet.protocol
  BY <1>0 DEF Octets
<1>3. \A off, size \in Nat : packet.version = 4 /\ off = 6 /\ size = 2
        => Octets(off, size) = (fragmentOffsetMask + 1) * packet.more + packet.fragment
  BY <1>0 DEF Octets
<1>4. \A off, size \in Nat :
        packet.version = 4 /\ packet.words >= 5 /\ off = 4 * packet.words + 2
          => Octets(off, size) = packet.port
  BY <1>0 DEF Octets
<1>5. \A off, size \in Nat :
        packet.version = 6 /\ off = 6 /\ size = 1 => Octets(off, size) = packet.protocol
  BY <1>0 DEF Octets
<1>6. \A off, size \in Nat : packet.version = 6 /\ off = 42 => Octets(off, size) = packet.port
  BY <1>0 DEF Octets
<1> QED BY <1>0, <1>1, <1>2, <1>3, <1>4, <1>5, <1>6

\* A register holds a number.
LEMMA OctetsType ==
    ASSUME packet \in Packet, NEW off \in Nat, NEW size \in Nat PROVE Octets(off, size) \in Nat
<1>0. maxPort \in Nat /\ listenPort \in Nat /\ fragmentOffsetMask \in Nat
  BY FilterParameters DEF fragmentOffsetMask
<1>1. /\ packet.version \in Nat /\ packet.words \in Nat /\ packet.protocol \in Nat
      /\ packet.more \in Nat /\ packet.fragment \in Nat /\ packet.port \in Nat
  <2>2. /\ packet.version \in 0..15 /\ packet.words \in 0..15 /\ packet.protocol \in 0..255
        /\ packet.more \in 0..1 /\ packet.fragment \in 0..fragmentOffsetMask /\ packet.port \in 0..maxPort
    BY Fields
  <2> QED BY ONLY <1>0, <2>2
<1>2. (fragmentOffsetMask + 1) * packet.more + packet.fragment \in Nat
  BY <1>0, Fields, Masks
<1>3. 16 * packet.version + packet.words \in Nat
  BY ONLY <1>1
<1> QED BY ONLY <1>0, <1>1, <1>2, <1>3 DEF Octets

\* What a load into the accumulator does.
LEMMA Loaded ==
    ASSUME Load \/ Mask \/ Jump, Instruction.op \in {"load", "loadIndirect"},
           NEW off, NEW size, Offset = off, Instruction.size = size
    PROVE  /\ ip' = ip + 1 /\ packet' = packet /\ index' = index
           /\ ~(off + size > packet.length) /\ acc' = Octets(off, size)
BY DEF Load, Mask, Jump, IsLoad, IsBeyond

\* Each instruction but the last two leads to one that finds what it relies on.
LEMMA StepInv == ASSUME FilterInv, Load \/ Mask \/ Jump PROVE FilterInv'
<1>0. ip # 0 /\ packet \in Packet
  BY DEF FilterInv, Load, Mask, Jump, IsLoad, Running
<1>a. /\ packet.version \in 0..15 /\ packet.words \in 0..15 /\ packet.protocol \in 0..255
      /\ packet.more \in 0..1 /\ packet.fragment \in 0..fragmentOffsetMask /\ packet.port \in 0..maxPort
      /\ packet.length \in Nat /\ maxPort \in Nat /\ listenPort \in 1..maxPort
  BY <1>0, Fields, FilterParameters
<1>1. CASE ip = 1
  <2>0. Instruction.op = "load" /\ Instruction.off = 0 /\ Instruction.size = 1
    BY <1>1, InstructionAt
  <2>1. /\ ip' = 2 /\ packet' = packet /\ index' = index
        /\ 0 + 1 =< packet.length /\ acc' = Octets(0, 1)
    <3>1. Offset = 0
      BY <2>0 DEF Offset
    <3>2. ~(0 + 1 > packet.length) /\ acc' = Octets(0, 1)
          /\ ip' = ip + 1 /\ packet' = packet /\ index' = index
      BY <2>0, <3>1, Loaded
    <3> QED BY <1>1, <1>a, <3>2
  <2>2. acc' = 16 * packet.version + packet.words
    BY <1>0, <2>1, OctetsAt
  <2> QED BY <1>0, <1>1, <1>a, <2>1, <2>2 DEF FilterInv
<1>2. CASE ip = 2
  <2>1. ip' = 3 /\ packet' = packet /\ index' = index /\ acc' = TopBits(acc, 240)
    <3>1. Instruction.op = "and" /\ Instruction.val = 240
      BY <1>2, InstructionAt
    <3> QED BY <1>2, <3>1 DEF Load, Mask, Jump, IsLoad
  <2>2. acc' = 16 * packet.version
    BY <1>2, <1>a, <2>1, Masks DEF FilterInv
  <2> QED BY <1>0, <1>2, <1>a, <2>1, <2>2 DEF FilterInv
<1>3. CASE ip = 3
  <2>0. /\ Instruction.op = "jump" /\ Instruction.cond = "equal" /\ Instruction.val = 64
        /\ Instruction.skip.true = 1 /\ Instruction.skip.false = 0
    BY <1>3, InstructionAt
  <2>1. /\ packet' = packet /\ acc' = acc /\ index' = index
        /\ ip' = IF Holds("equal", 64) THEN 5 ELSE 4
    BY <1>3, <2>0 DEF Load, Mask, Jump, IsLoad
  <2>2. Holds("equal", 64) <=> packet.version = 4
    BY <1>3, <1>a DEF FilterInv, Holds
  <2> QED BY <1>0, <1>3, <1>a, <2>1, <2>2 DEF FilterInv
<1>4. CASE ip = 4
  <2>0. /\ Instruction.op = "jump" /\ Instruction.cond = "equal" /\ Instruction.val = 96
        /\ Instruction.skip.true = 7 /\ Instruction.skip.false = 12
    BY <1>4, InstructionAt
  <2>1. /\ packet' = packet /\ acc' = acc /\ index' = index
        /\ ip' = IF Holds("equal", 96) THEN 12 ELSE 17
    BY <1>4, <2>0 DEF Load, Mask, Jump, IsLoad
  <2>2. Holds("equal", 96) <=> packet.version = 6
    BY <1>4, <1>a DEF FilterInv, Holds
  <2>3. packet.version # 6 => ~Wants(packet)
    BY <1>4 DEF FilterInv, Wants, DecodesAsReply, Parses
  <2> QED BY <1>0, <1>4, <1>a, <2>1, <2>2, <2>3 DEF FilterInv
<1>5. CASE ip = 5
  <2>0. Instruction.op = "load" /\ Instruction.off = 9 /\ Instruction.size = 1
    BY <1>5, InstructionAt
  <2>1. /\ ip' = 6 /\ packet' = packet /\ index' = index
        /\ 9 + 1 =< packet.length /\ acc' = Octets(9, 1)
    <3>1. Offset = 9
      BY <2>0 DEF Offset
    <3>2. ~(9 + 1 > packet.length) /\ acc' = Octets(9, 1)
          /\ ip' = ip + 1 /\ packet' = packet /\ index' = index
      BY <2>0, <3>1, Loaded
    <3> QED BY <1>5, <1>a, <3>2
  <2>2. acc' = packet.protocol
    BY <1>5, <1>0, <2>1, OctetsAt DEF FilterInv
  <2> QED BY <1>0, <1>5, <1>a, <2>1, <2>2 DEF FilterInv
<1>6. CASE ip = 6
  <2>0. /\ Instruction.op = "jump" /\ Instruction.cond = "notEqual" /\ Instruction.val = 6
        /\ Instruction.skip.true = 10 /\ Instruction.skip.false = 0
    BY <1>6, InstructionAt
  <2>1. /\ packet' = packet /\ acc' = acc /\ index' = index
        /\ ip' = IF Holds("notEqual", 6) THEN 17 ELSE 7
    BY <1>6, <2>0 DEF Load, Mask, Jump, IsLoad
  <2>2. Holds("notEqual", 6) <=> packet.protocol # protocolTcp
    BY <1>6, <1>a DEF FilterInv, Holds, protocolTcp
  <2>3. packet.protocol # protocolTcp => ~Wants(packet)
    BY DEF Wants, DecodesAsReply
  <2> QED BY <1>0, <1>6, <1>a, <2>1, <2>2, <2>3 DEF FilterInv
<1>7. CASE ip = 7
  <2>0. Instruction.op = "load" /\ Instruction.off = 6 /\ Instruction.size = 2
    BY <1>7, InstructionAt
  <2>1. /\ ip' = 8 /\ packet' = packet /\ index' = index
        /\ 6 + 2 =< packet.length /\ acc' = Octets(6, 2)
    <3>1. Offset = 6
      BY <2>0 DEF Offset
    <3>2. ~(6 + 2 > packet.length) /\ acc' = Octets(6, 2)
          /\ ip' = ip + 1 /\ packet' = packet /\ index' = index
      BY <2>0, <3>1, Loaded
    <3> QED BY <1>7, <1>a, <3>2
  <2>2. acc' = (fragmentOffsetMask + 1) * packet.more + packet.fragment
    BY <1>7, <1>0, <2>1, OctetsAt DEF FilterInv
  <2>3. acc' \in Nat
    BY <1>a, <2>2, Masks
  <2> QED BY <1>0, <1>7, <1>a, <2>1, <2>2, <2>3 DEF FilterInv
<1>8. CASE ip = 8
  <2>0. /\ Instruction.op = "jump" /\ Instruction.cond = "bitsSet" /\ Instruction.val = fragmentOffsetMask
        /\ Instruction.skip.true = 8 /\ Instruction.skip.false = 0
    BY <1>8, InstructionAt
  <2>1. /\ packet' = packet /\ acc' = acc /\ index' = index
        /\ ip' = IF Holds("bitsSet", fragmentOffsetMask) THEN 17 ELSE 9
    BY <1>8, <2>0 DEF Load, Mask, Jump, IsLoad
  <2>2. Holds("bitsSet", fragmentOffsetMask) <=> packet.fragment # 0
    <3>1. acc = (fragmentOffsetMask + 1) * packet.more + packet.fragment
      BY <1>8 DEF FilterInv
    <3>2. LowBits(acc, fragmentOffsetMask) = packet.fragment
      BY <1>a, <3>1, Masks
    <3> QED BY <3>2 DEF Holds
  <2>3. packet.fragment # 0 => ~Wants(packet)
    BY <1>8 DEF FilterInv, Wants, DecodesAsReply, Fragmented
  <2> QED BY <1>0, <1>8, <1>a, <2>1, <2>2, <2>3 DEF FilterInv
<1>9. CASE ip = 9
  <2>1. ip' = 10 /\ packet' = packet /\ acc' = acc /\ index' = 4 * (Octets(0, 1) % 16)
    <3>1. Instruction.op = "loadMemShift" /\ Instruction.off = 0
      BY <1>9, InstructionAt
    <3> QED BY <1>9, <3>1 DEF Load, Mask, Jump, IsLoad, Offset
  <2>2. Octets(0, 1) % 16 = packet.words
    BY <1>0, <1>a, Masks, OctetsAt
  <2> QED BY <1>0, <1>9, <1>a, <2>1, <2>2 DEF FilterInv
<1>10. CASE ip = 10
  <2>1. /\ ip' = 11 /\ packet' = packet /\ index' = index
        /\ index + 2 + 2 =< packet.length /\ acc' = Octets(index + 2, 2)
    <3>1. Instruction.op = "loadIndirect" /\ Instruction.off = 2 /\ Instruction.size = 2
      BY <1>10, InstructionAt
    <3>2. Offset = index + 2
      BY <3>1 DEF Offset
    <3>3. /\ ip' = ip + 1 /\ packet' = packet /\ index' = index
          /\ ~(index + 2 + 2 > packet.length) /\ acc' = Octets(index + 2, 2)
      BY <3>1, <3>2, Loaded
    <3>4. index \in Nat
      BY DEF FilterInv
    <3> QED BY <1>10, <1>a, <3>3, <3>4
  <2>2. packet.version = 4 /\ index = 4 * packet.words /\ index \in Nat
    BY <1>10 DEF FilterInv
  <2>3. packet.words >= 5 => acc' = packet.port
    BY <1>0, <2>1, <2>2, OctetsAt
  <2>4. acc' \in Nat
    <3>1. index + 2 \in Nat /\ 2 \in Nat
      BY <2>2
    <3> HIDE DEF Octets
    <3> QED BY <1>0, <2>1, <3>1, OctetsType
  <2>5. packet.length >= index + 4
    BY <1>a, <2>1, <2>2
  <2> QED BY <1>0, <1>10, <1>a, <2>1, <2>2, <2>3, <2>4, <2>5 DEF FilterInv
<1>11. CASE ip = 11
  <2>0. /\ Instruction.op = "jump" /\ Instruction.cond = "equal" /\ Instruction.val = listenPort
        /\ Instruction.skip.true = 4 /\ Instruction.skip.false = 5
    BY <1>11, InstructionAt
  <2>1. /\ packet' = packet /\ acc' = acc /\ index' = index
        /\ ip' = IF Holds("equal", listenPort) THEN 16 ELSE 17
    BY <1>11, <2>0 DEF Load, Mask, Jump, IsLoad
  <2>2. /\ packet.version = 4 /\ packet.protocol = protocolTcp /\ packet.fragment = 0
        /\ packet.words >= 5 => acc = packet.port /\ packet.length >= index + 4
        /\ index = 4 * packet.words
    BY <1>11 DEF FilterInv
  <2>3. Holds("equal", listenPort) => Passes(packet)
    BY <1>a, <2>2 DEF Holds, Passes, Parses, HeaderLength
  <2>4. ~Holds("equal", listenPort) => ~Wants(packet)
    BY <1>a, <2>2 DEF Holds, Wants, DecodesAsReply, Parses
  <2> QED BY <1>0, <1>11, <1>a, <2>1, <2>3, <2>4 DEF FilterInv
<1>12. CASE ip = 12
  <2>0. Instruction.op = "load" /\ Instruction.off = 6 /\ Instruction.size = 1
    BY <1>12, InstructionAt
  <2>1. /\ ip' = 13 /\ packet' = packet /\ index' = index
        /\ 6 + 1 =< packet.length /\ acc' = Octets(6, 1)
    <3>1. Offset = 6
      BY <2>0 DEF Offset
    <3>2. ~(6 + 1 > packet.length) /\ acc' = Octets(6, 1)
          /\ ip' = ip + 1 /\ packet' = packet /\ index' = index
      BY <2>0, <3>1, Loaded
    <3> QED BY <1>12, <1>a, <3>2
  <2>2. acc' = packet.protocol
    BY <1>12, <1>0, <2>1, OctetsAt DEF FilterInv
  <2> QED BY <1>0, <1>12, <1>a, <2>1, <2>2 DEF FilterInv
<1>13. CASE ip = 13
  <2>0. /\ Instruction.op = "jump" /\ Instruction.cond = "notEqual" /\ Instruction.val = 6
        /\ Instruction.skip.true = 3 /\ Instruction.skip.false = 0
    BY <1>13, InstructionAt
  <2>1. /\ packet' = packet /\ acc' = acc /\ index' = index
        /\ ip' = IF Holds("notEqual", 6) THEN 17 ELSE 14
    BY <1>13, <2>0 DEF Load, Mask, Jump, IsLoad
  <2>2. Holds("notEqual", 6) <=> packet.protocol # protocolTcp
    BY <1>13, <1>a DEF FilterInv, Holds, protocolTcp
  <2>3. packet.protocol # protocolTcp => ~Wants(packet)
    BY DEF Wants, DecodesAsReply
  <2> QED BY <1>0, <1>13, <1>a, <2>1, <2>2, <2>3 DEF FilterInv
<1>14. CASE ip = 14
  <2>0. Instruction.op = "load" /\ Instruction.off = 42 /\ Instruction.size = 2
    BY <1>14, InstructionAt
  <2>1. /\ ip' = 15 /\ packet' = packet /\ index' = index
        /\ 42 + 2 =< packet.length /\ acc' = Octets(42, 2)
    <3>1. Offset = 42
      BY <2>0 DEF Offset
    <3>2. ~(42 + 2 > packet.length) /\ acc' = Octets(42, 2)
          /\ ip' = ip + 1 /\ packet' = packet /\ index' = index
      BY <2>0, <3>1, Loaded
    <3> QED BY <1>14, <1>a, <3>2
  <2>2. acc' = packet.port
    BY <1>14, <1>0, <2>1, OctetsAt DEF FilterInv
  <2> QED BY <1>0, <1>14, <1>a, <2>1, <2>2 DEF FilterInv
<1>15. CASE ip = 15
  <2>0. /\ Instruction.op = "jump" /\ Instruction.cond = "notEqual" /\ Instruction.val = listenPort
        /\ Instruction.skip.true = 1 /\ Instruction.skip.false = 0
    BY <1>15, InstructionAt
  <2>1. /\ packet' = packet /\ acc' = acc /\ index' = index
        /\ ip' = IF Holds("notEqual", listenPort) THEN 17 ELSE 16
    BY <1>15, <2>0 DEF Load, Mask, Jump, IsLoad
  <2>2. packet.version = 6 /\ packet.protocol = protocolTcp /\ acc = packet.port /\ packet.length >= 44
    BY <1>15 DEF FilterInv
  <2>3. ~Holds("notEqual", listenPort) => Passes(packet)
    BY <1>a, <2>2 DEF Holds, Passes, Parses, HeaderLength
  <2>4. Holds("notEqual", listenPort) => ~Wants(packet)
    BY <1>a, <2>2 DEF Holds, Wants
  <2> QED BY <1>0, <1>15, <1>a, <2>1, <2>3, <2>4 DEF FilterInv
<1>16. ip \notin {16, 17}
  BY InstructionAt DEF Load, Mask, Jump, IsLoad
<1> QED BY <1>0, <1>1, <1>2, <1>3, <1>4, <1>5, <1>6, <1>7, <1>8, <1>9, <1>10, <1>11, <1>12, <1>13, <1>14,
           <1>15, <1>16 DEF FilterInv

\* The verdict: what is kept passes, and what is wanted is kept.
LEMMA Verdict ==
    ASSUME FilterInv, NEW keep \in BOOLEAN, Decide(keep)
    PROVE  /\ ip # 0 /\ FilterInv'
           /\ keep => Passes(packet)
           /\ Wants(packet) => keep
<1>0. ip # 0 /\ packet \in Packet
  BY DEF FilterInv, Decide, Running
<1>1. FilterInv'
  BY DEF FilterInv, Decide
<1>2. CASE IsLoad
  <2>1. IsBeyond /\ ~keep
    BY <1>2 DEF Decide
  <2>2. ip \in {1, 5, 7, 9, 10, 12, 14}
    BY <1>2, InstructionAt DEF FilterInv, IsLoad, Running
  <2>3. /\ packet.length \in Nat /\ packet.words \in 0..15 /\ index \in Nat
        /\ ip \in {5, 7, 9, 10} => packet.version = 4
        /\ ip = 10 => index = 4 * packet.words
    BY <1>0, Fields DEF FilterInv
  <2>4. /\ ip = 1 => packet.length < 1
        /\ ip = 5 => packet.length < 10
        /\ ip = 7 => packet.length < 8
        /\ ip = 9 => packet.length < 1
        /\ ip = 10 => packet.length < index + 4
        /\ ip = 12 => packet.length < 7
        /\ ip = 14 => packet.length < 44
    BY <2>1, <2>3, InstructionAt DEF IsBeyond, Offset
  <2>5. Wants(packet) => packet.length >= 40 /\ packet.length >= HeaderLength(packet) + 20
    BY <2>3 DEF Wants, DecodesAsReply, Parses, HeaderLength
  <2>6. ip = 14 => HeaderLength(packet) = 40
    BY DEF FilterInv, HeaderLength
  <2>7. ip = 10 => HeaderLength(packet) = index
    BY <2>3 DEF HeaderLength
  <2>8. ~Wants(packet)
    BY <2>2, <2>3, <2>4, <2>5, <2>6, <2>7
  <2> QED BY <1>0, <1>1, <2>1, <2>8
<1>3. CASE ~IsLoad
  <2>1. Instruction.op = "ret" /\ keep = (Instruction.val > 0)
    BY <1>3 DEF Decide
  <2>2. ip \in {16, 17}
    BY <1>0, <2>1, InstructionAt DEF FilterInv
  <2>3. keep <=> ip = 16
    <3>1. (ip = 16 => Instruction.val > 0) /\ (ip = 17 => ~(Instruction.val > 0))
      BY InstructionAt, SMT DEF snapshotLength
    <3> QED BY <2>1, <2>2, <3>1, Zenon
  <2>4. (ip = 16 => Passes(packet)) /\ (ip = 17 => ~Wants(packet))
    BY DEF FilterInv
  <2> QED BY <1>0, <1>1, <2>2, <2>3, <2>4
<1> QED BY <1>2, <1>3

----------------------------------------------------------------------------
\* The closing of a handle is known to all before it is felt by any.
CloseInv ==
    /\ closing => closer # 1
    /\ closer # 1 => closed
    /\ \A r \in Readers :
         /\ error[r] = "closing" => closing
         /\ rpc[r] = "error" => error[r] \in {"closing", "recv"}
         /\ rpc[r] = "failed" => error[r] = "recv"

\* The packet that a reader has taken off the queue and has not returned.
Inside(r) == rpc[r] \in {"copy", "unlock", "inspect"}
Hand(r) == IF rpc[r] = "copy" THEN buffer ELSE data[r]

QueueInv ==
    \A k \in 1..Len(queue) :
        /\ queue[k] \in 1..Len(kept) /\ kept[queue[k]] = TRUE
        /\ \A l \in 1..Len(queue) : k < l => queue[k] < queue[l]

HandInv ==
    \A r \in Readers : Inside(r) =>
        /\ Hand(r) \in 1..Len(kept) /\ kept[Hand(r)] = TRUE
        /\ \A k \in 1..Len(queue) : Hand(r) < queue[k]
        /\ \A s \in Readers : s # r /\ Inside(s) => Hand(s) # Hand(r)

ReturnedAt(r, k) ==
    /\ returned[r][k] \in 1..Len(kept) /\ kept[returned[r][k]] = TRUE
    /\ IsReply(packets[returned[r][k]])
    /\ \A l \in 1..Len(queue) : returned[r][k] < queue[l]
    /\ \A l \in 1..Len(returned[r]) : k < l => returned[r][k] < returned[r][l]
    /\ Inside(r) => returned[r][k] < Hand(r)
    /\ \A s \in Readers : Inside(s) => returned[r][k] # Hand(s)
    /\ \A s \in Readers : s # r => \A l \in 1..Len(returned[s]) : returned[r][k] # returned[s][l]

ReturnedInv == \A r \in Readers : \A k \in 1..Len(returned[r]) : ReturnedAt(r, k)

\* Where a packet that was kept and may be a reply is.
Found(n) ==
    \/ \E k \in 1..Len(queue) : queue[k] = n
    \/ \E r \in Readers : Inside(r) /\ Hand(r) = n
    \/ \E r \in Readers : \E k \in 1..Len(returned[r]) : returned[r][k] = n

NothingIsLost == \A n \in 1..Len(kept) : kept[n] = TRUE /\ IsReply(packets[n]) => Found(n)

SplitInv == QueueInv /\ HandInv /\ ReturnedInv /\ NothingIsLost

IInv == TypeOK /\ FilterInv /\ FilterKeepsReplies /\ CloseInv /\ SplitInv

----------------------------------------------------------------------------
\* What arrives are packets.
LEMMA PacketsArePackets ==
    ASSUME packets \in PacketLists
    PROVE  packets \in Seq(Packet) /\ \A n \in 1..Len(packets) : packets[n] \in Packet
<1>1. packets \in Seq(Packet)
  BY Parameters
<1> QED BY <1>1

\* The filter has seventeen instructions, a close two steps.
LEMMA ProgramLength == Len(Instructions) = 17 /\ Len(CloseOrder) = 2
BY DEF Instructions, CloseOrder

\* The sequences that grow and shrink.
LEMMA Appended ==
    ASSUME NEW S, NEW s \in Seq(S), NEW e \in S
    PROVE  /\ Append(s, e) \in Seq(S) /\ Len(Append(s, e)) = Len(s) + 1
           /\ \A i \in 1..Len(s) : Append(s, e)[i] = s[i]
           /\ Append(s, e)[Len(s) + 1] = e
OBVIOUS

\* The head of a sequence and what is left.
LEMMA Popped ==
    ASSUME NEW S, NEW s \in Seq(S), s # <<>>
    PROVE  /\ Head(s) = s[1] /\ 1 \in 1..Len(s) /\ Head(s) \in S
           /\ Tail(s) \in Seq(S) /\ Len(Tail(s)) = Len(s) - 1
           /\ \A i \in 1..Len(Tail(s)) : i + 1 \in 1..Len(s) /\ Tail(s)[i] = s[i + 1] /\ 1 < i + 1
           /\ \A j \in 1..Len(s) : j # 1 => j - 1 \in 1..Len(Tail(s)) /\ Tail(s)[j - 1] = s[j]
OBVIOUS

----------------------------------------------------------------------------
\* The invariant holds at first.
LEMMA Initially == Init => IInv
<1> SUFFICES ASSUME Init PROVE IInv
  OBVIOUS
<1>1. TypeOK
  <2>1. packets \in Seq(Packet) /\ Len(packets) \in Nat /\ MaxInterrupts \in Nat
    BY Parameters, PacketsArePackets DEF Init
  <2>2. /\ 0 \in 0..MaxInterrupts /\ 0 \in 0..Len(packets) /\ 0 \in 0..Len(Instructions)
        /\ closer \in 1..(Len(CloseOrder) + 1)
    BY <2>1, ProgramLength DEF Init
  <2>3. kept \in Seq(BOOLEAN) /\ Len(kept) = 0 /\ queue \in Seq(Numbers)
    BY DEF Init
  <2>4. /\ data \in [Readers -> 0..Len(packets)] /\ returned \in [Readers -> Seq(Numbers)]
        /\ error \in [Readers -> {"none", "closing", "recv"}]
    BY <2>2 DEF Init
  <2>5. /\ rpc \in [Readers -> {"call", "prepare", "receive", "parked", "copy", "unlock", "inspect",
                               "error", "ended", "failed"}]
        /\ \A r \in Readers : rpc[r] = "call"
    BY DEF Init
  <2>6. /\ packets \in PacketLists /\ ip = 0 /\ acc = 0 /\ index = 0
        /\ arrived = 0 /\ interrupts = 0 /\ buffer = 0 /\ lock = None
        /\ closed = FALSE /\ closing = FALSE /\ open = TRUE
    BY DEF Init, FilterIdle
  <2> QED BY <2>2, <2>3, <2>4, <2>5, <2>6 DEF TypeOK
<1>2. FilterInv
  BY DEF Init, FilterIdle, FilterInv
<1>3. FilterKeepsReplies /\ NothingIsLost
  BY DEF Init, FilterKeepsReplies, NothingIsLost
<1>4. CloseInv
  BY DEF Init, CloseInv
<1>5. QueueInv /\ HandInv /\ ReturnedInv
  BY DEF Init, QueueInv, HandInv, ReturnedInv, Inside
<1> QED BY <1>1, <1>2, <1>3, <1>4, <1>5 DEF IInv, SplitInv

----------------------------------------------------------------------------
\* A reader's step, whichever, keeps the types.
LEMMA ReadersType ==
    ASSUME TypeOK, HandInv, NEW r \in Readers, Read(r) PROVE TypeOK'
<1>0. /\ packets \in Seq(Packet) /\ MaxInterrupts \in Nat /\ None \notin Readers
      /\ Len(packets) \in Nat
  BY Parameters, PacketsArePackets DEF TypeOK
<1>1. CASE Lock(r)
  BY <1>0, <1>1 DEF TypeOK, Numbers, Lock, Step, socketVars, filterVars, closeVars
<1>2. CASE CallFails(r)
  BY <1>0, <1>2 DEF TypeOK, Numbers, CallFails, Step, AfterError, socketVars, filterVars, closeVars
<1>3. CASE Prepare(r)
  BY <1>0, <1>3 DEF TypeOK, Numbers, Prepare, Step, socketVars, filterVars, closeVars
<1>4. CASE Receive(r)
  BY <1>0, <1>4, SMTT(20) DEF TypeOK, Numbers, Receive, Step, After, socketVars, filterVars, closeVars
<1>5. CASE Park(r)
  BY <1>0, <1>5 DEF TypeOK, Numbers, Park, Step, socketVars, filterVars, closeVars
<1>6. CASE Wake(r)
  BY <1>0, <1>6 DEF TypeOK, Numbers, Wake, Step, socketVars, filterVars, closeVars
<1>7. CASE Evicted(r)
  BY <1>0, <1>7, SMTT(20) DEF TypeOK, Numbers, Evicted, Step, AfterError, socketVars, filterVars, closeVars
<1>8. CASE ReceiveFails(r)
  BY <1>0, <1>8 DEF TypeOK, Numbers, ReceiveFails, Step, AfterError, socketVars, filterVars, closeVars
<1>9. CASE Interrupted(r)
  BY <1>0, <1>9 DEF TypeOK, Numbers, Interrupted, Step, socketVars, filterVars, closeVars
<1>10. CASE Copy(r)
  BY <1>0, <1>10 DEF TypeOK, Numbers, Copy, Step, After, socketVars, filterVars, closeVars
<1>11. CASE Unlock(r)
  BY <1>0, <1>11 DEF TypeOK, Numbers, Unlock, Step, After, socketVars, filterVars, closeVars
<1>12. CASE Inspect(r)
  <2>1. returned' \in [Readers -> Seq(Numbers)]
    <3>1. CASE returned' = returned
      BY <3>1 DEF TypeOK
    <3>2. CASE /\ IsReply(packets[data[r]])
               /\ returned' = [returned EXCEPT ![r] = Append(@, data[r])]
      <4>1. data[r] \in Numbers
        BY <1>12 DEF Numbers, TypeOK, HandInv, Inside, Hand, Inspect, Step
      <4> QED BY <3>2, <4>1 DEF TypeOK
    <3> QED BY <1>12, <3>1, <3>2 DEF Inspect
  <2>2. Numbers' = Numbers
    BY <1>12 DEF Numbers, Inspect, socketVars
  <2> QED BY <1>0, <1>12, <2>1, <2>2 DEF TypeOK, Inspect, Step, socketVars, filterVars, closeVars
<1>13. CASE Judge(r)
  BY <1>0, <1>13 DEF TypeOK, Numbers, Judge, Step, socketVars, filterVars, closeVars
<1> QED BY <1>1, <1>2, <1>3, <1>4, <1>5, <1>6, <1>7, <1>8, <1>9, <1>10, <1>11, <1>12, <1>13 DEF Read

\* The kernel's steps and the close's do too.
LEMMA ArriveType == ASSUME TypeOK, Arrive PROVE TypeOK'
<1>1. /\ packets \in Seq(Packet) /\ Len(packets) \in Nat /\ Len(Instructions) = 17
  BY PacketsArePackets, ProgramLength DEF TypeOK
<1>2. /\ ip = 0 /\ ip' = 1 /\ acc' = 0 /\ index' = 0 /\ packet' = packets[arrived + 1]
      /\ arrived' = arrived + 1 /\ arrived < Len(packets)
  BY DEF Arrive, StartFilter
<1> QED BY <1>1, <1>2, SMTT(20) DEF TypeOK, Arrive, Numbers, closeVars

\* The filter's steps keep the types.
LEMMA FilterType ==
    ASSUME TypeOK, FilterInv, FilterInv', NEW keep \in BOOLEAN, RunFilter \/ EndFilter(keep)
    PROVE  TypeOK'
<1>1. ip' \in 0..Len(Instructions) /\ acc' \in Nat /\ index' \in Nat
  BY ProgramLength DEF FilterInv
<1>2. CASE RunFilter
  <2>1. packet' = packet /\ ip # 0
    BY <1>2 DEF RunFilter, Load, Mask, Jump, IsLoad, Running
  <2>2. UNCHANGED <<packets, arrived, kept, queue, interrupts, buffer, lock, rpc, data, returned,
                    error, closed, closing, open, closer>>
    BY <1>2 DEF RunFilter, closeVars
  <2>3. ip' # 0
    <3>1. \E k \in Nat : ip' = ip + 1 + k
      <4>1. CASE Jump
        <5>1. ip \in 1..17
          BY <2>1 DEF FilterInv
        <5>2. Instruction.op = "jump"
          BY <4>1 DEF Jump
        <5>3. Instruction.skip.true \in Nat /\ Instruction.skip.false \in Nat
          BY <5>1, <5>2, InstructionAt
        <5> QED BY <4>1, <5>3 DEF Jump
      <4> QED BY <1>2, <4>1 DEF RunFilter, Load, Mask, FilterInv
    <3> QED BY <3>1 DEF FilterInv
  <2> QED BY <1>1, <2>1, <2>2, <2>3 DEF TypeOK, Numbers
<1>3. CASE EndFilter(keep)
  <2>1. ip # 0 /\ ip' = 0 /\ packet' = packet
    BY <1>3 DEF EndFilter, Decide, Running
  <2>2. UNCHANGED <<packets, arrived, interrupts, buffer, lock, rpc, data, returned,
                    error, closed, closing, open, closer>>
    BY <1>3 DEF EndFilter, closeVars
  <2>3. kept' \in Seq(BOOLEAN) /\ Len(kept') = arrived
    BY <1>3, <2>1, Appended DEF EndFilter, TypeOK
  <2>4. queue' \in Seq(Numbers)
    <3>1. arrived \in Numbers /\ queue \in Seq(Numbers)
      BY <2>1 DEF TypeOK, Numbers
    <3> QED BY <1>3, <3>1, Appended DEF EndFilter
  <2> QED BY <1>1, <2>1, <2>2, <2>3, <2>4 DEF TypeOK, Numbers
<1> QED BY <1>2, <1>3

\* A close keeps the types.
LEMMA CloseType == ASSUME TypeOK, Close PROVE TypeOK'
<1>1. closer \in 1..3
  BY ProgramLength DEF TypeOK
<1>2. /\ closer' \in 1..3
      /\ closed' \in BOOLEAN /\ closing' \in BOOLEAN /\ open' \in BOOLEAN
  <2>1. DOMAIN CloseOrder = 1..2
    BY DEF CloseOrder
  <2>2. closer' = closer \/ (closer \in DOMAIN CloseOrder /\ closer' = closer + 1)
    BY DEF Close, SetFlag, StartClosing, FinishClosing
  <2>3. closer' \in 1..3
    BY <1>1, <2>1, <2>2
  <2>4. closed' \in BOOLEAN /\ closing' \in BOOLEAN /\ open' \in BOOLEAN
    <3>1. closed \in BOOLEAN /\ closing \in BOOLEAN /\ open \in BOOLEAN
      BY DEF TypeOK
    <3> QED BY <3>1 DEF Close, SetFlag, StartClosing, FinishClosing
  <2> QED BY <2>3, <2>4
<1>3. closer' \in 1..(Len(CloseOrder) + 1)
  BY <1>2, ProgramLength
<1>4. /\ UNCHANGED <<packets, arrived, kept, queue, interrupts, packet, ip, acc, index>>
      /\ UNCHANGED <<buffer, lock, rpc, data, returned, error>>
  BY DEF Close, SetFlag, StartClosing, FinishClosing, socketVars, filterVars
<1> QED BY <1>2, <1>3, <1>4 DEF TypeOK, Numbers

----------------------------------------------------------------------------
\* The verdicts: each is the program's on the packet that had come last.
LEMMA VerdictsHold ==
    ASSUME TypeOK, FilterInv, FilterKeepsReplies, NEW keep \in BOOLEAN, EndFilter(keep)
    PROVE  FilterKeepsReplies' /\ FilterInv'
<1>1. /\ FilterInv' /\ ip # 0
      /\ keep => Passes(packet)
      /\ Wants(packet) => keep
  BY Verdict DEF EndFilter
<1>2. packet = packets[Len(kept) + 1] /\ packets' = packets /\ kept' = Append(kept, keep)
  BY <1>1 DEF EndFilter, TypeOK
<1>3. /\ Len(kept') = Len(kept) + 1 /\ Len(kept) \in Nat /\ kept'[Len(kept) + 1] = keep
      /\ \A n \in 1..Len(kept) : kept'[n] = kept[n]
  BY <1>2, Appended, SMTT(20) DEF TypeOK
<1>4. SUFFICES ASSUME NEW n \in 1..Len(kept')
               PROVE  (Wants(packets[n]) => kept'[n]) /\ (kept'[n] => Passes(packets[n]))
  BY <1>1, <1>2 DEF FilterKeepsReplies, Wants, Passes
<1>5. CASE n \in 1..Len(kept)
  <2>1. (Wants(packets[n]) => kept[n]) /\ (kept[n] => Passes(packets[n]))
    BY <1>5 DEF FilterKeepsReplies, Wants, Passes
  <2> QED BY <1>3, <1>5, <2>1
<1>6. CASE n = Len(kept) + 1
  BY <1>1, <1>2, <1>3, <1>6
<1> QED BY <1>3, <1>5, <1>6

\* A verdict once given stays right.
LEMMA VerdictsStay ==
    ASSUME FilterKeepsReplies, UNCHANGED <<packets, kept>> PROVE FilterKeepsReplies'
BY DEF FilterKeepsReplies

----------------------------------------------------------------------------
\* The close is announced before it is felt.
LEMMA CloseStep ==
    ASSUME TypeOK, CloseInv, [Next]_vars PROVE CloseInv'
<1>0. closer \in 1..3
  BY ProgramLength DEF TypeOK
<1>1. CASE Arrive
  BY <1>1 DEF CloseInv, Arrive, closeVars
<1>2. CASE Filter
  BY <1>2 DEF CloseInv, Filter, RunFilter, EndFilter, closeVars
<1>3. ASSUME NEW r \in Readers, Read(r) PROVE CloseInv'
  <2>0. DOMAIN rpc = Readers /\ DOMAIN error = Readers
    BY DEF TypeOK
  <2>1. CASE CallFails(r) \/ Evicted(r) \/ ReceiveFails(r)
    BY <2>0, <2>1 DEF CloseInv, CallFails, Evicted, ReceiveFails, Step, AfterError, closeVars
  <2>2. CASE Judge(r)
    BY <2>0, <2>2 DEF CloseInv, Judge, Step, closeVars
  <2>3. CASE \/ Lock(r) \/ Prepare(r) \/ Receive(r) \/ Park(r) \/ Wake(r) \/ Interrupted(r)
             \/ Copy(r) \/ Unlock(r) \/ Inspect(r)
    <3>1. error' = error /\ UNCHANGED <<closed, closing, closer>>
      BY <2>3 DEF Lock, Prepare, Receive, Park, Wake, Interrupted, Copy, Unlock, Inspect, closeVars
    <3>2. \A s \in Readers : rpc'[s] \in {"error", "failed"} => rpc'[s] = rpc[s]
      BY <2>0, <2>3 DEF Lock, Prepare, Receive, Park, Wake, Interrupted, Copy, Unlock, Inspect, Step,
                        After
    <3> QED BY <3>1, <3>2 DEF CloseInv
  <2> QED BY <1>3, <2>1, <2>2, <2>3 DEF Read
<1>4. CASE Close
  <2>1. UNCHANGED <<rpc, error>>
    BY <1>4 DEF Close, SetFlag, StartClosing, FinishClosing
  <2>2. /\ closing' => closer' # 1
        /\ closer' # 1 => closed'
        /\ closing => closing'
    BY <1>0, <1>4 DEF CloseInv, Close, SetFlag, StartClosing, FinishClosing, CloseOrder
  <2> QED BY <2>1, <2>2 DEF CloseInv
<1>5. CASE UNCHANGED vars
  BY <1>5 DEF CloseInv, vars, closeVars
<1> QED BY <1>1, <1>2, <1>3, <1>4, <1>5 DEF Next, Finished

----------------------------------------------------------------------------
\* A step that moves no packet.
LEMMA Quiet ==
    ASSUME SplitInv, UNCHANGED <<packets, kept, queue, returned>>,
           \A r \in Readers : (Inside(r)' <=> Inside(r)) /\ (Inside(r) => Hand(r)' = Hand(r))
    PROVE  SplitInv'
<1>1. QueueInv'
  BY DEF SplitInv, QueueInv
<1>2. HandInv'
  BY DEF SplitInv, HandInv
<1>3. ReturnedInv'
  BY DEF SplitInv, ReturnedInv, ReturnedAt, IsReply
<1>4. NothingIsLost'
  BY DEF SplitInv, NothingIsLost, Found, IsReply
<1> QED BY <1>1, <1>2, <1>3, <1>4 DEF SplitInv

\* The steps of a reader that move no packet between hands.
LEMMA QuietSteps ==
    ASSUME TypeOK, SplitInv, NEW r \in Readers,
           \/ Lock(r) \/ CallFails(r) \/ Prepare(r) \/ Park(r) \/ Wake(r) \/ Evicted(r)
           \/ ReceiveFails(r) \/ Interrupted(r) \/ Copy(r) \/ Unlock(r) \/ Judge(r)
    PROVE  SplitInv'
<1>1. DOMAIN rpc = Readers /\ DOMAIN data = Readers
  BY DEF TypeOK
<1>2. UNCHANGED <<packets, kept, queue, returned, buffer>>
  BY DEF Lock, CallFails, Prepare, Park, Wake, Evicted, ReceiveFails, Interrupted, Copy, Unlock,
         Judge, socketVars
<1>3. CASE Copy(r)
  <2>1. \A s \in Readers : (Inside(s)' <=> Inside(s)) /\ (Inside(s) => Hand(s)' = Hand(s))
    BY <1>1, <1>2, <1>3 DEF Copy, Step, After, Inside, Hand
  <2> QED BY <1>2, <2>1, Quiet
<1>4. CASE Unlock(r)
  <2>1. \A s \in Readers : (Inside(s)' <=> Inside(s)) /\ (Inside(s) => Hand(s)' = Hand(s))
    BY <1>1, <1>2, <1>4 DEF Unlock, Step, After, Inside, Hand
  <2> QED BY <1>2, <2>1, Quiet
<1>5. CASE \/ Lock(r) \/ CallFails(r) \/ Prepare(r) \/ Park(r) \/ Wake(r) \/ Evicted(r)
           \/ ReceiveFails(r) \/ Interrupted(r) \/ Judge(r)
  <2>1. /\ data' = data /\ ~Inside(r) /\ ~Inside(r)'
        /\ \A s \in Readers : s # r => rpc'[s] = rpc[s]
    BY <1>1, <1>5 DEF Lock, CallFails, Prepare, Park, Wake, Evicted, ReceiveFails, Interrupted,
                      Judge, Step, AfterError, Inside
  <2>2. \A s \in Readers : (Inside(s)' <=> Inside(s)) /\ (Inside(s) => Hand(s)' = Hand(s))
    BY <1>2, <2>1 DEF Inside, Hand
  <2> QED BY <1>2, <2>2, Quiet
<1> QED BY <1>3, <1>4, <1>5

\* The filter ends: the packet that had come last is queued behind all others, or it is not kept.
LEMMA EndFilterSplit ==
    ASSUME TypeOK, SplitInv, NEW keep \in BOOLEAN, ip # 0, EndFilter(keep) PROVE SplitInv'
<1>1. /\ Len(kept) \in Nat /\ arrived = Len(kept) + 1 /\ kept' = Append(kept, keep)
      /\ queue' = IF keep THEN Append(queue, arrived) ELSE queue
      /\ UNCHANGED <<packets, returned, rpc, data, buffer>>
  BY DEF TypeOK, EndFilter
<1>2. /\ Len(kept') = Len(kept) + 1 /\ kept'[Len(kept) + 1] = keep
      /\ \A n \in 1..Len(kept) : n \in 1..Len(kept') /\ kept'[n] = kept[n]
  BY <1>1, Appended, SMTT(20) DEF TypeOK
<1>3. /\ Len(queue) \in Nat /\ Len(queue') \in Nat
      /\ \A k \in 1..Len(queue) : k \in 1..Len(queue') /\ queue'[k] = queue[k]
      /\ \A k \in 1..Len(queue') : k \notin 1..Len(queue) =>
            keep /\ k = Len(queue) + 1 /\ queue'[k] = Len(kept) + 1
      /\ keep => Len(queue) + 1 \in 1..Len(queue')
  <2>1. queue \in Seq(Nat) /\ arrived \in Nat /\ Len(queue) \in Nat
    BY <1>1, SMTT(20) DEF TypeOK, Numbers
  <2>2. CASE keep
    BY <1>1, <2>1, <2>2, Appended
  <2>3. CASE ~keep
    BY <1>1, <2>1, <2>3
  <2> QED BY <2>2, <2>3
<1>4. \A r \in Readers : (Inside(r)' <=> Inside(r)) /\ Hand(r)' = Hand(r)
  BY <1>1 DEF Inside, Hand
<1>5. QueueInv'
  <2> SUFFICES ASSUME NEW k \in 1..Len(queue')
               PROVE  /\ queue'[k] \in 1..Len(kept') /\ kept'[queue'[k]] = TRUE
                      /\ \A l \in 1..Len(queue') : k < l => queue'[k] < queue'[l]
    BY DEF QueueInv
  <2>1. CASE k \in 1..Len(queue)
    <3>1. /\ queue[k] \in 1..Len(kept) /\ kept[queue[k]] = TRUE /\ queue'[k] = queue[k]
          /\ \A l \in 1..Len(queue) : k < l => queue[k] < queue[l]
      BY <1>3, <2>1 DEF SplitInv, QueueInv
    <3> QED BY <1>1, <1>2, <1>3, <3>1
  <2>2. CASE k \notin 1..Len(queue)
    BY <1>1, <1>2, <1>3, <2>2
  <2> QED BY <2>1, <2>2
<1>6. HandInv'
  BY <1>1, <1>2, <1>3, <1>4 DEF SplitInv, HandInv
<1>7. ReturnedInv'
  BY <1>1, <1>2, <1>3, <1>4 DEF SplitInv, ReturnedInv, ReturnedAt, IsReply
<1>8. NothingIsLost'
  BY <1>1, <1>2, <1>3, <1>4, SMTT(20) DEF SplitInv, NothingIsLost, Found, IsReply
<1> QED BY <1>5, <1>6, <1>7, <1>8 DEF SplitInv

\* A read: the packet leaves the queue for the hand of the reader, the only one with the lock.
LEMMA ReceiveSplit ==
    ASSUME TypeOK, SplitInv, NEW r \in Readers, Receive(r) PROVE SplitInv'
<1>0. /\ DOMAIN rpc = Readers /\ queue \in Seq(Numbers) /\ queue # <<>>
      /\ Len(queue) \in Nat
  BY DEF TypeOK, Receive
<1>1. /\ UNCHANGED <<packets, kept, returned, data>>
      /\ buffer' = Head(queue) /\ queue' = Tail(queue)
      /\ rpc[r] = "receive" /\ rpc' = [rpc EXCEPT ![r] = "copy"]
  BY DEF Receive, Step, After
<1>2. /\ buffer' = queue[1] /\ 1 \in 1..Len(queue)
      /\ Len(queue') = Len(queue) - 1
      /\ \A i \in 1..Len(queue') : i + 1 \in 1..Len(queue) /\ queue'[i] = queue[i + 1] /\ 1 < i + 1
      /\ \A j \in 1..Len(queue) : j # 1 => j - 1 \in 1..Len(queue') /\ queue'[j - 1] = queue[j]
  BY <1>0, <1>1, Popped
<1>3. /\ ~Inside(r) /\ Inside(r)' /\ Hand(r)' = queue[1]
      /\ \A s \in Readers : s # r => rpc'[s] = rpc[s] /\ rpc[s] # "copy"
  BY <1>0, <1>1, <1>2 DEF TypeOK, Inside, Hand
<1>4. \A s \in Readers : s # r => (Inside(s)' <=> Inside(s)) /\ Hand(s)' = Hand(s)
  BY <1>1, <1>3 DEF Inside, Hand
<1>5. \A i \in 1..Len(queue') : \E j \in 1..Len(queue) : queue'[i] = queue[j] /\ 1 < j
  BY <1>2
<1>6. QueueInv'
  <2> SUFFICES ASSUME NEW k \in 1..Len(queue')
               PROVE  /\ queue'[k] \in 1..Len(kept) /\ kept[queue'[k]] = TRUE
                      /\ \A l \in 1..Len(queue') : k < l => queue'[k] < queue'[l]
    BY <1>1 DEF QueueInv
  <2>1. /\ queue[k + 1] \in 1..Len(kept) /\ kept[queue[k + 1]] = TRUE
        /\ \A j \in 1..Len(queue) : k + 1 < j => queue[k + 1] < queue[j]
    BY <1>2 DEF SplitInv, QueueInv
  <2>2. ASSUME NEW l \in 1..Len(queue'), k < l PROVE queue'[k] < queue'[l]
    <3>1. k + 1 < l + 1 /\ l + 1 \in 1..Len(queue) /\ queue'[l] = queue[l + 1]
      BY <1>0, <1>2, <2>2
    <3> QED BY <1>2, <2>1, <3>1
  <2> QED BY <1>2, <2>1, <2>2
<1>7. /\ queue[1] \in 1..Len(kept) /\ kept[queue[1]] = TRUE
      /\ \A j \in 1..Len(queue) : 1 < j => queue[1] < queue[j]
      /\ \A s \in Readers : Inside(s) => Hand(s) # queue[1] /\ Hand(s) < queue[1]
      /\ \A s \in Readers : \A k \in 1..Len(returned[s]) : returned[s][k] < queue[1]
  <2>1. /\ queue[1] \in 1..Len(kept) /\ kept[queue[1]] = TRUE
        /\ \A j \in 1..Len(queue) : 1 < j => queue[1] < queue[j]
    BY <1>2 DEF SplitInv, QueueInv
  <2>2. \A s \in Readers : Inside(s) => Hand(s) \in 1..Len(kept) /\ Hand(s) < queue[1]
    BY <1>2 DEF SplitInv, HandInv
  <2>3. \A s \in Readers : \A k \in 1..Len(returned[s]) : returned[s][k] < queue[1]
    BY <1>2 DEF SplitInv, ReturnedInv, ReturnedAt
  <2>4. \A m, n \in Nat : m < n => m # n
    OBVIOUS
  <2>5. queue[1] \in Nat /\ \A s \in Readers : Inside(s) => Hand(s) \in Nat
    BY <2>1, <2>2
  <2> QED BY <2>1, <2>2, <2>3, <2>4, <2>5
<1>8. HandInv'
  <2> SUFFICES ASSUME NEW s \in Readers, Inside(s)'
               PROVE  /\ Hand(s)' \in 1..Len(kept) /\ kept[Hand(s)'] = TRUE
                      /\ \A i \in 1..Len(queue') : Hand(s)' < queue'[i]
                      /\ \A t \in Readers : t # s /\ Inside(t)' => Hand(t)' # Hand(s)'
    BY <1>1 DEF HandInv
  <2>1. CASE s = r
    BY <1>3, <1>4, <1>5, <1>7, <2>1
  <2>2. CASE s # r
    <3>1. /\ Inside(s) /\ Hand(s)' = Hand(s)
          /\ Hand(s) \in 1..Len(kept) /\ kept[Hand(s)] = TRUE
          /\ \A j \in 1..Len(queue) : Hand(s) < queue[j]
          /\ \A t \in Readers : t # s /\ Inside(t) => Hand(t) # Hand(s)
      BY <1>4, <2>2 DEF SplitInv, HandInv
    <3>2. \A i \in 1..Len(queue') : Hand(s) < queue'[i]
      BY <1>5, <3>1
    <3> QED BY <1>3, <1>4, <1>7, <2>2, <3>1, <3>2
  <2> QED BY <2>1, <2>2
<1>9. ReturnedInv'
  <2> SUFFICES ASSUME NEW s \in Readers, NEW k \in 1..Len(returned[s])
               PROVE  ReturnedAt(s, k)'
    BY <1>1 DEF ReturnedInv
  <2>1. /\ returned[s][k] \in 1..Len(kept) /\ kept[returned[s][k]] = TRUE
        /\ IsReply(packets[returned[s][k]])
        /\ \A l \in 1..Len(queue) : returned[s][k] < queue[l]
        /\ \A l \in 1..Len(returned[s]) : k < l => returned[s][k] < returned[s][l]
        /\ Inside(s) => returned[s][k] < Hand(s)
        /\ \A t \in Readers : Inside(t) => returned[s][k] # Hand(t)
        /\ \A t \in Readers : t # s =>
             \A l \in 1..Len(returned[t]) : returned[s][k] # returned[t][l]
    BY DEF SplitInv, ReturnedInv, ReturnedAt
  <2>2. returned[s][k] < queue[1] /\ returned[s][k] # queue[1]
    BY <1>7, <2>1
  <2>3. \A i \in 1..Len(queue') : returned[s][k] < queue'[i]
    BY <1>5, <2>1
  <2>4. /\ Inside(s)' => returned[s][k] < Hand(s)'
        /\ \A t \in Readers : Inside(t)' => returned[s][k] # Hand(t)'
    BY <1>3, <1>4, <2>1, <2>2
  <2> QED BY <1>1, <2>1, <2>3, <2>4 DEF ReturnedAt, IsReply
<1>10. NothingIsLost'
  <2> SUFFICES ASSUME NEW n \in 1..Len(kept), kept[n] = TRUE, IsReply(packets[n])
               PROVE  Found(n)'
    BY <1>1 DEF NothingIsLost, IsReply
  <2>1. \/ \E k \in 1..Len(queue) : queue[k] = n
        \/ \E s \in Readers : Inside(s) /\ Hand(s) = n
        \/ \E s \in Readers : \E k \in 1..Len(returned[s]) : returned[s][k] = n
    BY DEF SplitInv, NothingIsLost, Found
  <2>2. ASSUME NEW k \in 1..Len(queue), queue[k] = n
        PROVE  \/ \E i \in 1..Len(queue') : queue'[i] = n
               \/ \E s \in Readers : Inside(s)' /\ Hand(s)' = n
    <3>1. CASE k = 1
      BY <1>3, <2>2, <3>1
    <3>2. CASE k # 1
      <4>1. k - 1 \in 1..Len(queue') /\ queue'[k - 1] = n
        BY <1>2, <2>2, <3>2
      <4> QED BY <4>1
    <3> QED BY <3>1, <3>2
  <2>3. ASSUME NEW s \in Readers, Inside(s), Hand(s) = n
        PROVE  \E t \in Readers : Inside(t)' /\ Hand(t)' = n
    BY <1>3, <1>4, <2>3
  <2> QED BY <1>1, <2>1, <2>2, <2>3 DEF Found
<1> QED BY <1>6, <1>8, <1>9, <1>10 DEF SplitInv

\* What is in the hand is returned if it may be a reply, and dropped if not.
LEMMA InspectSplit ==
    ASSUME TypeOK, SplitInv, NEW r \in Readers, Inspect(r) PROVE SplitInv'
<1>0. DOMAIN rpc = Readers /\ returned \in [Readers -> Seq(Numbers)]
  BY DEF TypeOK
<1>1. /\ UNCHANGED <<packets, kept, queue, data, buffer>>
      /\ rpc[r] = "inspect" /\ rpc' = [rpc EXCEPT ![r] = "call"]
      /\ returned' = IF IsReply(packets[data[r]]) THEN [returned EXCEPT ![r] = Append(@, data[r])]
                                                ELSE returned
  BY DEF Inspect, Step, socketVars
<1>2. Inside(r) /\ Hand(r) = data[r] /\ ~Inside(r)'
  BY <1>0, <1>1 DEF Inside, Hand
<1>3. \A s \in Readers : s # r => (Inside(s)' <=> Inside(s)) /\ Hand(s)' = Hand(s)
  BY <1>0, <1>1 DEF Inside, Hand
<1>4. /\ data[r] \in 1..Len(kept) /\ kept[data[r]] = TRUE
      /\ \A k \in 1..Len(queue) : data[r] < queue[k]
      /\ \A s \in Readers : s # r /\ Inside(s) => Hand(s) # data[r]
  BY <1>2 DEF SplitInv, HandInv
<1>5. QueueInv'
  BY <1>1 DEF SplitInv, QueueInv
<1>6. HandInv'
  BY <1>1, <1>2, <1>3 DEF SplitInv, HandInv
<1>7. CASE ~IsReply(packets[data[r]])
  <2>1. returned' = returned
    BY <1>1, <1>7
  <2>2. ReturnedInv'
    <3>1. UNCHANGED <<returned, kept, packets, queue>>
      BY ONLY <1>1, <2>1
    <3>2. \A s \in Readers : Inside(s)' => Inside(s) /\ Hand(s)' = Hand(s)
      BY <1>2, <1>3
    <3> QED BY <3>1, <3>2 DEF SplitInv, ReturnedInv, ReturnedAt, IsReply
  <2>3. NothingIsLost'
    <3>0. UNCHANGED <<kept, packets>>
      BY ONLY <1>1
    <3> SUFFICES ASSUME NEW n \in 1..Len(kept), kept[n] = TRUE, IsReply(packets[n])
                 PROVE  Found(n)'
      BY <3>0 DEF NothingIsLost, IsReply
    <3>1. n # data[r]
      BY <1>7
    <3>2. Found(n)
      BY DEF SplitInv, NothingIsLost
    <3>3. UNCHANGED <<queue, returned>>
      BY ONLY <1>1, <2>1
    <3>4. CASE \E s \in Readers : Inside(s) /\ Hand(s) = n
      <4>1. PICK s \in Readers : Inside(s) /\ Hand(s) = n
        BY ONLY <3>4
      <4>2. Inside(s)' /\ Hand(s)' = n
        BY ONLY <1>2, <1>3, <3>1, <4>1
      <4> QED BY ONLY <4>2 DEF Found
    <3> QED BY ONLY <3>2, <3>3, <3>4 DEF Found
  <2> QED BY <1>5, <1>6, <2>2, <2>3 DEF SplitInv
<1>8. CASE IsReply(packets[data[r]])
  <2>1. /\ \A s \in Readers : s # r => returned'[s] = returned[s]
        /\ returned'[r] = Append(returned[r], data[r])
    BY <1>0, <1>1, <1>8
  <2>2. /\ Len(returned[r]) \in Nat /\ Len(returned'[r]) = Len(returned[r]) + 1
        /\ \A k \in 1..Len(returned[r]) : returned'[r][k] = returned[r][k]
        /\ returned'[r][Len(returned[r]) + 1] = data[r]
    <3>1. data[r] \in Numbers
      BY <1>4 DEF TypeOK, Numbers
    <3> QED BY <1>0, <2>1, <3>1, Appended
  <2>3. \A k \in 1..Len(returned'[r]) : k \in 1..Len(returned[r]) \/ k = Len(returned[r]) + 1
    BY <2>2
  <2>4. \A s \in Readers : \A k \in 1..Len(returned'[s]) :
          \/ k \in 1..Len(returned[s]) /\ returned'[s][k] = returned[s][k]
          \/ s = r /\ k = Len(returned[r]) + 1 /\ returned'[s][k] = data[r]
    BY <2>1, <2>2, <2>3
  <2>5. ReturnedInv'
    <3> SUFFICES ASSUME NEW s \in Readers, NEW k \in 1..Len(returned'[s])
                 PROVE  ReturnedAt(s, k)'
      BY <1>1 DEF ReturnedInv
    <3>0. \A t \in Readers : \A l \in 1..Len(returned[t]) : returned[t][l] # data[r]
      BY <1>2 DEF SplitInv, ReturnedInv, ReturnedAt
    <3>1. CASE k \in 1..Len(returned[s]) /\ returned'[s][k] = returned[s][k]
      <4>1. /\ returned[s][k] \in 1..Len(kept) /\ kept[returned[s][k]] = TRUE
            /\ IsReply(packets[returned[s][k]])
            /\ \A l \in 1..Len(queue) : returned[s][k] < queue[l]
            /\ \A l \in 1..Len(returned[s]) : k < l => returned[s][k] < returned[s][l]
            /\ Inside(s) => returned[s][k] < Hand(s)
            /\ \A t \in Readers : Inside(t) => returned[s][k] # Hand(t)
            /\ \A t \in Readers : t # s =>
                 \A l \in 1..Len(returned[t]) : returned[s][k] # returned[t][l]
        BY <3>1 DEF SplitInv, ReturnedInv, ReturnedAt
      <4>2. s = r => returned[s][k] < data[r]
        BY <1>2, <4>1
      <4>3. \A l \in 1..Len(returned'[s]) : k < l => returned'[s][k] < returned'[s][l]
        BY <2>4, <3>1, <4>1, <4>2
      <4>4. Inside(s)' => returned'[s][k] < Hand(s)'
        BY <1>2, <1>3, <3>1, <4>1
      <4>5. \A t \in Readers : Inside(t)' => returned'[s][k] # Hand(t)'
        BY <1>2, <1>3, <3>1, <4>1
      <4>6. \A t \in Readers : t # s =>
              \A l \in 1..Len(returned'[t]) : returned'[s][k] # returned'[t][l]
        BY <2>4, <3>0, <3>1, <4>1
      <4> QED BY <1>1, <3>1, <4>1, <4>3, <4>4, <4>5, <4>6 DEF ReturnedAt, IsReply
    <3>2. CASE s = r /\ k = Len(returned[r]) + 1 /\ returned'[s][k] = data[r]
      <4>1. \A l \in 1..Len(returned'[s]) : ~(k < l)
        BY <2>2, <3>2
      <4>2. \A t \in Readers : Inside(t)' => returned'[s][k] # Hand(t)'
        BY <1>2, <1>3, <1>4, <3>2
      <4>3. \A t \in Readers : t # s =>
              \A l \in 1..Len(returned'[t]) : returned'[s][k] # returned'[t][l]
        BY <2>4, <3>0, <3>2
      <4> QED BY <1>1, <1>2, <1>4, <1>8, <3>2, <4>1, <4>2, <4>3 DEF ReturnedAt, IsReply
    <3> QED BY <2>4, <3>1, <3>2
  <2>6. NothingIsLost'
    <3> SUFFICES ASSUME NEW n \in 1..Len(kept), kept[n] = TRUE, IsReply(packets[n])
                 PROVE  Found(n)'
      BY <1>1 DEF NothingIsLost, IsReply
    <3>1. \/ \E k \in 1..Len(queue) : queue[k] = n
          \/ \E s \in Readers : Inside(s) /\ Hand(s) = n
          \/ \E s \in Readers : \E k \in 1..Len(returned[s]) : returned[s][k] = n
      BY DEF SplitInv, NothingIsLost, Found
    <3>2. ASSUME NEW s \in Readers, Inside(s), Hand(s) = n
          PROVE  \/ \E t \in Readers : Inside(t)' /\ Hand(t)' = n
                 \/ \E t \in Readers : \E k \in 1..Len(returned'[t]) : returned'[t][k] = n
      <4>1. Len(returned[r]) + 1 \in 1..Len(returned'[r])
        BY <2>2
      <4> QED BY <1>2, <1>3, <2>2, <3>2, <4>1
    <3>3. ASSUME NEW s \in Readers, NEW k \in 1..Len(returned[s]), returned[s][k] = n
          PROVE  k \in 1..Len(returned'[s]) /\ returned'[s][k] = n
      <4>1. CASE s = r
        BY ONLY <2>2, <3>3, <4>1, k \in 1..Len(returned[s])
      <4>2. CASE s # r
        BY ONLY <2>1, <3>3, <4>2, s \in Readers, k \in 1..Len(returned[s])
      <4> QED BY <4>1, <4>2
    <3> QED BY <1>1, <3>1, <3>2, <3>3 DEF Found
  <2> QED BY <1>5, <1>6, <2>5, <2>6 DEF SplitInv
<1> QED BY <1>7, <1>8

----------------------------------------------------------------------------
\* The invariant is inductive.
LEMMA StepPreserves == IInv /\ [Next]_vars => IInv'
<1> SUFFICES ASSUME IInv, [Next]_vars PROVE IInv'
  OBVIOUS
<1>0. TypeOK /\ FilterInv /\ FilterKeepsReplies /\ CloseInv /\ SplitInv
  BY DEF IInv
<1>1. CloseInv'
  BY <1>0, CloseStep
<1>2. CASE Arrive
  <2>1. packets[arrived + 1] \in Packet /\ StartFilter(packets[arrived + 1])
    BY <1>0, <1>2, PacketsArePackets DEF Arrive, TypeOK
  <2>2. UNCHANGED <<packets, kept, queue, returned, rpc, data, buffer>>
    BY <1>2 DEF Arrive
  <2>3. \A r \in Readers : (Inside(r)' <=> Inside(r)) /\ (Inside(r) => Hand(r)' = Hand(r))
    BY <2>2 DEF Inside, Hand
  <2>4. SplitInv'
    BY <1>0, <2>2, <2>3, Quiet
  <2>5. FilterInv' /\ FilterKeepsReplies'
    BY <1>0, <2>1, <2>2, StartInv, VerdictsStay
  <2> QED BY <1>0, <1>1, <1>2, <2>4, <2>5, ArriveType DEF IInv
<1>3. CASE RunFilter
  <2>1. FilterInv'
    BY <1>0, <1>3, StepInv DEF RunFilter
  <2>2. UNCHANGED <<packets, kept, queue, returned, rpc, data, buffer>>
    BY <1>3 DEF RunFilter
  <2>3. \A r \in Readers : (Inside(r)' <=> Inside(r)) /\ (Inside(r) => Hand(r)' = Hand(r))
    BY <2>2 DEF Inside, Hand
  <2>4. SplitInv' /\ FilterKeepsReplies'
    BY <1>0, <2>2, <2>3, Quiet, VerdictsStay
  <2> QED BY <1>0, <1>1, <1>3, <2>1, <2>4, FilterType DEF IInv
<1>4. ASSUME NEW keep \in BOOLEAN, EndFilter(keep) PROVE IInv'
  <2>1. ip # 0
    BY <1>4 DEF EndFilter, Decide, Running
  <2>2. FilterInv' /\ FilterKeepsReplies'
    BY <1>0, <1>4, VerdictsHold
  <2> QED BY <1>0, <1>1, <1>4, <2>1, <2>2, FilterType, EndFilterSplit DEF IInv
<1>5. ASSUME NEW r \in Readers, Read(r) PROVE IInv'
  <2>1. TypeOK'
    BY <1>0, <1>5, ReadersType DEF SplitInv
  <2>2. UNCHANGED <<packets, kept, packet, ip, acc, index>>
    BY <1>5 DEF Read, Lock, CallFails, Prepare, Receive, Park, Wake, Evicted, ReceiveFails,
                Interrupted, Copy, Unlock, Inspect, Judge, socketVars, filterVars
  <2>3. FilterInv' /\ FilterKeepsReplies'
    BY <1>0, <2>2, VerdictsStay DEF FilterInv
  <2>4. SplitInv'
    BY <1>0, <1>5, QuietSteps, ReceiveSplit, InspectSplit DEF Read
  <2> QED BY <1>1, <2>1, <2>3, <2>4 DEF IInv
<1>6. CASE Close
  <2>1. UNCHANGED <<packets, kept, queue, returned, rpc, data, buffer, packet, ip, acc, index>>
    BY <1>6 DEF Close, SetFlag, StartClosing, FinishClosing, socketVars, filterVars
  <2>2. \A r \in Readers : (Inside(r)' <=> Inside(r)) /\ (Inside(r) => Hand(r)' = Hand(r))
    BY <2>1 DEF Inside, Hand
  <2>3. FilterInv' /\ FilterKeepsReplies' /\ SplitInv'
    BY <1>0, <2>1, <2>2, Quiet, VerdictsStay DEF FilterInv
  <2> QED BY <1>0, <1>1, <1>6, <2>3, CloseType DEF IInv
<1>7. CASE UNCHANGED vars
  <2>1. UNCHANGED <<packets, kept, queue, returned, rpc, data, buffer, packet, ip, acc, index>>
    BY <1>7 DEF vars, socketVars, filterVars
  <2>2. \A r \in Readers : (Inside(r)' <=> Inside(r)) /\ (Inside(r) => Hand(r)' = Hand(r))
    BY <2>1 DEF Inside, Hand
  <2>3. FilterInv' /\ FilterKeepsReplies' /\ SplitInv'
    BY <1>0, <2>1, <2>2, Quiet, VerdictsStay DEF FilterInv
  <2>4. TypeOK'
    BY <1>0, <1>7 DEF TypeOK, Numbers, vars, socketVars, filterVars, closeVars
  <2> QED BY <1>1, <2>3, <2>4 DEF IInv
<1> QED BY <1>2, <1>3, <1>4, <1>5, <1>6, <1>7 DEF Next, Filter, Finished

\* The packets stay where they are accounted for, and the close is announced before it is felt, in
\* every state of every run.
THEOREM Invariant == Spec => []IInv
<1>1. Init => IInv
  BY Initially
<1>2. IInv /\ [Next]_vars => IInv'
  BY StepPreserves
<1> QED BY <1>1, <1>2, PTL DEF Spec

\* Every variable has its type, and a reader inside a read holds the file's lock.
THEOREM TypeCorrect == Spec => []TypeOK
<1>1. IInv => TypeOK
  BY DEF IInv
<1> QED BY <1>1, Invariant, PTL

\* The filter keeps every packet that decodes as a reply for the port, and nothing that is not TCP
\* for it: for every port and all packets, whatever their header lengths, fragments and octets.
THEOREM RepliesAreKept == Spec => []FilterKeepsReplies
<1>1. IInv => FilterKeepsReplies
  BY DEF IInv
<1> QED BY <1>1, Invariant, PTL

\* A reader takes the end of the scan for a failure of its source in no run.
THEOREM CloseIsToldFromFailure == Spec => []CloseIsNotAFailure
<1>1. IInv => CloseIsNotAFailure
  BY DEF IInv, CloseInv, CloseIsNotAFailure
<1> QED BY <1>1, Invariant, PTL

\* However many readers share a handle, each packet goes to exactly one of them, in order.
THEOREM PacketsAreSplit == Spec => []EveryReplyOnce
<1>1. ASSUME IInv PROVE EveryReplyOnce
  <2>0. TypeOK /\ QueueInv /\ HandInv /\ ReturnedInv /\ NothingIsLost
    BY <1>1 DEF IInv, SplitInv
  <2>1. /\ \A r \in Readers : DOMAIN returned[r] = 1..Len(returned[r])
        /\ DOMAIN queue = 1..Len(queue)
    BY <2>0 DEF TypeOK
  <2>2. \A r \in Readers : \A n : n \in Range(returned[r]) <=>
          \E k \in 1..Len(returned[r]) : returned[r][k] = n
    BY <2>1 DEF Range
  <2>3. \A n : n \in Range(queue) <=> \E k \in 1..Len(queue) : queue[k] = n
    BY <2>1 DEF Range
  <2>4. \A r \in Readers : \A k, l \in 1..Len(returned[r]) :
          k < l => returned[r][k] < returned[r][l]
    BY <2>0 DEF ReturnedInv, ReturnedAt
  <2>5. ASSUME NEW r \in Readers, NEW s \in Readers, r # s
        PROVE  Range(returned[r]) \cap Range(returned[s]) = {}
    <3>1. ASSUME NEW k \in 1..Len(returned[r]), NEW l \in 1..Len(returned[s])
          PROVE  returned[r][k] # returned[s][l]
      BY <2>0, <2>5 DEF ReturnedInv, ReturnedAt
    <3>2. ASSUME NEW n, n \in Range(returned[r]), n \in Range(returned[s]) PROVE FALSE
      <4>1. /\ \E k \in 1..Len(returned[r]) : returned[r][k] = n
            /\ \E l \in 1..Len(returned[s]) : returned[s][l] = n
        BY <2>2, <3>2
      <4> QED BY <3>1, <4>1
    <3> QED BY <3>2
  <2>6. ASSUME HandsAreEmpty
        PROVE  UNION {Range(returned[r]) : r \in Readers} =
                 {n \in Taken : kept[n] /\ ~packets[n].outgoing /\ packets[n].link # "other"}
    <3>0. \A r \in Readers : ~Inside(r)
      BY <2>6 DEF HandsAreEmpty, Inside
    <3>1. /\ Len(kept) \in Nat /\ kept \in Seq(BOOLEAN) /\ queue \in Seq(Nat)
          /\ \A n \in 1..Len(kept) : packets[n] \in Packet /\ kept[n] \in BOOLEAN
      <4>1. Len(kept) =< Len(packets) /\ Len(kept) \in Nat /\ Len(packets) \in Nat
        BY <2>0, PacketsArePackets DEF TypeOK
      <4>2. \A n \in 1..Len(kept) : n \in 1..Len(packets)
        BY ONLY <4>1
      <4>3. kept \in Seq(BOOLEAN) /\ queue \in Seq(Nat)
        BY <2>0 DEF TypeOK, Numbers
      <4>4. \A n \in 1..Len(kept) : packets[n] \in Packet
        BY <2>0, <4>2, PacketsArePackets DEF TypeOK
      <4> QED BY ONLY <4>1, <4>3, <4>4
    <3>2. \A n \in 1..Len(kept) :
            IsReply(packets[n]) <=> ~packets[n].outgoing /\ packets[n].link # "other"
      BY <3>1 DEF IsReply, Packet
    <3>3. ASSUME NEW r \in Readers, NEW n \in Range(returned[r])
          PROVE  /\ n \in Taken /\ kept[n]
                 /\ ~packets[n].outgoing /\ packets[n].link # "other"
      <4>1. PICK k \in 1..Len(returned[r]) : returned[r][k] = n
        BY <2>2
      <4>2. /\ n \in 1..Len(kept) /\ kept[n] = TRUE /\ IsReply(packets[n])
            /\ \A l \in 1..Len(queue) : n < queue[l]
        BY <2>0, <4>1 DEF ReturnedInv, ReturnedAt
      <4>3. \A l \in 1..Len(queue) : queue[l] # n
        <5>1. \A l \in 1..Len(queue) : queue[l] \in Nat
          BY <3>1
        <5> QED BY <4>2, <5>1
      <4> QED BY <2>3, <3>2, <4>2, <4>3 DEF Taken
    <3>4. ASSUME NEW n \in Taken, kept[n], ~packets[n].outgoing, packets[n].link # "other"
          PROVE  \E r \in Readers : n \in Range(returned[r])
      <4>1. n \in 1..Len(kept) /\ n \notin Range(queue)
        BY DEF Taken
      <4>2. Found(n)
        BY <2>0, <3>1, <3>2, <3>4, <4>1 DEF NothingIsLost
      <4> QED BY <2>2, <2>3, <3>0, <4>1, <4>2 DEF Found
    <3> QED BY <3>3, <3>4
  <2> QED BY <2>4, <2>5, <2>6 DEF EveryReplyOnce
<1> QED BY <1>1, Invariant, PTL
==================================================================================
