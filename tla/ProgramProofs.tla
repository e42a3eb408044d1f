------------------------------ MODULE ProgramProofs ------------------------------
(***************************************************************************)
(* What Program guarantees whatever the interfaces, the options and the    *)
(* results are.  SetupInv is what holds at each place of ScanNetworks,     *)
(* every failure included: which sockets are open there, and which of the  *)
(* packet sockets are.  MainInv relates it to what main has seen of it.    *)
(***************************************************************************)
EXTENDS Program, SequenceTheorems, WellFoundedInduction, TLAPS

USE DEF vars, input, captureVars, setupVars, printVars, mainVars, programVars

States == {"unopened", "open", "closed"}
Handles == 1..Len(handles)

SetupTypes ==
    /\ Asked \in Seq(Names) /\ skipIpv6 \in BOOLEAN
    /\ pc \in Sockets \cup
         {"check", "interfaces", "open", "scan", "closeHandles", "closeHandler", "connect", "returned"}
    /\ sockets \in [Sockets -> States]
    /\ k \in 1..(Len(Asked) + 1) /\ step \in 1..(Len(OpenSteps) + 1)
    /\ done \in [Captures -> SUBSET Range(OpenSteps)]
    /\ fds \in [Captures -> States]
    /\ handles \in Seq(Captures)

\* The sockets of the handler.
SocketsInv ==
    /\ pc \in {"check", "connect", "listener"} => \A s \in Sockets : sockets[s] = "unopened"
    /\ pc = "raw4" => sockets["listener"] = "open" /\ sockets["raw4"] = "unopened"
    /\ pc \in {"raw4", "raw6"} => sockets["raw6"] = "unopened"
    /\ pc = "raw6" => sockets["listener"] = "open" /\ sockets["raw4"] = "open"
    /\ pc \in {"interfaces", "open", "scan"} =>
         sockets["raw4"] = "open" /\ (skipIpv6 \/ sockets["raw6"] = "open")
    /\ pc \in {"interfaces", "open", "scan", "closeHandles", "closeHandler"} =>
         sockets["listener"] = "open"
    /\ pc = "returned" => \A s \in Sockets : sockets[s] # "open"

\* The packet sockets: nothing before they are opened, then those of the handles that are kept and
\* the one that is being opened, and none after they are closed.
HasHandle(i) == \E a \in Handles : handles[a] = i

FdsInv ==
    /\ pc \in {"check", "connect", "listener", "raw4", "raw6", "interfaces"} =>
         /\ k = 1 /\ step = 1 /\ handles = <<>>
         /\ \A i \in Captures : fds[i] = "unopened" /\ done[i] = {}
    /\ pc = "open" =>
         /\ \A i \in Captures : i < k => (fds[i] = "open" <=> HasHandle(i))
         /\ \A i \in Captures : i = k => fds[i] = IF step > 2 THEN "open" ELSE "unopened"
         /\ \A i \in Captures : i > k => fds[i] = "unopened"
         /\ \A a \in Handles : handles[a] < k
    /\ pc \in {"scan", "closeHandles"} => \A i \in Captures : fds[i] = "open" <=> HasHandle(i)
    /\ pc \in {"closeHandler", "returned"} => \A i \in Captures : fds[i] # "open"
    /\ \A a, b \in Handles : a < b => handles[a] < handles[b]

\* The steps that were done, in their order.
Before(n) == {OpenSteps[j] : j \in 1..(n - 1)}
DoneInv ==
    /\ pc = "open" => \A i \in Captures : /\ i = k => done[i] = Before(step)
                                          /\ i > k => done[i] = {}
    /\ \A a \in Handles : done[handles[a]] = Range(OpenSteps)
    /\ FilteredWhenBound

\* An interface that was named has its handle.
NamedInv ==
    /\ interfaceNames # <<>> /\ pc \in {"open", "scan"} => \A a \in Handles : handles[a] = a
    /\ interfaceNames # <<>> /\ pc = "open" => Len(handles) = k - 1
    /\ interfaceNames # <<>> /\ pc = "scan" => Len(handles) = Len(Asked)
    /\ pc = "scan" => handles # <<>>

SetupInv == SetupTypes /\ SocketsInv /\ FdsInv /\ DoneInv /\ NamedInv

\* What main knows, and what became of the callbacks.
Settled(r) == callbacks[r] \in {"none", "printed", "logged"}
MainInv ==
    /\ signalled \in BOOLEAN /\ err \in {None, "nil", "canceled", "other"}
    /\ late \subseteq Results
    /\ DOMAIN callbacks = Results
    /\ err = "canceled" => signalled
    /\ err = "nil" => outcome = "scanned"
    /\ err = None => outcome = None
    /\ pc \in {"closeHandles", "closeHandler", "returned"} => err # None
    /\ err = None /\ pc \notin {"scan", "connect"} => \A r \in Results : callbacks[r] = "none"
    /\ err # None => \A r \in Results \ late : Settled(r)
    /\ err # None => pc \in {"returned", "closeHandles", "closeHandler"}
    /\ stage \in {"ports", "timeout", "notify", "connectTimeout"} => err = None
    /\ (stage = "exited" /\ status # Killed /\ err # None) =>
         /\ pc = "returned"
         /\ status = 0 => err = "nil"
         /\ status = 130 => err = "canceled"

\* The configurations that options may make.
Configs ==
    {made \in [Fields -> Int \cup BOOLEAN \cup Seq(Names) \cup {"syn", "connect"}] :
        /\ \A field \in Fields : made[field] \in Values(field)
        /\ made["connectTimeout"] > 0}

\* The options are as they were made, and valid from the first check on.
OptionsInv ==
    /\ config \in Configs
    /\ pc \in Sockets \cup {"interfaces", "open", "scan", "connect"} => ValidOptions
    /\ outcome \in Outcomes \cup {None}

\* ScanNetworks is not reached without ports.
GivenInv ==
    /\ spec \in Specs
    /\ stage \in {"ports", "timeout", "notify", "connectTimeout", "scan", "exited"}
    /\ \/ Parses(Given) /\ ports = Parsed(Given)
       \/ ports = <<>> /\ pc = "check" /\ stage \in {"ports", "exited"}

\* One callback holds the mutex.
PrintInv ==
    /\ callbacks \in [Results -> {"none", "due", "writing", "failing", "printed", "logged"}]
    /\ \A r, q \in Results : callbacks[r] = "writing" /\ callbacks[q] = "writing" => r = q
    /\ status \in {None, Killed, 0, 1, 130}

IInv == SetupInv /\ MainInv /\ OptionsInv /\ GivenInv /\ PrintInv
----------------------------------------------------------------------------
\* What ScanNetworks does, whatever main does.
MovesOn ==
    \/ Proceed \/ RejectContext \/ RejectOther \/ ListInterfaces \/ ListInterfacesFails
    \/ NoHandles \/ StartScan \/ HandlesClosed
    \/ \E result \in {"scanned", "refused"} : EndScan(result) \/ EndConnect(result)
    \/ ParseTargetsFails
SetupNext ==
    \/ MovesOn \/ OpenSocket \/ OpenSocketFails \/ CloseHandler
    \/ OpenStep \/ OpenStepFails \/ KeepHandle \/ CloseHandle
    \/ UNCHANGED setupVars

\* What a step of the program does to ScanNetworks.
LEMMA SetupSplits == [ProgramNext]_programVars => SetupNext
BY DEF ProgramNext, ParsePorts, FailToParse, Prepare, Signal, ScanCall, ExitProgram, Exited,
       Deliver, DeliverLate, Callback, CallbackStep, Lock, Write, WriteFails, Log, BrokenPipe,
       SetUpStep, SetUp, Rejected, SetUpFails, Refused, EndOfScan, ScanEnds, TearDownStep, TearDown,
       SetupNext, MovesOn

\* The options and the interfaces stay as they are, and so does what is made of them.
LEMMA SetupFrame ==
    SetupNext => /\ interfaceNames' = interfaceNames /\ skipIpv6' = skipIpv6
                 /\ Asked' = Asked /\ Captures' = Captures
<1>1. SetupNext => UNCHANGED input
  BY DEF SetupNext, MovesOn, Proceed, RejectContext, RejectOther, Reject, ListInterfaces,
         ListInterfacesFails, NoHandles, StartScan, HandlesClosed, EndScan, EndConnect,
         ParseTargetsFails, OpenSocket, OpenSocketFails, CloseHandler, OpenStep, OpenStepFails,
         KeepHandle, CloseHandle
<1> QED BY <1>1 DEF interfaceNames, skipIpv6, Asked, Captures

\* Where a step that opens and closes nothing leads.
LEMMA Moves ==
    ASSUME MovesOn
    PROVE  /\ UNCHANGED <<sockets, captureVars>>
           /\ \/ pc = "check" /\ pc' \in {"returned", "listener", "connect"}
              \/ pc = "connect" /\ pc' = "returned"
              \/ pc = "interfaces" /\ pc' \in {"open", "closeHandler"}
              \/ pc = "open" /\ k > Len(Asked) /\ handles = <<>> /\ pc' = "closeHandler"
              \/ pc = "open" /\ k > Len(Asked) /\ handles # <<>> /\ pc' = "scan"
              \/ pc = "scan" /\ pc' = "closeHandles"
              \/ pc = "closeHandles" /\ handles = <<>> /\ pc' = "closeHandler"
BY DEF MovesOn, Proceed, RejectContext, RejectOther, Reject, ListInterfaces, ListInterfacesFails,
       NoHandles, StartScan, HandlesClosed, EndScan, EndConnect, ParseTargetsFails, Fail

\* The steps of ScanNetworks keep its types.
LEMMA TypesStep == ASSUME SetupTypes, SocketsInv, FdsInv, SetupNext PROVE SetupTypes'
<1> USE SetupFrame DEF SetupTypes
<1>1. CASE MovesOn
  BY <1>1, Moves DEF Sockets
<1>2. CASE OpenSocket
  BY <1>2 DEF OpenSocket, NextSocket, Sockets, States
<1>3. CASE OpenSocketFails
  BY <1>3 DEF OpenSocketFails, NewFails, Fail, Sockets, States
<1>4. CASE CloseHandler
  BY <1>4 DEF CloseHandler, Sockets, States
<1>5. CASE OpenStep
  <2>1. k \in Captures
    BY <1>5 DEF OpenStep, Captures
  <2>2. step \in 1..6 /\ OpenSteps[step] \in Range(OpenSteps)
    BY <1>5, SMTT(20) DEF OpenStep, OpenSteps, Range
  <2>3. done' \in [Captures -> SUBSET Range(OpenSteps)]
    BY <1>5, <2>1, <2>2 DEF OpenStep
  <2>4. fds' \in [Captures -> States]
    BY <1>5, <2>1 DEF OpenStep, States
  <2>5. step' \in 1..(Len(OpenSteps) + 1)
    BY <1>5, <2>2 DEF OpenStep, OpenSteps
  <2> QED BY <1>5, <2>3, <2>4, <2>5 DEF OpenStep
<1>6. CASE OpenStepFails
  <2>1. k \in Captures
    BY <1>6 DEF OpenStepFails, Captures
  <2>2. Closed(fds[k]) \in States
    BY <1>6, <2>1 DEF OpenStepFails, Closed, FdsInv, States
  <2>3. fds' \in [Captures -> States]
    BY <1>6, <2>1, <2>2 DEF OpenStepFails
  <2>4. k' \in 1..(Len(Asked) + 1) /\ step' \in 1..(Len(OpenSteps) + 1)
    BY <1>6, SMTT(20) DEF OpenStepFails, OpenSteps
  <2>5. pc' \in {"open", "closeHandles"}
    BY <1>6 DEF OpenStepFails, Fail
  <2> QED BY <1>6, <2>3, <2>4, <2>5 DEF OpenStepFails, Kept
<1>7. CASE KeepHandle
  <2>1. k \in Captures
    BY <1>7 DEF KeepHandle, Captures
  <2>2. handles' \in Seq(Captures)
    BY <1>7, <2>1 DEF KeepHandle
  <2>3. k' \in 1..(Len(Asked) + 1) /\ step' \in 1..(Len(OpenSteps) + 1)
    BY <1>7 DEF KeepHandle, OpenSteps
  <2> QED BY <1>7, <2>2, <2>3 DEF KeepHandle
<1>8. CASE CloseHandle
  <2>1. handles # <<>> /\ Head(handles) \in Captures /\ Tail(handles) \in Seq(Captures)
        /\ Head(handles) = handles[1] /\ 1 \in Handles
    BY <1>8 DEF CloseHandle, Handles
  <2>2. fds[Head(handles)] = "open"
    BY <1>8, <2>1 DEF CloseHandle, FdsInv, HasHandle
  <2> QED BY <1>8, <2>1, <2>2 DEF CloseHandle, Closed, States
<1>9. CASE UNCHANGED setupVars
  BY <1>9
<1> QED BY <1>1, <1>2, <1>3, <1>4, <1>5, <1>6, <1>7, <1>8, <1>9 DEF SetupNext

\* The listener and the raw sockets are opened in order, and closed last.
LEMMA SocketsStep == ASSUME SetupTypes, SocketsInv, SetupNext PROVE SocketsInv'
<1> USE SetupFrame DEF SetupTypes, SocketsInv, Sockets, States
<1>1. CASE MovesOn
  BY <1>1, Moves
<1>2. CASE OpenSocket
  BY <1>2 DEF OpenSocket, NextSocket
<1>3. CASE OpenSocketFails
  BY <1>3 DEF OpenSocketFails, NewFails, Fail
<1>4. CASE CloseHandler
  BY <1>4 DEF CloseHandler
<1>5. CASE OpenStep \/ OpenStepFails \/ KeepHandle \/ CloseHandle
  BY <1>5 DEF OpenStep, OpenStepFails, KeepHandle, CloseHandle, Fail
<1>6. CASE UNCHANGED setupVars
  BY <1>6
<1> QED BY <1>1, <1>2, <1>3, <1>4, <1>5, <1>6 DEF SetupNext

\* A packet socket is open while it is being opened or has a handle.
LEMMA FdsStep == ASSUME SetupTypes, FdsInv, SetupNext PROVE FdsInv'
<1> USE SetupFrame DEF SetupTypes, FdsInv, HasHandle, Handles, Captures, Sockets, States
<1>1. CASE MovesOn
  <2>1. /\ UNCHANGED <<handles, fds, done, k, step>>
        /\ UNCHANGED <<Handles, Captures>> /\ \A i \in Captures : HasHandle(i)' <=> HasHandle(i)
    BY <1>1, Moves DEF captureVars
  <2>2. CASE pc' \in {"listener", "connect", "raw4", "raw6", "interfaces", "check"}
    BY <1>1, <2>1, <2>2, Moves
  <2>3. CASE pc' \in {"scan", "closeHandles"}
    BY <1>1, <2>1, <2>3, Moves
  <2>4. CASE pc' = "open"
    BY <1>1, <2>1, <2>4, Moves
  <2>5. CASE pc' \in {"closeHandler", "returned"}
    BY <1>1, <2>1, <2>5, Moves
  <2> QED BY <1>1, <2>2, <2>3, <2>4, <2>5, Moves
<1>2. CASE OpenSocket
  BY <1>2 DEF OpenSocket, NextSocket
<1>3. CASE OpenSocketFails
  BY <1>3 DEF OpenSocketFails, NewFails, Fail
<1>4. CASE CloseHandler
  BY <1>4 DEF CloseHandler
<1>5. CASE OpenStep
  <2>1. OpenSteps[step] = "socket" <=> step = 2
    BY <1>5 DEF OpenStep, OpenSteps
  <2> QED BY <1>5, <2>1 DEF OpenStep
<1>6. CASE OpenStepFails
  <2>1. fds' = [fds EXCEPT ![k] = Closed(@)] /\ fds'[k] # "open" /\ k \in Captures
    BY <1>6 DEF OpenStepFails, Closed
  <2>2. ~HasHandle(k)
    BY <1>6 DEF OpenStepFails
  <2>3. CASE MustOpen
    BY <1>6, <2>1, <2>2, <2>3 DEF OpenStepFails, Kept, Fail
  <2>4. CASE ~MustOpen
    BY <1>6, <2>1, <2>2, <2>4 DEF OpenStepFails, Kept, Fail
  <2> QED BY <2>3, <2>4
<1>7. CASE KeepHandle
  <2>1. /\ pc = "open" /\ pc' = "open" /\ k' = k + 1 /\ step' = 1 /\ fds' = fds /\ k \in Captures
        /\ Len(handles') = Len(handles) + 1
        /\ \A a \in Handles : handles'[a] = handles[a]
        /\ handles'[Len(handles) + 1] = k
        /\ fds[k] = "open"
    BY <1>7 DEF KeepHandle, OpenSteps
  <2>2. Len(handles) \in Nat /\ \A a \in Handles' : a \in Handles \/ a = Len(handles) + 1
    BY <2>1
  <2>b. /\ Len(handles) + 1 \in Handles'
        /\ \A a \in Handles : a \in Handles'
    BY ONLY <2>1, <2>2, Len(handles') = Len(handles) + 1
  <2>3. \A i \in Captures : (HasHandle(i))' <=> HasHandle(i) \/ i = k
    <3> SUFFICES ASSUME NEW i \in Captures PROVE (HasHandle(i))' <=> HasHandle(i) \/ i = k
      OBVIOUS
    <3>1. HasHandle(i) => (HasHandle(i))'
      BY ONLY <2>1, <2>b DEF HasHandle
    <3>2. i = k => (HasHandle(i))'
      BY ONLY <2>1, <2>b DEF HasHandle
    <3>3. (HasHandle(i))' => HasHandle(i) \/ i = k
      BY ONLY <2>1, <2>2 DEF HasHandle
    <3> QED BY <3>1, <3>2, <3>3
  <2>a. /\ \A a \in Handles : handles[a] \in Nat /\ handles[a] < k
        /\ \A a, b \in Handles : a < b => handles[a] < handles[b]
    BY <2>1
  <2>4. \A a \in Handles' : handles'[a] < k + 1
    BY ONLY <2>1, <2>2, <2>a, k \in Nat
  <2>5. \A a, b \in Handles' : a < b => handles'[a] < handles'[b]
    <3> SUFFICES ASSUME NEW a \in Handles', NEW b \in Handles', a < b
                 PROVE  handles'[a] < handles'[b]
      OBVIOUS
    <3>1. a \in Handles
      BY <2>1, <2>2
    <3>2. CASE b \in Handles
      BY ONLY <2>1, <2>a, <3>1, <3>2, a < b
    <3>3. CASE b = Len(handles) + 1
      BY ONLY <2>1, <2>a, <3>1, <3>3
    <3> QED BY <2>2, <3>2, <3>3
  <2>6. \A i \in Captures : /\ i < k' => (fds'[i] = "open" <=> (HasHandle(i))')
                            /\ i >= k' => fds'[i] = "unopened"
    <3> HIDE DEF HasHandle
    <3> QED BY <2>1, <2>3, SMTT(20)
  <2> HIDE DEF HasHandle
  <2> QED BY <2>1, <2>4, <2>5, <2>6
<1>8. CASE CloseHandle
  <2>1. /\ pc = "closeHandles" /\ pc' = "closeHandles" /\ handles # <<>>
        /\ fds' = [fds EXCEPT ![handles[1]] = Closed(@)] /\ handles[1] \in Captures
        /\ Len(handles) >= 1 /\ Len(handles') = Len(handles) - 1
        /\ \A a \in 1..(Len(handles) - 1) : handles'[a] = handles[a + 1]
    BY <1>8 DEF CloseHandle
  <2>2. fds'[handles[1]] # "open"
    BY <2>1 DEF Closed
  <2>3. Len(handles) \in Nat /\ 1 \in Handles
        /\ \A a \in Handles' : a + 1 \in Handles /\ handles'[a] = handles[a + 1]
    BY <2>1
  <2>4. \A i \in Captures : (HasHandle(i))' <=> HasHandle(i) /\ i # handles[1]
    <3> SUFFICES ASSUME NEW i \in Captures PROVE (HasHandle(i))' <=> HasHandle(i) /\ i # handles[1]
      OBVIOUS
    <3>1. ASSUME NEW a \in Handles', handles'[a] = i PROVE HasHandle(i) /\ i # handles[1]
      <4>1. a \in Nat /\ a + 1 \in Handles /\ handles[a + 1] = i /\ 1 < a + 1
        BY <2>3, <3>1, SMTT(20)
      <4>2. handles[1] < handles[a + 1] /\ handles[1] \in Nat
        BY <2>3, <4>1, SMTT(20)
      <4>3. i # handles[1]
        BY ONLY <4>1, <4>2
      <4>4. HasHandle(i)
        BY ONLY <4>1 DEF HasHandle
      <4> QED BY <4>3, <4>4
    <3>2. ASSUME NEW a \in Handles, handles[a] = i, i # handles[1] PROVE (HasHandle(i))'
      <4>0. a # 1
        BY ONLY <3>2
      <4>1. a - 1 \in Handles' /\ handles'[a - 1] = i
        <5>1. a \in Handles
          OBVIOUS
        <5>2. PICK b \in Nat : b = a - 1
          BY <5>1
        <5>3. b \in Handles' /\ b + 1 = a
          BY ONLY <2>1, <2>3, <4>0, <5>1, <5>2
        <5>4. handles'[b] = handles[b + 1]
          BY ONLY <2>3, <5>3
        <5> QED BY ONLY <3>2, <5>2, <5>3, <5>4
      <4> QED BY ONLY <4>1 DEF HasHandle
    <3> QED BY <3>1, <3>2
  <2>5. \A a, b \in Handles' : a < b => handles'[a] < handles'[b]
    BY <2>3
  <2> HIDE DEF HasHandle
  <2> QED BY <2>1, <2>2, <2>4, <2>5
<1>9. CASE UNCHANGED setupVars
  BY <1>9
<1> QED BY <1>1, <1>2, <1>3, <1>4, <1>5, <1>6, <1>7, <1>8, <1>9 DEF SetupNext

\* The steps of OpenCaptureHandle are done in order, all of them for a handle that is kept.
LEMMA DoneStep == ASSUME SetupTypes, FdsInv, DoneInv, SetupNext PROVE DoneInv'
<1>0. Captures' = Captures
  BY SetupFrame
\* What there is to show of a step.
<1>a. ASSUME pc' = "open" => \A i \in Captures : /\ i = k' => done'[i] = Before(step')
                                                 /\ i > k' => done'[i] = {},
             \A a \in Handles' : done'[handles'[a]] = Range(OpenSteps),
             \A i \in Captures : "bind" \in done'[i] => "filter" \in done'[i]
      PROVE  DoneInv'
  BY ONLY <1>0, <1>a DEF DoneInv, FilteredWhenBound, Before
<1> USE SetupFrame DEF SetupTypes, DoneInv, FilteredWhenBound, Handles, Captures, Sockets
<1>1. CASE MovesOn
  <2>1. CASE pc' = "open"
    BY <1>1, <2>1, Moves DEF FdsInv, Before, OpenSteps
  <2>2. CASE pc' # "open"
    BY <1>1, <2>2, Moves
  <2> QED BY <2>1, <2>2
<1>2. CASE OpenSocket
  BY <1>2 DEF OpenSocket, NextSocket
<1>3. CASE OpenSocketFails
  BY <1>3 DEF OpenSocketFails, NewFails, Fail
<1>4. CASE CloseHandler
  BY <1>4 DEF CloseHandler
<1>5. CASE OpenStep
  <2>1. /\ k \in Captures /\ step \in 1..6 /\ pc = "open" /\ pc' = "open" /\ k' = k
        /\ step' = step + 1 /\ handles' = handles
        /\ done' = [done EXCEPT ![k] = @ \cup {OpenSteps[step]}]
    BY <1>5 DEF OpenStep, OpenSteps
  <2>2. done[k] = Before(step) /\ done'[k] = Before(step)  \cup {OpenSteps[step]}
    BY <2>1
  <2>3. done'[k] = Before(step + 1)
    BY <2>1, <2>2 DEF Before
  <2>4. "bind" \in Before(step + 1) => "filter" \in Before(step + 1)
    BY <2>1 DEF Before, OpenSteps
  <2>5. \A i \in Captures : i # k => done'[i] = done[i]
    BY <2>1
  <2>6. \A a \in Handles : handles[a] # k /\ handles[a] \in Captures
    BY <2>1 DEF FdsInv
  <2>7. \A a \in Handles : done'[handles[a]] = Range(OpenSteps)
    BY <2>5, <2>6
  <2>8. \A i \in Captures : "bind" \in done'[i] => "filter" \in done'[i]
    BY <2>3, <2>4, <2>5
  <2>9. \A i \in Captures : /\ i = k' => done'[i] = Before(step')
                            /\ i > k' => done'[i] = {}
    <3>1. k \in Nat /\ \A i \in Captures : i \in Nat /\ (i > k => done[i] = {})
      BY <2>1
    <3>2. \A i \in Captures : i > k => done'[i] = {}
      BY ONLY <2>5, <3>1
    <3> QED BY ONLY <2>1, <2>3, <3>2
  <2>10. \A a \in Handles' : done'[handles'[a]] = Range(OpenSteps)
    BY <2>1, <2>7
  <2> QED BY ONLY <1>a, <2>8, <2>9, <2>10
<1>6. CASE OpenStepFails
  <2>1. Before(1) = {}
    BY DEF Before
  <2>2. /\ done' = done /\ handles' = handles
        /\ pc' = "open" => k' = k + 1 /\ step' = 1
        /\ pc = "open" /\ k \in Nat
    BY <1>6 DEF OpenStepFails, Kept, Fail
  <2>3. pc' = "open" => \A i \in Captures : /\ i = k' => done'[i] = Before(step')
                                            /\ i > k' => done'[i] = {}
    <3> SUFFICES ASSUME pc' = "open", NEW i \in Captures
                 PROVE  /\ i = k' => done'[i] = Before(step')
                        /\ i > k' => done'[i] = {}
      OBVIOUS
    <3>1. k' = k + 1 /\ step' = 1 /\ done' = done /\ k \in Nat /\ i \in Nat
      BY <2>2
    <3>2. i > k => done[i] = {}
      BY <2>2
    <3>3. i >= k' => i > k
      BY ONLY <3>1
    <3>4. Before(step') = {}
      BY ONLY <2>1, <3>1
    <3>5. i = k' => done'[i] = {}
      BY ONLY <3>1, <3>2, <3>3
    <3>6. i > k' => done'[i] = {}
      BY ONLY <3>1, <3>2, <3>3
    <3> QED BY ONLY <3>4, <3>5, <3>6
  <2>4. /\ \A a \in Handles' : done'[handles'[a]] = Range(OpenSteps)
        /\ \A i \in Captures : "bind" \in done'[i] => "filter" \in done'[i]
    BY <2>2
  <2> QED BY ONLY <1>a, <2>3, <2>4
<1>7. CASE KeepHandle
  <2>1. /\ pc = "open" /\ pc' = "open" /\ k' = k + 1 /\ step' = 1 /\ done' = done
        /\ k \in Captures /\ step = 7
        /\ Len(handles') = Len(handles) + 1 /\ handles' \in Seq(Captures)
        /\ \A a \in Handles : handles'[a] = handles[a]
        /\ handles'[Len(handles) + 1] = k
    BY <1>7 DEF KeepHandle, OpenSteps
  <2>2. \A a \in Handles' : a \in Handles \/ a = Len(handles) + 1
    BY <2>1
  <2>3. Before(7) = Range(OpenSteps) /\ Before(1) = {}
    BY DEF Before, OpenSteps, Range
  <2>4. \A a \in Handles' : done'[handles'[a]] = Range(OpenSteps)
    BY <2>1, <2>2, <2>3
  <2>5. \A i \in Captures : /\ i = k' => done'[i] = Before(step')
                            /\ i > k' => done'[i] = {}
    <3> SUFFICES ASSUME NEW i \in Captures
                 PROVE  /\ i = k' => done'[i] = Before(step')
                        /\ i > k' => done'[i] = {}
      OBVIOUS
    <3>1. k' = k + 1 /\ step' = 1 /\ done' = done /\ k \in Nat /\ i \in Nat
      BY <2>1
    <3>2. i > k => done[i] = {}
      BY <2>1
    <3>3. i >= k' => i > k
      BY ONLY <3>1
    <3>4. Before(step') = {}
      BY ONLY <2>3, <3>1
    <3>5. i = k' => done'[i] = {}
      BY ONLY <3>1, <3>2, <3>3
    <3>6. i > k' => done'[i] = {}
      BY ONLY <3>1, <3>2, <3>3
    <3> QED BY ONLY <3>4, <3>5, <3>6
  <2>6. \A i \in Captures : "bind" \in done'[i] => "filter" \in done'[i]
    BY <2>1
  <2> QED BY ONLY <1>a, <2>4, <2>5, <2>6
<1>8. CASE CloseHandle
  <2>1. /\ pc' = "closeHandles" /\ done' = done
        /\ \A a \in Handles' : a + 1 \in Handles /\ handles'[a] = handles[a + 1]
    BY <1>8 DEF CloseHandle
  <2>2. \A a \in Handles' : done'[handles'[a]] = Range(OpenSteps)
    <3> HIDE DEF Handles, Captures
    <3> QED BY <2>1
  <2>3. pc' # "open" /\ \A i \in Captures : "bind" \in done'[i] => "filter" \in done'[i]
    BY <2>1
  <2> QED BY ONLY <1>a, <2>2, <2>3
<1>9. CASE UNCHANGED setupVars
  BY <1>9
<1> QED BY <1>1, <1>2, <1>3, <1>4, <1>5, <1>6, <1>7, <1>8, <1>9 DEF SetupNext

\* Of named interfaces none is left out.
LEMMA NamedStep == ASSUME SetupTypes, FdsInv, NamedInv, SetupNext PROVE NamedInv'
<1> USE SetupFrame DEF SetupTypes, NamedInv, Handles, Captures, Sockets
<1>1. CASE MovesOn
  <2>1. CASE pc' = "open"
    BY <1>1, <2>1, Moves DEF FdsInv
  <2>2. CASE pc' # "open"
    BY <1>1, <2>2, Moves
  <2> QED BY <2>1, <2>2
<1>2. CASE OpenSocket
  BY <1>2 DEF OpenSocket, NextSocket
<1>3. CASE OpenSocketFails
  BY <1>3 DEF OpenSocketFails, NewFails, Fail
<1>4. CASE CloseHandler
  BY <1>4 DEF CloseHandler
<1>5. CASE OpenStep
  BY <1>5 DEF OpenStep
<1>6. CASE OpenStepFails
  BY <1>6 DEF OpenStepFails, Kept, Fail, MustOpen
<1>7. CASE KeepHandle
  <2>1. /\ pc = "open" /\ pc' = "open" /\ k' = k + 1 /\ k \in Nat
        /\ Len(handles') = Len(handles) + 1 /\ Len(handles) \in Nat
        /\ \A a \in Handles : handles'[a] = handles[a]
        /\ handles'[Len(handles) + 1] = k
    BY <1>7 DEF KeepHandle, OpenSteps
  <2>2. \A a \in Handles' : a \in Handles \/ a = Len(handles) + 1
    BY <2>1
  <2> QED BY <2>1, <2>2
<1>8. CASE CloseHandle
  BY <1>8 DEF CloseHandle
<1>9. CASE UNCHANGED setupVars
  BY <1>9
<1> QED BY <1>1, <1>2, <1>3, <1>4, <1>5, <1>6, <1>7, <1>8, <1>9 DEF SetupNext

----------------------------------------------------------------------------
\* What Scan returns is settled when it returns it, and the status when main exits.
LEMMA MainStep == ASSUME SetupTypes, MainInv, [ProgramNext]_programVars PROVE MainInv'
<1> USE ProgramParameters, Parameters DEF MainInv, Settled, Outcomes
<1>1. CASE ParsePorts
  BY <1>1 DEF ParsePorts
<1>2. CASE FailToParse
  BY <1>2 DEF FailToParse, Exit
<1>3. CASE Prepare
  BY <1>3 DEF Prepare, After
<1>4. CASE Signal
  BY <1>4 DEF Signal, Exit
<1>5. CASE ParseTargetsFails
  BY <1>5 DEF ParseTargetsFails, InScan, Errs
<1>6. CASE SetUpStep
  <2>1. CASE Proceed \/ OpenSocket \/ ListInterfaces \/ OpenStep \/ KeepHandle \/ StartScan
    <3>1. /\ UNCHANGED outcome /\ pc \notin {"scan", "connect"}
          /\ pc' \notin {"closeHandles", "closeHandler", "returned"}
      BY <2>1 DEF Proceed, OpenSocket, NextSocket, ListInterfaces, OpenStep, KeepHandle, StartScan,
                  Sockets
    <3> QED BY <1>6, <3>1 DEF SetUpStep, InScan
  <2>2. CASE OpenStepFails
    <3>1. /\ pc = "open" /\ pc' \in {"open", "closeHandles"}
          /\ \/ outcome' = outcome /\ pc' = "open"
             \/ outcome' = "captures" /\ pc' = "closeHandles"
      BY <2>2 DEF OpenStepFails, Fail
    <3> QED BY <1>6, <3>1 DEF SetUpStep, InScan, Errs
  <2> QED BY <1>6, <2>1, <2>2 DEF SetUpStep, SetUp
<1>7. CASE Rejected
  BY <1>7 DEF Rejected, RejectContext, RejectOther, Reject, Fail, InScan, Errs
<1>8. CASE SetUpFails
  BY <1>8 DEF SetUpFails, OpenSocketFails, ListInterfacesFails, NoHandles, NewFails, Fail, InScan,
              Errs, Sockets
<1>9. CASE Refused
  BY <1>9 DEF Refused, EndOfScan, EndScan, EndConnect, Fail, InScan, Errs
<1>10. CASE ScanEnds
  BY <1>10 DEF ScanEnds, EndOfScan, EndScan, EndConnect, Fail, InScan, Awaited, Errs
<1>11. CASE TearDownStep
  BY <1>11 DEF TearDownStep, TearDown, CloseHandle, HandlesClosed, CloseHandler
<1>12. CASE ExitProgram
  BY <1>12 DEF ExitProgram, ExitStatus, Exit
<1>13. CASE Exited \/ UNCHANGED programVars
  BY <1>13 DEF Exited
<1>14. CASE \E r \in Results : Deliver(r)
  BY <1>14 DEF Deliver, InScan
<1>15. CASE \E r \in Results : DeliverLate(r)
  BY <1>15 DEF DeliverLate
<1>16. CASE \E r \in Results : Callback(r)
  BY <1>16 DEF Callback, Lock, Write, WriteFails, Log, BrokenPipe, CallbackStep, Exit
<1> QED BY <1>1, <1>2, <1>3, <1>4, <1>5, <1>6, <1>7, <1>8, <1>9, <1>10, <1>11, <1>12, <1>13, <1>14,
           <1>15, <1>16 DEF ProgramNext, ScanCall

\* Nothing gets past the first check of ScanNetworks but valid options.
LEMMA OptionsStep == ASSUME SetupTypes, OptionsInv, SetupNext PROVE OptionsInv'
<1>1. config' = config /\ (ValidOptions' <=> ValidOptions)
  <2>1. UNCHANGED input
    BY DEF SetupNext, MovesOn, Proceed, RejectContext, RejectOther, Reject, ListInterfaces,
           ListInterfacesFails, NoHandles, StartScan, HandlesClosed, EndScan, EndConnect,
           ParseTargetsFails, OpenSocket, OpenSocketFails, CloseHandler, OpenStep, OpenStepFails,
           KeepHandle, CloseHandle
  <2> QED BY <2>1 DEF ValidOptions
<1> USE DEF OptionsInv, Sockets, Outcomes
<1>2. CASE MovesOn
  BY <1>1, <1>2 DEF MovesOn, Proceed, RejectContext, RejectOther, Reject, ListInterfaces,
         ListInterfacesFails, NoHandles, StartScan, HandlesClosed, EndScan, EndConnect,
         ParseTargetsFails, Fail
<1>3. CASE OpenSocket \/ OpenSocketFails \/ CloseHandler
  BY <1>1, <1>3 DEF OpenSocket, NextSocket, OpenSocketFails, NewFails, Fail, CloseHandler
<1>4. CASE OpenStep \/ OpenStepFails \/ KeepHandle \/ CloseHandle
  BY <1>1, <1>4 DEF OpenStep, OpenStepFails, Fail, KeepHandle, CloseHandle
<1>5. CASE UNCHANGED setupVars
  BY <1>1, <1>5
<1> QED BY <1>2, <1>3, <1>4, <1>5 DEF SetupNext

\* main parses the ports before anything, and keeps them.
LEMMA GivenStep == ASSUME SetupTypes, MainInv, GivenInv, [ProgramNext]_programVars PROVE GivenInv'
<1>1. UNCHANGED <<pc, stage, spec, ports>> => GivenInv'
  BY DEF GivenInv, Given
<1>2. CASE ParsePorts
  <2>1. spec' = spec /\ Given' = Given /\ pc' = pc /\ stage' = "timeout"
    BY <1>2 DEF ParsePorts, Given
  <2> QED BY <1>2, <2>1 DEF ParsePorts, GivenInv
<1>3. ASSUME UNCHANGED <<pc, spec, ports>>, stage' = "exited" PROVE GivenInv'
  BY <1>3 DEF GivenInv, Given
<1>4. CASE FailToParse \/ ExitProgram \/ \E r \in Results : BrokenPipe(r)
  BY <1>3, <1>4 DEF FailToParse, ExitProgram, BrokenPipe, Exit
<1>5. CASE Signal
  BY <1>1, <1>3, <1>5 DEF Signal, Exit
<1>6. CASE Prepare
  <2>1. /\ UNCHANGED <<pc, spec, ports>> /\ Given' = Given
        /\ stage \notin {"ports", "exited"} /\ stage' \in {"notify", "connectTimeout", "scan"}
    BY <1>6 DEF Prepare, After, Given
  <2> QED BY <2>1 DEF GivenInv
<1>7. ASSUME stage = "scan", UNCHANGED <<stage, spec, ports>> PROVE GivenInv'
  BY <1>7 DEF GivenInv, Given
<1>8. CASE ScanCall
  <2>1. stage = "scan" /\ UNCHANGED <<stage, spec, ports>>
    BY <1>8 DEF ScanCall, ParseTargetsFails, SetUpStep, Rejected, SetUpFails, Refused, ScanEnds,
                TearDownStep, InScan, Errs
  <2> QED BY <1>7, <2>1
<1>9. CASE \E r \in Results : Deliver(r) \/ DeliverLate(r) \/ Lock(r) \/ Write(r) \/ WriteFails(r) \/ Log(r)
  BY <1>1, <1>9 DEF Deliver, DeliverLate, Lock, Write, WriteFails, Log, CallbackStep
<1>10. CASE Exited \/ UNCHANGED programVars
  BY <1>1, <1>10 DEF Exited
<1> QED BY <1>2, <1>4, <1>5, <1>6, <1>8, <1>9, <1>10 DEF ProgramNext, Callback

\* Whoever writes has taken the mutex from nobody.
LEMMA PrintStep == ASSUME MainInv, PrintInv, [ProgramNext]_programVars PROVE PrintInv'
<1>1. UNCHANGED <<callbacks, status>> => PrintInv'
  BY DEF PrintInv
<1>2. ASSUME NEW r \in Results, NEW to \in {"due", "failing", "printed", "logged"},
             callbacks' = [callbacks EXCEPT ![r] = to], UNCHANGED status
      PROVE  PrintInv'
  BY <1>2 DEF PrintInv
<1>3. ASSUME NEW r \in Results, Lock(r) PROVE PrintInv'
  BY <1>3 DEF Lock, Unlocked, CallbackStep, PrintInv
<1>4. ASSUME NEW r \in Results, Deliver(r) \/ DeliverLate(r) \/ Write(r) \/ WriteFails(r) \/ Log(r)
      PROVE  PrintInv'
  BY <1>2, <1>4 DEF Deliver, DeliverLate, Write, WriteFails, Log, CallbackStep
<1>5. ASSUME UNCHANGED callbacks, status' \in {None, Killed, 0, 1, 130} PROVE PrintInv'
  BY <1>5 DEF PrintInv
<1>6. CASE FailToParse \/ \E r \in Results : BrokenPipe(r)
  BY <1>5, <1>6 DEF FailToParse, BrokenPipe, Exit
<1>7. CASE Signal
  BY <1>1, <1>5, <1>7 DEF Signal, Exit
<1>8. CASE ExitProgram
  <2>1. err \in {"nil", "canceled", "other"}
    BY <1>8 DEF ExitProgram, MainInv
  <2> QED BY <1>5, <1>8, <2>1 DEF ExitProgram, Exit, ExitStatus
<1>9. CASE ParsePorts \/ Prepare \/ ScanCall \/ Exited \/ UNCHANGED programVars
  BY <1>1, <1>9 DEF ParsePorts, Prepare, Exited, ScanCall, ParseTargetsFails, SetUpStep, Rejected,
         SetUpFails, Refused, ScanEnds, TearDownStep, Errs
<1> QED BY <1>3, <1>4, <1>6, <1>7, <1>8, <1>9 DEF ProgramNext, Callback

----------------------------------------------------------------------------
\* What is computed by recursion: the options that are applied in order, and the ports of a
\* specification.

\* What holds of 0 and passes from each number to the next holds up to n: else there is a least
\* number of which it does not.
LEMMA Reaches ==
    ASSUME NEW n \in Nat, NEW K, 0 \in K, \A m \in 0..(n - 1) : m \in K => m + 1 \in K
    PROVE  \A m \in 0..n : m \in K
<1> SUFFICES ASSUME (0..n) \ K # {} PROVE FALSE
  OBVIOUS
<1> DEFINE R == OpToRel(<, Nat)
<1>1. \A x, y \in Nat : y < x => <<y, x>> \in R
  BY DEF OpToRel
<1>2. IsWellFoundedOn(R, Nat)
  BY NatLessThanWellFounded
<1> HIDE DEF R
<1>3. (0..n) \ K \subseteq Nat
  OBVIOUS
<1>4. PICK x \in (0..n) \ K : \A y \in (0..n) \ K : ~(<<y, x>> \in R)
  BY <1>2, <1>3, WFMin
<1>5. x - 1 \in 0..(n - 1) /\ x - 1 \in Nat /\ x - 1 < x
  BY <1>4
<1>6. x - 1 \in K
  <2>1. x \in Nat /\ x - 1 \in 0..n
    BY <1>4, <1>5
  <2>2. <<x - 1, x>> \in R
    BY <1>1, <1>5, <2>1
  <2> QED BY <1>4, <2>1, <2>2
<1>7. (x - 1) + 1 \in K
  BY <1>5, <1>6
<1> QED BY <1>4, <1>7

\* f iterates G from base.
IsIterated(f, L, S, base, G) ==
    f \in [0..L -> S] /\ f[0] = base /\ \A n \in 1..L : f[n] = G[<<n, f[n - 1]>>]

\* A function defined by recursion on 0..L exists.
LEMMA Recursion ==
    ASSUME NEW L \in Nat, NEW S, NEW base \in S, NEW G \in [(1..L) \X S -> S]
    PROVE  \E f : IsIterated(f, L, S, base, G)
<1> DEFINE Upto(m, f) == f = [n \in 0..m |-> IF n = 0 THEN base ELSE G[<<n, f[n - 1]>>]]
           K == {m \in 0..L : \E f \in [0..m -> S] : Upto(m, f)}
<1>1. 0 \in K
  <2> DEFINE f == [n \in 0..0 |-> base]
  <2>1. f \in [0..0 -> S] /\ Upto(0, f)
    OBVIOUS
  <2> HIDE DEF f, Upto
  <2> QED BY <2>1
<1>2. ASSUME NEW m \in 0..(L - 1), m \in K PROVE m + 1 \in K
  <2>1. PICK f \in [0..m -> S] : Upto(m, f)
    BY <1>2
  <2> DEFINE g == [n \in 0..(m + 1) |-> IF n = m + 1 THEN G[<<m + 1, f[m]>>] ELSE f[n]]
  <2>2. m \in 0..m /\ m + 1 \in 1..L /\ <<m + 1, f[m]>> \in (1..L) \X S
    OBVIOUS
  <2>3. g \in [0..(m + 1) -> S]
    <3>1. G[<<m + 1, f[m]>>] \in S
      BY <2>2
    <3>2. \A n \in 0..(m + 1) : n # m + 1 => n \in 0..m
      OBVIOUS
    <3> QED BY <3>1, <3>2
  <2>4. ASSUME NEW n \in 0..(m + 1) PROVE g[n] = IF n = 0 THEN base ELSE G[<<n, g[n - 1]>>]
    <3>1. CASE n = m + 1
      <4>1. n # 0 /\ n - 1 = m /\ g[m] = f[m] /\ g[n] = G[<<m + 1, f[m]>>]
        BY <3>1
      <4> QED BY <3>1, <4>1
    <3>2. CASE n # m + 1
      <4>1. n \in 0..m /\ g[n] = f[n]
        BY <3>2
      <4>2. f[n] = IF n = 0 THEN base ELSE G[<<n, f[n - 1]>>]
        BY <2>1, <4>1
      <4>3. n # 0 => n - 1 \in 0..(m + 1) /\ n - 1 # m + 1
        BY <4>1
      <4>4. n # 0 => g[n - 1] = f[n - 1]
        BY <4>3
      <4> QED BY <4>1, <4>2, <4>4
    <3> QED BY <3>1, <3>2
  <2>5. Upto(m + 1, g)
    <3> DEFINE h == [n \in 0..(m + 1) |-> IF n = 0 THEN base ELSE G[<<n, g[n - 1]>>]]
    <3>1. \A n \in 0..(m + 1) : g[n] = h[n]
      BY <2>4
    <3>2. g = [n \in 0..(m + 1) |-> g[n]] /\ h = [n \in 0..(m + 1) |-> h[n]]
      OBVIOUS
    <3> HIDE DEF g, h
    <3>3. g = h
      BY <3>1, <3>2
    <3> QED BY <3>3 DEF h
  <2>6. m + 1 \in 0..L
    BY <2>2
  <2> HIDE DEF g, Upto
  <2> QED BY <2>3, <2>5, <2>6
<1>3. L \in K
  <2> HIDE DEF K
  <2>1. \A m \in 0..L : m \in K
    BY <1>1, <1>2, Reaches
  <2> QED BY <2>1
<1>4. PICK f \in [0..L -> S] : Upto(L, f)
  BY <1>3
<1>5. f[0] = base
  BY <1>4
<1>6. ASSUME NEW n \in 1..L PROVE f[n] = G[<<n, f[n - 1]>>]
  <2>1. n \in 0..L /\ n # 0
    OBVIOUS
  <2> QED BY <1>4, <2>1
<1> HIDE DEF Upto, K
<1> QED BY <1>5, <1>6 DEF IsIterated

\* A function on 1..n is a sequence of n elements.
LEMMA FunctionIsSeq ==
    ASSUME NEW T, NEW n \in Nat, NEW f \in [1..n -> T]
    PROVE  f \in Seq(T) /\ Len(f) = n /\ DOMAIN f = 1..n
<1>1. f \in Seq(T)
  BY SeqDef
<1>2. Len(f) \in Nat /\ DOMAIN f = 1..Len(f)
  BY <1>1, LenProperties
<1>3. 1..n = 1..Len(f)
  BY <1>2
<1>4. n =< Len(f) /\ Len(f) =< n
  BY <1>2, <1>3
<1> QED BY <1>1, <1>2, <1>4

\* What is in a concatenation is in one of its parts.
LEMMA RangeOfConcat ==
    ASSUME NEW T, NEW s \in Seq(T), NEW t \in Seq(T)
    PROVE  s \o t \in Seq(T) /\ Range(s \o t) = Range(s) \cup Range(t)
<1> DEFINE u == s \o t  m == Len(s)  n == Len(t)
<1>1. /\ u \in Seq(T) /\ Len(u) = m + n
      /\ \A x \in 1..(m + n) : u[x] = IF x =< m THEN s[x] ELSE t[x - m]
  BY ConcatProperties
<1>2. m \in Nat /\ n \in Nat /\ DOMAIN s = 1..m /\ DOMAIN t = 1..n /\ DOMAIN u = 1..(m + n)
  BY <1>1, LenProperties
<1> HIDE DEF u, m, n
<1>3. ASSUME NEW y \in Range(u) PROVE y \in Range(s) \cup Range(t)
  <2>1. PICK x \in 1..(m + n) : y = u[x]
    BY <1>2 DEF Range
  <2>2. CASE x =< m
    <3>1. x \in DOMAIN s /\ y = s[x]
      BY <1>1, <1>2, <2>1, <2>2
    <3> QED BY <3>1 DEF Range
  <2>3. CASE ~(x =< m)
    <3>1. x - m \in DOMAIN t /\ y = t[x - m]
      BY <1>1, <1>2, <2>1, <2>3
    <3> QED BY <3>1 DEF Range
  <2> QED BY <2>2, <2>3
<1>4. ASSUME NEW y \in Range(s) PROVE y \in Range(u)
  <2>1. PICK x \in 1..m : y = s[x]
    BY <1>2 DEF Range
  <2>2. x \in 1..(m + n) /\ u[x] = y
    BY <1>1, <1>2, <2>1
  <2> QED BY <1>2, <2>2 DEF Range
<1>5. ASSUME NEW y \in Range(t) PROVE y \in Range(u)
  <2>1. PICK x \in 1..n : y = t[x]
    BY <1>2 DEF Range
  <2>2. x + m \in 1..(m + n) /\ ~(x + m =< m) /\ (x + m) - m = x
    BY <1>2, <2>1
  <2>3. u[x + m] = y
    BY <1>1, <2>1, <2>2
  <2> QED BY <1>2, <2>2, <2>3 DEF Range
<1> QED BY <1>1, <1>3, <1>4, <1>5 DEF u

\* An entry of a specification names the ports from its first to its last.
LEMMA PortsOfEntry ==
    ASSUME NEW entry, IsEntry(entry), entry # None
    PROVE  Through(entry) \in Seq(1..maxPort) /\ Range(Through(entry)) = entry.first..End(entry)
<1> DEFINE f == entry.first  e == End(entry)
<1>1. f \in 1..maxPort /\ e \in 1..maxPort /\ f =< e /\ maxPort \in Nat
  BY ProgramParameters DEF IsEntry, IsPort
<1>2. Through(entry) = [x \in 1..(e - f + 1) |-> f + x - 1]
  BY DEF Through
<1> HIDE DEF f, e
<1>3. e - f + 1 \in Nat /\ \A x \in 1..(e - f + 1) : f + x - 1 \in f..e
  BY <1>1
<1>4. Through(entry) \in [1..(e - f + 1) -> 1..maxPort]
  <2>1. \A x \in 1..(e - f + 1) : f + x - 1 \in 1..maxPort
    BY <1>1
  <2> QED BY <1>2, <2>1
<1>5. Range(Through(entry)) = f..e
  <2>1. ASSUME NEW y \in f..e PROVE \E x \in 1..(e - f + 1) : y = f + x - 1
    <3>1. y - f + 1 \in 1..(e - f + 1) /\ y = f + (y - f + 1) - 1
      BY <1>1
    <3> QED BY <3>1
  <2>2. Range(Through(entry)) = {f + x - 1 : x \in 1..(e - f + 1)}
    BY <1>2 DEF Range
  <2> QED BY <1>3, <2>1, <2>2
<1> QED BY <1>3, <1>4, <1>5, FunctionIsSeq DEF f, e

\* The ports of a specification are those that its entries name.
LEMMA PortsAreNamed ==
    ASSUME NEW entries, Len(entries) \in Nat, DOMAIN entries = 1..Len(entries), Parses(entries)
    PROVE  /\ Parsed(entries) \in Seq(1..maxPort)
           /\ Range(Parsed(entries)) =
                UNION {entry.first..End(entry) : entry \in Range(entries) \ {None}}
<1> DEFINE L == Len(entries)  S == Seq(1..maxPort)
           G == [p \in (1..L) \X S |-> p[2] \o Through(entries[p[1]])]
           Is(f) == f = [n \in 0..L |-> IF n = 0 THEN <<>> ELSE f[n - 1] \o Through(entries[n])]
           upTo == CHOOSE f : Is(f)
           NamedBy(entry) == IF entry = None THEN {} ELSE entry.first..End(entry)
           Named(n) == UNION {NamedBy(entries[j]) : j \in 1..n}
           K == {n \in 0..L : upTo[n] \in S /\ Range(upTo[n]) = Named(n)}
<1>1. \A n \in 1..L : Through(entries[n]) \in S /\ Range(Through(entries[n])) = NamedBy(entries[n])
  <2> SUFFICES ASSUME NEW n \in 1..L
               PROVE  Through(entries[n]) \in S /\ Range(Through(entries[n])) = NamedBy(entries[n])
    OBVIOUS
  <2>1. CASE entries[n] = None
    <3>1. Through(entries[n]) = <<>>
      BY <2>1 DEF Through
    <3>2. Range(<<>>) = {} /\ <<>> \in S
      BY DEF Range
    <3> QED BY <2>1, <3>1, <3>2
  <2>2. CASE entries[n] # None
    BY <2>2, PortsOfEntry DEF Parses
  <2> QED BY <2>1, <2>2
<1>2. G \in [(1..L) \X S -> S]
  <2> SUFFICES ASSUME NEW p \in (1..L) \X S PROVE p[2] \o Through(entries[p[1]]) \in S
    OBVIOUS
  <2> QED BY <1>1, ConcatProperties
<1>3. PICK f \in [0..L -> S] : f[0] = <<>> /\ \A n \in 1..L : f[n] = G[<<n, f[n - 1]>>]
  <2> DEFINE none == <<>>
  <2>1. none \in S /\ L \in Nat
    OBVIOUS
  <2> HIDE DEF G, S, L, none
  <2>2. \E f : IsIterated(f, L, S, none, G)
    BY <1>2, <2>1, Recursion
  <2> QED BY <2>2 DEF IsIterated, none
<1>4. Is(f)
  <2> DEFINE h == [n \in 0..L |-> IF n = 0 THEN <<>> ELSE f[n - 1] \o Through(entries[n])]
  <2>1. \A n \in 0..L : f[n] = h[n]
    <3> SUFFICES ASSUME NEW n \in 0..L, n # 0 PROVE f[n] = f[n - 1] \o Through(entries[n])
      BY <1>3
    <3>1. n \in 1..L /\ n - 1 \in 0..L /\ f[n - 1] \in S
      OBVIOUS
    <3>2. G[<<n, f[n - 1]>>] = f[n - 1] \o Through(entries[n])
      BY <3>1
    <3> QED BY <1>3, <3>1, <3>2
  <2>2. f = [n \in 0..L |-> f[n]] /\ h = [n \in 0..L |-> h[n]]
    OBVIOUS
  <2> HIDE DEF h
  <2>3. f = h
    BY <2>1, <2>2
  <2> QED BY <2>3 DEF h
<1>5. Is(upTo)
  <2> HIDE DEF Is
  <2> QED BY <1>4
<1>6. Parsed(entries) = upTo[L]
  BY DEF Parsed
<1> HIDE DEF upTo
<1>7. /\ upTo[0] = <<>>
      /\ \A n \in 0..(L - 1) : upTo[n + 1] = upTo[n] \o Through(entries[n + 1])
  <2>1. L \in Nat
    OBVIOUS
  <2>2. \A n \in 0..L : upTo[n] = IF n = 0 THEN <<>> ELSE upTo[n - 1] \o Through(entries[n])
    BY <1>5
  <2>3. ASSUME NEW n \in 0..(L - 1) PROVE upTo[n + 1] = upTo[n] \o Through(entries[n + 1])
    <3>1. n + 1 \in 0..L /\ n + 1 # 0 /\ (n + 1) - 1 = n
      BY <2>1
    <3> QED BY <2>2, <3>1
  <2>4. upTo[0] = <<>>
    BY <2>1, <2>2
  <2> QED BY <2>3, <2>4
<1>8. 0 \in K
  <2>1. Range(<<>>) = {} /\ Named(0) = {} /\ <<>> \in S
    BY DEF Range
  <2> HIDE DEF Named, NamedBy, S
  <2> QED BY <1>7, <2>1
<1>9. ASSUME NEW n \in 0..(L - 1), n \in K PROVE n + 1 \in K
  <2>1. upTo[n] \in S /\ Range(upTo[n]) = Named(n)
    BY <1>9
  <2>2. n + 1 \in 1..L /\ n + 1 \in 0..L
    OBVIOUS
  <2>3. /\ upTo[n + 1] \in S
        /\ Range(upTo[n + 1]) = Range(upTo[n]) \cup Range(Through(entries[n + 1]))
    <3> DEFINE s == upTo[n]  t == Through(entries[n + 1])
    <3>1. s \in Seq(1..maxPort) /\ t \in Seq(1..maxPort)
      BY <1>1, <2>1, <2>2
    <3>2. upTo[n + 1] = s \o t
      BY <1>7
    <3> HIDE DEF s, t
    <3>3. s \o t \in Seq(1..maxPort) /\ Range(s \o t) = Range(s) \cup Range(t)
      BY <3>1, RangeOfConcat
    <3> QED BY <3>2, <3>3 DEF s, t
  <2>4. Named(n + 1) = Named(n) \cup NamedBy(entries[n + 1])
    <3>1. 1..(n + 1) = (1..n) \cup {n + 1}
      OBVIOUS
    <3> QED BY <3>1
  <2> HIDE DEF Named, NamedBy, S, L
  <2> QED BY <1>1, <2>1, <2>2, <2>3, <2>4
<1>10. L \in K
  <2> HIDE DEF K
  <2>1. \A n \in 0..L : n \in K
    BY <1>8, <1>9, Reaches
  <2> QED BY <2>1
<1>11. Named(L) = UNION {entry.first..End(entry) : entry \in Range(entries) \ {None}}
  <2>1. Range(entries) = {entries[j] : j \in 1..L}
    BY DEF Range
  <2> QED BY <2>1
<1> QED BY <1>6, <1>10, <1>11

\* What the fields of a configuration may be.
LEMMA ConfigTypes ==
    ASSUME NEW made \in Configs
    PROVE  /\ made.interfaceNames \in Seq(Names) /\ made.skipIpv6 \in BOOLEAN
           /\ made.mode \in {"syn", "connect"} /\ made.connectTimeout > 0
           /\ \A field \in Numbers : made[field] \in Int
<1>1. /\ "interfaceNames" \in Fields /\ "skipIpv6" \in Fields /\ "mode" \in Fields
      /\ \A field \in Numbers : field \in Fields
  BY DEF Fields
<1>2. /\ Values("interfaceNames") = Seq(Names) /\ Values("skipIpv6") = BOOLEAN
      /\ Values("mode") = {"syn", "connect"} /\ \A field \in Numbers : Values(field) = Int
  BY DEF Values, Numbers
<1>3. \A field \in Fields : made[field] \in Values(field)
  BY DEF Configs
<1>4. made["connectTimeout"] > 0
  BY DEF Configs
<1> QED BY <1>1, <1>2, <1>3, <1>4

\* An option makes a configuration of a configuration.
LEMMA WithMakesConfig ==
    ASSUME NEW old \in Configs, NEW field \in Fields, NEW option \in [{field} -> Values(field)]
    PROVE  With(old, option) \in Configs
<1> DEFINE made == With(old, option)
<1>1. DOMAIN old = Fields /\ DOMAIN option = {field} /\ option[field] \in Values(field)
  BY DEF Configs
<1>2. made = [x \in Fields |-> IF x = field THEN Set(x, old[x], option[x]) ELSE old[x]]
  BY <1>1 DEF With
<1>3. \A x \in Fields : old[x] \in Values(x)
  BY DEF Configs
<1>4. old["connectTimeout"] > 0 /\ old["connectTimeout"] \in Int
  BY ConfigTypes DEF Numbers, Configs
<1>5. Set(field, old[field], option[field]) \in Values(field)
  <2>1. CASE field = "interfaceNames"
    <3>1. old[field] \in Seq(Names) /\ option[field] \in Seq(Names) /\ Values(field) = Seq(Names)
      BY <1>1, <1>3, <2>1 DEF Values, Numbers
    <3> DEFINE s == old[field]  t == option[field]
    <3>2. Set(field, s, t) = s \o t
      BY <2>1 DEF Set
    <3>3. s \in Seq(Names) /\ t \in Seq(Names)
      BY <3>1
    <3> HIDE DEF s, t
    <3>4. s \o t \in Seq(Names)
      BY <3>3, ConcatProperties
    <3> QED BY <3>1, <3>2, <3>4 DEF s, t
  <2>2. CASE field # "interfaceNames"
    <3>1. Set(field, old[field], option[field]) \in {old[field], option[field]}
      BY <2>2 DEF Set
    <3> QED BY <1>1, <1>3, <3>1
  <2> QED BY <2>1, <2>2
<1>6. field = "connectTimeout" => Set(field, old[field], option[field]) > 0
  <2> SUFFICES ASSUME field = "connectTimeout" PROVE Set(field, old[field], option[field]) > 0
    OBVIOUS
  <2>1. option[field] \in Int
    BY <1>1 DEF Values, Numbers
  <2> QED BY <1>4, <2>1 DEF Set
<1> HIDE DEF made
<1>7. \A x \in Fields : made[x] \in Values(x)
  BY <1>2, <1>3, <1>5
<1>8. made["connectTimeout"] > 0
  BY <1>2, <1>4, <1>6 DEF Fields, Numbers
<1>9. made \in [Fields -> Int \cup BOOLEAN \cup Seq(Names) \cup {"syn", "connect"}]
  <2>1. \A x \in Fields : Values(x) \subseteq Int \cup BOOLEAN \cup Seq(Names) \cup {"syn", "connect"}
    BY DEF Values, Fields, Numbers
  <2>2. \A x \in Fields : made[x] \in Int \cup BOOLEAN \cup Seq(Names) \cup {"syn", "connect"}
    BY <1>7, <2>1
  <2>3. made = [x \in Fields |-> made[x]]
    BY <1>2
  <2> QED BY <2>2, <2>3
<1> QED BY <1>7, <1>8, <1>9 DEF Configs, made

\* The defaults are a configuration.
LEMMA DefaultsAreConfig == Defaults \in Configs
<1>1. DOMAIN Default = Numbers /\ \A x \in Numbers : Default[x] \in Int
  BY Parameters
<1>2. /\ DOMAIN Zero = {"skipIpv6", "interfaceNames", "mode"}
      /\ Zero["skipIpv6"] = FALSE /\ Zero["interfaceNames"] = <<>> /\ Zero["mode"] = "syn"
  BY DEF Zero
<1>3. Defaults = [x \in Fields |-> IF x \in DOMAIN Zero THEN Zero[x] ELSE Default[x]]
  BY <1>1, <1>2 DEF Defaults, Fields
<1>4. /\ \A x \in Numbers : Defaults[x] = Default[x]
      /\ \A x \in DOMAIN Zero : Defaults[x] = Zero[x]
  BY <1>2, <1>3 DEF Fields, Numbers
<1>5. \A x \in Fields : Defaults[x] \in Values(x)
  <2>1. \A x \in Numbers : Defaults[x] \in Values(x)
    <3>1. \A x \in Numbers : Values(x) = Int
      BY DEF Values, Numbers
    <3> QED BY <1>1, <1>4, <3>1
  <2>2. /\ Values("skipIpv6") = BOOLEAN /\ Values("interfaceNames") = Seq(Names)
        /\ Values("mode") = {"syn", "connect"}
    BY DEF Values, Numbers
  <2>3. \A x \in DOMAIN Zero : Defaults[x] \in Values(x)
    <3>1. <<>> \in Seq(Names)
      OBVIOUS
    <3>2. Zero["interfaceNames"] \in Values("interfaceNames")
      BY <1>2, <2>2, <3>1
    <3>3. Zero["skipIpv6"] \in Values("skipIpv6") /\ Zero["mode"] \in Values("mode")
      BY <1>2, <2>2
    <3> QED BY <1>2, <1>4, <3>2, <3>3
  <2> QED BY <1>2, <2>1, <2>3 DEF Fields
<1>6. Defaults["connectTimeout"] > 0
  BY <1>4, Parameters DEF Numbers
<1>7. Defaults \in [Fields -> Int \cup BOOLEAN \cup Seq(Names) \cup {"syn", "connect"}]
  <2>1. \A x \in Fields : Values(x) \subseteq Int \cup BOOLEAN \cup Seq(Names) \cup {"syn", "connect"}
    BY DEF Values, Fields, Numbers
  <2>2. \A x \in Fields : Defaults[x] \in Int \cup BOOLEAN \cup Seq(Names) \cup {"syn", "connect"}
    BY <1>5, <2>1
  <2> QED BY <1>3, <2>2
<1> QED BY <1>5, <1>6, <1>7 DEF Configs

\* Whatever the options and their order, a timeout of zero or less does not get through.
LEMMA OptionsMakeConfigs == ASSUME NEW options \in OptionLists PROVE New(options) \in Configs
<1> DEFINE L == Len(options)
           G == [p \in (1..L) \X Configs |-> With(p[2], options[p[1]])]
           Is(f) == f = [n \in 0..L |-> IF n = 0 THEN Defaults ELSE With(f[n - 1], options[n])]
           applied == CHOOSE f : Is(f)
           K == {n \in 0..L : applied[n] \in Configs}
<1>1. L \in Nat
  BY Parameters
<1>2. ASSUME NEW n \in 1..L, NEW old \in Configs PROVE With(old, options[n]) \in Configs
  <2>1. PICK field \in Fields : options[n] \in [{field} -> Values(field)]
    BY Parameters
  <2> QED BY <2>1, WithMakesConfig
<1>3. G \in [(1..L) \X Configs -> Configs]
  BY <1>2
<1>4. PICK f : IsIterated(f, L, Configs, Defaults, G)
  <2> HIDE DEF G, L
  <2> QED BY <1>1, <1>3, DefaultsAreConfig, Recursion
<1>5. Is(f)
  <2> DEFINE h == [n \in 0..L |-> IF n = 0 THEN Defaults ELSE With(f[n - 1], options[n])]
  <2>1. f \in [0..L -> Configs] /\ f[0] = Defaults /\ \A n \in 1..L : f[n] = G[<<n, f[n - 1]>>]
    BY <1>4 DEF IsIterated
  <2>2. \A n \in 0..L : f[n] = h[n]
    <3> SUFFICES ASSUME NEW n \in 0..L, n # 0 PROVE f[n] = With(f[n - 1], options[n])
      BY <2>1
    <3>1. n \in 1..L /\ n - 1 \in 0..L /\ f[n - 1] \in Configs
      BY <1>1, <2>1
    <3>2. G[<<n, f[n - 1]>>] = With(f[n - 1], options[n])
      BY <3>1
    <3> QED BY <2>1, <3>1, <3>2
  <2>3. f = [n \in 0..L |-> f[n]] /\ h = [n \in 0..L |-> h[n]]
    BY <2>1
  <2> HIDE DEF h
  <2>4. f = h
    BY <2>2, <2>3
  <2> QED BY <2>4 DEF h
<1>6. Is(applied)
  <2> HIDE DEF Is
  <2> QED BY <1>5
<1>7. New(options) = applied[L]
  BY DEF New
<1> HIDE DEF applied, L
<1>8. \A n \in 0..L : applied[n] = IF n = 0 THEN Defaults ELSE With(applied[n - 1], options[n])
  BY <1>6
<1>9. 0 \in K
  BY <1>1, <1>8, DefaultsAreConfig
<1>10. ASSUME NEW n \in 0..(L - 1), n \in K PROVE n + 1 \in K
  <2>1. n + 1 \in 1..L /\ n + 1 \in 0..L /\ n + 1 # 0 /\ (n + 1) - 1 = n /\ applied[n] \in Configs
    BY <1>1, <1>10
  <2>2. applied[n + 1] = With(applied[n], options[n + 1])
    BY <1>8, <2>1
  <2>3. applied[n + 1] \in Configs
    BY <1>2, <2>1, <2>2
  <2> QED BY <2>1, <2>3
<1>11. L \in K
  <2> HIDE DEF K
  <2>1. \A n \in 0..L : n \in K
    BY <1>1, <1>9, <1>10, Reaches
  <2> QED BY <1>1, <2>1
<1> QED BY <1>7, <1>11

----------------------------------------------------------------------------
\* The program starts in the invariant.
LEMMA InitInv == StartProgram => IInv
<1> SUFFICES ASSUME StartProgram PROVE IInv
  OBVIOUS
<1>1. PICK options \in OptionLists : config = New(options)
  BY DEF StartProgram, Init
<1>2. /\ config \in Configs
      /\ upInterfaces \in Seq(Names) /\ interfaceNames \in Seq(Names) /\ skipIpv6 \in BOOLEAN
  <2>1. config \in Configs
    BY <1>1, OptionsMakeConfigs
  <2>2. interfaceNames \in Seq(Names) /\ skipIpv6 \in BOOLEAN
    BY <2>1, ConfigTypes DEF interfaceNames, skipIpv6
  <2> QED BY <2>1, <2>2, Parameters DEF StartProgram, Init
<1>3. Asked \in Seq(Names) /\ Len(Asked) \in Nat
  BY <1>2 DEF Asked
<1> USE DEF StartProgram, Init
<1>4. SetupTypes
  BY <1>2, <1>3 DEF SetupTypes, Captures, Sockets, States, OpenSteps
<1>5. SocketsInv
  BY DEF SocketsInv, Sockets
<1>6. FdsInv /\ DoneInv /\ NamedInv
  BY <1>3 DEF FdsInv, DoneInv, FilteredWhenBound, NamedInv, Handles, Captures
<1>7. MainInv
  BY ProgramParameters DEF MainInv
<1>8. OptionsInv /\ GivenInv /\ PrintInv
  BY <1>2 DEF OptionsInv, GivenInv, PrintInv, Sockets
<1> QED BY <1>4, <1>5, <1>6, <1>7, <1>8 DEF IInv, SetupInv

\* The inductive invariant.
THEOREM Invariant == ProgramSpec => []IInv
<1>1. IInv /\ [ProgramNext]_programVars => IInv'
  <2> SUFFICES ASSUME IInv, [ProgramNext]_programVars PROVE IInv'
    OBVIOUS
  <2>1. SetupNext
    BY SetupSplits
  <2> USE DEF IInv, SetupInv
  <2>2. SetupInv'
    BY <2>1, TypesStep, SocketsStep, FdsStep, DoneStep, NamedStep
  <2>3. MainInv' /\ OptionsInv'
    BY <2>1, MainStep, OptionsStep
  <2>4. GivenInv' /\ PrintInv'
    BY GivenStep, PrintStep
  <2> QED BY <2>2, <2>3, <2>4
<1> QED BY <1>1, InitInv, PTL DEF ProgramSpec

\* However many interfaces there are and whichever steps fail, a packet socket that may receive has
\* its filter, and one that is open has its port reserved.
THEOREM NothingForeignIsHeard == ProgramSpec => []HearsOnlyItsOwn
<1>1. IInv => FilteredWhenBound
  BY DEF IInv, SetupInv, DoneInv
<1>2. IInv => PortIsHeld
  <2> SUFFICES ASSUME IInv, NEW i \in Captures, fds[i] = "open" PROVE sockets["listener"] = "open"
    BY DEF PortIsHeld
  <2>1. pc \in {"open", "scan", "closeHandles"}
    BY DEF IInv, SetupInv, SetupTypes, FdsInv, Sockets
  <2> QED BY <2>1 DEF IInv, SetupInv, SocketsInv
<1> QED BY <1>1, <1>2, Invariant, PTL DEF HearsOnlyItsOwn

\* The ports main has parsed are ports, and those that the entries name.
LEMMA PortsAreGiven ==
    ASSUME IInv
    PROVE  /\ ports \in Seq(1..maxPort)
           /\ pc # "check" =>
                Range(ports) = UNION {entry.first..End(entry) : entry \in Range(Given) \ {None}}
<1> DEFINE Entries == [first : Int, last : Int \cup {None}] \cup {None}
<1>1. spec \in Specs
  BY DEF IInv, GivenInv
<1>2. Given \in Seq(Entries)
  BY <1>1, ProgramParameters DEF Given
<1>3. Len(Given) \in Nat /\ DOMAIN Given = 1..Len(Given)
  BY <1>2, LenProperties
<1>4. CASE Parses(Given) /\ ports = Parsed(Given)
  BY <1>3, <1>4, PortsAreNamed
<1>5. CASE ports = <<>> /\ pc = "check"
  BY <1>5
<1> QED BY <1>4, <1>5 DEF IInv, GivenInv

\* The variables keep their types: a port that is scanned is a port, a socket is closed once at
\* most (no state is that of a second close), and one callback prints at a time.
THEOREM ProgramIsTyped == ProgramSpec => []ProgramTypeOK
<1>1. IInv => TypeOK
  <2> SUFFICES ASSUME IInv PROVE TypeOK
    OBVIOUS
  <2>1. SetupTypes
    BY DEF IInv, SetupInv
  <2>2. mode \in {"syn", "connect"} /\ outcome \in Outcomes \cup {None}
    BY ConfigTypes DEF IInv, OptionsInv, mode
  <2>3. Range(handles) \subseteq Captures
    BY <2>1 DEF SetupTypes, Range
  <2> QED BY <2>1, <2>2, <2>3 DEF TypeOK, SetupTypes, States
<1>2. IInv => ProgramTypeOK
  BY <1>1, PortsAreGiven DEF ProgramTypeOK, IInv, MainInv, GivenInv, PrintInv
<1> QED BY <1>2, Invariant, PTL

\* A status is the truth about the run, and when ScanNetworks has returned, after whatever failure,
\* it has closed what it opened.
THEOREM StatusesAreTrue == ProgramSpec => []StatusIsTrue
<1>1. IInv => NothingLeaks
  BY DEF IInv, SetupInv, SocketsInv, FdsInv, NothingLeaks
<1>2. IInv /\ NothingLeaks => StatusIsTrue
  BY DEF IInv, MainInv, Settled, StatusIsTrue
<1> QED BY <1>1, <1>2, Invariant, PTL

\* A SYN scan that runs has all its sockets, and a handle for every interface that was named.
LEMMA Equipped == IInv => ScanIsEquipped
<1> SUFFICES ASSUME IInv, pc = "scan" PROVE ScanIsEquipped
  BY DEF ScanIsEquipped
<1> USE DEF IInv, SetupInv, SetupTypes
<1>1. \A s \in Sockets \ (IF skipIpv6 THEN {"raw6"} ELSE {}) : sockets[s] = "open"
  BY DEF SocketsInv, Sockets
<1>2. handles # <<>>
  BY DEF NamedInv
<1>3. DOMAIN handles = Handles /\ Range(handles) = {handles[a] : a \in Handles}
  BY DEF Handles, Range
<1>4. \A i \in Range(handles) : fds[i] = "open" /\ done[i] = Range(OpenSteps)
  BY <1>3 DEF FdsInv, DoneInv, HasHandle, Handles
<1>5. interfaceNames # <<>> => Range(handles) = Captures
  BY <1>3 DEF NamedInv, Handles, Captures
<1> QED BY <1>1, <1>2, <1>4, <1>5 DEF ScanIsEquipped

\* A scan that runs, of either mode, has its sockets, the ports that the entries of the
\* specification name, a slot for a probe at least and time for an answer, whatever the options
\* are, how many of them set the same field, and in which order they come.
THEOREM ScansAreAsAsked == ProgramSpec => []ScanIsAsAsked
<1>1. IInv => ScanIsAsAsked
  <2> SUFFICES ASSUME IInv PROVE ScanIsAsAsked
    OBVIOUS
  <2>1. ScanIsEquipped
    BY Equipped
  <2>2. pc \in {"scan", "connect"} =>
          config.concurrency >= 1 /\ config.timeout > 0 /\ config.connectTimeout > 0
    <3>1. config.concurrency \in Int /\ config.connectTimeout > 0
      BY ConfigTypes DEF IInv, OptionsInv, Numbers
    <3> QED BY <3>1 DEF IInv, OptionsInv, ValidOptions, IsValid
  <2>3. pc # "check" =>
          Range(ports) = UNION {entry.first..End(entry) : entry \in Range(Given) \ {None}}
    BY PortsAreGiven
  <2> QED BY <2>1, <2>2, <2>3 DEF ScanIsAsAsked
<1> QED BY <1>1, Invariant, PTL
==================================================================================
