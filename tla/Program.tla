--------------------------------- MODULE Program ---------------------------------
(***************************************************************************)
(* The command (cmd/port_scanner/main.go): main parses its arguments,      *)
(* catches signals, calls Scan with a callback that prints, and exits with *)
(* a status.  Scan runs ScanNetworks (ScanSetup) and, in it, a scan that   *)
(* calls the callback from goroutines of its own.                          *)
(***************************************************************************)
EXTENDS ScanSetup

CONSTANTS
    Specs,        \* port specifications: sequences of entries, empty for the empty text
    defaultPortsSpec,
    maxPort,
    Results       \* the open ports a scan may find

ASSUME ProgramParameters ==
    /\ maxPort \in Nat
    /\ Specs \cup {defaultPortsSpec} \subseteq Seq([first : Int, last : Int \cup {None}] \cup {None})
    /\ None \notin {"nil", "canceled", "other"}

VARIABLES
    stage,      \* where main is
    spec,       \* the port specification it was given
    ports,      \* the ports it stands for
    signalled,  \* a signal was caught: the context is cancelled
    callbacks,  \* each result's callback: "none", "due", "writing", "failing", "printed", "logged"
    late,       \* the results a reader reports after Scan of the scanner has returned
    err,        \* what Scan returned: "nil", "canceled" if it is a context.Canceled, or "other"
    status      \* the exit status, or Killed

setupVars == <<input, pc, sockets, captureVars, outcome>>
printVars == <<callbacks, late>>
mainVars == <<stage, spec, ports, signalled, err, status>>
programVars == <<setupVars, printVars, mainVars>>

----------------------------------------------------------------------------
\* parsePortsSpec.  An entry is None when there is nothing but blanks between its commas, else
\* [first, last], where last is None unless there is a "-"; a text that is no number is 0, like a
\* port that is none.
IsPort(n) == n \in 1..maxPort
End(entry) == IF entry.last = None THEN entry.first ELSE entry.last
IsEntry(entry) == IsPort(entry.first) /\ IsPort(End(entry)) /\ entry.first =< End(entry)

\* The ports an entry adds.  A blank one is passed over, but a specification needs one that is not.
Through(entry) ==
    IF entry = None THEN <<>> ELSE [x \in 1..(End(entry) - entry.first + 1) |-> entry.first + x - 1]

Parses(entries) ==
    /\ \E j \in DOMAIN entries : entries[j] # None
    /\ \A j \in DOMAIN entries : entries[j] # None => IsEntry(entries[j])
Parsed(entries) ==
    LET upTo[n \in 0..Len(entries)] ==
          IF n = 0 THEN <<>> ELSE upTo[n - 1] \o Through(entries[n])
    IN  upTo[Len(entries)]

----------------------------------------------------------------------------
StartProgram ==
    /\ Init
    /\ stage = "ports"
    /\ spec \in Specs /\ ports = <<>>
    /\ signalled = FALSE
    /\ callbacks = [r \in Results |-> "none"] /\ late = {}
    /\ err = None /\ status = None

Given == IF spec = <<>> THEN defaultPortsSpec ELSE spec

Killed == -1
\* The options main makes of its flags.
ScanOptions(flags) ==
    <<[concurrency |-> flags.concurrency], [timeout |-> flags.timeout],
      [skipIpv6 |-> ~flags.ipv6], [interfaceNames |-> flags.interfaces],
      [connectTimeout |-> flags.connectTimeout]>>
    \o IF flags.connect THEN <<[mode |-> "connect"]>> ELSE <<>>

Exit(code) == stage' = "exited" /\ status' = code

ParsePorts ==
    /\ stage = "ports" /\ Parses(Given)
    /\ ports' = Parsed(Given)
    /\ stage' = "timeout"
    /\ UNCHANGED <<setupVars, printVars, spec, signalled, err, status>>

\* FatalWithExitingMessage.
FailToParse ==
    /\ \/ stage = "ports" /\ ~Parses(Given)
       \/ stage \in {"timeout", "connectTimeout"}
    /\ Exit(1)
    /\ UNCHANGED <<setupVars, printVars, spec, ports, signalled, err>>

\* The timeout; signal.NotifyContext; the timeout of a connect scan.
After == [timeout |-> "notify", notify |-> "connectTimeout", connectTimeout |-> "scan"]

Prepare ==
    /\ stage \in DOMAIN After
    /\ stage' = After[stage]
    /\ UNCHANGED <<setupVars, printVars, spec, ports, signalled, err, status>>

\* A signal that is not caught kills the process; all but the first are without effect.
Signal ==
    /\ stage # "exited"
    /\ IF stage \in {"connectTimeout", "scan"}
       THEN signalled' = TRUE /\ UNCHANGED <<stage, status>>
       ELSE Exit(Killed) /\ UNCHANGED signalled
    /\ UNCHANGED <<setupVars, printVars, spec, ports, err>>

----------------------------------------------------------------------------
\* Scan.  What it returns is errors.Is(err, context.Canceled) where the context was asked and had
\* been cancelled.
InScan == stage = "scan" /\ err = None

Errs(returned) ==
    /\ err' = returned
    /\ UNCHANGED <<printVars, stage, spec, ports, signalled, status>>

ParseTargetsFails ==
    /\ InScan /\ pc = "check"
    /\ pc' = "returned" /\ Errs("other")
    /\ UNCHANGED <<input, sockets, captureVars, outcome>>

\* A call that finds the context cancelled does nothing.
SetUpStep ==
    /\ InScan /\ SetUp
    /\ pc = "check" => ~signalled
    /\ IF outcome' = None THEN UNCHANGED <<printVars, mainVars>> ELSE Errs("other")

Rejected ==
    /\ InScan
    /\ \/ signalled /\ RejectContext /\ Errs("canceled")
       \/ ~signalled /\ RejectOther /\ Errs("other")

\* The listener is opened under the context.
SetUpFails ==
    /\ InScan
    /\ \/ (OpenSocketFails \/ ListInterfacesFails \/ NoHandles) /\ Errs("other")
       \/ signalled /\ pc = "listener" /\ OpenSocketFails /\ Errs("canceled")

\* The scan refuses its targets before it sends a probe.
EndOfScan(result) == EndScan(result) \/ EndConnect(result)
Refused ==
    /\ InScan /\ EndOfScan("refused")
    /\ \A r \in Results : callbacks[r] = "none"
    /\ Errs("other")

Deliver(r) ==
    /\ InScan /\ pc \in {"scan", "connect"}
    /\ callbacks[r] = "none"
    /\ callbacks' = [callbacks EXCEPT ![r] = "due"]
    /\ UNCHANGED <<setupVars, mainVars, late>>

\* Mutant: the scan does not wait for the callbacks.
NotAwaited == TRUE
Awaited == \A r \in Results : callbacks[r] \in {"none", "printed", "logged"}

\* The context is asked after the callbacks were waited for.
ScanEnds ==
    /\ InScan /\ EndOfScan("scanned")
    /\ Awaited
    /\ \E returned \in IF signalled THEN {"canceled"} ELSE {"nil", "other"} : Errs(returned)

TearDownStep ==
    /\ stage = "scan" /\ TearDown
    /\ UNCHANGED <<printVars, mainVars>>

\* A reader that Scan of the scanner did not wait for had a reply in its hands.
DeliverLate(r) ==
    /\ stage = "scan" /\ mode = "syn" /\ outcome = "scanned"
    /\ callbacks[r] = "none"
    /\ callbacks' = [callbacks EXCEPT ![r] = "due"]
    /\ late' = late \cup {r}
    /\ UNCHANGED <<setupVars, mainVars>>

----------------------------------------------------------------------------
\* resultPrinter.print, under the mutex, in the callback that logs its error.  Mutant: an error
\* leaves the mutex locked.
UnlockedUnlessFailed == \A r \in Results : callbacks[r] \notin {"writing", "failing", "logged"}
Unlocked == \A r \in Results : callbacks[r] # "writing"

CallbackStep(r, from, to) ==
    /\ stage = "scan"
    /\ callbacks[r] = from
    /\ callbacks' = [callbacks EXCEPT ![r] = to]
    /\ UNCHANGED <<setupVars, mainVars, late>>

Lock(r) == Unlocked /\ CallbackStep(r, "due", "writing")
Write(r) == CallbackStep(r, "writing", "printed")
WriteFails(r) == CallbackStep(r, "writing", "failing")
Log(r) == CallbackStep(r, "failing", "logged")

\* The runtime turns a broken pipe on the standard output into the death of the process.
BrokenPipe(r) ==
    /\ stage = "scan" /\ callbacks[r] = "writing"
    /\ Exit(Killed)
    /\ UNCHANGED <<setupVars, printVars, spec, ports, signalled, err>>

Callback(r) == Lock(r) \/ Write(r) \/ WriteFails(r) \/ Log(r) \/ BrokenPipe(r)

\* main returns, or os.Exit ends the process without its deferred calls.
ExitStatus == CASE err = "nil" -> 0 [] err = "canceled" -> 130 [] err = "other" -> 1

ExitProgram ==
    /\ stage = "scan" /\ pc = "returned"
    /\ Exit(ExitStatus)
    /\ UNCHANGED <<setupVars, printVars, spec, ports, signalled, err>>

Exited == stage = "exited" /\ UNCHANGED programVars

ScanCall ==
    \/ ParseTargetsFails \/ SetUpStep \/ Rejected \/ SetUpFails \/ Refused \/ ScanEnds
    \/ TearDownStep

ProgramNext ==
    \/ ParsePorts \/ FailToParse \/ Prepare \/ Signal \/ ScanCall \/ ExitProgram \/ Exited
    \/ \E r \in Results : Deliver(r) \/ DeliverLate(r) \/ Callback(r)

\* Goroutines are scheduled, a write to the standard output does not block for ever, and a scan
\* ends once its callbacks have (SynScan and ConnectScan).
ProgramFairness ==
    /\ WF_programVars(ScanCall) /\ WF_programVars(ExitProgram)
    /\ \A r \in Results : WF_programVars(Callback(r))

ProgramSpec == StartProgram /\ [][ProgramNext]_programVars /\ ProgramFairness

----------------------------------------------------------------------------
\* The variables keep their types; one callback writes at a time.
ProgramTypeOK ==
    /\ TypeOK
    /\ stage \in {"ports", "timeout", "notify", "connectTimeout", "scan", "exited"}
    /\ ports \in Seq(1..maxPort)
    /\ signalled \in BOOLEAN
    /\ callbacks \in [Results -> {"none", "due", "writing", "failing", "printed", "logged"}]
    /\ \A r, q \in Results : callbacks[r] = "writing" /\ callbacks[q] = "writing" => r = q
    /\ late \subseteq Results
    /\ err \in {None, "nil", "canceled", "other"}
    /\ status \in {None, Killed, 0, 1, 130}

\* A scan that runs has what it was asked for and what it relies on: its sockets (ScanIsEquipped),
\* the ports that the entries of the specification name, ends of ranges included, one slot at
\* least (with none the first probe would wait for ever), and time for an answer.
ScanIsAsAsked ==
    /\ ScanIsEquipped
    /\ pc \in {"scan", "connect"} =>
         /\ config.concurrency >= 1 /\ config.timeout > 0 /\ config.connectTimeout > 0
         /\ Range(ports) = UNION {entry.first..End(entry) : entry \in Range(Given) \ {None}}

\* A status is the truth about the run, although os.Exit waits for nobody and runs no deferred
\* call: 0 that the scan ended by itself, and 130 that a signal cut it; and with any status but a
\* sudden death, every result that was reported to the callback in time is printed or its failure
\* logged, and nothing that ScanNetworks opened is open (NothingLeaks).
StatusIsTrue ==
    /\ NothingLeaks
    /\ stage = "exited" /\ status # Killed /\ err # None =>
         /\ pc = "returned"
         /\ status = 0 => outcome = "scanned" /\ err = "nil"
         /\ status = 130 => signalled
         /\ \A r \in Results \ late : callbacks[r] \in {"none", "printed", "logged"}

\* Signals are caught from NotifyContext on, every one of them (main.go:287), so nothing but the
\* end of the scan gets the user out: it comes, whatever fails and whatever is still to be printed.
ProgramEnds == stage = "scan" ~> stage = "exited"
================================================================================
