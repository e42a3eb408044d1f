------------------------------- MODULE ScanSetup -------------------------------
(***************************************************************************)
(* ScanNetworks (pkg/port_scanner/port_scanner.go): what a SYN scan opens  *)
(* before it runs and closes after, with listener_handler.New and Close,   *)
(* and OpenCaptureHandles, OpenCaptureHandle and CloseCaptureHandles       *)
(* (capture_handle.go).  Every step that asks the kernel may fail.         *)
(*                                                                         *)
(* The scans themselves are SynScan and ConnectScan, and what a close      *)
(* means to those who read a handle is CaptureHandle.                      *)
(***************************************************************************)
EXTENDS ScanConfig, FiniteSets, Functions

CONSTANTS
    Names,         \* names of interfaces
    UpInterfaces,  \* what net.Interfaces may report to be up: sequences of names
    OptionLists,   \* the options a scan may be called with
    None           \* no result

\* What ended a call: the scan, or what failed before it.
Outcomes ==
    {"scanned", "refused", "context", "invalid", "notPrivileged", "listener", "interfaces", "captures"}

\* What the fields of a configuration may be set to, each by an option of its own.
Numbers == {"concurrency", "timeout", "sendAttempts", "sendRetryWait", "connectTimeout"}
Fields == Numbers \cup {"skipIpv6", "interfaceNames", "mode"}
Values(field) ==
    CASE field \in Numbers -> Int
      [] field = "skipIpv6" -> BOOLEAN
      [] field = "interfaceNames" -> Seq(Names)
      [] field = "mode" -> {"syn", "connect"}

ASSUME Parameters ==
    /\ UpInterfaces \subseteq Seq(Names)
    /\ \A options \in OptionLists :
         /\ Len(options) \in Nat
         /\ \A j \in 1..Len(options) :
              \E field \in Fields : options[j] \in [{field} -> Values(field)]
    /\ Default \in [Numbers -> Int] /\ Default.connectTimeout > 0
    /\ None \notin Outcomes

VARIABLES
    config, upInterfaces,  \* the options, and what the kernel reports
    pc,       \* where ScanNetworks is
    sockets,  \* the handler's listener and raw sockets: "unopened", "open", "closed", "twice" closed
    k,        \* the interface OpenCaptureHandles is at
    step,     \* the step OpenCaptureHandle is at
    done,     \* the steps it has done for each interface
    fds,      \* each interface's packet socket: as sockets
    handles,  \* the interfaces whose handles OpenCaptureHandles has, in order
    outcome   \* what ScanNetworks returns

input == <<config, upInterfaces>>
captureVars == <<k, step, done, fds, handles>>
vars == <<input, pc, sockets, captureVars, outcome>>

mode == config.mode
skipIpv6 == config.skipIpv6
interfaceNames == config.interfaceNames

Sockets == {"listener", "raw4", "raw6"}

\* The interfaces that are opened, in order.
Asked == IF interfaceNames # <<>> THEN interfaceNames ELSE upInterfaces
Captures == 1..Len(Asked)

Closed(state) == CASE state = "open" -> "closed"
                   [] state = "closed" -> "twice"
                   [] OTHER -> state

Init ==
    /\ config \in {New(options) : options \in OptionLists} /\ upInterfaces \in UpInterfaces
    /\ pc = "check"
    /\ sockets = [s \in Sockets |-> "unopened"]
    /\ k = 1 /\ step = 1
    /\ done = [i \in Captures |-> {}]
    /\ fds = [i \in Captures |-> "unopened"]
    /\ handles = <<>>
    /\ outcome = None

Fail(result, to) == outcome' = result /\ pc' = to

----------------------------------------------------------------------------
\* The context has ended, an argument or an option is not valid, or a SYN scan lacks the privilege.
ValidOptions == IsValid(config)

Reject(result) ==
    /\ pc = "check"
    /\ Fail(result, "returned")
    /\ UNCHANGED <<input, sockets, captureVars>>

RejectContext == Reject("context")
RejectOther ==
    \/ Reject("invalid")
    \/ ValidOptions /\ mode = "syn" /\ Reject("notPrivileged")

Proceed ==
    /\ pc = "check" /\ ValidOptions
    /\ pc' = IF mode = "syn" THEN "listener" ELSE "connect"
    /\ UNCHANGED <<input, sockets, captureVars, outcome>>

\* scanConnect returns: what it was to scan was refused, or scanned.
EndConnect(result) ==
    /\ pc = "connect"
    /\ Fail(result, "returned")
    /\ UNCHANGED <<input, sockets, captureVars>>

\* listener_handler.New: the listener, the IPv4 socket and, unless it is to be skipped, the other.
NextSocket == CASE pc = "listener" -> "raw4"
                [] pc = "raw4" -> IF skipIpv6 THEN "interfaces" ELSE "raw6"
                [] pc = "raw6" -> "interfaces"

OpenSocket ==
    /\ pc \in Sockets
    /\ sockets' = [sockets EXCEPT ![pc] = "open"]
    /\ pc' = NextSocket
    /\ UNCHANGED <<input, captureVars, outcome>>

NewFails == IF pc = "listener" THEN "returned" ELSE "closeHandler"

\* A socket that was opened but could not be configured is closed before New closes the others.
OpenSocketFails ==
    /\ pc \in Sockets
    /\ \E state \in {"unopened", "closed"} : sockets' = [sockets EXCEPT ![pc] = state]
    /\ Fail("listener", NewFails)
    /\ UNCHANGED <<input, captureVars>>

----------------------------------------------------------------------------
\* OpenCaptureHandles.  The named interfaces have to be up.
ListInterfaces ==
    /\ pc = "interfaces" /\ pc' = "open"
    /\ interfaceNames # <<>> => Range(interfaceNames) \subseteq Range(upInterfaces)
    /\ UNCHANGED <<input, sockets, captureVars, outcome>>

ListInterfacesFails ==
    /\ pc = "interfaces"
    /\ Fail("interfaces", "closeHandler")
    /\ UNCHANGED <<input, sockets, captureVars>>

\* OpenCaptureHandle.  Mutant: the socket is bound before it has its filter.
BoundFirst == <<"lookup", "socket", "bind", "filter", "file", "conn">>
OpenSteps == <<"lookup", "socket", "filter", "bind", "file", "conn">>

OpenStep ==
    /\ pc = "open" /\ k =< Len(Asked) /\ step =< Len(OpenSteps)
    /\ done' = [done EXCEPT ![k] = @ \cup {OpenSteps[step]}]
    /\ fds' = IF OpenSteps[step] = "socket" THEN [fds EXCEPT ![k] = "open"] ELSE fds
    /\ step' = step + 1
    /\ UNCHANGED <<input, pc, sockets, k, handles, outcome>>

KeepHandle ==
    /\ pc = "open" /\ k =< Len(Asked) /\ step > Len(OpenSteps)
    /\ handles' = Append(handles, k)
    /\ k' = k + 1 /\ step' = 1
    /\ UNCHANGED <<input, pc, sockets, done, fds, outcome>>

\* Mutant: the handle is appended before its error is looked at.
KeptAnyway == Append(handles, k)
Kept == handles

MustOpen == interfaceNames # <<>>

\* A step that fails closes the socket, if there is one.  A named interface must open: the
\* handles there are are closed.  Another is skipped.
OpenStepFails ==
    /\ pc = "open" /\ k =< Len(Asked) /\ step =< Len(OpenSteps)
    /\ fds' = [fds EXCEPT ![k] = Closed(@)]
    /\ handles' = Kept
    /\ IF MustOpen
       THEN Fail("captures", "closeHandles") /\ UNCHANGED <<k, step>>
       ELSE k' = k + 1 /\ step' = 1 /\ UNCHANGED <<pc, outcome>>
    /\ UNCHANGED <<input, sockets, done>>

\* ErrNoCaptureHandles.
NoHandles ==
    /\ pc = "open" /\ k > Len(Asked) /\ handles = <<>>
    /\ Fail("captures", "closeHandler")
    /\ UNCHANGED <<input, sockets, captureVars>>

----------------------------------------------------------------------------
\* NewScanner, which has valid arguments by now, and Scan.
StartScan ==
    /\ pc = "open" /\ k > Len(Asked) /\ handles # <<>>
    /\ pc' = "scan"
    /\ UNCHANGED <<input, sockets, captureVars, outcome>>

\* Scan of the scanner returns likewise.
EndScan(result) ==
    /\ pc = "scan"
    /\ Fail(result, "closeHandles")
    /\ UNCHANGED <<input, sockets, captureVars>>

\* The deferred calls, the last one first: CloseCaptureHandles, one after the other, ...
CloseHandle ==
    /\ pc = "closeHandles" /\ handles # <<>>
    /\ fds' = [fds EXCEPT ![Head(handles)] = Closed(@)]
    /\ handles' = Tail(handles)
    /\ UNCHANGED <<input, pc, sockets, k, step, done, outcome>>

HandlesClosed ==
    /\ pc = "closeHandles" /\ handles = <<>>
    /\ pc' = "closeHandler"
    /\ UNCHANGED <<input, sockets, captureVars, outcome>>

\* ... and ListenHandler.Close, which closes what there is and goes on where a close fails.
CloseHandler ==
    /\ pc = "closeHandler" /\ pc' = "returned"
    /\ sockets' = [s \in Sockets |-> IF sockets[s] = "open" THEN "closed" ELSE sockets[s]]
    /\ UNCHANGED <<input, captureVars, outcome>>

----------------------------------------------------------------------------
\* The steps of a call up to the scan, which may fail in many ways, and from it.
SetUp ==
    \/ Proceed \/ OpenSocket \/ ListInterfaces \/ OpenStep \/ KeepHandle \/ OpenStepFails
    \/ StartScan
TearDown == CloseHandle \/ HandlesClosed \/ CloseHandler

----------------------------------------------------------------------------
\* The variables keep their types; in particular nothing is closed twice (the descriptor may
\* by then be another's).
TypeOK ==
    LET states == {"unopened", "open", "closed"} IN
    /\ pc \in Sockets \cup
         {"check", "interfaces", "open", "scan", "closeHandles", "closeHandler", "connect", "returned"}
    /\ mode \in {"syn", "connect"} /\ skipIpv6 \in BOOLEAN
    /\ sockets \in [Sockets -> states]
    /\ k \in 1..(Len(Asked) + 1) /\ step \in 1..(Len(OpenSteps) + 1)
    /\ done \in [Captures -> SUBSET Range(OpenSteps)]
    /\ fds \in [Captures -> states]
    /\ Range(handles) \subseteq Captures
    /\ outcome \in Outcomes \cup {None}

\* Whatever fails, at whichever step, ScanNetworks has closed what it opened when it returns.
NothingLeaks ==
    pc = "returned" => /\ \A s \in Sockets : sockets[s] # "open"
                       /\ \A i \in Captures : fds[i] # "open"

\* "No packet reaches it unfiltered" (capture_handle.go:125-126): a packet socket that is bound,
\* and so receives, has its filter.
FilteredWhenBound == \A i \in Captures : "bind" \in done[i] => "filter" \in done[i]

\* A packet socket that is open has the port it captures for reserved: nobody else's connection
\* is taken for a reply (listener_handler.go:17-19).
PortIsHeld == \A i \in Captures : fds[i] = "open" => sockets["listener"] = "open"

\* From its filter's installation to its close no packet socket has a packet that is not for the
\* scan: those of everybody else are filtered, and nobody else has the port.
HearsOnlyItsOwn == FilteredWhenBound /\ PortIsHeld

\* A scan that runs has every socket it may use: those it sends from, one handle at least, each
\* open and opened completely, and one for every interface that was named.
ScanIsEquipped ==
    pc = "scan" =>
        /\ \A s \in Sockets \ (IF skipIpv6 THEN {"raw6"} ELSE {}) : sockets[s] = "open"
        /\ handles # <<>>
        /\ \A i \in Range(handles) : fds[i] = "open" /\ done[i] = Range(OpenSteps)
        /\ interfaceNames # <<>> => Range(handles) = Captures
================================================================================
