----------------------------- MODULE ScanContract -----------------------------
(***************************************************************************)
(* What a scan promises its caller (port_scanner.go, Scan and              *)
(* ScanNetworks; scanner.go:192-205): results reach the callback while the *)
(* scan runs and never after it has returned, and a nil return is a scan   *)
(* that asked.  How probes are sent and answered is left to the scans that *)
(* implement this.                                                         *)
(*                                                                         *)
(* A context with a deadline weakens it: a probe that the deadline ended   *)
(* before the context had noticed counts as unanswered.                    *)
(***************************************************************************)
EXTENDS Naturals

CONSTANTS
    Probes,       \* one for each (address, port) pair of the scan
    HasDeadline,  \* whether the caller's context has a deadline
    None          \* no outcome yet

VARIABLES
    fate,       \* what became of a probe: "pending", "open", "shut" (an answer, or none in
                \* time), "unasked" (never reached the network), "cut" (by the caller's context),
                \* "late" (by its deadline, before the context had noticed)
    delivered,  \* the probes whose callback has returned
    outcome     \* what the scan returned: "nil", "ctx" or "noProbes"

vars == <<fate, delivered, outcome>>

Fates == {"open", "shut", "unasked", "cut"} \cup (IF HasDeadline THEN {"late"} ELSE {})
OpenPorts == {p \in Probes : fate[p] = "open"}

Init ==
    /\ fate = [p \in Probes |-> "pending"]
    /\ delivered = {}
    /\ outcome = None

Decide(p, f) ==
    /\ outcome = None
    /\ fate[p] = "pending"
    /\ fate' = [fate EXCEPT ![p] = f]
    /\ UNCHANGED <<delivered, outcome>>

Deliver(p) ==
    /\ outcome = None
    /\ p \in OpenPorts \ delivered
    /\ delivered' = delivered \cup {p}
    /\ UNCHANGED <<fate, outcome>>

\* No probe was cut, and not all of them failed on our side.
ReturnNil ==
    /\ \A p \in Probes : fate[p] \in {"open", "shut", "unasked", "late"}
    /\ \E p \in Probes : fate[p] # "unasked"
    /\ outcome' = "nil"

\* Not one probe reached the network (ErrNoProbesSent).
ReturnNoProbes ==
    /\ \A p \in Probes : fate[p] = "unasked"
    /\ outcome' = "noProbes"

ReturnContext == outcome' = "ctx"

\* All open ports found have been reported by the time the scan returns.
Return ==
    /\ outcome = None
    /\ delivered = OpenPorts
    /\ ReturnNil \/ ReturnNoProbes \/ ReturnContext
    /\ UNCHANGED <<fate, delivered>>

Next ==
    \/ \E p \in Probes : Deliver(p) \/ \E f \in Fates : Decide(p, f)
    \/ Return

Spec == Init /\ [][Next]_vars
===============================================================================
