------------------------------- MODULE ScanConfig -------------------------------
(***************************************************************************)
(* The options of a scan (port_scanner_config): New applies them in order  *)
(* to the defaults, and validateConfig (scanner.go) says which results a   *)
(* scan can run with.  An option is a record of the field it sets; a       *)
(* duration is a number of time units.                                     *)
(***************************************************************************)
EXTENDS Integers, Sequences

CONSTANTS
    Default,   \* [concurrency, timeout, sendAttempts, sendRetryWait, connectTimeout]
    MaxUint32

\* The zero values of the fields that have no default.
Zero == [skipIpv6 |-> FALSE, interfaceNames |-> <<>>, mode |-> "syn"]
Defaults ==
    [field \in DOMAIN Default \cup DOMAIN Zero |->
        IF field \in DOMAIN Zero THEN Zero[field] ELSE Default[field]]

\* Mutant: WithConnectTimeout takes every value.
SetAny(field, old, new) == IF field = "interfaceNames" THEN old \o new ELSE new
Set(field, old, new) ==
    CASE field = "interfaceNames" -> old \o new
      [] field = "connectTimeout" /\ new =< 0 -> old
      [] OTHER -> new

With(config, option) ==
    [field \in DOMAIN config |->
        IF field \in DOMAIN option THEN Set(field, config[field], option[field])
        ELSE config[field]]

New(options) ==
    LET applied[n \in 0..Len(options)] ==
          IF n = 0 THEN Defaults ELSE With(applied[n - 1], options[n])
    IN  applied[Len(options)]

IsValid(config) ==
    /\ config.concurrency \in 1..MaxUint32
    /\ config.timeout > 0
    /\ config.sendAttempts >= 1
    /\ config.sendRetryWait >= 0
================================================================================
