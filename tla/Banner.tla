-------------------------------- MODULE Banner --------------------------------
(***************************************************************************)
(* The two halves of the banner package side by side: a grab, and what     *)
(* newBanner (banner.go, identify.go) makes of what one may have read.     *)
(* That depends on nothing but the bytes, the port and the handshake, so   *)
(* the halves are run apart and not one after the other.                   *)
(***************************************************************************)
EXTENDS BannerGrab, BannerText

ASSUME NameParameters == None \notin {"http", "other", "https", "tls", "tls port", "plain port"}

VARIABLES
    half,        \* "grab" or "name"
    port,        \* what portServices and tlsPortServices call the port: [plain, tls], or None
    signature,   \* the first signature the bytes match: "http", "other", or None
    tlsDetails,  \* whether there was a handshake
    name         \* Service: "http", "other", "https", "tls", "tls port", "plain port", or None

\* portServices has ports of services in the clear, that of http among them, and the TLS form of a
\* service at some of the ports of tlsPortServices, by the name it has there.
Ports ==
    [plain : {"http", "plain port", None}, tls : {None}]
    \cup [plain : {"tls port", None}, tls : {"tls port"}]

textVars == <<octets, at, run, line, rendered>>
nameVars == <<port, signature, tlsDetails, name>>
all == <<vars, half, textVars, nameVars>>

----------------------------------------------------------------------------
\* withTls and identify.  Mutant: the port's convention goes before what was said.
WithTls(said) ==
    IF port.tls # None THEN port.tls ELSE IF said = "http" THEN "https" ELSE said
PortFirst ==
    IF port.plain # None THEN port.plain
    ELSE IF signature = None THEN None
    ELSE IF tlsDetails THEN WithTls(signature) ELSE signature
Identified ==
    IF signature # None THEN (IF tlsDetails THEN WithTls(signature) ELSE signature)
    ELSE IF tlsDetails THEN (IF port.tls # None THEN port.tls ELSE "tls")
    ELSE port.plain

StartGrab ==
    /\ half = "grab" /\ Init
    /\ TextInit(<<>>)
    /\ port = [plain |-> None, tls |-> None] /\ signature = None /\ tlsDetails = FALSE /\ name = None

\* newBanner is called with bytes, a handshake, or both.
StartBanner ==
    /\ half = "name" /\ Init
    /\ input = <<"syn", FALSE, FALSE, FALSE, CHOOSE s \in Services : TRUE, None>>
    /\ \E n \in 0..Length : \E bytes \in [1..n -> Octet] : TextInit(bytes)
    /\ tlsDetails \in BOOLEAN /\ (tlsDetails \/ octets # <<>>)
    /\ signature \in (IF octets = <<>> THEN {None} ELSE {None, "http", "other"})
    /\ port \in Ports
    /\ name = None

Render ==
    /\ half = "name" /\ TextNext
    /\ name' = IF rendered' THEN Identified ELSE None
    /\ UNCHANGED <<vars, half, port, signature, tlsDetails>>

Rendered == rendered /\ UNCHANGED all

GrabStep ==
    /\ half = "grab" /\ Next
    /\ UNCHANGED <<half, textVars, nameVars>>

BannerSpec == (StartGrab \/ StartBanner) /\ [][GrabStep \/ Render \/ Rendered]_all

----------------------------------------------------------------------------
\* "What was said outranks where it was said" (identify.go:230): without a handshake a signature
\* names the service, whatever the port, and the port's convention in the clear is told only of bytes
\* that match none.  A handshake is something said too: after one the service is never called by
\* that convention, nor http, but has the name of the port's TLS form if it is known by one; with a
\* signature on another port it keeps its own.  Without a name there was nothing to go by.  The text
\* is one line of what is worth keeping.
BannerTellsWhatWasSaid ==
    /\ TextIsOneLine
    /\ rendered =>
          /\ (signature # None /\ ~tlsDetails) => name = signature
          /\ name = "plain port" => signature = None /\ ~tlsDetails
          /\ tlsDetails => name # "http" /\ (port.tls # None => name = port.tls)
          /\ (signature = "other" /\ port.tls = None) => name = "other"
          /\ name = None <=> signature = None /\ ~tlsDetails /\ port.plain = None
===============================================================================
