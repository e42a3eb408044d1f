----------------------------- MODULE MCConnectScan -----------------------------
\* Instances of ConnectScan for TLC.
EXTENDS ConnectScanInv

CONSTANTS a1, a2

OneAddress == <<a1>>
TwoAddresses == <<a1, a2>>
TwoPorts == <<1, 2>>
OnePort == <<1>>

FirstIsOpen == {<<a1, 1>>, <<a2, 2>>}
AllEndpoints == {a1, a2} \X {1, 2}
NoFault == {}
===============================================================================
