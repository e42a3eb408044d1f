-------------------------------- MODULE MCProgram --------------------------------
\* A host with two interfaces of which one or both are up, and every way to name them: none, one,
\* both in either order, the same twice, and one that does not exist; port specifications with
\* ranges, repeated and reversed ones, blank entries among others and alone, and what is no port.
EXTENDS Program

CONSTANTS a, b, c, r1, r2

MCUpInterfaces == {<<>>, <<a>>, <<a, b>>}
NameLists == {<<>>, <<a>>, <<b, a>>, <<a, a>>, <<a, c>>}

MCDefault == [concurrency |-> 500, timeout |-> 1000, sendAttempts |-> 3, sendRetryWait |-> 250,
              connectTimeout |-> 2000]

Flags(concurrency, timeout, connectTimeout, ipv6, interfaces, connect) ==
    [concurrency |-> concurrency, timeout |-> timeout, connectTimeout |-> connectTimeout,
     ipv6 |-> ipv6, interfaces |-> interfaces, connect |-> connect]
\* What main may pass, and an importer who passes nothing or what no scan can run with.
MCOptionLists ==
    {ScanOptions(Flags(2, 1, 0, ipv6, names, FALSE)) : ipv6 \in BOOLEAN, names \in NameLists}
    \cup {ScanOptions(Flags(n, t, -1, TRUE, <<>>, connect)) :
             n \in {0, 2, 501}, t \in {0, 1}, connect \in BOOLEAN}
    \cup {<<>>, <<[sendAttempts |-> 0]>>, <<[interfaceNames |-> <<b>>], [interfaceNames |-> <<a>>]>>,
          <<[sendRetryWait |-> -1], [sendAttempts |-> 1]>>}

Single(n) == [first |-> n, last |-> None]
Between(m, n) == [first |-> m, last |-> n]

MCDefaultPortsSpec == <<Single(2), Single(2)>>
MCSpecs == {<<>>, <<Between(1, 3), Single(2)>>, <<Single(4), Between(3, 3)>>, <<Between(3, 2)>>,
            <<Single(1), Between(2, 5)>>, <<Single(0)>>, <<None, Single(3), None>>, <<None, None>>}
==================================================================================
