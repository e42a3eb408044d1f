---------------------------- MODULE MCCaptureHandle ----------------------------
\* An instance of CaptureHandle for TLC: a few packets in a row, and each kind of packet alone.
EXTENDS CaptureHandle

CONSTANTS r1, r2

Reply4 ==
    [link |-> "ipv4", outgoing |-> FALSE, version |-> 4, words |-> 5, protocol |-> 6, more |-> 0,
     fragment |-> 0, port |-> listenPort, flags |-> {"SYN", "ACK"}, length |-> 40]
Reply6 == [Reply4 EXCEPT !.link = "ipv6", !.version = 6, !.words = 0, !.length = 60]
Arp == [Reply4 EXCEPT !.link = "other", !.version = 0, !.words = 0, !.length = 28]

\* A header with options, ports out of reach, another port, protocol or flags; fragments.
Varied(p) ==
    {[p EXCEPT !.words = w, !.protocol = t, !.fragment = f, !.port = q, !.length = l] :
        w \in {5, 6}, t \in {6, 17}, f \in {0, 1}, q \in {listenPort, listenPort + 1}, l \in {23, 44}}
Kinds ==
    Varied(Reply4) \cup
    {[Reply6 EXCEPT !.protocol = t, !.port = q, !.length = l] :
        t \in {6, 60}, q \in {listenPort, listenPort + 1}, l \in {43, 60}}
    \cup {[Reply4 EXCEPT !.more = 1], [Reply4 EXCEPT !.flags = {"ACK", "RST"}], Arp}

MCPacketLists ==
    {<<Reply4, [Reply4 EXCEPT !.outgoing = TRUE], Reply6, [Reply4 EXCEPT !.link = "other"]>>}
    \cup {<<p>> : p \in Kinds}
================================================================================
