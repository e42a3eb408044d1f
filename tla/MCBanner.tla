------------------------------- MODULE MCBanner -------------------------------
\* Instances of Banner for TLC.
EXTENDS Banner

\* A length that is not set keeps its default.
MCOptions == [dialTimeout |-> 1, timeout |-> 2, settleTimeout |-> 1, length |-> 0]
MCDefaults == [dialTimeout |-> 2, timeout |-> 3, settleTimeout |-> 2, length |-> 4]

\* Services that speak first, when asked, or not at all, in a byte or in more than is kept.
MCServices ==
    {s \in [tls : BOOLEAN, first : BOOLEAN, asked : BOOLEAN, objects : BOOLEAN, prompt : BOOLEAN,
            size : {1, 5}] :
        ~(s.first /\ s.asked) /\ (s.size = 1 \/ s.first \/ s.asked)}
MCDeadlines == {None, 3}
===============================================================================
