----------------------------- MODULE MCScanOrder -----------------------------
\* Instances of ScanOrder for TLC: four-byte addresses of three bits, sixteen-byte ones of five,
\* a uint64 of five bits; quadratic round functions, with values over the whole word.
EXTENDS ScanOrder

Network(width, n, maskWidth, hosts) ==
    [ip |-> Address(width, n), mask |-> [width |-> maskWidth, hosts |-> hosts]]

V4 == {Network(4, n, 4, h) : n \in {3, 7}, h \in {1, 2, 4, 8}}
V6 == {Network(6, n, 6, h) : n \in {1, 31}, h \in {1, 4, 16}} \cup {Network(6, 1, 6, 32)}
\* IPv4-mapped addresses under either mask, IPv4 ones under a sixteen-byte mask, an IPv6 address
\* under an IPv4 mask, and a mask that is no prefix; two of the sixteen-byte masks are too short.
Odd == {Network(6, 8, 4, 4), Network(6, 14, 6, 4), Network(4, 5, 6, 2), Network(4, 5, 6, 16),
        Network(6, 9, 6, 32), Network(6, 1, 4, 2), Network(4, 1, 4, 0), Nil}
Networks == V4 \cup V6 \cup Odd

\* The second of two networks is one of the plain ones, or overlaps the first in another form.
MCNetworkLists ==
    {<<>>} \cup {<<n>> : n \in Networks}
    \cup {<<m, n>> : m \in Networks, n \in {Network(4, 3, 4, 2), Network(6, 14, 6, 4), Network(6, 31, 6, 4)}}
    \cup {<<Network(4, 7, 4, 1), m, Network(4, 3, 4, 4)>> : m \in V6}
MCPortLists == {<<>>, <<2>>, <<3, 1, 2>>, <<2, 3, 2>>, <<1, 4>>}

MCSizes == 1..15
MCSeeds == {<<0, 0, 0>>, <<3, 1, 0>>, <<1, 3, 2>>, <<2, 2, 1>>}
MCRound(s, j, right) == (s[1] + j * s[2] * (right + 3) + s[3] * right * right + 5 * j) % W

\* One address is unreachable; the sources of IPv4 come in both forms.
MCRoute(n) ==
    CASE n = 14 -> Nil
      [] n \in 8..11 -> Address(6, 8 + (n % 2))
      [] n \in 12..15 -> Address(4, 2)
      [] OTHER -> Address(6, n % 4)
===============================================================================
