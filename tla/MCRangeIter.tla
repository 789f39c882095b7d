---------------------------- MODULE MCRangeIter -----------------------------
(* Small range specs for RangeIter: subnets of 1, 2, 4 and 8 addresses. *)
EXTENDS RangeIter

Spec4(net, host) ==
    [family : {"v4"}, net : {net}, host : {host},
     start : net + 1 .. net + 2^host - 2 \cup {None},
     end   : net + 1 .. net + 2^host - 2 \cup {None},
     gw    : net + 1 .. net + 2^host - 2 \cup {None}]

Spec6(net, host) == {[s EXCEPT !.family = "v6"] : s \in Spec4(net, host)}

\* IPv4: /32, /31, /30 and one /29, next to each other.
SpecsV4 ==
    Spec4(2, 0) \cup Spec4(4, 1) \cup Spec4(8, 2)
    \cup {s \in Spec4(16, 3) : s.start \in {None, 18, 21} /\ s.end \in {None, 19}}

\* IPv6 subnets with more than one address: /127 and /126.
SpecsV6 == Spec6(36, 1) \cup Spec6(40, 2)

MCRangeSpecs == SpecsV4 \cup SpecsV6
=============================================================================
