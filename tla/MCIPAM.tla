------------------------------- MODULE MCIPAM -------------------------------
(* Instances of IPAM for TLC. *)
EXTENDS IPAM, TLC

CONSTANTS lb1, lb2,     \* load balancers
          pool1, pool2  \* pools

\* A /28-like subnet with addresses start..end in it, gateway gw.
Rng(start, end, gw) == [lo |-> 0, hi |-> 15, start |-> start, end |-> end, gw |-> gw]

\* Pool pool1 has two addresses, or only the second one, the first being the
\* gateway or left out; pool2 has another one.
TwoIPs   == <<Rng(1, 2, None)>>
SecondIP == <<Rng(1, 2, 1)>>
NotFirst == <<Rng(2, 2, None)>>
ThirdIP  == <<Rng(3, 3, None)>>

OnePool    == [x \in {pool1} |-> {TwoIPs, SecondIP}]
OnePoolFix == [x \in {pool1} |-> {TwoIPs}]
TwoPools   == [x \in {pool1, pool2} |-> IF x = pool1 THEN {TwoIPs, NotFirst} ELSE {ThirdIP}]

InP(ipam)  == [pool |-> pool1, ipam |-> ipam]
InQ(ipam)  == [pool |-> pool2, ipam |-> ipam]
Auto(ipam) == [pool |-> None, ipam |-> ipam]

SpecsP    == {InP("pool")}
SpecsPDef == {InP("")}
SpecsAll  == {InP("pool"), InQ(""), Auto("pool"), InP("dhcp")}

PreferP  == [l \in LBs |-> <<pool1>>]
PreferQP == [l \in LBs |-> <<pool2, pool1>>]

Symmetry == Permutations(LBs)
=============================================================================
