------------------------------- MODULE Ranges -------------------------------
(***************************************************************************)
(* The address ranges of an IP pool: how a range of the pool's spec        *)
(* becomes an allocator range (pkg/ipam/allocator.go, rangeset.go), and    *)
(* the questions host-local asks about ranges (vendored allocator).        *)
(*                                                                         *)
(* An address is a natural number.  A range is a record                    *)
(*   [lo, hi: the subnet, start, end: RangeStart and RangeEnd, gw]         *)
(* and a range set is a non-empty sequence of ranges.                      *)
(***************************************************************************)
EXTENDS GoInts, Sequences, SequencesExt

CONSTANT None        \* Go's nil or "": no address, no pool, no owner

ASSUME NoneAssumption == None \notin Int

-----------------------------------------------------------------------------
(* From the spec of a pool to ranges *)

\* parseIP: an unset field takes the default; a set one must lie in the subnet
\* and be neither its network nor its broadcast address.
ValidIP(s, ip) ==
    ip = None \/ ip \in s.net + 1 .. s.net + 2^s.host - 2

ParseIP(ip, default) == IF ip = None THEN default ELSE ip

\* lastIP: the last address of a subnet, excluding the broadcast if IPv4.
LastIP(s) == s.net + 2^s.host - 1 - (IF s.family = "v4" THEN 1 ELSE 0)

\* A range spec s is [family, net, host, start, end, gw]: subnet s.net with
\* s.host host bits.  MakeRange fails on a field that parseIP refuses.
ValidRange(s) ==
    /\ ValidIP(s, s.start)
    /\ ValidIP(s, s.end)
    /\ ValidIP(s, s.gw)

\* The p2p mask ffffffff is the mask of an IPv4 /32 only.
IsPointToPoint(s) == s.family = "v4" /\ s.host = 0

\* A mutant: start and end are not swapped.
MakeRangeUnordered(s) ==
    LET p2p == IsPointToPoint(s)
    IN  [lo    |-> s.net,
         hi    |-> s.net + 2^s.host - 1,
         start |-> ParseIP(s.start, IF p2p THEN s.net ELSE s.net + 1),
         end   |-> ParseIP(s.end, IF p2p THEN s.net ELSE LastIP(s)),
         gw    |-> ParseIP(s.gw, IF p2p THEN None ELSE s.net + 1)]

MakeRange(s) ==
    LET p2p   == IsPointToPoint(s)
        start == ParseIP(s.start, IF p2p THEN s.net ELSE s.net + 1)
        end   == ParseIP(s.end, IF p2p THEN s.net ELSE LastIP(s))
        gw    == ParseIP(s.gw, IF p2p THEN None ELSE s.net + 1)
    IN  [lo    |-> s.net,
         hi    |-> s.net + 2^s.host - 1,
         start |-> IF start > end THEN end ELSE start,
         end   |-> IF start > end THEN start ELSE end,
         gw    |-> gw]

\* LBRangesToAllocatorRangeSet.
MakeRangeSet(specs) == [i \in DOMAIN specs |-> MakeRange(specs[i])]

\* What a range set is once MakeRange has accepted every spec: the addresses
\* of a range are within its subnet.
IsRangeSet(rs) ==
    /\ rs \in Seq([lo : Nat, hi : Nat, start : Nat, end : Nat, gw : Nat \cup {None}])
    /\ rs # <<>>
    /\ \A i \in DOMAIN rs : rs[i].lo <= rs[i].start /\ rs[i].start <= rs[i].end
                              /\ rs[i].end <= rs[i].hi

-----------------------------------------------------------------------------
(* Questions about ranges *)

\* Range.Contains: in the subnet and between start and end; the gateway too.
RangeContains(r, ip) ==
    /\ ip # None
    /\ ip \in r.lo .. r.hi
    /\ ip \in r.start .. r.end

\* RangeSet.Contains and RangeSet.RangeFor.
InRangeSet(rs, ip) == \E i \in DOMAIN rs : RangeContains(rs[i], ip)

RangeFor(rs, ip) ==
    rs[CHOOSE i \in DOMAIN rs :
          /\ RangeContains(rs[i], ip)
          /\ \A j \in DOMAIN rs : RangeContains(rs[j], ip) => i <= j]

\* Range.Overlaps, RangeSet.Overlaps.
Overlaps(r, q) ==
    \/ RangeContains(r, q.start) \/ RangeContains(r, q.end)
    \/ RangeContains(q, r.start) \/ RangeContains(q, r.end)

RangeSetsOverlap(rs, qs) ==
    \E i \in DOMAIN rs, j \in DOMAIN qs : Overlaps(rs[i], qs[j])

\* checkRange of the pool webhook, on the ranges of the pool itself.
SelfDisjoint(rs) ==
    \A i, j \in DOMAIN rs : i < j => ~Overlaps(rs[i], rs[j])

\* A mutant: the gateway is counted.
CountIPWithGateway(r) == Int64(r.end - r.start + 1)

\* countIP, and the total that NewAllocator sums up, as int64.
CountIP(r) ==
    Int64(Int64(r.end - r.start + 1) - (IF RangeContains(r, r.gw) THEN 1 ELSE 0))

Total(rs) ==
    LET sum[i \in 0 .. Len(rs)] == IF i = 0 THEN 0 ELSE Int64(sum[i - 1] + CountIP(rs[i]))
    IN  sum[Len(rs)]

-----------------------------------------------------------------------------
(* The order in which host-local offers addresses *)

\* Every address from start to end of every range, in order, with the gateway
\* of the range it was met in.
Walk(rs) ==
    FlattenSeq([i \in DOMAIN rs |->
                  [k \in 1 .. rs[i].end - rs[i].start + 1 |->
                      [ip |-> rs[i].start + k - 1, gw |-> rs[i].gw]]])

\* RangeIter.Next: what has been offered after k steps of a search that goes
\* once round the walk, from behind a position of it, and skips gateways.
Offered(walk, position) ==
    LET n == Len(walk)
        offered[k \in 0 .. n] ==
            IF k = 0 THEN <<>>
            ELSE LET e == walk[((position + k - 1) % n) + 1]
                 IN  IF e.ip = e.gw THEN offered[k - 1]
                                    ELSE Append(offered[k - 1], e.ip)
    IN  offered

\* GetIter: the search starts behind the last reserved address if the range set
\* contains it, else with the first one.
StartPosition(rs, last) ==
    IF InRangeSet(rs, last)
    THEN SelectInSeq(Walk(rs), LAMBDA e : e.ip = last)
    ELSE 0

\* The whole search.  Module RangeIter checks it against the iterator itself.
Candidates(rs, last) ==
    Offered(Walk(rs), StartPosition(rs, last))[Len(Walk(rs))]
=============================================================================
