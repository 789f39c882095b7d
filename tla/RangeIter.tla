----------------------------- MODULE RangeIter ------------------------------
(***************************************************************************)
(* The iterator of host-local (GetIter, RangeIter.Next) over the ranges    *)
(* that pkg/ipam makes from a pool's spec, one advance per step, so that   *)
(* what it offers can be compared with the counts the pool reports.        *)
(***************************************************************************)
EXTENDS Ranges

CONSTANTS RangeSpecs,   \* the range specs a pool may be given
          MaxRanges     \* bound: ranges per pool

ASSUME MaxRangesAssumption == MaxRanges \in Nat \ {0}

\* The fields of a range spec, and that a subnet of more than one address has
\* two.  An IPv6 /128 is left out: lastIP and the p2p mask do not fit it.
ASSUME RangeSpecsAssumption ==
    \A s \in RangeSpecs :
        /\ s.family \in {"v4", "v6"}
        /\ s.net \in Nat /\ s.host \in Nat
        /\ {s.start, s.end, s.gw} \subseteq Nat \cup {None}
        /\ s.family = "v6" => s.host > 0
        /\ 2^s.host \in Nat
        /\ s.host = 0 => 2^s.host = 1
        /\ s.host > 0 => 2^s.host >= 2

VARIABLES rs,       \* the range set of the allocator
          last,     \* LastReservedIP when GetIter is called
          idx,      \* RangeIter.rangeIdx, counted from 1
          cur,      \* RangeIter.cur
          startIP,  \* RangeIter.startIP
          out,      \* the addresses Next has returned so far
          pc        \* "getIter", "next" or "done" (Next returned nil)

vars == <<rs, last, idx, cur, startIP, out, pc>>

Addresses == UNION {s.net .. s.net + 2^s.host : s \in RangeSpecs}

TypeOK ==
    /\ last \in Addresses \cup {None}
    /\ idx \in DOMAIN rs
    /\ cur \in Addresses \cup {None}
    /\ startIP \in Addresses \cup {None}
    /\ out \in Seq(Addresses)
    /\ pc \in {"getIter", "next", "done"}

-----------------------------------------------------------------------------
\* Any non-empty range set that MakeRange and the pool webhook accept, and any
\* address the pool may have recorded as the last one allocated.
Init ==
    /\ \E n \in 1 .. MaxRanges : \E specs \in [1 .. n -> RangeSpecs] :
          /\ \A i \in 1 .. n : ValidRange(specs[i])
          /\ rs = MakeRangeSet(specs)
          /\ SelfDisjoint(rs)
    /\ last \in Addresses \cup {None}
    /\ idx = 1
    /\ cur = None
    /\ startIP = None
    /\ out = <<>>
    /\ pc = "getIter"

\* GetIter: position the cursor on the last reserved address, or before the
\* first range.
GetIter ==
    /\ pc = "getIter"
    /\ pc' = "next"
    /\ IF InRangeSet(rs, last)
       THEN /\ idx' = CHOOSE i \in DOMAIN rs :
                         /\ RangeContains(rs[i], last)
                         /\ \A j \in DOMAIN rs : RangeContains(rs[j], last) => i <= j
            /\ cur' = last
            /\ UNCHANGED startIP
       ELSE /\ idx' = 1
            /\ cur' = None
            /\ startIP' = rs[1].start
    /\ UNCHANGED <<rs, last, out>>

\* A mutant: gateways are offered.
OfferAny(r, ip) == out' = Append(out, ip)

\* Next returns ip unless it is the gateway of its range; then it calls itself.
Offer(r, ip) == out' = IF ip = r.gw THEN out ELSE Append(out, ip)

\* The first call, when not starting in the middle of a range.
NextFirst ==
    /\ pc = "next" /\ cur = None
    /\ cur' = rs[idx].start
    /\ startIP' = cur'
    /\ Offer(rs[idx], cur')
    /\ UNCHANGED <<rs, last, idx, pc>>

\* Two mutants: the first address is not remembered; coming back to it does
\* not end the search.
NextAdvanceForgets ==
    /\ pc = "next" /\ cur # None
    /\ idx' = IF cur = rs[idx].end THEN (idx % Len(rs)) + 1 ELSE idx
    /\ cur' = IF cur = rs[idx].end THEN rs[idx'].start ELSE cur + 1
    /\ IF cur' = startIP
       THEN pc' = "done" /\ UNCHANGED out
       ELSE Offer(rs[idx'], cur') /\ UNCHANGED pc
    /\ UNCHANGED <<rs, last, startIP>>

NextAdvanceEndless ==
    /\ pc = "next" /\ cur # None
    /\ idx' = IF cur = rs[idx].end THEN (idx % Len(rs)) + 1 ELSE idx
    /\ cur' = IF cur = rs[idx].end THEN rs[idx'].start ELSE cur + 1
    /\ startIP' = IF startIP = None THEN cur' ELSE startIP
    /\ IF cur' = startIP \/ cur' \in {out[i] : i \in DOMAIN out}
       THEN UNCHANGED out
       ELSE Offer(rs[idx'], cur')
    /\ UNCHANGED <<rs, last, pc>>

\* Every other call: the next address of the range, or the start of the next
\* range; give up when back at the start.
NextAdvance ==
    /\ pc = "next" /\ cur # None
    /\ idx' = IF cur = rs[idx].end THEN (idx % Len(rs)) + 1 ELSE idx
    /\ cur' = IF cur = rs[idx].end THEN rs[idx'].start ELSE cur + 1
    /\ startIP' = IF startIP = None THEN cur' ELSE startIP
    /\ IF startIP # None /\ cur' = startIP
       THEN pc' = "done" /\ UNCHANGED out
       ELSE Offer(rs[idx'], cur') /\ UNCHANGED pc
    /\ UNCHANGED <<rs, last>>

Finished == pc = "done" /\ UNCHANGED vars

Next == GetIter \/ NextFirst \/ NextAdvance \/ Finished

Spec == Init /\ [][Next]_vars /\ WF_vars(GetIter \/ NextFirst \/ NextAdvance)

-----------------------------------------------------------------------------
(* Properties *)

\* The iterator offers exactly the addresses of Candidates, in that order: the
\* definition the IPAM module allocates by is the one host-local implements,
\* whatever range the last reserved address is in, gateways included.
OffersCandidates == pc = "done" => out = Candidates(rs, last)

\* The Total that the pool reports (countIP, summed up by NewAllocator) is the
\* number of addresses the allocator can ever hand out, as far as an int64 can
\* hold it: exactly that number if it is below 2^63, although a range may wrap
\* around before its gateway is taken off, and else that number modulo 2^64 (an
\* IPv6 /64 with the default range reports -2).
TotalIsReachable == pc = "done" => Total(rs) = Int64(Len(out))

\* No address is offered twice in one search, so a search that finds every
\* address taken has really tried all of them.
OffersOnce == \A i, j \in DOMAIN out : out[i] = out[j] => i = j

\* The search of Get is finite: Next eventually returns nil, also when the last
\* reserved address has become a gateway or the only address of the pool.
SearchEnds == <>(pc = "done")
=============================================================================
