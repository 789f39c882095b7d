--------------------------- MODULE RangeIterProofs ---------------------------
(***************************************************************************)
(* The iterator of host-local over any range set that MakeRange and the    *)
(* pool webhook accept: it offers what Candidates says, in that order,     *)
(* every address once, and as many as Total counts.                        *)
(***************************************************************************)
EXTENDS RangeIter, RangesProofs

\* The position behind which the search starts, and its length.
From  == StartPosition(rs, last)
Steps == Len(Walk(rs))

\* The range set is one that Init allows.
GoodRanges ==
    /\ IsRangeSet(rs)
    /\ SelfDisjoint(rs)
    /\ \A i \in DOMAIN rs : rs[i].start .. rs[i].end \subseteq Addresses

\* The cursor is in its range, and k steps of the search have been made.
Reached(k) ==
    /\ idx \in DOMAIN rs
    /\ cur \in rs[idx].start .. rs[idx].end
    /\ out = Offered(Walk(rs), From)[k]
    /\ k = 0 => startIP = None /\ From # 0 /\ Walk(rs)[From].ip = cur
    /\ k > 0 => /\ startIP = Walk(rs)[At(Steps, From, 1)].ip
                /\ Walk(rs)[At(Steps, From, k)].ip = cur

\* The inductive invariant: before GetIter, before the first address, after k
\* steps, and at the end.
IterInv ==
    /\ GoodRanges
    /\ last \in Addresses \cup {None}
    /\ \/ /\ pc = "getIter"
          /\ idx = 1 /\ cur = None /\ startIP = None /\ out = <<>>
       \/ /\ pc = "next" /\ ~InRangeSet(rs, last)
          /\ idx = 1 /\ cur = None /\ startIP = rs[1].start /\ out = <<>>
       \/ pc = "next" /\ \E k \in 0 .. Steps : Reached(k)
       \/ /\ pc = "done"
          /\ idx \in DOMAIN rs /\ cur \in rs[idx].start .. rs[idx].end
          /\ out = Offered(Walk(rs), From)[Steps]
          /\ startIP = Walk(rs)[At(Steps, From, 1)].ip

-----------------------------------------------------------------------------
(* The range set *)

\* MakeRangeSet of accepted specs is a well-formed range set of addresses.
LEMMA RangeSetIsGood ==
    ASSUME NEW n \in 1 .. MaxRanges, NEW specs \in [1 .. n -> RangeSpecs],
           \A i \in 1 .. n : ValidRange(specs[i])
    PROVE  /\ IsRangeSet(MakeRangeSet(specs))
           /\ \A i \in DOMAIN MakeRangeSet(specs) :
                 MakeRangeSet(specs)[i].start .. MakeRangeSet(specs)[i].end \subseteq Addresses
<1> DEFINE R == [lo : Nat, hi : Nat, start : Nat, end : Nat, gw : Nat \cup {None}]
           q == MakeRangeSet(specs)
<1>0. n \in Nat \ {0} BY MaxRangesAssumption
<1>1. q = [i \in 1 .. n |-> MakeRange(specs[i])] BY DEF MakeRangeSet
<1>2. ASSUME NEW i \in 1 .. n
      PROVE  /\ MakeRange(specs[i]) \in R
             /\ MakeRange(specs[i]).lo = specs[i].net
             /\ MakeRange(specs[i]).hi = specs[i].net + 2^specs[i].host - 1
             /\ MakeRange(specs[i]).lo <= MakeRange(specs[i]).start
             /\ MakeRange(specs[i]).start <= MakeRange(specs[i]).end
             /\ MakeRange(specs[i]).end <= MakeRange(specs[i]).hi
  <2> DEFINE t == specs[i]
  <2>1. t \in RangeSpecs /\ ValidRange(t) OBVIOUS
  <2> HIDE DEF t
  <2>2. /\ t.family \in {"v4", "v6"} /\ t.net \in Nat /\ t.host \in Nat
        /\ {t.start, t.end, t.gw} \subseteq Nat \cup {None}
        /\ (t.family = "v6" => t.host > 0)
        /\ 2^t.host \in Nat /\ (t.host = 0 => 2^t.host = 1) /\ (t.host > 0 => 2^t.host >= 2)
    BY <2>1, RangeSpecsAssumption
  <2> HIDE DEF R
  <2>3. /\ MakeRange(t) \in R
        /\ MakeRange(t).lo = t.net
        /\ MakeRange(t).hi = t.net + 2^t.host - 1
        /\ MakeRange(t).lo <= MakeRange(t).start
        /\ MakeRange(t).start <= MakeRange(t).end
        /\ MakeRange(t).end <= MakeRange(t).hi
    BY <2>1, <2>2, MakeRangeFacts DEF R
  <2> QED BY <2>3 DEF t
<1>3. q \in Seq(R) /\ q # <<>> /\ DOMAIN q = 1 .. n
  <2> HIDE DEF q, R
  <2>1. q \in [1 .. n -> R] BY <1>1, <1>2
  <2>2. q \in Seq(R) /\ Len(q) = n BY <1>0, <2>1
  <2> QED BY <1>0, <1>1, <2>2
<1>4. \A i \in DOMAIN q : q[i].lo <= q[i].start /\ q[i].start <= q[i].end /\ q[i].end <= q[i].hi
  <2> HIDE DEF q, R
  <2> QED BY <1>1, <1>2, <1>3
<1>5. IsRangeSet(q)
  <2> HIDE DEF q
  <2> QED BY <1>3, <1>4 DEF IsRangeSet
<1>6. ASSUME NEW i \in DOMAIN q, NEW ip \in q[i].start .. q[i].end PROVE ip \in Addresses
  <2> DEFINE t == specs[i]
             size == 2^t.host
  <2>1. i \in 1 .. n /\ q[i] = MakeRange(t)
    <3> HIDE DEF q
    <3> QED BY <1>1, <1>3
  <2>2. t \in RangeSpecs BY <2>1
  <2>3. size \in Nat /\ t.net \in Nat BY <2>2, RangeSpecsAssumption
  <2>4. q[i].lo = t.net /\ q[i].hi = t.net + size - 1 BY <1>2, <2>1
  <2>5. q[i].start \in Nat /\ q[i].end \in Nat
    <3> HIDE DEF q
    <3> QED BY <1>5, BlockFacts
  <2>6. q[i].lo <= q[i].start /\ q[i].end <= q[i].hi BY <1>4
  <2>7. ip \in t.net .. t.net + size
    <3> HIDE DEF q, size, t
    <3> QED BY <2>3, <2>4, <2>5, <2>6
  <2> HIDE DEF t
  <2> QED BY <2>2, <2>7 DEF Addresses
<1> HIDE DEF q
<1>7. \A i \in DOMAIN q : q[i].start .. q[i].end \subseteq Addresses BY <1>6
<1> QED BY <1>5, <1>7 DEF q

\* What the proofs use of a good range set: the walk and where it starts.
LEMMA GoodFacts ==
    ASSUME GoodRanges
    PROVE  /\ Walk(rs) \in Seq(WalkEntries) /\ Steps \in Nat \ {0} /\ From \in 0 .. Steps
           /\ \A p, q \in 1 .. Steps : Walk(rs)[p].ip = Walk(rs)[q].ip => p = q
           /\ \A p \in 1 .. Steps : Walk(rs)[p].ip \in Nat \cap Addresses
           /\ \A k \in 1 .. Steps : At(Steps, From, k) \in 1 .. Steps
<1>1. IsRangeSet(rs) /\ SelfDisjoint(rs) BY DEF GoodRanges
<1>2. Walk(rs) \in Seq(WalkEntries) /\ Steps \in Nat \ {0} BY <1>1, WalkType DEF Steps
<1>3. From \in 0 .. Steps BY <1>1, StartPositionFacts DEF From, Steps
<1>4. \A p, q \in 1 .. Steps : Walk(rs)[p].ip = Walk(rs)[q].ip => p = q
  BY <1>1, WalkInjective DEF Steps
<1>5. ASSUME NEW p \in 1 .. Steps PROVE Walk(rs)[p].ip \in Nat \cap Addresses
  <2>1. PICK i \in DOMAIN rs : Walk(rs)[p].ip \in rs[i].start .. rs[i].end
    BY <1>1, WalkInRange DEF Steps
  <2>2. rs[i].start .. rs[i].end \subseteq Addresses BY DEF GoodRanges
  <2>3. Walk(rs)[p] \in WalkEntries BY <1>2 DEF Steps
  <2>4. Walk(rs)[p].ip \in Nat BY <2>3 DEF WalkEntries
  <2> QED BY <2>1, <2>2, <2>4
<1>6. \A k \in 1 .. Steps : At(Steps, From, k) \in 1 .. Steps BY <1>2, <1>3, AtFacts
<1> QED BY <1>2, <1>3, <1>4, <1>5, <1>6

-----------------------------------------------------------------------------
(* The invariant is inductive *)

\* Init: nothing has been offered yet.
LEMMA InitInv == Init => IterInv
<1> SUFFICES ASSUME Init PROVE IterInv OBVIOUS
<1>1. PICK n \in 1 .. MaxRanges : \E specs \in [1 .. n -> RangeSpecs] :
          /\ \A i \in 1 .. n : ValidRange(specs[i])
          /\ rs = MakeRangeSet(specs)
          /\ SelfDisjoint(rs)
  BY DEF Init
<1>2. PICK specs \in [1 .. n -> RangeSpecs] :
          /\ \A i \in 1 .. n : ValidRange(specs[i])
          /\ rs = MakeRangeSet(specs)
          /\ SelfDisjoint(rs)
  BY <1>1
<1>3. GoodRanges BY <1>2, RangeSetIsGood DEF GoodRanges
<1> QED BY <1>3 DEF Init, IterInv

\* A step that leaves the range set and the last address alone.
LEMMA SameSearch ==
    ASSUME GoodRanges, UNCHANGED <<rs, last>>
    PROVE  /\ GoodRanges' /\ From' = From /\ Steps' = Steps
           /\ Walk(rs)' = Walk(rs)
BY DEF GoodRanges, From, Steps, Addresses

\* GetIter puts the cursor where the search of Candidates starts.
LEMMA GetIterInv ==
    ASSUME IterInv, GetIter
    PROVE  IterInv'
<1>0. GoodRanges /\ last \in Addresses \cup {None} BY DEF IterInv
<1>1. UNCHANGED <<rs, last, out>> /\ pc = "getIter" /\ pc' = "next" BY DEF GetIter
<1>2. idx = 1 /\ cur = None /\ startIP = None /\ out = <<>> BY <1>1 DEF IterInv
<1>3. GoodRanges' /\ From' = From /\ Steps' = Steps /\ Walk(rs)' = Walk(rs)
  BY <1>0, <1>1, SameSearch
<1>4. CASE ~InRangeSet(rs, last)
  <2>1. idx' = 1 /\ cur' = None /\ startIP' = rs[1].start BY <1>4 DEF GetIter
  <2> QED BY <1>0, <1>1, <1>2, <1>3, <1>4, <2>1 DEF IterInv
<1>5. CASE InRangeSet(rs, last)
  <2> DEFINE T == {i \in DOMAIN rs : RangeContains(rs[i], last)}
             Least(i) == /\ RangeContains(rs[i], last)
                         /\ \A j \in DOMAIN rs : RangeContains(rs[j], last) => i <= j
  <2>1. T \subseteq Nat /\ T # {}
    <3>1. DOMAIN rs \subseteq Nat BY <1>0, RangeSetLen DEF GoodRanges
    <3> QED BY <1>5, <3>1 DEF InRangeSet
  <2>2. PICK m \in T : \A j \in T : m <= j
    <3> HIDE DEF T
    <3> QED BY <2>1, LeastNumber
  <2>3. m \in DOMAIN rs /\ Least(m) BY <2>2
  <2>4. idx' = (CHOOSE i \in DOMAIN rs : Least(i)) /\ cur' = last /\ startIP' = startIP
    BY <1>5 DEF GetIter
  <2> HIDE DEF Least
  <2>5. idx' \in DOMAIN rs /\ Least(idx') BY <2>3, <2>4
  <2>6. last \in rs[idx'].start .. rs[idx'].end BY <2>5 DEF Least, RangeContains
  <2>7. From # 0 /\ Walk(rs)[From].ip = last
    BY <1>0, <1>5, StartPositionFacts DEF From, GoodRanges
  <2>8. Offered(Walk(rs), From)[0] = <<>> BY <1>0, GoodFacts, OfferedStep DEF Steps
  <2>9. Reached(0)'
    BY <1>1, <1>2, <1>3, <2>4, <2>5, <2>6, <2>7, <2>8 DEF Reached
  <2>10. 0 \in 0 .. Steps BY <1>0, GoodFacts
  <2> QED BY <1>0, <1>1, <1>3, <2>9, <2>10 DEF IterInv
<1> QED BY <1>4, <1>5

\* One more address: what has been offered is one step of Candidates further.
LEMMA OfferStep ==
    ASSUME GoodRanges, NEW k \in 1 .. Steps, NEW r, NEW ip,
           Walk(rs)[At(Steps, From, k)] = [ip |-> ip, gw |-> r.gw],
           out = Offered(Walk(rs), From)[k - 1],
           Offer(r, ip)
    PROVE  out' = Offered(Walk(rs), From)[k]
<1>1. Walk(rs) \in Seq(WalkEntries) /\ Steps \in Nat \ {0} /\ From \in 0 .. Steps BY GoodFacts
<1> DEFINE e == Walk(rs)[At(Steps, From, k)]
           f == Offered(Walk(rs), From)
<1>2. f[k] = IF e.ip = e.gw THEN f[k - 1] ELSE Append(f[k - 1], e.ip)
  BY <1>1, OfferedStep DEF Steps
<1>3. e.ip = ip /\ e.gw = r.gw OBVIOUS
<1> HIDE DEF e, f
<1>4. out = f[k - 1] BY DEF f
<1>5. out' = IF ip = r.gw THEN out ELSE Append(out, ip) BY DEF Offer
<1>6. out' = f[k] BY <1>2, <1>3, <1>4, <1>5
<1> QED BY <1>6 DEF f

\* The first call of Next makes the first step.
LEMMA NextFirstInv ==
    ASSUME IterInv, NextFirst
    PROVE  IterInv'
<1>0. GoodRanges /\ last \in Addresses \cup {None} BY DEF IterInv
<1>1. /\ UNCHANGED <<rs, last, idx, pc>> /\ pc = "next" /\ cur = None
      /\ cur' = rs[idx].start /\ startIP' = cur' /\ Offer(rs[idx], cur')
  BY DEF NextFirst
<1>2. /\ IsRangeSet(rs) /\ DOMAIN rs = 1 .. Len(rs) /\ 1 \in DOMAIN rs
  BY <1>0, RangeSetLen DEF GoodRanges
<1>3. ~InRangeSet(rs, last) /\ idx = 1 /\ out = <<>>
  <2>1. ASSUME NEW k \in 0 .. Steps, Reached(k) PROVE FALSE
    <3>1. idx \in DOMAIN rs /\ cur \in rs[idx].start .. rs[idx].end BY <2>1 DEF Reached
    <3>2. rs[idx].start \in Nat /\ rs[idx].end \in Nat BY <1>2, <3>1, BlockFacts
    <3> QED BY <1>1, <3>1, <3>2, NoneAssumption
  <2> QED BY <1>1, <2>1 DEF IterInv
<1>4. GoodRanges' /\ From' = From /\ Steps' = Steps /\ Walk(rs)' = Walk(rs)
  BY <1>0, <1>1, SameSearch
<1>5. /\ Walk(rs) \in Seq(WalkEntries) /\ Steps \in Nat \ {0} /\ 1 \in 1 .. Steps
  BY <1>0, GoodFacts
<1>6. From = 0 BY <1>2, <1>3, StartPositionFacts DEF From
<1>7. At(Steps, From, 1) = 1
  <2>1. 0 \in 0 .. Steps BY <1>5
  <2> QED BY <1>5, <1>6, <2>1, AtFacts
<1>8. Walk(rs)[1] = [ip |-> rs[1].start, gw |-> rs[1].gw] BY <1>2, WalkType
<1>9. Offered(Walk(rs), From)[0] = <<>> BY <1>0, GoodFacts, OfferedStep DEF Steps
<1>10. out' = Offered(Walk(rs), From)[1]
  <2>1. out = Offered(Walk(rs), From)[1 - 1] BY <1>3, <1>9
  <2>2. Walk(rs)[At(Steps, From, 1)] = [ip |-> cur', gw |-> rs[idx].gw]
    BY <1>1, <1>3, <1>7, <1>8
  <2> QED BY <1>0, <1>1, <1>5, <2>1, <2>2, OfferStep
<1>11. cur' \in rs[idx'].start .. rs[idx'].end
  <2>1. rs[1].start \in Nat /\ rs[1].end \in Nat /\ Size(rs[1]) \in Nat \ {0}
    BY <1>2, BlockFacts
  <2> QED BY <1>1, <1>3, <2>1 DEF Size
<1>12. Walk(rs)[At(Steps, From, 1)].ip = cur' BY <1>1, <1>3, <1>7, <1>8
<1>13. Reached(1)'
  BY <1>1, <1>2, <1>3, <1>4, <1>10, <1>11, <1>12 DEF Reached
<1>14. 1 \in 0 .. Steps BY <1>5
<1> QED BY <1>0, <1>1, <1>4, <1>13, <1>14 DEF IterInv

\* Every other call makes one more step, or ends where the search began.
LEMMA NextAdvanceInv ==
    ASSUME IterInv, NextAdvance
    PROVE  IterInv'
<1>0. GoodRanges /\ last \in Addresses \cup {None} BY DEF IterInv
<1> DEFINE j    == NextRange(rs, idx, cur)
           nip  == NextIP(rs, idx, cur)
           walk == Walk(rs)
<1>1. /\ UNCHANGED <<rs, last>> /\ pc = "next" /\ cur # None
      /\ idx' = j /\ cur' = nip
      /\ startIP' = IF startIP = None THEN cur' ELSE startIP
      /\ IF startIP # None /\ cur' = startIP
         THEN pc' = "done" /\ out' = out
         ELSE Offer(rs[idx'], cur') /\ pc' = pc
  <2>1. idx' = j BY DEF NextAdvance, NextRange
  <2>2. cur' = IF cur = rs[idx].end THEN rs[idx'].start ELSE cur + 1 BY DEF NextAdvance
  <2>3. cur' = nip BY <2>1, <2>2 DEF NextIP
  <2> HIDE DEF j, nip
  <2> QED BY <2>1, <2>3 DEF NextAdvance
<1>2. PICK k \in 0 .. Steps : Reached(k) BY <1>1 DEF IterInv
<1>3. /\ IsRangeSet(rs) /\ SelfDisjoint(rs) BY <1>0 DEF GoodRanges
<1>4. /\ walk \in Seq(WalkEntries) /\ Steps \in Nat \ {0} /\ From \in 0 .. Steps
      /\ \A p, q \in 1 .. Steps : walk[p].ip = walk[q].ip => p = q
      /\ \A p \in 1 .. Steps : walk[p].ip \in Nat
      /\ \A m \in 1 .. Steps : At(Steps, From, m) \in 1 .. Steps
  BY <1>0, GoodFacts
<1>5. GoodRanges' /\ From' = From /\ Steps' = Steps /\ Walk(rs)' = Walk(rs)
  BY <1>0, <1>1, SameSearch
<1>6. idx \in DOMAIN rs /\ cur \in rs[idx].start .. rs[idx].end
      /\ out = Offered(walk, From)[k]
  BY <1>2 DEF Reached
<1>7. ASSUME NEW p \in 1 .. Steps, walk[p].ip = cur
      PROVE  /\ (p % Steps) + 1 \in 1 .. Steps
             /\ idx' \in DOMAIN rs /\ cur' \in rs[idx'].start .. rs[idx'].end
             /\ walk[(p % Steps) + 1] = [ip |-> cur', gw |-> rs[idx'].gw]
  <2>1. /\ (p % Steps) + 1 \in 1 .. Steps
        /\ j \in DOMAIN rs /\ nip \in rs[j].start .. rs[j].end
        /\ walk[(p % Steps) + 1] = [ip |-> nip, gw |-> rs[j].gw]
    <3>1. p \in 1 .. Len(Walk(rs)) /\ Walk(rs)[p].ip = cur BY <1>7 DEF Steps
    <3> QED BY <1>3, <1>6, <3>1, WalkNext DEF Steps
  <2> HIDE DEF j, nip
  <2> QED BY <1>1, <2>1
<1> HIDE DEF j, nip, walk
<1>8. CASE k = 0
  <2>1. startIP = None /\ From # 0 /\ walk[From].ip = cur BY <1>2, <1>8 DEF Reached, walk
  <2>2. From \in 1 .. Steps /\ 1 \in 1 .. Steps /\ 1 \in 0 .. Steps BY <1>4, <2>1
  <2>3. (From % Steps) + 1 = At(Steps, From, 1)
    <3>1. From + 1 - 1 = From BY <1>4
    <3> QED BY <3>1 DEF At
  <2>4. /\ idx' \in DOMAIN rs /\ cur' \in rs[idx'].start .. rs[idx'].end
        /\ walk[At(Steps, From, 1)] = [ip |-> cur', gw |-> rs[idx'].gw]
    BY <1>7, <2>1, <2>2, <2>3
  <2>5. Offer(rs[idx'], cur') /\ pc' = "next" /\ startIP' = cur' BY <1>1, <2>1
  <2>6. out' = Offered(walk, From)[1]
    <3>1. out = Offered(walk, From)[1 - 1] BY <1>6, <1>8
    <3> QED BY <1>0, <2>2, <2>4, <2>5, <3>1, OfferStep DEF walk
  <2>7. walk[At(Steps, From, 1)].ip = cur' BY <2>4
  <2>8. Reached(1)'
    BY <1>1, <1>5, <2>4, <2>5, <2>6, <2>7 DEF Reached, walk
  <2> QED BY <1>0, <1>1, <1>5, <2>2, <2>5, <2>8 DEF IterInv
<1>9. CASE k # 0
  <2>1. startIP = walk[At(Steps, From, 1)].ip /\ walk[At(Steps, From, k)].ip = cur
    <3>1. k > 0 BY <1>4, <1>9
    <3> QED BY <1>2, <3>1 DEF Reached, walk
  <2>2. k \in 1 .. Steps /\ 1 \in 1 .. Steps BY <1>4, <1>9
  <2>3. startIP # None
    <3>1. At(Steps, From, 1) \in 1 .. Steps BY <1>4, <2>2
    <3>2. startIP \in Nat BY <1>4, <2>1, <3>1
    <3> QED BY <3>2, NoneAssumption
  <2> DEFINE p == At(Steps, From, k)
  <2>4. /\ idx' \in DOMAIN rs /\ cur' \in rs[idx'].start .. rs[idx'].end
        /\ walk[(p % Steps) + 1] = [ip |-> cur', gw |-> rs[idx'].gw]
    BY <1>4, <1>7, <2>1, <2>2
  <2>5. CASE k = Steps
    <3>1. (p % Steps) + 1 = At(Steps, From, 1) BY <1>4, <2>5, AtLast
    <3>2. cur' = startIP BY <2>1, <2>4, <3>1
    <3>3. pc' = "done" /\ out' = out /\ startIP' = startIP BY <1>1, <2>3, <3>2
    <3> QED BY <1>0, <1>1, <1>5, <1>6, <2>1, <2>4, <2>5, <3>3 DEF IterInv, walk
  <2>6. CASE k # Steps
    <3>1. k \in 1 .. Steps - 1 /\ k + 1 \in 1 .. Steps /\ (k + 1) - 1 = k BY <1>4, <2>2, <2>6
    <3>2. (p % Steps) + 1 = At(Steps, From, k + 1) BY <1>4, <3>1, AtNext
    <3>3. walk[At(Steps, From, k + 1)] = [ip |-> cur', gw |-> rs[idx'].gw] BY <2>4, <3>2
    <3>4. walk[At(Steps, From, k + 1)].ip = cur' BY <3>3
    <3>5. cur' # startIP
      <4> SUFFICES ASSUME cur' = startIP PROVE FALSE OBVIOUS
      <4>1. At(Steps, From, k + 1) = At(Steps, From, 1)
        <5>1. At(Steps, From, k + 1) \in 1 .. Steps /\ At(Steps, From, 1) \in 1 .. Steps
          BY <1>4, <2>2, <3>1
        <5>2. walk[At(Steps, From, k + 1)].ip = walk[At(Steps, From, 1)].ip BY <2>1, <3>4
        <5> QED BY <1>4, <5>1, <5>2
      <4>2. k + 1 = 1 BY <1>4, <2>2, <3>1, <4>1, AtInjective
      <4> QED BY <2>2, <4>2
    <3>6. Offer(rs[idx'], cur') /\ pc' = "next" /\ startIP' = startIP BY <1>1, <2>3, <3>5
    <3>7. out' = Offered(walk, From)[k + 1]
      <4>1. out = Offered(walk, From)[(k + 1) - 1] BY <1>6, <3>1
      <4> QED BY <1>0, <3>1, <3>3, <3>6, <4>1, OfferStep DEF walk
    <3>8. k + 1 > 0 /\ k + 1 # 0 /\ k + 1 \in 0 .. Steps BY <1>4, <3>1
    <3>9. Reached(k + 1)'
      BY <1>1, <1>5, <2>1, <2>4, <3>4, <3>6, <3>7, <3>8 DEF Reached, walk
    <3> QED BY <1>0, <1>1, <1>5, <3>6, <3>8, <3>9 DEF IterInv
  <2> QED BY <2>5, <2>6
<1> QED BY <1>8, <1>9

\* Every step of the iterator keeps the invariant.
LEMMA NextInv == IterInv /\ [Next]_vars => IterInv'
<1> SUFFICES ASSUME IterInv, [Next]_vars PROVE IterInv' OBVIOUS
<1>1. CASE GetIter BY <1>1, GetIterInv
<1>2. CASE NextFirst BY <1>2, NextFirstInv
<1>3. CASE NextAdvance BY <1>3, NextAdvanceInv
<1>4. CASE Finished \/ UNCHANGED vars
  <2>1. UNCHANGED vars BY <1>4 DEF Finished
  <2> QED BY <2>1 DEF vars, IterInv, GoodRanges, Reached, From, Steps, Addresses
<1> QED BY <1>1, <1>2, <1>3, <1>4 DEF Next

\* The invariant holds in every reachable state.
LEMMA SearchInv == Spec => []IterInv
BY InitInv, NextInv, PTL DEF Spec

-----------------------------------------------------------------------------
(* What it gives *)

\* What has been offered so far is what a search of some number of steps offers.
LEMMA OutIsOffered ==
    ASSUME IterInv
    PROVE  \E k \in 0 .. Steps : out = Offered(Walk(rs), From)[k]
<1>1. GoodRanges BY DEF IterInv
<1>2. Steps \in Nat /\ 0 \in 0 .. Steps /\ Steps \in 0 .. Steps BY <1>1, GoodFacts
<1>3. Offered(Walk(rs), From)[0] = <<>> BY <1>1, GoodFacts, OfferedStep DEF Steps
<1>4. ASSUME NEW k \in 0 .. Steps, Reached(k) PROVE out = Offered(Walk(rs), From)[k]
  BY <1>4 DEF Reached
<1> QED BY <1>2, <1>3, <1>4 DEF IterInv

\* Type correctness, from the invariant.
LEMMA TypeFromInv == IterInv => TypeOK
<1> SUFFICES ASSUME IterInv PROVE TypeOK OBVIOUS
<1>1. GoodRanges /\ last \in Addresses \cup {None} BY DEF IterInv
<1>2. /\ Walk(rs) \in Seq(WalkEntries) /\ Steps \in Nat \ {0} /\ From \in 0 .. Steps
      /\ \A p \in 1 .. Steps : Walk(rs)[p].ip \in Addresses
      /\ \A k \in 1 .. Steps : At(Steps, From, k) \in 1 .. Steps
  BY <1>1, GoodFacts
<1>3. IsRangeSet(rs) /\ DOMAIN rs = 1 .. Len(rs) /\ 1 \in DOMAIN rs
      /\ \A i \in DOMAIN rs : rs[i].start .. rs[i].end \subseteq Addresses
  BY <1>1, RangeSetLen DEF GoodRanges
<1>4. out \in Seq(Addresses)
  <2>1. PICK k \in 0 .. Steps : out = Offered(Walk(rs), From)[k] BY OutIsOffered
  <2>2. /\ out \in Seq(Nat)
        /\ \A j \in 1 .. Len(out) : \E m \in 1 .. k :
              out[j] = Walk(rs)[At(Steps, From, m)].ip
    <3>1. /\ Offered(Walk(rs), From)[k] \in Seq(Nat)
          /\ \A j \in 1 .. Len(Offered(Walk(rs), From)[k]) : \E m \in 1 .. k :
                Offered(Walk(rs), From)[k][j] = Walk(rs)[At(Steps, From, m)].ip
      BY <1>2, OfferedType, Zenon DEF Steps
    <3> QED BY <2>1, <3>1, Zenon
  <2>3. ASSUME NEW j \in 1 .. Len(out) PROVE out[j] \in Addresses
    <3>1. PICK m \in 1 .. k : out[j] = Walk(rs)[At(Steps, From, m)].ip BY <2>2
    <3>2. m \in 1 .. Steps BY <1>2
    <3> QED BY <1>2, <3>1, <3>2
  <2>4. Len(out) \in Nat /\ out = [j \in 1 .. Len(out) |-> out[j]] BY <2>2
  <2>5. out \in [1 .. Len(out) -> Addresses] BY <2>3, <2>4
  <2> QED BY <2>4, <2>5, SeqDef
<1>5. /\ idx \in DOMAIN rs /\ cur \in Addresses \cup {None}
      /\ startIP \in Addresses \cup {None} /\ pc \in {"getIter", "next", "done"}
  <2>0. rs[1].start \in Addresses
    <3>1. rs[1].start \in Nat /\ rs[1].end \in Nat /\ Size(rs[1]) \in Nat \ {0}
      BY <1>3, BlockFacts
    <3>2. rs[1].start \in rs[1].start .. rs[1].end BY <3>1 DEF Size
    <3> QED BY <1>3, <3>2
  <2>1. Walk(rs)[At(Steps, From, 1)].ip \in Addresses
    <3>1. 1 \in 1 .. Steps BY <1>2
    <3> QED BY <1>2, <3>1
  <2>2. CASE pc = "getIter" BY <1>3, <2>2 DEF IterInv
  <2>3. CASE pc = "next" /\ idx = 1 /\ cur = None /\ startIP = rs[1].start
    BY <1>3, <2>0, <2>3
  <2>4. ASSUME pc = "next", NEW k \in 0 .. Steps, Reached(k)
        PROVE  idx \in DOMAIN rs /\ cur \in Addresses /\ startIP \in Addresses \cup {None}
    <3>1. k = 0 \/ k > 0 BY <1>2
    <3>2. idx \in DOMAIN rs /\ cur \in rs[idx].start .. rs[idx].end BY <2>4 DEF Reached
    <3>3. startIP \in Addresses \cup {None} BY <2>1, <2>4, <3>1 DEF Reached
    <3> QED BY <1>3, <3>2, <3>3
  <2>5. CASE pc = "done"
    <3>1. /\ idx \in DOMAIN rs /\ cur \in rs[idx].start .. rs[idx].end
          /\ startIP = Walk(rs)[At(Steps, From, 1)].ip
      BY <2>5 DEF IterInv
    <3> QED BY <1>3, <2>1, <2>5, <3>1
  <2> QED BY <2>2, <2>3, <2>4, <2>5 DEF IterInv
<1> QED BY <1>1, <1>4, <1>5 DEF TypeOK

\* Type correctness: the index stays within the range set, and the cursor and
\* everything that is offered are addresses of the subnets.
THEOREM IterTypes == Spec => []TypeOK
BY SearchInv, TypeFromInv, PTL

\* GetIter and Next offer exactly Candidates: the order in which the IPAM model
\* tries addresses is the one of host-local's iterator, for every range set,
\* every last reserved address and every gateway.
THEOREM IterOffersCandidates == Spec => []OffersCandidates
<1>1. IterInv => OffersCandidates
  BY DEF IterInv, OffersCandidates, Candidates, From, Steps
<1> QED BY <1>1, SearchInv, PTL

\* No address is offered twice in one search.
THEOREM IterOffersOnce == Spec => []OffersOnce
<1>1. IterInv => OffersOnce
  <2> SUFFICES ASSUME IterInv PROVE OffersOnce OBVIOUS
  <2>1. GoodRanges BY DEF IterInv
  <2>2. /\ Walk(rs) \in Seq(WalkEntries) /\ Steps \in Nat \ {0} /\ From \in 0 .. Steps
        /\ \A p, q \in 1 .. Steps : Walk(rs)[p].ip = Walk(rs)[q].ip => p = q
    BY <2>1, GoodFacts
  <2>3. PICK k \in 0 .. Steps : out = Offered(Walk(rs), From)[k] BY OutIsOffered
  <2>4. out \in Seq(Nat) BY <2>2, <2>3, OfferedType DEF Steps
  <2>5. \A i, j \in 1 .. Len(out) : out[i] = out[j] => i = j
    BY <2>2, <2>3, OfferedOnce DEF Steps
  <2> QED BY <2>4, <2>5 DEF OffersOnce
<1> QED BY <1>1, SearchInv, PTL

\* The Total of countIP and NewAllocator is the number of addresses that a
\* whole search offers, wherever it starts, as the int64 it is stored in: for
\* fewer than 2^63 addresses the number itself, for more of them wrapped round.
THEOREM IterReachesTotal == Spec => []TotalIsReachable
<1>1. IterInv => TotalIsReachable
  <2> SUFFICES ASSUME IterInv, pc = "done" PROVE Total(rs) = Int64(Len(out))
    BY DEF TotalIsReachable
  <2>1. GoodRanges /\ out = Offered(Walk(rs), From)[Steps] BY DEF IterInv
  <2>2. /\ Walk(rs) \in Seq(WalkEntries) /\ Steps \in Nat \ {0} /\ From \in 0 .. Steps
    BY <2>1, GoodFacts
  <2>3. Len(out) = Used(Walk(rs), Steps) BY <2>1, <2>2, OfferedLen DEF Steps
  <2>4. Total(rs) = Int64(Used(Walk(rs), Steps)) BY <2>1, TotalIsUsed DEF Steps, GoodRanges
  <2> QED BY <2>3, <2>4
<1> QED BY <1>1, SearchInv, PTL
=============================================================================
