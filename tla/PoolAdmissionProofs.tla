------------------------- MODULE PoolAdmissionProofs -------------------------
(***************************************************************************)
(* What the pool webhook guarantees for any number of pools, clients and   *)
(* specs and for any lag of its cache.  The inductive invariant is         *)
(* AdmissionInv: types; that objects which are not being deleted carry     *)
(* the right label and passed the checks on themselves; that a request     *)
(* has been compared with the pools it saw, as they still are; and that    *)
(* vetted pairs fit.  Fits is what the checks compare: it is symmetric,    *)
(* and rules a conflict out.                                               *)
(***************************************************************************)
EXTENDS PoolAdmission, RangesProofs, FiniteSetTheorems, TLAPS

-----------------------------------------------------------------------------
(* Ranges *)

\* A range that the webhook lets through begins inside its subnet.
LEMMA StartInSubnet ==
    ASSUME NEW s, s.net \in Nat, s.host \in 0 .. MaxHost, ValidRange(s)
    PROVE  /\ MakeRange(s).start \in Int /\ MakeRange(s).end \in Int
           /\ MakeRange(s).lo \in Int /\ MakeRange(s).hi \in Int
           /\ MakeRange(s).lo <= MakeRange(s).start
<1> DEFINE size == 2^s.host
<1>1. size \in Nat /\ size >= s.host + 1 /\ s.host \in Nat BY HostAssumption
<1> DEFINE p2p   == IsPointToPoint(s)
           start == ParseIP(s.start, IF p2p THEN s.net ELSE s.net + 1)
           end   == ParseIP(s.end, IF p2p THEN s.net ELSE LastIP(s))
<1>2. start \in Int /\ s.net <= start
  BY <1>1 DEF ValidRange, ValidIP, ParseIP
<1>3. LastIP(s) \in Int /\ (~p2p => s.net <= LastIP(s))
  BY <1>1 DEF LastIP, IsPointToPoint
<1>4. end \in Int /\ s.net <= end
  BY <1>1, <1>3 DEF ValidRange, ValidIP, ParseIP
<1>5. MakeRange(s) = [lo |-> s.net, hi |-> s.net + size - 1,
                      start |-> IF start > end THEN end ELSE start,
                      end |-> IF start > end THEN start ELSE end,
                      gw |-> ParseIP(s.gw, IF p2p THEN None ELSE s.net + 1)]
  BY DEF MakeRange
<1> HIDE DEF size, p2p, start, end
<1> QED BY <1>1, <1>2, <1>4, <1>5

\* Two ranges that hold the same address overlap.
LEMMA SharedOverlap ==
    ASSUME NEW r, NEW q, NEW ip,
           r.lo \in Int, r.hi \in Int, r.start \in Int, r.end \in Int, r.lo <= r.start,
           q.lo \in Int, q.hi \in Int, q.start \in Int, q.end \in Int, q.lo <= q.start,
           ip \in Covers(r), ip \in Covers(q)
    PROVE  Overlaps(r, q)
<1>1. r.start # None /\ q.start # None BY NoneAssumption
<1>2. ip \in Int /\ ip <= r.hi /\ ip <= r.end /\ r.start <= ip
         /\ ip <= q.hi /\ ip <= q.end /\ q.start <= ip
  BY DEF Covers
<1>3. CASE r.start <= q.start
  <2>1. q.start \in r.lo .. r.hi /\ q.start \in r.start .. r.end BY <1>2, <1>3
  <2> QED BY <1>1, <2>1 DEF Overlaps, RangeContains
<1>4. CASE q.start <= r.start
  <2>1. r.start \in q.lo .. q.hi /\ r.start \in q.start .. q.end BY <1>2, <1>4
  <2> QED BY <1>1, <2>1 DEF Overlaps, RangeContains
<1> QED BY <1>3, <1>4

WellFormed(ranges) ==
    \A i \in DOMAIN ranges : ranges[i].net \in Nat /\ ranges[i].host \in 0 .. MaxHost

Disjoint(a, b) == ~RangeSetsOverlap(MakeRangeSet(a.ranges), MakeRangeSet(b.ranges))

\* Pools whose range sets do not overlap share no address.
LEMMA DisjointShareNothing ==
    ASSUME NEW a, NEW b, WellFormed(a.ranges), WellFormed(b.ranges),
           MakesRangeSet(a.ranges), MakesRangeSet(b.ranges), Disjoint(a, b)
    PROVE  ~ShareAddress(a, b)
<1> SUFFICES ASSUME NEW i \in DOMAIN a.ranges, NEW j \in DOMAIN b.ranges, NEW ip,
                    ip \in Covers(MakeRange(a.ranges[i])), ip \in Covers(MakeRange(b.ranges[j]))
             PROVE  FALSE
  BY DEF ShareAddress
<1> DEFINE s == a.ranges[i]  t == b.ranges[j]
<1>1. s.net \in Nat /\ s.host \in 0 .. MaxHost /\ ValidRange(s)
  BY DEF WellFormed, MakesRangeSet
<1>2. t.net \in Nat /\ t.host \in 0 .. MaxHost /\ ValidRange(t)
  BY DEF WellFormed, MakesRangeSet
<1> HIDE DEF s, t
<1>3. Overlaps(MakeRange(s), MakeRange(t))
  <2> DEFINE r == MakeRange(s)  q == MakeRange(t)
  <2>1. r.start \in Int /\ r.end \in Int /\ r.lo \in Int /\ r.hi \in Int /\ r.lo <= r.start
    BY <1>1, StartInSubnet
  <2>2. q.start \in Int /\ q.end \in Int /\ q.lo \in Int /\ q.hi \in Int /\ q.lo <= q.start
    BY <1>2, StartInSubnet
  <2>3. ip \in Covers(r) /\ ip \in Covers(q) BY DEF s, t
  <2> HIDE DEF r, q
  <2>4. Overlaps(r, q) BY <2>1, <2>2, <2>3, SharedOverlap
  <2> QED BY <2>4 DEF r, q
<1> QED BY <1>3 DEF Disjoint, RangeSetsOverlap, MakeRangeSet, s, t

\* It does not matter which of two pools is compared with the other,
LEMMA DisjointSymmetric ==
    ASSUME NEW a, NEW b, Disjoint(a, b)
    PROVE  Disjoint(b, a)
  BY DEF Disjoint, RangeSetsOverlap, Overlaps

-----------------------------------------------------------------------------
(* Selectors *)

\* What checkSelector finds acceptable of two selectors.
SelectorsFit(s, t) ==
    IF IsGlobalIPPool(s) THEN ~IsGlobalIPPool(t)
    ELSE IsGlobalIPPool(t) \/
         /\ t.priority # 0 => t.priority # s.priority
         /\ t.priority = 0 /\ s.priority = 0 =>
              \A i \in DOMAIN s.scope : ~Matches(t, AsRequirement(s, i), FALSE)

\* Tuples match each other or not at all.
LEMMA MatchesSymmetric ==
    ASSUME NEW s, NEW t, NEW j \in DOMAIN t.scope, Matches(s, AsRequirement(t, j), FALSE)
    PROVE  \E i \in DOMAIN s.scope : Matches(t, AsRequirement(s, i), FALSE)
<1>1. PICK i \in DOMAIN s.scope : IsMatch(s.scope[i], AsRequirement(t, j), FALSE)
  BY DEF Matches
<1>2. IsMatch(t.scope[j], AsRequirement(s, i), FALSE)
  BY <1>1 DEF IsMatch, FieldMatches, AsRequirement
<1>3. t.network = AsRequirement(s, i).network BY DEF Matches, AsRequirement
<1> QED BY <1>2, <1>3 DEF Matches

\* nor which selector with which.
LEMMA SelectorsFitSymmetric ==
    ASSUME NEW s, NEW t, SelectorsFit(s, t)
    PROVE  SelectorsFit(t, s)
<1>1. CASE IsGlobalIPPool(s) \/ IsGlobalIPPool(t) BY <1>1 DEF SelectorsFit
<1>2. CASE ~IsGlobalIPPool(s) /\ ~IsGlobalIPPool(t)
  <2>1. s.priority # 0 => s.priority # t.priority BY <1>2 DEF SelectorsFit
  <2>2. ASSUME s.priority = 0, t.priority = 0, NEW j \in DOMAIN t.scope
        PROVE  ~Matches(s, AsRequirement(t, j), FALSE)
    BY <1>2, <2>2, MatchesSymmetric DEF SelectorsFit
  <2> QED BY <1>2, <2>1, <2>2 DEF SelectorsFit
<1> QED BY <1>1, <1>2

\* A requirement without wildcards that two selectors match, which fit and
\* have the same priority, is one too many.
LEMMA FitMatchesOnce ==
    ASSUME NEW s, NEW t, SelectorsFit(s, t), ~IsGlobalIPPool(s), ~IsGlobalIPPool(t),
           s.priority = t.priority,
           NEW r, All \notin {r.project, r.namespace, r.cluster},
           Matches(s, r, FALSE), Matches(t, r, FALSE)
    PROVE  FALSE
<1>1. s.priority = 0 /\ t.priority = 0 BY DEF SelectorsFit
<1>2. PICK i \in DOMAIN s.scope : IsMatch(s.scope[i], r, FALSE) BY DEF Matches
<1>3. PICK j \in DOMAIN t.scope : IsMatch(t.scope[j], r, FALSE) BY DEF Matches
<1>4. IsMatch(t.scope[j], AsRequirement(s, i), FALSE)
  BY <1>2, <1>3 DEF IsMatch, FieldMatches, AsRequirement
<1>5. t.network = AsRequirement(s, i).network BY DEF Matches, AsRequirement
<1>6. Matches(t, AsRequirement(s, i), FALSE) BY <1>4, <1>5 DEF Matches
<1> QED BY <1>1, <1>6 DEF SelectorsFit

\* Selectors that fit leave no load balancer between two pools.
LEMMA FitNoTie ==
    ASSUME NEW a, NEW b, SelectorsFit(a.sel, b.sel)
    PROVE  ~Tie(a, b) /\ ~(IsGlobalIPPool(a.sel) /\ IsGlobalIPPool(b.sel))
<1>1. ~(IsGlobalIPPool(a.sel) /\ IsGlobalIPPool(b.sel)) BY DEF SelectorsFit
<1>2. ASSUME Tie(a, b) PROVE FALSE
  <2>1. PICK r \in Requirements : Matches(a.sel, r, FALSE) /\ Matches(b.sel, r, FALSE)
    BY <1>2 DEF Tie
  <2>2. All \notin {r.project, r.namespace, r.cluster} BY RequirementsAssumption
  <2> QED BY <1>2, <2>1, <2>2, FitMatchesOnce DEF Tie
<1> QED BY <1>1, <1>2

-----------------------------------------------------------------------------
(* The inductive invariant *)

Fits(a, b) == Disjoint(a, b) /\ SelectorsFit(a.sel, b.sel)

\* What Create and Update check of a pool by itself.
RangesSound(pool) ==
    /\ pool.ranges # <<>>
    /\ MakesRangeSet(pool.ranges)
    /\ SelfDisjoint(MakeRangeSet(pool.ranges))

SelectorSound(sel) == ~IsGlobalIPPool(sel) => CheckSelectorItself(sel)

\* A pool that is not being deleted went through mutator and validator.
Admitted(pool) ==
    pool # NoPool =>
        /\ pool.sel # None
        /\ ~pool.deleting => /\ pool.global = IsGlobalIPPool(pool.sel)
                             /\ RangesSound(pool)
                             /\ SelectorSound(pool.sel)

AllAdmitted == \A p \in Pools : Admitted(pools[p]) /\ Admitted(cache[p])

\* A request under way was compared with the pools that it saw, as they are in ps.
RequestOK(r, ps) ==
    r.pc # "idle" =>
        /\ r.name \in Pools
        /\ r.obj.sel # None
        /\ r.obj.deleting => r.pc = "commit" /\ r.saw = {}
        /\ ~r.obj.deleting =>
             /\ r.obj.global = IsGlobalIPPool(r.obj.sel)
             /\ r.pc \in {"selector", "commit"} =>
                  /\ RangesSound(r.obj)
                  /\ \A q \in r.saw \ {r.name} : Disjoint(r.obj, ps[q])
             /\ r.pc = "commit" =>
                  /\ SelectorSound(r.obj.sel)
                  /\ \A q \in r.saw \ {r.name} : SelectorsFit(r.obj.sel, ps[q].sel)

RequestsOK == \A c \in Clients : RequestOK(req[c], pools)

VettedFit ==
    \A p, q \in Pools : <<p, q>> \in vetted /\ p # q => Fits(pools[p], pools[q])

AdmissionInv == AdmissionTypeOK /\ AllAdmitted /\ RequestsOK /\ VettedFit

\* The range specs of a pool are well formed.
LEMMA PoolWellFormed ==
    ASSUME NEW pool \in PoolType
    PROVE  WellFormed(pool.ranges)
<1>1. CASE pool.ranges = <<>> BY <1>1 DEF WellFormed
<1>2. CASE pool.ranges \in {s.ranges : s \in Specs}
  BY <1>2, SpecsAssumption DEF WellFormed
<1> QED BY <1>1, <1>2 DEF PoolType

\* The absent pool is a pool object,
LEMMA NoPoolType == NoPool \in PoolType
  BY DEF NoPool, PoolType

\* and a client without a request has a request in order.
LEMMA IdleType ==
    ASSUME NEW outcome \in {None, "ok", "refused", "exists", "conflict"}
    PROVE  Idle(outcome) \in RequestType /\ \A ps : RequestOK(Idle(outcome), ps)
  BY NoPoolType DEF Idle, RequestType, RequestOK

\* The mutator makes a pool object of a pool object.
LEMMA PatchType ==
    ASSUME NEW pool \in PoolType, HasVid(pool.sel.network)
    PROVE  /\ GetLabelPatch(pool) \in PoolType
           /\ GetLabelPatch(pool).sel = pool.sel
           /\ GetLabelPatch(pool).deleting = pool.deleting
           /\ GetLabelPatch(pool).global = IsGlobalIPPool(pool.sel)
<1>1. GetVid(pool.sel.network) \in {None, 0} \cup {Vids[n] : n \in DOMAIN Vids}
  BY DEF HasVid, GetVid
<1>2. IsGlobalIPPool(pool.sel) \in BOOLEAN BY DEF IsGlobalIPPool
<1> QED BY <1>1, <1>2 DEF GetLabelPatch, PoolType

-----------------------------------------------------------------------------
(* The steps *)

\* A client submits a request.
LEMMA SubmitKeeps ==
    ASSUME AdmissionInv, NEW c \in Clients, NEW op \in {"create", "update"}, NEW p \in Pools,
           NEW pool \in PoolType, pool.sel # None, op = "create" => ~pool.deleting,
           Submit(c, op, p, pool)
    PROVE  AdmissionInv'
<1> DEFINE skip == op = "update" /\ pool.deleting
           obj  == IF skip THEN pool ELSE GetLabelPatch(pool)
           r    == [pc |-> IF skip THEN "commit" ELSE "ranges", op |-> op, name |-> p,
                    obj |-> obj, fresh |-> TRUE, saw |-> {}, outcome |-> None]
<1>1. CASE ~skip /\ ~HasVid(pool.sel.network)
  <2>1. req' = [req EXCEPT ![c] = Idle("refused")] BY <1>1 DEF Submit
  <2>2. req' \in [Clients -> RequestType] BY <2>1, IdleType DEF AdmissionInv, AdmissionTypeOK
  <2>3. RequestsOK' BY <2>1, IdleType DEF AdmissionInv, AdmissionTypeOK, RequestsOK, Submit
  <2> QED BY <2>2, <2>3 DEF Submit, AdmissionInv, AdmissionTypeOK, AllAdmitted, VettedFit
<1>2. CASE skip \/ HasVid(pool.sel.network)
  <2>1. req' = [req EXCEPT ![c] = r] BY <1>2 DEF Submit
  <2>2. obj \in PoolType /\ obj.sel # None /\ (obj.deleting => skip)
          /\ (~skip => obj.global = IsGlobalIPPool(obj.sel))
    BY <1>2, PatchType
  <2> HIDE DEF obj
  <2>3. r \in RequestType BY <2>2 DEF RequestType
  <2>4. RequestOK(r, pools)
    <3>1. CASE skip
      <4>1. r.pc = "commit" /\ r.name = p /\ r.obj = obj /\ r.saw = {} BY <3>1
      <4>2. obj.deleting BY <3>1 DEF obj
      <4> QED BY <2>2, <4>1, <4>2 DEF RequestOK
    <3>2. CASE ~skip
      <4>1. r.pc = "ranges" /\ r.name = p /\ r.obj = obj BY <3>2
      <4> HIDE DEF r, skip
      <4> QED BY <2>2, <3>2, <4>1 DEF RequestOK
    <3> QED BY <3>1, <3>2
  <2> HIDE DEF r
  <2>5. req' \in [Clients -> RequestType] BY <2>1, <2>3 DEF AdmissionInv, AdmissionTypeOK
  <2>6. RequestsOK'
    BY <2>1, <2>4 DEF AdmissionInv, AdmissionTypeOK, RequestsOK, Submit
  <2> QED BY <2>5, <2>6 DEF Submit, AdmissionInv, AdmissionTypeOK, AllAdmitted, VettedFit
<1> QED BY <1>1, <1>2

\* The pools in sight are among the others of the cache, with the spec that they have.
LEMMA InSightOthers ==
    ASSUME AdmissionInv, NEW p \in Pools, NEW q \in InSight \ {p}
    PROVE  /\ q \in Pools /\ q \in Others(p)
           /\ ~cache[q].deleting
           /\ cache[q].ranges = pools[q].ranges /\ cache[q].sel = pools[q].sel
           /\ cache[q].global = IsGlobalIPPool(pools[q].sel)
<1>1. q \in Pools /\ pools[q] # NoPool /\ ~cache[q].deleting /\ SpecOf(cache[q]) = SpecOf(pools[q])
  BY DEF InSight, Exists
<1>2. cache[q].ranges = pools[q].ranges /\ cache[q].sel = pools[q].sel BY <1>1 DEF SpecOf
<1>3. cache[q].sel # None
  BY <1>1, <1>2 DEF AdmissionInv, AllAdmitted, Admitted
<1>4. cache[q] # NoPool BY <1>3 DEF NoPool
<1>5. cache[q].global = IsGlobalIPPool(cache[q].sel)
  BY <1>1, <1>4 DEF AdmissionInv, AllAdmitted, Admitted
<1> QED BY <1>1, <1>2, <1>4, <1>5 DEF Others

\* One request moves on, the pools stay.
LEMMA RequestMoves ==
    ASSUME AdmissionInv, NEW c \in Clients, NEW r \in RequestType, RequestOK(r, pools),
           req' = [req EXCEPT ![c] = r], UNCHANGED <<pools, cache, vetted>>
    PROVE  AdmissionInv'
<1>1. AdmissionTypeOK' BY DEF AdmissionInv, AdmissionTypeOK
<1>2. RequestsOK' BY DEF AdmissionInv, AdmissionTypeOK, RequestsOK
<1> QED BY <1>1, <1>2 DEF AdmissionInv, AllAdmitted, VettedFit

\* The first look at the cache.
LEMMA ValidateRangesKeeps ==
    ASSUME AdmissionInv, NEW c \in Clients, ValidateRanges(c)
    PROVE  AdmissionInv'
<1> DEFINE r == req[c]  new == [r EXCEPT !.pc = "selector", !.saw = InSight]
<1>1. r \in RequestType /\ RequestOK(r, pools) /\ r.pc = "ranges"
  BY DEF AdmissionInv, AdmissionTypeOK, RequestsOK, ValidateRanges
<1>2. CASE ~RangesAccepted(r.op, r.name, r.obj)
  <2>1. req' = [req EXCEPT ![c] = Idle("refused")] BY <1>2 DEF ValidateRanges
  <2> QED BY <2>1, IdleType, RequestMoves DEF ValidateRanges
<1>3. CASE RangesAccepted(r.op, r.name, r.obj)
  <2>1. req' = [req EXCEPT ![c] = new] BY <1>3 DEF ValidateRanges
  <2>2. InSight \subseteq Pools BY DEF InSight
  <2>3. new \in RequestType BY <1>1, <2>2 DEF RequestType
  <2>4. /\ new.pc = "selector" /\ new.name = r.name /\ new.obj = r.obj /\ new.saw = InSight
    BY <1>1 DEF RequestType
  <2>5. /\ r.name \in Pools /\ r.obj.sel # None /\ ~r.obj.deleting
        /\ r.obj.global = IsGlobalIPPool(r.obj.sel)
    BY <1>1 DEF RequestOK
  <2>6. RangesSound(r.obj) BY <1>3 DEF RangesAccepted, RangesSound
  <2>7. ASSUME NEW q \in InSight \ {r.name} PROVE Disjoint(r.obj, pools[q])
    BY <1>3, <2>5, InSightOthers DEF RangesAccepted, Disjoint
  <2> HIDE DEF new, r
  <2>8. RequestOK(new, pools) BY <2>4, <2>5, <2>6, <2>7 DEF RequestOK
  <2> QED BY <2>1, <2>3, <2>8, RequestMoves DEF ValidateRanges
<1> QED BY <1>2, <1>3

\* What the second look accepts fits the pools in sight.
LEMMA AcceptedFits ==
    ASSUME AdmissionInv, NEW p \in Pools, NEW pool, SelectorAccepted(p, pool),
           NEW q \in InSight \ {p}
    PROVE  SelectorsFit(pool.sel, pools[q].sel)
<1>1. /\ q \in Others(p) /\ cache[q].sel = pools[q].sel
      /\ cache[q].global = IsGlobalIPPool(pools[q].sel)
  BY InSightOthers
<1>2. CASE IsGlobalIPPool(pool.sel)
  BY <1>1, <1>2 DEF SelectorAccepted, CheckGlobalIPPool, SelectorsFit
<1>3. CASE ~IsGlobalIPPool(pool.sel)
  BY <1>1, <1>3 DEF SelectorAccepted, CheckSelectorWithOthers, SelectorsFit
<1> QED BY <1>2, <1>3

\* The second look at the cache.
LEMMA ValidateSelectorKeeps ==
    ASSUME AdmissionInv, NEW c \in Clients, ValidateSelector(c)
    PROVE  AdmissionInv'
<1> DEFINE r == req[c]  new == [r EXCEPT !.pc = "commit", !.saw = r.saw \cap InSight]
<1>1. r \in RequestType /\ RequestOK(r, pools) /\ r.pc = "selector"
  BY DEF AdmissionInv, AdmissionTypeOK, RequestsOK, ValidateSelector
<1>2. CASE ~SelectorAccepted(r.name, r.obj)
  <2>1. req' = [req EXCEPT ![c] = Idle("refused")] BY <1>2 DEF ValidateSelector
  <2> QED BY <2>1, IdleType, RequestMoves DEF ValidateSelector
<1>3. CASE SelectorAccepted(r.name, r.obj)
  <2>1. req' = [req EXCEPT ![c] = new] BY <1>3 DEF ValidateSelector
  <2>2. new \in RequestType BY <1>1 DEF RequestType
  <2>3. new.pc = "commit" /\ new.name = r.name /\ new.obj = r.obj /\ new.saw = r.saw \cap InSight
    BY <1>1 DEF RequestType
  <2>4. /\ r.name \in Pools /\ r.obj.sel # None /\ ~r.obj.deleting
        /\ r.obj.global = IsGlobalIPPool(r.obj.sel) /\ RangesSound(r.obj)
        /\ \A q \in r.saw \ {r.name} : Disjoint(r.obj, pools[q])
    BY <1>1 DEF RequestOK
  <2>5. SelectorSound(r.obj.sel) BY <1>3 DEF SelectorAccepted, SelectorSound
  <2>6. ASSUME NEW q \in (r.saw \cap InSight) \ {r.name}
        PROVE  SelectorsFit(r.obj.sel, pools[q].sel)
    BY <1>3, <2>4, AcceptedFits
  <2> HIDE DEF new, r
  <2>7. RequestOK(new, pools) BY <2>3, <2>4, <2>5, <2>6 DEF RequestOK
  <2> QED BY <2>1, <2>2, <2>7, RequestMoves DEF ValidateSelector
<1> QED BY <1>2, <1>3

\* What is left of the requests under way when p has changed.
LEMMA OutdateType ==
    ASSUME AdmissionTypeOK, NEW p \in Pools, NEW changed \in BOOLEAN, NEW c \in Clients
    PROVE  /\ Outdate(p, changed)[c] \in RequestType
           /\ Outdate(p, changed)[c].pc = req[c].pc
           /\ Outdate(p, changed)[c].name = req[c].name
           /\ Outdate(p, changed)[c].obj = req[c].obj
           /\ Outdate(p, changed)[c].saw \subseteq req[c].saw
           /\ changed => p \notin Outdate(p, changed)[c].saw
<1> DEFINE r == req[c]  f == (r.fresh /\ r.name # p)  s == IF changed THEN r.saw \ {p} ELSE r.saw
<1>1. r \in RequestType BY DEF AdmissionTypeOK
<1>2. f \in BOOLEAN /\ s \subseteq Pools BY <1>1 DEF RequestType
<1>3. Outdate(p, changed)[c] = [r EXCEPT !.fresh = f, !.saw = s] BY DEF Outdate
<1> HIDE DEF r, f, s
<1>4. [r EXCEPT !.fresh = f, !.saw = s] \in RequestType BY <1>1, <1>2 DEF RequestType
<1>5. LET o == [r EXCEPT !.fresh = f, !.saw = s]
      IN  o.pc = r.pc /\ o.name = r.name /\ o.obj = r.obj /\ o.saw = s
  BY <1>1 DEF RequestType
<1>6. s \subseteq r.saw /\ (changed => p \notin s) BY DEF s
<1> QED BY <1>3, <1>4, <1>5, <1>6 DEF r

\* A pool gets another object, and the other requests are outdated as far as
\* its spec is another one.
LEMMA OutdateKeeps ==
    ASSUME AdmissionInv, NEW p \in Pools, NEW changed \in BOOLEAN, NEW obj \in PoolType,
           pools' = [pools EXCEPT ![p] = obj],
           ~changed => SpecOf(obj) = SpecOf(pools[p]),
           NEW c \in Clients
    PROVE  RequestOK(Outdate(p, changed)[c], pools')
<1> DEFINE r2 == Outdate(p, changed)[c]
<1>1. AdmissionTypeOK /\ RequestOK(req[c], pools) BY DEF AdmissionInv, RequestsOK
<1>2. /\ r2 \in RequestType /\ r2.pc = req[c].pc /\ r2.name = req[c].name
      /\ r2.obj = req[c].obj /\ r2.saw \subseteq req[c].saw /\ (changed => p \notin r2.saw)
  BY <1>1, OutdateType
<1> HIDE DEF r2
<1>3. ASSUME NEW q \in r2.saw
      PROVE  pools'[q].ranges = pools[q].ranges /\ pools'[q].sel = pools[q].sel
  <2>1. q \in Pools BY <1>2 DEF RequestType
  <2>2. CASE q # p BY <2>1, <2>2, <1>1 DEF AdmissionTypeOK
  <2>3. CASE q = p
    <3>1. SpecOf(obj) = SpecOf(pools[p]) BY <1>2, <2>3
    <3>2. pools'[p] = obj BY <1>1 DEF AdmissionTypeOK
    <3> QED BY <2>3, <3>1, <3>2 DEF SpecOf
  <2> QED BY <2>2, <2>3
<1>4. RequestOK(r2, pools') BY <1>1, <1>2, <1>3 DEF RequestOK, Disjoint
<1> QED BY <1>4 DEF r2

\* Pairs that stay vetted fit as before.
LEMMA VettedKeeps ==
    ASSUME AdmissionInv, NEW p \in Pools, NEW changed \in BOOLEAN, NEW obj \in PoolType,
           pools' = [pools EXCEPT ![p] = obj],
           ~changed => SpecOf(obj) = SpecOf(pools[p]),
           NEW a \in Pools, NEW b \in Pools, a # b,
           <<a, b>> \in (IF changed THEN Without(p) ELSE vetted)
    PROVE  Fits(pools'[a], pools'[b])
<1>1. <<a, b>> \in vetted /\ (changed => a # p /\ b # p)
  BY DEF Without
<1>2. Fits(pools[a], pools[b]) BY <1>1 DEF AdmissionInv, VettedFit
<1>3. ASSUME NEW q \in {a, b}
      PROVE  pools'[q].ranges = pools[q].ranges /\ pools'[q].sel = pools[q].sel
  <2>1. CASE q # p BY <2>1 DEF AdmissionInv, AdmissionTypeOK
  <2>2. CASE q = p
    <3>1. SpecOf(obj) = SpecOf(pools[p]) BY <1>1, <2>2
    <3>2. pools'[p] = obj BY DEF AdmissionInv, AdmissionTypeOK
    <3> QED BY <2>2, <3>1, <3>2 DEF SpecOf
  <2> QED BY <2>1, <2>2
<1> QED BY <1>2, <1>3 DEF Fits, Disjoint

\* The object of a request that passed is stored.
LEMMA CommitKeeps ==
    ASSUME AdmissionInv, NEW c \in Clients, Commit(c)
    PROVE  AdmissionInv'
<1> DEFINE r == req[c]  p == r.name  changed == SpecOf(r.obj) # SpecOf(pools[p])
           failed == (r.op = "create" /\ Exists(p)) \/ (r.op = "update" /\ ~r.fresh)
<1>1. r \in RequestType /\ RequestOK(r, pools) /\ r.pc = "commit"
  BY DEF AdmissionInv, AdmissionTypeOK, RequestsOK, Commit
<1>2. p \in Pools /\ r.obj \in PoolType /\ r.obj.sel # None
  BY <1>1 DEF RequestOK, RequestType
<1>3. CASE failed
  <2>1. PICK outcome \in {"exists", "conflict"} : req' = [req EXCEPT ![c] = Idle(outcome)]
    BY <1>3 DEF Commit
  <2>2. UNCHANGED <<pools, cache, vetted>> BY <1>3 DEF Commit
  <2> QED BY <2>1, <2>2, IdleType, RequestMoves
<1>4. CASE ~failed
  <2>1. /\ pools' = [pools EXCEPT ![p] = r.obj]
        /\ req' = [Outdate(p, changed) EXCEPT ![c] = Idle("ok")]
        /\ vetted' = (IF changed THEN Without(p) ELSE vetted) \cup ({p} \X (r.saw \ {p}))
        /\ cache' = cache
    BY <1>4 DEF Commit
  <2>2. changed \in BOOLEAN /\ (~changed => SpecOf(r.obj) = SpecOf(pools[p])) OBVIOUS
  <2>3. pools' \in [Pools -> PoolType] /\ pools'[p] = r.obj
    BY <1>2, <2>1 DEF AdmissionInv, AdmissionTypeOK
  <2> HIDE DEF p, changed, failed
  <2>4. AdmissionTypeOK'
    <3>1. \A d \in Clients : Outdate(p, changed)[d] \in RequestType
      BY <1>2, <2>2, OutdateType DEF AdmissionInv
    <3>2. DOMAIN Outdate(p, changed) = Clients BY DEF Outdate
    <3>3. Outdate(p, changed) = [d \in Clients |-> Outdate(p, changed)[d]] BY DEF Outdate
    <3>4. Idle("ok") \in RequestType BY IdleType
    <3>5. req' \in [Clients -> RequestType] BY <2>1, <3>1, <3>3, <3>4
    <3>6. vetted' \subseteq Pools \X Pools
      <4>1. {p} \X (r.saw \ {p}) \subseteq Pools \X Pools BY <1>1, <1>2 DEF RequestType
      <4>2. Without(p) \subseteq vetted BY DEF Without
      <4> QED BY <2>1, <4>1, <4>2 DEF AdmissionInv, AdmissionTypeOK
    <3> QED BY <2>1, <2>3, <3>5, <3>6 DEF AdmissionInv, AdmissionTypeOK
  <2>5. AllAdmitted'
    <3>1. Admitted(r.obj) BY <1>1 DEF RequestOK, Admitted
    <3>2. ASSUME NEW q \in Pools PROVE Admitted(pools'[q])
      BY <2>1, <3>1 DEF AdmissionInv, AdmissionTypeOK, AllAdmitted
    <3> QED BY <2>1, <3>2 DEF AdmissionInv, AllAdmitted
  <2>6. RequestsOK'
    <3>1. ASSUME NEW d \in Clients PROVE RequestOK(req'[d], pools')
      <4>1. CASE d = c
        <5>1. req'[d] = Idle("ok") BY <2>1, <4>1 DEF Outdate
        <5> QED BY <5>1, IdleType
      <4>2. CASE d # c
        <5>1. req'[d] = Outdate(p, changed)[d] BY <2>1, <4>2 DEF Outdate
        <5>2. RequestOK(Outdate(p, changed)[d], pools')
          BY <1>2, <2>1, <2>2, OutdateKeeps
        <5> QED BY <5>1, <5>2
      <4> QED BY <4>1, <4>2
    <3> QED BY <3>1 DEF RequestsOK
  <2>7. VettedFit'
    <3> SUFFICES ASSUME NEW a \in Pools, NEW b \in Pools, <<a, b>> \in vetted', a # b
                 PROVE  Fits(pools'[a], pools'[b])
      BY DEF VettedFit
    <3>1. CASE <<a, b>> \in (IF changed THEN Without(p) ELSE vetted)
      BY <1>2, <2>1, <2>2, <3>1, VettedKeeps
    <3>2. CASE <<a, b>> \in {p} \X (r.saw \ {p})
      <4>1. a = p /\ b \in r.saw \ {p} BY <3>2
      <4>2. ~r.obj.deleting BY <1>1, <4>1 DEF RequestOK
      <4>3. Disjoint(r.obj, pools[b]) /\ SelectorsFit(r.obj.sel, pools[b].sel)
        BY <1>1, <4>1, <4>2 DEF RequestOK, p
      <4>4. pools'[b] = pools[b] BY <2>1, <4>1 DEF AdmissionInv, AdmissionTypeOK
      <4> QED BY <2>3, <4>1, <4>3, <4>4 DEF Fits
    <3> QED BY <2>1, <3>1, <3>2
  <2> QED BY <2>4, <2>5, <2>6, <2>7 DEF AdmissionInv
<1> QED BY <1>3, <1>4

\* The API server gives a pool another object outside of a request.
LEMMA ObjectKeeps ==
    ASSUME AdmissionInv, NEW p \in Pools, NEW changed \in BOOLEAN, NEW obj \in PoolType,
           Admitted(obj),
           ~changed => SpecOf(obj) = SpecOf(pools[p]),
           pools' = [pools EXCEPT ![p] = obj],
           req' = Outdate(p, changed),
           vetted' = (IF changed THEN Without(p) ELSE vetted),
           cache' = cache
    PROVE  AdmissionInv'
<1>1. AdmissionTypeOK'
  <2>1. \A d \in Clients : Outdate(p, changed)[d] \in RequestType
    BY OutdateType DEF AdmissionInv
  <2>2. Outdate(p, changed) = [d \in Clients |-> Outdate(p, changed)[d]] BY DEF Outdate
  <2>3. req' \in [Clients -> RequestType] BY <2>1, <2>2
  <2>4. Without(p) \subseteq vetted BY DEF Without
  <2>5. pools' \in [Pools -> PoolType] BY DEF AdmissionInv, AdmissionTypeOK
  <2> QED BY <2>3, <2>4, <2>5 DEF AdmissionInv, AdmissionTypeOK
<1>2. AllAdmitted'
  <2>1. ASSUME NEW q \in Pools PROVE Admitted(pools'[q])
    BY DEF AdmissionInv, AdmissionTypeOK, AllAdmitted
  <2> QED BY <2>1 DEF AdmissionInv, AllAdmitted
<1>3. RequestsOK'
  <2>1. ASSUME NEW d \in Clients PROVE RequestOK(req'[d], pools') BY OutdateKeeps
  <2> QED BY <2>1 DEF RequestsOK
<1>4. VettedFit'
  <2>1. ASSUME NEW a \in Pools, NEW b \in Pools, <<a, b>> \in vetted', a # b
        PROVE  Fits(pools'[a], pools'[b])
    BY <2>1, VettedKeeps
  <2> QED BY <2>1 DEF VettedFit
<1> QED BY <1>1, <1>2, <1>3, <1>4 DEF AdmissionInv

\* A pool is marked as deleted.
LEMMA DeletePoolKeeps ==
    ASSUME AdmissionInv, NEW p \in Pools, DeletePool(p)
    PROVE  AdmissionInv'
<1> DEFINE obj == [pools[p] EXCEPT !.deleting = TRUE]
<1>1. pools[p] \in PoolType /\ pools[p] # NoPool /\ Admitted(pools[p])
  BY DEF AdmissionInv, AdmissionTypeOK, AllAdmitted, DeletePool, Exists
<1>2. obj \in PoolType /\ obj.deleting /\ obj.ranges = pools[p].ranges /\ obj.sel = pools[p].sel
  BY <1>1 DEF PoolType
<1>3. pools' = [pools EXCEPT ![p] = obj] BY DEF DeletePool
<1>4. req' = Outdate(p, FALSE) /\ vetted' = vetted /\ cache' = cache BY DEF DeletePool
<1> HIDE DEF obj
<1>5. Admitted(obj) BY <1>1, <1>2 DEF Admitted
<1>6. SpecOf(obj) = SpecOf(pools[p]) BY <1>2 DEF SpecOf
<1> QED BY <1>2, <1>3, <1>4, <1>5, <1>6, ObjectKeeps

\* A pool goes.
LEMMA PoolGoneKeeps ==
    ASSUME AdmissionInv, NEW p \in Pools, PoolGone(p)
    PROVE  AdmissionInv'
<1>1. Admitted(NoPool) BY DEF Admitted
<1>2. /\ pools' = [pools EXCEPT ![p] = NoPool] /\ req' = Outdate(p, TRUE)
      /\ vetted' = Without(p) /\ cache' = cache
  BY DEF PoolGone
<1> QED BY <1>1, <1>2, NoPoolType, ObjectKeeps

\* The webhook's informer catches up.
LEMMA SyncPoolKeeps ==
    ASSUME AdmissionInv, NEW p \in Pools, SyncPool(p)
    PROVE  AdmissionInv'
<1>1. cache' = [cache EXCEPT ![p] = pools[p]] /\ UNCHANGED <<pools, req, vetted>>
  BY DEF SyncPool
<1>2. AdmissionTypeOK' BY <1>1 DEF AdmissionInv, AdmissionTypeOK
<1>3. AllAdmitted' BY <1>1 DEF AdmissionInv, AdmissionTypeOK, AllAdmitted
<1> QED BY <1>1, <1>2, <1>3 DEF AdmissionInv, RequestsOK, VettedFit

\* The clients' operations submit pool objects with a selector.
LEMMA ClientKeeps ==
    ASSUME AdmissionInv, NEW c \in Clients, NEW p \in Pools,
           \/ \E spec \in Specs : \/ EditPool(c, p, spec)
                                  \/ \E history \in Histories : CreatePool(c, p, spec, history)
           \/ \E ip \in IPs : Allocate(c, p, ip)
    PROVE  AdmissionInv'
<1> DEFINE old == pools[p]
<1>1. old \in PoolType /\ (Exists(p) => old.sel # None)
  BY DEF AdmissionInv, AdmissionTypeOK, AllAdmitted, Admitted, Exists
<1>2. ASSUME NEW spec \in Specs, EditPool(c, p, spec) PROVE AdmissionInv'
  <2> DEFINE pool == [old EXCEPT !.ranges = spec.ranges, !.sel = spec.sel]
  <2>1. pool \in PoolType /\ pool.sel = spec.sel BY <1>1 DEF PoolType
  <2>2. pool.sel # None BY <2>1, SpecsAssumption
  <2>3. Submit(c, "update", p, pool) BY <1>2 DEF EditPool
  <2> HIDE DEF pool
  <2> QED BY <2>1, <2>2, <2>3, SubmitKeeps
<1>3. ASSUME NEW spec \in Specs, NEW history \in Histories, CreatePool(c, p, spec, history)
      PROVE  AdmissionInv'
  <2> DEFINE pool == [NewPool(spec) EXCEPT !.history = history]
  <2>1. NewPool(spec) \in PoolType /\ NewPool(spec).sel = spec.sel /\ ~NewPool(spec).deleting
    BY DEF NewPool, NoPool, PoolType
  <2>2. pool \in PoolType /\ pool.sel = spec.sel /\ ~pool.deleting BY <2>1 DEF PoolType
  <2>3. pool.sel # None BY <2>2, SpecsAssumption
  <2>4. Submit(c, "create", p, pool) BY <1>3 DEF CreatePool
  <2> HIDE DEF pool
  <2> QED BY <2>2, <2>3, <2>4, SubmitKeeps
<1>4. ASSUME NEW ip \in IPs, Allocate(c, p, ip) PROVE AdmissionInv'
  <2> DEFINE a    == IF ip \in old.allocated THEN old.allocated \ {ip} ELSE old.allocated \cup {ip}
             pool == [old EXCEPT !.allocated = a]
  <2>1. a \in SUBSET IPs BY <1>1 DEF PoolType
  <2>2. pool \in PoolType /\ pool.sel = old.sel BY <1>1, <2>1 DEF PoolType
  <2>3. Exists(p) /\ Submit(c, "update", p, pool) BY <1>4 DEF Allocate
  <2> HIDE DEF pool
  <2> QED BY <1>1, <2>2, <2>3, SubmitKeeps
<1> QED BY <1>2, <1>3, <1>4

\* At first there is no pool and no request,
LEMMA AdmissionInitInv == AdmissionInit => AdmissionInv
<1> SUFFICES ASSUME AdmissionInit PROVE AdmissionInv OBVIOUS
<1>1. AdmissionTypeOK BY NoPoolType, IdleType DEF AdmissionInit, AdmissionTypeOK
<1>2. AllAdmitted BY DEF AdmissionInit, AllAdmitted, Admitted
<1>3. RequestsOK BY IdleType DEF AdmissionInit, RequestsOK
<1>4. VettedFit BY DEF AdmissionInit, VettedFit
<1> QED BY <1>1, <1>2, <1>3, <1>4 DEF AdmissionInv

\* and every step keeps the invariant.
LEMMA AdmissionStep == AdmissionInv /\ [AdmissionNext]_admissionVars => AdmissionInv'
<1> SUFFICES ASSUME AdmissionInv, [AdmissionNext]_admissionVars PROVE AdmissionInv'
  OBVIOUS
<1>1. ASSUME NEW c \in Clients, Serve(c) PROVE AdmissionInv'
  BY <1>1, ValidateRangesKeeps, ValidateSelectorKeeps, CommitKeeps DEF Serve
<1>2. ASSUME NEW p \in Pools, DeletePool(p) \/ PoolGone(p) \/ SyncPool(p) PROVE AdmissionInv'
  BY <1>2, DeletePoolKeeps, PoolGoneKeeps, SyncPoolKeeps
<1>3. CASE UNCHANGED admissionVars
  BY <1>3 DEF admissionVars, AdmissionInv, AdmissionTypeOK, AllAdmitted, RequestsOK, VettedFit
<1> QED BY <1>1, <1>2, <1>3, ClientKeeps DEF AdmissionNext

-----------------------------------------------------------------------------
(* The theorems *)

\* The state of the webhook and of the pools is well typed.
THEOREM AdmissionTypes == AdmissionSpec => []AdmissionTypeOK
<1>1. AdmissionInv => AdmissionTypeOK BY DEF AdmissionInv
<1> QED BY <1>1, AdmissionInitInv, AdmissionStep, PTL DEF AdmissionSpec

\* Pools of which one was admitted in sight of the other never share an
\* address, tie for a load balancer or are both global: what Create and Update
\* of the pool validator check is enough, for every lag of its cache and every
\* interleaving of requests.
THEOREM OnlyRacesConflict == AdmissionSpec => []ConflictsAreRaces
<1>1. AdmissionInv => ConflictsAreRaces
  <2> SUFFICES ASSUME AdmissionInv, NEW p \in Pools, NEW q \in Pools, p # q,
                      <<p, q>> \in vetted, Live(p), Live(q)
               PROVE  ~Conflict(pools[p], pools[q])
    BY DEF ConflictsAreRaces
  <2>1. Fits(pools[p], pools[q]) BY DEF AdmissionInv, VettedFit
  <2>2. \A x \in {p, q} : pools[x] \in PoolType /\ MakesRangeSet(pools[x].ranges)
    BY DEF AdmissionInv, AdmissionTypeOK, AllAdmitted, Admitted, RangesSound, Live, Exists
  <2>3. WellFormed(pools[p].ranges) /\ WellFormed(pools[q].ranges) BY <2>2, PoolWellFormed
  <2>4. ~ShareAddress(pools[p], pools[q])
    BY <2>1, <2>2, <2>3, DisjointShareNothing DEF Fits
  <2>5. ~Tie(pools[p], pools[q]) /\ ~(IsGlobalIPPool(pools[p].sel) /\ IsGlobalIPPool(pools[q].sel))
    BY <2>1, FitNoTie DEF Fits
  <2> QED BY <2>4, <2>5 DEF Conflict
<1> QED BY <1>1, AdmissionInitInv, AdmissionStep, PTL DEF AdmissionSpec

\* The controllers' status writes pass the validator, whichever of the pools
\* came first, as long as no pool is in the way that raced with this one.
THEOREM StatusNotRefused == AdmissionSpec => []StatusWritesPass
<1>1. AdmissionInv => StatusWritesPass
  <2> SUFFICES ASSUME AdmissionInv, NEW c \in Clients,
                      req[c].pc \in {"ranges", "selector"}, req[c].op = "update",
                      Live(req[c].name), SpecOf(req[c].obj) = SpecOf(pools[req[c].name]),
                      \A ip \in req[c].obj.allocated :
                          InRangeSet(MakeRangeSet(req[c].obj.ranges), ip),
                      \A q \in Others(req[c].name) :
                          q \in InSight /\ Live(q) /\ VettedPair(req[c].name, q)
               PROVE  IF req[c].pc = "ranges"
                      THEN RangesAccepted("update", req[c].name, req[c].obj)
                      ELSE SelectorAccepted(req[c].name, req[c].obj)
    BY DEF StatusWritesPass
  <2> DEFINE p == req[c].name  obj == req[c].obj
  <2>1. RequestOK(req[c], pools) BY DEF AdmissionInv, RequestsOK
  <2>2. p \in Pools BY <2>1 DEF RequestOK
  <2>3. obj.ranges = pools[p].ranges /\ obj.sel = pools[p].sel BY DEF SpecOf
  <2>4. RangesSound(pools[p]) /\ SelectorSound(pools[p].sel)
    BY <2>2 DEF AdmissionInv, AllAdmitted, Admitted, Live, Exists
  <2>5. ASSUME NEW q \in Others(p)
        PROVE  /\ q \in Pools
               /\ MakesRangeSet(pools[q].ranges)
               /\ cache[q].ranges = pools[q].ranges /\ cache[q].sel = pools[q].sel
               /\ cache[q].global = IsGlobalIPPool(pools[q].sel)
               /\ Disjoint(pools[p], pools[q]) /\ SelectorsFit(pools[p].sel, pools[q].sel)
    <3>1. q \in Pools \ {p} /\ q \in InSight /\ Live(q) /\ VettedPair(p, q) BY DEF Others
    <3>2. /\ cache[q].ranges = pools[q].ranges /\ cache[q].sel = pools[q].sel
          /\ cache[q].global = IsGlobalIPPool(pools[q].sel)
      BY <2>2, <3>1, InSightOthers
    <3>3. MakesRangeSet(pools[q].ranges)
      BY <3>1 DEF AdmissionInv, AllAdmitted, Admitted, RangesSound, Live, Exists
    <3>4. Fits(pools[p], pools[q]) \/ Fits(pools[q], pools[p])
      BY <2>2, <3>1 DEF AdmissionInv, VettedFit, VettedPair
    <3>5. Disjoint(pools[p], pools[q]) /\ SelectorsFit(pools[p].sel, pools[q].sel)
      BY <3>4, DisjointSymmetric, SelectorsFitSymmetric DEF Fits
    <3> QED BY <3>1, <3>2, <3>3, <3>5
  <2>6. CASE req[c].pc = "ranges"
    <3>1. \A q \in Others(p) : /\ MakesRangeSet(cache[q].ranges)
                               /\ ~RangeSetsOverlap(MakeRangeSet(obj.ranges), MakeRangeSet(cache[q].ranges))
      BY <2>3, <2>5 DEF Disjoint
    <3> QED BY <2>3, <2>4, <2>6, <3>1 DEF RangesAccepted, RangesSound
  <2>7. CASE req[c].pc = "selector"
    <3>1. CASE IsGlobalIPPool(obj.sel)
      <4>1. \A q \in Others(p) : ~cache[q].global BY <2>3, <2>5, <3>1 DEF SelectorsFit
      <4> QED BY <2>7, <3>1, <4>1 DEF SelectorAccepted, CheckGlobalIPPool
    <3>2. CASE ~IsGlobalIPPool(obj.sel)
      <4>1. CheckSelectorItself(obj.sel) BY <2>3, <2>4, <3>2 DEF SelectorSound
      <4>2. CheckSelectorWithOthers(p, obj.sel)
        BY <2>3, <2>5, <3>2 DEF SelectorsFit, CheckSelectorWithOthers
      <4> QED BY <2>7, <3>2, <4>1, <4>2 DEF SelectorAccepted
    <3> QED BY <3>1, <3>2
  <2> QED BY <2>6, <2>7
<1> QED BY <1>1, AdmissionInitInv, AdmissionStep, PTL DEF AdmissionSpec

-----------------------------------------------------------------------------
(* The choice of a pool *)

\* The pools that Select considers before it falls back to a global one.
Usable(pool, p, r, loose) == ~pool[p].global /\ Matches(pool[p].sel, r, loose)

\* What Select has found after the first i pools of a list.
FoundIn(list, pool, r, loose, i, found) ==
    /\ \/ /\ found.selected = NoName /\ found.priority = 0
          /\ \A j \in 1 .. i : ~Usable(pool, list[j], r, loose)
       \/ /\ \E j \in 1 .. i : found.selected = list[j]
          /\ Usable(pool, found.selected, r, loose)
          /\ found.priority = pool[found.selected].sel.priority
          /\ \A j \in 1 .. i : Usable(pool, list[j], r, loose)
                                => pool[list[j]].sel.priority <= found.priority
    /\ \/ found.global = NoName /\ \A j \in 1 .. i : ~pool[list[j]].global
       \/ pool[found.global].global /\ \E j \in 1 .. i : found.global = list[j]

\* What the walk of Select finds, and what it returns then.
SelectFinds(list, pool, r, loose, found) ==
    /\ found = [i \in 0 .. Len(list) |->
                  IF i = 0 THEN [selected |-> NoName, global |-> NoName, priority |-> 0]
                           ELSE Visit(found[i - 1], list[i], pool, r, loose)]
    /\ Select(list, pool, r, loose) =
           IF found[Len(list)].selected # NoName THEN found[Len(list)].selected
                                                 ELSE found[Len(list)].global

\* The walk of Select is what its recursive function says.
LEMMA SelectDef ==
    ASSUME NEW list, Len(list) \in Nat, NEW pool, NEW r, NEW loose
    PROVE  \E found : SelectFinds(list, pool, r, loose, found)
<1> DEFINE none == [selected |-> NoName, global |-> NoName, priority |-> 0]
           Is(n, f) == f = [i \in 0 .. n |->
                              IF i = 0 THEN none ELSE Visit(f[i - 1], list[i], pool, r, loose)]
           S == {n \in Nat : \E f : Is(n, f)}
<1> HIDE DEF none
<1>1. 0 \in S
  <2>1. Is(0, [i \in 0 .. 0 |-> none]) OBVIOUS
  <2> QED BY <2>1
<1>2. ASSUME NEW n \in Nat, n \in S PROVE n + 1 \in S
  <2>1. PICK f : Is(n, f) BY <1>2
  <2> DEFINE g == [i \in 0 .. n + 1 |->
                      IF i = n + 1 THEN Visit(f[n], list[n + 1], pool, r, loose) ELSE f[i]]
  <2>2. Is(n + 1, g) BY <2>1
  <2>3. \E h : Is(n + 1, h) BY <2>2
  <2> HIDE DEF Is
  <2> QED BY <2>3
<1>3. Len(list) \in S
  <2> HIDE DEF S
  <2> QED BY <1>1, <1>2, SetInduction
<1>4. \E f : Is(Len(list), f) BY <1>3
<1> DEFINE found == CHOOSE f : Is(Len(list), f)
<1>5. Is(Len(list), found) BY <1>4
<1>6. Select(list, pool, r, loose) =
          IF found[Len(list)].selected # NoName THEN found[Len(list)].selected
                                                ELSE found[Len(list)].global
  BY DEF Select, none
<1> HIDE DEF found
<1>7. SelectFinds(list, pool, r, loose, found) BY <1>5, <1>6 DEF none, SelectFinds
<1> QED BY <1>7

\* The loop of Select keeps what it has found.
LEMMA VisitKeeps ==
    ASSUME NEW list, NEW pool, NEW r, NEW loose, NEW i \in Nat, NEW found,
           found.priority \in Nat,
           found \in [selected : {found.selected}, global : {found.global},
                      priority : {found.priority}],
           \A j \in 1 .. i + 1 : /\ pool[list[j]].sel.priority \in Nat
                                 /\ pool[list[j]].global \in BOOLEAN,
           FoundIn(list, pool, r, loose, i, found)
    PROVE  LET next == Visit(found, list[i + 1], pool, r, loose)
           IN  /\ FoundIn(list, pool, r, loose, i + 1, next)
               /\ next.priority \in Nat
               /\ next \in [selected : {next.selected}, global : {next.global},
                            priority : {next.priority}]
<1> DEFINE p == list[i + 1]
           prio(x) == pool[x].sel.priority
           next == Visit(found, p, pool, r, loose)
<1>0. i + 1 \in 1 .. i + 1 /\ \A j \in 1 .. i + 1 : j \in 1 .. i \/ j = i + 1 OBVIOUS
<1>a. \A j \in 1 .. i : j \in 1 .. i + 1 OBVIOUS
<1>b. prio(p) \in Nat /\ pool[p].global \in BOOLEAN BY <1>0
<1>1. CASE pool[p].global
  <2>1. next = [found EXCEPT !.global = p] BY <1>1 DEF Visit
  <2>2. /\ next.selected = found.selected /\ next.priority = found.priority /\ next.global = p
        /\ next \in [selected : {next.selected}, global : {next.global},
                     priority : {next.priority}]
    BY <2>1
  <2>3. ~Usable(pool, p, r, loose) BY <1>1 DEF Usable
  <2> HIDE DEF next
  <2>4. FoundIn(list, pool, r, loose, i + 1, next)
    BY <1>0, <1>a, <1>1, <2>2, <2>3 DEF FoundIn
  <2> QED BY <2>2, <2>4 DEF next
<1>2. CASE ~pool[p].global /\ Matches(pool[p].sel, r, loose) /\ prio(p) >= found.priority
  <2>1. next = [found EXCEPT !.selected = p, !.priority = prio(p)] BY <1>2 DEF Visit
  <2>2. /\ next.selected = p /\ next.priority = prio(p) /\ next.global = found.global
        /\ next \in [selected : {next.selected}, global : {next.global},
                     priority : {next.priority}]
        /\ next.priority \in Nat
    BY <1>b, <2>1
  <2>3. Usable(pool, p, r, loose) BY <1>2 DEF Usable
  <2> HIDE DEF next
  <2>4. ASSUME NEW j \in 1 .. i, Usable(pool, list[j], r, loose)
        PROVE  prio(list[j]) <= found.priority
    BY <2>4 DEF FoundIn
  <2>a. ASSUME NEW j \in 1 .. i + 1, Usable(pool, list[j], r, loose)
        PROVE  prio(list[j]) <= next.priority
    <3>1. CASE j = i + 1 BY <1>b, <2>2, <3>1
    <3>2. CASE j \in 1 .. i
      <4>1. prio(list[j]) <= found.priority BY <2>4, <2>a, <3>2
      <4>2. prio(list[j]) \in Nat OBVIOUS
      <4> QED BY <1>2, <1>b, <2>2, <4>1, <4>2
    <3> QED BY <1>0, <3>1, <3>2
  <2>5. FoundIn(list, pool, r, loose, i + 1, next)
    BY <1>0, <1>a, <1>2, <2>2, <2>3, <2>a DEF FoundIn
  <2> QED BY <2>2, <2>5 DEF next
<1>3. CASE ~pool[p].global /\ ~(Matches(pool[p].sel, r, loose) /\ prio(p) >= found.priority)
  <2>1. next = found BY <1>3 DEF Visit
  <2>2. Usable(pool, p, r, loose) => prio(p) <= found.priority BY <1>3, <1>b DEF Usable
  <2>3. Usable(pool, p, r, loose) => found.priority # 0 BY <1>3, <1>b DEF Usable
  <2> HIDE DEF next
  <2>4. FoundIn(list, pool, r, loose, i + 1, found)
    BY <1>0, <1>a, <1>3, <2>2, <2>3 DEF FoundIn
  <2> QED BY <2>1, <2>4 DEF next
<1> QED BY <1>1, <1>2, <1>3

\* The pool of there that Select may return.
Choice(there, pool, r, loose, s) ==
    \/ /\ s \in there /\ Usable(pool, s, r, loose)
       /\ \A p \in there : Usable(pool, p, r, loose)
                            => pool[p].sel.priority <= pool[s].sel.priority
    \/ /\ \A p \in there : ~Usable(pool, p, r, loose)
       /\ \/ s \in there /\ pool[s].global
          \/ s = NoName /\ \A p \in there : ~pool[p].global

\* Select returns the pool with the highest priority, or else a global one.
LEMMA SelectChooses ==
    ASSUME NEW there, NEW pool, NEW r, NEW loose, NEW list,
           Len(list) \in Nat,
           \A i \in 1 .. Len(list) : list[i] \in there,
           \A p \in there : \E i \in 1 .. Len(list) : p = list[i],
           NoName \notin there,
           \A p \in there : pool[p].sel.priority \in Nat /\ pool[p].global \in BOOLEAN
    PROVE  Choice(there, pool, r, loose, Select(list, pool, r, loose))
<1> DEFINE none == [selected |-> NoName, global |-> NoName, priority |-> 0]
           n == Len(list)
<1>0. PICK found : SelectFinds(list, pool, r, loose, found) BY SelectDef
<1>1. /\ found = [i \in 0 .. n |->
                    IF i = 0 THEN none ELSE Visit(found[i - 1], list[i], pool, r, loose)]
      /\ Select(list, pool, r, loose) =
             IF found[n].selected # NoName THEN found[n].selected ELSE found[n].global
  BY <1>0 DEF SelectFinds
<1> DEFINE Good(i) == /\ FoundIn(list, pool, r, loose, i, found[i])
                      /\ found[i].priority \in Nat
                      /\ found[i] \in [selected : {found[i].selected},
                                       global : {found[i].global},
                                       priority : {found[i].priority}]
           S == {i \in Nat : Good(i)}
<1>2. 0 \in S
  <2>1. found[0] = none BY <1>1
  <2>2. Good(0) BY <2>1 DEF FoundIn
  <2> QED BY <2>2
<1>3. ASSUME NEW i \in 0 .. n - 1, i \in S PROVE i + 1 \in S
  <2>1. i + 1 \in 0 .. n /\ i + 1 \in 1 .. n /\ i + 1 # 0 /\ (i + 1) - 1 = i /\ i \in Nat OBVIOUS
  <2>2. found[i + 1] = Visit(found[i], list[i + 1], pool, r, loose) BY <1>1, <2>1
  <2>3. \A j \in 1 .. i + 1 : list[j] \in there BY <2>1
  <2>4. \A j \in 1 .. i + 1 : /\ pool[list[j]].sel.priority \in Nat
                              /\ pool[list[j]].global \in BOOLEAN
    BY <2>3
  <2>5. Good(i) BY <1>3
  <2>6. Good(i + 1) BY <2>1, <2>2, <2>4, <2>5, VisitKeeps
  <2> QED BY <2>1, <2>6
<1>4. 0 .. n \subseteq S
  <2> HIDE DEF S
  <2> QED BY <1>2, <1>3, UpTo
<1>5. FoundIn(list, pool, r, loose, n, found[n]) BY <1>4
<1> DEFINE f == found[n]
           s == Select(list, pool, r, loose)
<1>6. s = IF f.selected # NoName THEN f.selected ELSE f.global BY <1>1
<1>7. FoundIn(list, pool, r, loose, n, f) BY <1>5
<1> HIDE DEF f, s
<1>8. CASE f.selected # NoName
  <2>1. s = f.selected BY <1>6, <1>8
  <2>2. /\ \E j \in 1 .. n : s = list[j]
        /\ Usable(pool, s, r, loose)
        /\ \A j \in 1 .. n : Usable(pool, list[j], r, loose)
                             => pool[list[j]].sel.priority <= pool[s].sel.priority
    BY <1>7, <1>8, <2>1 DEF FoundIn
  <2>3. s \in there BY <2>2
  <2>4. \A p \in there : Usable(pool, p, r, loose)
                           => pool[p].sel.priority <= pool[s].sel.priority
    BY <2>2
  <2> QED BY <2>2, <2>3, <2>4 DEF Choice, s
<1>9. CASE f.selected = NoName
  <2>1. s = f.global BY <1>6, <1>9
  <2>2. \A j \in 1 .. n : list[j] # NoName BY DEF NoName
  <2>3. \A j \in 1 .. n : ~Usable(pool, list[j], r, loose)
    BY <1>7, <1>9, <2>2 DEF FoundIn
  <2>4. \A p \in there : ~Usable(pool, p, r, loose) BY <2>3
  <2>5. \/ s = NoName /\ \A j \in 1 .. n : ~pool[list[j]].global
        \/ pool[s].global /\ \E j \in 1 .. n : s = list[j]
    BY <1>7, <2>1 DEF FoundIn
  <2>6. \/ s = NoName /\ \A p \in there : ~pool[p].global
        \/ pool[s].global /\ s \in there
    BY <2>5
  <2> QED BY <2>4, <2>6 DEF Choice, s
<1> QED BY <1>8, <1>9

\* Where no two usable pools have the same priority and at most one pool is
\* global, there is one pool that Select may return.
LEMMA ChoiceUnique ==
    ASSUME NEW there, NEW pool, NEW r, NEW loose, NoName \notin there,
           \A p \in there : pool[p].sel.priority \in Nat,
           \A p, q \in there : p # q => ~(pool[p].global /\ pool[q].global),
           \A p, q \in there : p # q /\ Usable(pool, p, r, loose) /\ Usable(pool, q, r, loose)
                                => pool[p].sel.priority # pool[q].sel.priority,
           NEW s, NEW t, Choice(there, pool, r, loose, s), Choice(there, pool, r, loose, t)
    PROVE  s = t
<1>1. CASE \E p \in there : Usable(pool, p, r, loose)
  <2>1. /\ s \in there /\ Usable(pool, s, r, loose)
        /\ t \in there /\ Usable(pool, t, r, loose)
        /\ pool[s].sel.priority <= pool[t].sel.priority
        /\ pool[t].sel.priority <= pool[s].sel.priority
    BY <1>1 DEF Choice
  <2>2. pool[s].sel.priority \in Nat /\ pool[t].sel.priority \in Nat BY <2>1
  <2>3. pool[s].sel.priority = pool[t].sel.priority BY <2>1, <2>2
  <2> QED BY <2>1, <2>3
<1>2. CASE \A p \in there : ~Usable(pool, p, r, loose)
  BY <1>2 DEF Choice
<1> QED BY <1>1, <1>2

\* The requirement of a load balancer of which neither project nor guest
\* cluster is known.
Unset(r) == [network |-> r.network, project |-> EmptySelector,
             namespace |-> r.namespace, cluster |-> EmptySelector]

\* A selector of the UI that matches in loose mode only matches so.
LEMMA LooseMatchesUnset ==
    ASSUME NEW s, NEW r, UIScope(s), Matches(s, r, TRUE), ~Matches(s, r, FALSE)
    PROVE  Matches(s, Unset(r), FALSE)
<1>1. PICK i \in DOMAIN s.scope : IsMatch(s.scope[i], r, TRUE) BY DEF Matches
<1>2. ~IsMatch(s.scope[i], r, FALSE) BY DEF Matches
<1>3. s.scope[i].project = EmptySelector \/ s.scope[i].cluster = EmptySelector
  BY <1>1, <1>2 DEF IsMatch
<1>4. s.scope[i].project = EmptySelector /\ s.scope[i].cluster = EmptySelector
  BY <1>3 DEF UIScope
<1>5. FieldMatches(s.scope[i].namespace, r.namespace) BY <1>1 DEF IsMatch
<1>6. IsMatch(s.scope[i], Unset(r), FALSE) BY <1>4, <1>5 DEF IsMatch, FieldMatches, Unset
<1>7. s.network = Unset(r).network BY DEF Matches, Unset
<1> QED BY <1>6, <1>7 DEF Matches

\* A list of a finite set without repetitions has all of it, and there is one.
LEMMA Orderings ==
    ASSUME NEW S, IsFiniteSet(S)
    PROVE  /\ SetToSeqs(S) # {}
           /\ \A list \in SetToSeqs(S) :
                 /\ Len(list) \in Nat
                 /\ \A i \in 1 .. Len(list) : list[i] \in S
                 /\ \A x \in S : \E i \in 1 .. Len(list) : x = list[i]
<1> DEFINE n == Cardinality(S)
<1>1. n \in Nat /\ ExistsBijection(1 .. n, S) BY FS_CardinalityType
<1>2. SetToSeqs(S) = {f \in [1 .. n -> S] : \A i, j \in 1 .. n : i # j => f[i] # f[j]}
  BY Zenon DEF SetToSeqs
<1> HIDE DEF n
<1>3. SetToSeqs(S) # {}
  <2>1. PICK f : f \in Bijection(1 .. n, S) BY <1>1 DEF ExistsBijection
  <2>2. f \in [1 .. n -> S] /\ \A i, j \in 1 .. n : i # j => f[i] # f[j]
    BY <2>1 DEF Bijection, Injection, IsInjective
  <2> QED BY <1>2, <2>2
<1>4. ASSUME NEW list \in SetToSeqs(S)
      PROVE  /\ Len(list) = n
             /\ \A i \in 1 .. n : list[i] \in S
             /\ \A x \in S : \E i \in 1 .. n : x = list[i]
  <2>1. list \in [1 .. n -> S] /\ \A i, j \in 1 .. n : i # j => list[i] # list[j]
    BY <1>2
  <2>2. list \in Seq(S) /\ Len(list) = n BY <1>1, <2>1
  <2> DEFINE T == {list[i] : i \in 1 .. n}
  <2>3. T \subseteq S BY <2>1
  <2>4. list \in Bijection(1 .. n, T)
    BY <2>1 DEF Bijection, Injection, Surjection, IsInjective
  <2>5. IsFiniteSet(T) /\ Cardinality(T) = n
    <3>1. ExistsBijection(1 .. n, T) BY <2>4 DEF ExistsBijection
    <3>2. IsFiniteSet(T) BY <2>3, FS_Subset
    <3> HIDE DEF T
    <3> QED BY <1>1, <3>1, <3>2, FS_CountingElements
  <2>6. T = S BY <2>3, <2>5, FS_Subset DEF n
  <2> QED BY <2>1, <2>2, <2>6
<1> QED BY <1>1, <1>3, <1>4

\* What a load balancer requires of a pool.
Requires(lb) ==
    [network   |-> lb.network,
     project   |-> lb.project,
     namespace |-> IF lb.annotated # NoName THEN lb.annotated ELSE lb.namespace,
     cluster   |-> lb.cluster]

\* Pools that fit leave a load balancer one choice: in the strict try since a
\* requirement without wildcards matches one pool of each priority, in the
\* loose one since what matches there only has neither project nor cluster.
LEMMA SelectIPPoolUnique ==
    ASSUME NEW there, NEW pool, NEW lb \in Balancers, NoName \notin there, IsFiniteSet(there),
           \A p \in there : /\ pool[p].sel.priority \in Nat
                            /\ pool[p].global = IsGlobalIPPool(pool[p].sel),
           \A p, q \in there : p # q => SelectorsFit(pool[p].sel, pool[q].sel),
           lb.type # "cluster" \/ \A p \in there : UIScope(pool[p].sel),
           NEW k \in SetToSeqs(there), NEW l \in SetToSeqs(there)
    PROVE  SelectIPPool(k, pool, lb) = SelectIPPool(l, pool, lb)
<1> DEFINE r == Requires(lb)
           u == Unset(r)
           strict(list) == Select(list, pool, r, FALSE)
           loose(list)  == Select(list, pool, r, TRUE)
<1>1. /\ All \notin {r.project, r.namespace, r.cluster}
      /\ All \notin {u.project, u.namespace, u.cluster}
  BY RequirementsAssumption DEF Requires, Unset, All, EmptySelector
<1>2. \A list : SelectIPPool(list, pool, lb) =
           IF strict(list) # NoName \/ lb.type # "cluster" THEN strict(list) ELSE loose(list)
  BY DEF SelectIPPool, Requires
<1> HIDE DEF r, u
<1>3. \A p \in there : pool[p].global \in BOOLEAN BY DEF IsGlobalIPPool
<1>4. \A p, q \in there : p # q => ~(pool[p].global /\ pool[q].global)
  BY DEF SelectorsFit
<1>5. ASSUME NEW list \in SetToSeqs(there), NEW mode
      PROVE  Choice(there, pool, r, mode, Select(list, pool, r, mode))
  <2>1. /\ Len(list) \in Nat
        /\ \A i \in 1 .. Len(list) : list[i] \in there
        /\ \A p \in there : \E i \in 1 .. Len(list) : p = list[i]
    BY Orderings
  <2> QED BY <1>3, <2>1, SelectChooses
<1>6. strict(k) = strict(l)
  <2>1. ASSUME NEW p \in there, NEW q \in there, p # q,
               Usable(pool, p, r, FALSE), Usable(pool, q, r, FALSE)
        PROVE  pool[p].sel.priority # pool[q].sel.priority
    <3>1. /\ ~IsGlobalIPPool(pool[p].sel) /\ ~IsGlobalIPPool(pool[q].sel)
          /\ Matches(pool[p].sel, r, FALSE) /\ Matches(pool[q].sel, r, FALSE)
          /\ SelectorsFit(pool[p].sel, pool[q].sel)
      BY <2>1 DEF Usable
    <3> QED BY <1>1, <3>1, FitMatchesOnce
  <2>2. Choice(there, pool, r, FALSE, strict(k)) /\ Choice(there, pool, r, FALSE, strict(l))
    BY <1>5
  <2> HIDE DEF strict
  <2> QED BY <1>4, <2>1, <2>2, ChoiceUnique
<1>7. ASSUME strict(k) = NoName, lb.type = "cluster"
      PROVE  loose(k) = loose(l)
  <2>1. \A p \in there : ~Usable(pool, p, r, FALSE) /\ ~pool[p].global
    <3>1. Choice(there, pool, r, FALSE, NoName) BY <1>5, <1>7
    <3> QED BY <3>1 DEF Choice
  <2>2. ASSUME NEW p \in there, Usable(pool, p, r, TRUE)
        PROVE  ~IsGlobalIPPool(pool[p].sel) /\ Matches(pool[p].sel, u, FALSE)
    <3>1. Matches(pool[p].sel, r, TRUE) /\ ~Matches(pool[p].sel, r, FALSE)
            /\ ~IsGlobalIPPool(pool[p].sel)
      BY <2>1, <2>2 DEF Usable
    <3>2. UIScope(pool[p].sel) BY <1>7
    <3> QED BY <3>1, <3>2, LooseMatchesUnset DEF u
  <2>3. ASSUME NEW p \in there, NEW q \in there, p # q,
               Usable(pool, p, r, TRUE), Usable(pool, q, r, TRUE)
        PROVE  pool[p].sel.priority # pool[q].sel.priority
    <3>1. /\ ~IsGlobalIPPool(pool[p].sel) /\ ~IsGlobalIPPool(pool[q].sel)
          /\ Matches(pool[p].sel, u, FALSE) /\ Matches(pool[q].sel, u, FALSE)
          /\ SelectorsFit(pool[p].sel, pool[q].sel)
      BY <2>2, <2>3
    <3> QED BY <1>1, <3>1, FitMatchesOnce
  <2>4. Choice(there, pool, r, TRUE, loose(k)) /\ Choice(there, pool, r, TRUE, loose(l))
    BY <1>5
  <2> HIDE DEF loose
  <2> QED BY <1>4, <2>3, <2>4, ChoiceUnique
<1> HIDE DEF strict, loose
<1> QED BY <1>2, <1>6, <1>7

\* Of pools none of which is being deleted and each two of which are vetted, a
\* load balancer gets the same one in whatever order the cache lists them.
LEMMA AdmittedChoiceIsClear ==
    ASSUME AdmissionInv
    PROVE  ChoiceIsClear
<1> DEFINE there == {p \in Pools : Exists(p)}
           choices(lb) == {SelectIPPool(list, pools, lb) : list \in SetToSeqs(there)}
<1> SUFFICES ASSUME \A p, q \in there : Live(p) /\ (p # q => VettedPair(p, q)),
                    NEW lb \in Balancers,
                    lb.type # "cluster" \/ (\A p \in there : UIScope(pools[p].sel))
             PROVE  Cardinality(choices(lb)) = 1
  BY DEF ChoiceIsClear
<1>1. IsFiniteSet(there) /\ NoName \notin there BY PoolsAssumption, FS_Subset
<1>2. ASSUME NEW p \in there
      PROVE  pools[p].sel.priority \in Nat /\ pools[p].global = IsGlobalIPPool(pools[p].sel)
  <2>1. Live(p) /\ p \in Pools OBVIOUS
  <2>2. pools[p].sel # None /\ pools[p].global = IsGlobalIPPool(pools[p].sel)
    BY <2>1 DEF AdmissionInv, AllAdmitted, Admitted, Live, Exists
  <2>3. pools[p] \in PoolType BY DEF AdmissionInv, AdmissionTypeOK
  <2>4. pools[p].sel \in {s.sel : s \in Specs} BY <2>2, <2>3 DEF PoolType
  <2> QED BY <2>2, <2>4, SpecsAssumption
<1>3. ASSUME NEW p \in there, NEW q \in there, p # q
      PROVE  SelectorsFit(pools[p].sel, pools[q].sel)
  <2>1. VettedPair(p, q) /\ p \in Pools /\ q \in Pools BY <1>3
  <2>2. Fits(pools[p], pools[q]) \/ Fits(pools[q], pools[p])
    BY <1>3, <2>1 DEF AdmissionInv, VettedFit, VettedPair
  <2> QED BY <2>2, SelectorsFitSymmetric DEF Fits
<1> HIDE DEF there
<1>4. PICK l : l \in SetToSeqs(there) BY <1>1, Orderings
<1>5. \A k \in SetToSeqs(there) : SelectIPPool(k, pools, lb) = SelectIPPool(l, pools, lb)
  BY <1>1, <1>2, <1>3, <1>4, SelectIPPoolUnique
<1>6. choices(lb) = {SelectIPPool(l, pools, lb)} BY <1>4, <1>5
<1> QED BY <1>6, FS_Singleton

\* Where no two pools raced, the choice of the loadbalancer controller among
\* the pools that the webhook let through does not depend on the order in which
\* its cache lists them; in the loose second try too, for scopes that the UI can
\* write.
THEOREM ChoiceNeedsNoOrder == AdmissionSpec => []ChoiceIsClear
  BY AdmissionInitInv, AdmissionStep, AdmittedChoiceIsClear, PTL DEF AdmissionSpec
=============================================================================
