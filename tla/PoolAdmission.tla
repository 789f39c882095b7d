---------------------------- MODULE PoolAdmission ----------------------------
(***************************************************************************)
(* How IP pools get into the API server: mutator and validator of          *)
(* pkg/webhook/ippool around a Create or an Update, which reads the        *)
(* webhook's own, lagging, cache of the pools twice (for the ranges, then  *)
(* for the selector) and takes effect some time after.  Several clients    *)
(* have requests under way; the controllers' status writes are Updates     *)
(* like any other, since the resource has no status subresource.           *)
(*                                                                         *)
(* A pool is [ranges, sel, vid, global, allocated, history, deleting]:     *)
(* spec, the two labels, the allocated addresses, the history (address to  *)
(* owner).                                                                 *)
(***************************************************************************)
EXTENDS Ranges, Selection, FiniteSets

CONSTANTS
    Pools,      \* names of pools
    Clients,    \* whoever sends requests
    Specs,      \* the specs of pools: [ranges, sel]
    Histories,  \* the histories a pool may be created with
    IPs,        \* addresses that may be allocated
    Requirements, \* what load balancers may require, without wildcards
    Balancers,  \* load balancers as SelectIPPool sees them
    Vids,       \* the networks with a definition, and their VLAN ids
    MaxHost     \* bound on the host bits of a subnet

\* 2^h exceeds h, for the subnets there are.
ASSUME HostAssumption ==
    /\ MaxHost \in Nat
    /\ \A h \in 0 .. MaxHost : 2^h \in Nat /\ 2^h >= h + 1

ASSUME RequirementsAssumption ==
    /\ \A r \in Requirements : All \notin {r.project, r.namespace, r.cluster}
    /\ \A lb \in Balancers : All \notin {lb.project, lb.namespace, lb.annotated, lb.cluster}

\* The numbers in the ranges of a spec, and a selector that is there.
ASSUME SpecsAssumption ==
    \A s \in Specs :
        /\ s.sel # None /\ s.sel.priority \in Nat
        /\ \A i \in DOMAIN s.ranges :
             s.ranges[i].net \in Nat /\ s.ranges[i].host \in 0 .. MaxHost

\* There are finitely many pools, and each has a name.
ASSUME PoolsAssumption == IsFiniteSet(Pools) /\ NoName \notin Pools

VARIABLES
    pools,      \* the pools in the API server
    cache,      \* the pools as the webhook's informer has them
    req,        \* the request of each client
    vetted      \* history variable: <<p, q>> if the spec that p has was
                \* admitted in sight of the spec that q has

admissionVars == <<pools, cache, req, vetted>>

NoPool == [ranges |-> <<>>, sel |-> None, vid |-> None, global |-> FALSE,
           allocated |-> {}, history |-> <<>>, deleting |-> FALSE]

NewPool(spec) == [NoPool EXCEPT !.ranges = spec.ranges, !.sel = spec.sel]

Idle(outcome) == [pc |-> "idle", op |-> None, name |-> None, obj |-> NoPool,
                  fresh |-> FALSE, saw |-> {}, outcome |-> outcome]

Exists(p)      == pools[p] # NoPool
SpecOf(pool)   == [ranges |-> pool.ranges, sel |-> pool.sel]

\* The pools whose spec the cache has as it is.
InSight ==
    {q \in Pools : /\ Exists(q)
                   /\ ~cache[q].deleting
                   /\ SpecOf(cache[q]) = SpecOf(pools[q])}

AdmissionInit ==
    /\ pools = [p \in Pools |-> NoPool]
    /\ cache = pools
    /\ req = [c \in Clients |-> Idle(None)]
    /\ vetted = {}

-----------------------------------------------------------------------------
(* The mutator *)

\* GetVid: no network is VLAN 0; a network must have a definition with an id.
HasVid(network) == network = "" \/ network \in DOMAIN Vids

GetVid(network) == IF network = "" THEN 0 ELSE Vids[network]

\* getLabelPatch.
GetLabelPatch(pool) ==
    [pool EXCEPT !.vid = GetVid(pool.sel.network),
                 !.global = IsGlobalIPPool(pool.sel)]

-----------------------------------------------------------------------------
(* The validator *)

\* LBRangesToAllocatorRangeSet succeeds.
MakesRangeSet(specs) ==
    \A i \in DOMAIN specs : specs[i].family # "none" /\ ValidRange(specs[i])

\* getOtherPoolsRanges: the cached pools but the one of that name.
Others(p) == {q \in Pools \ {p} : cache[q] # NoPool}

\* Create and Update up to checkAllocated, with getOtherPoolsRanges, checkRange.
RangesAccepted(op, p, pool) ==
    /\ pool.ranges # <<>>
    /\ MakesRangeSet(pool.ranges)
    /\ \A q \in Others(p) : MakesRangeSet(cache[q].ranges)
    /\ LET rs == MakeRangeSet(pool.ranges)
       IN  /\ SelfDisjoint(rs)
           /\ \A q \in Others(p) : ~RangeSetsOverlap(rs, MakeRangeSet(cache[q].ranges))
           /\ op = "update" => \A ip \in pool.allocated : InRangeSet(rs, ip)

\* A mutant: the pool itself is not left out.
CheckGlobalIPPoolSelf(p) == \A q \in Pools : ~cache[q].global

\* checkGlobalIPPool: it lists by label.
CheckGlobalIPPool(p) == \A q \in Others(p) : ~cache[q].global

\* checkSelectorItself: no tuple matches a later one.
CheckSelectorItself(sel) ==
    \A i, j \in DOMAIN sel.scope :
        i < j => ~IsMatch(sel.scope[j], AsRequirement(sel, i), FALSE)

\* A mutant: only pools with the default priority are told apart.
CheckSelectorZeroOnly(p, sel) ==
    \A q \in {x \in Others(p) : ~IsGlobalIPPool(cache[x].sel)} :
        cache[q].sel.priority = 0 /\ sel.priority = 0 =>
            \A i \in DOMAIN sel.scope :
                ~Matches(cache[q].sel, AsRequirement(sel, i), FALSE)

\* checkSelectorWithOthers.
CheckSelectorWithOthers(p, sel) ==
    \A q \in {x \in Others(p) : ~IsGlobalIPPool(cache[x].sel)} :
        LET other == cache[q].sel
        IN  /\ other.priority # 0 => other.priority # sel.priority
            /\ other.priority = 0 /\ sel.priority = 0 =>
                 \A i \in DOMAIN sel.scope :
                     ~Matches(other, AsRequirement(sel, i), FALSE)

\* checkSelector.
SelectorAccepted(p, pool) ==
    IF IsGlobalIPPool(pool.sel)
    THEN CheckGlobalIPPool(p)
    ELSE CheckSelectorItself(pool.sel) /\ CheckSelectorWithOthers(p, pool.sel)

-----------------------------------------------------------------------------
(* A request *)

\* The API server calls the mutator.  An Update is of the object as it is; of
\* one being deleted neither mutator nor validator look at it.
Submit(c, op, p, pool) ==
    /\ req[c].pc = "idle"
    /\ op = "create" \/ Exists(p)
    /\ LET skip == op = "update" /\ pool.deleting
       IN  req' = [req EXCEPT ![c] =
             IF ~skip /\ ~HasVid(pool.sel.network)
             THEN Idle("refused")
             ELSE [pc      |-> IF skip THEN "commit" ELSE "ranges",
                   op      |-> op,
                   name    |-> p,
                   obj     |-> IF skip THEN pool ELSE GetLabelPatch(pool),
                   fresh   |-> TRUE,
                   saw     |-> {},
                   outcome |-> None]]
    /\ UNCHANGED <<pools, cache, vetted>>

\* Create and Update of the validator, first look at the cache.
ValidateRanges(c) ==
    /\ req[c].pc = "ranges"
    /\ LET r == req[c]
       IN  req' = [req EXCEPT ![c] =
             IF RangesAccepted(r.op, r.name, r.obj)
             THEN [r EXCEPT !.pc = "selector", !.saw = InSight]
             ELSE Idle("refused")]
    /\ UNCHANGED <<pools, cache, vetted>>

\* checkSelector, second look at the cache.
ValidateSelector(c) ==
    /\ req[c].pc = "selector"
    /\ LET r == req[c]
       IN  req' = [req EXCEPT ![c] =
             IF SelectorAccepted(r.name, r.obj)
             THEN [r EXCEPT !.pc = "commit", !.saw = r.saw \cap InSight]
             ELSE Idle("refused")]
    /\ UNCHANGED <<pools, cache, vetted>>

\* What the other requests know of p once it has changed: an Update is of an
\* old version, and a pool with another spec is not the one that was seen.
Outdate(p, changed) ==
    [c \in Clients |->
        [req[c] EXCEPT !.fresh = @ /\ req[c].name # p,
                       !.saw = IF changed THEN @ \ {p} ELSE @]]

\* The pairs that stay vetted when p gets another spec.
Without(p) == {pq \in vetted : p \notin {pq[1], pq[2]}}

\* The object is stored: a Create if there is none of that name, an Update if
\* the copy has the current version.
Commit(c) ==
    LET r       == req[c]
        p       == r.name
        changed == SpecOf(r.obj) # SpecOf(pools[p])
    IN  /\ r.pc = "commit"
        /\ IF \/ r.op = "create" /\ Exists(p)
              \/ r.op = "update" /\ ~r.fresh
           THEN /\ req' = [req EXCEPT ![c] =
                             Idle(IF r.op = "create" THEN "exists" ELSE "conflict")]
                /\ UNCHANGED <<pools, vetted>>
           ELSE /\ pools' = [pools EXCEPT ![p] = r.obj]
                /\ req' = [Outdate(p, changed) EXCEPT ![c] = Idle("ok")]
                /\ vetted' = (IF changed THEN Without(p) ELSE vetted)
                               \cup ({p} \X (r.saw \ {p}))
        /\ UNCHANGED cache

-----------------------------------------------------------------------------
(* Clients, and the rest of the API server *)

CreatePool(c, p, spec, history) ==
    Submit(c, "create", p, [NewPool(spec) EXCEPT !.history = history])

\* An edit of the spec by a user.
EditPool(c, p, spec) ==
    /\ Exists(p)
    /\ spec # SpecOf(pools[p])
    /\ Submit(c, "update", p, [pools[p] EXCEPT !.ranges = spec.ranges,
                                               !.sel = spec.sel])

\* Reserve and ReleaseByID of the store write the status.
Allocate(c, p, ip) ==
    /\ Exists(p)
    /\ Submit(c, "update", p,
              [pools[p] EXCEPT !.allocated = IF ip \in @ THEN @ \ {ip}
                                                         ELSE @ \cup {ip}])

\* Delete: the validator refuses while addresses are allocated.  The finalizer
\* keeps the object.
DeletePool(p) ==
    /\ Exists(p) /\ ~pools[p].deleting
    /\ pools[p].allocated = {}
    /\ pools' = [pools EXCEPT ![p].deleting = TRUE]
    /\ req' = Outdate(p, FALSE)
    /\ UNCHANGED <<cache, vetted>>

\* The finalizer is gone.
PoolGone(p) ==
    /\ pools[p].deleting
    /\ pools' = [pools EXCEPT ![p] = NoPool]
    /\ req' = Outdate(p, TRUE)
    /\ vetted' = Without(p)
    /\ UNCHANGED cache

\* The webhook's informer catches up.
SyncPool(p) ==
    /\ cache[p] # pools[p]
    /\ cache' = [cache EXCEPT ![p] = pools[p]]
    /\ UNCHANGED <<pools, req, vetted>>

Serve(c) == ValidateRanges(c) \/ ValidateSelector(c) \/ Commit(c)

AdmissionNext ==
    \/ \E c \in Clients :
         \/ Serve(c)
         \/ \E p \in Pools :
              \/ \E spec \in Specs :
                   \/ EditPool(c, p, spec)
                   \/ \E history \in Histories : CreatePool(c, p, spec, history)
              \/ \E ip \in IPs : Allocate(c, p, ip)
    \/ \E p \in Pools : DeletePool(p) \/ PoolGone(p) \/ SyncPool(p)

AdmissionSpec == AdmissionInit /\ [][AdmissionNext]_admissionVars

-----------------------------------------------------------------------------
(* Properties *)

Live(p) == Exists(p) /\ ~pools[p].deleting

PoolType ==
    [ranges : {<<>>} \cup {s.ranges : s \in Specs},
     sel : {None} \cup {s.sel : s \in Specs},
     vid : {None, 0} \cup {Vids[n] : n \in DOMAIN Vids},
     global : BOOLEAN, allocated : SUBSET IPs,
     history : {<<>>} \cup Histories, deleting : BOOLEAN]

RequestType ==
    [pc : {"idle", "ranges", "selector", "commit"},
     op : {None, "create", "update"}, name : {None} \cup Pools, obj : PoolType,
     fresh : BOOLEAN, saw : SUBSET Pools,
     outcome : {None, "ok", "refused", "exists", "conflict"}]

AdmissionTypeOK ==
    /\ pools \in [Pools -> PoolType]
    /\ cache \in [Pools -> PoolType]
    /\ req \in [Clients -> RequestType]
    /\ vetted \subseteq Pools \X Pools

\* The addresses that a range holds.
Covers(r) == (r.lo .. r.hi) \cap (r.start .. r.end)

\* Two pools that share an address.
ShareAddress(a, b) ==
    \E i \in DOMAIN a.ranges, j \in DOMAIN b.ranges :
        Covers(MakeRange(a.ranges[i])) \cap Covers(MakeRange(b.ranges[j])) # {}

\* Two pools between which a requirement cannot tell.
Tie(a, b) ==
    /\ ~IsGlobalIPPool(a.sel) /\ ~IsGlobalIPPool(b.sel)
    /\ a.sel.priority = b.sel.priority
    /\ \E r \in Requirements : Matches(a.sel, r, FALSE) /\ Matches(b.sel, r, FALSE)

Conflict(a, b) ==
    \/ ShareAddress(a, b)
    \/ Tie(a, b)
    \/ IsGlobalIPPool(a.sel) /\ IsGlobalIPPool(b.sel)

\* Two pools share an address, tie for a load balancer or are both global only
\* if neither was admitted in sight of the other: the webhook's checks miss
\* nothing that their cache shows, whatever happened in between.
ConflictsAreRaces ==
    \A p, q \in Pools :
        p # q /\ <<p, q>> \in vetted /\ Live(p) /\ Live(q)
            => ~Conflict(pools[p], pools[q])

VettedPair(p, q) == <<p, q>> \in vetted \/ <<q, p>> \in vetted

\* The controllers write the status of a pool through the same webhook.  Such a
\* write is let through, whichever of the pools came first, unless another
\* pool is in the way that raced with this one.
StatusWritesPass ==
    \A c \in Clients :
        LET r == req[c]
            p == r.name
        IN  /\ r.pc \in {"ranges", "selector"} /\ r.op = "update" /\ r.fresh
            /\ Live(p) /\ SpecOf(r.obj) = SpecOf(pools[p])
            /\ \A ip \in r.obj.allocated : InRangeSet(MakeRangeSet(r.obj.ranges), ip)
            /\ \A q \in Others(p) : q \in InSight /\ Live(q) /\ VettedPair(p, q)
            => IF r.pc = "ranges" THEN RangesAccepted("update", p, r.obj)
                                  ELSE SelectorAccepted(p, r.obj)

\* Scopes as the UI writes them: project and cluster are set both or not at all.
UIScope(sel) ==
    \A i \in DOMAIN sel.scope :
        (sel.scope[i].project = EmptySelector) = (sel.scope[i].cluster = EmptySelector)

\* Of pools that did not race, a load balancer gets the same one in whatever
\* order the cache lists them; in the loose second try too, for scopes that
\* the UI can write.
ChoiceIsClear ==
    LET there == {p \in Pools : Exists(p)}
        choices(lb) == {SelectIPPool(list, pools, lb) : list \in SetToSeqs(there)}
    IN  (\A p, q \in there : Live(p) /\ (p # q => VettedPair(p, q)))
          => \A lb \in Balancers :
                lb.type # "cluster" \/ (\A p \in there : UIScope(pools[p].sel))
                    => Cardinality(choices(lb)) = 1
=============================================================================
