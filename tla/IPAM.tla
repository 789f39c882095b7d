-------------------------------- MODULE IPAM --------------------------------
(***************************************************************************)
(* Address management of the Harvester load balancer: the loadbalancer and *)
(* the ippool controllers, the allocator and its store, and the pool       *)
(* webhook, over an API server with optimistic concurrency.                *)
(*                                                                         *)
(* Every object lives in the API server (pools, lbs).  The controllers     *)
(* read it through informer caches (poolCache, lbCache) that lag behind,   *)
(* and write whole objects back with Update, which the API server refuses  *)
(* unless the copy written has the current resourceVersion.  Versions are  *)
(* abstracted to freshness: poolSynced[p] and lbSynced[l] say that the     *)
(* cache holds the current version, the field fresh of a worker that the   *)
(* copy it is processing does.  A write makes every other copy stale.      *)
(*                                                                         *)
(* A worker processes one key at a time: it reads the object from the      *)
(* cache and runs the handlers of the controller in order, the finalizer   *)
(* adapter of wrangler last.  Each read of a cache, each use of the shared *)
(* allocator map and each Update is a step of its own, except that a store *)
(* operation that reads the cached pool and updates it is one step: had    *)
(* the pool changed in between, the Update would have been refused, which  *)
(* is what the step does when the cache is stale.                          *)
(***************************************************************************)
EXTENDS Ranges, FiniteSets

CONSTANTS LBs,          \* names of load balancers: the ids of allocations
          Pools,        \* names of IP pools
          IPs,          \* addresses
          AskDHCP,      \* Address4AskDHCP, 0.0.0.0: no address of a pool
          RangeChoices, \* RangeChoices[p]: the range sets pool p may be given
          LBSpecs,      \* the [pool, ipam] a load balancer may be given
          Preference,   \* Preference[l]: pools whose selector matches l, best first
          ReadyPools,   \* pools that are set up in the initial state
          UserOps,      \* what users and other controllers do in this instance
          PoolLag,      \* may the pool informer lag when it is read?
          MaxStaleLB,   \* bound: passes that start from a stale load balancer
          MaxEdits,     \* bound: operations of users and of other controllers
          MaxFaults,    \* bound: calls to the API server that fail by themselves
          MaxCrashes    \* bound: restarts of the controller

RangeSets == UNION {RangeChoices[p] : p \in Pools}

ASSUME IPAMAssumption ==
    /\ AskDHCP \notin IPs \cup {None}
    /\ None \notin LBs /\ None \notin Pools /\ None \notin IPs /\ None \notin RangeSets
    /\ IPs \subseteq Nat /\ IsFiniteSet(IPs)
    /\ RangeChoices \in [Pools -> SUBSET RangeSets]
    /\ LBSpecs \subseteq [pool : Pools \cup {None}, ipam : {"pool", "", "dhcp"}]
    /\ ReadyPools \subseteq Pools
    /\ Preference \in [LBs -> Seq(Pools)]
    /\ PoolLag \in BOOLEAN
    /\ MaxStaleLB \in Nat /\ MaxEdits \in Nat /\ MaxFaults \in Nat /\ MaxCrashes \in Nat

\* The ranges are such as MakeRange makes them, of addresses.
ASSUME RangesAssumption ==
    \A rs \in RangeSets :
        IsRangeSet(rs) /\ \A i \in DOMAIN rs : rs[i].start .. rs[i].end \subseteq IPs

VARIABLES pools, poolCache, poolSynced,   \* IPPool objects
          lbs, lbCache, lbSynced,         \* LoadBalancer objects
          allocators,                     \* SafeAllocatorMap: ranges, or None
          lbQueue, poolQueue,             \* the work queues
          lbWork, poolWork,               \* per key: the pass being processed
          budget,                         \* what is left of the bounds
          raced                           \* history: raced[l], the races l was in

poolVars == <<pools, poolCache, poolSynced>>
lbVars   == <<lbs, lbCache, lbSynced>>
vars == <<pools, poolCache, poolSynced, lbs, lbCache, lbSynced, allocators,
          lbQueue, poolQueue, lbWork, poolWork, budget, raced>>

-----------------------------------------------------------------------------
(* Objects *)

Owners == LBs \cup {None}

\* IPPool: spec.ranges, the manual release annotation, and status.
Pool == [exists : BOOLEAN, deleting : BOOLEAN, finalizer : BOOLEAN,
         ranges : RangeSets \cup {None},
         release : (IPs \X LBs) \cup {None},
         ready : BOOLEAN, total : Int64s, available : Int64s,
         allocated : [IPs -> Owners], history : [IPs -> Owners],
         last : IPs \cup {None}]

NoOwners == [ip \in IPs |-> None]

NoPool == [exists |-> FALSE, deleting |-> FALSE, finalizer |-> FALSE,
           ranges |-> None, release |-> None,
           ready |-> FALSE, total |-> 0, available |-> 0,
           allocated |-> NoOwners, history |-> NoOwners, last |-> None]

\* LoadBalancer.Status.AllocatedAddress.
Address == [pool : Pools, ip : IPs] \cup [pool : {None}, ip : {None, AskDHCP}]

NoAddress   == [pool |-> None, ip |-> None]
DHCPAddress == [pool |-> None, ip |-> AskDHCP]

\* The Ready condition.  The message of a false one is left out.
Conditions == {"Unset", "True", "False"}

LB == [exists : BOOLEAN, deleting : BOOLEAN, finalizer : BOOLEAN,
       pool : Pools \cup {None}, ipam : {"pool", "", "dhcp"},
       addr : Address, cond : Conditions]

NoLB == [exists |-> FALSE, deleting |-> FALSE, finalizer |-> FALSE,
         pool |-> None, ipam |-> "pool", addr |-> NoAddress, cond |-> "Unset"]

\* Status.Allocated and Status.AllocatedHistory are maps: the keys of one.
Keys(m) == {ip \in IPs : m[ip] # None}

-----------------------------------------------------------------------------
(* The pass of a load balancer's worker.  goal says what the allocator is    *)
(* looked up for: "get" an address, release a "dup"licate one, release the   *)
(* one of a pool the spec "change"d away from, or release on "remove".       *)

LBPass == [pc : {"idle", "select", "lookup", "history", "getByID", "getIter",
                 "request", "reserve", "release", "write", "addFinalizer",
                 "removeFinalizer"},
           goal : {"get", "dup", "change", "remove"},
           obj : LB, fresh : BOOLEAN,
           pool : Pools \cup {None},
           ranges : RangeSets \cup {None},
           tries : Seq(IPs),
           addr : Address, cond : Conditions]

IdleLB == [pc |-> "idle", goal |-> "get", obj |-> NoLB, fresh |-> FALSE,
           pool |-> None, ranges |-> None, tries |-> <<>>,
           addr |-> NoAddress, cond |-> "Unset"]

PoolPass == [pc : {"idle", "register", "status", "manual", "manualRelease",
                   "manualDone", "addFinalizer", "unregister",
                   "removeFinalizer"},
             obj : Pool, fresh : BOOLEAN]

IdlePool == [pc |-> "idle", obj |-> NoPool, fresh |-> FALSE]

Budget == [edits : Nat, faults : Nat, crashes : Nat, stale : Nat]

(* What a load balancer may be overtaken by.  The code does not guard against *)
(* it, and raced remembers, so that the properties can say what still holds:  *)
(*   staleLB     a pass starts from a copy that has not got the address of    *)
(*               the status, or that is to give it up where the object is not *)
(*   editedBack  the spec is changed back to the pool of the address, which a *)
(*               pass has released or may be about to                         *)
(*   oldSearch   the allocator looks for what the id has or had in a cached   *)
(*               pool, or in ranges, that does not show it                    *)
(*   oldRelease  an address is to be released and the cached pool has not got *)
(*               it yet                                                       *)
(*   byHand      the manual release frees the address of a load balancer that *)
(*               exists, though the cache has not got it, or is at work       *)
(*   poolGone    a pool goes away with an address that was allocated after it *)
(*               was deleted                                                  *)
Races == {"staleLB", "editedBack", "oldSearch", "oldRelease", "byHand", "poolGone"}

TypeOK ==
    /\ pools \in [Pools -> Pool]
    /\ poolCache \in [Pools -> Pool]
    /\ poolSynced \in [Pools -> BOOLEAN]
    /\ lbs \in [LBs -> LB]
    /\ lbCache \in [LBs -> LB]
    /\ lbSynced \in [LBs -> BOOLEAN]
    /\ allocators \in [Pools -> RangeSets \cup {None}]
    /\ lbQueue \subseteq LBs
    /\ poolQueue \subseteq Pools
    /\ lbWork \in [LBs -> LBPass]
    /\ poolWork \in [Pools -> PoolPass]
    /\ budget \in Budget
    /\ raced \in [LBs -> SUBSET Races]

\* A pool as its controller leaves it when nothing is allocated yet.
ReadyPool(rs) ==
    [NoPool EXCEPT !.exists = TRUE, !.finalizer = TRUE, !.ranges = rs, !.ready = TRUE,
                   !.total = Total(rs), !.available = Total(rs)]

\* The pools in ReadyPools have been set up, no other object exists.
Init ==
    /\ \E rs \in [ReadyPools -> RangeSets] :
          /\ \A p \in ReadyPools : rs[p] \in RangeChoices[p]
          /\ pools = [p \in Pools |-> IF p \in ReadyPools THEN ReadyPool(rs[p]) ELSE NoPool]
          /\ allocators = [p \in Pools |-> IF p \in ReadyPools THEN rs[p] ELSE None]
    /\ poolCache = pools
    /\ poolSynced = [p \in Pools |-> TRUE]
    /\ lbs = [l \in LBs |-> NoLB]
    /\ lbCache = [l \in LBs |-> NoLB]
    /\ lbSynced = [l \in LBs |-> TRUE]
    /\ lbQueue = {} /\ poolQueue = {}
    /\ lbWork = [l \in LBs |-> IdleLB]
    /\ poolWork = [p \in Pools |-> IdlePool]
    /\ budget = [edits |-> MaxEdits, faults |-> MaxFaults, crashes |-> MaxCrashes,
                 stale |-> MaxStaleLB]
    /\ raced = [l \in LBs |-> {}]

-----------------------------------------------------------------------------
(* The API server: Update with a resourceVersion, through the webhook *)

\* A mutant: every edit of the ranges is admitted.
AdmitAll(pool) == TRUE

\* ipPoolValidator.Update: no allocated address may be left outside the ranges,
\* unless the pool is being deleted.
Admitted(pool) ==
    pool.deleting \/ \A ip \in Keys(pool.allocated) : InRangeSet(pool.ranges, ip)

\* An Update that changes nothing keeps the version; only the pool's updateStatus
\* ever sends one.
WritePool(p, new) ==
    /\ pools' = [pools EXCEPT ![p] = new]
    /\ poolSynced' = [poolSynced EXCEPT ![p] = @ /\ new = pools[p]]

WriteLB(l, new) ==
    /\ lbs' = [lbs EXCEPT ![l] = new]
    /\ lbSynced' = [lbSynced EXCEPT ![l] = FALSE]

Fault ==
    /\ budget.faults > 0
    /\ budget' = [budget EXCEPT !.faults = @ - 1]

\* Update of pool p with a copy that is current or not.  A call that fails by
\* itself may have been applied: the answer is lost.
UpdatePool(p, fresh, new, ok) ==
    LET accepted == fresh /\ Admitted(new)
    IN  \/ ok /\ accepted /\ WritePool(p, new) /\ UNCHANGED budget
        \/ ~ok /\ ~accepted /\ UNCHANGED <<pools, poolSynced, budget>>
        \/ ~ok /\ Fault /\ UNCHANGED <<pools, poolSynced>>
        \/ ~ok /\ Fault /\ accepted /\ WritePool(p, new)

UpdateLB(l, fresh, new, ok) ==
    \/ ok /\ fresh /\ WriteLB(l, new) /\ UNCHANGED budget
    \/ ~ok /\ ~fresh /\ UNCHANGED <<lbs, lbSynced, budget>>
    \/ ~ok /\ Fault /\ UNCHANGED <<lbs, lbSynced>>
    \/ ~ok /\ Fault /\ fresh /\ WriteLB(l, new)

\* A write to pool p by anyone but its worker makes the worker's copy stale.
StalePoolPass(p) ==
    poolWork' = [poolWork EXCEPT ![p].fresh = @ /\ pools'[p] = pools[p]]

\* The history variable: l has been in a race of this kind if it happened.
Raced(l, kind, happened) ==
    raced' = [raced EXCEPT ![l] = IF happened THEN @ \cup {kind} ELSE @]

-----------------------------------------------------------------------------
(* The store: what Reserve and ReleaseByID make of the cached pool *)

\* Two mutants: the history keeps a reserved address; it is not counted.
ReservedKeepsHistory(pool, ip, id) ==
    [pool EXCEPT !.allocated = [@ EXCEPT ![ip] = id], !.last = ip,
                 !.available = Int64(@ - 1)]

ReservedUncounted(pool, ip, id) ==
    [pool EXCEPT !.history = [@ EXCEPT ![ip] = None],
                 !.allocated = [@ EXCEPT ![ip] = id], !.last = ip]

Reserved(pool, ip, id) ==
    [pool EXCEPT !.history = [@ EXCEPT ![ip] = None],
                 !.allocated = [@ EXCEPT ![ip] = id],
                 !.last = ip,
                 !.available = Int64(@ - 1)]

\* Two mutants: the history remembers the address for itself; a released
\* address is not counted.
ReleasedToItself(pool, ip) ==
    [pool EXCEPT !.history = [@ EXCEPT ![ip] = ip],
                 !.allocated = [@ EXCEPT ![ip] = None],
                 !.available = Int64(@ + 1)]

ReleasedUncounted(pool, ip) ==
    [pool EXCEPT !.history = [@ EXCEPT ![ip] = pool.allocated[ip]],
                 !.allocated = [@ EXCEPT ![ip] = None]]

Released(pool, ip) ==
    [pool EXCEPT !.history = [@ EXCEPT ![ip] = pool.allocated[ip]],
                 !.allocated = [@ EXCEPT ![ip] = None],
                 !.available = Int64(@ + 1)]

\* An informer that does not lag in this instance is read only when current.
CanReadPool(p) == PoolLag \/ poolSynced[p]

\* ReleaseByID: the first address found that id holds, if any (a Go map is
\* ranged over in any order).
ReleaseByID(p, id, ok) ==
    LET cached == poolCache[p]
        held   == {ip \in IPs : cached.allocated[ip] = id}
    IN  /\ CanReadPool(p)
        /\ \/ /\ ~cached.exists \/ held = {}
              /\ ok = cached.exists
              /\ UNCHANGED <<pools, poolSynced, budget>>
           \/ /\ cached.exists
              /\ \E ip \in held : UpdatePool(p, poolSynced[p], Released(cached, ip), ok)

-----------------------------------------------------------------------------
(* The loadbalancer controller *)

LBGoes(l, pass) == lbWork' = [lbWork EXCEPT ![l] = pass]

\* The handler is done with address addr and condition cond: updateStatus, or
\* updateStatusNotReturnError, calls Update unless the status is unchanged (a
\* new error may have another message), and the finalizer adapter follows.
AfterChange(obj, fresh) ==
    IF obj.finalizer THEN IdleLB
    ELSE [IdleLB EXCEPT !.pc = "addFinalizer", !.obj = obj, !.fresh = fresh]

LBFinishes(l, pass, addr, cond) ==
    \/ /\ addr # pass.obj.addr \/ cond # pass.obj.cond \/ cond = "False"
       /\ LBGoes(l, [IdleLB EXCEPT !.pc = "write", !.obj = pass.obj, !.fresh = pass.fresh,
                                   !.addr = addr, !.cond = cond])
    \/ /\ addr = pass.obj.addr /\ cond = pass.obj.cond
       /\ LBGoes(l, AfterChange(pass.obj, pass.fresh))

\* handleError: whichever way the error is reported, by returning it or by
\* EnqueueAfter, the key is queued again.
LBFails(l) ==
    /\ LBFinishes(l, lbWork[l], lbWork[l].obj.addr, "False")
    /\ lbQueue' = lbQueue \cup {l}

LBSucceeds(l, addr) ==
    /\ LBFinishes(l, lbWork[l], addr, "True")
    /\ UNCHANGED lbQueue

\* OnRemove returns an error: the finalizer stays and the key is retried.
LBGivesUp(l) ==
    /\ LBGoes(l, IdleLB)
    /\ lbQueue' = lbQueue \cup {l}

LBContinues(l, pass) ==
    /\ LBGoes(l, pass)
    /\ UNCHANGED lbQueue

Active(obj) == obj.exists /\ ~obj.deleting

\* The pool in the spec is not the one the address is from.
PoolChanged(obj) == obj.pool # None /\ obj.addr.pool # None /\ obj.addr.pool # obj.pool

\* Is the address to be given up?
Leaving(obj) == obj.deleting \/ PoolChanged(obj)

\* The race staleLB.
Misread(l) ==
    \/ lbCache[l].addr # lbs[l].addr
    \/ Leaving(lbCache[l]) /\ ~Leaving(lbs[l])

\* Take the key off the queue and read the object from the cache.
LBTake(l) ==
    /\ lbWork[l].pc = "idle" /\ l \in lbQueue
    /\ \/ lbSynced[l] /\ UNCHANGED budget
       \/ /\ ~lbSynced[l] /\ budget.stale > 0
          /\ budget' = [budget EXCEPT !.stale = @ - 1]
    /\ lbQueue' = lbQueue \ {l}
    /\ Raced(l, "staleLB", Misread(l))
    /\ UNCHANGED <<poolVars, lbVars, allocators, poolQueue, poolWork>>

LBTaken(l) == [IdleLB EXCEPT !.obj = lbCache[l], !.fresh = lbSynced[l]]

\* Neither OnChange nor OnRemove has anything to do.
LBSkip(l) ==
    LET obj == lbCache[l]
    IN  /\ LBTake(l)
        /\ ~obj.exists \/ (obj.deleting /\ ~obj.finalizer)
        /\ LBGoes(l, IdleLB)

\* A mutant: the address is not released.
LBOnRemoveKeeps(l) ==
    LET obj == lbCache[l]
    IN  /\ LBTake(l)
        /\ obj.exists /\ obj.deleting /\ obj.finalizer
        /\ LBGoes(l, [LBTaken(l) EXCEPT !.pc = "removeFinalizer"])

\* OnRemove: release the address of an LB whose IPAM is pool.
LBOnRemove(l) ==
    LET obj == lbCache[l]
    IN  /\ LBTake(l)
        /\ obj.exists /\ obj.deleting /\ obj.finalizer
        /\ LBGoes(l, IF obj.ipam = "pool" /\ obj.addr.pool # None
                     THEN [LBTaken(l) EXCEPT !.pc = "lookup", !.goal = "remove",
                                             !.pool = obj.addr.pool]
                     ELSE [LBTaken(l) EXCEPT !.pc = "removeFinalizer"])

\* ensureAllocatedAddressDHCP.
LBOnChangeDHCP(l) ==
    /\ LBTake(l)
    /\ Active(lbCache[l]) /\ lbCache[l].ipam = "dhcp"
    /\ LBFinishes(l, LBTaken(l), DHCPAddress, "True")

\* A mutant: an address of another pool is allocated at once.
LBOnChangePoolAtOnce(l) ==
    LET obj == lbCache[l]
    IN  /\ LBTake(l)
        /\ Active(obj) /\ obj.ipam # "dhcp"
        /\ \/ /\ ~PoolChanged(obj) /\ obj.addr.pool # None
              /\ LBFinishes(l, LBTaken(l), obj.addr, "True")
           \/ /\ PoolChanged(obj) \/ obj.addr.pool = None
              /\ LBGoes(l, [LBTaken(l) EXCEPT !.pc = IF obj.pool = None THEN "select" ELSE "lookup",
                                              !.pool = obj.pool])

\* ensureAllocatedAddressPool: the pool in the spec is not the one the address
\* is from, release the address; keep an address; or allocate one.
LBOnChangePool(l) ==
    LET obj == lbCache[l]
    IN  /\ LBTake(l)
        /\ Active(obj) /\ obj.ipam # "dhcp"
        /\ \/ /\ PoolChanged(obj)
              /\ LBGoes(l, [LBTaken(l) EXCEPT !.pc = "lookup", !.goal = "change",
                                              !.pool = obj.addr.pool])
           \/ /\ ~PoolChanged(obj) /\ obj.addr.pool # None
              /\ LBFinishes(l, LBTaken(l), obj.addr, "True")
           \/ /\ obj.addr.pool = None
              /\ LBGoes(l, [LBTaken(l) EXCEPT !.pc = IF obj.pool = None THEN "select" ELSE "lookup",
                                              !.pool = obj.pool])

\* selectIPPool: the best cached pool whose selector matches.
LBSelect(l) ==
    LET w      == lbWork[l]
        prefer == Preference[l]
        found  == {i \in DOMAIN prefer : poolCache[prefer[i]].exists}
    IN  /\ w.pc = "select"
        /\ \A p \in Pools : CanReadPool(p)
        /\ \/ /\ found = {}
              /\ LBFails(l)
           \/ \E i \in found :
                 /\ \A j \in found : i <= j
                 /\ LBContinues(l, [w EXCEPT !.pc = "lookup", !.pool = prefer[i]])
        /\ UNCHANGED <<poolVars, lbVars, allocators, poolQueue, poolWork, budget, raced>>

\* allocatorMap.Get in requestIP, releaseIP and tryReleaseDuplicatedIPToPool:
\* without an allocator the pool is not ready, fail and wait.
LBLookup(l) ==
    LET w == lbWork[l]
        a == allocators[w.pool]
    IN  /\ w.pc = "lookup"
        /\ \/ /\ a # None /\ w.goal = "get"
              /\ LBContinues(l, [w EXCEPT !.pc = "history", !.ranges = a])
           \/ /\ a # None /\ w.goal # "get"
              /\ LBContinues(l, [w EXCEPT !.pc = "release"])
           \/ a = None /\ w.goal # "remove" /\ LBFails(l)
           \/ a = None /\ w.goal = "remove" /\ LBGivesUp(l)
        /\ UNCHANGED <<poolVars, lbVars, allocators, poolQueue, poolWork, budget, raced>>

\* Allocator.Get: an address this id had before is requested by itself, and
\* host-local refuses it outside its ranges or when it is a gateway.
LBHistory(l) ==
    LET w      == lbWork[l]
        cached == poolCache[w.pool]
        before == {ip \in IPs : cached.history[ip] = l}
    IN  /\ w.pc = "history"
        /\ CanReadPool(w.pool)
        /\ \/ ~cached.exists /\ LBFails(l)
           \/ /\ cached.exists /\ before = {}
              /\ LBContinues(l, [w EXCEPT !.pc = "getByID"])
           \/ /\ cached.exists
              /\ \E ip \in before :
                    IF InRangeSet(w.ranges, ip) /\ ip # RangeFor(w.ranges, ip).gw
                    THEN LBContinues(l, [w EXCEPT !.pc = "request", !.tries = <<ip>>,
                                                  !.ranges = None])
                    ELSE LBFails(l)
        /\ Raced(l, "oldSearch",
                 cached.exists /\ before # {ip \in IPs : pools[w.pool].history[ip] = l})
        /\ UNCHANGED <<poolVars, lbVars, allocators, poolQueue, poolWork, budget>>

\* The addresses that GetByID sees id hold, and those it should.
Shown(pool, rs, id) == {ip \in IPs : pool.allocated[ip] = id /\ InRangeSet(rs, ip)}

Holds(pool, id) == {ip \in IPs : pool.allocated[ip] = id}

\* A mutant: an address that the id already holds goes unnoticed.
LBGetByIDBlind(l) ==
    /\ lbWork[l].pc = "getByID"
    /\ CanReadPool(lbWork[l].pool)
    /\ LBGoes(l, [lbWork[l] EXCEPT !.pc = "getIter"])
    /\ Raced(l, "oldSearch", ~(Holds(pools[lbWork[l].pool], l) \subseteq
                     Shown(poolCache[lbWork[l].pool], lbWork[l].ranges, l)))
    /\ UNCHANGED <<poolVars, lbVars, allocators, lbQueue, poolQueue, poolWork, budget>>

\* GetByID: an id that holds an address of these ranges gets an error, and
\* ensureAllocatedAddressPool then tries to release that address.
LBGetByID(l) ==
    LET w      == lbWork[l]
        cached == poolCache[w.pool]
        dup    == Shown(cached, w.ranges, l)
    IN  /\ w.pc = "getByID"
        /\ CanReadPool(w.pool)
        /\ \/ /\ dup = {}
              /\ LBGoes(l, [w EXCEPT !.pc = "getIter"])
           \/ /\ dup # {}
              /\ LBGoes(l, [w EXCEPT !.pc = IF w.obj.pool = None THEN "select" ELSE "lookup",
                                     !.goal = "dup", !.pool = w.obj.pool, !.ranges = None])
        /\ Raced(l, "oldSearch", ~(Holds(pools[w.pool], l) \subseteq dup))
        /\ UNCHANGED <<poolVars, lbVars, allocators, lbQueue, poolQueue, poolWork, budget>>

\* GetIter: round-robin from the last reserved address of the cached pool.
LBGetIter(l) ==
    LET w     == lbWork[l]
        tries == Candidates(w.ranges, poolCache[w.pool].last)
    IN  /\ w.pc = "getIter"
        /\ CanReadPool(w.pool)
        /\ IF tries = <<>>
           THEN LBFails(l)
           ELSE LBContinues(l, [w EXCEPT !.pc = "reserve", !.tries = tries, !.ranges = None])
        /\ UNCHANGED <<poolVars, lbVars, allocators, poolQueue, poolWork, budget, raced>>

\* Two mutants: an address is taken whoever holds it; a refused Update is taken
\* for a success.
LBReserveAny(l) ==
    LET w  == lbWork[l]
        ip == Head(w.tries)
    IN  /\ w.pc \in {"request", "reserve"}
        /\ CanReadPool(w.pool) /\ poolCache[w.pool].exists
        /\ \E ok \in BOOLEAN :
              /\ UpdatePool(w.pool, poolSynced[w.pool], Reserved(poolCache[w.pool], ip, l), ok)
              /\ IF ok THEN LBSucceeds(l, [pool |-> w.pool, ip |-> ip]) ELSE LBFails(l)
        /\ StalePoolPass(w.pool)
        /\ UNCHANGED <<poolCache, lbVars, allocators, poolQueue, raced>>

LBReserveUnchecked(l) ==
    LET w  == lbWork[l]
        ip == Head(w.tries)
    IN  /\ w.pc \in {"request", "reserve"}
        /\ CanReadPool(w.pool) /\ poolCache[w.pool].exists
        /\ IF poolCache[w.pool].allocated[ip] \in {None, l}
           THEN /\ \E ok \in BOOLEAN :
                      UpdatePool(w.pool, poolSynced[w.pool], Reserved(poolCache[w.pool], ip, l), ok)
                /\ LBSucceeds(l, [pool |-> w.pool, ip |-> ip])
           ELSE LBFails(l) /\ UNCHANGED <<pools, poolSynced, budget>>
        /\ StalePoolPass(w.pool)
        /\ UNCHANGED <<poolCache, lbVars, allocators, poolQueue, raced>>

\* store.Reserve of one address, for a request or from the iterator.
LBReserve(l) ==
    LET w      == lbWork[l]
        p      == w.pool
        cached == poolCache[p]
        ip     == Head(w.tries)
        got    == [pool |-> p, ip |-> ip]
    IN  /\ w.pc \in {"request", "reserve"}
        /\ CanReadPool(p)
        /\ \/ /\ ~cached.exists
              /\ LBFails(l)
              /\ UNCHANGED <<pools, poolSynced, poolWork, budget>>
           \/ /\ cached.exists /\ cached.allocated[ip] \notin {None, l}
              /\ IF w.pc = "request" \/ Tail(w.tries) = <<>>
                 THEN LBFails(l)
                 ELSE LBContinues(l, [w EXCEPT !.tries = Tail(@)])
              /\ UNCHANGED <<pools, poolSynced, poolWork, budget>>
           \/ /\ cached.exists /\ cached.allocated[ip] = l
              /\ LBSucceeds(l, got)
              /\ UNCHANGED <<pools, poolSynced, poolWork, budget>>
           \/ /\ cached.exists /\ cached.allocated[ip] = None
              /\ \E ok \in BOOLEAN :
                    /\ UpdatePool(p, poolSynced[p], Reserved(cached, ip, l), ok)
                    /\ IF ok THEN LBSucceeds(l, got) ELSE LBFails(l)
              /\ StalePoolPass(p)
        /\ UNCHANGED <<poolCache, lbVars, allocators, poolQueue, raced>>

\* IPAllocator.Release, and what each caller does with the outcome.
LBRelease(l) ==
    LET w == lbWork[l]
    IN  /\ w.pc = "release"
        /\ \E ok \in BOOLEAN :
              /\ ReleaseByID(w.pool, l, ok)
              /\ \/ w.goal = "dup" /\ LBFails(l)
                 \/ w.goal = "change" /\ ok /\ LBSucceeds(l, NoAddress)
                 \/ w.goal = "change" /\ ~ok /\ LBFails(l)
                 \/ /\ w.goal = "remove" /\ ok
                    /\ LBContinues(l, [IdleLB EXCEPT !.pc = "removeFinalizer",
                                                     !.obj = w.obj, !.fresh = w.fresh])
                 \/ w.goal = "remove" /\ ~ok /\ LBGivesUp(l)
        /\ StalePoolPass(w.pool)
        /\ Raced(l, "oldRelease",
                 /\ poolCache[w.pool].exists /\ Holds(poolCache[w.pool], l) = {}
                 /\ Holds(pools[w.pool], l) # {})
        /\ UNCHANGED <<poolCache, lbVars, allocators, poolQueue>>

\* A mutant: a failed write of the status is not retried.
LBWriteOnce(l) ==
    LET w   == lbWork[l]
        new == [w.obj EXCEPT !.addr = w.addr, !.cond = w.cond]
    IN  /\ w.pc = "write"
        /\ \E ok \in BOOLEAN : UpdateLB(l, w.fresh, new, ok)
        /\ LBGoes(l, AfterChange(w.obj, FALSE))
        /\ UNCHANGED <<poolVars, lbCache, allocators, lbQueue, poolQueue, poolWork, raced>>

\* The Update of updateStatus and updateStatusNotReturnError.
LBWrite(l) ==
    LET w   == lbWork[l]
        new == [w.obj EXCEPT !.addr = w.addr, !.cond = w.cond]
    IN  /\ w.pc = "write"
        /\ \E ok \in BOOLEAN :
              /\ UpdateLB(l, w.fresh, new, ok)
              /\ LBGoes(l, IF ok THEN AfterChange(new, TRUE)
                           ELSE AfterChange(w.obj, w.fresh /\ lbSynced' = lbSynced))
              /\ lbQueue' = IF ok THEN lbQueue ELSE lbQueue \cup {l}
        /\ UNCHANGED <<poolVars, lbCache, allocators, poolQueue, poolWork, raced>>

\* The finalizer adapter of OnRemove, on an object that is not being deleted.
LBAddFinalizer(l) ==
    LET w == lbWork[l]
    IN  /\ w.pc = "addFinalizer"
        /\ \E ok \in BOOLEAN :
              /\ UpdateLB(l, w.fresh, [w.obj EXCEPT !.finalizer = TRUE], ok)
              /\ lbQueue' = IF ok THEN lbQueue ELSE lbQueue \cup {l}
        /\ LBGoes(l, IdleLB)
        /\ UNCHANGED <<poolVars, lbCache, allocators, poolQueue, poolWork, raced>>

\* A mutant: a failed removal is not retried.
LBRemoveFinalizerOnce(l) ==
    LET w == lbWork[l]
    IN  /\ w.pc = "removeFinalizer"
        /\ \E ok \in BOOLEAN : UpdateLB(l, w.fresh, NoLB, ok)
        /\ LBGoes(l, IdleLB)
        /\ UNCHANGED <<poolVars, lbCache, allocators, lbQueue, poolQueue, poolWork, raced>>

\* After OnRemove the last finalizer goes, and with it the object.
LBRemoveFinalizer(l) ==
    LET w == lbWork[l]
    IN  /\ w.pc = "removeFinalizer"
        /\ \E ok \in BOOLEAN :
              /\ UpdateLB(l, w.fresh, NoLB, ok)
              /\ lbQueue' = IF ok THEN lbQueue ELSE lbQueue \cup {l}
        /\ LBGoes(l, IdleLB)
        /\ UNCHANGED <<poolVars, lbCache, allocators, poolQueue, poolWork, raced>>

-----------------------------------------------------------------------------
(* The ippool controller *)

PoolGoes(p, pass) == poolWork' = [poolWork EXCEPT ![p] = pass]

\* updateStatus of the pool: counts, and the history that is still in range.
UpdatedStatus(pool, rs) ==
    [pool EXCEPT !.ready = TRUE,
                 !.total = Total(rs),
                 !.available = Int64(Total(rs) - Cardinality(Keys(pool.allocated))),
                 !.history = [ip \in IPs |-> IF InRangeSet(pool.ranges, ip)
                                             THEN pool.history[ip] ELSE None]]

\* Where a pass over pool object obj goes on, handler by handler: OnChange if
\* the allocator is missing or has other ranges (only this worker changes it),
\* OnChangeToReleaseAnIP if there is a request, and the finalizer adapter.
AfterManual(w) == IF w.obj.finalizer THEN IdlePool ELSE [w EXCEPT !.pc = "addFinalizer"]

AfterStatus(w) == IF w.obj.release # None THEN [w EXCEPT !.pc = "manual"] ELSE AfterManual(w)

PoolStart(p) ==
    LET obj == poolCache[p]
        w   == [pc |-> "register", obj |-> obj, fresh |-> poolSynced[p]]
    IN  /\ poolWork[p].pc = "idle" /\ p \in poolQueue
        /\ CanReadPool(p)
        /\ poolQueue' = poolQueue \ {p}
        /\ \/ Active(obj) /\ allocators[p] # obj.ranges /\ PoolGoes(p, w)
           \/ Active(obj) /\ allocators[p] = obj.ranges /\ PoolGoes(p, AfterStatus(w))
           \/ /\ obj.exists /\ obj.deleting /\ obj.finalizer
              /\ PoolGoes(p, [w EXCEPT !.pc = "unregister"])
           \/ /\ ~obj.exists \/ (obj.deleting /\ ~obj.finalizer)
              /\ PoolGoes(p, IdlePool)
        /\ UNCHANGED <<poolVars, lbVars, allocators, lbQueue, lbWork, budget, raced>>

\* OnChange: a new allocator if the pool is new or its ranges are changed.
PoolRegister(p) ==
    LET w == poolWork[p]
    IN  /\ w.pc = "register"
        /\ allocators' = [allocators EXCEPT ![p] = w.obj.ranges]
        /\ PoolGoes(p, [w EXCEPT !.pc = "status"])
        /\ UNCHANGED <<poolVars, lbVars, lbQueue, poolQueue, lbWork, budget, raced>>

\* updateStatus, after the allocator was registered.  The corrected history is
\* never nil, so an empty one always differs from the decoded object.  OnChange
\* returns the object it was given, not the updated one.
PoolStatus(p) ==
    LET w    == poolWork[p]
        new  == UpdatedStatus(w.obj, w.obj.ranges)
        same == new = w.obj /\ Keys(w.obj.history) # {}
    IN  /\ w.pc = "status"
        /\ \/ /\ same
              /\ PoolGoes(p, AfterStatus(w))
              /\ UNCHANGED <<pools, poolSynced, poolQueue, budget>>
           \/ /\ ~same
              /\ \E ok \in BOOLEAN :
                    /\ UpdatePool(p, w.fresh, new, ok)
                    /\ PoolGoes(p, AfterStatus([w EXCEPT !.fresh = @ /\ pools'[p] = pools[p]]))
                    /\ poolQueue' = IF ok THEN poolQueue ELSE poolQueue \cup {p}
        /\ UNCHANGED <<poolCache, lbVars, allocators, lbQueue, lbWork, raced>>

\* OnChangeToReleaseAnIP: is the request a real allocation record, and is the
\* load balancer gone from the cache?
PoolManual(p) ==
    LET w   == poolWork[p]
        ip  == w.obj.release[1]
        id  == w.obj.release[2]
    IN  /\ w.pc = "manual"
        /\ \/ /\ w.obj.allocated[ip] # id \/ lbCache[id].exists
              /\ PoolGoes(p, [w EXCEPT !.pc = "manualDone"])
           \/ /\ w.obj.allocated[ip] = id /\ ~lbCache[id].exists
              /\ PoolGoes(p, [w EXCEPT !.pc = "manualRelease"])
        /\ UNCHANGED <<poolVars, lbVars, allocators, lbQueue, poolQueue, lbWork, budget, raced>>

\* The allocator exists: this worker registered it and only it removes it.
PoolManualRelease(p) ==
    LET w == poolWork[p]
    IN  /\ w.pc = "manualRelease"
        /\ \E ok \in BOOLEAN :
              /\ ReleaseByID(p, w.obj.release[2], ok)
              /\ LET seen == [w EXCEPT !.fresh = @ /\ pools'[p] = pools[p]]
                 IN  PoolGoes(p, IF ok THEN [seen EXCEPT !.pc = "manualDone"]
                                 ELSE AfterManual(seen))
              /\ poolQueue' = IF ok THEN poolQueue ELSE poolQueue \cup {p}
        /\ LET id == w.obj.release[2]
           IN  Raced(id, "byHand", /\ pools'[p] # pools[p]
                                   /\ lbs[id].exists \/ lbWork[id].pc # "idle")
        /\ UNCHANGED <<poolCache, lbVars, allocators, lbQueue, lbWork>>

\* removeAnnotationKeyManuallyReleaseIP; after a release the copy is stale and
\* the first attempt is refused.
PoolManualDone(p) ==
    LET w   == poolWork[p]
        new == [w.obj EXCEPT !.release = None]
    IN  /\ w.pc = "manualDone"
        /\ \E ok \in BOOLEAN :
              /\ UpdatePool(p, w.fresh, new, ok)
              /\ PoolGoes(p, AfterManual(IF ok THEN [w EXCEPT !.obj = new]
                                         ELSE [w EXCEPT !.fresh = @ /\ pools'[p] = pools[p]]))
              /\ poolQueue' = IF ok THEN poolQueue ELSE poolQueue \cup {p}
        /\ UNCHANGED <<poolCache, lbVars, allocators, lbQueue, lbWork, raced>>

PoolAddFinalizer(p) ==
    LET w == poolWork[p]
    IN  /\ w.pc = "addFinalizer"
        /\ \E ok \in BOOLEAN :
              /\ UpdatePool(p, w.fresh, [w.obj EXCEPT !.finalizer = TRUE], ok)
              /\ poolQueue' = IF ok THEN poolQueue ELSE poolQueue \cup {p}
        /\ PoolGoes(p, IdlePool)
        /\ UNCHANGED <<poolCache, lbVars, allocators, lbQueue, lbWork, raced>>

\* OnRemove: the allocator goes, then the finalizer and the pool with it.
PoolUnregister(p) ==
    /\ poolWork[p].pc = "unregister"
    /\ allocators' = [allocators EXCEPT ![p] = None]
    /\ PoolGoes(p, [poolWork[p] EXCEPT !.pc = "removeFinalizer"])
    /\ UNCHANGED <<poolVars, lbVars, lbQueue, poolQueue, lbWork, budget, raced>>

PoolRemoveFinalizer(p) ==
    /\ poolWork[p].pc = "removeFinalizer"
    /\ \E ok \in BOOLEAN :
          /\ UpdatePool(p, poolWork[p].fresh, NoPool, ok)
          /\ poolQueue' = IF ok THEN poolQueue ELSE poolQueue \cup {p}
    /\ PoolGoes(p, IdlePool)
    /\ raced' = [l \in LBs |-> IF pools'[p] # pools[p] /\ Holds(pools[p], l) # {}
                               THEN raced[l] \cup {"poolGone"} ELSE raced[l]]
    /\ UNCHANGED <<poolCache, lbVars, allocators, lbQueue, lbWork>>

-----------------------------------------------------------------------------
(* Informers, restarts, and what comes from outside: users of the API, and  *)
(* other controllers that enqueue a key                                     *)

SyncPool(p) ==
    /\ ~poolSynced[p]
    /\ poolCache' = [poolCache EXCEPT ![p] = pools[p]]
    /\ poolSynced' = [poolSynced EXCEPT ![p] = TRUE]
    /\ poolQueue' = poolQueue \cup {p}
    /\ UNCHANGED <<pools, lbVars, allocators, lbQueue, lbWork, poolWork, budget, raced>>

SyncLB(l) ==
    /\ ~lbSynced[l]
    /\ lbCache' = [lbCache EXCEPT ![l] = lbs[l]]
    /\ lbSynced' = [lbSynced EXCEPT ![l] = TRUE]
    /\ lbQueue' = lbQueue \cup {l}
    /\ UNCHANGED <<poolVars, lbs, allocators, poolQueue, lbWork, poolWork, budget, raced>>

\* The controller dies and starts again: passes, queues and allocators are in
\* memory only; the informers list everything and queue every object.
Restart ==
    /\ budget.crashes > 0
    /\ budget' = [budget EXCEPT !.crashes = @ - 1]
    /\ poolCache' = pools /\ poolSynced' = [p \in Pools |-> TRUE]
    /\ lbCache' = lbs /\ lbSynced' = [l \in LBs |-> TRUE]
    /\ allocators' = [p \in Pools |-> None]
    /\ poolQueue' = {p \in Pools : pools[p].exists}
    /\ lbQueue' = {l \in LBs : lbs[l].exists}
    /\ lbWork' = [l \in LBs |-> IdleLB]
    /\ poolWork' = [p \in Pools |-> IdlePool]
    /\ UNCHANGED <<pools, lbs, raced>>

\* A user's write; it makes the copies of the cache and of the worker stale.
UserWritesLB(op, l, new) ==
    /\ op \in UserOps
    /\ budget.edits > 0
    /\ budget' = [budget EXCEPT !.edits = @ - 1]
    /\ lbs' = [lbs EXCEPT ![l] = new]
    /\ lbSynced' = [lbSynced EXCEPT ![l] = FALSE]
    /\ lbWork' = [lbWork EXCEPT ![l].fresh = FALSE]
    /\ UNCHANGED <<poolVars, lbCache, allocators, lbQueue, poolQueue, poolWork>>

UserWritesPool(op, p, new) ==
    /\ op \in UserOps
    /\ budget.edits > 0
    /\ budget' = [budget EXCEPT !.edits = @ - 1]
    /\ pools' = [pools EXCEPT ![p] = new]
    /\ poolSynced' = [poolSynced EXCEPT ![p] = FALSE]
    /\ poolWork' = [poolWork EXCEPT ![p].fresh = FALSE]
    /\ UNCHANGED <<poolCache, lbVars, allocators, lbQueue, poolQueue, lbWork, raced>>

\* HealthCheckNotify and the vmi controller enqueue a load balancer at any time.
LBEnqueue(l) ==
    /\ "enqueue" \in UserOps
    /\ budget.edits > 0
    /\ budget' = [budget EXCEPT !.edits = @ - 1]
    /\ lbCache[l].exists /\ l \notin lbQueue
    /\ lbQueue' = lbQueue \cup {l}
    /\ UNCHANGED <<poolVars, lbVars, allocators, poolQueue, lbWork, poolWork, raced>>

\* Has the status an address of a pool, and has the pool allocated it?
Booked(l)   == lbs[l].addr.pool # None
IsBooked(l) == pools[lbs[l].addr.pool].allocated[lbs[l].addr.ip] = l

CreateLB(l) ==
    /\ ~lbs[l].exists
    /\ \E spec \in LBSpecs :
          UserWritesLB("createLB", l,
             [NoLB EXCEPT !.exists = TRUE, !.pool = spec.pool, !.ipam = spec.ipam])
    /\ UNCHANGED raced

\* checkIPAM: the IPAM may not change to or from DHCP.
EditLB(l) ==
    /\ Active(lbs[l])
    /\ \E spec \in LBSpecs :
          /\ spec # [pool |-> lbs[l].pool, ipam |-> lbs[l].ipam]
          /\ (spec.ipam = "dhcp") <=> (lbs[l].ipam = "dhcp")
          /\ LET new == [lbs[l] EXCEPT !.pool = spec.pool, !.ipam = spec.ipam]
             IN  /\ UserWritesLB("editLB", l, new)
                 /\ Raced(l, "editedBack", /\ PoolChanged(lbs[l]) /\ ~PoolChanged(new)
                                           /\ lbWork[l].pc # "idle" \/ ~IsBooked(l))

DeleteLB(l) ==
    /\ Active(lbs[l])
    /\ UserWritesLB("deleteLB", l,
          IF lbs[l].finalizer THEN [lbs[l] EXCEPT !.deleting = TRUE] ELSE NoLB)
    /\ UNCHANGED raced

CreatePool(p) ==
    /\ ~pools[p].exists
    /\ \E rs \in RangeChoices[p] :
          UserWritesPool("createPool", p, [NoPool EXCEPT !.exists = TRUE, !.ranges = rs])

\* ipPoolValidator.Update.
EditPool(p) ==
    /\ Active(pools[p])
    /\ \E rs \in RangeChoices[p] \ {pools[p].ranges} :
          LET new == [pools[p] EXCEPT !.ranges = rs]
          IN  Admitted(new) /\ UserWritesPool("editPool", p, new)

\* The manual release annotation.
AnnotatePool(p) ==
    /\ Active(pools[p])
    /\ \E ip \in IPs, id \in LBs :
          /\ pools[p].release # <<ip, id>>
          /\ UserWritesPool("annotatePool", p, [pools[p] EXCEPT !.release = <<ip, id>>])

\* ipPoolValidator.Delete refuses while an address is allocated.
DeletePool(p) ==
    /\ Active(pools[p])
    /\ Keys(pools[p].allocated) = {}
    /\ UserWritesPool("deletePool", p,
          IF pools[p].finalizer THEN [pools[p] EXCEPT !.deleting = TRUE] ELSE NoPool)

-----------------------------------------------------------------------------

LBWorker(l) ==
    \/ LBSkip(l) \/ LBOnRemove(l) \/ LBOnChangeDHCP(l) \/ LBOnChangePool(l)
    \/ LBSelect(l) \/ LBLookup(l) \/ LBHistory(l) \/ LBGetByID(l) \/ LBGetIter(l)
    \/ LBReserve(l) \/ LBRelease(l) \/ LBWrite(l)
    \/ LBAddFinalizer(l) \/ LBRemoveFinalizer(l)

PoolWorker(p) ==
    \/ PoolStart(p) \/ PoolRegister(p) \/ PoolStatus(p)
    \/ PoolManual(p) \/ PoolManualRelease(p) \/ PoolManualDone(p)
    \/ PoolAddFinalizer(p) \/ PoolUnregister(p) \/ PoolRemoveFinalizer(p)

Outside ==
    \/ \E l \in LBs : CreateLB(l) \/ EditLB(l) \/ DeleteLB(l) \/ LBEnqueue(l)
    \/ \E p \in Pools : CreatePool(p) \/ EditPool(p) \/ AnnotatePool(p) \/ DeletePool(p)

Next ==
    \/ \E l \in LBs : LBWorker(l) \/ SyncLB(l)
    \/ \E p \in Pools : PoolWorker(p) \/ SyncPool(p)
    \/ Outside
    \/ Restart

\* A queued key is processed and a watch event delivered eventually; users,
\* faults, restarts and foreign enqueues owe nothing.
Fairness ==
    /\ \A l \in LBs : WF_vars(LBWorker(l)) /\ WF_vars(SyncLB(l))
    /\ \A p \in Pools : WF_vars(PoolWorker(p)) /\ WF_vars(SyncPool(p))

Spec == Init /\ [][Next]_vars

FairSpec == Spec /\ Fairness

-----------------------------------------------------------------------------
(* Properties that hold whatever is stale, fails or restarts *)

\* status.available and status.allocated of a pool always add up (as int64) to
\* status.total, although four writers (Reserve, ReleaseByID, updateStatus and
\* the manual release) each recompute them from a cached copy.
Accounting ==
    \A p \in Pools :
        Int64(pools[p].available + Cardinality(Keys(pools[p].allocated))) = pools[p].total

\* No address stays allocated outside the ranges of a live pool: an allocator
\* that still has the old ranges after they were edited cannot add one, and an
\* edit cannot exclude one.
AllocatedInRange ==
    \A p \in Pools : Active(pools[p]) =>
        \A ip \in Keys(pools[p].allocated) : InRangeSet(pools[p].ranges, ip)

\* An address is never both allocated and remembered as free for a former
\* owner, which would make Allocator.Get request an address it cannot have.
HistoryIsFree ==
    \A p \in Pools : Keys(pools[p].allocated) \cap Keys(pools[p].history) = {}

\* An allocated address is never passed on without being released in between:
\* two searches that both saw it free cannot both get it.
NoStealing ==
    [][\A p \in Pools, ip \in IPs :
          pools[p].allocated[ip] # None =>
              pools'[p].allocated[ip] \in {None, pools[p].allocated[ip]}]_vars

\* The address of a load balancer never changes to another one in one step: it
\* is given up first, so that clients of the status see it go.
AddressGivenUpFirst ==
    [][\A l \in LBs :
          lbs[l].addr.pool # None =>
              \/ lbs'[l].addr = lbs[l].addr
              \/ lbs'[l].addr = NoAddress]_vars

\* The pools implement leases: every write to a pool object, by whichever
\* worker and from whatever copy, grants one address, ends one lease, resizes
\* the pool or drops it, and keeps the reported room in step.
Lease == INSTANCE Leases WITH
            Addresses <- IPs, Clients <- LBs, Nobody <- None,
            Sizes <- {Total(rs) : rs \in RangeSets} \cup {0},
            lease <- [p \in Pools |-> pools[p].allocated],
            size  <- [p \in Pools |-> pools[p].total],
            room  <- [p \in Pools |-> pools[p].available]

ImplementsLeases == Lease!Spec

-----------------------------------------------------------------------------
(* An address is kept in two objects, a load balancer and a pool.  That they  *)
(* agree is not guaranteed (runs MCStaleLB and MCDefaultIPAM); what is, with  *)
(* informers that lag, failing calls and restarts, is said of every load      *)
(* balancer that was in none of the races that would break it                 *)

Spared(l, races) == raced[l] \cap races = {}

\* "The ip is booked on pool when successfully Get()": the address in the
\* status of a load balancer that is not giving it up is allocated to it in
\* the pool, and therefore to no other one.
BookedIsAllocated ==
    \A l \in LBs :
        (Active(lbs[l]) /\ Booked(l) /\ ~PoolChanged(lbs[l])) => IsBooked(l)

\* An address leaves the books of its pool behind the back of a load balancer
\* that has it in the status in four ways only: a pass from an old copy, an edit
\* that is taken back, a manual release and the end of the pool.  Lagging pool
\* caches, lost answers, edits of ranges and restarts do not do it.
BookedUnlessRaced ==
    \A l \in LBs :
        (/\ Spared(l, {"staleLB", "editedBack", "byHand", "poolGone"})
         /\ Active(lbs[l]) /\ Booked(l) /\ ~PoolChanged(lbs[l])) => IsBooked(l)

\* "Each ID can only have max 1 IP" in a pool, unless the allocator once missed
\* what the id had in it: no lost answer of Reserve, stale load balancer,
\* re-creation or restart leads to a second one.
OneAddressUnlessRaced ==
    \A p \in Pools, l \in LBs :
        Spared(l, {"oldSearch", "byHand"}) => Cardinality(Holds(pools[p], l)) <= 1

\* OnRemove releases the address of a load balancer before the object goes,
\* whichever calls failed on the way, unless ReleaseByID found another address
\* or none (an unset IPAM is that of MCDefaultIPAM).
ReleasedUnlessRaced ==
    [][\A l \in LBs, p \in Pools, ip \in IPs :
          (/\ Spared(l, {"oldSearch", "oldRelease", "byHand"})
           /\ lbs[l].deleting /\ ~lbs'[l].exists /\ lbs[l].ipam # ""
           /\ lbs[l].addr = [pool |-> p, ip |-> ip]) => pools'[p].allocated[ip] # l]_vars

\* OnRemove releases the address of a load balancer before the object goes.
RemovalReleases ==
    [][\A l \in LBs :
          (lbs[l].deleting /\ ~lbs'[l].exists)
              => \A p \in Pools, ip \in IPs :
                    lbs[l].addr = [pool |-> p, ip |-> ip] => pools'[p].allocated[ip] # l]_vars

\* When the ranges of a pool are changed its status follows.
StatusFollowsRanges ==
    \A p \in Pools :
        (Active(pools[p]) /\ pools[p].total # Total(pools[p].ranges))
            ~> ~(Active(pools[p]) /\ pools[p].total # Total(pools[p].ranges))

\* A load balancer gets an address although calls fail and keys are retried,
\* unless it is deleted first.
EventuallyServed ==
    \A l \in LBs :
        Active(lbs[l]) ~> (~Active(lbs[l]) \/ (Booked(l) /\ lbs[l].cond = "True"))

\* A load balancer that is being deleted goes away, and its address is freed.
RemovalCompletes ==
    \A l \in LBs : lbs[l].deleting ~> ~lbs[l].deleting
=============================================================================
