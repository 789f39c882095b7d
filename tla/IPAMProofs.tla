----------------------------- MODULE IPAMProofs -----------------------------
(***************************************************************************)
(* What holds of IPAM for any number of load balancers, pools, addresses,  *)
(* edits, faults and restarts.                                             *)
(*                                                                         *)
(* The first part is type correctness, one lemma per operation.  The types *)
(* alone are not inductive: that a reservation is of an address needs that *)
(* the pass still has one to try.  Shape says so.                          *)
(*                                                                         *)
(* The inductive invariant of the second part is IndInv: types, Shape, and *)
(* CurrentCopies, that a copy which counts as fresh equals the object.     *)
(* From it, every step changes a pool object in one of the few ways        *)
(* PoolChange lists (PoolStep), and the theorems about pools follow from   *)
(* PoolChange alone.                                                       *)
(***************************************************************************)
EXTENDS IPAM, RangesProofs, FiniteSetTheorems, TLAPS

-----------------------------------------------------------------------------
(* Ranges *)

\* An int64 is an integer, and counts of ranges are int64.
LEMMA Int64IsInt == Int64s \subseteq Int
  BY Int64Assumption DEF Int64s

LEMMA TotalType ==
    ASSUME NEW rs \in RangeSets
    PROVE  Total(rs) \in Int64s /\ Total(rs) \in Int
<1>1. Total(rs) \in Int64s BY RangesAssumption, TotalIsUsed
<1> QED BY <1>1, Int64IsInt

\* What the iterator offers are addresses, and within the ranges.
LEMMA CandidatesType ==
    ASSUME NEW rs \in RangeSets, NEW last
    PROVE  /\ Candidates(rs, last) \in Seq(IPs)
           /\ \A k \in DOMAIN Candidates(rs, last) : InRangeSet(rs, Candidates(rs, last)[k])
<1> DEFINE c == Candidates(rs, last)
<1>1. /\ IsRangeSet(rs)
      /\ \A i \in DOMAIN rs : rs[i].start .. rs[i].end \subseteq IPs
  BY RangesAssumption
<1>2. /\ c \in Seq(Nat)
      /\ \A k \in DOMAIN c : \E i \in DOMAIN rs :
            /\ c[k] \in rs[i].start .. rs[i].end
            /\ RangeContains(rs[i], c[k])
  BY <1>1, CandidatesFacts
<1> HIDE DEF c
<1>3. \A k \in DOMAIN c : c[k] \in IPs BY <1>1, <1>2
<1>4. c \in Seq(IPs) BY <1>2, <1>3
<1>5. \A k \in DOMAIN c : InRangeSet(rs, c[k]) BY <1>2 DEF InRangeSet
<1> QED BY <1>4, <1>5 DEF c

-----------------------------------------------------------------------------
(* What the types of the state rest on besides themselves. *)

\* A pass that has reached a pool knows which one, one that searches it has the
\* ranges of its allocator, and one that reserves has an address left to try.
LBShape(w) ==
    /\ w.pc \in {"lookup", "history", "getByID", "getIter", "request", "reserve", "release"}
          => w.pool \in Pools
    /\ w.pc \in {"history", "getByID", "getIter"} => w.ranges \in RangeSets
    /\ w.pc \in {"request", "reserve"} => w.tries # <<>>

\* Every pool object has ranges; a pool worker only works on an object, and
\* releases by hand only on request.
HasRanges(pool) == pool.exists => pool.ranges \in RangeSets

PoolShape(w) ==
    /\ w.pc # "idle" => w.obj.exists
    /\ w.pc \in {"manual", "manualRelease"} => w.obj.release # None

Shape ==
    /\ \A l \in LBs : LBShape(lbWork[l])
    /\ \A p \in Pools : /\ HasRanges(pools[p])
                         /\ HasRanges(poolCache[p])
                         /\ HasRanges(poolWork[p].obj)
                         /\ PoolShape(poolWork[p])

\* The absent pool is a pool object.
LEMMA NoPoolType == NoPool \in Pool
<1>1. 0 \in Int64s BY Int64Assumption DEF Int64s
<1> QED BY <1>1 DEF NoPool, Pool, NoOwners, Owners

\* A pool object stays one when fields are given values of their types.
LEMMA PoolFields ==
    ASSUME NEW pool \in Pool, NEW h \in [IPs -> Owners], NEW m \in [IPs -> Owners],
           NEW i \in IPs \cup {None}, NEW n \in Int64s, NEW t \in Int64s, NEW b \in BOOLEAN,
           NEW r \in RangeSets \cup {None}, NEW q \in (IPs \X LBs) \cup {None}
    PROVE  /\ [pool EXCEPT !.history = h, !.allocated = m, !.last = i, !.available = n] \in Pool
           /\ [pool EXCEPT !.history = h, !.allocated = m, !.available = n] \in Pool
           /\ [pool EXCEPT !.ready = b, !.total = t, !.available = n, !.history = h] \in Pool
           /\ [pool EXCEPT !.ranges = r] \in Pool
           /\ [pool EXCEPT !.release = q] \in Pool
           /\ [pool EXCEPT !.finalizer = b] \in Pool
           /\ [pool EXCEPT !.deleting = b] \in Pool
           /\ [pool EXCEPT !.exists = b, !.ranges = r] \in Pool
  BY DEF Pool

\* Reserve makes a pool object of a pool object.
LEMMA ReservedType ==
    ASSUME NEW pool \in Pool, NEW ip \in IPs, NEW id \in LBs
    PROVE  Reserved(pool, ip, id) \in Pool
<1>1. [pool.history EXCEPT ![ip] = None] \in [IPs -> Owners] BY DEF Pool, Owners
<1>2. [pool.allocated EXCEPT ![ip] = id] \in [IPs -> Owners] BY DEF Pool, Owners
<1>3. Int64(pool.available - 1) \in Int64s
  <2>1. pool.available - 1 \in Int BY Int64IsInt DEF Pool
  <2> QED BY <2>1, Int64Type
<1> QED BY <1>1, <1>2, <1>3, PoolFields DEF Reserved

\* ReleaseByID makes a pool object of a pool object.
LEMMA ReleasedType ==
    ASSUME NEW pool \in Pool, NEW ip \in IPs
    PROVE  Released(pool, ip) \in Pool
<1>1. [pool.history EXCEPT ![ip] = pool.allocated[ip]] \in [IPs -> Owners] BY DEF Pool
<1>2. [pool.allocated EXCEPT ![ip] = None] \in [IPs -> Owners] BY DEF Pool, Owners
<1>3. Int64(pool.available + 1) \in Int64s
  <2>1. pool.available + 1 \in Int BY Int64IsInt DEF Pool
  <2> QED BY <2>1, Int64Type
<1> QED BY <1>1, <1>2, <1>3, PoolFields DEF Released

\* A map over the addresses has finitely many keys.
LEMMA KeysFinite ==
    ASSUME NEW m
    PROVE  IsFiniteSet(Keys(m)) /\ Cardinality(Keys(m)) \in Nat
<1>1. Keys(m) \subseteq IPs BY DEF Keys
<1>2. IsFiniteSet(Keys(m)) BY <1>1, IPAMAssumption, FS_Subset
<1> QED BY <1>2, FS_CardinalityType

\* updateStatus makes a pool object of a pool object with ranges.
LEMMA UpdatedStatusType ==
    ASSUME NEW pool \in Pool, NEW rs \in RangeSets
    PROVE  UpdatedStatus(pool, rs) \in Pool
<1> DEFINE h == [ip \in IPs |-> IF InRangeSet(pool.ranges, ip) THEN pool.history[ip] ELSE None]
<1>1. h \in [IPs -> Owners] BY DEF Pool, Owners
<1>2. Total(rs) \in Int64s /\ Total(rs) \in Int BY TotalType
<1>3. Int64(Total(rs) - Cardinality(Keys(pool.allocated))) \in Int64s
  <2>1. Total(rs) - Cardinality(Keys(pool.allocated)) \in Int BY <1>2, KeysFinite
  <2> QED BY <2>1, Int64Type
<1> HIDE DEF h
<1>4. [pool EXCEPT !.ready = TRUE, !.total = Total(rs),
                   !.available = Int64(Total(rs) - Cardinality(Keys(pool.allocated))),
                   !.history = h] \in Pool BY <1>1, <1>2, <1>3, PoolFields
<1> QED BY <1>4 DEF UpdatedStatus, h

\* A pool that is set up is a pool object.
LEMMA ReadyPoolType ==
    ASSUME NEW rs \in RangeSets
    PROVE  ReadyPool(rs) \in Pool
<1>1. Total(rs) \in Int64s BY TotalType
<1> QED BY <1>1 DEF ReadyPool, NoPool, Pool, NoOwners, Owners

\* The absent load balancer is a load balancer object without an address.
LEMMA NoLBType == NoLB \in LB
  BY DEF NoLB, LB, NoAddress, Address, Conditions

\* The idle passes are passes.
LEMMA IdleTypes == IdleLB \in LBPass /\ IdlePool \in PoolPass
  BY NoLBType, NoPoolType DEF IdleLB, IdlePool, LBPass, PoolPass, NoAddress, Address, Conditions

PCs == {"idle", "select", "lookup", "history", "getByID", "getIter",
                 "request", "reserve", "release", "write", "addFinalizer",
                 "removeFinalizer"}
\* Update of a pool, accepted, refused or failing, keeps the types.
LEMMA UpdatePoolType ==
    ASSUME TypeOK, NEW p \in Pools, NEW fresh \in BOOLEAN, NEW new \in Pool,
           NEW ok \in BOOLEAN, UpdatePool(p, fresh, new, ok)
    PROVE  /\ pools' \in [Pools -> Pool]
           /\ poolSynced' \in [Pools -> BOOLEAN]
           /\ budget' \in Budget
<1>1. pools' \in [Pools -> Pool] BY DEF UpdatePool, WritePool, TypeOK
<1>2. poolSynced' \in [Pools -> BOOLEAN] BY DEF UpdatePool, WritePool, TypeOK
<1>3. budget' \in Budget BY DEF UpdatePool, Fault, TypeOK, Budget
<1> QED BY <1>1, <1>2, <1>3

\* Update of a load balancer keeps the types.
LEMMA UpdateLBType ==
    ASSUME TypeOK, NEW l \in LBs, NEW fresh \in BOOLEAN, NEW new \in LB,
           NEW ok \in BOOLEAN, UpdateLB(l, fresh, new, ok)
    PROVE  /\ lbs' \in [LBs -> LB]
           /\ lbSynced' \in [LBs -> BOOLEAN]
           /\ budget' \in Budget
<1>1. lbs' \in [LBs -> LB] BY DEF UpdateLB, WriteLB, TypeOK
<1>2. lbSynced' \in [LBs -> BOOLEAN] BY DEF UpdateLB, WriteLB, TypeOK
<1>3. budget' \in Budget BY DEF UpdateLB, Fault, TypeOK, Budget
<1> QED BY <1>1, <1>2, <1>3

\* ReleaseByID keeps the types.
LEMMA ReleaseByIDType ==
    ASSUME TypeOK, NEW p \in Pools, NEW id, NEW ok \in BOOLEAN, ReleaseByID(p, id, ok)
    PROVE  /\ pools' \in [Pools -> Pool]
           /\ poolSynced' \in [Pools -> BOOLEAN]
           /\ budget' \in Budget
<1>1. CASE UNCHANGED <<pools, poolSynced, budget>> BY <1>1 DEF TypeOK
<1>2. CASE \E ip \in IPs : UpdatePool(p, poolSynced[p], Released(poolCache[p], ip), ok)
  <2>1. PICK ip \in IPs : UpdatePool(p, poolSynced[p], Released(poolCache[p], ip), ok) BY <1>2
  <2>2. poolSynced[p] \in BOOLEAN /\ poolCache[p] \in Pool BY DEF TypeOK
  <2>3. Released(poolCache[p], ip) \in Pool BY <2>2, ReleasedType
  <2> QED BY <2>1, <2>2, <2>3, UpdatePoolType
<1> QED BY <1>1, <1>2 DEF ReleaseByID

\* A pass over a pool whose copy becomes stale is still a pass.
LEMMA StalePoolPassType ==
    ASSUME TypeOK, NEW p \in Pools, StalePoolPass(p)
    PROVE  poolWork' \in [Pools -> PoolPass]
<1>1. poolWork[p] \in PoolPass /\ poolWork[p].fresh \in BOOLEAN BY DEF TypeOK, PoolPass
<1>2. (poolWork[p].fresh /\ pools'[p] = pools[p]) \in BOOLEAN BY <1>1
<1>3. [poolWork[p] EXCEPT !.fresh = poolWork[p].fresh /\ pools'[p] = pools[p]] \in PoolPass
  BY <1>1, <1>2 DEF PoolPass
<1> QED BY <1>3 DEF StalePoolPass, TypeOK

\* What follows the status write is a pass.
LEMMA AfterChangeType ==
    ASSUME NEW o \in LB, NEW f \in BOOLEAN
    PROVE  AfterChange(o, f) \in LBPass
<1>1. [IdleLB EXCEPT !.pc = "addFinalizer", !.obj = o, !.fresh = f] \in LBPass
  BY IdleTypes DEF LBPass
<1> QED BY <1>1, IdleTypes DEF AfterChange

\* A worker that goes on with a pass keeps the type of the workers.
LEMMA LBGoesType ==
    ASSUME TypeOK, NEW l \in LBs, NEW pass \in LBPass, LBGoes(l, pass)
    PROVE  lbWork' \in [LBs -> LBPass]
  BY DEF LBGoes, TypeOK

\* Finishing a pass, with or without a status write, keeps their type.
LEMMA LBFinishesType ==
    ASSUME TypeOK, NEW l \in LBs, NEW pass \in LBPass, NEW ad \in Address,
           NEW c \in Conditions, LBFinishes(l, pass, ad, c)
    PROVE  lbWork' \in [LBs -> LBPass]
<1>1. pass.obj \in LB /\ pass.fresh \in BOOLEAN BY DEF LBPass
<1>2. AfterChange(pass.obj, pass.fresh) \in LBPass BY <1>1, AfterChangeType
<1>3. [IdleLB EXCEPT !.pc = "write", !.obj = pass.obj, !.fresh = pass.fresh,
                     !.addr = ad, !.cond = c] \in LBPass
  BY <1>1, IdleTypes DEF LBPass
<1> QED BY <1>2, <1>3, LBGoesType DEF LBFinishes

\* handleError keeps the types.
LEMMA LBFailsType ==
    ASSUME TypeOK, NEW l \in LBs, LBFails(l)
    PROVE  lbWork' \in [LBs -> LBPass] /\ lbQueue' \subseteq LBs
<1>1. lbWork[l] \in LBPass /\ lbWork[l].obj.addr \in Address BY DEF TypeOK, LBPass, LB
<1>2. "False" \in Conditions BY DEF Conditions
<1> QED BY <1>1, <1>2, LBFinishesType DEF LBFails, TypeOK

\* The end of a successful pass keeps the types.
LEMMA LBSucceedsType ==
    ASSUME TypeOK, NEW l \in LBs, NEW ad \in Address, LBSucceeds(l, ad)
    PROVE  lbWork' \in [LBs -> LBPass] /\ lbQueue' \subseteq LBs
<1>1. lbWork[l] \in LBPass BY DEF TypeOK
<1>2. "True" \in Conditions BY DEF Conditions
<1> QED BY <1>1, <1>2, LBFinishesType DEF LBSucceeds, TypeOK

\* An error of OnRemove keeps the types.
LEMMA LBGivesUpType ==
    ASSUME TypeOK, NEW l \in LBs, LBGivesUp(l)
    PROVE  lbWork' \in [LBs -> LBPass] /\ lbQueue' \subseteq LBs
  BY IdleTypes, LBGoesType DEF LBGivesUp, TypeOK

\* A step within a pass keeps the types.
LEMMA LBContinuesType ==
    ASSUME TypeOK, NEW l \in LBs, NEW pass \in LBPass, LBContinues(l, pass)
    PROVE  lbWork' \in [LBs -> LBPass] /\ lbQueue' \subseteq LBs
  BY LBGoesType DEF LBContinues, TypeOK

\* Remembering a race keeps the type of the history variable.
LEMMA RacedType ==
    ASSUME TypeOK, NEW l, NEW kind \in Races, NEW happened, Raced(l, kind, happened)
    PROVE  raced' \in [LBs -> SUBSET Races]
  BY DEF Raced, TypeOK

\* Taking a key off the queue keeps the types.
LEMMA LBTakeType ==
    ASSUME TypeOK, NEW l \in LBs, LBTake(l), lbWork' \in [LBs -> LBPass]
    PROVE  TypeOK'
<1>1. budget' \in Budget BY DEF LBTake, TypeOK, Budget
<1>2. lbQueue' \subseteq LBs BY DEF LBTake, TypeOK
<1>3. raced' \in [LBs -> SUBSET Races]
  <2>1. Raced(l, "staleLB", Misread(l)) /\ "staleLB" \in Races BY DEF LBTake, Races
  <2> QED BY <2>1, RacedType
<1> QED BY <1>1, <1>2, <1>3 DEF LBTake, poolVars, lbVars, TypeOK

\* The pass that starts from the cached object is a pass.
LEMMA LBTakenType ==
    ASSUME TypeOK, NEW l \in LBs
    PROVE  /\ LBTaken(l) \in LBPass
           /\ LBTaken(l).obj = lbCache[l] /\ LBTaken(l).fresh = lbSynced[l]
           /\ lbCache[l] \in LB /\ lbCache[l].addr \in Address
           /\ lbCache[l].addr.pool \in Pools \cup {None}
           /\ lbCache[l].pool \in Pools \cup {None}
<1>1. lbCache[l] \in LB /\ lbSynced[l] \in BOOLEAN BY DEF TypeOK
<1>2. LBTaken(l) \in LBPass BY <1>1, IdleTypes DEF LBTaken, LBPass
<1>3. LBTaken(l).obj = lbCache[l] /\ LBTaken(l).fresh = lbSynced[l]
  BY DEF LBTaken, IdleLB
<1>4. lbCache[l].addr \in Address /\ lbCache[l].pool \in Pools \cup {None} BY <1>1 DEF LB
<1>5. lbCache[l].addr.pool \in Pools \cup {None} BY <1>4 DEF Address
<1> QED BY <1>1, <1>2, <1>3, <1>4, <1>5

\* Type correctness of a pass with nothing to do.
LEMMA LBSkipType ==
    ASSUME TypeOK, NEW l \in LBs, LBSkip(l)
    PROVE  TypeOK'
<1>1. lbWork' \in [LBs -> LBPass] BY LBGoesType, IdleTypes DEF LBSkip, TypeOK
<1> QED BY <1>1, LBTakeType DEF LBSkip

\* Type correctness of OnRemove.
LEMMA LBOnRemoveType ==
    ASSUME TypeOK, NEW l \in LBs, LBOnRemove(l)
    PROVE  TypeOK'
<1>1. LBTake(l) BY DEF LBOnRemove
<1>2. [LBTaken(l) EXCEPT !.pc = "removeFinalizer"] \in LBPass
  BY LBTakenType DEF LBPass
<1>3. [LBTaken(l) EXCEPT !.pc = "lookup", !.goal = "remove", !.pool = lbCache[l].addr.pool] \in LBPass
  BY LBTakenType DEF LBPass
<1>4. lbWork' \in [LBs -> LBPass] BY <1>2, <1>3, LBGoesType DEF LBOnRemove
<1> QED BY <1>1, <1>4, LBTakeType

\* Type correctness of ensureAllocatedAddressDHCP.
LEMMA LBOnChangeDHCPType ==
    ASSUME TypeOK, NEW l \in LBs, LBOnChangeDHCP(l)
    PROVE  TypeOK'
<1>1. LBTake(l) BY DEF LBOnChangeDHCP
<1>2. DHCPAddress \in Address /\ "True" \in Conditions BY DEF DHCPAddress, Address, Conditions
<1>3. lbWork' \in [LBs -> LBPass]
  BY <1>2, LBTakenType, LBFinishesType DEF LBOnChangeDHCP
<1> QED BY <1>1, <1>3, LBTakeType

\* Type correctness of the start of ensureAllocatedAddressPool.
LEMMA LBOnChangePoolType ==
    ASSUME TypeOK, NEW l \in LBs, LBOnChangePool(l)
    PROVE  TypeOK'
<1> DEFINE obj == lbCache[l]
           first == IF obj.pool = None THEN "select" ELSE "lookup"
<1>1. LBTake(l) BY DEF LBOnChangePool
<1>2. "True" \in Conditions /\ first \in PCs BY DEF Conditions, PCs
<1>3. [LBTaken(l) EXCEPT !.pc = "lookup", !.goal = "change", !.pool = obj.addr.pool] \in LBPass
  BY LBTakenType DEF LBPass
<1> HIDE DEF first
<1>4. [LBTaken(l) EXCEPT !.pc = first, !.pool = obj.pool] \in LBPass
  BY <1>2, LBTakenType DEF LBPass, PCs
<1>5. \/ LBGoes(l, [LBTaken(l) EXCEPT !.pc = "lookup", !.goal = "change", !.pool = obj.addr.pool])
      \/ LBFinishes(l, LBTaken(l), obj.addr, "True")
      \/ LBGoes(l, [LBTaken(l) EXCEPT !.pc = first, !.pool = obj.pool])
  BY DEF LBOnChangePool, first
<1>6. lbWork' \in [LBs -> LBPass]
  BY <1>2, <1>3, <1>4, <1>5, LBTakenType, LBGoesType, LBFinishesType
<1> QED BY <1>1, <1>6, LBTakeType

\* What a pass in progress is made of.
LEMMA WorkType ==
    ASSUME TypeOK, Shape, NEW l \in LBs
    PROVE  /\ lbWork[l] \in LBPass /\ LBShape(lbWork[l])
           /\ lbWork[l].obj \in LB /\ lbWork[l].obj.pool \in Pools \cup {None}
           /\ lbWork[l].obj.addr \in Address
           /\ lbWork[l].addr \in Address /\ lbWork[l].cond \in Conditions
           /\ lbWork[l].fresh \in BOOLEAN
           /\ lbWork[l].tries \in Seq(IPs)
<1>1. lbWork[l] \in LBPass /\ LBShape(lbWork[l]) BY DEF TypeOK, Shape
<1>2. lbWork[l].obj \in LB /\ lbWork[l].addr \in Address /\ lbWork[l].cond \in Conditions
      /\ lbWork[l].fresh \in BOOLEAN /\ lbWork[l].tries \in Seq(IPs)
  BY <1>1 DEF LBPass
<1>3. lbWork[l].obj.pool \in Pools \cup {None} /\ lbWork[l].obj.addr \in Address BY <1>2 DEF LB
<1> QED BY <1>1, <1>2, <1>3

\* Type correctness of selectIPPool.
LEMMA LBSelectType ==
    ASSUME TypeOK, Shape, NEW l \in LBs, LBSelect(l)
    PROVE  TypeOK'
<1> DEFINE w == lbWork[l]
           prefer == Preference[l]
<1>1. w \in LBPass BY WorkType
<1>2. ASSUME NEW i \in DOMAIN prefer
      PROVE  prefer[i] \in Pools /\ [w EXCEPT !.pc = "lookup", !.pool = prefer[i]] \in LBPass
  <2>1. prefer \in Seq(Pools) BY IPAMAssumption
  <2>2. prefer[i] \in Pools BY <2>1
  <2> QED BY <1>1, <2>2 DEF LBPass
<1>3. \/ LBFails(l)
      \/ \E i \in DOMAIN prefer : LBContinues(l, [w EXCEPT !.pc = "lookup", !.pool = prefer[i]])
  BY DEF LBSelect
<1>4. lbWork' \in [LBs -> LBPass] /\ lbQueue' \subseteq LBs
  BY <1>2, <1>3, LBFailsType, LBContinuesType
<1> QED BY <1>4 DEF LBSelect, TypeOK, poolVars, lbVars

\* Type correctness of the look-up of the allocator.
LEMMA LBLookupType ==
    ASSUME TypeOK, Shape, NEW l \in LBs, LBLookup(l)
    PROVE  TypeOK'
<1> DEFINE w == lbWork[l]
           a == allocators[w.pool]
<1>1. w \in LBPass /\ w.pc = "lookup" /\ w.pool \in Pools
  BY WorkType DEF LBLookup, LBShape
<1>2. a \in RangeSets \cup {None} BY <1>1 DEF TypeOK
<1>3. [w EXCEPT !.pc = "history", !.ranges = a] \in LBPass BY <1>1, <1>2 DEF LBPass
<1>4. [w EXCEPT !.pc = "release"] \in LBPass BY <1>1 DEF LBPass
<1>5. lbWork' \in [LBs -> LBPass] /\ lbQueue' \subseteq LBs
  BY <1>3, <1>4, LBContinuesType, LBFailsType, LBGivesUpType DEF LBLookup
<1> QED BY <1>5 DEF LBLookup, TypeOK, poolVars, lbVars

\* Type correctness of the search of the history.
LEMMA LBHistoryType ==
    ASSUME TypeOK, Shape, NEW l \in LBs, LBHistory(l)
    PROVE  TypeOK'
<1> DEFINE w == lbWork[l]
<1>1. w \in LBPass BY WorkType
<1>2. [w EXCEPT !.pc = "getByID"] \in LBPass BY <1>1 DEF LBPass
<1>3. ASSUME NEW ip \in IPs
      PROVE  [w EXCEPT !.pc = "request", !.tries = <<ip>>, !.ranges = None] \in LBPass
  <2>1. <<ip>> \in Seq(IPs) OBVIOUS
  <2>2. \A t \in Seq(IPs) : [w EXCEPT !.pc = "request", !.tries = t, !.ranges = None] \in LBPass
    BY <1>1 DEF LBPass
  <2> QED BY <2>1, <2>2
<1>4. \/ LBFails(l)
      \/ LBContinues(l, [w EXCEPT !.pc = "getByID"])
      \/ \E ip \in IPs : LBContinues(l, [w EXCEPT !.pc = "request", !.tries = <<ip>>, !.ranges = None])
  BY DEF LBHistory
<1>5. lbWork' \in [LBs -> LBPass] /\ lbQueue' \subseteq LBs
  BY <1>2, <1>3, <1>4, LBContinuesType, LBFailsType
<1>6. raced' \in [LBs -> SUBSET Races]
  <2>1. "oldSearch" \in Races BY DEF Races
  <2>2. \E happened : Raced(l, "oldSearch", happened) BY DEF LBHistory
  <2> QED BY <2>1, <2>2, RacedType
<1> QED BY <1>5, <1>6 DEF LBHistory, TypeOK, poolVars, lbVars

\* Type correctness of GetByID.
LEMMA LBGetByIDType ==
    ASSUME TypeOK, Shape, NEW l \in LBs, LBGetByID(l)
    PROVE  TypeOK'
<1> DEFINE w == lbWork[l]
           first == IF w.obj.pool = None THEN "select" ELSE "lookup"
<1>1. w \in LBPass /\ w.obj.pool \in Pools \cup {None} /\ first \in PCs BY WorkType DEF PCs
<1>2. [w EXCEPT !.pc = "getIter"] \in LBPass BY <1>1 DEF LBPass
<1>3. \/ LBGoes(l, [w EXCEPT !.pc = "getIter"])
      \/ LBGoes(l, [w EXCEPT !.pc = first, !.goal = "dup", !.pool = w.obj.pool, !.ranges = None])
  BY DEF LBGetByID
<1> HIDE DEF first
<1>4. [w EXCEPT !.pc = first, !.goal = "dup", !.pool = w.obj.pool, !.ranges = None] \in LBPass
  BY <1>1 DEF LBPass, PCs
<1>5. lbWork' \in [LBs -> LBPass] BY <1>2, <1>3, <1>4, LBGoesType
<1>6. raced' \in [LBs -> SUBSET Races]
  <2>1. "oldSearch" \in Races BY DEF Races
  <2>2. \E happened : Raced(l, "oldSearch", happened) BY DEF LBGetByID
  <2> QED BY <2>1, <2>2, RacedType
<1> QED BY <1>5, <1>6 DEF LBGetByID, TypeOK, poolVars, lbVars

\* Type correctness of GetIter.
LEMMA LBGetIterType ==
    ASSUME TypeOK, Shape, NEW l \in LBs, LBGetIter(l)
    PROVE  TypeOK'
<1> DEFINE w == lbWork[l]
           tries == Candidates(w.ranges, poolCache[w.pool].last)
<1>1. w \in LBPass /\ w.pool \in Pools /\ w.ranges \in RangeSets
  BY WorkType DEF LBGetIter, LBShape
<1>2. poolCache[w.pool].last \in IPs \cup {None} BY <1>1 DEF TypeOK, Pool
<1>3. tries \in Seq(IPs) BY <1>1, CandidatesType
<1>4. \/ LBFails(l)
      \/ LBContinues(l, [w EXCEPT !.pc = "reserve", !.tries = tries, !.ranges = None])
  BY DEF LBGetIter
<1> HIDE DEF tries
<1>5. [w EXCEPT !.pc = "reserve", !.tries = tries, !.ranges = None] \in LBPass
  BY <1>1, <1>3 DEF LBPass
<1>6. lbWork' \in [LBs -> LBPass] /\ lbQueue' \subseteq LBs
  BY <1>4, <1>5, LBContinuesType, LBFailsType
<1> QED BY <1>6 DEF LBGetIter, TypeOK, poolVars, lbVars

\* Type correctness of Reserve.
LEMMA LBReserveType ==
    ASSUME TypeOK, Shape, NEW l \in LBs, LBReserve(l)
    PROVE  TypeOK'
<1> DEFINE w == lbWork[l]
           p == w.pool
           cached == poolCache[p]
           ip == Head(w.tries)
           got == [pool |-> p, ip |-> ip]
<1>1. w \in LBPass /\ p \in Pools /\ w.tries \in Seq(IPs) /\ w.tries # <<>>
  BY WorkType DEF LBReserve, LBShape
<1>2. ip \in IPs /\ Tail(w.tries) \in Seq(IPs) BY <1>1
<1>3. cached \in Pool /\ poolSynced[p] \in BOOLEAN BY <1>1 DEF TypeOK
<1>4. got \in Address BY <1>1, <1>2 DEF Address
<1>5. [w EXCEPT !.tries = Tail(w.tries)] \in LBPass BY <1>1, <1>2 DEF LBPass
<1>6. Reserved(cached, ip, l) \in Pool BY <1>2, <1>3, ReservedType
<1>7. /\ pools' \in [Pools -> Pool] /\ poolSynced' \in [Pools -> BOOLEAN]
      /\ budget' \in Budget /\ poolWork' \in [Pools -> PoolPass]
  <2>1. CASE UNCHANGED <<pools, poolSynced, poolWork, budget>> BY <2>1 DEF TypeOK
  <2>2. CASE StalePoolPass(p) /\ \E ok \in BOOLEAN : UpdatePool(p, poolSynced[p], Reserved(cached, ip, l), ok)
    BY <2>2, <1>1, <1>3, <1>6, UpdatePoolType, StalePoolPassType
  <2> QED BY <2>1, <2>2 DEF LBReserve
<1>8. lbWork' \in [LBs -> LBPass] /\ lbQueue' \subseteq LBs
  BY <1>4, <1>5, LBFailsType, LBSucceedsType, LBContinuesType DEF LBReserve
<1> QED BY <1>7, <1>8 DEF LBReserve, TypeOK, lbVars

\* Type correctness of Release.
LEMMA LBReleaseType ==
    ASSUME TypeOK, Shape, NEW l \in LBs, LBRelease(l)
    PROVE  TypeOK'
<1> DEFINE w == lbWork[l]
           done == [IdleLB EXCEPT !.pc = "removeFinalizer", !.obj = w.obj, !.fresh = w.fresh]
<1>1. w \in LBPass /\ w.pool \in Pools /\ w.obj \in LB /\ w.fresh \in BOOLEAN
  BY WorkType DEF LBRelease, LBShape
<1>2. NoAddress \in Address BY DEF NoAddress, Address
<1>3. done \in LBPass BY <1>1, IdleTypes DEF LBPass
<1>4. PICK ok \in BOOLEAN :
        /\ ReleaseByID(w.pool, l, ok)
        /\ LBFails(l) \/ LBSucceeds(l, NoAddress) \/ LBContinues(l, done) \/ LBGivesUp(l)
  BY DEF LBRelease
<1>5. pools' \in [Pools -> Pool] /\ poolSynced' \in [Pools -> BOOLEAN] /\ budget' \in Budget
  BY <1>1, <1>4, ReleaseByIDType
<1>6. poolWork' \in [Pools -> PoolPass] BY <1>1, StalePoolPassType DEF LBRelease
<1> HIDE DEF done
<1>7. lbWork' \in [LBs -> LBPass] /\ lbQueue' \subseteq LBs
  BY <1>2, <1>3, <1>4, LBFailsType, LBSucceedsType, LBContinuesType, LBGivesUpType
<1>8. raced' \in [LBs -> SUBSET Races]
  <2>1. "oldRelease" \in Races BY DEF Races
  <2>2. \E happened : Raced(l, "oldRelease", happened) BY DEF LBRelease
  <2> QED BY <2>1, <2>2, RacedType
<1> QED BY <1>5, <1>6, <1>7, <1>8 DEF LBRelease, TypeOK, lbVars

\* Type correctness of the status write.
LEMMA LBWriteType ==
    ASSUME TypeOK, Shape, NEW l \in LBs, LBWrite(l)
    PROVE  TypeOK'
<1> DEFINE w == lbWork[l]
           new == [w.obj EXCEPT !.addr = w.addr, !.cond = w.cond]
<1>1. w.obj \in LB /\ w.fresh \in BOOLEAN /\ w.addr \in Address /\ w.cond \in Conditions
  BY WorkType
<1>2. new \in LB BY <1>1 DEF LB
<1>3. PICK ok \in BOOLEAN :
        /\ UpdateLB(l, w.fresh, new, ok)
        /\ LBGoes(l, AfterChange(new, TRUE)) \/ LBGoes(l, AfterChange(w.obj, w.fresh /\ lbSynced' = lbSynced))
  BY DEF LBWrite
<1> HIDE DEF new
<1>4. lbs' \in [LBs -> LB] /\ lbSynced' \in [LBs -> BOOLEAN] /\ budget' \in Budget
  BY <1>1, <1>2, <1>3, UpdateLBType
<1>5. AfterChange(new, TRUE) \in LBPass BY <1>2, AfterChangeType
<1>6. AfterChange(w.obj, w.fresh /\ lbSynced' = lbSynced) \in LBPass BY <1>1, AfterChangeType
<1>7. lbWork' \in [LBs -> LBPass] BY <1>3, <1>5, <1>6, LBGoesType
<1>8. lbQueue' \subseteq LBs BY DEF LBWrite, TypeOK
<1> QED BY <1>4, <1>7, <1>8 DEF LBWrite, TypeOK, poolVars

\* Type correctness of adding the finalizer of a load balancer.
LEMMA LBAddFinalizerType ==
    ASSUME TypeOK, Shape, NEW l \in LBs, LBAddFinalizer(l)
    PROVE  TypeOK'
<1> DEFINE w == lbWork[l]
           new == [w.obj EXCEPT !.finalizer = TRUE]
<1>1. w.obj \in LB /\ w.fresh \in BOOLEAN BY WorkType
<1>2. new \in LB BY <1>1 DEF LB
<1>3. PICK ok \in BOOLEAN : UpdateLB(l, w.fresh, new, ok) BY DEF LBAddFinalizer
<1> HIDE DEF new
<1>4. lbs' \in [LBs -> LB] /\ lbSynced' \in [LBs -> BOOLEAN] /\ budget' \in Budget
  BY <1>1, <1>2, <1>3, UpdateLBType
<1>5. lbWork' \in [LBs -> LBPass] BY IdleTypes, LBGoesType DEF LBAddFinalizer
<1>6. lbQueue' \subseteq LBs BY DEF LBAddFinalizer, TypeOK
<1> QED BY <1>4, <1>5, <1>6 DEF LBAddFinalizer, TypeOK, poolVars

\* Type correctness of removing the finalizer of a load balancer.
LEMMA LBRemoveFinalizerType ==
    ASSUME TypeOK, Shape, NEW l \in LBs, LBRemoveFinalizer(l)
    PROVE  TypeOK'
<1>1. lbWork[l].fresh \in BOOLEAN BY WorkType
<1>2. PICK ok \in BOOLEAN : UpdateLB(l, lbWork[l].fresh, NoLB, ok) BY DEF LBRemoveFinalizer
<1>3. lbs' \in [LBs -> LB] /\ lbSynced' \in [LBs -> BOOLEAN] /\ budget' \in Budget
  BY <1>1, <1>2, NoLBType, UpdateLBType
<1>4. lbWork' \in [LBs -> LBPass] BY IdleTypes, LBGoesType DEF LBRemoveFinalizer
<1>5. lbQueue' \subseteq LBs BY DEF LBRemoveFinalizer, TypeOK
<1> QED BY <1>3, <1>4, <1>5 DEF LBRemoveFinalizer, TypeOK, poolVars

\* The parts of a pass over a pool have their types.
LEMMA PoolWorkType ==
    ASSUME TypeOK, Shape, NEW p \in Pools
    PROVE  /\ poolWork[p] \in PoolPass /\ poolWork[p].obj \in Pool
           /\ poolWork[p].fresh \in BOOLEAN
           /\ HasRanges(poolWork[p].obj) /\ PoolShape(poolWork[p])
           /\ poolCache[p] \in Pool /\ poolSynced[p] \in BOOLEAN
<1>1. poolWork[p] \in PoolPass BY DEF TypeOK
<1> QED BY <1>1 DEF TypeOK, Shape, PoolPass

\* What follows updateStatus and the manual release are passes.
LEMMA AfterStatusType ==
    ASSUME NEW w \in PoolPass
    PROVE  AfterStatus(w) \in PoolPass /\ AfterManual(w) \in PoolPass
<1>1. [w EXCEPT !.pc = "manual"] \in PoolPass /\ [w EXCEPT !.pc = "addFinalizer"] \in PoolPass
  BY DEF PoolPass
<1> QED BY <1>1, IdleTypes DEF AfterStatus, AfterManual

\* A pool worker that goes on with a pass keeps the type of the workers.
LEMMA PoolGoesType ==
    ASSUME TypeOK, NEW p \in Pools, NEW pass \in PoolPass, PoolGoes(p, pass)
    PROVE  poolWork' \in [Pools -> PoolPass]
  BY DEF PoolGoes, TypeOK

\* Type correctness of taking a pool off the queue.
LEMMA PoolStartType ==
    ASSUME TypeOK, Shape, NEW p \in Pools, PoolStart(p)
    PROVE  TypeOK'
<1> DEFINE w == [pc |-> "register", obj |-> poolCache[p], fresh |-> poolSynced[p]]
<1>1. w \in PoolPass /\ [w EXCEPT !.pc = "unregister"] \in PoolPass
  BY PoolWorkType DEF PoolPass
<1>2. \/ PoolGoes(p, w) \/ PoolGoes(p, AfterStatus(w))
      \/ PoolGoes(p, [w EXCEPT !.pc = "unregister"]) \/ PoolGoes(p, IdlePool)
  BY DEF PoolStart
<1> HIDE DEF w
<1>3. poolWork' \in [Pools -> PoolPass]
  BY <1>1, <1>2, AfterStatusType, IdleTypes, PoolGoesType
<1> QED BY <1>3 DEF PoolStart, TypeOK, poolVars, lbVars

\* Type correctness of registering an allocator.
LEMMA PoolRegisterType ==
    ASSUME TypeOK, Shape, NEW p \in Pools, PoolRegister(p)
    PROVE  TypeOK'
<1>1. poolWork[p].obj.ranges \in RangeSets \cup {None} BY PoolWorkType DEF Pool
<1>2. [poolWork[p] EXCEPT !.pc = "status"] \in PoolPass BY PoolWorkType DEF PoolPass
<1>3. poolWork' \in [Pools -> PoolPass] BY <1>2, PoolGoesType DEF PoolRegister
<1>4. allocators' \in [Pools -> RangeSets \cup {None}] BY <1>1 DEF PoolRegister, TypeOK
<1> QED BY <1>3, <1>4 DEF PoolRegister, TypeOK, poolVars, lbVars

\* Type correctness of updateStatus.
LEMMA PoolStatusType ==
    ASSUME TypeOK, Shape, NEW p \in Pools, PoolStatus(p)
    PROVE  TypeOK'
<1> DEFINE w == poolWork[p]
           new == UpdatedStatus(w.obj, w.obj.ranges)
           seen == [w EXCEPT !.fresh = w.fresh /\ pools'[p] = pools[p]]
<1>1. w \in PoolPass /\ w.obj \in Pool /\ w.obj.ranges \in RangeSets /\ w.fresh \in BOOLEAN
  BY PoolWorkType DEF PoolStatus, PoolShape, HasRanges
<1>2. new \in Pool BY <1>1, UpdatedStatusType
<1>3. (w.fresh /\ pools'[p] = pools[p]) \in BOOLEAN BY <1>1
<1>4. seen \in PoolPass BY <1>1, <1>3 DEF PoolPass
<1>5. \/ PoolGoes(p, AfterStatus(w)) /\ UNCHANGED <<pools, poolSynced, poolQueue, budget>>
      \/ \E ok \in BOOLEAN : /\ UpdatePool(p, w.fresh, new, ok)
                             /\ PoolGoes(p, AfterStatus(seen))
                             /\ poolQueue' = IF ok THEN poolQueue ELSE poolQueue \cup {p}
  BY DEF PoolStatus
<1> HIDE DEF new, seen
<1>6. poolWork' \in [Pools -> PoolPass] BY <1>1, <1>4, <1>5, AfterStatusType, PoolGoesType
<1>7. pools' \in [Pools -> Pool] /\ poolSynced' \in [Pools -> BOOLEAN] /\ budget' \in Budget
  <2>1. CASE UNCHANGED <<pools, poolSynced, poolQueue, budget>> BY <2>1 DEF TypeOK
  <2>2. CASE \E ok \in BOOLEAN : UpdatePool(p, w.fresh, new, ok) BY <2>2, <1>1, <1>2, UpdatePoolType
  <2> QED BY <1>5, <2>1, <2>2
<1>8. poolQueue' \subseteq Pools BY <1>5 DEF TypeOK
<1> QED BY <1>6, <1>7, <1>8 DEF PoolStatus, TypeOK, lbVars

\* Type correctness of the check of a manual release.
LEMMA PoolManualType ==
    ASSUME TypeOK, Shape, NEW p \in Pools, PoolManual(p)
    PROVE  TypeOK'
<1>1. [poolWork[p] EXCEPT !.pc = "manualDone"] \in PoolPass BY PoolWorkType DEF PoolPass
<1>2. [poolWork[p] EXCEPT !.pc = "manualRelease"] \in PoolPass BY PoolWorkType DEF PoolPass
<1>3. poolWork' \in [Pools -> PoolPass] BY <1>1, <1>2, PoolGoesType DEF PoolManual
<1> QED BY <1>3 DEF PoolManual, TypeOK, poolVars, lbVars

\* Type correctness of a manual release.
LEMMA PoolManualReleaseType ==
    ASSUME TypeOK, Shape, NEW p \in Pools, PoolManualRelease(p)
    PROVE  TypeOK'
<1> DEFINE w == poolWork[p]
           seen == [w EXCEPT !.fresh = w.fresh /\ pools'[p] = pools[p]]
           done == [seen EXCEPT !.pc = "manualDone"]
<1>1. w \in PoolPass /\ w.fresh \in BOOLEAN BY PoolWorkType
<1>2. (w.fresh /\ pools'[p] = pools[p]) \in BOOLEAN BY <1>1
<1>3. seen \in PoolPass BY <1>1, <1>2 DEF PoolPass
<1>4. PICK ok \in BOOLEAN :
        /\ ReleaseByID(p, w.obj.release[2], ok)
        /\ PoolGoes(p, done) \/ PoolGoes(p, AfterManual(seen))
        /\ poolQueue' = IF ok THEN poolQueue ELSE poolQueue \cup {p}
  BY DEF PoolManualRelease
<1> HIDE DEF seen
<1>5. done \in PoolPass BY <1>3 DEF PoolPass
<1> HIDE DEF done
<1>6. poolWork' \in [Pools -> PoolPass] BY <1>3, <1>4, <1>5, AfterStatusType, PoolGoesType
<1>7. pools' \in [Pools -> Pool] /\ poolSynced' \in [Pools -> BOOLEAN] /\ budget' \in Budget
  BY <1>4, ReleaseByIDType
<1>8. poolQueue' \subseteq Pools BY <1>4 DEF TypeOK
<1>9. raced' \in [LBs -> SUBSET Races]
  <2>1. "byHand" \in Races BY DEF Races
  <2>2. \E happened : Raced(w.obj.release[2], "byHand", happened) BY DEF PoolManualRelease
  <2> QED BY <2>1, <2>2, RacedType
<1> QED BY <1>6, <1>7, <1>8, <1>9 DEF PoolManualRelease, TypeOK, lbVars

\* Type correctness of removing the annotation.
LEMMA PoolManualDoneType ==
    ASSUME TypeOK, Shape, NEW p \in Pools, PoolManualDone(p)
    PROVE  TypeOK'
<1> DEFINE w == poolWork[p]
           new == [w.obj EXCEPT !.release = None]
           done == [w EXCEPT !.obj = new]
           seen == [w EXCEPT !.fresh = w.fresh /\ pools'[p] = pools[p]]
<1>1. w \in PoolPass /\ w.obj \in Pool /\ w.fresh \in BOOLEAN BY PoolWorkType
<1>2. (w.fresh /\ pools'[p] = pools[p]) \in BOOLEAN BY <1>1
<1>3. seen \in PoolPass BY <1>1, <1>2 DEF PoolPass
<1>4. new \in Pool BY <1>1 DEF Pool
<1>5. PICK ok \in BOOLEAN :
        /\ UpdatePool(p, w.fresh, new, ok)
        /\ PoolGoes(p, AfterManual(done)) \/ PoolGoes(p, AfterManual(seen))
        /\ poolQueue' = IF ok THEN poolQueue ELSE poolQueue \cup {p}
  BY DEF PoolManualDone
<1> HIDE DEF seen, new
<1>6. done \in PoolPass BY <1>1, <1>4 DEF PoolPass
<1> HIDE DEF done
<1>7. poolWork' \in [Pools -> PoolPass] BY <1>3, <1>5, <1>6, AfterStatusType, PoolGoesType
<1>8. pools' \in [Pools -> Pool] /\ poolSynced' \in [Pools -> BOOLEAN] /\ budget' \in Budget
  BY <1>1, <1>4, <1>5, UpdatePoolType
<1>9. poolQueue' \subseteq Pools BY <1>5 DEF TypeOK
<1> QED BY <1>7, <1>8, <1>9 DEF PoolManualDone, TypeOK, lbVars

\* Type correctness of adding the finalizer of a pool.
LEMMA PoolAddFinalizerType ==
    ASSUME TypeOK, Shape, NEW p \in Pools, PoolAddFinalizer(p)
    PROVE  TypeOK'
<1> DEFINE new == [poolWork[p].obj EXCEPT !.finalizer = TRUE]
<1>1. new \in Pool /\ poolWork[p].fresh \in BOOLEAN BY PoolWorkType DEF Pool
<1>2. PICK ok \in BOOLEAN :
        /\ UpdatePool(p, poolWork[p].fresh, new, ok)
        /\ poolQueue' = IF ok THEN poolQueue ELSE poolQueue \cup {p}
  BY DEF PoolAddFinalizer
<1> HIDE DEF new
<1>3. poolWork' \in [Pools -> PoolPass] BY IdleTypes, PoolGoesType DEF PoolAddFinalizer
<1>4. pools' \in [Pools -> Pool] /\ poolSynced' \in [Pools -> BOOLEAN] /\ budget' \in Budget
  BY <1>1, <1>2, UpdatePoolType
<1>5. poolQueue' \subseteq Pools BY <1>2 DEF TypeOK
<1> QED BY <1>3, <1>4, <1>5 DEF PoolAddFinalizer, TypeOK, lbVars

\* Type correctness of removing an allocator.
LEMMA PoolUnregisterType ==
    ASSUME TypeOK, Shape, NEW p \in Pools, PoolUnregister(p)
    PROVE  TypeOK'
<1>1. [poolWork[p] EXCEPT !.pc = "removeFinalizer"] \in PoolPass BY PoolWorkType DEF PoolPass
<1>2. poolWork' \in [Pools -> PoolPass] BY <1>1, PoolGoesType DEF PoolUnregister
<1>3. allocators' \in [Pools -> RangeSets \cup {None}] BY DEF PoolUnregister, TypeOK
<1> QED BY <1>2, <1>3 DEF PoolUnregister, TypeOK, poolVars, lbVars

\* Type correctness of removing the finalizer of a pool.
LEMMA PoolRemoveFinalizerType ==
    ASSUME TypeOK, Shape, NEW p \in Pools, PoolRemoveFinalizer(p)
    PROVE  TypeOK'
<1>1. poolWork[p].fresh \in BOOLEAN BY PoolWorkType
<1>2. PICK ok \in BOOLEAN :
        /\ UpdatePool(p, poolWork[p].fresh, NoPool, ok)
        /\ poolQueue' = IF ok THEN poolQueue ELSE poolQueue \cup {p}
  BY DEF PoolRemoveFinalizer
<1>3. poolWork' \in [Pools -> PoolPass] BY IdleTypes, PoolGoesType DEF PoolRemoveFinalizer
<1>4. pools' \in [Pools -> Pool] /\ poolSynced' \in [Pools -> BOOLEAN] /\ budget' \in Budget
  BY <1>1, <1>2, NoPoolType, UpdatePoolType
<1>5. poolQueue' \subseteq Pools BY <1>2 DEF TypeOK
<1>6. raced' \in [LBs -> SUBSET Races]
  <2>1. "poolGone" \in Races BY DEF Races
  <2> QED BY <2>1 DEF PoolRemoveFinalizer, TypeOK
<1> QED BY <1>3, <1>4, <1>5, <1>6 DEF PoolRemoveFinalizer, TypeOK, lbVars

\* Type correctness of the informers.
LEMMA SyncType ==
    ASSUME TypeOK, (\E p \in Pools : SyncPool(p)) \/ (\E l \in LBs : SyncLB(l))
    PROVE  TypeOK'
  BY DEF TypeOK, SyncPool, SyncLB, poolVars, lbVars

\* Type correctness of a restart.
LEMMA RestartType ==
    ASSUME TypeOK, Restart
    PROVE  TypeOK'
<1>1. budget' \in Budget BY DEF Restart, TypeOK, Budget
<1> QED BY <1>1, IdleTypes DEF Restart, TypeOK

\* Type correctness of a write from outside.
LEMMA UserWritesType ==
    ASSUME TypeOK, NEW op
    PROVE  /\ \A l \in LBs, new \in LB :
                 UserWritesLB(op, l, new) /\ raced' \in [LBs -> SUBSET Races] => TypeOK'
           /\ \A p \in Pools, new \in Pool : UserWritesPool(op, p, new) => TypeOK'
<1>1. ASSUME NEW l \in LBs, NEW new \in LB, UserWritesLB(op, l, new),
             raced' \in [LBs -> SUBSET Races]
      PROVE  TypeOK'
  <2>1. budget' \in Budget BY <1>1 DEF UserWritesLB, TypeOK, Budget
  <2>2. lbWork[l] \in LBPass BY DEF TypeOK
  <2>3. [lbWork[l] EXCEPT !.fresh = FALSE] \in LBPass BY <2>2 DEF LBPass
  <2>4. lbWork' \in [LBs -> LBPass] BY <1>1, <2>3 DEF UserWritesLB, TypeOK
  <2> QED BY <1>1, <2>1, <2>4 DEF UserWritesLB, TypeOK, poolVars
<1>2. ASSUME NEW p \in Pools, NEW new \in Pool, UserWritesPool(op, p, new) PROVE TypeOK'
  <2>1. budget' \in Budget BY <1>2 DEF UserWritesPool, TypeOK, Budget
  <2>2. poolWork[p] \in PoolPass BY DEF TypeOK
  <2>3. [poolWork[p] EXCEPT !.fresh = FALSE] \in PoolPass BY <2>2 DEF PoolPass
  <2>4. poolWork' \in [Pools -> PoolPass] BY <1>2, <2>3 DEF UserWritesPool, TypeOK
  <2> QED BY <1>2, <2>1, <2>4 DEF UserWritesPool, TypeOK, lbVars
<1> QED BY <1>1, <1>2

\* Type correctness of what users do to load balancers.
LEMMA OutsideLBType ==
    ASSUME TypeOK, NEW l \in LBs, CreateLB(l) \/ EditLB(l) \/ DeleteLB(l) \/ LBEnqueue(l)
    PROVE  TypeOK'
<1>1. CASE CreateLB(l)
  <2>1. PICK spec \in LBSpecs :
          UserWritesLB("createLB", l, [NoLB EXCEPT !.exists = TRUE, !.pool = spec.pool, !.ipam = spec.ipam])
    BY <1>1 DEF CreateLB
  <2>2. spec \in [pool : Pools \cup {None}, ipam : {"pool", "", "dhcp"}] BY IPAMAssumption
  <2>3. [NoLB EXCEPT !.exists = TRUE, !.pool = spec.pool, !.ipam = spec.ipam] \in LB
    BY <2>2, NoLBType DEF LB
  <2>4. raced' \in [LBs -> SUBSET Races] BY <1>1 DEF CreateLB, TypeOK
  <2> QED BY <2>1, <2>3, <2>4, UserWritesType
<1>2. CASE EditLB(l)
  <2>1. PICK spec \in LBSpecs :
          /\ UserWritesLB("editLB", l, [lbs[l] EXCEPT !.pool = spec.pool, !.ipam = spec.ipam])
          /\ \E happened : Raced(l, "editedBack", happened)
    BY <1>2 DEF EditLB
  <2>2. spec \in [pool : Pools \cup {None}, ipam : {"pool", "", "dhcp"}] BY IPAMAssumption
  <2>3. lbs[l] \in LB BY DEF TypeOK
  <2>4. [lbs[l] EXCEPT !.pool = spec.pool, !.ipam = spec.ipam] \in LB BY <2>2, <2>3 DEF LB
  <2>5. raced' \in [LBs -> SUBSET Races]
    <3>1. "editedBack" \in Races BY DEF Races
    <3> QED BY <2>1, <3>1, RacedType
  <2> QED BY <2>1, <2>4, <2>5, UserWritesType
<1>3. CASE DeleteLB(l)
  <2>1. lbs[l] \in LB BY DEF TypeOK
  <2>2. [lbs[l] EXCEPT !.deleting = TRUE] \in LB BY <2>1 DEF LB
  <2>3. \E new \in LB : UserWritesLB("deleteLB", l, new) BY <1>3, <2>2, NoLBType DEF DeleteLB
  <2>4. raced' \in [LBs -> SUBSET Races] BY <1>3 DEF DeleteLB, TypeOK
  <2> QED BY <2>3, <2>4, UserWritesType
<1>4. CASE LBEnqueue(l)
  <2>1. budget' \in Budget BY <1>4 DEF LBEnqueue, TypeOK, Budget
  <2> QED BY <1>4, <2>1 DEF LBEnqueue, TypeOK, poolVars, lbVars
<1> QED BY <1>1, <1>2, <1>3, <1>4

\* Type correctness of what users do to pools.
LEMMA OutsidePoolType ==
    ASSUME TypeOK, NEW p \in Pools,
           CreatePool(p) \/ EditPool(p) \/ AnnotatePool(p) \/ DeletePool(p)
    PROVE  TypeOK'
<1>1. pools[p] \in Pool BY DEF TypeOK
<1>2. RangeChoices[p] \subseteq RangeSets BY DEF RangeSets
<1>3. CASE CreatePool(p)
  <2>1. PICK rs \in RangeChoices[p] :
          UserWritesPool("createPool", p, [NoPool EXCEPT !.exists = TRUE, !.ranges = rs])
    BY <1>3 DEF CreatePool
  <2>2. [NoPool EXCEPT !.exists = TRUE, !.ranges = rs] \in Pool BY <1>2, NoPoolType DEF Pool
  <2> QED BY <2>1, <2>2, UserWritesType
<1>4. CASE EditPool(p)
  <2>1. PICK rs \in RangeChoices[p] : UserWritesPool("editPool", p, [pools[p] EXCEPT !.ranges = rs])
    BY <1>4 DEF EditPool
  <2>2. [pools[p] EXCEPT !.ranges = rs] \in Pool BY <1>1, <1>2 DEF Pool
  <2> QED BY <2>1, <2>2, UserWritesType
<1>5. CASE AnnotatePool(p)
  <2>1. PICK ip \in IPs, id \in LBs :
          UserWritesPool("annotatePool", p, [pools[p] EXCEPT !.release = <<ip, id>>])
    BY <1>5 DEF AnnotatePool
  <2>2. \A r \in IPs \X LBs : [pools[p] EXCEPT !.release = r] \in Pool BY <1>1 DEF Pool
  <2>3. [pools[p] EXCEPT !.release = <<ip, id>>] \in Pool BY <2>2
  <2> QED BY <2>1, <2>3, UserWritesType
<1>6. CASE DeletePool(p)
  <2>1. [pools[p] EXCEPT !.deleting = TRUE] \in Pool BY <1>1 DEF Pool
  <2>2. \E new \in Pool : UserWritesPool("deletePool", p, new) BY <1>6, <2>1, NoPoolType DEF DeletePool
  <2> QED BY <2>2, UserWritesType
<1> QED BY <1>3, <1>4, <1>5, <1>6

\* Every step keeps the types, given the shape of passes and objects.
LEMMA TypeStep == TypeOK /\ Shape /\ [Next]_vars => TypeOK'
<1> SUFFICES ASSUME TypeOK, Shape, [Next]_vars PROVE TypeOK' OBVIOUS
<1>1. ASSUME NEW l \in LBs, LBWorker(l) PROVE TypeOK'
  BY <1>1, LBSkipType, LBOnRemoveType, LBOnChangeDHCPType, LBOnChangePoolType, LBSelectType,
     LBLookupType, LBHistoryType, LBGetByIDType, LBGetIterType, LBReserveType, LBReleaseType,
     LBWriteType, LBAddFinalizerType, LBRemoveFinalizerType DEF LBWorker
<1>2. ASSUME NEW p \in Pools, PoolWorker(p) PROVE TypeOK'
  BY <1>2, PoolStartType, PoolRegisterType, PoolStatusType, PoolManualType,
     PoolManualReleaseType, PoolManualDoneType, PoolAddFinalizerType, PoolUnregisterType,
     PoolRemoveFinalizerType DEF PoolWorker
<1>3. CASE Outside BY <1>3, OutsideLBType, OutsidePoolType DEF Outside
<1>4. CASE UNCHANGED vars BY <1>4 DEF vars, TypeOK
<1> QED BY <1>1, <1>2, <1>3, <1>4, SyncType, RestartType DEF Next

\* The initial states have the types.
LEMMA TypeInit == Init => TypeOK
<1> SUFFICES ASSUME Init PROVE TypeOK OBVIOUS
<1>1. PICK rs \in [ReadyPools -> RangeSets] :
        /\ pools = [p \in Pools |-> IF p \in ReadyPools THEN ReadyPool(rs[p]) ELSE NoPool]
        /\ allocators = [p \in Pools |-> IF p \in ReadyPools THEN rs[p] ELSE None]
  BY DEF Init
<1>2. pools \in [Pools -> Pool] BY <1>1, ReadyPoolType, NoPoolType
<1>3. allocators \in [Pools -> RangeSets \cup {None}] BY <1>1
<1>4. budget \in Budget BY IPAMAssumption DEF Init, Budget
<1> QED BY <1>2, <1>3, <1>4, IdleTypes, NoLBType DEF Init, TypeOK

-----------------------------------------------------------------------------
(* The shape of passes and objects *)

\* A worker that goes on with a well formed pass leaves all of them well formed.
LEMMA LBGoesShape ==
    ASSUME TypeOK, Shape, NEW l \in LBs, NEW pass, LBShape(pass), LBGoes(l, pass)
    PROVE  \A x \in LBs : LBShape(lbWork'[x])
  BY DEF LBGoes, TypeOK, Shape

\* So does one that finishes a pass,
LEMMA LBFinishesShape ==
    ASSUME TypeOK, Shape, NEW l \in LBs, NEW pass, NEW ad, NEW c, LBFinishes(l, pass, ad, c)
    PROVE  \A x \in LBs : LBShape(lbWork'[x])
<1>1. LBShape(AfterChange(pass.obj, pass.fresh)) BY DEF AfterChange, IdleLB, LBShape
<1>2. LBShape([IdleLB EXCEPT !.pc = "write", !.obj = pass.obj, !.fresh = pass.fresh,
                             !.addr = ad, !.cond = c])
  BY DEF IdleLB, LBShape
<1> QED BY <1>1, <1>2, LBGoesShape DEF LBFinishes

\* and so does one that fails, succeeds or gives up.
LEMMA LBEndsShape ==
    ASSUME TypeOK, Shape, NEW l \in LBs,
           LBFails(l) \/ (\E ad \in Address : LBSucceeds(l, ad)) \/ LBGivesUp(l) \/ LBGoes(l, IdleLB)
    PROVE  \A x \in LBs : LBShape(lbWork'[x])
<1>1. LBShape(IdleLB) BY DEF IdleLB, LBShape
<1> QED BY <1>1, LBFinishesShape, LBGoesShape DEF LBFails, LBSucceeds, LBGivesUp

\* An operation of a load balancer's worker leaves its pass well formed.
LEMMA LBStartShape ==
    ASSUME TypeOK, Shape, NEW l \in LBs,
           LBSkip(l) \/ LBOnRemove(l) \/ LBOnChangeDHCP(l) \/ LBOnChangePool(l)
    PROVE  \A x \in LBs : LBShape(lbWork'[x])
<1>1. CASE LBSkip(l) BY <1>1, LBEndsShape DEF LBSkip
<1>2. CASE LBOnRemove(l)
  <2>1. LBShape([LBTaken(l) EXCEPT !.pc = "removeFinalizer"]) BY DEF LBTaken, IdleLB, LBShape
  <2>2. ASSUME lbCache[l].addr.pool # None
        PROVE  LBShape([LBTaken(l) EXCEPT !.pc = "lookup", !.goal = "remove",
                                          !.pool = lbCache[l].addr.pool])
    BY <2>2, LBTakenType DEF LBTaken, IdleLB, LBShape
  <2> QED BY <1>2, <2>1, <2>2, LBGoesShape DEF LBOnRemove
<1>3. CASE LBOnChangeDHCP(l) BY <1>3, LBFinishesShape DEF LBOnChangeDHCP
<1>4. CASE LBOnChangePool(l)
  <2> DEFINE obj == lbCache[l]
  <2>1. ASSUME PoolChanged(obj)
        PROVE  LBShape([LBTaken(l) EXCEPT !.pc = "lookup", !.goal = "change", !.pool = obj.addr.pool])
    BY <2>1, LBTakenType DEF LBTaken, IdleLB, LBShape, PoolChanged
  <2>2. LBShape([LBTaken(l) EXCEPT !.pc = IF obj.pool = None THEN "select" ELSE "lookup",
                                   !.pool = obj.pool])
    BY LBTakenType DEF LBTaken, IdleLB, LBShape
  <2> QED BY <1>4, <2>1, <2>2, LBGoesShape, LBFinishesShape DEF LBOnChangePool
<1> QED BY <1>1, <1>2, <1>3, <1>4

\* Every operation of a load balancer's worker leaves its pass well formed.
LEMMA LBStepShape ==
    ASSUME TypeOK, Shape, NEW l \in LBs, LBWorker(l)
    PROVE  \A x \in LBs : LBShape(lbWork'[x])
<1> DEFINE w == lbWork[l]
<1>0. w \in LBPass /\ LBShape(w) BY WorkType
<1>1. CASE LBSkip(l) \/ LBOnRemove(l) \/ LBOnChangeDHCP(l) \/ LBOnChangePool(l)
  BY <1>1, LBStartShape
<1>2. CASE LBSelect(l)
  <2>1. ASSUME NEW i \in DOMAIN Preference[l]
        PROVE  LBShape([w EXCEPT !.pc = "lookup", !.pool = Preference[l][i]])
    <3>1. Preference[l] \in Seq(Pools) BY IPAMAssumption
    <3>2. Preference[l][i] \in Pools BY <3>1
    <3> QED BY <3>2, <1>0 DEF LBShape, LBPass
  <2> QED BY <1>2, <2>1, LBEndsShape, LBGoesShape DEF LBSelect, LBContinues
<1>3. CASE LBLookup(l)
  <2>1. w.pc = "lookup" /\ w.pool \in Pools /\ allocators[w.pool] \in RangeSets \cup {None}
    BY <1>0, <1>3 DEF LBLookup, LBShape, TypeOK
  <2>2. ASSUME allocators[w.pool] # None
        PROVE  /\ LBShape([w EXCEPT !.pc = "history", !.ranges = allocators[w.pool]])
               /\ LBShape([w EXCEPT !.pc = "release"])
    BY <1>0, <2>1, <2>2 DEF LBShape, LBPass
  <2> QED BY <1>3, <2>2, LBEndsShape, LBGoesShape DEF LBLookup, LBContinues
<1>4. CASE LBHistory(l)
  <2>1. LBShape([w EXCEPT !.pc = "getByID"]) BY <1>0, <1>4 DEF LBHistory, LBShape, LBPass
  <2>2. ASSUME NEW ip \in IPs
        PROVE  LBShape([w EXCEPT !.pc = "request", !.tries = <<ip>>, !.ranges = None])
    BY <1>0, <1>4 DEF LBHistory, LBShape, LBPass
  <2>3. \/ LBFails(l) \/ LBGoes(l, [w EXCEPT !.pc = "getByID"])
        \/ \E ip \in IPs : LBGoes(l, [w EXCEPT !.pc = "request", !.tries = <<ip>>, !.ranges = None])
    BY <1>4 DEF LBHistory, LBContinues
  <2> QED BY <2>1, <2>2, <2>3, LBEndsShape, LBGoesShape
<1>5. CASE LBGetByID(l)
  <2>1. LBShape([w EXCEPT !.pc = "getIter"]) BY <1>0, <1>5 DEF LBGetByID, LBShape, LBPass
  <2>2. LBShape([w EXCEPT !.pc = IF w.obj.pool = None THEN "select" ELSE "lookup",
                          !.goal = "dup", !.pool = w.obj.pool, !.ranges = None])
    BY <1>0, WorkType DEF LBShape, LBPass
  <2> QED BY <1>5, <2>1, <2>2, LBGoesShape DEF LBGetByID
<1>6. CASE LBGetIter(l)
  <2> DEFINE tries == Candidates(w.ranges, poolCache[w.pool].last)
  <2>1. ASSUME NEW t, t # <<>>
        PROVE  LBShape([w EXCEPT !.pc = "reserve", !.tries = t, !.ranges = None])
    BY <1>0, <1>6, <2>1 DEF LBGetIter, LBShape, LBPass
  <2>2. \/ LBFails(l)
        \/ tries # <<>> /\ LBGoes(l, [w EXCEPT !.pc = "reserve", !.tries = tries, !.ranges = None])
    BY <1>6 DEF LBGetIter, LBContinues
  <2> QED BY <2>1, <2>2, LBEndsShape, LBGoesShape
<1>7. CASE LBReserve(l)
  <2>1. w.pool \in Pools /\ w.tries \in Seq(IPs) /\ w.tries # <<>>
    BY <1>7, WorkType DEF LBReserve, LBShape
  <2>2. [pool |-> w.pool, ip |-> Head(w.tries)] \in Address BY <2>1 DEF Address
  <2>3. ASSUME Tail(w.tries) # <<>> PROVE LBShape([w EXCEPT !.tries = Tail(w.tries)])
    BY <1>0, <2>3, <2>1 DEF LBShape, LBPass
  <2> QED BY <1>7, <2>2, <2>3, LBEndsShape, LBGoesShape DEF LBReserve, LBContinues
<1>8. CASE LBRelease(l)
  <2>1. LBShape([IdleLB EXCEPT !.pc = "removeFinalizer", !.obj = w.obj, !.fresh = w.fresh])
    BY DEF IdleLB, LBShape
  <2>2. NoAddress \in Address BY DEF NoAddress, Address
  <2> QED BY <1>8, <2>1, <2>2, LBEndsShape, LBGoesShape DEF LBRelease, LBContinues
<1>9. CASE LBWrite(l)
  <2>1. \A o, f : LBShape(AfterChange(o, f)) BY DEF AfterChange, IdleLB, LBShape
  <2> QED BY <1>9, <2>1, LBGoesShape DEF LBWrite
<1>10. CASE LBAddFinalizer(l) \/ LBRemoveFinalizer(l)
  BY <1>10, LBEndsShape DEF LBAddFinalizer, LBRemoveFinalizer
<1> QED BY <1>1, <1>2, <1>3, <1>4, <1>5, <1>6, <1>7, <1>8, <1>9, <1>10 DEF LBWorker

-----------------------------------------------------------------------------
(* What a step may do to a pool object.  Copies that count as current are    *)
(* the current object, so whatever is written back was derived from it.      *)

CurrentCopies ==
    \A p \in Pools :
        /\ poolSynced[p] => poolCache[p] = pools[p]
        /\ poolWork[p].fresh => poolWork[p].obj = pools[p]

InRange(pool) ==
    Active(pool) => \A ip \in Keys(pool.allocated) : InRangeSet(pool.ranges, ip)

\* A write that leaves the books of the pool alone.
Edited(old, new) ==
    /\ new.allocated = old.allocated /\ new.history = old.history
    /\ new.total = old.total /\ new.available = old.available
    /\ HasRanges(old) => HasRanges(new)
    /\ InRange(old) => InRange(new)

\* A new pool, or none.
Emptied(new) ==
    /\ new.allocated = NoOwners /\ new.history = NoOwners
    /\ new.total = 0 /\ new.available = 0
    /\ HasRanges(new)

PoolChange(old, new) ==
    \/ new = old
    \/ \E ip \in IPs, id \in LBs :
          old.allocated[ip] = None /\ new = Reserved(old, ip, id) /\ Admitted(new)
    \/ \E ip \in IPs :
          old.allocated[ip] # None /\ new = Released(old, ip) /\ Admitted(new)
    \/ old.exists /\ new = UpdatedStatus(old, old.ranges) /\ Admitted(new)
    \/ Edited(old, new)
    \/ Emptied(new)

\* Update changes a pool only to the object written, and only from a current copy.
LEMMA UpdatePoolEffect ==
    ASSUME TypeOK, NEW p \in Pools, NEW fresh \in BOOLEAN, NEW new, NEW ok \in BOOLEAN,
           UpdatePool(p, fresh, new, ok)
    PROVE  /\ \A x \in Pools : x # p => pools'[x] = pools[x]
           /\ pools'[p] = pools[p] \/ (fresh /\ Admitted(new) /\ pools'[p] = new)
           /\ ok => (fresh /\ pools'[p] = new)
           /\ \A x \in Pools : poolSynced'[x] => (poolSynced[x] /\ pools'[x] = pools[x])
<1>1. CASE UNCHANGED <<pools, poolSynced>> /\ ~ok BY <1>1
<1>2. CASE fresh /\ Admitted(new) /\ WritePool(p, new) BY <1>2 DEF WritePool, TypeOK
<1> QED BY <1>1, <1>2 DEF UpdatePool

\* ReleaseByID changes a pool as PoolChange says: had its copy been stale, the
\* Update would have been refused.
LEMMA ReleaseByIDEffect ==
    ASSUME TypeOK, CurrentCopies, NEW p \in Pools, NEW id \in LBs, NEW ok \in BOOLEAN,
           ReleaseByID(p, id, ok)
    PROVE  /\ \A x \in Pools : PoolChange(pools[x], pools'[x])
           /\ \A x \in Pools : poolSynced'[x] => (poolSynced[x] /\ pools'[x] = pools[x])
           /\ \A x \in Pools : x # p => pools'[x] = pools[x]
<1>1. CASE UNCHANGED <<pools, poolSynced, budget>> BY <1>1 DEF PoolChange
<1>2. CASE \E ip \in IPs : /\ poolCache[p].allocated[ip] = id
                           /\ UpdatePool(p, poolSynced[p], Released(poolCache[p], ip), ok)
  <2>1. PICK ip \in IPs : /\ poolCache[p].allocated[ip] = id
                          /\ UpdatePool(p, poolSynced[p], Released(poolCache[p], ip), ok)
    BY <1>2
  <2>2. poolSynced[p] \in BOOLEAN BY DEF TypeOK
  <2>3. \/ pools'[p] = pools[p]
        \/ /\ poolCache[p] = pools[p]
           /\ Admitted(Released(pools[p], ip)) /\ pools'[p] = Released(pools[p], ip)
    BY <2>1, <2>2, UpdatePoolEffect DEF CurrentCopies
  <2>4. id # None BY IPAMAssumption
  <2>5. PoolChange(pools[p], pools'[p]) BY <2>1, <2>3, <2>4 DEF PoolChange
  <2>6. \A x \in Pools : x # p => pools'[x] = pools[x] BY <2>1, <2>2, UpdatePoolEffect
  <2>7. \A x \in Pools : PoolChange(pools[x], pools'[x]) BY <2>5, <2>6 DEF PoolChange
  <2> QED BY <2>1, <2>2, <2>6, <2>7, UpdatePoolEffect
<1> QED BY <1>1, <1>2 DEF ReleaseByID

\* The pool half of Shape.
PoolsShaped ==
    \A p \in Pools : /\ HasRanges(poolCache[p])
                     /\ HasRanges(poolWork[p].obj)
                     /\ PoolShape(poolWork[p])

\* A stale copy is marked as such and otherwise unchanged.
LEMMA StalePoolPassEffect ==
    ASSUME TypeOK, NEW p \in Pools, StalePoolPass(p)
    PROVE  /\ \A x \in Pools : poolWork'[x].obj = poolWork[x].obj /\ poolWork'[x].pc = poolWork[x].pc
           /\ \A x \in Pools : x # p => poolWork'[x] = poolWork[x]
           /\ poolWork'[p].fresh => (poolWork[p].fresh /\ pools'[p] = pools[p])
<1>1. poolWork[p] \in PoolPass BY DEF TypeOK
<1> QED BY <1>1 DEF StalePoolPass, TypeOK, PoolPass

\* The steps of a load balancer's worker change pools as PoolChange says.
LEMMA LBPoolStep ==
    ASSUME TypeOK, Shape, CurrentCopies, NEW l \in LBs, LBWorker(l)
    PROVE  /\ \A p \in Pools : PoolChange(pools[p], pools'[p])
           /\ CurrentCopies' /\ PoolsShaped'
<1> DEFINE w == lbWork[l]
<1>1. CASE UNCHANGED <<poolVars, poolWork>>
  BY <1>1 DEF poolVars, PoolChange, CurrentCopies, PoolsShaped, Shape
<1>2. CASE LBReserve(l)
  <2> DEFINE p == w.pool
             ip == Head(w.tries)
  <2>1. p \in Pools /\ w.tries \in Seq(IPs) /\ w.tries # <<>>
    BY <1>2, WorkType DEF LBReserve, LBShape
  <2>2. ip \in IPs /\ poolSynced[p] \in BOOLEAN BY <2>1 DEF TypeOK
  <2>3. CASE UNCHANGED <<pools, poolSynced, poolWork, budget>>
    BY <1>2, <2>3, <1>1 DEF LBReserve, poolVars
  <2>4. CASE /\ poolCache[p].allocated[ip] = None
             /\ \E ok \in BOOLEAN : UpdatePool(p, poolSynced[p], Reserved(poolCache[p], ip, l), ok)
             /\ StalePoolPass(p)
    <3>1. PICK ok \in BOOLEAN : UpdatePool(p, poolSynced[p], Reserved(poolCache[p], ip, l), ok)
      BY <2>4
    <3>2. \/ pools'[p] = pools[p]
          \/ /\ pools[p].allocated[ip] = None
             /\ Admitted(Reserved(pools[p], ip, l)) /\ pools'[p] = Reserved(pools[p], ip, l)
      BY <2>1, <2>2, <2>4, <3>1, UpdatePoolEffect DEF CurrentCopies
    <3>3. \A x \in Pools : x # p => pools'[x] = pools[x] BY <2>1, <2>2, <3>1, UpdatePoolEffect
    <3>4. \A x \in Pools : PoolChange(pools[x], pools'[x]) BY <2>2, <3>2, <3>3 DEF PoolChange
    <3>5. \A x \in Pools : poolSynced'[x] => (poolSynced[x] /\ pools'[x] = pools[x])
      BY <2>1, <2>2, <3>1, UpdatePoolEffect
    <3>6. poolCache' = poolCache BY <1>2 DEF LBReserve
    <3>7. CurrentCopies' BY <2>1, <2>4, <3>3, <3>5, <3>6, StalePoolPassEffect DEF CurrentCopies
    <3>8. PoolsShaped' BY <2>1, <2>4, <3>6, StalePoolPassEffect DEF PoolsShaped, Shape, PoolShape
    <3> QED BY <3>4, <3>7, <3>8
  <2> QED BY <1>2, <2>3, <2>4 DEF LBReserve
<1>3. CASE LBRelease(l)
  <2>1. w.pool \in Pools BY <1>3, WorkType DEF LBRelease, LBShape
  <2>2. PICK ok \in BOOLEAN : ReleaseByID(w.pool, l, ok) BY <1>3 DEF LBRelease
  <2>3. StalePoolPass(w.pool) /\ poolCache' = poolCache BY <1>3 DEF LBRelease
  <2>4. CurrentCopies'
    BY <2>1, <2>2, <2>3, ReleaseByIDEffect, StalePoolPassEffect DEF CurrentCopies
  <2>5. PoolsShaped' BY <2>1, <2>3, StalePoolPassEffect DEF PoolsShaped, Shape, PoolShape
  <2> QED BY <2>1, <2>2, <2>4, <2>5, ReleaseByIDEffect
<1>4. CASE \/ LBSkip(l) \/ LBOnRemove(l) \/ LBOnChangeDHCP(l) \/ LBOnChangePool(l)
  BY <1>4, <1>1 DEF LBSkip, LBOnRemove, LBOnChangeDHCP, LBOnChangePool, LBTake
<1>5. CASE \/ LBSelect(l) \/ LBLookup(l) \/ LBHistory(l) \/ LBGetByID(l) \/ LBGetIter(l)
  BY <1>5, <1>1 DEF LBSelect, LBLookup, LBHistory, LBGetByID, LBGetIter
<1>6. CASE LBWrite(l) \/ LBAddFinalizer(l) \/ LBRemoveFinalizer(l)
  BY <1>6, <1>1 DEF LBWrite, LBAddFinalizer, LBRemoveFinalizer
<1> QED BY <1>2, <1>3, <1>4, <1>5, <1>6 DEF LBWorker

\* Only the worker of the pool changes its pass.
LEMMA PoolGoesEffect ==
    ASSUME TypeOK, NEW p \in Pools, NEW pass, PoolGoes(p, pass)
    PROVE  poolWork'[p] = pass /\ \A x \in Pools : x # p => poolWork'[x] = poolWork[x]
  BY DEF PoolGoes, TypeOK

\* What the handlers after a step are run with.
LEMMA AfterStatusShape ==
    ASSUME NEW w \in PoolPass, w.obj.exists, HasRanges(w.obj), NEW obj, w.fresh => w.obj = obj,
           NEW next \in {AfterStatus(w), AfterManual(w)}
    PROVE  HasRanges(next.obj) /\ PoolShape(next) /\ (next.fresh => next.obj = obj)
<1>1. HasRanges(IdlePool.obj) /\ PoolShape(IdlePool) /\ ~IdlePool.fresh
  BY DEF IdlePool, NoPool, HasRanges, PoolShape
<1>2. CASE next = IdlePool BY <1>1, <1>2
<1>3. CASE next = [w EXCEPT !.pc = "manual"] /\ w.obj.release # None
  BY <1>3 DEF PoolPass, PoolShape
<1>4. CASE next = [w EXCEPT !.pc = "addFinalizer"]
  BY <1>4 DEF PoolPass, PoolShape
<1> QED BY <1>2, <1>3, <1>4 DEF AfterStatus, AfterManual

\* The bookkeeping shared by the steps of a pool's worker: the pool changes in
\* a permitted way, and the next pass is well formed and honest about its copy.
LEMMA PoolFrame ==
    ASSUME TypeOK, Shape, CurrentCopies, NEW p \in Pools, NEW pass, PoolGoes(p, pass),
           poolCache' = poolCache,
           PoolChange(pools[p], pools'[p]),
           \A x \in Pools : x # p => pools'[x] = pools[x],
           \A x \in Pools : poolSynced'[x] => (poolSynced[x] /\ pools'[x] = pools[x]),
           HasRanges(pass.obj), PoolShape(pass), pass.fresh => pass.obj = pools'[p]
    PROVE  /\ \A x \in Pools : PoolChange(pools[x], pools'[x])
           /\ CurrentCopies' /\ PoolsShaped'
<1>1. \A x \in Pools : PoolChange(pools[x], pools'[x]) BY DEF PoolChange
<1>2. CurrentCopies' BY PoolGoesEffect DEF CurrentCopies
<1>3. PoolsShaped' BY PoolGoesEffect DEF PoolsShaped, Shape
<1> QED BY <1>1, <1>2, <1>3

\* The outcome of an Update of the pool, from a copy that may be stale.
LEMMA UpdatePoolChange ==
    ASSUME TypeOK, CurrentCopies, NEW p \in Pools, NEW new, NEW ok \in BOOLEAN,
           UpdatePool(p, poolWork[p].fresh, new, ok),
           poolWork[p].fresh \in BOOLEAN,
           (poolWork[p].obj = pools[p] /\ Admitted(new)) => PoolChange(pools[p], new)
    PROVE  /\ PoolChange(pools[p], pools'[p])
           /\ \A x \in Pools : x # p => pools'[x] = pools[x]
           /\ \A x \in Pools : poolSynced'[x] => (poolSynced[x] /\ pools'[x] = pools[x])
<1>1. pools'[p] = pools[p] \/ (poolWork[p].fresh /\ Admitted(new) /\ pools'[p] = new)
  BY UpdatePoolEffect
<1>2. PoolChange(pools[p], pools'[p])
  BY <1>1 DEF CurrentCopies, PoolChange
<1> QED BY <1>2, UpdatePoolEffect

\* The steps of a pool's worker change pools as PoolChange says.
LEMMA PoolPoolStep ==
    ASSUME TypeOK, Shape, CurrentCopies, NEW p \in Pools, PoolWorker(p)
    PROVE  /\ \A x \in Pools : PoolChange(pools[x], pools'[x])
           /\ CurrentCopies' /\ PoolsShaped'
<1> DEFINE w == poolWork[p]
           seen == [w EXCEPT !.fresh = w.fresh /\ pools'[p] = pools[p]]
<1>a. w \in PoolPass /\ w.obj \in Pool /\ w.fresh \in BOOLEAN /\ HasRanges(w.obj) /\ PoolShape(w)
      /\ (w.fresh => w.obj = pools[p])
  BY PoolWorkType DEF CurrentCopies
<1>b. (w.fresh /\ pools'[p] = pools[p]) \in BOOLEAN BY <1>a
<1>c. seen \in PoolPass /\ seen.obj = w.obj /\ (seen.fresh => (w.fresh /\ pools'[p] = pools[p]))
  BY <1>a, <1>b DEF PoolPass
<1>d. HasRanges(IdlePool.obj) /\ PoolShape(IdlePool) /\ ~IdlePool.fresh
  BY DEF IdlePool, NoPool, HasRanges, PoolShape
<1>e. seen.fresh => seen.obj = pools'[p] BY <1>a, <1>c
<1>f. PoolChange(pools[p], pools[p]) BY DEF PoolChange
<1> HIDE DEF seen
<1>1. CASE PoolStart(p)
  <2> DEFINE start == [pc |-> "register", obj |-> poolCache[p], fresh |-> poolSynced[p]]
  <2>1. /\ start \in PoolPass /\ start.obj = poolCache[p] /\ HasRanges(poolCache[p])
        /\ start.fresh => start.obj = pools[p]
    BY PoolWorkType DEF PoolPass, Shape, CurrentCopies
  <2>2. UNCHANGED <<pools, poolCache, poolSynced>> BY <1>1 DEF PoolStart, poolVars
  <2>3. \/ Active(poolCache[p]) /\ PoolGoes(p, start)
        \/ Active(poolCache[p]) /\ PoolGoes(p, AfterStatus(start))
        \/ poolCache[p].exists /\ PoolGoes(p, [start EXCEPT !.pc = "unregister"])
        \/ PoolGoes(p, IdlePool)
    BY <1>1 DEF PoolStart
  <2>4. CASE Active(poolCache[p]) /\ PoolGoes(p, start)
    <3>1. PoolShape(start) BY <2>4 DEF PoolShape, Active
    <3> HIDE DEF start
    <3> QED BY <2>1, <2>2, <2>4, <3>1, <1>f, PoolFrame
  <2>5. CASE poolCache[p].exists /\ PoolGoes(p, [start EXCEPT !.pc = "unregister"])
    <3> DEFINE pass == [start EXCEPT !.pc = "unregister"]
    <3>1. PoolShape(pass) /\ pass.obj = poolCache[p] /\ pass.fresh = start.fresh
      BY <2>5 DEF PoolShape
    <3> HIDE DEF start, pass
    <3> QED BY <2>1, <2>2, <2>5, <3>1, <1>f, PoolFrame DEF pass
  <2>6. CASE PoolGoes(p, IdlePool) BY <2>2, <2>6, <1>d, <1>f, PoolFrame
  <2>7. CASE Active(poolCache[p]) /\ PoolGoes(p, AfterStatus(start))
    <3> HIDE DEF start
    <3>1. start.obj.exists BY <2>1, <2>7 DEF Active
    <3>2. HasRanges(AfterStatus(start).obj) /\ PoolShape(AfterStatus(start))
          /\ (AfterStatus(start).fresh => AfterStatus(start).obj = pools[p])
      BY <2>1, <3>1, AfterStatusShape
    <3> QED BY <2>2, <2>7, <3>2, <1>f, PoolFrame
  <2> QED BY <2>3, <2>4, <2>5, <2>6, <2>7
<1>2. CASE PoolRegister(p)
  <2> DEFINE pass == [w EXCEPT !.pc = "status"]
  <2>1. /\ PoolShape(pass) /\ pass.obj = w.obj /\ pass.fresh = w.fresh
    BY <1>2, <1>a DEF PoolRegister, PoolShape, PoolPass
  <2>2. PoolGoes(p, pass) /\ UNCHANGED <<pools, poolCache, poolSynced>>
    BY <1>2 DEF PoolRegister, poolVars
  <2> HIDE DEF pass
  <2> QED BY <2>1, <2>2, <1>a, <1>f, PoolFrame
<1>3. CASE PoolStatus(p)
  <2> DEFINE new == UpdatedStatus(w.obj, w.obj.ranges)
  <2>1. w.obj.exists BY <1>3, <1>a DEF PoolStatus, PoolShape
  <2>2. poolCache' = poolCache BY <1>3 DEF PoolStatus
  <2>3. CASE PoolGoes(p, AfterStatus(w)) /\ UNCHANGED <<pools, poolSynced>>
    <3>1. HasRanges(AfterStatus(w).obj) /\ PoolShape(AfterStatus(w))
          /\ (AfterStatus(w).fresh => AfterStatus(w).obj = pools[p])
      BY <2>1, <1>a, AfterStatusShape
    <3> QED BY <2>2, <2>3, <3>1, <1>f, PoolFrame
  <2>4. CASE \E ok \in BOOLEAN : UpdatePool(p, w.fresh, new, ok) /\ PoolGoes(p, AfterStatus(seen))
    <3>1. PICK ok \in BOOLEAN : UpdatePool(p, w.fresh, new, ok) /\ PoolGoes(p, AfterStatus(seen))
      BY <2>4
    <3>2. (w.obj = pools[p] /\ Admitted(new)) => PoolChange(pools[p], new)
      BY <2>1 DEF PoolChange
    <3>3. HasRanges(AfterStatus(seen).obj) /\ PoolShape(AfterStatus(seen))
          /\ (AfterStatus(seen).fresh => AfterStatus(seen).obj = pools'[p])
      BY <2>1, <1>a, <1>c, <1>e, AfterStatusShape
    <3> HIDE DEF new
    <3>4. /\ PoolChange(pools[p], pools'[p])
          /\ \A x \in Pools : x # p => pools'[x] = pools[x]
          /\ \A x \in Pools : poolSynced'[x] => (poolSynced[x] /\ pools'[x] = pools[x])
      BY <3>1, <3>2, <1>a, UpdatePoolChange
    <3> QED BY <2>2, <3>1, <3>3, <3>4, PoolFrame
  <2>5. \/ PoolGoes(p, AfterStatus(w)) /\ UNCHANGED <<pools, poolSynced>>
        \/ \E ok \in BOOLEAN : UpdatePool(p, w.fresh, new, ok) /\ PoolGoes(p, AfterStatus(seen))
    BY <1>3 DEF PoolStatus, seen
  <2> QED BY <2>3, <2>4, <2>5
<1>4. CASE PoolManual(p)
  <2>1. \E pc \in {"manualDone", "manualRelease"} : PoolGoes(p, [w EXCEPT !.pc = pc])
    BY <1>4 DEF PoolManual
  <2>2. PICK pc \in {"manualDone", "manualRelease"} : PoolGoes(p, [w EXCEPT !.pc = pc]) BY <2>1
  <2> DEFINE pass == [w EXCEPT !.pc = pc]
  <2>3. PoolShape(pass) /\ pass.obj = w.obj /\ pass.fresh = w.fresh
    BY <1>4, <1>a DEF PoolManual, PoolShape, PoolPass
  <2>4. PoolGoes(p, pass) /\ UNCHANGED <<pools, poolCache, poolSynced>>
    BY <1>4, <2>2 DEF PoolManual, poolVars
  <2> HIDE DEF pass
  <2> QED BY <2>3, <2>4, <1>a, <1>f, PoolFrame
<1>5. CASE PoolManualRelease(p)
  <2> DEFINE done == [seen EXCEPT !.pc = "manualDone"]
  <2>1. w.obj.exists /\ w.obj.release \in IPs \X LBs
    BY <1>5, <1>a DEF PoolManualRelease, PoolShape, Pool
  <2>2. w.obj.release[2] \in LBs BY <2>1
  <2>3. PICK ok \in BOOLEAN : /\ ReleaseByID(p, w.obj.release[2], ok)
                              /\ PoolGoes(p, done) \/ PoolGoes(p, AfterManual(seen))
    BY <1>5 DEF PoolManualRelease, seen
  <2>4. /\ PoolChange(pools[p], pools'[p])
        /\ \A x \in Pools : x # p => pools'[x] = pools[x]
        /\ \A x \in Pools : poolSynced'[x] => (poolSynced[x] /\ pools'[x] = pools[x])
    BY <2>2, <2>3, ReleaseByIDEffect
  <2>5. HasRanges(done.obj) /\ PoolShape(done) /\ (done.fresh => done.obj = pools'[p])
    BY <2>1, <1>a, <1>c, <1>e DEF PoolPass, PoolShape
  <2>6. HasRanges(AfterManual(seen).obj) /\ PoolShape(AfterManual(seen))
        /\ (AfterManual(seen).fresh => AfterManual(seen).obj = pools'[p])
    BY <2>1, <1>a, <1>c, <1>e, AfterStatusShape
  <2>7. poolCache' = poolCache BY <1>5 DEF PoolManualRelease
  <2> HIDE DEF done
  <2> QED BY <2>3, <2>4, <2>5, <2>6, <2>7, PoolFrame
<1>6. CASE PoolManualDone(p)
  <2> DEFINE new == [w.obj EXCEPT !.release = None]
             done == [w EXCEPT !.obj = new]
  <2>1. w.obj.exists BY <1>6, <1>a DEF PoolManualDone, PoolShape
  <2>2. new.exists /\ HasRanges(new) /\ Edited(w.obj, new) /\ new \in Pool
    BY <2>1, <1>a DEF Pool, HasRanges, Edited, InRange, Active
  <2>3. PICK ok \in BOOLEAN : /\ UpdatePool(p, w.fresh, new, ok)
                              /\ PoolGoes(p, AfterManual(IF ok THEN done ELSE seen))
    BY <1>6 DEF PoolManualDone, seen
  <2>4. poolCache' = poolCache BY <1>6 DEF PoolManualDone
  <2> HIDE DEF new
  <2>5. done \in PoolPass /\ done.obj = new BY <2>2, <1>a DEF PoolPass
  <2>6. ok => pools'[p] = new BY <2>3, <1>a, UpdatePoolEffect
  <2>7. (w.obj = pools[p] /\ Admitted(new)) => PoolChange(pools[p], new) BY <2>2 DEF PoolChange
  <2>8. /\ PoolChange(pools[p], pools'[p])
        /\ \A x \in Pools : x # p => pools'[x] = pools[x]
        /\ \A x \in Pools : poolSynced'[x] => (poolSynced[x] /\ pools'[x] = pools[x])
    BY <2>3, <2>7, <1>a, UpdatePoolChange
  <2> DEFINE from == IF ok THEN done ELSE seen
             pass == AfterManual(from)
  <2>9. from \in PoolPass /\ from.obj.exists /\ HasRanges(from.obj) /\ (from.fresh => from.obj = pools'[p])
    BY <2>1, <2>2, <2>5, <2>6, <1>a, <1>c, <1>e
  <2> HIDE DEF from, done
  <2>10. HasRanges(pass.obj) /\ PoolShape(pass) /\ (pass.fresh => pass.obj = pools'[p])
    BY <2>9, AfterStatusShape
  <2>11. PoolGoes(p, pass) BY <2>3 DEF from, done
  <2> HIDE DEF pass
  <2> QED BY <2>4, <2>8, <2>10, <2>11, PoolFrame
<1>7. CASE PoolAddFinalizer(p)
  <2> DEFINE new == [w.obj EXCEPT !.finalizer = TRUE]
  <2>1. Edited(w.obj, new) BY <1>a DEF Pool, HasRanges, Edited, InRange, Active
  <2>2. PICK ok \in BOOLEAN : UpdatePool(p, w.fresh, new, ok) BY <1>7 DEF PoolAddFinalizer
  <2>3. PoolGoes(p, IdlePool) /\ poolCache' = poolCache BY <1>7 DEF PoolAddFinalizer
  <2>4. (w.obj = pools[p] /\ Admitted(new)) => PoolChange(pools[p], new) BY <2>1 DEF PoolChange
  <2> HIDE DEF new
  <2> QED BY <2>2, <2>3, <2>4, <1>a, <1>d, UpdatePoolChange, PoolFrame
<1>8. CASE PoolUnregister(p)
  <2> DEFINE pass == [w EXCEPT !.pc = "removeFinalizer"]
  <2>1. PoolShape(pass) /\ pass.obj = w.obj /\ pass.fresh = w.fresh
    BY <1>8, <1>a DEF PoolUnregister, PoolShape, PoolPass
  <2>2. PoolGoes(p, pass) /\ UNCHANGED <<pools, poolCache, poolSynced>>
    BY <1>8 DEF PoolUnregister, poolVars
  <2> HIDE DEF pass
  <2> QED BY <2>1, <2>2, <1>a, <1>f, PoolFrame
<1>9. CASE PoolRemoveFinalizer(p)
  <2>1. Emptied(NoPool) BY DEF Emptied, NoPool, HasRanges
  <2>2. PICK ok \in BOOLEAN : UpdatePool(p, w.fresh, NoPool, ok) BY <1>9 DEF PoolRemoveFinalizer
  <2>3. PoolGoes(p, IdlePool) /\ poolCache' = poolCache BY <1>9 DEF PoolRemoveFinalizer
  <2>4. PoolChange(pools[p], NoPool) BY <2>1 DEF PoolChange
  <2> QED BY <2>2, <2>3, <2>4, <1>a, <1>d, UpdatePoolChange, PoolFrame
<1> QED BY <1>1, <1>2, <1>3, <1>4, <1>5, <1>6, <1>7, <1>8, <1>9 DEF PoolWorker

\* A user's write to one pool leaves the others and makes the copies stale.
LEMMA UserWritesPoolFrame ==
    ASSUME TypeOK, Shape, CurrentCopies, NEW op, NEW p \in Pools, NEW new,
           UserWritesPool(op, p, new), PoolChange(pools[p], new)
    PROVE  /\ \A x \in Pools : PoolChange(pools[x], pools'[x])
           /\ CurrentCopies' /\ PoolsShaped'
<1>1. poolWork[p] \in PoolPass BY DEF TypeOK
<1>2. /\ pools'[p] = new /\ \A x \in Pools : x # p => pools'[x] = pools[x]
      /\ ~poolSynced'[p] /\ \A x \in Pools : x # p => poolSynced'[x] = poolSynced[x]
      /\ poolCache' = poolCache
  BY DEF UserWritesPool, TypeOK
<1>3. /\ poolWork'[p].obj = poolWork[p].obj /\ poolWork'[p].pc = poolWork[p].pc
      /\ ~poolWork'[p].fresh
      /\ \A x \in Pools : x # p => poolWork'[x] = poolWork[x]
  BY <1>1 DEF UserWritesPool, TypeOK, PoolPass
<1>4. \A x \in Pools : PoolChange(pools[x], pools'[x]) BY <1>2 DEF PoolChange
<1>5. CurrentCopies' BY <1>2, <1>3 DEF CurrentCopies
<1>6. PoolsShaped' BY <1>2, <1>3 DEF PoolsShaped, Shape, PoolShape
<1> QED BY <1>4, <1>5, <1>6

\* Users change pools as PoolChange says.
LEMMA OutsidePoolStep ==
    ASSUME TypeOK, Shape, CurrentCopies, NEW p \in Pools,
           CreatePool(p) \/ EditPool(p) \/ AnnotatePool(p) \/ DeletePool(p)
    PROVE  /\ \A x \in Pools : PoolChange(pools[x], pools'[x])
           /\ CurrentCopies' /\ PoolsShaped'
<1>1. pools[p] \in Pool BY DEF TypeOK
<1>2. RangeChoices[p] \subseteq RangeSets BY DEF RangeSets
<1>3. CASE CreatePool(p)
  <2>1. PICK rs \in RangeChoices[p] :
          UserWritesPool("createPool", p, [NoPool EXCEPT !.exists = TRUE, !.ranges = rs])
    BY <1>3 DEF CreatePool
  <2>2. Emptied([NoPool EXCEPT !.exists = TRUE, !.ranges = rs])
    BY <1>2 DEF Emptied, NoPool, HasRanges
  <2> QED BY <2>1, <2>2, UserWritesPoolFrame DEF PoolChange
<1>4. CASE EditPool(p)
  <2>1. PICK rs \in RangeChoices[p] :
          /\ Admitted([pools[p] EXCEPT !.ranges = rs])
          /\ UserWritesPool("editPool", p, [pools[p] EXCEPT !.ranges = rs])
    BY <1>4 DEF EditPool
  <2>2. Edited(pools[p], [pools[p] EXCEPT !.ranges = rs])
    BY <1>1, <1>2, <2>1 DEF Edited, Pool, HasRanges, InRange, Admitted, Active
  <2> QED BY <2>1, <2>2, UserWritesPoolFrame DEF PoolChange
<1>5. CASE AnnotatePool(p)
  <2>1. PICK ip \in IPs, id \in LBs :
          UserWritesPool("annotatePool", p, [pools[p] EXCEPT !.release = <<ip, id>>])
    BY <1>5 DEF AnnotatePool
  <2>2. \A r : Edited(pools[p], [pools[p] EXCEPT !.release = r])
    BY <1>1 DEF Edited, Pool, HasRanges, InRange, Active
  <2> QED BY <2>1, <2>2, UserWritesPoolFrame DEF PoolChange
<1>6. CASE DeletePool(p)
  <2>1. Edited(pools[p], [pools[p] EXCEPT !.deleting = TRUE])
    BY <1>1 DEF Edited, Pool, HasRanges, InRange, Active
  <2>2. Emptied(NoPool) BY DEF Emptied, NoPool, HasRanges
  <2> QED BY <1>6, <2>1, <2>2, UserWritesPoolFrame DEF PoolChange, DeletePool
<1> QED BY <1>3, <1>4, <1>5, <1>6

\* Whatever step is taken, by whichever worker and from whatever copy, every
\* pool object changes in one of the ways PoolChange lists.
LEMMA PoolStep ==
    ASSUME TypeOK, Shape, CurrentCopies, [Next]_vars
    PROVE  /\ \A x \in Pools : PoolChange(pools[x], pools'[x])
           /\ CurrentCopies' /\ PoolsShaped'
<1>1. CASE UNCHANGED <<poolVars, poolWork>>
  BY <1>1 DEF poolVars, PoolChange, CurrentCopies, PoolsShaped, Shape
<1>2. ASSUME NEW p \in Pools, SyncPool(p)
      PROVE  /\ \A x \in Pools : PoolChange(pools[x], pools'[x])
             /\ CurrentCopies' /\ PoolsShaped'
  <2>1. poolCache'[p] = pools[p] /\ \A x \in Pools : x # p => poolCache'[x] = poolCache[x]
    BY <1>2 DEF SyncPool, TypeOK
  <2>2. \A x \in Pools : x # p => poolSynced'[x] = poolSynced[x] BY <1>2 DEF SyncPool, TypeOK
  <2>3. UNCHANGED <<pools, poolWork>> BY <1>2 DEF SyncPool
  <2> QED BY <2>1, <2>2, <2>3 DEF PoolChange, CurrentCopies, PoolsShaped, Shape
<1>3. CASE Restart
  <2>1. ~IdlePool.fresh /\ HasRanges(IdlePool.obj) /\ PoolShape(IdlePool)
    BY DEF IdlePool, NoPool, HasRanges, PoolShape
  <2>2. /\ UNCHANGED pools /\ poolCache' = pools
        /\ \A p \in Pools : poolWork'[p] = IdlePool
    BY <1>3 DEF Restart
  <2> QED BY <2>1, <2>2 DEF PoolChange, CurrentCopies, PoolsShaped, Shape
<1>4. ASSUME NEW l \in LBs, CreateLB(l) \/ EditLB(l) \/ DeleteLB(l) \/ LBEnqueue(l) \/ SyncLB(l)
      PROVE  UNCHANGED <<poolVars, poolWork>>
  BY <1>4 DEF CreateLB, EditLB, DeleteLB, LBEnqueue, SyncLB, UserWritesLB
<1>5. CASE UNCHANGED vars BY <1>1, <1>5 DEF vars, poolVars
<1> QED BY <1>1, <1>2, <1>3, <1>4, <1>5, LBPoolStep, PoolPoolStep, OutsidePoolStep DEF Next, Outside

\* Every pool object keeps having ranges.
LEMMA HasRangesStep ==
    ASSUME NEW old \in Pool, NEW new, HasRanges(old), PoolChange(old, new)
    PROVE  HasRanges(new)
<1>1. ASSUME NEW ip \in IPs, NEW id \in LBs, new = Reserved(old, ip, id) PROVE HasRanges(new)
  BY <1>1 DEF Reserved, HasRanges, Pool
<1>2. ASSUME NEW ip \in IPs, new = Released(old, ip) PROVE HasRanges(new)
  BY <1>2 DEF Released, HasRanges, Pool
<1>3. ASSUME new = UpdatedStatus(old, old.ranges) PROVE HasRanges(new)
  BY <1>3 DEF UpdatedStatus, HasRanges, Pool
<1> QED BY <1>1, <1>2, <1>3 DEF PoolChange, Edited, Emptied

\* Only a load balancer's worker, its user and a restart touch its pass.
LEMMA LBShapeStep ==
    ASSUME TypeOK, Shape, [Next]_vars
    PROVE  \A x \in LBs : LBShape(lbWork'[x])
<1>1. CASE UNCHANGED lbWork BY <1>1 DEF Shape
<1>2. ASSUME NEW op, NEW l \in LBs, NEW new, UserWritesLB(op, l, new)
      PROVE  \A x \in LBs : LBShape(lbWork'[x])
  <2>1. lbWork[l] \in LBPass BY DEF TypeOK
  <2>2. LBShape([lbWork[l] EXCEPT !.fresh = FALSE]) BY <2>1 DEF Shape, LBShape, LBPass
  <2>3. LBGoes(l, [lbWork[l] EXCEPT !.fresh = FALSE]) BY <1>2 DEF UserWritesLB, LBGoes
  <2> QED BY <2>2, <2>3, LBGoesShape
<1>3. ASSUME NEW l \in LBs, CreateLB(l) \/ EditLB(l) \/ DeleteLB(l) \/ LBEnqueue(l) \/ SyncLB(l)
      PROVE  \A x \in LBs : LBShape(lbWork'[x])
  <2>1. CASE LBEnqueue(l) \/ SyncLB(l) BY <1>1, <2>1 DEF LBEnqueue, SyncLB
  <2>2. CASE CreateLB(l) \/ EditLB(l) \/ DeleteLB(l)
    BY <1>2, <2>2 DEF CreateLB, EditLB, DeleteLB
  <2> QED BY <1>3, <2>1, <2>2
<1>4. ASSUME NEW p \in Pools,
             \/ PoolWorker(p) \/ SyncPool(p)
             \/ CreatePool(p) \/ EditPool(p) \/ AnnotatePool(p) \/ DeletePool(p)
      PROVE  UNCHANGED lbWork
  BY <1>4 DEF PoolWorker, PoolStart, PoolRegister, PoolStatus, PoolManual, PoolManualRelease,
              PoolManualDone, PoolAddFinalizer, PoolUnregister, PoolRemoveFinalizer, SyncPool,
              CreatePool, EditPool, AnnotatePool, DeletePool, UserWritesPool
<1>5. CASE Restart BY <1>5 DEF Restart, IdleLB, LBShape
<1>6. CASE UNCHANGED vars BY <1>1, <1>6 DEF vars
<1> QED BY <1>1, <1>3, <1>4, <1>5, <1>6, LBStepShape DEF Next, Outside

\* Every step keeps the shape.
LEMMA ShapeStep ==
    ASSUME TypeOK, Shape, CurrentCopies, [Next]_vars
    PROVE  Shape'
<1>1. \A p \in Pools : HasRanges(pools'[p])
  BY PoolStep, HasRangesStep DEF Shape, TypeOK
<1> QED BY <1>1, PoolStep, LBShapeStep DEF Shape, PoolsShaped

-----------------------------------------------------------------------------
(* The theorems *)

IndInv == TypeOK /\ Shape /\ CurrentCopies

\* The invariant holds initially,
LEMMA IndInit == Init => IndInv
<1> SUFFICES ASSUME Init PROVE IndInv OBVIOUS
<1>1. PICK rs \in [ReadyPools -> RangeSets] :
        pools = [p \in Pools |-> IF p \in ReadyPools THEN ReadyPool(rs[p]) ELSE NoPool]
  BY DEF Init
<1>2. HasRanges(NoPool) /\ \A r \in RangeSets : HasRanges(ReadyPool(r))
  BY DEF HasRanges, NoPool, ReadyPool
<1>3. \A p \in Pools : HasRanges(pools[p]) BY <1>1, <1>2
<1>4. /\ ~IdlePool.fresh /\ HasRanges(IdlePool.obj) /\ PoolShape(IdlePool)
      /\ LBShape(IdleLB)
  BY DEF IdlePool, NoPool, HasRanges, PoolShape, IdleLB, LBShape
<1>5. Shape /\ CurrentCopies BY <1>3, <1>4 DEF Init, Shape, CurrentCopies
<1> QED BY <1>5, TypeInit DEF IndInv

\* and it is inductive.
LEMMA Inductive == Spec => []IndInv
<1>1. IndInv /\ [Next]_vars => IndInv'
  BY TypeStep, ShapeStep, PoolStep DEF IndInv
<1> QED BY <1>1, IndInit, PTL DEF Spec

\* Every variable keeps its type, for every number of load balancers, pools
\* and addresses and whatever the bounds.
THEOREM TypeCorrect == Spec => []TypeOK
<1>1. IndInv => TypeOK BY DEF IndInv
<1> QED BY <1>1, Inductive, PTL

\* The books of one pool.
Balanced(pool) == Int64(pool.available + Cardinality(Keys(pool.allocated))) = pool.total

HistoryFree(pool) == Keys(pool.allocated) \cap Keys(pool.history) = {}

\* What Reserve does to the fields the books are about.
LEMMA ReservedFields ==
    ASSUME NEW old \in Pool, NEW ip \in IPs, NEW id \in LBs
    PROVE  /\ Reserved(old, ip, id).allocated = [old.allocated EXCEPT ![ip] = id]
           /\ Reserved(old, ip, id).history = [old.history EXCEPT ![ip] = None]
           /\ Reserved(old, ip, id).available = Int64(old.available - 1)
           /\ Reserved(old, ip, id).total = old.total
<1>1. old.allocated \in [IPs -> Owners] /\ old.history \in [IPs -> Owners]
  BY DEF Pool
<1> QED BY <1>1 DEF Reserved, Pool

\* What ReleaseByID does to them.
LEMMA ReleasedFields ==
    ASSUME NEW old \in Pool, NEW ip \in IPs
    PROVE  /\ Released(old, ip).allocated = [old.allocated EXCEPT ![ip] = None]
           /\ Released(old, ip).history = [old.history EXCEPT ![ip] = old.allocated[ip]]
           /\ Released(old, ip).available = Int64(old.available + 1)
           /\ Released(old, ip).total = old.total
<1>1. old.allocated \in [IPs -> Owners] /\ old.history \in [IPs -> Owners]
  BY DEF Pool
<1> QED BY <1>1 DEF Released, Pool

\* What updateStatus does to them.
LEMMA StatusFields ==
    ASSUME NEW old \in Pool, NEW rs
    PROVE  /\ UpdatedStatus(old, rs).allocated = old.allocated
           /\ \A ip \in IPs : UpdatedStatus(old, rs).history[ip] \in {old.history[ip], None}
           /\ UpdatedStatus(old, rs).total = Total(rs)
           /\ UpdatedStatus(old, rs).available
                 = Int64(Total(rs) - Cardinality(Keys(old.allocated)))
  BY DEF UpdatedStatus, Pool

\* Granting an address adds one key, ending its lease takes that key away.
LEMMA KeysGrow ==
    ASSUME NEW m \in [IPs -> Owners], NEW ip \in IPs, m[ip] = None, NEW id \in LBs
    PROVE  Cardinality(Keys([m EXCEPT ![ip] = id])) = Cardinality(Keys(m)) + 1
<1>1. Keys([m EXCEPT ![ip] = id]) = Keys(m) \cup {ip} BY IPAMAssumption DEF Keys
<1>2. ip \notin Keys(m) BY DEF Keys
<1> QED BY <1>1, <1>2, KeysFinite, FS_AddElement

\* Releasing an address takes its key away.
LEMMA KeysShrink ==
    ASSUME NEW m \in [IPs -> Owners], NEW ip \in IPs, m[ip] # None
    PROVE  Cardinality(Keys([m EXCEPT ![ip] = None])) = Cardinality(Keys(m)) - 1
<1>1. Keys([m EXCEPT ![ip] = None]) = Keys(m) \ {ip} BY DEF Keys
<1>2. ip \in Keys(m) BY DEF Keys
<1> QED BY <1>1, <1>2, KeysFinite, FS_RemoveElement

\* An empty map has no keys.
LEMMA NoKeys == Keys(NoOwners) = {} /\ Cardinality(Keys(NoOwners)) = 0
<1>1. Keys(NoOwners) = {} BY DEF Keys, NoOwners
<1> QED BY <1>1, FS_EmptySet

\* Nothing wraps around with nothing counted.
LEMMA ZeroIsInt64 == Int64(0) = 0 /\ \A n \in Int64s : Int64(n + 0) = n
<1>1. 0 \in Int64s BY Int64Assumption DEF Int64s
<1>2. \A n \in Int64s : n + 0 = n BY Int64IsInt
<1> QED BY <1>1, <1>2, Int64Same

\* Every change of a pool keeps its counts balanced.
LEMMA BalancedStep ==
    ASSUME NEW old \in Pool, NEW new \in Pool, HasRanges(old), Balanced(old), PoolChange(old, new)
    PROVE  Balanced(new)
<1>0. /\ old.allocated \in [IPs -> Owners] /\ old.available \in Int /\ old.total \in Int
      /\ Cardinality(Keys(old.allocated)) \in Nat
  BY KeysFinite, Int64IsInt DEF Pool
<1> DEFINE a == old.available  k == Cardinality(Keys(old.allocated))
<1>a. a \in Int /\ k \in Int BY <1>0
<1>1. ASSUME NEW ip \in IPs, NEW id \in LBs, old.allocated[ip] = None, new = Reserved(old, ip, id)
      PROVE  Balanced(new)
  <2>1. /\ new.allocated = [old.allocated EXCEPT ![ip] = id]
        /\ new.available = Int64(a - 1) /\ new.total = old.total
    BY <1>0, <1>1 DEF Reserved, Pool
  <2>2. Cardinality(Keys(new.allocated)) = k + 1
    BY <1>0, <1>1, <2>1, KeysGrow
  <2>3. Int64(a + k) = old.total BY DEF Balanced
  <2> HIDE DEF a, k
  <2>4. Int64(Int64(a - 1) + (k + 1)) = Int64((a - 1) + (k + 1)) BY <1>a, Int64Sum
  <2>5. (a - 1) + (k + 1) = a + k BY <1>a
  <2> QED BY <2>1, <2>2, <2>3, <2>4, <2>5 DEF Balanced
<1>2. ASSUME NEW ip \in IPs, old.allocated[ip] # None, new = Released(old, ip)
      PROVE  Balanced(new)
  <2>1. /\ new.allocated = [old.allocated EXCEPT ![ip] = None]
        /\ new.available = Int64(a + 1) /\ new.total = old.total
    BY <1>2, ReleasedFields
  <2>2. Cardinality(Keys(new.allocated)) = k - 1
    BY <1>0, <1>2, <2>1, KeysShrink
  <2>3. Int64(a + k) = old.total BY DEF Balanced
  <2> HIDE DEF a, k
  <2>4. Int64(Int64(a + 1) + (k - 1)) = Int64((a + 1) + (k - 1)) BY <1>a, Int64Sum
  <2>5. (a + 1) + (k - 1) = a + k BY <1>a
  <2> QED BY <2>1, <2>2, <2>3, <2>4, <2>5 DEF Balanced
<1>3. ASSUME old.exists, new = UpdatedStatus(old, old.ranges) PROVE Balanced(new)
  <2> DEFINE t == Total(old.ranges)
  <2>1. t \in Int /\ t \in Int64s BY <1>3, TotalType DEF HasRanges
  <2>2. new.allocated = old.allocated /\ new.total = t /\ new.available = Int64(t - k)
    BY <1>3, StatusFields
  <2> HIDE DEF t, k
  <2>3. Int64(Int64(t - k) + k) = Int64((t - k) + k) BY <1>a, <2>1, Int64Sum
  <2>4. (t - k) + k = t BY <1>a, <2>1
  <2>5. Int64(t) = t BY <2>1, Int64Same
  <2> QED BY <2>2, <2>3, <2>4, <2>5 DEF Balanced, k
<1>4. ASSUME Edited(old, new) PROVE Balanced(new) BY <1>4 DEF Edited, Balanced
<1>5. ASSUME Emptied(new) PROVE Balanced(new) BY <1>5, NoKeys, ZeroIsInt64 DEF Emptied, Balanced
<1> QED BY <1>1, <1>2, <1>3, <1>4, <1>5 DEF PoolChange

\* Every change of a pool keeps the history free of allocated addresses.
LEMMA HistoryFreeStep ==
    ASSUME NEW old \in Pool, NEW new \in Pool, HistoryFree(old), PoolChange(old, new)
    PROVE  HistoryFree(new)
<1>0. /\ old.allocated \in [IPs -> Owners] /\ old.history \in [IPs -> Owners] BY DEF Pool
<1>1. ASSUME NEW ip \in IPs, NEW id \in LBs, new = Reserved(old, ip, id) PROVE HistoryFree(new)
  <2>1. /\ new.allocated = [old.allocated EXCEPT ![ip] = id]
        /\ new.history = [old.history EXCEPT ![ip] = None]
    BY <1>1, ReservedFields
  <2> QED BY <1>0, <2>1 DEF HistoryFree, Keys
<1>2. ASSUME NEW ip \in IPs, new = Released(old, ip) PROVE HistoryFree(new)
  <2>1. /\ new.allocated = [old.allocated EXCEPT ![ip] = None]
        /\ new.history = [old.history EXCEPT ![ip] = old.allocated[ip]]
    BY <1>2, ReleasedFields
  <2> QED BY <1>0, <2>1 DEF HistoryFree, Keys
<1>3. ASSUME new = UpdatedStatus(old, old.ranges) PROVE HistoryFree(new)
  <2>1. /\ new.allocated = old.allocated
        /\ \A ip \in IPs : new.history[ip] \in {old.history[ip], None}
    BY <1>3, StatusFields
  <2> QED BY <1>0, <2>1 DEF HistoryFree, Keys
<1>4. ASSUME Edited(old, new) PROVE HistoryFree(new) BY <1>4 DEF Edited, HistoryFree
<1>5. ASSUME Emptied(new) PROVE HistoryFree(new) BY <1>5, NoKeys DEF Emptied, HistoryFree
<1> QED BY <1>1, <1>2, <1>3, <1>4, <1>5 DEF PoolChange

\* Every change of a pool keeps its allocated addresses in range.
LEMMA InRangeStep ==
    ASSUME NEW old \in Pool, NEW new \in Pool, InRange(old), PoolChange(old, new)
    PROVE  InRange(new)
<1>1. Admitted(new) => InRange(new) BY DEF Admitted, InRange, Active
<1>2. Emptied(new) => InRange(new) BY NoKeys DEF Emptied, InRange
<1> QED BY <1>1, <1>2 DEF PoolChange, Edited

\* The invariants of the books hold together.
Books == \A p \in Pools : Balanced(pools[p]) /\ HistoryFree(pools[p]) /\ InRange(pools[p])

\* The books of the pools are right initially,
LEMMA BooksInit == Init => Books
<1> SUFFICES ASSUME Init, NEW p \in Pools
             PROVE  Balanced(pools[p]) /\ HistoryFree(pools[p]) /\ InRange(pools[p])
  BY DEF Books
<1>1. PICK rs \in [ReadyPools -> RangeSets] :
        pools = [x \in Pools |-> IF x \in ReadyPools THEN ReadyPool(rs[x]) ELSE NoPool]
  BY DEF Init
<1>2. pools[p] = NoPool \/ \E r \in RangeSets : pools[p] = ReadyPool(r) BY <1>1
<1>3. /\ pools[p].allocated = NoOwners /\ pools[p].history = NoOwners
      /\ pools[p].available = pools[p].total /\ pools[p].total \in Int64s
  <2>1. CASE pools[p] = NoPool
    <3>1. 0 \in Int64s BY Int64Assumption DEF Int64s
    <3> QED BY <2>1, <3>1 DEF NoPool
  <2>2. ASSUME NEW r \in RangeSets, pools[p] = ReadyPool(r)
        PROVE  /\ pools[p].allocated = NoOwners /\ pools[p].history = NoOwners
               /\ pools[p].available = pools[p].total /\ pools[p].total \in Int64s
    <3>1. Total(r) \in Int64s BY TotalType
    <3> QED BY <2>2, <3>1 DEF NoPool, ReadyPool
  <2> QED BY <1>2, <2>1, <2>2
<1> QED BY <1>3, NoKeys, ZeroIsInt64 DEF Balanced, HistoryFree, InRange

\* and they stay right.
LEMMA BooksInvariant == Spec => []Books
<1>1. IndInv /\ IndInv' /\ Books /\ [Next]_vars => Books'
  <2> SUFFICES ASSUME IndInv, IndInv', Books, [Next]_vars, NEW p \in Pools
               PROVE  Balanced(pools'[p]) /\ HistoryFree(pools'[p]) /\ InRange(pools'[p])
    BY DEF Books
  <2>1. pools[p] \in Pool /\ pools'[p] \in Pool /\ HasRanges(pools[p])
    BY DEF IndInv, TypeOK, Shape
  <2>2. PoolChange(pools[p], pools'[p]) BY PoolStep DEF IndInv
  <2> QED BY <2>1, <2>2, BalancedStep, HistoryFreeStep, InRangeStep DEF Books
<1> QED BY <1>1, BooksInit, Inductive, PTL DEF Spec

\* The counters of a pool's status add up in every reachable state, although
\* Reserve, ReleaseByID, updateStatus and the manual release each recompute
\* them from a cached copy: the resourceVersion refuses all but current ones.
THEOREM AccountingHolds == Spec => []Accounting
<1>1. Books => Accounting BY DEF Books, Balanced, Accounting
<1> QED BY <1>1, BooksInvariant, PTL

\* No address is both allocated and in the history, so that Allocator.Get never
\* requests an address that Reserve must refuse for being somebody else's.
THEOREM HistoryIsFreeHolds == Spec => []HistoryIsFree
<1>1. Books => HistoryIsFree BY DEF Books, HistoryFree, HistoryIsFree
<1> QED BY <1>1, BooksInvariant, PTL

\* No address of a live pool is allocated outside its ranges, although the
\* allocator may still have the ranges of before an edit.
THEOREM AllocatedInRangeHolds == Spec => []AllocatedInRange
<1>1. Books => AllocatedInRange BY DEF Books, InRange, AllocatedInRange
<1> QED BY <1>1, BooksInvariant, PTL

\* An address that is allocated stays with its owner or becomes free: two
\* searches that both saw it free in the cache cannot both get it.
THEOREM NoStealingHolds == Spec => NoStealing
<1>1. IndInv /\ [Next]_vars =>
        \A p \in Pools, ip \in IPs :
            pools[p].allocated[ip] # None =>
                pools'[p].allocated[ip] \in {None, pools[p].allocated[ip]}
  <2> SUFFICES ASSUME IndInv, [Next]_vars, NEW p \in Pools, NEW ip \in IPs,
                      pools[p].allocated[ip] # None
               PROVE  pools'[p].allocated[ip] \in {None, pools[p].allocated[ip]}
    OBVIOUS
  <2> DEFINE old == pools[p]
             new == pools'[p]
  <2>1. old \in Pool /\ old.allocated \in [IPs -> Owners] BY DEF IndInv, TypeOK, Pool
  <2>2. PoolChange(old, new) BY PoolStep DEF IndInv
  <2> HIDE DEF old, new
  <2>3. ASSUME NEW i \in IPs, NEW id \in LBs, old.allocated[i] = None, new = Reserved(old, i, id)
        PROVE  new.allocated[ip] = old.allocated[ip]
    <3>1. new.allocated = [old.allocated EXCEPT ![i] = id] BY <2>1, <2>3 DEF Reserved, Pool
    <3> QED BY <2>1, <2>3, <3>1 DEF old
  <2>4. ASSUME NEW i \in IPs, new = Released(old, i)
        PROVE  new.allocated[ip] \in {None, old.allocated[ip]}
    <3>1. new.allocated = [old.allocated EXCEPT ![i] = None] BY <2>1, <2>4, ReleasedFields
    <3> QED BY <2>1, <3>1
  <2>5. ASSUME new = UpdatedStatus(old, old.ranges) PROVE new.allocated = old.allocated
    BY <2>1, <2>5, StatusFields
  <2>6. ASSUME Emptied(new) PROVE new.allocated[ip] = None BY <2>6 DEF Emptied, NoOwners
  <2>7. new.allocated[ip] \in {None, old.allocated[ip]}
    BY <2>2, <2>3, <2>4, <2>5, <2>6 DEF PoolChange, Edited
  <2> QED BY <2>7 DEF old, new
<1> QED BY <1>1, Inductive, PTL DEF Spec, NoStealing

-----------------------------------------------------------------------------
(* The pools implement leases *)

\* A step writes at most one pool object.
LEMMA OnePoolStep ==
    ASSUME TypeOK, Shape, [Next]_vars
    PROVE  pools' = pools \/ \E p \in Pools : \E new : pools' = [pools EXCEPT ![p] = new]
<1>1. ASSUME NEW p \in Pools, NEW fresh, NEW new, NEW ok, UpdatePool(p, fresh, new, ok)
      PROVE  pools' = pools \/ pools' = [pools EXCEPT ![p] = new]
  BY <1>1 DEF UpdatePool, WritePool
<1>2. ASSUME NEW p \in Pools, NEW id, NEW ok, ReleaseByID(p, id, ok)
      PROVE  pools' = pools \/ \E new : pools' = [pools EXCEPT ![p] = new]
  BY <1>1, <1>2 DEF ReleaseByID
<1>3. ASSUME NEW l \in LBs, LBWorker(l)
      PROVE  pools' = pools \/ \E p \in Pools : \E new : pools' = [pools EXCEPT ![p] = new]
  <2>1. CASE LBReserve(l)
    <3>1. lbWork[l].pool \in Pools BY <2>1, WorkType DEF LBReserve, LBShape
    <3> QED BY <1>1, <2>1, <3>1 DEF LBReserve
  <2>2. CASE LBRelease(l)
    <3>1. lbWork[l].pool \in Pools BY <2>2, WorkType DEF LBRelease, LBShape
    <3> QED BY <1>2, <2>2, <3>1 DEF LBRelease
  <2>3. CASE LBSkip(l) \/ LBOnRemove(l) \/ LBOnChangeDHCP(l) \/ LBOnChangePool(l)
    BY <2>3 DEF LBSkip, LBOnRemove, LBOnChangeDHCP, LBOnChangePool, LBTake, poolVars
  <2>4. CASE LBSelect(l) \/ LBLookup(l) \/ LBHistory(l) \/ LBGetByID(l) \/ LBGetIter(l)
    BY <2>4 DEF LBSelect, LBLookup, LBHistory, LBGetByID, LBGetIter, poolVars
  <2>5. CASE LBWrite(l) \/ LBAddFinalizer(l) \/ LBRemoveFinalizer(l)
    BY <2>5 DEF LBWrite, LBAddFinalizer, LBRemoveFinalizer, poolVars
  <2> QED BY <1>3, <2>1, <2>2, <2>3, <2>4, <2>5 DEF LBWorker
<1>4. ASSUME NEW p \in Pools, PoolWorker(p)
      PROVE  pools' = pools \/ \E new : pools' = [pools EXCEPT ![p] = new]
  <2>1. CASE PoolStart(p) \/ PoolRegister(p) \/ PoolManual(p) \/ PoolUnregister(p)
    BY <2>1 DEF PoolStart, PoolRegister, PoolManual, PoolUnregister, poolVars
  <2>2. CASE PoolStatus(p) BY <1>1, <2>2 DEF PoolStatus
  <2>3. CASE PoolManualRelease(p) BY <1>2, <2>3 DEF PoolManualRelease
  <2>4. CASE PoolManualDone(p) BY <1>1, <2>4 DEF PoolManualDone
  <2>5. CASE PoolAddFinalizer(p) BY <1>1, <2>5 DEF PoolAddFinalizer
  <2>6. CASE PoolRemoveFinalizer(p) BY <1>1, <2>6 DEF PoolRemoveFinalizer
  <2> QED BY <1>4, <2>1, <2>2, <2>3, <2>4, <2>5, <2>6 DEF PoolWorker
<1>5. ASSUME NEW p \in Pools, CreatePool(p) \/ EditPool(p) \/ AnnotatePool(p) \/ DeletePool(p)
      PROVE  \E new : pools' = [pools EXCEPT ![p] = new]
  BY <1>5 DEF CreatePool, EditPool, AnnotatePool, DeletePool, UserWritesPool
<1>6. ASSUME NEW l \in LBs, CreateLB(l) \/ EditLB(l) \/ DeleteLB(l) \/ LBEnqueue(l) \/ SyncLB(l)
      PROVE  pools' = pools
  BY <1>6 DEF CreateLB, EditLB, DeleteLB, LBEnqueue, SyncLB, UserWritesLB, poolVars
<1>7. ASSUME Restart \/ UNCHANGED vars \/ \E p \in Pools : SyncPool(p) PROVE pools' = pools
  BY <1>7 DEF Restart, vars, SyncPool
<1> QED BY <1>3, <1>4, <1>5, <1>6, <1>7 DEF Next, Outside

\* Every step is a step of the leases or leaves them alone.
LEMMA LeaseStep ==
    ASSUME IndInv, Books, [Next]_vars
    PROVE  [Lease!Next]_(Lease!vars)
<1> DEFINE lease == [p \in Pools |-> pools[p].allocated]
           size  == [p \in Pools |-> pools[p].total]
           room  == [p \in Pools |-> pools[p].available]
<1>1. CASE pools' = pools BY <1>1 DEF Lease!vars
<1>2. ASSUME NEW p \in Pools, NEW any, pools' = [pools EXCEPT ![p] = any]
      PROVE  [Lease!Next]_(Lease!vars)
  <2> DEFINE old == pools[p]
             new == pools'[p]
  <2>1. /\ old \in Pool /\ old.allocated \in [IPs -> Owners] /\ HasRanges(old)
    BY DEF IndInv, TypeOK, Shape, Pool
  <2>2. PoolChange(old, new) BY PoolStep DEF IndInv
  <2>3. \A x \in Pools : x # p => pools'[x] = pools[x] BY <1>2 DEF IndInv, TypeOK
  <2>4. CASE new.allocated = old.allocated /\ new.total = old.total /\ new.available = old.available
    <3>1. lease' = lease /\ size' = size /\ room' = room BY <2>3, <2>4
    <3> QED BY <3>1 DEF Lease!vars
  <2>5. ASSUME NEW ip \in IPs, NEW id \in LBs, old.allocated[ip] = None, new = Reserved(old, ip, id)
        PROVE  Lease!Grant(p, ip, id)
    <3>1. /\ new.allocated = [old.allocated EXCEPT ![ip] = id]
          /\ new.total = old.total /\ new.available = Int64(old.available - 1)
      BY <2>1, <2>5 DEF Reserved, Pool
    <3>2. lease' = [lease EXCEPT ![p][ip] = id] BY <2>1, <2>3, <3>1
    <3>3. size' = size BY <2>3, <3>1
    <3>4. room' = [room EXCEPT ![p] = Int64(@ - 1)] BY <2>3, <3>1
    <3> QED BY <2>5, <3>2, <3>3, <3>4 DEF Lease!Grant, Lease!Int64, Int64
  <2>6. ASSUME NEW ip \in IPs, old.allocated[ip] # None, new = Released(old, ip)
        PROVE  Lease!End(p, ip)
    <3>1. /\ new.allocated = [old.allocated EXCEPT ![ip] = None]
          /\ new.total = old.total /\ new.available = Int64(old.available + 1)
      BY <2>1, <2>6 DEF Released, Pool
    <3>2. lease' = [lease EXCEPT ![p][ip] = None] BY <2>1, <2>3, <3>1
    <3>3. size' = size BY <2>3, <3>1
    <3>4. room' = [room EXCEPT ![p] = Int64(@ + 1)] BY <2>3, <3>1
    <3> QED BY <2>6, <3>2, <3>3, <3>4 DEF Lease!End, Lease!Int64, Int64
  <2>7. ASSUME old.exists, new = UpdatedStatus(old, old.ranges)
        PROVE  \E n \in {Total(rs) : rs \in RangeSets} \cup {0} : Lease!Resize(p, n)
    <3>1. /\ new.allocated = old.allocated
          /\ new.total = Total(old.ranges)
          /\ new.available = Int64(Total(old.ranges) - Cardinality(Keys(old.allocated)))
      BY <2>1, <2>7, StatusFields
    <3>2. old.ranges \in RangeSets BY <2>1, <2>7 DEF HasRanges
    <3>a. PICK n : n = Total(old.ranges) OBVIOUS
    <3>3. n \in {Total(rs) : rs \in RangeSets} \cup {0} /\ n \in Int
      BY <3>a, <3>2, TotalType
    <3>4. new.available = Int64(old.available + n - old.total)
      <4> DEFINE a == old.available  k == Cardinality(Keys(old.allocated))  t == old.total
      <4>1. k \in Int /\ a \in Int /\ t \in Int /\ t = Int64(a + k)
        BY <2>1, KeysFinite, Int64IsInt DEF Pool, Books, Balanced
      <4>2. new.available = Int64(n - k) BY <3>a, <3>1
      <4> HIDE DEF a, k, t
      <4>3. PICK q \in Int : (a + k) - t = (2 * Int64Limit) * q BY <4>1, Int64Differ
      <4>4. (a + n - t) - (n - k) = (2 * Int64Limit) * q
        <5>1. (a + n - t) - (n - k) = (a + k) - t BY <3>3, <4>1
        <5> QED BY <4>3, <5>1
      <4>5. a + n - t \in Int /\ n - k \in Int BY <3>3, <4>1
      <4>6. Int64(a + n - t) = Int64(n - k) BY <4>4, <4>5, Int64Congruent
      <4> QED BY <4>2, <4>6 DEF a, t
    <3>5. new.total = n BY <3>a, <3>1
    <3>6. lease' = lease BY <2>3, <3>1
    <3>7. size' = [size EXCEPT ![p] = n] BY <2>3, <3>5
    <3>8. room' = [room EXCEPT ![p] = Int64(@ + n - size[p])] BY <2>3, <3>4
    <3>9. Lease!Resize(p, n) BY <3>6, <3>7, <3>8 DEF Lease!Resize, Lease!Int64, Int64
    <3> QED BY <3>3, <3>9
  <2>8. ASSUME Emptied(new) PROVE Lease!Drop(p)
    <3>1. lease' = [lease EXCEPT ![p] = NoOwners] BY <2>3, <2>8 DEF Emptied
    <3>2. size' = [size EXCEPT ![p] = 0] BY <2>3, <2>8 DEF Emptied
    <3>3. room' = [room EXCEPT ![p] = 0] BY <2>3, <2>8 DEF Emptied
    <3> QED BY <3>1, <3>2, <3>3 DEF Lease!Drop, NoOwners
  <2> HIDE DEF old, new
  <2>9. \/ new.allocated = old.allocated /\ new.total = old.total /\ new.available = old.available
        \/ \E ip \in IPs, id \in LBs : Lease!Grant(p, ip, id)
        \/ \E ip \in IPs : Lease!End(p, ip)
        \/ \E n \in {Total(rs) : rs \in RangeSets} \cup {0} : Lease!Resize(p, n)
        \/ Lease!Drop(p)
    BY <2>2, <2>5, <2>6, <2>7, <2>8 DEF PoolChange, Edited
  <2> QED BY <2>4, <2>9 DEF Lease!Next
<1> QED BY <1>1, <1>2, OnePoolStep DEF IndInv

\* Every initial state is one of the leases.
LEMMA LeaseInit == Init => Lease!Init
<1> SUFFICES ASSUME Init PROVE Lease!Init OBVIOUS
<1>1. PICK rs \in [ReadyPools -> RangeSets] :
        pools = [x \in Pools |-> IF x \in ReadyPools THEN ReadyPool(rs[x]) ELSE NoPool]
  BY DEF Init
<1>2. ASSUME NEW p \in Pools
      PROVE  /\ pools[p].allocated = NoOwners /\ pools[p].available = pools[p].total
             /\ pools[p].total \in {Total(r) : r \in RangeSets} \cup {0}
  <2>1. CASE pools[p] = NoPool BY <2>1 DEF NoPool
  <2>2. CASE p \in ReadyPools
    <3>1. pools[p] = ReadyPool(rs[p]) /\ rs[p] \in RangeSets BY <1>1, <2>2
    <3> QED BY <3>1 DEF NoPool, ReadyPool
  <2> QED BY <1>1, <2>1, <2>2
<1> QED BY <1>2 DEF Lease!Init, NoOwners

\* The caches, versions, queues and workers of the controllers, hidden behind
\* the status of the pool objects, implement leases: every reachable write is a
\* grant of a free address, the end of one lease, a resize or a drop.
THEOREM LeasesImplemented == Spec => ImplementsLeases
<1>1. IndInv /\ Books /\ [Next]_vars => [Lease!Next]_(Lease!vars) BY LeaseStep
<1> QED BY <1>1, LeaseInit, Inductive, BooksInvariant, PTL DEF Spec, ImplementsLeases, Lease!Spec
=============================================================================
