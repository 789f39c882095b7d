-------------------------- MODULE IPAMBookingProofs -------------------------
(***************************************************************************)
(* An address is kept in two objects, the status of a load balancer and    *)
(* the books of a pool. These are the proofs about the two together, for   *)
(* any number of load balancers, pools and addresses, with informers that  *)
(* lag, failing calls, edits by users and administrators, and restarts.    *)
(*                                                                         *)
(* That a status gives up an address before it takes another holds         *)
(* whatever happens (StatusInv). That the two objects agree does not, and  *)
(* the history variable raced says of each load balancer which races it    *)
(* was in. The theorems are about every load balancer that was spared the  *)
(* races they name, whatever happened to the others; all the rest, lost    *)
(* answers of Updates above all, goes on.                                  *)
(*                                                                         *)
(* Moves is common to all: a step grants an address nobody has, frees one  *)
(* of the load balancer at work, frees one by hand, drops a pool or tidies *)
(* up, and the last but one and the manual release are remembered as races *)
(* of the load balancers they hit (HolderStep).                            *)
(***************************************************************************)
EXTENDS IPAMProofs

-----------------------------------------------------------------------------
(* Addresses in the status of load balancers *)

\* Copies of a load balancer that count as current are the current object; a
\* pass over a current copy that has written nothing yet has a current cache.
LBCopies ==
    \A l \in LBs :
        /\ lbSynced[l] => lbCache[l] = lbs[l]
        /\ lbWork[l].fresh => lbWork[l].obj = lbs[l]
        /\ lbWork[l].fresh /\ lbWork[l].pc # "addFinalizer" => lbSynced[l]

\* A load balancer with DHCP has no address of a pool, and only one that exists
\* is being deleted.
LBObject(o) ==
    /\ o.ipam = "dhcp" => o.addr.pool = None
    /\ o.deleting => o.exists

Searching == {"select", "history", "getByID", "getIter", "request", "reserve"}

\* An address is only looked for, or a duplicate released, for a load balancer
\* without one; it is released when its pool was changed or on removal; and the
\* status that a pass writes takes an address, keeps it or gives it up.
LBIntent(w) ==
    /\ w.pc \in Searching => w.goal \in {"get", "dup"}
    /\ (w.pc \in Searching \cup {"lookup", "release"} /\ w.goal \in {"get", "dup"})
          => w.obj.addr.pool = None /\ w.obj.ipam # "dhcp"
    /\ (w.pc \in {"lookup", "release"} /\ w.goal = "change") => PoolChanged(w.obj)
    /\ (w.pc \in {"lookup", "release"} /\ w.goal = "remove")
          => w.obj.deleting /\ w.pool = w.obj.addr.pool
    /\ w.pc = "write" => /\ w.obj.addr.pool = None \/ w.addr \in {w.obj.addr, NoAddress}
                         /\ w.obj.ipam = "dhcp" => w.addr.pool = None

Intents ==
    \A l \in LBs : /\ LBObject(lbs[l]) /\ LBObject(lbCache[l]) /\ LBObject(lbWork[l].obj)
                   /\ LBIntent(lbWork[l])

StatusInv == LBCopies /\ Intents

\* The part of StatusInv that is about one pass over load balancer l.
PassOK(l, w) ==
    /\ w.fresh => w.obj = lbs[l]
    /\ w.fresh /\ w.pc # "addFinalizer" => lbSynced[l]
    /\ LBObject(w.obj) /\ LBIntent(w)

\* The pass that a worker has,
LEMMA PassIsOK ==
    ASSUME StatusInv, NEW l \in LBs
    PROVE  PassOK(l, lbWork[l]) /\ LBObject(lbs[l]) /\ LBObject(lbCache[l])
  BY DEF StatusInv, LBCopies, Intents, PassOK

\* and no pass.
LEMMA IdleIsOK ==
    ASSUME NEW l
    PROVE  PassOK(l, IdleLB) /\ LBObject(NoLB)
  BY DEF PassOK, LBObject, LBIntent, IdleLB, NoLB, NoAddress, Searching

\* A step that writes no load balancer and goes on with such a pass.
LEMMA StatusFrame ==
    ASSUME TypeOK, StatusInv, UNCHANGED lbVars, NEW l \in LBs, NEW w, LBGoes(l, w), PassOK(l, w)
    PROVE  StatusInv'
<1>1. lbWork'[l] = w /\ \A x \in LBs : x # l => lbWork'[x] = lbWork[x] BY DEF LBGoes, TypeOK
<1>2. LBCopies' BY <1>1 DEF LBCopies, StatusInv, PassOK, lbVars
<1>3. Intents' BY <1>1 DEF Intents, StatusInv, PassOK, lbVars
<1> QED BY <1>2, <1>3 DEF StatusInv

\* A pass ends with the write of an address that the load balancer may be given.
LEMMA FinishIsOK ==
    ASSUME TypeOK, StatusInv, UNCHANGED lbVars, NEW l \in LBs, NEW w,
           PassOK(l, w), w.pc # "addFinalizer", NEW ad, NEW c, LBFinishes(l, w, ad, c),
           w.obj.addr.pool = None \/ ad \in {w.obj.addr, NoAddress},
           w.obj.ipam = "dhcp" => ad.pool = None
    PROVE  StatusInv'
<1> DEFINE write == [IdleLB EXCEPT !.pc = "write", !.obj = w.obj, !.fresh = w.fresh,
                                   !.addr = ad, !.cond = c]
           add == [IdleLB EXCEPT !.pc = "addFinalizer", !.obj = w.obj, !.fresh = w.fresh]
<1>1. write.pc = "write" /\ write.obj = w.obj /\ write.fresh = w.fresh /\ write.addr = ad
  BY DEF IdleLB
<1>2. add.pc = "addFinalizer" /\ add.obj = w.obj /\ add.fresh = w.fresh BY DEF IdleLB
<1>3. LBGoes(l, write) \/ LBGoes(l, add) \/ LBGoes(l, IdleLB) BY DEF LBFinishes, AfterChange
<1> HIDE DEF write, add
<1>4. PassOK(l, write) BY <1>1 DEF PassOK, LBIntent, Searching
<1>5. PassOK(l, add) BY <1>2 DEF PassOK, LBIntent, Searching
<1> QED BY <1>3, <1>4, <1>5, IdleIsOK, StatusFrame

\* handleError keeps the address.
LEMMA FailIsOK ==
    ASSUME TypeOK, StatusInv, UNCHANGED lbVars, NEW l \in LBs, lbWork[l].pc # "addFinalizer",
           LBFails(l) \/ LBGivesUp(l)
    PROVE  StatusInv'
<1>1. CASE LBFails(l) BY <1>1, PassIsOK, FinishIsOK DEF LBFails, PassOK, LBObject
<1>2. CASE LBGivesUp(l) BY <1>2, IdleIsOK, StatusFrame DEF LBGivesUp
<1> QED BY <1>1, <1>2

\* The pass that starts from the cached object, before it has a purpose.
LEMMA TakenIsOK ==
    ASSUME TypeOK, StatusInv, NEW l \in LBs
    PROVE  /\ LBTaken(l).pc = "idle" /\ LBTaken(l).goal = "get"
           /\ LBTaken(l).obj = lbCache[l] /\ LBTaken(l).fresh = lbSynced[l]
           /\ LBTaken(l) \in LBPass
           /\ PassOK(l, LBTaken(l))
<1>1. /\ LBTaken(l).pc = "idle" /\ LBTaken(l).goal = "get"
      /\ LBTaken(l).obj = lbCache[l] /\ LBTaken(l).fresh = lbSynced[l]
  BY DEF LBTaken, IdleLB
<1>2. lbSynced[l] => lbCache[l] = lbs[l] BY DEF StatusInv, LBCopies
<1>3. LBTaken(l) \in LBPass BY LBTakenType
<1> QED BY <1>1, <1>2, <1>3, PassIsOK DEF PassOK, LBIntent, Searching

\* The start of a pass keeps the invariant,
LEMMA StartKeepsStatus ==
    ASSUME TypeOK, Shape, StatusInv, NEW l \in LBs,
           LBSkip(l) \/ LBOnRemove(l) \/ LBOnChangeDHCP(l) \/ LBOnChangePool(l)
    PROVE  StatusInv'
<1> DEFINE t == LBTaken(l)
           obj == lbCache[l]
<1>0. /\ t.pc = "idle" /\ t.goal = "get" /\ t.obj = obj /\ t.fresh = lbSynced[l]
      /\ t \in LBPass /\ PassOK(l, t)
  BY TakenIsOK
<1>00. UNCHANGED lbVars BY DEF LBSkip, LBOnRemove, LBOnChangeDHCP, LBOnChangePool, LBTake
<1>1. CASE LBSkip(l) BY <1>1, <1>00, IdleIsOK, StatusFrame DEF LBSkip
<1>2. CASE LBOnRemove(l)
  <2> DEFINE rm == [t EXCEPT !.pc = "lookup", !.goal = "remove", !.pool = obj.addr.pool]
             fin == [t EXCEPT !.pc = "removeFinalizer"]
  <2>1. LBGoes(l, rm) \/ LBGoes(l, fin) BY <1>2 DEF LBOnRemove
  <2>2. obj.deleting BY <1>2 DEF LBOnRemove
  <2>3. rm.pc = "lookup" /\ rm.goal = "remove" /\ rm.pool = obj.addr.pool
        /\ rm.obj = t.obj /\ rm.fresh = t.fresh
    BY <1>0 DEF LBPass
  <2>4. fin.pc = "removeFinalizer" /\ fin.obj = t.obj /\ fin.fresh = t.fresh BY <1>0 DEF LBPass
  <2> HIDE DEF rm, fin, t, obj
  <2>5. PassOK(l, rm) BY <1>0, <2>2, <2>3 DEF PassOK, LBIntent, Searching
  <2>6. PassOK(l, fin) BY <1>0, <2>4 DEF PassOK, LBIntent, Searching
  <2> QED BY <1>00, <2>1, <2>5, <2>6, StatusFrame
<1>3. CASE LBOnChangeDHCP(l)
  <2>1. LBFinishes(l, t, DHCPAddress, "True") /\ obj.ipam = "dhcp" BY <1>3 DEF LBOnChangeDHCP
  <2>2. DHCPAddress.pool = None BY DEF DHCPAddress
  <2> HIDE DEF t, obj
  <2> QED BY <1>0, <1>00, <2>1, <2>2, FinishIsOK DEF PassOK, LBObject
<1>4. CASE LBOnChangePool(l)
  <2> DEFINE first == IF obj.pool = None THEN "select" ELSE "lookup"
             change == [t EXCEPT !.pc = "lookup", !.goal = "change", !.pool = obj.addr.pool]
             get == [t EXCEPT !.pc = first, !.pool = obj.pool]
  <2>1. \/ PoolChanged(obj) /\ LBGoes(l, change)
        \/ LBFinishes(l, t, obj.addr, "True")
        \/ obj.addr.pool = None /\ LBGoes(l, get)
    BY <1>4 DEF LBOnChangePool
  <2>2. obj.ipam # "dhcp" BY <1>4 DEF LBOnChangePool
  <2>3. change.pc = "lookup" /\ change.goal = "change" /\ change.obj = t.obj /\ change.fresh = t.fresh
    BY <1>0 DEF LBPass
  <2>4. get.pc \in {"select", "lookup"} /\ get.goal = "get" /\ get.obj = t.obj /\ get.fresh = t.fresh
    BY <1>0 DEF LBPass
  <2> HIDE DEF change, get, first, t, obj
  <2>5. PoolChanged(obj) => PassOK(l, change) BY <1>0, <2>3 DEF PassOK, LBIntent, Searching
  <2>6. obj.addr.pool = None => PassOK(l, get) BY <1>0, <2>2, <2>4 DEF PassOK, LBIntent, Searching
  <2>7. ASSUME LBFinishes(l, t, obj.addr, "True") PROVE StatusInv'
    BY <1>0, <1>00, <2>2, <2>7, FinishIsOK
  <2> QED BY <1>00, <2>1, <2>5, <2>6, <2>7, StatusFrame
<1> QED BY <1>1, <1>2, <1>3, <1>4


\* and so do the steps of a pass that read caches and change pools.
LEMMA SearchKeepsStatus ==
    ASSUME TypeOK, Shape, StatusInv, NEW l \in LBs,
           \/ LBSelect(l) \/ LBLookup(l) \/ LBHistory(l) \/ LBGetByID(l) \/ LBGetIter(l)
           \/ LBReserve(l) \/ LBRelease(l)
    PROVE  StatusInv'
<1> DEFINE w == lbWork[l]
<1>0. w \in LBPass /\ PassOK(l, w) BY PassIsOK DEF TypeOK
<1>00. UNCHANGED lbVars
  BY DEF LBSelect, LBLookup, LBHistory, LBGetByID, LBGetIter, LBReserve, LBRelease
<1>000. w.pc # "addFinalizer"
  BY DEF LBSelect, LBLookup, LBHistory, LBGetByID, LBGetIter, LBReserve, LBRelease
<1>a. ASSUME LBFails(l) \/ LBGivesUp(l) PROVE StatusInv' BY <1>a, <1>00, <1>000, FailIsOK
<1>b. ASSUME NEW next, LBGoes(l, next), next.obj = w.obj, next.fresh = w.fresh,
             next.pc # "addFinalizer", LBIntent(next)
      PROVE  StatusInv'
  <2>1. PassOK(l, next) BY <1>0, <1>000, <1>b DEF PassOK
  <2> QED BY <2>1, <1>b, <1>00, StatusFrame
<1>c. ASSUME NEW ad, LBSucceeds(l, ad),
             w.obj.addr.pool = None \/ ad \in {w.obj.addr, NoAddress},
             w.obj.ipam = "dhcp" => ad.pool = None
      PROVE  StatusInv'
  <2> HIDE DEF w
  <2> QED BY <1>0, <1>00, <1>000, <1>c, FinishIsOK DEF LBSucceeds, w
<1>1. CASE LBSelect(l)
  <2>1. ASSUME NEW p, LBGoes(l, [w EXCEPT !.pc = "lookup", !.pool = p]) PROVE StatusInv'
    <3> DEFINE next == [w EXCEPT !.pc = "lookup", !.pool = p]
    <3>1. next.pc = "lookup" /\ next.goal = w.goal /\ next.obj = w.obj /\ next.fresh = w.fresh
      BY <1>0 DEF LBPass
    <3>2. w.pc = "select" BY <1>1 DEF LBSelect
    <3>3. LBGoes(l, next) BY <2>1
    <3> HIDE DEF next
    <3>4. LBIntent(next) BY <1>0, <3>1, <3>2 DEF PassOK, LBIntent, Searching
    <3> QED BY <1>b, <3>1, <3>3, <3>4
  <2> QED BY <1>1, <1>a, <2>1 DEF LBSelect, LBContinues
<1>2. CASE LBLookup(l)
  <2>0. w.pc = "lookup" BY <1>2 DEF LBLookup
  <2> DEFINE a == allocators[w.pool]
             h == [w EXCEPT !.pc = "history", !.ranges = a]
             r == [w EXCEPT !.pc = "release"]
  <2>1. \/ w.goal = "get" /\ LBGoes(l, h)
        \/ LBGoes(l, r)
        \/ LBFails(l) \/ LBGivesUp(l)
    BY <1>2 DEF LBLookup, LBContinues
  <2>2. h.pc = "history" /\ h.goal = w.goal /\ h.obj = w.obj /\ h.fresh = w.fresh BY <1>0 DEF LBPass
  <2>3. r.pc = "release" /\ r.goal = w.goal /\ r.obj = w.obj /\ r.fresh = w.fresh /\ r.pool = w.pool
    BY <1>0 DEF LBPass
  <2> HIDE DEF h, r, a
  <2>4. w.goal = "get" => LBIntent(h) BY <1>0, <2>0, <2>2 DEF PassOK, LBIntent, Searching
  <2>5. LBIntent(r) BY <1>0, <2>0, <2>3 DEF PassOK, LBIntent, Searching
  <2>6. ASSUME w.goal = "get", LBGoes(l, h) PROVE StatusInv' BY <1>b, <2>2, <2>4, <2>6
  <2>7. ASSUME LBGoes(l, r) PROVE StatusInv' BY <1>b, <2>3, <2>5, <2>7
  <2> QED BY <1>a, <2>1, <2>6, <2>7
<1>3. CASE LBHistory(l)
  <2>0. w.pc = "history" BY <1>3 DEF LBHistory
  <2>1. \/ LBFails(l) \/ LBGoes(l, [w EXCEPT !.pc = "getByID"])
        \/ \E ip \in IPs : LBGoes(l, [w EXCEPT !.pc = "request", !.tries = <<ip>>, !.ranges = None])
    BY <1>3 DEF LBHistory, LBContinues
  <2>2. ASSUME NEW ip, LBGoes(l, [w EXCEPT !.pc = "request", !.tries = <<ip>>, !.ranges = None])
        PROVE  StatusInv'
    <3> DEFINE next == [w EXCEPT !.pc = "request", !.tries = <<ip>>, !.ranges = None]
    <3>1. next.pc = "request" /\ next.goal = w.goal /\ next.obj = w.obj /\ next.fresh = w.fresh
      BY <1>0 DEF LBPass
    <3>2. LBGoes(l, next) BY <2>2
    <3> HIDE DEF next
    <3>3. LBIntent(next) BY <1>0, <2>0, <3>1 DEF PassOK, LBIntent, Searching
    <3> QED BY <1>b, <3>1, <3>2, <3>3
  <2>3. ASSUME LBGoes(l, [w EXCEPT !.pc = "getByID"]) PROVE StatusInv'
    <3> DEFINE next == [w EXCEPT !.pc = "getByID"]
    <3>1. next.pc = "getByID" /\ next.goal = w.goal /\ next.obj = w.obj /\ next.fresh = w.fresh
      BY <1>0 DEF LBPass
    <3>2. LBGoes(l, next) BY <2>3
    <3> HIDE DEF next
    <3>3. LBIntent(next) BY <1>0, <2>0, <3>1 DEF PassOK, LBIntent, Searching
    <3> QED BY <1>b, <3>1, <3>2, <3>3
  <2> QED BY <1>a, <2>1, <2>2, <2>3
<1>4. CASE LBGetByID(l)
  <2>0. w.pc = "getByID" BY <1>4 DEF LBGetByID
  <2> DEFINE it == [w EXCEPT !.pc = "getIter"]
             first == IF w.obj.pool = None THEN "select" ELSE "lookup"
             dup == [w EXCEPT !.pc = first, !.goal = "dup", !.pool = w.obj.pool, !.ranges = None]
  <2>1. LBGoes(l, it) \/ LBGoes(l, dup) BY <1>4 DEF LBGetByID
  <2>2. it.pc = "getIter" /\ it.goal = w.goal /\ it.obj = w.obj /\ it.fresh = w.fresh
    BY <1>0 DEF LBPass
  <2>3. dup.pc \in {"select", "lookup"} /\ dup.goal = "dup" /\ dup.obj = w.obj /\ dup.fresh = w.fresh
    BY <1>0 DEF LBPass
  <2> HIDE DEF it, dup, first
  <2>4. LBIntent(it) BY <1>0, <2>0, <2>2 DEF PassOK, LBIntent, Searching
  <2>5. LBIntent(dup) BY <1>0, <2>0, <2>3 DEF PassOK, LBIntent, Searching
  <2>6. ASSUME LBGoes(l, it) PROVE StatusInv' BY <1>b, <2>2, <2>4, <2>6
  <2>7. ASSUME LBGoes(l, dup) PROVE StatusInv' BY <1>b, <2>3, <2>5, <2>7
  <2> QED BY <2>1, <2>6, <2>7
<1>5. CASE LBGetIter(l)
  <2>0. w.pc = "getIter" BY <1>5 DEF LBGetIter
  <2> DEFINE tries == Candidates(w.ranges, poolCache[w.pool].last)
             next == [w EXCEPT !.pc = "reserve", !.tries = tries, !.ranges = None]
  <2>1. LBFails(l) \/ LBGoes(l, next) BY <1>5 DEF LBGetIter, LBContinues
  <2> HIDE DEF tries
  <2>2. next.pc = "reserve" /\ next.goal = w.goal /\ next.obj = w.obj /\ next.fresh = w.fresh
    BY <1>0 DEF LBPass
  <2> HIDE DEF next
  <2>3. LBIntent(next) BY <1>0, <2>0, <2>2 DEF PassOK, LBIntent, Searching
  <2>4. ASSUME LBGoes(l, next) PROVE StatusInv' BY <1>b, <2>2, <2>3, <2>4
  <2> QED BY <1>a, <2>1, <2>4
<1>6. CASE LBReserve(l)
  <2>0. w.pc \in {"request", "reserve"} BY <1>6 DEF LBReserve
  <2> DEFINE got == [pool |-> w.pool, ip |-> Head(w.tries)]
             next == [w EXCEPT !.tries = Tail(w.tries)]
  <2>1. LBFails(l) \/ LBGoes(l, next) \/ LBSucceeds(l, got) BY <1>6 DEF LBReserve, LBContinues
  <2>2. next.pc = w.pc /\ next.goal = w.goal /\ next.obj = w.obj /\ next.fresh = w.fresh
    BY <1>0 DEF LBPass
  <2> HIDE DEF next, got
  <2>3. LBIntent(next) BY <1>0, <2>0, <2>2 DEF PassOK, LBIntent, Searching
  <2>4. w.obj.addr.pool = None /\ w.obj.ipam # "dhcp" BY <1>0, <2>0 DEF PassOK, LBIntent, Searching
  <2>5. ASSUME LBGoes(l, next) PROVE StatusInv' BY <1>b, <1>000, <2>2, <2>3, <2>5
  <2>6. ASSUME LBSucceeds(l, got) PROVE StatusInv' BY <1>c, <2>4, <2>6
  <2> QED BY <1>a, <2>1, <2>5, <2>6
<1>7. CASE LBRelease(l)
  <2>0. w.pc = "release" BY <1>7 DEF LBRelease
  <2> DEFINE next == [IdleLB EXCEPT !.pc = "removeFinalizer", !.obj = w.obj, !.fresh = w.fresh]
  <2>1. LBFails(l) \/ LBGivesUp(l) \/ LBSucceeds(l, NoAddress) \/ LBGoes(l, next)
    BY <1>7 DEF LBRelease, LBContinues
  <2>2. next.pc = "removeFinalizer" /\ next.obj = w.obj /\ next.fresh = w.fresh BY DEF IdleLB
  <2> HIDE DEF next
  <2>3. LBIntent(next) BY <2>2 DEF LBIntent, Searching
  <2>4. ASSUME LBGoes(l, next) PROVE StatusInv' BY <1>b, <2>2, <2>3, <2>4
  <2>5. NoAddress.pool = None BY DEF NoAddress
  <2>6. ASSUME LBSucceeds(l, NoAddress) PROVE StatusInv' BY <1>c, <2>5, <2>6
  <2> QED BY <1>a, <2>1, <2>4, <2>6
<1> QED BY <1>1, <1>2, <1>3, <1>4, <1>5, <1>6, <1>7

\* Update changes a load balancer only to the object written, and only from a
\* current copy.
LEMMA UpdateLBEffect ==
    ASSUME TypeOK, NEW l \in LBs, NEW fresh \in BOOLEAN, NEW new, NEW ok \in BOOLEAN,
           UpdateLB(l, fresh, new, ok)
    PROVE  /\ \A x \in LBs : x # l => lbs'[x] = lbs[x] /\ lbSynced'[x] = lbSynced[x]
           /\ \/ UNCHANGED <<lbs, lbSynced>> /\ ~ok
              \/ fresh /\ lbs'[l] = new /\ ~lbSynced'[l]
<1>1. CASE UNCHANGED <<lbs, lbSynced>> /\ ~ok BY <1>1
<1>2. CASE fresh /\ WriteLB(l, new) BY <1>2 DEF WriteLB, TypeOK
<1> QED BY <1>1, <1>2 DEF UpdateLB

\* The writes of a worker: the status, and the finalizer coming and going.
LEMMA WriteKeepsStatus ==
    ASSUME TypeOK, Shape, StatusInv, NEW l \in LBs,
           LBWrite(l) \/ LBAddFinalizer(l) \/ LBRemoveFinalizer(l)
    PROVE  /\ StatusInv'
           /\ \A x \in LBs : x # l => lbs'[x] = lbs[x]
           /\ \/ lbs'[l] = lbs[l] \/ lbs'[l] = NoLB
              \/ lbs'[l].addr = lbs[l].addr
              \/ /\ lbWork[l].pc = "write" /\ lbWork[l].fresh
                 /\ lbs'[l] = [lbs[l] EXCEPT !.addr = lbWork[l].addr, !.cond = lbWork[l].cond]
<1> DEFINE w == lbWork[l]
           status == [w.obj EXCEPT !.addr = w.addr, !.cond = w.cond]
           fin == [w.obj EXCEPT !.finalizer = TRUE]
<1>0. /\ w \in LBPass /\ PassOK(l, w) /\ w.obj \in LB /\ w.fresh \in BOOLEAN
      /\ w.addr \in Address /\ w.cond \in Conditions
  BY PassIsOK, WorkType DEF TypeOK
<1>00. lbCache' = lbCache BY DEF LBWrite, LBAddFinalizer, LBRemoveFinalizer
<1>a. ASSUME NEW new, NEW next, NEW ok \in BOOLEAN, UpdateLB(l, w.fresh, new, ok), LBGoes(l, next),
             LBObject(next.obj), LBIntent(next), next.pc \in {"idle", "addFinalizer"},
             w.fresh => LBObject(new),
             next.fresh => next.obj = lbs'[l], next.pc = "idle" => ~next.fresh
      PROVE  StatusInv'
  <2>1. lbWork'[l] = next /\ \A x \in LBs : x # l => lbWork'[x] = lbWork[x]
    BY <1>a DEF LBGoes, TypeOK
  <2>2. /\ \A x \in LBs : x # l => lbs'[x] = lbs[x] /\ lbSynced'[x] = lbSynced[x]
        /\ \/ UNCHANGED <<lbs, lbSynced>>
           \/ w.fresh /\ lbs'[l] = new /\ ~lbSynced'[l]
    BY <1>0, <1>a, UpdateLBEffect
  <2>3. LBCopies' BY <1>00, <1>a, <2>1, <2>2 DEF LBCopies, StatusInv
  <2>4. Intents' BY <1>00, <1>a, <2>1, <2>2 DEF Intents, StatusInv
  <2> QED BY <2>3, <2>4 DEF StatusInv
<1>b. IdleLB.pc = "idle" /\ ~IdleLB.fresh /\ LBObject(IdleLB.obj) /\ LBIntent(IdleLB)
  BY IdleIsOK DEF IdleLB, PassOK
<1>1. CASE LBWrite(l)
  <2>0. w.pc = "write" BY <1>1 DEF LBWrite
  <2>1. PICK ok \in BOOLEAN :
          /\ UpdateLB(l, w.fresh, status, ok)
          /\ LBGoes(l, IF ok THEN AfterChange(status, TRUE)
                       ELSE AfterChange(w.obj, w.fresh /\ lbSynced' = lbSynced))
    BY <1>1 DEF LBWrite
  <2>2. status \in LB /\ status.addr = w.addr /\ status.ipam = w.obj.ipam
        /\ status.deleting = w.obj.deleting /\ status.exists = w.obj.exists
    BY <1>0 DEF LB
  <2>3. /\ \A x \in LBs : x # l => lbs'[x] = lbs[x] /\ lbSynced'[x] = lbSynced[x]
        /\ \/ UNCHANGED <<lbs, lbSynced>> /\ ~ok
           \/ w.fresh /\ lbs'[l] = status /\ ~lbSynced'[l]
    BY <1>0, <2>1, UpdateLBEffect
  <2>4. LBObject(status)
    BY <1>0, <2>0, <2>2 DEF PassOK, LBObject, LBIntent
  <2>5. ASSUME NEW o, LBObject(o), NEW f \in BOOLEAN, f => o = lbs'[l]
        PROVE  /\ LBObject(AfterChange(o, f).obj) /\ LBIntent(AfterChange(o, f))
               /\ AfterChange(o, f).pc \in {"idle", "addFinalizer"}
               /\ AfterChange(o, f).fresh => AfterChange(o, f).obj = lbs'[l]
               /\ AfterChange(o, f).pc = "idle" => ~AfterChange(o, f).fresh
    <3> DEFINE add == [IdleLB EXCEPT !.pc = "addFinalizer", !.obj = o, !.fresh = f]
    <3>1. add.pc = "addFinalizer" /\ add.obj = o /\ add.fresh = f BY DEF IdleLB
    <3>2. AfterChange(o, f) = add \/ AfterChange(o, f) = IdleLB BY DEF AfterChange
    <3> HIDE DEF add
    <3>3. LBIntent(add) BY <3>1 DEF LBIntent, Searching
    <3> QED BY <1>b, <2>5, <3>1, <3>2, <3>3
  <2>6. ASSUME ok PROVE StatusInv'
    <3>1. lbs'[l] = status BY <2>3, <2>6
    <3>2. LBGoes(l, AfterChange(status, TRUE)) BY <2>1, <2>6
    <3> DEFINE next == AfterChange(status, TRUE)
    <3>3. /\ LBObject(next.obj) /\ LBIntent(next) /\ next.pc \in {"idle", "addFinalizer"}
          /\ next.fresh => next.obj = lbs'[l]
          /\ next.pc = "idle" => ~next.fresh
      BY <2>4, <2>5, <3>1
    <3>4. LBGoes(l, next) BY <3>2
    <3>5. UpdateLB(l, w.fresh, status, ok) BY <2>1
    <3> HIDE DEF status, w, next
    <3> QED BY <1>a, <2>4, <3>3, <3>4, <3>5
  <2>7. ASSUME ~ok PROVE StatusInv'
    <3> DEFINE f == w.fresh /\ lbSynced' = lbSynced
    <3>1. LBGoes(l, AfterChange(w.obj, f)) BY <2>1, <2>7
    <3>2. f \in BOOLEAN BY <1>0
    <3>3. ASSUME f PROVE w.obj = lbs'[l]
      <4>1. lbSynced[l] /\ w.obj = lbs[l] BY <1>0, <2>0, <3>3 DEF PassOK
      <4> QED BY <2>3, <3>3, <4>1
    <3>4. LBObject(w.obj) BY <1>0 DEF PassOK
    <3> DEFINE next == AfterChange(w.obj, f)
    <3> HIDE DEF f
    <3>5. /\ LBObject(next.obj) /\ LBIntent(next) /\ next.pc \in {"idle", "addFinalizer"}
          /\ next.fresh => next.obj = lbs'[l]
          /\ next.pc = "idle" => ~next.fresh
      BY <2>5, <3>2, <3>3, <3>4
    <3>6. LBGoes(l, next) BY <3>1
    <3>7. UpdateLB(l, w.fresh, status, ok) BY <2>1
    <3> HIDE DEF status, w, next
    <3> QED BY <1>a, <2>4, <3>5, <3>6, <3>7
  <2>8. StatusInv' BY <2>6, <2>7
  <2> QED BY <1>0, <2>0, <2>3, <2>8 DEF PassOK
<1>2. CASE LBAddFinalizer(l)
  <2>1. PICK ok \in BOOLEAN : UpdateLB(l, w.fresh, fin, ok) BY <1>2 DEF LBAddFinalizer
  <2>2. LBGoes(l, IdleLB) BY <1>2 DEF LBAddFinalizer
  <2>3. fin.addr = w.obj.addr /\ fin.ipam = w.obj.ipam /\ fin.deleting = w.obj.deleting
        /\ fin.exists = w.obj.exists
    BY <1>0 DEF LB
  <2> HIDE DEF fin, w
  <2>4. LBObject(fin) BY <1>0, <2>3 DEF PassOK, LBObject
  <2>5. StatusInv' BY <1>a, <1>b, <2>1, <2>2, <2>4
  <2>6. /\ \A x \in LBs : x # l => lbs'[x] = lbs[x]
        /\ UNCHANGED lbs \/ (w.fresh /\ lbs'[l] = fin)
    BY <1>0, <2>1, UpdateLBEffect
  <2> QED BY <1>0, <2>3, <2>5, <2>6 DEF PassOK
<1>3. CASE LBRemoveFinalizer(l)
  <2>1. PICK ok \in BOOLEAN : UpdateLB(l, w.fresh, NoLB, ok) BY <1>3 DEF LBRemoveFinalizer
  <2>2. LBGoes(l, IdleLB) BY <1>3 DEF LBRemoveFinalizer
  <2> HIDE DEF w
  <2>3. StatusInv' BY <1>a, <1>b, <2>1, <2>2, IdleIsOK
  <2>4. /\ \A x \in LBs : x # l => lbs'[x] = lbs[x]
        /\ UNCHANGED lbs \/ lbs'[l] = NoLB
    BY <1>0, <2>1, UpdateLBEffect
  <2> QED BY <2>3, <2>4
<1> QED BY <1>1, <1>2, <1>3

\* The write of a user, of an object that is created, edited or deleted.
LEMMA UserKeepsStatus ==
    ASSUME TypeOK, StatusInv, NEW l \in LBs, CreateLB(l) \/ EditLB(l) \/ DeleteLB(l)
    PROVE  /\ StatusInv'
           /\ \A x \in LBs : x # l => lbs'[x] = lbs[x]
           /\ lbs'[l].addr = lbs[l].addr \/ lbs'[l].addr = NoAddress
<1>0. lbs[l] \in LB /\ lbWork[l] \in LBPass /\ LBObject(lbs[l]) BY PassIsOK DEF TypeOK
<1>1. ASSUME NEW op, NEW new, UserWritesLB(op, l, new), LBObject(new)
      PROVE  StatusInv' /\ lbs'[l] = new /\ \A x \in LBs : x # l => lbs'[x] = lbs[x]
  <2>1. /\ lbs'[l] = new /\ ~lbSynced'[l]
        /\ \A x \in LBs : x # l => lbs'[x] = lbs[x] /\ lbSynced'[x] = lbSynced[x]
        /\ lbCache' = lbCache
    BY <1>1 DEF UserWritesLB, TypeOK
  <2>2. /\ lbWork'[l] = [lbWork[l] EXCEPT !.fresh = FALSE]
        /\ \A x \in LBs : x # l => lbWork'[x] = lbWork[x]
    BY <1>1 DEF UserWritesLB, TypeOK
  <2>3. /\ ~lbWork'[l].fresh /\ lbWork'[l].obj = lbWork[l].obj
        /\ lbWork'[l].pc = lbWork[l].pc /\ lbWork'[l].goal = lbWork[l].goal
        /\ lbWork'[l].pool = lbWork[l].pool /\ lbWork'[l].addr = lbWork[l].addr
    BY <1>0, <2>2 DEF LBPass
  <2>4. LBIntent(lbWork'[l]) BY <2>3, PassIsOK DEF PassOK, LBIntent
  <2>5. LBCopies' BY <2>1, <2>2, <2>3 DEF LBCopies, StatusInv
  <2>6. Intents' BY <1>1, <2>1, <2>2, <2>3, <2>4 DEF Intents, StatusInv
  <2> QED BY <2>1, <2>5, <2>6 DEF StatusInv
<1>2. CASE CreateLB(l)
  <2>1. PICK spec \in LBSpecs :
          UserWritesLB("createLB", l, [NoLB EXCEPT !.exists = TRUE, !.pool = spec.pool, !.ipam = spec.ipam])
    BY <1>2 DEF CreateLB
  <2> DEFINE new == [NoLB EXCEPT !.exists = TRUE, !.pool = spec.pool, !.ipam = spec.ipam]
  <2>2. LBObject(new) /\ new.addr = NoAddress BY DEF LBObject, NoLB, NoAddress
  <2> QED BY <1>1, <2>1, <2>2
<1>3. CASE EditLB(l)
  <2>1. PICK spec \in LBSpecs :
          /\ (spec.ipam = "dhcp") <=> (lbs[l].ipam = "dhcp")
          /\ UserWritesLB("editLB", l, [lbs[l] EXCEPT !.pool = spec.pool, !.ipam = spec.ipam])
    BY <1>3 DEF EditLB
  <2> DEFINE new == [lbs[l] EXCEPT !.pool = spec.pool, !.ipam = spec.ipam]
  <2>2. LBObject(new) /\ new.addr = lbs[l].addr BY <1>0, <2>1 DEF LBObject, LB
  <2> QED BY <1>1, <2>1, <2>2
<1>4. CASE DeleteLB(l)
  <2> DEFINE new == [lbs[l] EXCEPT !.deleting = TRUE]
  <2>1. UserWritesLB("deleteLB", l, new) \/ UserWritesLB("deleteLB", l, NoLB) BY <1>4 DEF DeleteLB
  <2>2. LBObject(new) /\ new.addr = lbs[l].addr BY <1>0, <1>4 DEF LBObject, LB, DeleteLB, Active
  <2>3. NoLB.addr = NoAddress BY DEF NoLB
  <2> QED BY <1>1, <2>1, <2>2, <2>3, IdleIsOK
<1> QED BY <1>2, <1>3, <1>4

\* Pools and their workers leave load balancers alone.
LEMMA PoolsLeaveLBs ==
    ASSUME NEW p \in Pools,
           \/ PoolWorker(p) \/ SyncPool(p)
           \/ CreatePool(p) \/ EditPool(p) \/ AnnotatePool(p) \/ DeletePool(p)
    PROVE  UNCHANGED <<lbVars, lbWork>>
  BY DEF PoolWorker, PoolStart, PoolRegister, PoolStatus, PoolManual, PoolManualRelease,
         PoolManualDone, PoolAddFinalizer, PoolUnregister, PoolRemoveFinalizer, SyncPool,
         CreatePool, EditPool, AnnotatePool, DeletePool, UserWritesPool

\* Every step keeps the invariant, and changes an address only from or to none.
LEMMA StatusStep ==
    ASSUME IndInv, StatusInv, [Next]_vars
    PROVE  /\ StatusInv'
           /\ \A l \in LBs : lbs[l].addr.pool # None =>
                  lbs'[l].addr = lbs[l].addr \/ lbs'[l].addr = NoAddress
<1> DEFINE Goal == /\ StatusInv'
                   /\ \A l \in LBs : lbs[l].addr.pool # None =>
                          lbs'[l].addr = lbs[l].addr \/ lbs'[l].addr = NoAddress
<1>0. TypeOK /\ Shape BY DEF IndInv
<1>1. CASE UNCHANGED <<lbVars, lbWork>>
  BY <1>1 DEF StatusInv, LBCopies, Intents, lbVars
<1>2. ASSUME NEW l \in LBs, LBWorker(l) PROVE Goal
  <2>1. CASE LBSkip(l) \/ LBOnRemove(l) \/ LBOnChangeDHCP(l) \/ LBOnChangePool(l)
    <3>1. lbs' = lbs
      BY <2>1 DEF LBSkip, LBOnRemove, LBOnChangeDHCP, LBOnChangePool, LBTake, lbVars
    <3> QED BY <1>0, <2>1, <3>1, StartKeepsStatus
  <2>2. CASE \/ LBSelect(l) \/ LBLookup(l) \/ LBHistory(l) \/ LBGetByID(l) \/ LBGetIter(l)
             \/ LBReserve(l) \/ LBRelease(l)
    <3>1. lbs' = lbs
      BY <2>2 DEF LBSelect, LBLookup, LBHistory, LBGetByID, LBGetIter, LBReserve, LBRelease, lbVars
    <3> QED BY <1>0, <2>2, <3>1, SearchKeepsStatus
  <2>3. CASE LBWrite(l) \/ LBAddFinalizer(l) \/ LBRemoveFinalizer(l)
    <3>1. /\ StatusInv'
          /\ \A x \in LBs : x # l => lbs'[x] = lbs[x]
          /\ \/ lbs'[l] = lbs[l] \/ lbs'[l] = NoLB
             \/ lbs'[l].addr = lbs[l].addr
             \/ /\ lbWork[l].pc = "write" /\ lbWork[l].fresh
                /\ lbs'[l] = [lbs[l] EXCEPT !.addr = lbWork[l].addr, !.cond = lbWork[l].cond]
      BY <1>0, <2>3, WriteKeepsStatus
    <3>2. NoLB.addr = NoAddress BY DEF NoLB
    <3>3. ASSUME lbWork[l].pc = "write", lbWork[l].fresh,
                 lbs'[l] = [lbs[l] EXCEPT !.addr = lbWork[l].addr, !.cond = lbWork[l].cond],
                 lbs[l].addr.pool # None
          PROVE  lbs'[l].addr = lbs[l].addr \/ lbs'[l].addr = NoAddress
      <4>1. lbs[l] \in LB BY <1>0 DEF TypeOK
      <4>2. lbs'[l].addr = lbWork[l].addr BY <3>3, <4>1 DEF LB
      <4>3. lbWork[l].obj = lbs[l] /\ LBIntent(lbWork[l]) BY <3>3, PassIsOK DEF PassOK
      <4> QED BY <3>3, <4>2, <4>3 DEF LBIntent
    <3> QED BY <3>1, <3>2, <3>3
  <2> QED BY <1>2, <2>1, <2>2, <2>3 DEF LBWorker
<1>3. ASSUME NEW l \in LBs, SyncLB(l) PROVE Goal
  <2>1. /\ lbCache'[l] = lbs[l] /\ \A x \in LBs : x # l => lbCache'[x] = lbCache[x]
        /\ lbSynced'[l] /\ \A x \in LBs : x # l => lbSynced'[x] = lbSynced[x]
        /\ lbs' = lbs /\ lbWork' = lbWork
    BY <1>0, <1>3 DEF SyncLB, TypeOK
  <2>2. LBCopies' BY <2>1 DEF LBCopies, StatusInv
  <2>3. Intents' BY <2>1 DEF Intents, StatusInv
  <2> QED BY <2>1, <2>2, <2>3 DEF StatusInv
<1>4. ASSUME NEW l \in LBs, CreateLB(l) \/ EditLB(l) \/ DeleteLB(l) PROVE Goal
  BY <1>0, <1>4, UserKeepsStatus
<1>5. ASSUME NEW l \in LBs, LBEnqueue(l) PROVE Goal BY <1>1, <1>5 DEF LBEnqueue
<1>6. CASE Restart
  <2>1. /\ lbs' = lbs /\ lbCache' = lbs
        /\ \A x \in LBs : lbSynced'[x] /\ lbWork'[x] = IdleLB
    BY <1>6 DEF Restart
  <2>2. ~IdleLB.fresh /\ LBObject(IdleLB.obj) /\ LBIntent(IdleLB)
    BY IdleIsOK DEF PassOK, IdleLB
  <2>3. LBCopies' BY <2>1, <2>2 DEF LBCopies
  <2>4. Intents' BY <2>1, <2>2 DEF Intents, StatusInv
  <2> QED BY <2>1, <2>3, <2>4 DEF StatusInv
<1>7. CASE UNCHANGED vars BY <1>1, <1>7 DEF vars, lbVars
<1> QED BY <1>1, <1>2, <1>3, <1>4, <1>5, <1>6, <1>7, PoolsLeaveLBs DEF Next, Outside

\* The invariant of copies and statuses holds throughout.
LEMMA StatusInvariant == Spec => []StatusInv
<1>1. Init => StatusInv
  <2> SUFFICES ASSUME Init PROVE StatusInv OBVIOUS
  <2>1. ~IdleLB.fresh /\ LBObject(IdleLB.obj) /\ LBIntent(IdleLB) /\ LBObject(NoLB)
    BY IdleIsOK DEF PassOK, IdleLB
  <2>2. \A l \in LBs : lbs[l] = NoLB /\ lbCache[l] = NoLB /\ lbWork[l] = IdleLB BY DEF Init
  <2> QED BY <2>1, <2>2 DEF StatusInv, LBCopies, Intents
<1>2. IndInv /\ StatusInv /\ [Next]_vars => StatusInv' BY StatusStep
<1> QED BY <1>1, <1>2, Inductive, PTL DEF Spec

\* The address in the status of a load balancer never changes to another one in
\* one step, whatever copies are stale, calls fail or edits interfere: the
\* handlers give an address up, in a write of its own, before they take another.
THEOREM AddressIsGivenUpFirst == Spec => AddressGivenUpFirst
<1>1. IndInv /\ StatusInv /\ [Next]_vars =>
        \A l \in LBs :
          lbs[l].addr.pool # None =>
              \/ lbs'[l].addr = lbs[l].addr
              \/ lbs'[l].addr = NoAddress
  BY StatusStep
<1> QED BY <1>1, StatusInvariant, Inductive, PTL DEF Spec, AddressGivenUpFirst

-----------------------------------------------------------------------------
(* Who changes the books of a pool, and which race that is to a load         *)
(* balancer                                                                  *)

\* The step reserves an address of pool p for a load balancer,
Granted(p) ==
    \E l \in LBs, ip \in IPs :
        /\ LBReserve(l) /\ p = lbWork[l].pool /\ ip = Head(lbWork[l].tries)
        /\ pools[p].allocated[ip] = None /\ pools'[p] = Reserved(pools[p], ip, l)

\* releases one,
Freed(p) ==
    \E l \in LBs, ip \in IPs :
        /\ LBRelease(l) /\ p = lbWork[l].pool
        /\ pools[p].allocated[ip] = l /\ pools'[p] = Released(pools[p], ip)

\* releases one on request,
FreedByHand(p) ==
    \E l \in LBs, ip \in IPs :
        /\ PoolManualRelease(p) /\ l = poolWork[p].obj.release[2]
        /\ pools[p].allocated[ip] = l /\ pools'[p] = Released(pools[p], ip)

\* removes the pool,
Dropped(p) == PoolRemoveFinalizer(p) /\ pools'[p] = NoPool /\ pools'[p] # pools[p]

\* or leaves the allocations alone.
Tidied(p) ==
    /\ pools'[p].allocated = pools[p].allocated
    /\ \A ip \in IPs : pools'[p].history[ip] \in {pools[p].history[ip], None}

Moved(p) == Granted(p) \/ Freed(p) \/ FreedByHand(p) \/ Dropped(p) \/ Tidied(p)

\* A pool that does not exist has no books, and those of a cached pool are as
\* consistent as those of a pool.
SoundPools ==
    \A p \in Pools : /\ pools[p].exists \/ pools[p] = NoPool
                     /\ HistoryFree(poolCache[p])

Moves == SoundPools' /\ \A p \in Pools : Moved(p)

\* What a step that leaves the caches alone must do to the pools.
LEMMA MovesFrame ==
    ASSUME SoundPools, poolCache' = poolCache, NEW p \in Pools,
           \A x \in Pools : x # p => pools'[x] = pools[x],
           pools'[p].exists \/ pools'[p] = NoPool, Moved(p)
    PROVE  Moves
<1>1. \A x \in Pools : x # p => Moved(x) BY DEF Moved, Tidied
<1>2. SoundPools' BY DEF SoundPools
<1> QED BY <1>1, <1>2 DEF Moves

LEMMA MovesNothing ==
    ASSUME SoundPools, pools' = pools, poolCache' = poolCache
    PROVE  Moves
  BY DEF SoundPools, Moves, Moved, Tidied

\* An object that exists still does after these writes.
LEMMA WrittenExist ==
    ASSUME NEW old \in Pool
    PROVE  /\ \A ip \in IPs, l \in LBs : Reserved(old, ip, l).exists = old.exists
           /\ \A ip \in IPs : Released(old, ip).exists = old.exists
           /\ UpdatedStatus(old, old.ranges).exists = old.exists
           /\ [old EXCEPT !.finalizer = TRUE].exists = old.exists
           /\ \A r : [old EXCEPT !.release = r].exists = old.exists
           /\ \A rs : [old EXCEPT !.ranges = rs].exists = old.exists
           /\ [old EXCEPT !.deleting = TRUE].exists = old.exists
<1>1. \A ip \in IPs, l \in LBs : Reserved(old, ip, l).exists = old.exists BY DEF Pool, Reserved
<1>2. \A ip \in IPs : Released(old, ip).exists = old.exists BY DEF Pool, Released
<1>3. UpdatedStatus(old, old.ranges).exists = old.exists BY DEF Pool, UpdatedStatus
<1>4. /\ [old EXCEPT !.finalizer = TRUE].exists = old.exists
      /\ \A r : [old EXCEPT !.release = r].exists = old.exists
      /\ \A rs : [old EXCEPT !.ranges = rs].exists = old.exists
      /\ [old EXCEPT !.deleting = TRUE].exists = old.exists
  BY DEF Pool
<1> QED BY <1>1, <1>2, <1>3, <1>4

\* store.Reserve grants at most the address at hand, in the pool of the pass.
LEMMA ReserveMoves ==
    ASSUME IndInv, SoundPools, NEW l \in LBs, LBReserve(l)
    PROVE  Moves
<1> DEFINE p == lbWork[l].pool
           ip == Head(lbWork[l].tries)
<1>0. TypeOK /\ Shape /\ CurrentCopies BY DEF IndInv
<1>1. p \in Pools /\ lbWork[l].tries \in Seq(IPs) /\ lbWork[l].tries # <<>>
  BY <1>0, WorkType DEF LBReserve, LBShape
<1>2. ip \in IPs /\ poolSynced[p] \in BOOLEAN BY <1>0, <1>1 DEF TypeOK
<1>3. poolCache' = poolCache BY DEF LBReserve
<1>4. CASE pools' = pools BY <1>3, <1>4, MovesNothing
<1>5. CASE /\ poolCache[p].exists /\ poolCache[p].allocated[ip] = None
           /\ \E ok \in BOOLEAN : UpdatePool(p, poolSynced[p], Reserved(poolCache[p], ip, l), ok)
  <2>1. PICK ok \in BOOLEAN : UpdatePool(p, poolSynced[p], Reserved(poolCache[p], ip, l), ok) BY <1>5
  <2>2. \/ pools'[p] = pools[p]
        \/ /\ pools[p].exists /\ pools[p].allocated[ip] = None
           /\ pools'[p] = Reserved(pools[p], ip, l)
    BY <1>0, <1>1, <1>2, <1>5, <2>1, UpdatePoolEffect DEF CurrentCopies
  <2>3. \A x \in Pools : x # p => pools'[x] = pools[x] BY <1>0, <1>1, <1>2, <2>1, UpdatePoolEffect
  <2>4. Moved(p)
    <3> HIDE DEF ip
    <3>1. ip = Head(lbWork[l].tries) BY DEF ip
    <3> QED BY <1>2, <2>2, <3>1 DEF Moved, Granted, Tidied
  <2>5. pools'[p].exists \/ pools'[p] = NoPool
    <3>1. pools[p] \in Pool BY <1>0, <1>1 DEF TypeOK
    <3> QED BY <1>1, <1>2, <2>2, <3>1, WrittenExist DEF SoundPools
  <2> QED BY <1>1, <1>3, <2>3, <2>4, <2>5, MovesFrame
<1> QED BY <1>4, <1>5 DEF LBReserve

\* ReleaseByID frees at most an address that the id holds.
LEMMA ReleaseByIDMoves ==
    ASSUME IndInv, NEW p \in Pools, NEW id \in LBs, NEW ok \in BOOLEAN, ReleaseByID(p, id, ok)
    PROVE  /\ \A x \in Pools : x # p => pools'[x] = pools[x]
           /\ \/ pools'[p] = pools[p]
              \/ /\ pools[p].exists /\ pools'[p].exists
                 /\ \E ip \in IPs : pools[p].allocated[ip] = id /\ pools'[p] = Released(pools[p], ip)
<1>0. TypeOK /\ CurrentCopies /\ pools[p] \in Pool /\ poolSynced[p] \in BOOLEAN BY DEF IndInv, TypeOK
<1>1. CASE pools' = pools BY <1>1
<1>2. ASSUME NEW ip \in IPs, poolCache[p].exists, poolCache[p].allocated[ip] = id,
             UpdatePool(p, poolSynced[p], Released(poolCache[p], ip), ok)
      PROVE  /\ \A x \in Pools : x # p => pools'[x] = pools[x]
             /\ \/ pools'[p] = pools[p]
                \/ /\ pools[p].exists /\ pools'[p].exists
                   /\ pools[p].allocated[ip] = id /\ pools'[p] = Released(pools[p], ip)
  BY <1>0, <1>2, UpdatePoolEffect, WrittenExist DEF CurrentCopies
<1> QED BY <1>1, <1>2 DEF ReleaseByID

LEMMA ReleaseMoves ==
    ASSUME IndInv, SoundPools, NEW l \in LBs, LBRelease(l)
    PROVE  Moves
<1> DEFINE p == lbWork[l].pool
<1>0. TypeOK /\ Shape BY DEF IndInv
<1>1. p \in Pools BY <1>0, WorkType DEF LBRelease, LBShape
<1>2. PICK ok \in BOOLEAN : ReleaseByID(p, l, ok) BY DEF LBRelease
<1>3. poolCache' = poolCache BY DEF LBRelease
<1>4. /\ \A x \in Pools : x # p => pools'[x] = pools[x]
      /\ \/ pools'[p] = pools[p]
         \/ /\ pools[p].exists /\ pools'[p].exists
            /\ \E ip \in IPs : pools[p].allocated[ip] = l /\ pools'[p] = Released(pools[p], ip)
  BY <1>1, <1>2, ReleaseByIDMoves
<1>5. Moved(p) BY <1>4 DEF Moved, Freed, Tidied
<1>6. pools'[p].exists \/ pools'[p] = NoPool BY <1>1, <1>4 DEF SoundPools
<1> QED BY <1>1, <1>3, <1>4, <1>5, <1>6, MovesFrame

\* The worker of a pool corrects its status, releases on request, and removes it.
LEMMA PoolWorkerMoves ==
    ASSUME IndInv, SoundPools, NEW p \in Pools, PoolWorker(p)
    PROVE  Moves
<1> DEFINE w == poolWork[p]
<1>0. TypeOK /\ Shape /\ CurrentCopies BY DEF IndInv
<1>a. w \in PoolPass /\ w.obj \in Pool /\ w.fresh \in BOOLEAN /\ (w.fresh => w.obj = pools[p])
      /\ pools[p] \in Pool /\ PoolShape(w)
  BY <1>0, PoolWorkType DEF CurrentCopies, TypeOK
<1>b. pools[p].exists \/ pools[p] = NoPool BY DEF SoundPools
<1>c. ASSUME NEW new, NEW ok \in BOOLEAN, UpdatePool(p, w.fresh, new, ok), poolCache' = poolCache,
             new.exists, new.allocated = w.obj.allocated,
             \A ip \in IPs : new.history[ip] \in {w.obj.history[ip], None}
      PROVE  Moves
  <2>1. /\ \A x \in Pools : x # p => pools'[x] = pools[x]
        /\ pools'[p] = pools[p] \/ (pools'[p] = new /\ w.obj = pools[p])
    BY <1>0, <1>a, <1>c, UpdatePoolEffect
  <2>2. Moved(p) BY <1>c, <2>1 DEF Moved, Tidied
  <2> QED BY <1>b, <1>c, <2>1, <2>2, MovesFrame
<1>1. CASE PoolStart(p) \/ PoolRegister(p) \/ PoolManual(p) \/ PoolUnregister(p)
  BY <1>1, MovesNothing DEF PoolStart, PoolRegister, PoolManual, PoolUnregister, poolVars
<1>2. CASE PoolStatus(p)
  <2> DEFINE new == UpdatedStatus(w.obj, w.obj.ranges)
  <2>1. poolCache' = poolCache BY <1>2 DEF PoolStatus
  <2>2. pools' = pools \/ \E ok \in BOOLEAN : UpdatePool(p, w.fresh, new, ok) BY <1>2 DEF PoolStatus
  <2>3. w.obj.exists BY <1>2, <1>a DEF PoolStatus, PoolShape
  <2>4. new.exists BY <1>a, <2>3, WrittenExist
  <2>5. /\ new.allocated = w.obj.allocated
        /\ \A ip \in IPs : new.history[ip] \in {w.obj.history[ip], None}
    BY <1>a, StatusFields
  <2> HIDE DEF new
  <2> QED BY <1>c, <2>1, <2>2, <2>4, <2>5, MovesNothing
<1>3. CASE PoolManualRelease(p)
  <2>1. w.obj.release \in IPs \X LBs BY <1>3, <1>a DEF PoolManualRelease, PoolShape, Pool
  <2>2. PICK id \in LBs : id = w.obj.release[2] BY <2>1
  <2>3. PICK ok \in BOOLEAN : ReleaseByID(p, id, ok) BY <1>3, <2>2 DEF PoolManualRelease
  <2>4. poolCache' = poolCache BY <1>3 DEF PoolManualRelease
  <2>5. /\ \A x \in Pools : x # p => pools'[x] = pools[x]
        /\ \/ pools'[p] = pools[p]
           \/ /\ pools[p].exists /\ pools'[p].exists
              /\ \E ip \in IPs : pools[p].allocated[ip] = id /\ pools'[p] = Released(pools[p], ip)
    BY <2>3, ReleaseByIDMoves
  <2>6. Moved(p) BY <1>3, <2>2, <2>5 DEF Moved, FreedByHand, Tidied
  <2> QED BY <1>b, <2>4, <2>5, <2>6, MovesFrame
<1>4. CASE PoolManualDone(p)
  <2> DEFINE new == [w.obj EXCEPT !.release = None]
  <2>1. poolCache' = poolCache BY <1>4 DEF PoolManualDone
  <2>2. \E ok \in BOOLEAN : UpdatePool(p, w.fresh, new, ok) BY <1>4 DEF PoolManualDone
  <2>3. w.obj.exists BY <1>4, <1>a DEF PoolManualDone, PoolShape
  <2>4. new.exists /\ new.allocated = w.obj.allocated /\ new.history = w.obj.history
    BY <1>a, <2>3 DEF Pool
  <2> HIDE DEF new
  <2> QED BY <1>c, <2>1, <2>2, <2>4
<1>5. CASE PoolAddFinalizer(p)
  <2> DEFINE new == [w.obj EXCEPT !.finalizer = TRUE]
  <2>1. poolCache' = poolCache BY <1>5 DEF PoolAddFinalizer
  <2>2. \E ok \in BOOLEAN : UpdatePool(p, w.fresh, new, ok) BY <1>5 DEF PoolAddFinalizer
  <2>3. w.obj.exists BY <1>5, <1>a DEF PoolAddFinalizer, PoolShape
  <2>4. new.exists /\ new.allocated = w.obj.allocated /\ new.history = w.obj.history
    BY <1>a, <2>3 DEF Pool
  <2> HIDE DEF new
  <2> QED BY <1>c, <2>1, <2>2, <2>4
<1>6. CASE PoolRemoveFinalizer(p)
  <2>1. PICK ok \in BOOLEAN : UpdatePool(p, w.fresh, NoPool, ok) BY <1>6 DEF PoolRemoveFinalizer
  <2>2. poolCache' = poolCache BY <1>6 DEF PoolRemoveFinalizer
  <2>3. /\ \A x \in Pools : x # p => pools'[x] = pools[x]
        /\ pools'[p] = pools[p] \/ pools'[p] = NoPool
    BY <1>0, <1>a, <2>1, UpdatePoolEffect
  <2>4. Moved(p) BY <1>6, <2>3 DEF Moved, Dropped, Tidied
  <2> QED BY <1>b, <2>2, <2>3, <2>4, MovesFrame
<1> QED BY <1>1, <1>2, <1>3, <1>4, <1>5, <1>6 DEF PoolWorker

\* Users create pools, edit and annotate them, and delete those without allocations.
LEMMA UserMoves ==
    ASSUME IndInv, SoundPools, NEW p \in Pools,
           CreatePool(p) \/ EditPool(p) \/ AnnotatePool(p) \/ DeletePool(p)
    PROVE  Moves
<1>0. TypeOK /\ pools[p] \in Pool BY DEF IndInv, TypeOK
<1>1. ASSUME NEW op, NEW new, UserWritesPool(op, p, new), new.exists \/ new = NoPool,
             new.allocated = pools[p].allocated,
             \A ip \in IPs : new.history[ip] \in {pools[p].history[ip], None}
      PROVE  Moves
  <2>1. pools'[p] = new /\ \A x \in Pools : x # p => pools'[x] = pools[x]
    BY <1>0, <1>1 DEF UserWritesPool, TypeOK
  <2>2. Moved(p) BY <1>1, <2>1 DEF Moved, Tidied
  <2>3. poolCache' = poolCache BY <1>1 DEF UserWritesPool
  <2> QED BY <1>1, <2>1, <2>2, <2>3, MovesFrame
<1>2. CASE CreatePool(p)
  <2>1. PICK rs \in RangeChoices[p] :
          UserWritesPool("createPool", p, [NoPool EXCEPT !.exists = TRUE, !.ranges = rs])
    BY <1>2 DEF CreatePool
  <2> DEFINE new == [NoPool EXCEPT !.exists = TRUE, !.ranges = rs]
  <2>2. new.exists /\ new.allocated = NoPool.allocated /\ new.history = NoPool.history BY DEF NoPool
  <2>3. pools[p] = NoPool BY <1>2 DEF CreatePool, SoundPools
  <2> HIDE DEF new
  <2> QED BY <1>1, <2>1, <2>2, <2>3 DEF new
<1>3. CASE EditPool(p)
  <2>1. PICK rs \in RangeChoices[p] :
          UserWritesPool("editPool", p, [pools[p] EXCEPT !.ranges = rs])
    BY <1>3 DEF EditPool
  <2> DEFINE new == [pools[p] EXCEPT !.ranges = rs]
  <2>2. new.exists /\ new.allocated = pools[p].allocated /\ new.history = pools[p].history
    BY <1>0, <1>3 DEF Pool, EditPool, Active
  <2> HIDE DEF new
  <2> QED BY <1>1, <2>1, <2>2 DEF new
<1>4. CASE AnnotatePool(p)
  <2>1. PICK ip \in IPs, id \in LBs :
          UserWritesPool("annotatePool", p, [pools[p] EXCEPT !.release = <<ip, id>>])
    BY <1>4 DEF AnnotatePool
  <2> DEFINE new == [pools[p] EXCEPT !.release = <<ip, id>>]
  <2>2. new.exists /\ new.allocated = pools[p].allocated /\ new.history = pools[p].history
    BY <1>0, <1>4 DEF Pool, AnnotatePool, Active
  <2> HIDE DEF new
  <2> QED BY <1>1, <2>1, <2>2 DEF new
<1>5. CASE DeletePool(p)
  <2> DEFINE new == [pools[p] EXCEPT !.deleting = TRUE]
  <2>1. UserWritesPool("deletePool", p, new) \/ UserWritesPool("deletePool", p, NoPool)
    BY <1>5 DEF DeletePool
  <2>2. new.exists /\ new.allocated = pools[p].allocated /\ new.history = pools[p].history
    BY <1>0, <1>5 DEF Pool, DeletePool, Active
  <2>3. pools[p].allocated = NoPool.allocated /\ \A ip \in IPs : NoPool.history[ip] = None
    <3>1. pools[p].allocated \in [IPs -> Owners] BY <1>0 DEF Pool
    <3>2. \A ip \in IPs : pools[p].allocated[ip] = None BY <1>5 DEF DeletePool, Keys
    <3>3. NoPool.allocated = NoOwners /\ NoPool.history = NoOwners BY DEF NoPool
    <3> QED BY <3>1, <3>2, <3>3 DEF NoOwners
  <2> HIDE DEF new
  <2> QED BY <1>1, <2>1, <2>2, <2>3
<1> QED BY <1>2, <1>3, <1>4, <1>5

\* Every step moves the pools in one of these ways.
LEMMA MovesStep ==
    ASSUME IndInv, Books, SoundPools, [Next]_vars
    PROVE  Moves
<1>0. TypeOK BY DEF IndInv
<1>1. ASSUME NEW l \in LBs, LBWorker(l), ~LBReserve(l), ~LBRelease(l)
      PROVE  UNCHANGED poolVars
  <2>1. CASE LBSkip(l) \/ LBOnRemove(l) \/ LBOnChangeDHCP(l) \/ LBOnChangePool(l)
    BY <2>1 DEF LBSkip, LBOnRemove, LBOnChangeDHCP, LBOnChangePool, LBTake
  <2>2. CASE LBSelect(l) \/ LBLookup(l) \/ LBHistory(l) \/ LBGetByID(l) \/ LBGetIter(l)
    BY <2>2 DEF LBSelect, LBLookup, LBHistory, LBGetByID, LBGetIter
  <2>3. CASE LBWrite(l) \/ LBAddFinalizer(l) \/ LBRemoveFinalizer(l)
    BY <2>3 DEF LBWrite, LBAddFinalizer, LBRemoveFinalizer
  <2> QED BY <1>1, <2>1, <2>2, <2>3 DEF LBWorker
<1>2. ASSUME NEW l \in LBs, CreateLB(l) \/ EditLB(l) \/ DeleteLB(l) \/ LBEnqueue(l) \/ SyncLB(l)
      PROVE  UNCHANGED poolVars
  BY <1>2 DEF CreateLB, EditLB, DeleteLB, LBEnqueue, SyncLB, UserWritesLB
<1>3. ASSUME NEW p \in Pools, SyncPool(p) PROVE Moves
  <2>1. poolCache'[p] = pools[p] /\ \A x \in Pools : x # p => poolCache'[x] = poolCache[x]
    BY <1>0, <1>3 DEF SyncPool, TypeOK
  <2>2. pools' = pools BY <1>3 DEF SyncPool
  <2>3. SoundPools' BY <2>1, <2>2 DEF SoundPools, Books
  <2> QED BY <2>2, <2>3 DEF Moves, Moved, Tidied
<1>4. CASE Restart
  <2>1. pools' = pools /\ poolCache' = pools BY <1>4 DEF Restart
  <2>2. SoundPools' BY <2>1 DEF SoundPools, Books
  <2> QED BY <2>1, <2>2 DEF Moves, Moved, Tidied
<1>5. ASSUME UNCHANGED poolVars PROVE Moves BY <1>5, MovesNothing DEF poolVars
<1>6. CASE UNCHANGED vars BY <1>5, <1>6 DEF vars, poolVars
<1> QED BY <1>1, <1>2, <1>3, <1>4, <1>5, <1>6, ReserveMoves, ReleaseMoves, PoolWorkerMoves,
           UserMoves DEF Next, Outside

\* The pools are sound initially, and stay so.
LEMMA SoundInvariant == Spec => []SoundPools
<1>1. Init => SoundPools
  <2> SUFFICES ASSUME Init, NEW p \in Pools
               PROVE  /\ pools[p].exists \/ pools[p] = NoPool
                      /\ HistoryFree(poolCache[p])
    BY DEF SoundPools
  <2>1. PICK rs \in [ReadyPools -> RangeSets] :
          pools = [x \in Pools |-> IF x \in ReadyPools THEN ReadyPool(rs[x]) ELSE NoPool]
    BY DEF Init
  <2>2. \A r : ReadyPool(r).exists BY DEF NoPool, ReadyPool
  <2>3. poolCache[p] = pools[p] BY DEF Init
  <2>4. HistoryFree(pools[p]) BY BooksInit DEF Books
  <2> QED BY <2>1, <2>2, <2>3, <2>4
<1>2. IndInv /\ Books /\ SoundPools /\ [Next]_vars => SoundPools' BY MovesStep DEF Moves
<1> QED BY <1>1, <1>2, Inductive, BooksInvariant, PTL DEF Spec

\* An address is held by a load balancer, or remembered for it.
Held(l, p, ip) == pools[p].allocated[ip] = l

Known(l, p, ip) == l \in {pools[p].allocated[ip], pools[p].history[ip]}

\* The two ways in which an address leaves the books behind the back of its
\* worker: the manual release, which is no race for a load balancer that is
\* gone, and the removal of the pool.
ByHand(l) == "byHand" \in raced'[l] \/ (~lbs[l].exists /\ lbWork[l].pc = "idle")

PoolGone(l) == "poolGone" \in raced'[l]

\* The manual release is remembered,
LEMMA HandIsRemembered ==
    ASSUME IndInv, NEW p \in Pools, PoolManualRelease(p), pools'[p] # pools[p],
           poolWork[p].obj.release[2] \in LBs
    PROVE  ByHand(poolWork[p].obj.release[2])
<1>1. PICK id \in LBs : id = poolWork[p].obj.release[2] OBVIOUS
<1>2. Raced(id, "byHand", /\ pools'[p] # pools[p]
                          /\ lbs[id].exists \/ lbWork[id].pc # "idle")
  BY <1>1 DEF PoolManualRelease
<1>3. raced \in [LBs -> SUBSET Races] BY DEF IndInv, TypeOK
<1> QED BY <1>1, <1>2, <1>3 DEF Raced, ByHand

\* and so is the removal of a pool.
LEMMA DropIsRemembered ==
    ASSUME NEW p \in Pools, PoolRemoveFinalizer(p), pools'[p] # pools[p],
           NEW l \in LBs, NEW ip \in IPs, Held(l, p, ip)
    PROVE  PoolGone(l)
<1>1. Holds(pools[p], l) # {} BY DEF Holds, Held
<1> QED BY <1>1 DEF PoolRemoveFinalizer, PoolGone

\* Only its own worker gives a load balancer an address; it takes one away, or
\* it is one of the two races.
LEMMA HolderStep ==
    ASSUME IndInv, Moves, NEW l \in LBs, NEW p \in Pools, NEW ip \in IPs
    PROVE  /\ Held(l, p, ip)' => \/ Held(l, p, ip)
                                 \/ LBReserve(l) /\ p = lbWork[l].pool /\ ip = Head(lbWork[l].tries)
           /\ Held(l, p, ip) => \/ Held(l, p, ip)'
                                \/ LBRelease(l) /\ p = lbWork[l].pool
                                \/ ByHand(l) \/ PoolGone(l)
           /\ Known(l, p, ip)' => \/ Known(l, p, ip)
                                  \/ LBReserve(l) /\ p = lbWork[l].pool /\ ip = Head(lbWork[l].tries)
           /\ pools'[p].history[ip] = l => pools[p].history[ip] = l \/ LBRelease(l) \/ ByHand(l)
<1> DEFINE old == pools[p]
           new == pools'[p]
<1>0. /\ old \in Pool /\ old.allocated \in [IPs -> Owners] /\ old.history \in [IPs -> Owners]
      /\ None \notin LBs
  BY IPAMAssumption DEF IndInv, TypeOK, Pool
<1>1. CASE Granted(p)
  <2>1. PICK x \in LBs, i \in IPs :
          /\ LBReserve(x) /\ p = lbWork[x].pool /\ i = Head(lbWork[x].tries)
          /\ old.allocated[i] = None /\ new = Reserved(old, i, x)
    BY <1>1 DEF Granted
  <2> HIDE DEF old, new
  <2>2. /\ new.allocated = [old.allocated EXCEPT ![i] = x]
        /\ new.history = [old.history EXCEPT ![i] = None]
    BY <1>0, <2>1, ReservedFields
  <2>3. new.allocated[ip] = (IF ip = i THEN x ELSE old.allocated[ip])
        /\ new.history[ip] = (IF ip = i THEN None ELSE old.history[ip])
    BY <1>0, <2>2
  <2> QED BY <1>0, <2>1, <2>3 DEF Held, Known, old, new
<1>2. ASSUME NEW x \in LBs, NEW i \in IPs, old.allocated[i] = x, new = Released(old, i)
      PROVE  /\ new.allocated[ip] = (IF ip = i THEN None ELSE old.allocated[ip])
             /\ new.history[ip] = (IF ip = i THEN x ELSE old.history[ip])
  <2> HIDE DEF old, new
  <2>1. /\ new.allocated = [old.allocated EXCEPT ![i] = None]
        /\ new.history = [old.history EXCEPT ![i] = old.allocated[i]]
    BY <1>0, <1>2, ReleasedFields
  <2> QED BY <1>0, <1>2, <2>1
<1>3. CASE Freed(p)
  <2>1. PICK x \in LBs, i \in IPs :
          /\ LBRelease(x) /\ p = lbWork[x].pool /\ old.allocated[i] = x /\ new = Released(old, i)
    BY <1>3 DEF Freed
  <2>2. /\ new.allocated[ip] = (IF ip = i THEN None ELSE old.allocated[ip])
        /\ new.history[ip] = (IF ip = i THEN x ELSE old.history[ip])
    BY <1>2, <2>1
  <2> QED BY <1>0, <2>1, <2>2 DEF Held, Known
<1>4. CASE FreedByHand(p)
  <2>1. PICK x \in LBs, i \in IPs :
          /\ PoolManualRelease(p) /\ x = poolWork[p].obj.release[2]
          /\ old.allocated[i] = x /\ new = Released(old, i)
    BY <1>4 DEF FreedByHand
  <2>2. /\ new.allocated[ip] = (IF ip = i THEN None ELSE old.allocated[ip])
        /\ new.history[ip] = (IF ip = i THEN x ELSE old.history[ip])
    BY <1>2, <2>1
  <2>3. new # old
    <3> HIDE DEF old, new
    <3>1. new.allocated = [old.allocated EXCEPT ![i] = None] BY <1>0, <2>1, ReleasedFields
    <3>2. new.allocated[i] = None BY <1>0, <3>1
    <3> QED BY <1>0, <2>1, <3>2
  <2>4. ByHand(x) BY <2>1, <2>3, HandIsRemembered
  <2> QED BY <1>0, <2>1, <2>2, <2>4 DEF Held, Known
<1>5. CASE Dropped(p)
  <2>1. PoolRemoveFinalizer(p) /\ new = NoPool /\ new # old BY <1>5 DEF Dropped
  <2>2. NoPool.allocated[ip] = None /\ NoPool.history[ip] = None BY DEF NoPool, NoOwners
  <2>3. Held(l, p, ip) => PoolGone(l) BY <2>1, DropIsRemembered
  <2> QED BY <1>0, <2>1, <2>2, <2>3 DEF Held, Known
<1>6. CASE Tidied(p)
  <2>1. /\ new.allocated = old.allocated /\ new.history[ip] \in {old.history[ip], None}
    BY <1>6 DEF Tidied
  <2> QED BY <1>0, <2>1 DEF Held, Known
<1> QED BY <1>1, <1>3, <1>4, <1>5, <1>6 DEF Moves, Moved

\* No race is forgotten.
LEMMA RacesStay ==
    ASSUME IndInv, [Next]_vars, NEW l \in LBs
    PROVE  raced[l] \subseteq raced'[l]
<1>0. TypeOK /\ Shape /\ raced \in [LBs -> SUBSET Races] BY DEF IndInv, TypeOK
<1>1. ASSUME NEW x \in LBs, NEW k, NEW b, Raced(x, k, b) PROVE raced[l] \subseteq raced'[l]
  BY <1>0, <1>1 DEF Raced
<1>2. ASSUME NEW x \in LBs, LBWorker(x) PROVE raced[l] \subseteq raced'[l]
  <2>1. CASE LBSkip(x) \/ LBOnRemove(x) \/ LBOnChangeDHCP(x) \/ LBOnChangePool(x)
    <3>1. Raced(x, "staleLB", Misread(x))
      BY <2>1 DEF LBSkip, LBOnRemove, LBOnChangeDHCP, LBOnChangePool, LBTake
    <3> QED BY <1>1, <3>1
  <2>2. CASE LBHistory(x) \/ LBGetByID(x) \/ LBRelease(x)
    <3>1. \E k, b : Raced(x, k, b) BY <2>2 DEF LBHistory, LBGetByID, LBRelease
    <3> QED BY <1>1, <3>1
  <2>3. CASE \/ LBSelect(x) \/ LBLookup(x) \/ LBGetIter(x) \/ LBReserve(x)
             \/ LBWrite(x) \/ LBAddFinalizer(x) \/ LBRemoveFinalizer(x)
    BY <2>3 DEF LBSelect, LBLookup, LBGetIter, LBReserve, LBWrite, LBAddFinalizer, LBRemoveFinalizer
  <2> QED BY <1>2, <2>1, <2>2, <2>3 DEF LBWorker
<1>3. ASSUME NEW p \in Pools, PoolWorker(p) PROVE raced[l] \subseteq raced'[l]
  <2>1. CASE PoolManualRelease(p)
    <3>1. poolWork[p].obj.release \in IPs \X LBs
      BY <1>0, <2>1, PoolWorkType DEF PoolManualRelease, PoolShape, Pool
    <3>2. poolWork[p].obj.release[2] \in LBs BY <3>1
    <3>3. \E k, b : Raced(poolWork[p].obj.release[2], k, b) BY <2>1 DEF PoolManualRelease
    <3> QED BY <1>1, <3>2, <3>3
  <2>2. CASE PoolRemoveFinalizer(p) BY <1>0, <2>2 DEF PoolRemoveFinalizer
  <2>3. CASE \/ PoolStart(p) \/ PoolRegister(p) \/ PoolStatus(p) \/ PoolManual(p)
             \/ PoolManualDone(p) \/ PoolAddFinalizer(p) \/ PoolUnregister(p)
    BY <2>3 DEF PoolStart, PoolRegister, PoolStatus, PoolManual, PoolManualDone, PoolAddFinalizer,
                PoolUnregister
  <2> QED BY <1>3, <2>1, <2>2, <2>3 DEF PoolWorker
<1>4. ASSUME NEW x \in LBs, CreateLB(x) \/ EditLB(x) \/ DeleteLB(x) \/ LBEnqueue(x) \/ SyncLB(x)
      PROVE  raced[l] \subseteq raced'[l]
  <2>1. CASE EditLB(x)
    <3>1. \E b : Raced(x, "editedBack", b) BY <2>1 DEF EditLB
    <3> QED BY <1>1, <3>1
  <2> QED BY <1>4, <2>1 DEF CreateLB, DeleteLB, LBEnqueue, SyncLB
<1>5. ASSUME NEW p \in Pools,
             SyncPool(p) \/ CreatePool(p) \/ EditPool(p) \/ AnnotatePool(p) \/ DeletePool(p)
      PROVE  raced[l] \subseteq raced'[l]
  BY <1>5 DEF SyncPool, CreatePool, EditPool, AnnotatePool, DeletePool, UserWritesPool
<1>6. CASE Restart \/ UNCHANGED vars BY <1>6 DEF Restart, vars
<1> QED BY <1>2, <1>3, <1>4, <1>5, <1>6 DEF Next, Outside

\* Who is spared after a step was spared before.
LEMMA SparedBefore ==
    ASSUME IndInv, [Next]_vars, NEW l \in LBs, NEW S, Spared(l, S)'
    PROVE  Spared(l, S)
  BY RacesStay DEF Spared

-----------------------------------------------------------------------------
(* A status names only addresses that are held *)

\* The races that separate the status from the books.
BookRaces == {"staleLB", "editedBack", "byHand", "poolGone"}

\* Address a is allocated to l in pools P.
BookedAt(l, a, P) == a.ip \in IPs /\ P[a.pool].allocated[a.ip] = l

\* While pass w has not written, load balancer o has the address it had when the
\* pass began, or none, and it still gives it up if the pass does.
StillItsAddress(w, o) ==
    (w.pc \notin {"idle", "addFinalizer"} /\ o.addr.pool # None)
        => o.addr = w.obj.addr /\ (Leaving(w.obj) => Leaving(o))
\* What pass w may still reserve for l without a write is really held in pools
\* P if the cached ones C say so, and a new address that it will write is held.
BookingPass(l, w, P, C) ==
    /\ w.pc = "getIter" => \A ip \in IPs :
          InRangeSet(w.ranges, ip) /\ C[w.pool].allocated[ip] = l => P[w.pool].allocated[ip] = l
    /\ w.pc \in {"request", "reserve"} => \A k \in DOMAIN w.tries :
          C[w.pool].allocated[w.tries[k]] = l => P[w.pool].allocated[w.tries[k]] = l
    /\ (w.pc = "write" /\ w.addr.pool # None /\ w.addr # w.obj.addr) => BookedAt(l, w.addr, P)

\* The address of o is held unless it is being given up.
StatusBooked(l, o, P) ==
    (Active(o) /\ o.addr.pool # None /\ ~PoolChanged(o)) => BookedAt(l, o.addr, P)

LBBooking(l) ==
    /\ StillItsAddress(lbWork[l], lbs[l])
    /\ BookingPass(l, lbWork[l], pools, poolCache)
    /\ StatusBooked(l, lbs[l], pools)

BookingInv == \A l \in LBs : Spared(l, BookRaces) => LBBooking(l)

\* What a load balancer that is spared holds it keeps while it or its pass
\* exists and does not release.
LEMMA HeldStays ==
    ASSUME IndInv, Moves, NEW l \in LBs, Spared(l, BookRaces)',
           lbWork[l].pc # "release", lbs[l].exists \/ lbWork[l].pc # "idle",
           NEW p \in Pools, NEW ip \in IPs, pools[p].allocated[ip] = l
    PROVE  pools'[p].allocated[ip] = l
<1>1. ~LBRelease(l) BY DEF LBRelease
<1>2. ~ByHand(l) /\ ~PoolGone(l) BY DEF ByHand, PoolGone, Spared, BookRaces
<1>3. Held(l, p, ip)' BY <1>1, <1>2, HolderStep DEF Held
<1> QED BY <1>3 DEF Held

\* A pass that releases does so for a load balancer that has no address, gives
\* it up, or is being deleted: any other keeps what it holds.
LEMMA KeepsBooked ==
    ASSUME IndInv, StatusInv, Moves, NEW l \in LBs, LBBooking(l), Spared(l, BookRaces)'
    PROVE  StatusBooked(l, lbs[l], pools')
<1> SUFFICES ASSUME Active(lbs[l]), lbs[l].addr.pool # None, ~PoolChanged(lbs[l])
             PROVE  BookedAt(l, lbs[l].addr, pools')
  BY DEF StatusBooked
<1> DEFINE a == lbs[l].addr
           w == lbWork[l]
<1>1. BookedAt(l, a, pools) BY DEF LBBooking, StatusBooked
<1>2. a \in Address /\ a.pool \in Pools /\ a.ip \in IPs
  <2>1. a \in Address BY DEF IndInv, TypeOK, LB
  <2> QED BY <1>1, <2>1 DEF Address, BookedAt
<1>3. w.pc # "release"
  <2> SUFFICES ASSUME w.pc = "release" PROVE FALSE OBVIOUS
  <2>1. a = w.obj.addr /\ ~Leaving(w.obj)
    BY DEF LBBooking, StillItsAddress, Leaving, Active
  <2>2. LBIntent(w) /\ w.goal \in {"get", "dup", "change", "remove"}
    BY PassIsOK DEF PassOK, IndInv, TypeOK, LBPass
  <2>3. w.goal \notin {"get", "dup"} BY <2>1, <2>2 DEF LBIntent
  <2>4. w.goal \notin {"change", "remove"} BY <2>1, <2>2 DEF LBIntent, Leaving
  <2> QED BY <2>2, <2>3, <2>4
<1> QED BY <1>1, <1>2, <1>3, HeldStays DEF BookedAt, Active

\* What a pass counts on stays true while it waits.
LEMMA KeepsPass ==
    ASSUME IndInv, Moves, NEW l \in LBs, LBBooking(l), Spared(l, BookRaces)',
           \A p \in Pools : poolCache'[p] = poolCache[p] \/ poolCache'[p] = pools'[p]
    PROVE  BookingPass(l, lbWork[l], pools', poolCache')
<1> DEFINE w == lbWork[l]
<1>0. TypeOK /\ Shape BY DEF IndInv
<1>1. BookingPass(l, w, pools, poolCache) BY DEF LBBooking
<1>2. LBShape(w) /\ w.tries \in Seq(IPs) /\ w.addr \in Address /\ w.addr.pool \in Pools \cup {None}
  BY <1>0, WorkType DEF Address
<1>3. ASSUME w.pc \notin {"idle", "release"}, NEW p \in Pools, NEW ip \in IPs, pools[p].allocated[ip] = l
      PROVE  pools'[p].allocated[ip] = l
  BY <1>3, HeldStays
<1>4. w.pc = "getIter" => \A ip \in IPs :
          InRangeSet(w.ranges, ip) /\ poolCache'[w.pool].allocated[ip] = l
              => pools'[w.pool].allocated[ip] = l
  <2> SUFFICES ASSUME w.pc = "getIter", NEW ip \in IPs, InRangeSet(w.ranges, ip),
                      poolCache'[w.pool].allocated[ip] = l
               PROVE  pools'[w.pool].allocated[ip] = l
    OBVIOUS
  <2>1. w.pool \in Pools BY <1>2 DEF LBShape
  <2> QED BY <1>1, <1>3, <2>1 DEF BookingPass
<1>5. w.pc \in {"request", "reserve"} => \A k \in DOMAIN w.tries :
          poolCache'[w.pool].allocated[w.tries[k]] = l => pools'[w.pool].allocated[w.tries[k]] = l
  <2> SUFFICES ASSUME w.pc \in {"request", "reserve"}, NEW k \in DOMAIN w.tries,
                      poolCache'[w.pool].allocated[w.tries[k]] = l
               PROVE  pools'[w.pool].allocated[w.tries[k]] = l
    OBVIOUS
  <2>1. w.pool \in Pools /\ w.tries[k] \in IPs BY <1>2 DEF LBShape
  <2> QED BY <1>1, <1>3, <2>1 DEF BookingPass
<1>6. (w.pc = "write" /\ w.addr.pool # None /\ w.addr # w.obj.addr) => BookedAt(l, w.addr, pools')
  BY <1>1, <1>2, <1>3 DEF BookingPass, BookedAt
<1> QED BY <1>4, <1>5, <1>6 DEF BookingPass

\* A step that neither writes load balancer l nor moves its pass on.
LEMMA BookingStays ==
    ASSUME IndInv, StatusInv, Moves, NEW l \in LBs, LBBooking(l), Spared(l, BookRaces)',
           lbs'[l] = lbs[l], lbWork'[l] = lbWork[l],
           \A p \in Pools : poolCache'[p] = poolCache[p] \/ poolCache'[p] = pools'[p]
    PROVE  LBBooking(l)'
<1>1. StillItsAddress(lbWork[l], lbs[l]) BY DEF LBBooking
<1> QED BY <1>1, KeepsBooked, KeepsPass DEF LBBooking

\* A step that moves the pass of l on, over the same object, or ends it.
LEMMA BookingGoes ==
    ASSUME IndInv, StatusInv, Moves, NEW l \in LBs, LBBooking(l), Spared(l, BookRaces)',
           lbs'[l] = lbs[l],
           NEW w, LBGoes(l, w), BookingPass(l, w, pools', poolCache'),
           \/ w.pc \in {"idle", "addFinalizer"}
           \/ lbWork[l].pc \notin {"idle", "addFinalizer"} /\ w.obj = lbWork[l].obj
    PROVE  LBBooking(l)'
<1>1. lbWork'[l] = w BY DEF LBGoes, IndInv, TypeOK
<1>2. StillItsAddress(lbWork[l], lbs[l]) BY DEF LBBooking
<1>3. StillItsAddress(w, lbs[l]) BY <1>2 DEF StillItsAddress
<1> QED BY <1>1, <1>3, KeepsBooked DEF LBBooking

\* A pass that ends with the address it began with, or none, or one that is held.
LEMMA BookingFinishes ==
    ASSUME IndInv, StatusInv, Moves, NEW l \in LBs, LBBooking(l), Spared(l, BookRaces)',
           lbs'[l] = lbs[l],
           lbWork[l].pc \notin {"idle", "addFinalizer"}, NEW ad, NEW c,
           LBFinishes(l, lbWork[l], ad, c),
           ad = lbWork[l].obj.addr \/ ad.pool = None \/ BookedAt(l, ad, pools')
    PROVE  LBBooking(l)'
<1> DEFINE w == lbWork[l]
           write == [IdleLB EXCEPT !.pc = "write", !.obj = w.obj, !.fresh = w.fresh,
                                   !.addr = ad, !.cond = c]
           add == [IdleLB EXCEPT !.pc = "addFinalizer", !.obj = w.obj, !.fresh = w.fresh]
<1>1. write.pc = "write" /\ write.obj = w.obj /\ write.addr = ad BY DEF IdleLB
<1>2. add.pc = "addFinalizer" /\ IdleLB.pc = "idle" BY DEF IdleLB
<1>3. LBGoes(l, write) \/ LBGoes(l, add) \/ LBGoes(l, IdleLB) BY DEF LBFinishes, AfterChange
<1> HIDE DEF write, add
<1>4. BookingPass(l, write, pools', poolCache') BY <1>1 DEF BookingPass
<1>5. BookingPass(l, add, pools', poolCache') /\ BookingPass(l, IdleLB, pools', poolCache')
  BY <1>2 DEF BookingPass
<1> QED BY <1>1, <1>2, <1>3, <1>4, <1>5, BookingGoes

\* handleError and an error of OnRemove.
LEMMA BookingFails ==
    ASSUME IndInv, StatusInv, Moves, NEW l \in LBs, LBBooking(l), Spared(l, BookRaces)',
           lbs'[l] = lbs[l],
           lbWork[l].pc \notin {"idle", "addFinalizer"}, LBFails(l) \/ LBGivesUp(l)
    PROVE  LBBooking(l)'
<1>1. CASE LBFails(l) BY <1>1, BookingFinishes DEF LBFails
<1>2. CASE LBGivesUp(l)
  <2>1. LBGoes(l, IdleLB) /\ IdleLB.pc = "idle" BY <1>2 DEF LBGivesUp, IdleLB
  <2>2. BookingPass(l, IdleLB, pools', poolCache') BY <2>1 DEF BookingPass
  <2> QED BY <2>1, <2>2, BookingGoes
<1> QED BY <1>1, <1>2

\* A pass begins with the current load balancer.
LEMMA BookingStarts ==
    ASSUME IndInv, StatusInv, Moves, NEW l \in LBs, LBBooking(l), Spared(l, BookRaces)',
           LBSkip(l) \/ LBOnRemove(l) \/ LBOnChangeDHCP(l) \/ LBOnChangePool(l)
    PROVE  LBBooking(l)'
<1> DEFINE t == LBTaken(l)
           obj == lbCache[l]
<1>0. LBTake(l) BY DEF LBSkip, LBOnRemove, LBOnChangeDHCP, LBOnChangePool
<1>1. lbs' = lbs BY <1>0 DEF LBTake, lbVars
<1>2. obj.addr = lbs[l].addr /\ (Leaving(obj) => Leaving(lbs[l]))
  <2>1. ~Misread(l)
    <3>1. raced \in [LBs -> SUBSET Races] BY DEF IndInv, TypeOK
    <3> QED BY <1>0, <3>1 DEF LBTake, Raced, Spared, BookRaces
  <2> QED BY <2>1 DEF Misread
<1>3. t \in LBPass /\ t.obj = obj /\ t.pc = "idle" BY TakenIsOK DEF IndInv
<1>4. ASSUME NEW w, LBGoes(l, w), w.pc \in {"idle", "addFinalizer"} \/ w.obj = obj,
             w.pc \in {"idle", "select", "lookup", "write", "addFinalizer", "removeFinalizer"},
             w.pc = "write" => w.addr.pool = None \/ w.addr = w.obj.addr
      PROVE  LBBooking(l)'
  <2>1. lbWork'[l] = w BY <1>4 DEF LBGoes, IndInv, TypeOK
  <2>2. BookingPass(l, w, pools', poolCache') BY <1>4 DEF BookingPass
  <2>3. StillItsAddress(w, lbs[l]) BY <1>2, <1>4 DEF StillItsAddress
  <2> QED BY <1>1, <2>1, <2>2, <2>3, KeepsBooked DEF LBBooking
<1>5. ASSUME NEW ad, NEW c, LBFinishes(l, t, ad, c), ad.pool = None \/ ad = obj.addr
      PROVE  LBBooking(l)'
  <2> DEFINE write == [IdleLB EXCEPT !.pc = "write", !.obj = t.obj, !.fresh = t.fresh,
                                     !.addr = ad, !.cond = c]
             add == [IdleLB EXCEPT !.pc = "addFinalizer", !.obj = t.obj, !.fresh = t.fresh]
  <2>1. write.pc = "write" /\ write.obj = t.obj /\ write.addr = ad BY DEF IdleLB
  <2>2. add.pc = "addFinalizer" /\ IdleLB.pc = "idle" BY DEF IdleLB
  <2>3. LBGoes(l, write) \/ LBGoes(l, add) \/ LBGoes(l, IdleLB)
    BY <1>5 DEF LBFinishes, AfterChange
  <2> HIDE DEF write, add, t, obj
  <2> QED BY <1>3, <1>4, <1>5, <2>1, <2>2, <2>3
<1>6. CASE LBSkip(l)
  <2>1. LBGoes(l, IdleLB) /\ IdleLB.pc = "idle" BY <1>6 DEF LBSkip, IdleLB
  <2> QED BY <1>4, <2>1
<1>7. CASE LBOnRemove(l)
  <2> DEFINE rm == [t EXCEPT !.pc = "lookup", !.goal = "remove", !.pool = obj.addr.pool]
             fin == [t EXCEPT !.pc = "removeFinalizer"]
  <2>1. LBGoes(l, rm) \/ LBGoes(l, fin) BY <1>7 DEF LBOnRemove
  <2>2. rm.pc = "lookup" /\ rm.obj = obj /\ fin.pc = "removeFinalizer" /\ fin.obj = obj
    BY <1>3 DEF LBPass
  <2> HIDE DEF rm, fin, t, obj
  <2> QED BY <1>4, <2>1, <2>2
<1>8. CASE LBOnChangeDHCP(l)
  <2>1. LBFinishes(l, t, DHCPAddress, "True") /\ DHCPAddress.pool = None
    BY <1>8 DEF LBOnChangeDHCP, DHCPAddress
  <2> QED BY <1>5, <2>1
<1>9. CASE LBOnChangePool(l)
  <2> DEFINE first == IF obj.pool = None THEN "select" ELSE "lookup"
             change == [t EXCEPT !.pc = "lookup", !.goal = "change", !.pool = obj.addr.pool]
             get == [t EXCEPT !.pc = first, !.pool = obj.pool]
  <2>1. LBGoes(l, change) \/ LBFinishes(l, t, obj.addr, "True") \/ LBGoes(l, get)
    BY <1>9 DEF LBOnChangePool
  <2>2. change.pc = "lookup" /\ change.obj = obj /\ get.pc \in {"select", "lookup"} /\ get.obj = obj
    BY <1>3 DEF LBPass
  <2> HIDE DEF change, get, first, t, obj
  <2> QED BY <1>4, <1>5, <2>1, <2>2
<1> QED BY <1>6, <1>7, <1>8, <1>9

\* A search only counts on what the cached pool showed.
LEMMA BookingSearches ==
    ASSUME IndInv, StatusInv, SoundPools, Moves, NEW l \in LBs, LBBooking(l), Spared(l, BookRaces)',
           LBSelect(l) \/ LBLookup(l) \/ LBHistory(l) \/ LBGetByID(l) \/ LBGetIter(l)
    PROVE  LBBooking(l)'
<1> DEFINE w == lbWork[l]
<1>0. TypeOK /\ Shape /\ w \in LBPass /\ LBShape(w) /\ w.tries \in Seq(IPs)
  BY WorkType DEF IndInv
<1>1. lbs' = lbs /\ pools' = pools /\ poolCache' = poolCache
  BY DEF LBSelect, LBLookup, LBHistory, LBGetByID, LBGetIter, lbVars, poolVars
<1>2. w.pc \notin {"idle", "addFinalizer"}
  BY DEF LBSelect, LBLookup, LBHistory, LBGetByID, LBGetIter
<1>a. ASSUME LBFails(l) \/ LBGivesUp(l) PROVE LBBooking(l)' BY <1>1, <1>2, <1>a, BookingFails
<1>b. ASSUME NEW next, LBGoes(l, next), next.obj = w.obj, BookingPass(l, next, pools, poolCache)
      PROVE  LBBooking(l)'
  BY <1>1, <1>2, <1>b, BookingGoes
<1>3. CASE LBSelect(l)
  <2>1. ASSUME NEW p, LBGoes(l, [w EXCEPT !.pc = "lookup", !.pool = p]) PROVE LBBooking(l)'
    <3> DEFINE next == [w EXCEPT !.pc = "lookup", !.pool = p]
    <3>1. next.pc = "lookup" /\ next.obj = w.obj /\ LBGoes(l, next) BY <1>0, <2>1 DEF LBPass
    <3> HIDE DEF next
    <3>2. BookingPass(l, next, pools, poolCache) BY <3>1 DEF BookingPass
    <3> QED BY <1>b, <3>1, <3>2
  <2> QED BY <1>3, <1>a, <2>1 DEF LBSelect, LBContinues
<1>4. CASE LBLookup(l)
  <2> DEFINE h == [w EXCEPT !.pc = "history", !.ranges = allocators[w.pool]]
             r == [w EXCEPT !.pc = "release"]
  <2>1. LBGoes(l, h) \/ LBGoes(l, r) \/ LBFails(l) \/ LBGivesUp(l)
    BY <1>4 DEF LBLookup, LBContinues
  <2>2. h.pc = "history" /\ h.obj = w.obj /\ r.pc = "release" /\ r.obj = w.obj BY <1>0 DEF LBPass
  <2> HIDE DEF h, r
  <2>3. BookingPass(l, h, pools, poolCache) /\ BookingPass(l, r, pools, poolCache)
    BY <2>2 DEF BookingPass
  <2> QED BY <1>a, <1>b, <2>1, <2>2, <2>3
<1>5. CASE LBHistory(l)
  <2>1. \/ LBFails(l) \/ LBGoes(l, [w EXCEPT !.pc = "getByID"])
        \/ \E ip \in IPs : /\ poolCache[w.pool].history[ip] = l
                           /\ LBGoes(l, [w EXCEPT !.pc = "request", !.tries = <<ip>>, !.ranges = None])
    BY <1>5 DEF LBHistory, LBContinues
  <2>2. ASSUME NEW ip \in IPs, poolCache[w.pool].history[ip] = l,
               LBGoes(l, [w EXCEPT !.pc = "request", !.tries = <<ip>>, !.ranges = None])
        PROVE  LBBooking(l)'
    <3> DEFINE next == [w EXCEPT !.pc = "request", !.tries = <<ip>>, !.ranges = None]
    <3>1. /\ next.pc = "request" /\ next.obj = w.obj /\ next.pool = w.pool /\ next.tries = <<ip>>
          /\ LBGoes(l, next)
      BY <1>0, <2>2 DEF LBPass
    <3>2. w.pool \in Pools BY <1>0, <1>5 DEF LBHistory, LBShape
    <3>3. HistoryFree(poolCache[w.pool]) BY <3>2 DEF SoundPools
    <3>4. poolCache[w.pool].allocated[ip] # l
      BY <2>2, <3>3, IPAMAssumption DEF HistoryFree, Keys
    <3> HIDE DEF next
    <3>5. BookingPass(l, next, pools, poolCache) BY <3>1, <3>4 DEF BookingPass
    <3> QED BY <1>b, <3>1, <3>5
  <2>3. ASSUME LBGoes(l, [w EXCEPT !.pc = "getByID"]) PROVE LBBooking(l)'
    <3> DEFINE next == [w EXCEPT !.pc = "getByID"]
    <3>1. next.pc = "getByID" /\ next.obj = w.obj /\ LBGoes(l, next) BY <1>0, <2>3 DEF LBPass
    <3> HIDE DEF next
    <3>2. BookingPass(l, next, pools, poolCache) BY <3>1 DEF BookingPass
    <3> QED BY <1>b, <3>1, <3>2
  <2> QED BY <1>a, <2>1, <2>2, <2>3
<1>6. CASE LBGetByID(l)
  <2> DEFINE it == [w EXCEPT !.pc = "getIter"]
             first == IF w.obj.pool = None THEN "select" ELSE "lookup"
             dup == [w EXCEPT !.pc = first, !.goal = "dup", !.pool = w.obj.pool, !.ranges = None]
  <2>1. \/ /\ \A ip \in IPs : ~(poolCache[w.pool].allocated[ip] = l /\ InRangeSet(w.ranges, ip))
           /\ LBGoes(l, it)
        \/ LBGoes(l, dup)
    BY <1>6 DEF LBGetByID, Shown
  <2>2. /\ it.pc = "getIter" /\ it.obj = w.obj /\ it.pool = w.pool /\ it.ranges = w.ranges
        /\ dup.pc \in {"select", "lookup"} /\ dup.obj = w.obj
    BY <1>0 DEF LBPass
  <2> HIDE DEF it, dup, first
  <2>3. BookingPass(l, dup, pools, poolCache) BY <2>2 DEF BookingPass
  <2>4. (\A ip \in IPs : ~(poolCache[w.pool].allocated[ip] = l /\ InRangeSet(w.ranges, ip)))
           => BookingPass(l, it, pools, poolCache)
    BY <2>2 DEF BookingPass
  <2> QED BY <1>b, <2>1, <2>2, <2>3, <2>4
<1>7. CASE LBGetIter(l)
  <2> DEFINE tries == Candidates(w.ranges, poolCache[w.pool].last)
             next == [w EXCEPT !.pc = "reserve", !.tries = tries, !.ranges = None]
  <2>1. LBFails(l) \/ LBGoes(l, next) BY <1>7 DEF LBGetIter, LBContinues
  <2>2. w.pc = "getIter" /\ w.pool \in Pools /\ w.ranges \in RangeSets
    BY <1>0, <1>7 DEF LBGetIter, LBShape
  <2>3. poolCache[w.pool].last \in IPs \cup {None} BY <1>0, <2>2 DEF TypeOK, Pool
  <2>4. tries \in Seq(IPs) /\ \A k \in DOMAIN tries : InRangeSet(w.ranges, tries[k])
    BY <2>2, CandidatesType
  <2> HIDE DEF tries
  <2>5. next.pc = "reserve" /\ next.obj = w.obj /\ next.pool = w.pool /\ next.tries = tries
    BY <1>0 DEF LBPass
  <2> HIDE DEF next
  <2>6. BookingPass(l, w, pools, poolCache) BY DEF LBBooking
  <2>7. \A k \in DOMAIN tries : tries[k] \in IPs BY <2>4
  <2>8. BookingPass(l, next, pools, poolCache) BY <2>2, <2>4, <2>5, <2>6, <2>7 DEF BookingPass
  <2> QED BY <1>a, <1>b, <2>1, <2>5, <2>8
<1> QED BY <1>3, <1>4, <1>5, <1>6, <1>7

\* What is reserved is held.
LEMMA BookingReserves ==
    ASSUME IndInv, StatusInv, Moves, NEW l \in LBs, LBBooking(l), Spared(l, BookRaces)', LBReserve(l)
    PROVE  LBBooking(l)'
<1> DEFINE w == lbWork[l]
           p == w.pool
           ip == Head(w.tries)
           got == [pool |-> p, ip |-> ip]
           next == [w EXCEPT !.tries = Tail(w.tries)]
<1>0. TypeOK /\ Shape /\ CurrentCopies /\ w \in LBPass /\ w.tries \in Seq(IPs)
  BY WorkType DEF IndInv
<1>1. w.pc \in {"request", "reserve"} /\ p \in Pools /\ ip \in IPs /\ w.tries # <<>>
  <2>1. w.pc \in {"request", "reserve"} BY DEF LBReserve
  <2>2. p \in Pools /\ w.tries # <<>> BY <1>0, <2>1, WorkType DEF LBShape
  <2> QED BY <1>0, <2>1, <2>2
<1>2. lbs' = lbs /\ poolCache' = poolCache BY DEF LBReserve, lbVars
<1>3. BookingPass(l, w, pools, poolCache) BY DEF LBBooking
<1>4. ASSUME pools'[p].allocated[ip] = l, LBSucceeds(l, got) PROVE LBBooking(l)'
  <2>1. BookedAt(l, got, pools') BY <1>1, <1>4 DEF BookedAt
  <2> HIDE DEF got
  <2> QED BY <1>1, <1>2, <1>4, <2>1, BookingFinishes DEF LBSucceeds
<1>5. ASSUME LBFails(l) PROVE LBBooking(l)' BY <1>1, <1>2, <1>5, BookingFails
<1>6. ASSUME LBGoes(l, next), pools' = pools PROVE LBBooking(l)'
  <2>1. next.pc = w.pc /\ next.obj = w.obj /\ next.pool = w.pool /\ next.tries = Tail(w.tries)
    BY <1>0 DEF LBPass
  <2>2. \A k \in DOMAIN Tail(w.tries) : k + 1 \in DOMAIN w.tries /\ Tail(w.tries)[k] = w.tries[k + 1]
    BY <1>0, <1>1
  <2> HIDE DEF next
  <2>3. BookingPass(l, next, pools', poolCache')
    BY <1>1, <1>2, <1>3, <1>6, <2>1, <2>2 DEF BookingPass
  <2> QED BY <1>1, <1>2, <1>6, <2>1, <2>3, BookingGoes
<1>7. CASE LBSucceeds(l, got) /\ poolCache[p].allocated[ip] = l /\ pools' = pools
  <2>1. 1 \in DOMAIN w.tries /\ ip = w.tries[1] BY <1>0, <1>1
  <2>2. pools[p].allocated[ip] = l BY <1>1, <1>3, <1>7, <2>1 DEF BookingPass
  <2> QED BY <1>4, <1>7, <2>2
<1>8. CASE \E ok \in BOOLEAN : /\ UpdatePool(p, poolSynced[p], Reserved(poolCache[p], ip, l), ok)
                               /\ IF ok THEN LBSucceeds(l, got) ELSE LBFails(l)
  <2>1. PICK ok \in BOOLEAN : /\ UpdatePool(p, poolSynced[p], Reserved(poolCache[p], ip, l), ok)
                              /\ IF ok THEN LBSucceeds(l, got) ELSE LBFails(l)
    BY <1>8
  <2>2. CASE ~ok BY <1>5, <2>1, <2>2
  <2>3. CASE ok
    <3>1. poolSynced[p] \in BOOLEAN /\ poolCache[p] \in Pool BY <1>0, <1>1 DEF TypeOK
    <3>2. pools'[p] = Reserved(poolCache[p], ip, l) BY <1>0, <1>1, <2>1, <2>3, <3>1, UpdatePoolEffect
    <3>3. Reserved(poolCache[p], ip, l).allocated = [poolCache[p].allocated EXCEPT ![ip] = l]
      BY <1>1, <3>1, ReservedFields
    <3>4. poolCache[p].allocated \in [IPs -> Owners] BY <3>1 DEF Pool
    <3>5. pools'[p].allocated[ip] = l BY <1>1, <3>2, <3>3, <3>4
    <3> QED BY <1>4, <2>1, <2>3, <3>5
  <2> QED BY <2>2, <2>3
<1>9. \/ LBFails(l)
      \/ LBGoes(l, next) /\ pools' = pools
      \/ LBSucceeds(l, got) /\ poolCache[p].allocated[ip] = l /\ pools' = pools
      \/ \E ok \in BOOLEAN : /\ UpdatePool(p, poolSynced[p], Reserved(poolCache[p], ip, l), ok)
                             /\ IF ok THEN LBSucceeds(l, got) ELSE LBFails(l)
  BY DEF LBReserve, LBContinues
<1> QED BY <1>5, <1>6, <1>7, <1>8, <1>9

\* A release ends the pass or gives the address up.
LEMMA BookingReleases ==
    ASSUME IndInv, StatusInv, Moves, NEW l \in LBs, LBBooking(l), Spared(l, BookRaces)', LBRelease(l)
    PROVE  LBBooking(l)'
<1> DEFINE w == lbWork[l]
           next == [IdleLB EXCEPT !.pc = "removeFinalizer", !.obj = w.obj, !.fresh = w.fresh]
<1>1. w.pc = "release" /\ lbs' = lbs /\ poolCache' = poolCache BY DEF LBRelease, lbVars
<1>2. LBFails(l) \/ LBSucceeds(l, NoAddress) \/ LBGoes(l, next) \/ LBGivesUp(l)
  BY DEF LBRelease, LBContinues
<1>3. next.pc = "removeFinalizer" /\ next.obj = w.obj BY DEF IdleLB
<1> HIDE DEF next
<1>4. BookingPass(l, next, pools', poolCache') BY <1>3 DEF BookingPass
<1>5. ASSUME LBGoes(l, next) PROVE LBBooking(l)' BY <1>1, <1>3, <1>4, <1>5, BookingGoes
<1>6. ASSUME LBSucceeds(l, NoAddress) PROVE LBBooking(l)'
  <2>1. NoAddress.pool = None BY DEF NoAddress
  <2> QED BY <1>1, <1>6, <2>1, BookingFinishes DEF LBSucceeds
<1>7. ASSUME LBFails(l) \/ LBGivesUp(l) PROVE LBBooking(l)' BY <1>1, <1>7, BookingFails
<1> QED BY <1>2, <1>5, <1>6, <1>7

\* What a pass writes is held: its own new address, or the one that was there.
LEMMA BookingWrites ==
    ASSUME IndInv, StatusInv, Moves, NEW l \in LBs, LBBooking(l), Spared(l, BookRaces)',
           LBWrite(l) \/ LBAddFinalizer(l) \/ LBRemoveFinalizer(l)
    PROVE  LBBooking(l)'
<1> DEFINE w == lbWork[l]
           o == lbs[l]
<1>0. TypeOK /\ Shape /\ o \in LB /\ w \in LBPass /\ lbWork \in [LBs -> LBPass]
  BY DEF IndInv, TypeOK
<1>1. pools' = pools /\ poolCache' = poolCache
  BY DEF LBWrite, LBAddFinalizer, LBRemoveFinalizer, poolVars
<1>2. lbWork'[l].pc \in {"idle", "addFinalizer"}
  <2>1. ASSUME NEW x, NEW f PROVE AfterChange(x, f).pc \in {"idle", "addFinalizer"}
    BY DEF AfterChange, IdleLB
  <2>2. IdleLB.pc = "idle" BY DEF IdleLB
  <2>3. \/ LBGoes(l, IdleLB)
        \/ \E x, f : LBGoes(l, AfterChange(x, f))
    BY DEF LBWrite, LBAddFinalizer, LBRemoveFinalizer
  <2> QED BY <1>0, <2>1, <2>2, <2>3 DEF LBGoes
<1>3. StillItsAddress(lbWork'[l], lbs'[l]) BY <1>2 DEF StillItsAddress
<1>4. BookingPass(l, lbWork'[l], pools', poolCache') BY <1>2 DEF BookingPass
<1>5. StatusBooked(l, o, pools) /\ BookingPass(l, w, pools, poolCache) BY DEF LBBooking
<1>6. CASE LBWrite(l)
  <2> DEFINE new == [w.obj EXCEPT !.addr = w.addr, !.cond = w.cond]
  <2>1. PICK ok \in BOOLEAN : UpdateLB(l, w.fresh, new, ok) BY <1>6 DEF LBWrite
  <2>2. w.pc = "write" /\ w.fresh \in BOOLEAN /\ w.obj \in LB BY <1>0, <1>6 DEF LBWrite, LBPass
  <2>3. /\ new.addr = w.addr /\ new.pool = w.obj.pool /\ new.exists = w.obj.exists
        /\ new.deleting = w.obj.deleting
    BY <2>2 DEF LB
  <2> HIDE DEF new
  <2>4. lbs' = lbs \/ (w.fresh /\ lbs'[l] = new) BY <1>0, <2>1, <2>2, UpdateLBEffect
  <2>5. ASSUME w.fresh PROVE StatusBooked(l, new, pools)
    <3>1. w.obj = o BY <2>5, PassIsOK DEF PassOK
    <3>2. CASE w.addr = o.addr BY <1>5, <2>3, <3>1, <3>2 DEF StatusBooked, Active, PoolChanged
    <3>3. CASE w.addr # o.addr BY <1>5, <2>2, <2>3, <3>1, <3>3 DEF StatusBooked, BookingPass
    <3> QED BY <3>2, <3>3
  <2> QED BY <1>1, <1>3, <1>4, <1>5, <2>4, <2>5 DEF LBBooking
<1>7. CASE LBAddFinalizer(l)
  <2> DEFINE new == [w.obj EXCEPT !.finalizer = TRUE]
  <2>1. PICK ok \in BOOLEAN : UpdateLB(l, w.fresh, new, ok) BY <1>7 DEF LBAddFinalizer
  <2>2. w.fresh \in BOOLEAN /\ w.obj \in LB BY <1>0 DEF LBPass
  <2>3. /\ new.addr = w.obj.addr /\ new.pool = w.obj.pool /\ new.exists = w.obj.exists
        /\ new.deleting = w.obj.deleting
    BY <2>2 DEF LB
  <2> HIDE DEF new
  <2>4. lbs' = lbs \/ (w.fresh /\ lbs'[l] = new) BY <1>0, <2>1, <2>2, UpdateLBEffect
  <2>5. ASSUME w.fresh PROVE StatusBooked(l, new, pools)
    <3>1. w.obj = o BY <2>5, PassIsOK DEF PassOK
    <3> QED BY <1>5, <2>3, <3>1 DEF StatusBooked, Active, PoolChanged
  <2> QED BY <1>1, <1>3, <1>4, <1>5, <2>4, <2>5 DEF LBBooking
<1>8. CASE LBRemoveFinalizer(l)
  <2>1. PICK ok \in BOOLEAN : UpdateLB(l, w.fresh, NoLB, ok) BY <1>8 DEF LBRemoveFinalizer
  <2>2. w.fresh \in BOOLEAN BY <1>0 DEF LBPass
  <2>3. lbs' = lbs \/ lbs'[l] = NoLB BY <1>0, <2>1, <2>2, UpdateLBEffect
  <2>4. StatusBooked(l, NoLB, pools) BY DEF StatusBooked, NoLB, Active
  <2> QED BY <1>1, <1>3, <1>4, <1>5, <2>3, <2>4 DEF LBBooking
<1> QED BY <1>6, <1>7, <1>8


\* A user creates a load balancer without an address, deletes one, or edits it:
\* an edit that takes back a change of the pool is a race while a pass is under
\* way and when the address is no longer held.
LEMMA BookingUsers ==
    ASSUME IndInv, StatusInv, Moves, NEW l \in LBs, LBBooking(l), Spared(l, BookRaces)',
           CreateLB(l) \/ EditLB(l) \/ DeleteLB(l)
    PROVE  LBBooking(l)'
<1> DEFINE w == lbWork[l]
           o == lbs[l]
<1>0. TypeOK /\ w \in LBPass /\ o \in LB BY DEF IndInv, TypeOK
<1>1. ASSUME NEW op, NEW new, UserWritesLB(op, l, new),
             StillItsAddress(w, new), StatusBooked(l, new, pools)
      PROVE  LBBooking(l)'
  <2>1. lbs'[l] = new /\ pools' = pools /\ poolCache' = poolCache
    BY <1>0, <1>1 DEF UserWritesLB, TypeOK, poolVars
  <2>2. lbWork'[l] = [w EXCEPT !.fresh = FALSE] BY <1>0, <1>1 DEF UserWritesLB, TypeOK
  <2>3. /\ lbWork'[l].pc = w.pc /\ lbWork'[l].obj = w.obj /\ lbWork'[l].pool = w.pool
        /\ lbWork'[l].tries = w.tries /\ lbWork'[l].ranges = w.ranges /\ lbWork'[l].addr = w.addr
    BY <1>0, <2>2 DEF LBPass
  <2>4. BookingPass(l, w, pools, poolCache) BY DEF LBBooking
  <2>5. BookingPass(l, lbWork'[l], pools', poolCache') BY <2>1, <2>3, <2>4 DEF BookingPass
  <2>6. StillItsAddress(lbWork'[l], lbs'[l]) BY <1>1, <2>1, <2>3 DEF StillItsAddress
  <2>7. StatusBooked(l, lbs'[l], pools') BY <1>1, <2>1
  <2> QED BY <2>5, <2>6, <2>7 DEF LBBooking
<1>2. StillItsAddress(w, o) /\ StatusBooked(l, o, pools) BY DEF LBBooking
<1>3. ASSUME NEW new, new.addr.pool = None
      PROVE  StillItsAddress(w, new) /\ StatusBooked(l, new, pools)
  BY <1>3 DEF StillItsAddress, StatusBooked
<1>4. CASE CreateLB(l)
  <2>1. PICK spec \in LBSpecs :
          UserWritesLB("createLB", l, [NoLB EXCEPT !.exists = TRUE, !.pool = spec.pool, !.ipam = spec.ipam])
    BY <1>4 DEF CreateLB
  <2> DEFINE new == [NoLB EXCEPT !.exists = TRUE, !.pool = spec.pool, !.ipam = spec.ipam]
  <2>2. new.addr.pool = None BY DEF NoLB, NoAddress
  <2> HIDE DEF new
  <2> QED BY <1>1, <1>3, <2>1, <2>2 DEF new
<1>5. CASE EditLB(l)
  <2>1. PICK spec \in LBSpecs :
          LET new == [lbs[l] EXCEPT !.pool = spec.pool, !.ipam = spec.ipam]
          IN  /\ UserWritesLB("editLB", l, new)
              /\ Raced(l, "editedBack", /\ PoolChanged(lbs[l]) /\ ~PoolChanged(new)
                                        /\ lbWork[l].pc # "idle" \/ ~IsBooked(l))
    BY <1>5 DEF EditLB
  <2> DEFINE new == [lbs[l] EXCEPT !.pool = spec.pool, !.ipam = spec.ipam]
             back == PoolChanged(o) /\ ~PoolChanged(new) /\ (w.pc # "idle" \/ ~IsBooked(l))
  <2>2. new.addr = o.addr /\ new.deleting = o.deleting /\ new.exists = o.exists BY <1>0 DEF LB
  <2>3. UserWritesLB("editLB", l, new) /\ Raced(l, "editedBack", back) BY <2>1
  <2>4. Active(o) BY <1>5 DEF EditLB
  <2> HIDE DEF new
  <2>5. ~back
    <3>1. raced \in [LBs -> SUBSET Races] BY <1>0 DEF TypeOK
    <3> QED BY <2>3, <3>1 DEF Raced, Spared, BookRaces
  <2>6. StillItsAddress(w, new)
    BY <1>2, <2>2, <2>4, <2>5 DEF StillItsAddress, Leaving, Active
  <2>7. StatusBooked(l, new, pools)
    <3> SUFFICES ASSUME Active(new), new.addr.pool # None, ~PoolChanged(new)
                 PROVE  BookedAt(l, new.addr, pools)
      BY DEF StatusBooked
    <3>1. CASE ~PoolChanged(o) BY <1>2, <2>2, <2>4, <3>1 DEF StatusBooked
    <3>2. CASE PoolChanged(o)
      <4>1. IsBooked(l) BY <2>5, <3>2
      <4>2. o.addr \in Address BY <1>0 DEF LB
      <4>3. o.addr.ip \in IPs BY <2>2, <4>2 DEF Address
      <4> QED BY <2>2, <4>1, <4>3 DEF IsBooked, BookedAt
    <3> QED BY <3>1, <3>2
  <2> QED BY <1>1, <2>3, <2>6, <2>7
<1>6. CASE DeleteLB(l)
  <2> DEFINE new == [lbs[l] EXCEPT !.deleting = TRUE]
  <2>1. UserWritesLB("deleteLB", l, new) \/ UserWritesLB("deleteLB", l, NoLB) BY <1>6 DEF DeleteLB
  <2>2. new.addr = o.addr /\ new.deleting BY <1>0 DEF LB
  <2>3. NoLB.addr.pool = None BY DEF NoLB, NoAddress
  <2> HIDE DEF new
  <2>4. StillItsAddress(w, new) /\ StatusBooked(l, new, pools)
    BY <1>2, <2>2 DEF StillItsAddress, StatusBooked, Leaving, Active
  <2> QED BY <1>1, <1>3, <2>1, <2>3, <2>4
<1> QED BY <1>4, <1>5, <1>6

\* A worker leaves the other load balancers, their workers and the caches alone.
LEMMA WorkerFrame ==
    ASSUME TypeOK, Shape, StatusInv, NEW l \in LBs, LBWorker(l)
    PROVE  /\ poolCache' = poolCache
           /\ \A x \in LBs : x # l => lbs'[x] = lbs[x] /\ lbWork'[x] = lbWork[x]
<1>a. ASSUME \E w : LBGoes(l, w) PROVE \A x \in LBs : x # l => lbWork'[x] = lbWork[x]
  BY <1>a DEF LBGoes, TypeOK
<1>b. LBFails(l) => \E w : LBGoes(l, w) BY DEF LBFails, LBFinishes
<1>c. \A ad : LBSucceeds(l, ad) => \E w : LBGoes(l, w) BY DEF LBSucceeds, LBFinishes
<1>1. CASE LBSkip(l) \/ LBOnRemove(l) \/ LBOnChangeDHCP(l) \/ LBOnChangePool(l)
  <2>1. lbs' = lbs /\ poolCache' = poolCache
    BY <1>1 DEF LBSkip, LBOnRemove, LBOnChangeDHCP, LBOnChangePool, LBTake, lbVars, poolVars
  <2>2. \E w : LBGoes(l, w)
    BY <1>1 DEF LBSkip, LBOnRemove, LBOnChangeDHCP, LBOnChangePool, LBFinishes
  <2> QED BY <1>a, <2>1, <2>2
<1>2. CASE LBSelect(l) \/ LBLookup(l) \/ LBHistory(l) \/ LBGetByID(l) \/ LBGetIter(l)
  <2>1. lbs' = lbs /\ poolCache' = poolCache
    BY <1>2 DEF LBSelect, LBLookup, LBHistory, LBGetByID, LBGetIter, lbVars, poolVars
  <2>2. \E w : LBGoes(l, w)
    BY <1>2, <1>b DEF LBSelect, LBLookup, LBHistory, LBGetByID, LBGetIter, LBContinues, LBGivesUp
  <2> QED BY <1>a, <2>1, <2>2
<1>3. CASE LBReserve(l) \/ LBRelease(l)
  <2>1. lbs' = lbs /\ poolCache' = poolCache BY <1>3 DEF LBReserve, LBRelease, lbVars
  <2>2. \E w : LBGoes(l, w)
    BY <1>3, <1>b, <1>c DEF LBReserve, LBRelease, LBContinues, LBGivesUp
  <2> QED BY <1>a, <2>1, <2>2
<1>4. CASE LBWrite(l) \/ LBAddFinalizer(l) \/ LBRemoveFinalizer(l)
  <2>1. poolCache' = poolCache BY <1>4 DEF LBWrite, LBAddFinalizer, LBRemoveFinalizer, poolVars
  <2>2. \E w : LBGoes(l, w) BY <1>4 DEF LBWrite, LBAddFinalizer, LBRemoveFinalizer
  <2>3. \A x \in LBs : x # l => lbs'[x] = lbs[x] BY <1>4, WriteKeepsStatus
  <2> QED BY <1>a, <2>1, <2>2, <2>3
<1> QED BY <1>1, <1>2, <1>3, <1>4 DEF LBWorker

\* Every step keeps the booking invariant.
LEMMA BookingStep ==
    ASSUME IndInv, Books, StatusInv, SoundPools, BookingInv, [Next]_vars
    PROVE  BookingInv'
<1>0. TypeOK /\ Shape BY DEF IndInv
<1>1. Moves BY MovesStep
<1> SUFFICES ASSUME NEW x \in LBs, Spared(x, BookRaces)' PROVE LBBooking(x)' BY DEF BookingInv
<1>2. LBBooking(x) BY SparedBefore DEF BookingInv, BookRaces
<1>a. ASSUME lbs'[x] = lbs[x], lbWork'[x] = lbWork[x],
             \A p \in Pools : poolCache'[p] = poolCache[p] \/ poolCache'[p] = pools'[p]
      PROVE  LBBooking(x)'
  BY <1>1, <1>2, <1>a, BookingStays
<1>4. ASSUME NEW l \in LBs, LBWorker(l) PROVE LBBooking(x)'
  <2>1. CASE x # l
    <3>1. poolCache' = poolCache /\ lbs'[x] = lbs[x] /\ lbWork'[x] = lbWork[x]
      BY <1>0, <1>4, <2>1, WorkerFrame
    <3> QED BY <1>a, <3>1
  <2>2. CASE x = l
    BY <1>1, <1>2, <1>4, <2>2, BookingStarts, BookingSearches, BookingReserves, BookingReleases,
       BookingWrites DEF LBWorker
  <2> QED BY <2>1, <2>2
<1>5. ASSUME NEW l \in LBs, CreateLB(l) \/ EditLB(l) \/ DeleteLB(l) PROVE LBBooking(x)'
  <2>1. CASE x # l
    <3>1. poolCache' = poolCache /\ lbs'[x] = lbs[x] /\ lbWork'[x] = lbWork[x]
      BY <1>0, <1>5, <2>1 DEF CreateLB, EditLB, DeleteLB, UserWritesLB, TypeOK, poolVars
    <3> QED BY <1>a, <3>1
  <2>2. CASE x = l BY <1>1, <1>2, <1>5, <2>2, BookingUsers
  <2> QED BY <2>1, <2>2
<1>6. ASSUME NEW l \in LBs, LBEnqueue(l) \/ SyncLB(l) PROVE LBBooking(x)'
  <2>1. UNCHANGED <<lbs, lbWork, poolCache>> BY <1>6 DEF LBEnqueue, SyncLB, lbVars, poolVars
  <2> QED BY <1>a, <2>1
<1>7. ASSUME NEW p \in Pools, PoolWorker(p) \/ CreatePool(p) \/ EditPool(p) \/ AnnotatePool(p) \/ DeletePool(p)
      PROVE  LBBooking(x)'
  <2>1. UNCHANGED <<lbs, lbWork>> BY <1>7, PoolsLeaveLBs DEF lbVars
  <2>2. poolCache' = poolCache
    BY <1>7 DEF PoolWorker, PoolStart, PoolRegister, PoolStatus, PoolManual, PoolManualRelease,
                PoolManualDone, PoolAddFinalizer, PoolUnregister, PoolRemoveFinalizer,
                CreatePool, EditPool, AnnotatePool, DeletePool, UserWritesPool, poolVars
  <2> QED BY <1>a, <2>1, <2>2
<1>8. ASSUME NEW p \in Pools, SyncPool(p) PROVE LBBooking(x)'
  <2>1. UNCHANGED <<lbs, lbWork>> BY <1>8, PoolsLeaveLBs DEF lbVars
  <2>2. \A q \in Pools : poolCache'[q] = poolCache[q] \/ poolCache'[q] = pools'[q]
    BY <1>0, <1>8 DEF SyncPool, TypeOK
  <2> QED BY <1>a, <2>1, <2>2
<1>9. CASE Restart
  <2>1. lbs' = lbs /\ pools' = pools /\ lbWork'[x] = IdleLB /\ IdleLB.pc = "idle"
    BY <1>9 DEF Restart, IdleLB
  <2>2. StatusBooked(x, lbs[x], pools) BY <1>2 DEF LBBooking
  <2> QED BY <2>1, <2>2 DEF LBBooking, StillItsAddress, BookingPass
<1>10. CASE UNCHANGED vars BY <1>10, <1>a DEF vars
<1> QED BY <1>4, <1>5, <1>6, <1>7, <1>8, <1>9, <1>10 DEF Next, Outside

\* "The ip is booked on pool when successfully Get()": the address in the status
\* of a load balancer that is not giving it up is allocated to it in the pool,
\* however the workers interleave, informers lag, calls fail, ranges are edited
\* or the controller restarts, unless one of four things once happened to this
\* load balancer: a pass from an old copy, an edit taken back, a manual release,
\* or the end of a pool.
THEOREM BookedAddressesAreHeld == Spec => []BookedUnlessRaced
<1>1. Init => BookingInv
  <2> SUFFICES ASSUME Init, NEW l \in LBs PROVE LBBooking(l) BY DEF BookingInv
  <2>1. lbs[l] = NoLB /\ lbWork[l] = IdleLB BY DEF Init
  <2>2. IdleLB.pc = "idle" /\ ~NoLB.exists BY DEF IdleLB, NoLB
  <2> QED BY <2>1, <2>2 DEF LBBooking, StillItsAddress, BookingPass, StatusBooked, Active
<1>2. IndInv /\ Books /\ StatusInv /\ SoundPools /\ BookingInv /\ [Next]_vars => BookingInv'
  BY BookingStep
<1>3. BookingInv => BookedUnlessRaced
  BY DEF BookingInv, BookRaces, LBBooking, StatusBooked, BookedAt, BookedUnlessRaced, Booked, IsBooked
<1> QED BY <1>1, <1>2, <1>3, Inductive, BooksInvariant, StatusInvariant, SoundInvariant, PTL DEF Spec

-----------------------------------------------------------------------------
(* A load balancer holds at most one address of a pool *)

SearchRaces == {"oldSearch", "byHand"}

\* Load balancer l does not know two addresses of a pool, held or remembered.
KnownOnce(l) ==
    \A p \in Pools : \A ip1, ip2 \in IPs :
        Known(l, p, ip1) /\ Known(l, p, ip2) => ip1 = ip2

\* A search of pools P for l that got past the history found nothing remembered,
\* one that got past GetByID nothing held either, and one that requests an
\* address requests the only one that is known.
SearchPass(l, w, P) ==
    /\ w.pc = "getByID" => \A ip \in IPs : P[w.pool].history[ip] # l
    /\ w.pc \in {"getIter", "reserve"} => \A ip \in IPs :
          l \notin {P[w.pool].allocated[ip], P[w.pool].history[ip]}
    /\ w.pc = "request" => \A ip \in IPs :
          l \in {P[w.pool].allocated[ip], P[w.pool].history[ip]} => ip = Head(w.tries)

LBSearch(l) == KnownOnce(l) /\ SearchPass(l, lbWork[l], pools)

SearchInv == \A l \in LBs : Spared(l, SearchRaces) => LBSearch(l)

\* What a search has found stays true until its own worker reserves or releases.
LEMMA SearchStays ==
    ASSUME IndInv, Moves, NEW l \in LBs, LBShape(lbWork[l]), SearchPass(l, lbWork[l], pools),
           "byHand" \notin raced'[l], ~LBReserve(l), ~LBRelease(l)
    PROVE  SearchPass(l, lbWork[l], pools')
<1> DEFINE w == lbWork[l]
<1>1. ASSUME NEW p \in Pools, NEW ip \in IPs
      PROVE  /\ w.pc # "idle" /\ pools'[p].history[ip] = l => pools[p].history[ip] = l
             /\ l \in {pools'[p].allocated[ip], pools'[p].history[ip]}
                   => l \in {pools[p].allocated[ip], pools[p].history[ip]}
  <2>1. Known(l, p, ip)' => Known(l, p, ip) BY HolderStep
  <2>2. pools'[p].history[ip] = l => pools[p].history[ip] = l \/ ByHand(l) BY HolderStep
  <2> QED BY <2>1, <2>2 DEF Known, ByHand
<1>2. w.pc \in {"getByID", "getIter", "request", "reserve"} => w.pool \in Pools
  BY DEF LBShape
<1> QED BY <1>1, <1>2 DEF SearchPass

\* A reservation adds the only address that its owner knows.
LEMMA KnownOnceStep ==
    ASSUME IndInv, Moves, NEW l \in LBs, LBSearch(l)
    PROVE  KnownOnce(l)'
<1> SUFFICES ASSUME NEW p \in Pools, NEW ip1 \in IPs, NEW ip2 \in IPs,
                    Known(l, p, ip1)', Known(l, p, ip2)'
             PROVE  ip1 = ip2
  BY DEF KnownOnce
<1> DEFINE w == lbWork[l]
           grants == LBReserve(l) /\ p = w.pool
<1>1. Known(l, p, ip1) \/ (grants /\ ip1 = Head(w.tries)) BY HolderStep
<1>2. Known(l, p, ip2) \/ (grants /\ ip2 = Head(w.tries)) BY HolderStep
<1>3. SearchPass(l, w, pools) /\ KnownOnce(l) BY DEF LBSearch
<1>4. ASSUME grants, NEW ip \in IPs, Known(l, p, ip) PROVE ip = Head(w.tries)
  <2>1. w.pc \in {"request", "reserve"} BY <1>4 DEF LBReserve
  <2> QED BY <1>3, <1>4, <2>1 DEF SearchPass, Known
<1> QED BY <1>1, <1>2, <1>3, <1>4 DEF KnownOnce

Ended == {"idle", "write", "addFinalizer"}

Settled == Ended \cup {"select", "lookup", "history", "release", "removeFinalizer"}

\* A pass that is not searching has nothing to remember.
LEMMA SettledPass ==
    ASSUME NEW l, NEW w, NEW P, w.pc \in Settled
    PROVE  SearchPass(l, w, P)
  BY DEF SearchPass, Settled, Ended

\* What is left of a pass that ends or gives up is at most the write.
LEMMA PassEnds ==
    ASSUME TypeOK, NEW l \in LBs,
           \/ LBFails(l) \/ LBGivesUp(l)
           \/ \E w, ad, c : LBFinishes(l, w, ad, c)
    PROVE  lbWork'[l].pc \in Ended
<1>0. IdleLB.pc = "idle" BY DEF IdleLB
<1>1. ASSUME NEW w, NEW ad, NEW c, LBFinishes(l, w, ad, c) PROVE lbWork'[l].pc \in Ended
  <2> DEFINE write == [IdleLB EXCEPT !.pc = "write", !.obj = w.obj, !.fresh = w.fresh,
                                     !.addr = ad, !.cond = c]
             add == [IdleLB EXCEPT !.pc = "addFinalizer", !.obj = w.obj, !.fresh = w.fresh]
  <2>1. write.pc = "write" /\ add.pc = "addFinalizer" BY DEF IdleLB
  <2>2. LBGoes(l, write) \/ LBGoes(l, add) \/ LBGoes(l, IdleLB) BY <1>1 DEF LBFinishes, AfterChange
  <2>3. \A x : LBGoes(l, x) => lbWork'[l] = x BY DEF LBGoes, TypeOK
  <2> HIDE DEF write, add
  <2> QED BY <1>0, <2>1, <2>2, <2>3 DEF Ended
<1>2. CASE LBGivesUp(l) BY <1>0, <1>2 DEF LBGivesUp, LBGoes, TypeOK, Ended
<1> QED BY <1>1, <1>2 DEF LBFails

\* The steps of a load balancer's own worker.
LEMMA SearchWorks ==
    ASSUME IndInv, Moves, NEW l \in LBs, LBSearch(l), Spared(l, SearchRaces)', LBWorker(l)
    PROVE  SearchPass(l, lbWork'[l], pools')
<1> DEFINE w == lbWork[l]
           Goal == SearchPass(l, lbWork'[l], pools')
<1>0. TypeOK /\ Shape /\ CurrentCopies /\ w \in LBPass /\ LBShape(w) BY WorkType DEF IndInv
<1>a. ASSUME lbWork'[l].pc \in Settled PROVE Goal BY <1>a, SettledPass
<1>b. \A x : LBGoes(l, x) => lbWork'[l] = x BY <1>0 DEF LBGoes, TypeOK
<1>c. ASSUME LBFails(l) \/ LBGivesUp(l) \/ \E x, ad, c : LBFinishes(l, x, ad, c) PROVE Goal
  <2>1. lbWork'[l].pc \in Settled BY <1>0, <1>c, PassEnds DEF Settled
  <2> QED BY <1>a, <2>1
<1>d. SearchPass(l, w, pools) /\ KnownOnce(l) BY DEF LBSearch
<1>e. ASSUME NEW b, Raced(l, "oldSearch", b) PROVE ~b
  <2>1. raced \in [LBs -> SUBSET Races] BY <1>0 DEF TypeOK
  <2> QED BY <1>e, <2>1 DEF Raced, Spared, SearchRaces
<1>1. CASE LBSkip(l) \/ LBOnRemove(l) \/ LBOnChangeDHCP(l) \/ LBOnChangePool(l)
  <2> DEFINE t == LBTaken(l)
             obj == lbCache[l]
             first == IF obj.pool = None THEN "select" ELSE "lookup"
             rm == [t EXCEPT !.pc = "lookup", !.goal = "remove", !.pool = obj.addr.pool]
             fin == [t EXCEPT !.pc = "removeFinalizer"]
             change == [t EXCEPT !.pc = "lookup", !.goal = "change", !.pool = obj.addr.pool]
             get == [t EXCEPT !.pc = first, !.pool = obj.pool]
  <2>1. \/ LBGoes(l, IdleLB) \/ LBGoes(l, rm) \/ LBGoes(l, fin) \/ LBGoes(l, change) \/ LBGoes(l, get)
        \/ \E ad, c : LBFinishes(l, t, ad, c)
    BY <1>1 DEF LBSkip, LBOnRemove, LBOnChangeDHCP, LBOnChangePool
  <2>2. t \in LBPass BY <1>0, LBTakenType
  <2>3. /\ IdleLB.pc \in Settled /\ rm.pc \in Settled /\ fin.pc \in Settled
        /\ change.pc \in Settled /\ get.pc \in Settled
    BY <2>2 DEF LBPass, Settled, Ended, IdleLB
  <2> HIDE DEF rm, fin, change, get, first, t
  <2> QED BY <1>a, <1>b, <1>c, <2>1, <2>3
<1>2. CASE LBSelect(l)
  <2>1. \A q : [w EXCEPT !.pc = "lookup", !.pool = q].pc \in Settled BY <1>0 DEF LBPass, Settled, Ended
  <2>2. LBFails(l) \/ \E q : LBGoes(l, [w EXCEPT !.pc = "lookup", !.pool = q])
    BY <1>2 DEF LBSelect, LBContinues
  <2> QED BY <1>a, <1>b, <1>c, <2>1, <2>2
<1>3. CASE LBLookup(l)
  <2> DEFINE h == [w EXCEPT !.pc = "history", !.ranges = allocators[w.pool]]
             r == [w EXCEPT !.pc = "release"]
  <2>1. LBGoes(l, h) \/ LBGoes(l, r) \/ LBFails(l) \/ LBGivesUp(l)
    BY <1>3 DEF LBLookup, LBContinues
  <2>2. h.pc \in Settled /\ r.pc \in Settled BY <1>0 DEF LBPass, Settled, Ended
  <2> HIDE DEF h, r
  <2> QED BY <1>a, <1>b, <1>c, <2>1, <2>2
<1>4. CASE LBHistory(l)
  <2> DEFINE id == [w EXCEPT !.pc = "getByID"]
             before == {ip \in IPs : poolCache[w.pool].history[ip] = l}
             had == {ip \in IPs : pools[w.pool].history[ip] = l}
  <2>1. w.pool \in Pools /\ pools' = pools BY <1>0, <1>4 DEF LBHistory, LBShape, poolVars
  <2>2. poolCache[w.pool].exists => before = had
    <3>1. Raced(l, "oldSearch", poolCache[w.pool].exists /\ before # had) BY <1>4 DEF LBHistory
    <3> QED BY <1>e, <3>1
  <2>3. \/ LBFails(l)
        \/ poolCache[w.pool].exists /\ before = {} /\ LBGoes(l, id)
        \/ /\ poolCache[w.pool].exists
           /\ \E ip \in before : LBGoes(l, [w EXCEPT !.pc = "request", !.tries = <<ip>>, !.ranges = None])
    BY <1>4 DEF LBHistory, LBContinues
  <2>4. id.pc = "getByID" /\ id.pool = w.pool BY <1>0 DEF LBPass
  <2> HIDE DEF id
  <2>5. ASSUME LBGoes(l, id), had = {} PROVE Goal
    <3>1. SearchPass(l, id, pools) BY <2>4, <2>5 DEF SearchPass
    <3> QED BY <1>b, <2>1, <2>5, <3>1
  <2>6. ASSUME NEW ip \in had,
               LBGoes(l, [w EXCEPT !.pc = "request", !.tries = <<ip>>, !.ranges = None])
        PROVE  Goal
    <3> DEFINE rq == [w EXCEPT !.pc = "request", !.tries = <<ip>>, !.ranges = None]
    <3>1. rq.pc = "request" /\ rq.pool = w.pool /\ rq.tries = <<ip>> /\ LBGoes(l, rq)
      BY <1>0, <2>6 DEF LBPass
    <3>2. Head(<<ip>>) = ip OBVIOUS
    <3>3. Known(l, w.pool, ip) BY <2>6 DEF Known
    <3>4. \A i \in IPs : Known(l, w.pool, i) => i = ip BY <1>d, <2>1, <2>6, <3>3 DEF KnownOnce
    <3> HIDE DEF rq
    <3>5. SearchPass(l, rq, pools) BY <3>1, <3>2, <3>4 DEF SearchPass, Known
    <3> QED BY <1>b, <2>1, <3>1, <3>5
  <2> QED BY <1>c, <2>2, <2>3, <2>5, <2>6
<1>5. CASE LBGetByID(l)
  <2> DEFINE it == [w EXCEPT !.pc = "getIter"]
             first == IF w.obj.pool = None THEN "select" ELSE "lookup"
             dup == [w EXCEPT !.pc = first, !.goal = "dup", !.pool = w.obj.pool, !.ranges = None]
             shown == Shown(poolCache[w.pool], w.ranges, l)
  <2>1. w.pool \in Pools /\ pools' = pools /\ w.pc = "getByID"
    BY <1>0, <1>5 DEF LBGetByID, LBShape, poolVars
  <2>2. Holds(pools[w.pool], l) \subseteq shown
    <3>1. Raced(l, "oldSearch", ~(Holds(pools[w.pool], l) \subseteq shown)) BY <1>5 DEF LBGetByID
    <3> QED BY <1>e, <3>1
  <2>3. (shown = {} /\ LBGoes(l, it)) \/ LBGoes(l, dup) BY <1>5 DEF LBGetByID
  <2>4. it.pc = "getIter" /\ it.pool = w.pool /\ dup.pc \in Settled
    BY <1>0 DEF LBPass, Settled, Ended
  <2> HIDE DEF it, dup, first, shown
  <2>5. ASSUME LBGoes(l, it), shown = {} PROVE Goal
    <3>1. \A ip \in IPs : pools[w.pool].allocated[ip] # l BY <2>2, <2>5 DEF Holds
    <3>2. \A ip \in IPs : pools[w.pool].history[ip] # l BY <1>d, <2>1 DEF SearchPass
    <3>3. SearchPass(l, it, pools) BY <2>4, <3>1, <3>2 DEF SearchPass
    <3> QED BY <1>b, <2>1, <2>5, <3>3
  <2> QED BY <1>a, <1>b, <2>3, <2>4, <2>5
<1>6. CASE LBGetIter(l)
  <2> DEFINE tries == Candidates(w.ranges, poolCache[w.pool].last)
             next == [w EXCEPT !.pc = "reserve", !.tries = tries, !.ranges = None]
  <2>1. pools' = pools /\ w.pc = "getIter" BY <1>6 DEF LBGetIter, poolVars
  <2>2. LBFails(l) \/ LBGoes(l, next) BY <1>6 DEF LBGetIter, LBContinues
  <2> HIDE DEF tries
  <2>3. next.pc = "reserve" /\ next.pool = w.pool BY <1>0 DEF LBPass
  <2> HIDE DEF next
  <2>4. SearchPass(l, next, pools) BY <1>d, <2>1, <2>3 DEF SearchPass
  <2> QED BY <1>b, <1>c, <2>1, <2>2, <2>4
<1>7. CASE LBReserve(l)
  <2> DEFINE next == [w EXCEPT !.tries = Tail(w.tries)]
  <2>1. \/ LBFails(l) \/ \E ad : LBSucceeds(l, ad)
        \/ w.pc = "reserve" /\ LBGoes(l, next) /\ pools' = pools
    BY <1>7 DEF LBReserve, LBContinues
  <2>2. next.pc = w.pc /\ next.pool = w.pool BY <1>0 DEF LBPass
  <2> HIDE DEF next
  <2>3. w.pc = "reserve" => SearchPass(l, next, pools) BY <1>d, <2>2 DEF SearchPass
  <2> QED BY <1>b, <1>c, <2>1, <2>3 DEF LBSucceeds
<1>8. CASE LBRelease(l)
  <2> DEFINE next == [IdleLB EXCEPT !.pc = "removeFinalizer", !.obj = w.obj, !.fresh = w.fresh]
  <2>1. LBFails(l) \/ LBSucceeds(l, NoAddress) \/ LBGoes(l, next) \/ LBGivesUp(l)
    BY <1>8 DEF LBRelease, LBContinues
  <2>2. next.pc \in Settled BY DEF IdleLB, Settled, Ended
  <2> HIDE DEF next
  <2> QED BY <1>a, <1>b, <1>c, <2>1, <2>2 DEF LBSucceeds
<1>9. CASE LBWrite(l) \/ LBAddFinalizer(l) \/ LBRemoveFinalizer(l)
  <2>1. \A x, f : AfterChange(x, f).pc \in Settled BY DEF AfterChange, IdleLB, Settled, Ended
  <2>2. IdleLB.pc \in Settled BY DEF IdleLB, Settled, Ended
  <2>3. LBGoes(l, IdleLB) \/ \E x, f : LBGoes(l, AfterChange(x, f))
    BY <1>9 DEF LBWrite, LBAddFinalizer, LBRemoveFinalizer
  <2> QED BY <1>a, <1>b, <2>1, <2>2, <2>3
<1> QED BY <1>1, <1>2, <1>3, <1>4, <1>5, <1>6, <1>7, <1>8, <1>9 DEF LBWorker

\* Every step keeps the search invariant.
LEMMA SearchStep ==
    ASSUME IndInv, Books, StatusInv, SoundPools, SearchInv, [Next]_vars
    PROVE  SearchInv'
<1>0. TypeOK /\ Shape BY DEF IndInv
<1>1. Moves BY MovesStep
<1> SUFFICES ASSUME NEW x \in LBs, Spared(x, SearchRaces)' PROVE LBSearch(x)' BY DEF SearchInv
<1>2. LBSearch(x) BY SparedBefore DEF SearchInv, SearchRaces
<1>3. KnownOnce(x)' BY <1>1, <1>2, KnownOnceStep
<1>4. "byHand" \notin raced'[x] BY DEF Spared, SearchRaces
<1> SUFFICES SearchPass(x, lbWork'[x], pools') BY <1>3 DEF LBSearch
<1> DEFINE w == lbWork[x]
<1>5. w \in LBPass /\ LBShape(w) /\ SearchPass(x, w, pools) BY <1>0, <1>2, WorkType DEF LBSearch
<1>6. ASSUME lbWork'[x].pc = w.pc, lbWork'[x].pool = w.pool, lbWork'[x].ranges = w.ranges,
             lbWork'[x].tries = w.tries, ~LBReserve(x), ~LBRelease(x)
      PROVE  SearchPass(x, lbWork'[x], pools')
  <2>1. SearchPass(x, w, pools') BY <1>1, <1>4, <1>5, <1>6, SearchStays
  <2> QED BY <1>6, <2>1 DEF SearchPass
<1>7. CASE LBWorker(x) BY <1>1, <1>2, <1>7, SearchWorks
<1>8. CASE ~LBWorker(x)
  <2>0. ~LBReserve(x) /\ ~LBRelease(x) BY <1>8 DEF LBWorker
  <2>1. ASSUME NEW l \in LBs, LBWorker(l) PROVE SearchPass(x, lbWork'[x], pools')
    <3>1. x # l BY <1>8, <2>1
    <3>2. lbWork'[x] = w BY <1>0, <2>1, <3>1, WorkerFrame
    <3> QED BY <1>6, <2>0, <3>2
  <2>2. ASSUME NEW l \in LBs, CreateLB(l) \/ EditLB(l) \/ DeleteLB(l)
        PROVE  SearchPass(x, lbWork'[x], pools')
    <3>1. lbWork' = [lbWork EXCEPT ![l].fresh = FALSE]
      BY <2>2 DEF CreateLB, EditLB, DeleteLB, UserWritesLB
    <3>2. lbWork'[x] = w \/ lbWork'[x] = [w EXCEPT !.fresh = FALSE] BY <1>0, <3>1 DEF TypeOK
    <3>3. /\ lbWork'[x].pc = w.pc /\ lbWork'[x].pool = w.pool /\ lbWork'[x].ranges = w.ranges
          /\ lbWork'[x].tries = w.tries
      BY <1>5, <3>2 DEF LBPass
    <3> QED BY <1>6, <2>0, <3>3
  <2>3. ASSUME lbWork' = lbWork PROVE SearchPass(x, lbWork'[x], pools') BY <1>6, <2>0, <2>3
  <2>4. ASSUME NEW l \in LBs, LBEnqueue(l) \/ SyncLB(l) PROVE lbWork' = lbWork
    BY <2>4 DEF LBEnqueue, SyncLB
  <2>5. ASSUME NEW p \in Pools,
               \/ PoolWorker(p) \/ SyncPool(p)
               \/ CreatePool(p) \/ EditPool(p) \/ AnnotatePool(p) \/ DeletePool(p)
        PROVE  lbWork' = lbWork
    BY <2>5, PoolsLeaveLBs
  <2>6. CASE Restart
    <3>1. lbWork'[x] = IdleLB /\ IdleLB.pc \in Settled BY <2>6 DEF Restart, IdleLB, Settled, Ended
    <3> QED BY <3>1, SettledPass
  <2>7. CASE UNCHANGED vars BY <2>3, <2>7 DEF vars
  <2> QED BY <2>1, <2>2, <2>3, <2>4, <2>5, <2>6, <2>7 DEF Next, Outside
<1> QED BY <1>7, <1>8

\* The search invariant holds throughout.
LEMMA SearchInvariant == Spec => []SearchInv
<1>1. Init => SearchInv
  <2> SUFFICES ASSUME Init, NEW l \in LBs PROVE LBSearch(l) BY DEF SearchInv
  <2>1. PICK rs \in [ReadyPools -> RangeSets] :
          pools = [p \in Pools |-> IF p \in ReadyPools THEN ReadyPool(rs[p]) ELSE NoPool]
    BY DEF Init
  <2>2. \A ip \in IPs : NoPool.allocated[ip] = None /\ NoPool.history[ip] = None
    BY DEF NoPool, NoOwners
  <2>3. ASSUME NEW r PROVE \A ip \in IPs : ReadyPool(r).allocated[ip] = None
                                           /\ ReadyPool(r).history[ip] = None
    BY DEF ReadyPool, NoPool, NoOwners
  <2>4. \A p \in Pools, ip \in IPs : pools[p].allocated[ip] = None /\ pools[p].history[ip] = None
    BY <2>1, <2>2, <2>3
  <2>5. KnownOnce(l) BY <2>4, IPAMAssumption DEF KnownOnce, Known
  <2>6. lbWork[l] = IdleLB /\ IdleLB.pc \in Settled BY DEF Init, IdleLB, Settled, Ended
  <2> QED BY <2>5, <2>6, SettledPass DEF LBSearch
<1>2. IndInv /\ Books /\ StatusInv /\ SoundPools /\ SearchInv /\ [Next]_vars => SearchInv'
  BY SearchStep
<1> QED BY <1>1, <1>2, Inductive, BooksInvariant, StatusInvariant, SoundInvariant, PTL DEF Spec

\* "Each ID can only have max 1 IP": no load balancer holds two addresses of a
\* pool, although passes start from stale copies, an Update whose answer is lost
\* has reserved an address nobody was told of, and a restart forgets the search,
\* unless the allocator once searched for it in a pool copy or in ranges that
\* did not show what it had, or an address was released by hand under it.
THEOREM OneAddressHolds == Spec => []OneAddressUnlessRaced
<1>1. SearchInv => OneAddressUnlessRaced
  <2> SUFFICES ASSUME SearchInv, NEW p \in Pools, NEW l \in LBs, Spared(l, SearchRaces)
               PROVE  Cardinality(Holds(pools[p], l)) <= 1
    BY DEF OneAddressUnlessRaced, SearchRaces
  <2> DEFINE S == Holds(pools[p], l)
  <2>1. CASE S = {} BY <2>1, FS_EmptySet
  <2>2. CASE S # {}
    <3>1. PICK ip \in IPs : pools[p].allocated[ip] = l BY <2>2 DEF Holds
    <3>2. \A i \in S : i = ip BY <3>1 DEF SearchInv, LBSearch, KnownOnce, Known, Holds
    <3>3. S = {ip} BY <3>1, <3>2 DEF Holds
    <3> HIDE DEF S
    <3>4. Cardinality(S) = 1 BY <3>3, FS_Singleton
    <3> QED BY <3>4 DEF S
  <2> QED BY <2>1, <2>2
<1> QED BY <1>1, SearchInvariant, PTL

-----------------------------------------------------------------------------
(* A load balancer goes after its address *)

RemovalRaces == {"oldSearch", "oldRelease", "byHand"}

\* A pass about to remove the finalizer of l has left it no address in the pool
\* of the status.
RemovalPass(l, w, P) ==
    (w.pc = "removeFinalizer" /\ w.obj.ipam = "pool" /\ w.obj.addr.pool # None)
        => \A ip \in IPs : P[w.obj.addr.pool].allocated[ip] # l

RemovalInv ==
    \A l \in LBs : Spared(l, RemovalRaces) => RemovalPass(l, lbWork[l], pools)

\* A release that succeeds has freed the only address there was, or there was
\* none: a cached pool that did not show it would be a race.
LEMMA ReleaseFrees ==
    ASSUME IndInv, NEW l \in LBs, KnownOnce(l), NEW p \in Pools, NEW ok \in BOOLEAN, ok,
           ReleaseByID(p, l, ok), NEW i \in IPs,
           poolCache[p].exists /\ Holds(poolCache[p], l) = {} => Holds(pools[p], l) = {}
    PROVE  pools'[p].allocated[i] # l
<1>0. /\ TypeOK /\ CurrentCopies /\ pools[p] \in Pool /\ poolCache[p] \in Pool
      /\ poolSynced[p] \in BOOLEAN
  BY DEF IndInv, TypeOK
<1>1. CASE pools' = pools /\ poolCache[p].exists /\ \A ip \in IPs : poolCache[p].allocated[ip] # l
  BY <1>1 DEF Holds
<1>2. ASSUME NEW ip \in IPs, poolCache[p].allocated[ip] = l,
             UpdatePool(p, poolSynced[p], Released(poolCache[p], ip), ok)
      PROVE  pools'[p].allocated[i] # l
  <2>1. poolSynced[p] /\ pools' = [pools EXCEPT ![p] = Released(poolCache[p], ip)]
    BY <1>2 DEF UpdatePool, WritePool
  <2>2. poolCache[p] = pools[p] BY <1>0, <2>1 DEF CurrentCopies
  <2>3. pools'[p] = Released(pools[p], ip) BY <1>0, <2>1, <2>2 DEF TypeOK
  <2>4. Released(pools[p], ip).allocated = [pools[p].allocated EXCEPT ![ip] = None]
    BY <1>0, ReleasedFields
  <2>5. pools[p].allocated \in [IPs -> Owners] /\ None # l BY <1>0, IPAMAssumption DEF Pool
  <2>6. pools[p].allocated[i] = l => i = ip BY <1>2, <2>2 DEF KnownOnce, Known
  <2> QED BY <2>3, <2>4, <2>5, <2>6
<1> QED BY <1>1, <1>2 DEF ReleaseByID

\* The pass of a worker gets to the removal of the finalizer only with the
\* address released, or with no address to release.
LEMMA RemovalWorks ==
    ASSUME IndInv, StatusInv, SearchInv, [Next]_vars, NEW l \in LBs, Spared(l, RemovalRaces)',
           LBWorker(l)
    PROVE  RemovalPass(l, lbWork'[l], pools')
<1> DEFINE w == lbWork[l]
           Goal == RemovalPass(l, lbWork'[l], pools')
<1>0. TypeOK /\ Shape /\ w \in LBPass /\ LBShape(w) BY WorkType DEF IndInv
<1>a. ASSUME lbWork'[l].pc # "removeFinalizer" PROVE Goal BY <1>a DEF RemovalPass
<1>b. \A x : LBGoes(l, x) => lbWork'[l] = x BY <1>0 DEF LBGoes, TypeOK
<1>c. ASSUME LBFails(l) \/ LBGivesUp(l) \/ \E x, ad, c : LBFinishes(l, x, ad, c) PROVE Goal
  <2>1. lbWork'[l].pc \in Ended BY <1>0, <1>c, PassEnds
  <2> QED BY <1>a, <2>1 DEF Ended
<1>1. CASE LBSkip(l) \/ LBOnRemove(l) \/ LBOnChangeDHCP(l) \/ LBOnChangePool(l)
  <2> DEFINE t == LBTaken(l)
             obj == lbCache[l]
             first == IF obj.pool = None THEN "select" ELSE "lookup"
             rm == [t EXCEPT !.pc = "lookup", !.goal = "remove", !.pool = obj.addr.pool]
             fin == [t EXCEPT !.pc = "removeFinalizer"]
             change == [t EXCEPT !.pc = "lookup", !.goal = "change", !.pool = obj.addr.pool]
             get == [t EXCEPT !.pc = first, !.pool = obj.pool]
  <2>1. \/ LBGoes(l, IdleLB) \/ LBGoes(l, rm) \/ LBGoes(l, change) \/ LBGoes(l, get)
        \/ LBGoes(l, fin) /\ (obj.ipam # "pool" \/ obj.addr.pool = None)
        \/ \E ad, c : LBFinishes(l, t, ad, c)
    BY <1>1 DEF LBSkip, LBOnRemove, LBOnChangeDHCP, LBOnChangePool
  <2>2. t \in LBPass /\ t.obj = obj BY <1>0, LBTakenType
  <2>3. /\ IdleLB.pc # "removeFinalizer" /\ rm.pc # "removeFinalizer"
        /\ change.pc # "removeFinalizer" /\ get.pc # "removeFinalizer" /\ fin.obj = obj
    BY <2>2 DEF LBPass, IdleLB
  <2> HIDE DEF rm, fin, change, get, first, t
  <2>4. ASSUME LBGoes(l, fin), obj.ipam # "pool" \/ obj.addr.pool = None PROVE Goal
    BY <1>b, <2>3, <2>4 DEF RemovalPass
  <2> QED BY <1>a, <1>b, <1>c, <2>1, <2>3, <2>4
<1>2. CASE LBSelect(l)
  <2>1. \A q : [w EXCEPT !.pc = "lookup", !.pool = q].pc # "removeFinalizer" BY <1>0 DEF LBPass
  <2>2. LBFails(l) \/ \E q : LBGoes(l, [w EXCEPT !.pc = "lookup", !.pool = q])
    BY <1>2 DEF LBSelect, LBContinues
  <2> QED BY <1>a, <1>b, <1>c, <2>1, <2>2
<1>3. CASE LBLookup(l)
  <2> DEFINE h == [w EXCEPT !.pc = "history", !.ranges = allocators[w.pool]]
             r == [w EXCEPT !.pc = "release"]
  <2>1. LBGoes(l, h) \/ LBGoes(l, r) \/ LBFails(l) \/ LBGivesUp(l)
    BY <1>3 DEF LBLookup, LBContinues
  <2>2. h.pc # "removeFinalizer" /\ r.pc # "removeFinalizer" BY <1>0 DEF LBPass
  <2> HIDE DEF h, r
  <2> QED BY <1>a, <1>b, <1>c, <2>1, <2>2
<1>4. CASE LBHistory(l)
  <2> DEFINE id == [w EXCEPT !.pc = "getByID"]
             rq(ip) == [w EXCEPT !.pc = "request", !.tries = <<ip>>, !.ranges = None]
  <2>1. LBFails(l) \/ LBGoes(l, id) \/ \E ip \in IPs : LBGoes(l, rq(ip))
    BY <1>4 DEF LBHistory, LBContinues
  <2>2. id.pc # "removeFinalizer" /\ \A ip : rq(ip).pc # "removeFinalizer" BY <1>0 DEF LBPass
  <2> HIDE DEF id, rq
  <2> QED BY <1>a, <1>b, <1>c, <2>1, <2>2
<1>5. CASE LBGetByID(l)
  <2> DEFINE it == [w EXCEPT !.pc = "getIter"]
             first == IF w.obj.pool = None THEN "select" ELSE "lookup"
             dup == [w EXCEPT !.pc = first, !.goal = "dup", !.pool = w.obj.pool, !.ranges = None]
  <2>1. LBGoes(l, it) \/ LBGoes(l, dup) BY <1>5 DEF LBGetByID
  <2>2. it.pc # "removeFinalizer" /\ dup.pc # "removeFinalizer" BY <1>0 DEF LBPass
  <2> HIDE DEF it, dup, first
  <2> QED BY <1>a, <1>b, <2>1, <2>2
<1>6. CASE LBGetIter(l)
  <2> DEFINE tries == Candidates(w.ranges, poolCache[w.pool].last)
             next == [w EXCEPT !.pc = "reserve", !.tries = tries, !.ranges = None]
  <2>1. LBFails(l) \/ LBGoes(l, next) BY <1>6 DEF LBGetIter, LBContinues
  <2> HIDE DEF tries
  <2>2. next.pc # "removeFinalizer" BY <1>0 DEF LBPass
  <2> HIDE DEF next
  <2> QED BY <1>a, <1>b, <1>c, <2>1, <2>2
<1>7. CASE LBReserve(l)
  <2> DEFINE next == [w EXCEPT !.tries = Tail(w.tries)]
  <2>1. LBFails(l) \/ (\E ad : LBSucceeds(l, ad)) \/ LBGoes(l, next)
    BY <1>7 DEF LBReserve, LBContinues
  <2>2. next.pc # "removeFinalizer" BY <1>0, <1>7 DEF LBPass, LBReserve
  <2> HIDE DEF next
  <2> QED BY <1>a, <1>b, <1>c, <2>1, <2>2 DEF LBSucceeds
<1>8. CASE LBRelease(l)
  <2> DEFINE next == [IdleLB EXCEPT !.pc = "removeFinalizer", !.obj = w.obj, !.fresh = w.fresh]
  <2>1. \/ LBFails(l) \/ LBSucceeds(l, NoAddress) \/ LBGivesUp(l)
        \/ /\ w.goal = "remove" /\ LBGoes(l, next)
           /\ \E ok \in BOOLEAN : ok /\ ReleaseByID(w.pool, l, ok)
    BY <1>8 DEF LBRelease, LBContinues
  <2>2. next.obj = w.obj BY DEF IdleLB
  <2>3. w.pc = "release" /\ w.pool \in Pools BY <1>0, <1>8 DEF LBRelease, LBShape
  <2>4. poolCache[w.pool].exists /\ Holds(poolCache[w.pool], l) = {}
           => Holds(pools[w.pool], l) = {}
    <3>1. Raced(l, "oldRelease", /\ poolCache[w.pool].exists /\ Holds(poolCache[w.pool], l) = {}
                                 /\ Holds(pools[w.pool], l) # {})
      BY <1>8 DEF LBRelease
    <3>2. raced \in [LBs -> SUBSET Races] BY <1>0 DEF TypeOK
    <3> QED BY <3>1, <3>2 DEF Raced, Spared, RemovalRaces
  <2>5. KnownOnce(l)
    <3>1. Spared(l, SearchRaces)' BY DEF Spared, SearchRaces, RemovalRaces
    <3>2. Spared(l, SearchRaces) BY <3>1, SparedBefore
    <3> QED BY <3>2 DEF SearchInv, LBSearch
  <2> HIDE DEF next
  <2>6. ASSUME w.goal = "remove", LBGoes(l, next), NEW ok \in BOOLEAN, ok, ReleaseByID(w.pool, l, ok)
        PROVE  Goal
    <3>1. w.pool = w.obj.addr.pool BY <2>3, <2>6, PassIsOK DEF PassOK, LBIntent
    <3>2. \A i \in IPs : pools'[w.pool].allocated[i] # l BY <2>3, <2>4, <2>5, <2>6, ReleaseFrees
    <3> QED BY <1>b, <2>2, <2>6, <3>1, <3>2 DEF RemovalPass
  <2> QED BY <1>c, <2>1, <2>6 DEF LBSucceeds
<1>9. CASE LBWrite(l) \/ LBAddFinalizer(l) \/ LBRemoveFinalizer(l)
  <2>1. \A x, f : AfterChange(x, f).pc # "removeFinalizer" BY DEF AfterChange, IdleLB
  <2>2. IdleLB.pc # "removeFinalizer" BY DEF IdleLB
  <2>3. LBGoes(l, IdleLB) \/ \E x, f : LBGoes(l, AfterChange(x, f))
    BY <1>9 DEF LBWrite, LBAddFinalizer, LBRemoveFinalizer
  <2> QED BY <1>a, <1>b, <2>1, <2>2, <2>3
<1> QED BY <1>1, <1>2, <1>3, <1>4, <1>5, <1>6, <1>7, <1>8, <1>9 DEF LBWorker

\* Nobody else gives the address back to a load balancer whose pass has come to
\* the finalizer.
LEMMA RemovalStep ==
    ASSUME IndInv, Books, StatusInv, SoundPools, SearchInv, RemovalInv, [Next]_vars
    PROVE  RemovalInv'
<1>0. TypeOK /\ Shape BY DEF IndInv
<1>1. Moves BY MovesStep
<1> SUFFICES ASSUME NEW x \in LBs, Spared(x, RemovalRaces)'
             PROVE  RemovalPass(x, lbWork'[x], pools')
  BY DEF RemovalInv
<1> DEFINE w == lbWork[x]
<1>2. w \in LBPass /\ w.obj \in LB /\ w.obj.addr \in Address BY <1>0, WorkType
<1>3. RemovalPass(x, w, pools) BY SparedBefore DEF RemovalInv
<1>4. ASSUME lbWork'[x].pc = w.pc, lbWork'[x].obj = w.obj
      PROVE  RemovalPass(x, lbWork'[x], pools')
  <2> SUFFICES ASSUME w.pc = "removeFinalizer", w.obj.ipam = "pool",
                      NEW p, p = w.obj.addr.pool, p # None, NEW ip \in IPs
               PROVE  pools'[p].allocated[ip] # x
    BY <1>4 DEF RemovalPass
  <2>1. p \in Pools BY <1>2 DEF Address
  <2>2. ~LBReserve(x) BY DEF LBReserve
  <2>3. Held(x, p, ip)' => Held(x, p, ip) BY <1>1, <2>1, <2>2, HolderStep
  <2>4. pools[p].allocated[ip] # x BY <1>3 DEF RemovalPass
  <2> QED BY <2>3, <2>4 DEF Held
<1>5. CASE LBWorker(x) BY <1>5, RemovalWorks
<1>6. CASE ~LBWorker(x)
  <2>1. ASSUME NEW l \in LBs, LBWorker(l) PROVE RemovalPass(x, lbWork'[x], pools')
    <3>1. x # l BY <1>6, <2>1
    <3>2. lbWork'[x] = w BY <1>0, <2>1, <3>1, WorkerFrame
    <3> QED BY <1>4, <3>2
  <2>2. ASSUME NEW l \in LBs, CreateLB(l) \/ EditLB(l) \/ DeleteLB(l)
        PROVE  RemovalPass(x, lbWork'[x], pools')
    <3>1. lbWork' = [lbWork EXCEPT ![l].fresh = FALSE]
      BY <2>2 DEF CreateLB, EditLB, DeleteLB, UserWritesLB
    <3>2. lbWork'[x] = w \/ lbWork'[x] = [w EXCEPT !.fresh = FALSE] BY <1>0, <3>1 DEF TypeOK
    <3>3. lbWork'[x].pc = w.pc /\ lbWork'[x].obj = w.obj BY <1>2, <3>2 DEF LBPass
    <3> QED BY <1>4, <3>3
  <2>3. ASSUME lbWork' = lbWork PROVE RemovalPass(x, lbWork'[x], pools') BY <1>4, <2>3
  <2>4. ASSUME NEW l \in LBs, LBEnqueue(l) \/ SyncLB(l) PROVE lbWork' = lbWork
    BY <2>4 DEF LBEnqueue, SyncLB
  <2>5. ASSUME NEW p \in Pools,
               \/ PoolWorker(p) \/ SyncPool(p)
               \/ CreatePool(p) \/ EditPool(p) \/ AnnotatePool(p) \/ DeletePool(p)
        PROVE  lbWork' = lbWork
    BY <2>5, PoolsLeaveLBs
  <2>6. CASE Restart
    <3>1. lbWork'[x] = IdleLB /\ IdleLB.pc = "idle" BY <2>6 DEF Restart, IdleLB
    <3> QED BY <3>1 DEF RemovalPass
  <2>7. CASE UNCHANGED vars BY <2>3, <2>7 DEF vars
  <2> QED BY <2>1, <2>2, <2>3, <2>4, <2>5, <2>6, <2>7 DEF Next, Outside
<1> QED BY <1>5, <1>6

\* A load balancer that is being deleted goes only when its finalizer does.
LEMMA RemovalIsLast ==
    ASSUME IndInv, StatusInv, RemovalInv, [Next]_vars, NEW l \in LBs, Spared(l, RemovalRaces),
           lbs[l].deleting, ~lbs'[l].exists, lbs[l].ipam # "",
           NEW p \in Pools, NEW ip \in IPs, lbs[l].addr = [pool |-> p, ip |-> ip]
    PROVE  pools'[p].allocated[ip] # l
<1> DEFINE w == lbWork[l]
           status == [w.obj EXCEPT !.addr = w.addr, !.cond = w.cond]
           fin == [w.obj EXCEPT !.finalizer = TRUE]
<1>0. TypeOK /\ Shape /\ w \in LBPass /\ w.obj \in LB /\ w.fresh \in BOOLEAN BY WorkType DEF IndInv
<1>1. lbs[l].exists /\ PassOK(l, w) BY PassIsOK DEF LBObject
<1>2. lbs'[l] # lbs[l] BY <1>1
<1>3. status.exists = w.obj.exists /\ fin.exists = w.obj.exists BY <1>0 DEF LB
<1>4. w.fresh => w.obj = lbs[l] BY <1>1 DEF PassOK
<1> HIDE DEF status, fin
<1>5. ASSUME NEW ok \in BOOLEAN, NEW new, UpdateLB(l, w.fresh, new, ok) PROVE w.fresh /\ lbs'[l] = new
  BY <1>0, <1>2, <1>5, UpdateLBEffect
<1>6. CASE LBRemoveFinalizer(l)
  <2>1. PICK ok \in BOOLEAN : UpdateLB(l, w.fresh, NoLB, ok) BY <1>6 DEF LBRemoveFinalizer
  <2>2. w.fresh /\ w.obj = lbs[l] BY <1>4, <1>5, <2>1
  <2>3. w.pc = "removeFinalizer" /\ pools' = pools BY <1>6 DEF LBRemoveFinalizer, poolVars
  <2>4. w.obj.addr.pool = p /\ p # None
    <3>1. p # None BY IPAMAssumption
    <3>2. [pool |-> p, ip |-> ip].pool = p OBVIOUS
    <3> QED BY <2>2, <3>1, <3>2
  <2>5. w.obj.ipam = "pool"
    <3>1. LBObject(lbs[l]) BY PassIsOK
    <3>2. lbs[l].ipam \in {"pool", "", "dhcp"} BY <1>0 DEF TypeOK, LB
    <3> QED BY <2>2, <2>4, <3>1, <3>2 DEF LBObject
  <2>6. RemovalPass(l, w, pools) BY DEF RemovalInv
  <2> QED BY <2>3, <2>4, <2>5, <2>6 DEF RemovalPass
<1>7. ~LBWrite(l)
  <2> SUFFICES ASSUME LBWrite(l) PROVE FALSE OBVIOUS
  <2>1. PICK ok \in BOOLEAN : UpdateLB(l, w.fresh, status, ok) BY DEF LBWrite, status
  <2> QED BY <1>1, <1>3, <1>4, <1>5, <2>1
<1>8. ~LBAddFinalizer(l)
  <2> SUFFICES ASSUME LBAddFinalizer(l) PROVE FALSE OBVIOUS
  <2>1. PICK ok \in BOOLEAN : UpdateLB(l, w.fresh, fin, ok) BY DEF LBAddFinalizer, fin
  <2> QED BY <1>1, <1>3, <1>4, <1>5, <2>1
<1>9. ~(LBSkip(l) \/ LBOnRemove(l) \/ LBOnChangeDHCP(l) \/ LBOnChangePool(l))
  BY <1>2 DEF LBSkip, LBOnRemove, LBOnChangeDHCP, LBOnChangePool, LBTake, lbVars
<1>10. ~(LBSelect(l) \/ LBLookup(l) \/ LBHistory(l) \/ LBGetByID(l) \/ LBGetIter(l)
         \/ LBReserve(l) \/ LBRelease(l))
  BY <1>2 DEF LBSelect, LBLookup, LBHistory, LBGetByID, LBGetIter, LBReserve, LBRelease, lbVars
<1>11. ASSUME NEW x \in LBs, LBWorker(x) PROVE LBRemoveFinalizer(l)
  <2>1. x = l BY <1>0, <1>2, <1>11, WorkerFrame
  <2> QED BY <1>7, <1>8, <1>9, <1>10, <1>11, <2>1 DEF LBWorker
<1>12. ASSUME NEW x \in LBs, CreateLB(x) \/ EditLB(x) \/ DeleteLB(x) PROVE FALSE
  <2>1. lbs' # lbs /\ \A y \in LBs : y # x => lbs'[y] = lbs[y] BY <1>0, <1>2, <1>12, UserKeepsStatus
  <2>2. x = l BY <1>2, <2>1
  <2> QED BY <1>1, <1>12, <2>2 DEF CreateLB, EditLB, DeleteLB, Active
<1>13. lbs' # lbs BY <1>2
<1>14. ASSUME NEW x \in LBs, LBEnqueue(x) \/ SyncLB(x) PROVE FALSE
  BY <1>13, <1>14 DEF LBEnqueue, SyncLB, lbVars
<1>15. ASSUME NEW q \in Pools,
              \/ PoolWorker(q) \/ SyncPool(q)
              \/ CreatePool(q) \/ EditPool(q) \/ AnnotatePool(q) \/ DeletePool(q)
       PROVE  FALSE
  BY <1>13, <1>15, PoolsLeaveLBs DEF lbVars
<1>16. ~Restart /\ ~UNCHANGED vars BY <1>13 DEF Restart, vars
<1> QED BY <1>6, <1>11, <1>12, <1>14, <1>15, <1>16 DEF Next, Outside

\* OnRemove releases the address before the object goes: a load balancer that is
\* being deleted disappears only when the pool no longer has its address
\* allocated to it, although informers lag, calls fail, answers are lost and the
\* controller restarts in between, unless the allocator missed an address of it
\* in an old copy of a pool (oldSearch, oldRelease), one was released by hand
\* under it, or it leaves its IPAM unset, which OnRemove does not take for pool.
THEOREM RemovalReleasesFirst == Spec => ReleasedUnlessRaced
<1>1. Init => RemovalInv
  <2> SUFFICES ASSUME Init, NEW l \in LBs PROVE RemovalPass(l, lbWork[l], pools) BY DEF RemovalInv
  <2>1. lbWork[l] = IdleLB /\ IdleLB.pc = "idle" BY DEF Init, IdleLB
  <2> QED BY <2>1 DEF RemovalPass
<1>2. IndInv /\ Books /\ StatusInv /\ SoundPools /\ SearchInv /\ RemovalInv /\ [Next]_vars
        => RemovalInv'
  BY RemovalStep
<1>3. IndInv /\ StatusInv /\ RemovalInv /\ [Next]_vars =>
        \A l \in LBs, p \in Pools, ip \in IPs :
          (/\ Spared(l, {"oldSearch", "oldRelease", "byHand"})
           /\ lbs[l].deleting /\ ~lbs'[l].exists /\ lbs[l].ipam # ""
           /\ lbs[l].addr = [pool |-> p, ip |-> ip]) => pools'[p].allocated[ip] # l
  BY RemovalIsLast DEF RemovalRaces
<1> QED BY <1>1, <1>2, <1>3, Inductive, BooksInvariant, StatusInvariant, SoundInvariant,
           SearchInvariant, PTL DEF Spec, ReleasedUnlessRaced
=============================================================================
