---------------------------- MODULE KubeVipProofs ----------------------------
(***************************************************************************)
(* The start of the program, users and controllers together are clients of *)
(* the pool webhook like any other: KubeVip implements PoolAdmission, so   *)
(* what PoolAdmissionProofs shows holds through every upgrade and crash.   *)
(*                                                                         *)
(* The second part shows that an upgrade loses no address. The conversion  *)
(* puts an address into the pool that is to keep it, in whatever order the *)
(* entries are taken (ConversionRemembers), so what an aborted start has   *)
(* created is as good as what the next one would create. UpgradeInv says   *)
(* so of the pools made and to be made (HistoriesKept), that none is left  *)
(* out (NoneForgotten), and what is known of the Create under way, whose   *)
(* answer may be lost (Waiting).                                           *)
(***************************************************************************)
EXTENDS KubeVip, PoolAdmissionProofs, FiniteSetTheorems

\* The pools that are still to be created are well formed, and some are left
\* while one is created.
BootOK ==
    /\ config \in Configs
    /\ converted \in BOOLEAN
    /\ boot.pc \in {"down", "create", "wait", "annotate", "running"}
    /\ boot.todo \in Seq(Conversions)
    /\ boot.pc \in {"create", "wait"} => boot.todo # <<>>

\* The loop goes on with a well formed list.
LEMMA ProceedOK ==
    ASSUME NEW todo \in Seq(Conversions), Proceed(todo)
    PROVE  /\ boot'.pc \in {"down", "create", "wait", "annotate", "running"}
           /\ boot'.todo \in Seq(Conversions)
           /\ boot'.pc \in {"create", "wait"} => boot'.todo # <<>>
  BY DEF Proceed, Boot

\* So does a process that ends.
LEMMA FatalOK ==
    ASSUME Fatal
    PROVE  /\ boot'.pc = "down" /\ boot'.todo \in Seq(Conversions)
  BY DEF Fatal, Boot

\* Every step of the start keeps the list well formed.
LEMMA BootStep == BootOK /\ [Next]_vars => BootOK'
<1> SUFFICES ASSUME BootOK, [Next]_vars PROVE BootOK' OBVIOUS
<1>1. CASE Convert
  <2>1. CASE config = None \/ converted
    <3>1. Proceed(<<>>) BY <1>1, <2>1 DEF Convert
    <3>2. <<>> \in Seq(Conversions) OBVIOUS
    <3> QED BY <1>1, <3>1, <3>2, ProceedOK DEF Convert, BootOK
  <2>2. CASE ~(config = None \/ converted)
    <3>1. PICK list \in ConvertFromKubevipConfigMap[config] :
            IF list = None THEN Fatal ELSE Proceed(list)
      BY <1>1, <2>2 DEF Convert
    <3>2. list # None => list \in Seq(Conversions) BY <2>2, ConfigsAssumption DEF BootOK
    <3> QED BY <1>1, <3>1, <3>2, ProceedOK, FatalOK DEF Convert, BootOK
  <2> QED BY <2>1, <2>2
<1>2. CASE CreateNext
  <2>1. boot' = [boot EXCEPT !.pc = "wait"] /\ boot.pc = "create" BY <1>2 DEF CreateNext
  <2>2. boot'.todo = boot.todo /\ boot'.pc \in {boot.pc, "wait"} BY <2>1
  <2> QED BY <1>2, <2>1, <2>2 DEF CreateNext, BootOK
<1>3. CASE CreateReturns
  <2>1. Tail(boot.todo) \in Seq(Conversions) BY <1>3 DEF CreateReturns, BootOK
  <2> QED BY <1>3, <2>1, ProceedOK, FatalOK DEF CreateReturns, BootOK
<1>4. CASE AfterConversion
  <2>1. ASSUME RegisterAndStart PROVE boot'.pc = "running" /\ boot'.todo \in Seq(Conversions)
    BY <2>1 DEF RegisterAndStart, Boot
  <2> QED BY <1>4, <2>1, FatalOK DEF AfterConversion, BootOK
<1>5. CASE Crash BY <1>5, FatalOK DEF Crash, BootOK
<1>6. CASE (\E c \in Clients : ServeRequest(c)) \/ (\E c \in Users : User(c)) \/ WriteStatus
            \/ (\E p \in Pools : RemovePool(p) \/ Sync(p)) \/ UNCHANGED vars
  BY <1>6 DEF ServeRequest, User, WriteStatus, RemovePool, Sync, bootVars, vars, BootOK
<1> QED BY <1>1, <1>2, <1>3, <1>4, <1>5, <1>6 DEF Next, Start

\* The process starts with nothing to create.
LEMMA BootInit == Init => BootOK
<1> SUFFICES ASSUME Init PROVE BootOK OBVIOUS
<1>1. <<>> \in Seq(Conversions) OBVIOUS
<1>2. boot.pc = "down" /\ boot.todo = <<>> BY DEF Init, Boot
<1>3. config \in Configs /\ converted \in BOOLEAN BY DEF Init
<1> QED BY <1>1, <1>2, <1>3 DEF BootOK

\* Every step is one of the webhook, of one of its clients, or none of theirs.
LEMMA AdmissionImplemented == BootOK /\ [Next]_vars => [AdmissionNext]_admissionVars
<1> SUFFICES ASSUME BootOK, [Next]_vars PROVE [AdmissionNext]_admissionVars OBVIOUS
<1>1. CASE CreateNext
  <2> DEFINE h == Head(boot.todo)
  <2>1. h \in Conversions BY <1>1 DEF CreateNext, BootOK
  <2>2. h.name \in Pools /\ h.spec \in Specs /\ h.history \in Histories
    BY <2>1 DEF Conversions
  <2>3. CreatePool(Startup, h.name, h.spec, h.history) BY <1>1 DEF CreateNext
  <2> HIDE DEF h
  <2> QED BY <2>2, <2>3, ClientsAssumption DEF AdmissionNext
<1>2. CASE Convert \/ CreateReturns \/ AfterConversion \/ Crash \/ UNCHANGED vars
  BY <1>2 DEF Convert, CreateReturns, AfterConversion, Crash, vars, admissionVars
<1>3. ASSUME NEW c \in Clients, ServeRequest(c) PROVE AdmissionNext
  BY <1>3 DEF ServeRequest, AdmissionNext
<1>4. ASSUME NEW c \in Users, User(c) PROVE AdmissionNext
  <2>1. c \in Clients BY ClientsAssumption
  <2>2. PICK p \in Pools :
          \/ \E spec \in UserSpecs : CreatePool(c, p, spec, <<>>) \/ EditPool(c, p, spec)
          \/ DeletePool(p)
    BY <1>4 DEF User
  <2> QED BY <2>1, <2>2, ConfigsAssumption DEF AdmissionNext
<1>5. CASE WriteStatus BY <1>5, ClientsAssumption DEF WriteStatus, AdmissionNext
<1>6. ASSUME NEW p \in Pools, RemovePool(p) \/ Sync(p) PROVE AdmissionNext
  BY <1>6 DEF RemovePool, Sync, AdmissionNext
<1> QED BY <1>1, <1>2, <1>3, <1>4, <1>5, <1>6 DEF Next, Start

\* The start of the program implements the admission of pools.
THEOREM StartIsAdmission == Spec => AdmissionSpec
<1>1. Init => AdmissionInit BY DEF Init
<1> QED BY <1>1, BootInit, BootStep, AdmissionImplemented, PTL DEF Spec, AdmissionSpec

\* The state of the start is well typed.
THEOREM StartTypes == Spec => []TypeOK
<1>1. AdmissionTypeOK /\ BootOK => TypeOK BY DEF BootOK, TypeOK
<1> QED BY <1>1, BootInit, BootStep, StartIsAdmission, AdmissionTypes, PTL DEF Spec

\* Pools converted from the kube-vip configmap and pools of users conflict only
\* if they raced, and leave a load balancer no choice where none did, through
\* every crash of the conversion.
THEOREM ConvertedPoolsFit == Spec => [](ConflictsAreRaces /\ StatusWritesPass /\ ChoiceIsClear)
  BY StartIsAdmission, OnlyRacesConflict, StatusNotRefused, ChoiceNeedsNoOrder, PTL

-----------------------------------------------------------------------------
(* Addresses survive the upgrade *)

\* The names of the pools that have to remember an address that a service had.
Keepers ==
    UNION {KeeperOf(config.services[k]) :
             k \in {j \in DOMAIN config.services : config.services[j].vip \in IPs}}

\* A pool of that name may be created with that history.
Remembers(name, history) ==
    \A k \in DOMAIN config.services :
        LET s == config.services[k]
        IN  s.vip \in IPs /\ name \in KeeperOf(s) => s.vip \in DOMAIN history

Upgrading == config # None /\ NamesDiffer(config)

\* Whatever the process created, is creating or is to create remembers its
\* addresses.
HistoriesKept ==
    Upgrading =>
        /\ \A p \in Pools : born[p] # None /\ born[p].by = Startup => Remembers(p, born[p].history)
        /\ req[Startup].pc # "idle" /\ req[Startup].op = "create"
             => Remembers(req[Startup].name, req[Startup].obj.history)
        /\ \A i \in DOMAIN boot.todo : Remembers(boot.todo[i].name, boot.todo[i].history)

\* A pool has been there.
Seen(name) == name \in Pools /\ born[name] # None

\* No pool is left out: it has been there or is on the list.
NoneForgotten ==
    /\ Upgrading /\ boot.pc \in {"create", "wait", "annotate"} =>
         \A name \in Keepers :
             Seen(name) \/ (~converted /\ \E i \in DOMAIN boot.todo : boot.todo[i].name = name)
    /\ Upgrading /\ converted => \A name \in Keepers : Seen(name)
    /\ converted => config # None
    /\ boot.pc = "annotate" => boot.todo = <<>>

\* The Create that the process waits for is that of the first on its list; if it
\* is answered with ok or exists, the pool has been there.
Waiting ==
    boot.pc = "wait" =>
        IF req[Startup].pc # "idle"
        THEN req[Startup].op = "create" /\ req[Startup].name = Head(boot.todo).name
        ELSE req[Startup].outcome \in {"ok", "exists"} => Seen(Head(boot.todo).name)

\* A pool that is there has come to be, and an Update that is not outdated is of one.
AllBorn ==
    /\ \A p \in Pools : Exists(p) => born[p] # None
    /\ \A c \in Clients : req[c].pc # "idle" /\ req[c].op = "update" /\ req[c].fresh
         => Exists(req[c].name)
    /\ \A c \in Clients : req[c].pc # "idle" => req[c].op \in {"create", "update"}

UpgradeInv == HistoriesKept /\ NoneForgotten /\ Waiting /\ AllBorn

\* An order has every entry once.
LEMMA OrderLists ==
    ASSUME NEW S, IsFiniteSet(S), NEW f \in SetToSeqs(S)
    PROVE  /\ \A i \in DOMAIN f : f[i] \in S /\ i \in Nat /\ i # 0
           /\ \A i, j \in DOMAIN f : f[i] = f[j] => i = j
           /\ \A e \in S : \E i \in DOMAIN f : f[i] = e
<1> DEFINE n == Cardinality(S)
<1>1. n \in Nat BY FS_CardinalityType
<1>2. f \in [1 .. n -> S] /\ \A i, j \in 1 .. n : i # j => f[i] # f[j] BY DEF SetToSeqs
<1>3. ASSUME NEW e \in S, \A i \in 1 .. n : f[i] # e PROVE FALSE
  <2>1. f \in [1 .. n -> S \ {e}] BY <1>2, <1>3
  <2>2. IsFiniteSet(S \ {e}) /\ Cardinality(S \ {e}) = n - 1 BY FS_RemoveElement
  <2>3. IsFiniteSet(1 .. n) /\ Cardinality(1 .. n) = n
    <3>1. 1 \in Int /\ n \in Int BY <1>1
    <3>2. IsFiniteSet(1 .. n) /\ Cardinality(1 .. n) = IF 1 > n THEN 0 ELSE n - 1 + 1
      BY <3>1, FS_Interval
    <3> QED BY <1>1, <3>2
  <2> HIDE DEF n
  <2>4. Cardinality(S \ {e}) < Cardinality(1 .. n) BY <1>1, <2>2, <2>3
  <2>5. \E x, y \in 1 .. n : x # y /\ f[x] = f[y]
    BY <2>1, <2>2, <2>3, <2>4, FS_PigeonHole
  <2> QED BY <1>2, <2>5
<1>4. DOMAIN f = 1 .. n BY <1>2
<1>5. \A i \in 1 .. n : f[i] \in S /\ i \in Nat /\ i # 0 BY <1>1, <1>2
<1> QED BY <1>2, <1>3, <1>4, <1>5

\* The one pool of its name is the last.
LEMMA OnlyIsLast ==
    ASSUME NEW order, NEW i \in DOMAIN order, i \in Nat, NEW name, order[i].name = name,
           \A j \in DOMAIN order : order[j].name = name => j = i
    PROVE  LastNamed(order, name) = i
<1>1. {j \in DOMAIN order : order[j].name = name} = {i} OBVIOUS
<1>2. Max({i}) = i BY DEF Max
<1> QED BY <1>1, <1>2 DEF LastNamed

\* assignAllocatedIPs gives an address to the pool that is to keep it.
LEMMA Assigned ==
    ASSUME config \in Configs, Upgrading, NEW order \in EntryOrders(config.entries),
           NEW k \in DOMAIN config.services, config.services[k].vip \in IPs,
           NEW name \in KeeperOf(config.services[k])
    PROVE  \E i \in DOMAIN order :
             /\ order[i].name = name
             /\ \A j \in DOMAIN order : order[j].name = name => j = i
             /\ AssignAllocatedIPs(order, config.services[k]) = i
<1> DEFINE s == config.services[k]
           S == {e \in config.entries : Known(e)}
           in(e) == InRangeSet(MakeRangeSet(MakeIPPool(e).ranges), s.vip)
<1>1. order \in SetToSeqs(S) BY DEF EntryOrders
<1>2. IsFiniteSet(S)
  <2>1. IsFiniteSet(config.entries) BY EntriesAssumption DEF Upgrading
  <2> QED BY <2>1, FS_Subset
<1>3. /\ \A i \in DOMAIN order : order[i] \in S /\ i \in Nat /\ i # 0
      /\ \A i, j \in DOMAIN order : order[i] = order[j] => i = j
      /\ \A e \in S : \E i \in DOMAIN order : order[i] = e
  BY <1>1, <1>2, OrderLists
<1>4. \A e, g \in S : e.name = g.name => e = g BY DEF Upgrading, NamesDiffer
<1>5. \A x : Entry(x) = {e \in S : e.name = x} BY DEF Entry
<1>6. \A x : \A i \in DOMAIN order : order[i].name = x => LastNamed(order, x) = i
  <2> SUFFICES ASSUME NEW x, NEW i \in DOMAIN order, order[i].name = x
               PROVE  LastNamed(order, x) = i
    OBVIOUS
  <2>1. \A j \in DOMAIN order : order[j].name = x => j = i BY <1>3, <1>4
  <2>2. i \in Nat BY <1>3
  <2> QED BY <2>1, <2>2, OnlyIsLast
<1>7. PICK e \in S : e.name = name /\ in(e) BY <1>5 DEF KeeperOf
<1>8. PICK i \in DOMAIN order : order[i] = e BY <1>3
<1>9. \A j \in DOMAIN order : order[j].name = name => j = i BY <1>3, <1>4, <1>7, <1>8
<1>10. LastNamed(order, name) = i /\ Holds(order, i, s.vip)
  BY <1>3, <1>6, <1>7, <1>8 DEF Holds
<1>11. s.vip \notin {AskDHCP, None} BY EntriesAssumption
<1>12. CASE name = s.namespace
  BY <1>7, <1>8, <1>9, <1>10, <1>11, <1>12 DEF AssignAllocatedIPs
<1>13. CASE name # s.namespace
  <2>1. name = GlobalIPPoolName /\ ~\E g \in Entry(s.namespace) : in(g)
    BY <1>13 DEF KeeperOf
  <2> DEFINE own == LastNamed(order, s.namespace)
  <2>2. own = 0 \/ \E j \in DOMAIN order : own = j /\ order[j].name = s.namespace
    BY <1>6 DEF LastNamed
  <2>3. ~Holds(order, own, s.vip)
    <3> HIDE DEF own
    <3> QED BY <1>3, <1>5, <2>1, <2>2 DEF Holds
  <2> QED BY <1>7, <1>8, <1>9, <1>10, <1>11, <2>1, <2>3 DEF AssignAllocatedIPs
<1> QED BY <1>12, <1>13

\* Every list that the conversion may return has all pools that are to keep an
\* address, with that address, in whatever order the map was iterated.
LEMMA ConversionRemembers ==
    ASSUME config \in Configs, Upgrading,
           NEW list \in ConvertFromKubevipConfigMap[config], list # None
    PROVE  /\ \A i \in DOMAIN list : Remembers(list[i].name, list[i].history)
           /\ \A name \in Keepers : \E i \in DOMAIN list : list[i].name = name
<1>1. config \in Configs \ {None} BY DEF Upgrading
<1>2. PICK order \in EntryOrders(config.entries) :
        list = [i \in DOMAIN order |->
                 [name    |-> order[i].name,
                  spec    |-> MakeIPPool(order[i]),
                  history |-> HistoryOf(order, config.services, i)]]
  BY <1>1 DEF ConvertFromKubevipConfigMap
<1>3. /\ DOMAIN list = DOMAIN order
      /\ \A i \in DOMAIN order : /\ list[i].name = order[i].name
                                 /\ list[i].history = HistoryOf(order, config.services, i)
  BY <1>2
<1>4. ASSUME NEW i \in DOMAIN order, NEW k \in DOMAIN config.services,
             config.services[k].vip \in IPs, order[i].name \in KeeperOf(config.services[k])
      PROVE  config.services[k].vip \in DOMAIN list[i].history
  <2>1. AssignAllocatedIPs(order, config.services[k]) = i BY <1>4, Assigned
  <2> DEFINE mine == {j \in DOMAIN config.services :
                         AssignAllocatedIPs(order, config.services[j]) = i}
  <2>2. k \in mine BY <2>1
  <2>3. DOMAIN HistoryOf(order, config.services, i) = {config.services[j].vip : j \in mine}
    BY DEF HistoryOf
  <2> HIDE DEF mine
  <2> QED BY <1>3, <2>2, <2>3
<1>5. \A i \in DOMAIN list : Remembers(list[i].name, list[i].history)
  BY <1>3, <1>4 DEF Remembers
<1>6. ASSUME NEW name \in Keepers PROVE \E i \in DOMAIN list : list[i].name = name
  <2>1. PICK k \in DOMAIN config.services :
          config.services[k].vip \in IPs /\ name \in KeeperOf(config.services[k])
    BY DEF Keepers
  <2>2. \E i \in DOMAIN order : order[i].name = name BY <2>1, Assigned
  <2> QED BY <1>3, <2>2
<1> QED BY <1>5, <1>6

-----------------------------------------------------------------------------
(* Requests and births *)

\* What a client submits is in its request, or it is refused at once.
LEMMA Submitted ==
    ASSUME AdmissionTypeOK, NEW c \in Clients, NEW op \in {"create", "update"}, NEW p \in Pools,
           NEW pool \in PoolType, Submit(c, op, p, pool)
    PROVE  /\ pools' = pools /\ \A d \in Clients \ {c} : req'[d] = req[d]
           /\ op = "update" => Exists(p)
           /\ \/ req'[c].pc = "idle" /\ req'[c].outcome = "refused"
              \/ /\ req'[c].pc # "idle" /\ req'[c].op = op /\ req'[c].name = p
                 /\ req'[c].obj.history = pool.history
<1> DEFINE skip == op = "update" /\ pool.deleting
           obj  == IF skip THEN pool ELSE GetLabelPatch(pool)
           r    == [pc |-> IF skip THEN "commit" ELSE "ranges", op |-> op, name |-> p,
                    obj |-> obj, fresh |-> TRUE, saw |-> {}, outcome |-> None]
<1>1. pools' = pools /\ (op = "update" => Exists(p)) BY DEF Submit
<1>2. obj.history = pool.history BY DEF GetLabelPatch, PoolType
<1>3. req' = [req EXCEPT ![c] = Idle("refused")] \/ req' = [req EXCEPT ![c] = r]
  BY DEF Submit
<1>4. r.pc # "idle" /\ r.op = op /\ r.name = p /\ r.obj = obj OBVIOUS
<1>5. Idle("refused").pc = "idle" /\ Idle("refused").outcome = "refused" BY DEF Idle
<1> HIDE DEF r, obj
<1> QED BY <1>1, <1>2, <1>3, <1>4, <1>5 DEF AdmissionTypeOK

\* A request goes on as it is, or ends.
SameRequest(d) ==
    req'[d].pc # "idle" =>
        /\ req[d].pc # "idle" /\ req'[d].op = req[d].op /\ req'[d].name = req[d].name
        /\ req'[d].obj = req[d].obj /\ (req'[d].fresh => req[d].fresh)

\* A request that becomes outdated changes in that only.
LEMMA Outdated ==
    ASSUME AdmissionTypeOK, NEW p \in Pools, NEW changed \in BOOLEAN, NEW d \in Clients
    PROVE  LET r == Outdate(p, changed)[d]
           IN  /\ r.pc = req[d].pc /\ r.op = req[d].op /\ r.name = req[d].name
               /\ r.obj = req[d].obj /\ r.outcome = req[d].outcome
               /\ r.fresh => req[d].fresh /\ req[d].name # p
<1> DEFINE r == req[d]  f == (r.fresh /\ r.name # p)  s == IF changed THEN r.saw \ {p} ELSE r.saw
<1>1. r \in RequestType BY DEF AdmissionTypeOK
<1>2. Outdate(p, changed)[d] = [r EXCEPT !.fresh = f, !.saw = s] BY DEF Outdate
<1>3. f => r.fresh /\ r.name # p OBVIOUS
<1> HIDE DEF r, f, s
<1> DEFINE n == [r EXCEPT !.fresh = f, !.saw = s]
<1>4. /\ n.pc = r.pc /\ n.op = r.op /\ n.name = r.name /\ n.obj = r.obj
      /\ n.outcome = r.outcome /\ n.fresh = f
  BY <1>1 DEF RequestType
<1> QED BY <1>2, <1>3, <1>4 DEF r

\* The webhook takes one step for a client.
LEMMA Served ==
    ASSUME AdmissionInv, AllBorn, NEW c \in Clients, Serve(c)
    PROVE  /\ req[c].pc # "idle" /\ req[c].name \in Pools
           /\ \A d \in Clients : SameRequest(d)
           /\ \A d \in Clients \ {c} : req'[d].pc = req[d].pc /\ req'[d].outcome = req[d].outcome
           /\ \A p \in Pools : Exists(p) => Exists(p)'
           /\ \A p \in Pools : ~Exists(p) /\ Exists(p)' =>
                 /\ req[c].op = "create" /\ req[c].name = p
                 /\ pools'[p].history = req[c].obj.history
           /\ req'[c].pc = "idle" /\ req'[c].outcome \in {"ok", "exists"} => pools'[req[c].name] # NoPool
<1> DEFINE r == req[c]
<1>0. AdmissionTypeOK /\ r \in RequestType /\ req \in [Clients -> RequestType]
  BY DEF AdmissionInv, AdmissionTypeOK
<1>1. r.pc # "idle" BY DEF Serve, ValidateRanges, ValidateSelector, Commit
<1>2. r.name \in Pools /\ r.obj.sel # None
  BY <1>0, <1>1 DEF AdmissionInv, RequestsOK, RequestOK
<1>3. \A x : Idle(x).pc = "idle" /\ Idle(x).outcome = x BY DEF Idle
<1>4. ASSUME NEW n, req' = [req EXCEPT ![c] = n], pools' = pools,
             n.pc # "idle" => n.op = r.op /\ n.name = r.name /\ n.obj = r.obj /\ n.fresh = r.fresh,
             n.pc = "idle" /\ n.outcome \in {"ok", "exists"} => Exists(r.name)
      PROVE  /\ \A d \in Clients : SameRequest(d)
             /\ \A d \in Clients \ {c} : req'[d].pc = req[d].pc /\ req'[d].outcome = req[d].outcome
             /\ \A p \in Pools : Exists(p) <=> Exists(p)'
             /\ req'[c].pc = "idle" /\ req'[c].outcome \in {"ok", "exists"} => pools'[r.name] # NoPool
  <2>1. req'[c] = n /\ \A d \in Clients \ {c} : req'[d] = req[d] BY <1>0, <1>4
  <2> QED BY <1>1, <1>2, <1>4, <2>1 DEF SameRequest, Exists
<1>5. CASE ValidateRanges(c) \/ ValidateSelector(c)
  <2>1. \E saw : \/ req' = [req EXCEPT ![c] = Idle("refused")]
                 \/ req' = [req EXCEPT ![c] = [r EXCEPT !.pc = "selector", !.saw = saw]]
                 \/ req' = [req EXCEPT ![c] = [r EXCEPT !.pc = "commit", !.saw = saw]]
    BY <1>5 DEF ValidateRanges, ValidateSelector
  <2>2. pools' = pools BY <1>5 DEF ValidateRanges, ValidateSelector
  <2>3. ASSUME NEW saw, NEW pc \in {"selector", "commit"}
        PROVE  LET n == [r EXCEPT !.pc = pc, !.saw = saw]
               IN  n.pc = pc /\ n.op = r.op /\ n.name = r.name /\ n.obj = r.obj /\ n.fresh = r.fresh
    BY <1>0 DEF RequestType
  <2> HIDE DEF r
  <2>4. CASE req' = [req EXCEPT ![c] = Idle("refused")]
    <3>1. Idle("refused").pc = "idle" /\ Idle("refused").outcome = "refused" BY <1>3
    <3> HIDE DEF Idle
    <3> QED BY <1>1, <1>2, <1>4, <2>2, <2>4, <3>1 DEF r
  <2>5. ASSUME NEW saw, NEW pc \in {"selector", "commit"},
               req' = [req EXCEPT ![c] = [r EXCEPT !.pc = pc, !.saw = saw]]
        PROVE  /\ \A d \in Clients : SameRequest(d)
               /\ \A d \in Clients \ {c} : req'[d].pc = req[d].pc /\ req'[d].outcome = req[d].outcome
               /\ \A p \in Pools : Exists(p) <=> Exists(p)'
               /\ req'[c].pc # "idle"
    <3> DEFINE n == [r EXCEPT !.pc = pc, !.saw = saw]
    <3>1. /\ n.pc # "idle" /\ n.pc = pc
          /\ n.op = r.op /\ n.name = r.name /\ n.obj = r.obj /\ n.fresh = r.fresh
      BY <2>3
    <3>2. req' = [req EXCEPT ![c] = n] BY <2>5
    <3> HIDE DEF n
    <3>3. req'[c] = n BY <1>0, <3>2
    <3> QED BY <1>4, <2>2, <3>1, <3>2, <3>3
  <2> QED BY <1>1, <1>2, <2>1, <2>4, <2>5 DEF r
<1>6. CASE Commit(c)
  <2> DEFINE p == r.name  changed == SpecOf(r.obj) # SpecOf(pools[p])
  <2>1. CASE (r.op = "create" /\ Exists(p)) \/ (r.op = "update" /\ ~r.fresh)
    <3>1. PICK x \in {"exists", "conflict"} :
            /\ req' = [req EXCEPT ![c] = Idle(x)] /\ pools' = pools
            /\ x = "exists" => Exists(p)
      BY <1>6, <2>1 DEF Commit
    <3>2. Idle(x).pc = "idle" /\ Idle(x).outcome = x BY <1>3
    <3> HIDE DEF r
    <3> QED BY <1>1, <1>2, <1>4, <3>1, <3>2 DEF r
  <2>2. CASE ~((r.op = "create" /\ Exists(p)) \/ (r.op = "update" /\ ~r.fresh))
    <3>1. pools' = [pools EXCEPT ![p] = r.obj] /\ req' = [Outdate(p, changed) EXCEPT ![c] = Idle("ok")]
      BY <1>6, <2>2 DEF Commit
    <3>2. changed \in BOOLEAN OBVIOUS
    <3> HIDE DEF changed
    <3>3. /\ pools'[p] = r.obj /\ r.obj # NoPool
          /\ \A q \in Pools \ {p} : pools'[q] = pools[q]
      BY <1>0, <1>2, <3>1 DEF AdmissionTypeOK, NoPool
    <3>4. req'[c] = Idle("ok") /\ \A d \in Clients \ {c} : req'[d] = Outdate(p, changed)[d]
      BY <3>1 DEF Outdate
    <3>5. ~Exists(p) => r.op = "create"
      BY <1>1, <2>2 DEF AllBorn
    <3>6. \A d \in Clients \ {c} : /\ SameRequest(d)
                                   /\ req'[d].pc = req[d].pc /\ req'[d].outcome = req[d].outcome
      <4> SUFFICES ASSUME NEW d \in Clients \ {c}
                   PROVE  /\ SameRequest(d)
                          /\ req'[d].pc = req[d].pc /\ req'[d].outcome = req[d].outcome
        OBVIOUS
      <4>1. /\ req'[d].pc = req[d].pc /\ req'[d].op = req[d].op /\ req'[d].name = req[d].name
            /\ req'[d].obj = req[d].obj /\ req'[d].outcome = req[d].outcome
            /\ req'[d].fresh => req[d].fresh
        BY <1>0, <1>2, <3>2, <3>4, Outdated
      <4> QED BY <4>1 DEF SameRequest
    <3>7. SameRequest(c) BY <1>3, <3>4 DEF SameRequest
    <3>8. /\ \A q \in Pools : Exists(q) => Exists(q)'
          /\ \A q \in Pools : ~Exists(q) /\ Exists(q)' => q = p
          /\ pools'[p] # NoPool
      BY <1>2, <3>3 DEF Exists
    <3> QED BY <1>1, <1>2, <3>3, <3>5, <3>6, <3>7, <3>8
  <2> QED BY <2>1, <2>2
<1> QED BY <1>5, <1>6 DEF Serve

\* A client that submits a request makes no pool.
LEMMA SubmitBorn ==
    ASSUME AdmissionInv, AllBorn, NEW c \in Clients, NEW op \in {"create", "update"},
           NEW p \in Pools, NEW pool \in PoolType, Submit(c, op, p, pool), born' = born
    PROVE  AllBorn'
<1>1. /\ pools' = pools /\ \A d \in Clients \ {c} : req'[d] = req[d]
      /\ op = "update" => Exists(p)
      /\ req'[c].pc # "idle" => req'[c].op = op /\ req'[c].name = p
  BY Submitted DEF AdmissionInv
<1>2. \A d \in Clients : req'[d].pc # "idle" /\ req'[d].op = "update" /\ req'[d].fresh
                           => pools'[req'[d].name] # NoPool
  BY <1>1 DEF AllBorn, Exists
<1>3. \A d \in Clients : req'[d].pc # "idle" => req'[d].op \in {"create", "update"}
  BY <1>1 DEF AllBorn
<1> QED BY <1>1, <1>2, <1>3 DEF AllBorn, Exists

\* Nor does the API server that marks or removes one, and the requests that
\* know it are outdated.
LEMMA OutdateBorn ==
    ASSUME AdmissionInv, AllBorn, NEW p \in Pools, NEW changed \in BOOLEAN, NEW obj,
           Exists(p), pools' = [pools EXCEPT ![p] = obj], req' = Outdate(p, changed), born' = born
    PROVE  /\ AllBorn'
           /\ \A d \in Clients : /\ SameRequest(d)
                                 /\ req'[d].pc = req[d].pc /\ req'[d].outcome = req[d].outcome
<1>1. \A d \in Clients :
        /\ req'[d].pc = req[d].pc /\ req'[d].op = req[d].op /\ req'[d].name = req[d].name
        /\ req'[d].obj = req[d].obj /\ req'[d].outcome = req[d].outcome
        /\ req'[d].fresh => req[d].fresh /\ req[d].name # p
  BY Outdated DEF AdmissionInv
<1>2. \A q \in Pools \ {p} : pools'[q] = pools[q] BY DEF AdmissionInv, AdmissionTypeOK
<1>3. \A d \in Clients : req[d].pc # "idle" => req[d].name \in Pools
  BY DEF AdmissionInv, RequestsOK, RequestOK
<1>4. \A q \in Pools : pools'[q] # NoPool => born'[q] # None
  BY <1>2 DEF AllBorn, Exists
<1>5. \A d \in Clients : req'[d].pc # "idle" /\ req'[d].op = "update" /\ req'[d].fresh
                           => pools'[req'[d].name] # NoPool
  BY <1>1, <1>2, <1>3 DEF AllBorn, Exists
<1>6. \A d \in Clients : req'[d].pc # "idle" => req'[d].op \in {"create", "update"}
  BY <1>1 DEF AllBorn
<1>7. \A d \in Clients : SameRequest(d) BY <1>1 DEF SameRequest
<1> QED BY <1>1, <1>4, <1>5, <1>6, <1>7 DEF AllBorn, Exists

\* Who made a pool is known from then on.
LEMMA ServeBorn ==
    ASSUME AdmissionInv, AdmissionTypeOK', AllBorn, NEW c \in Clients, ServeRequest(c)
    PROVE  /\ AllBorn'
           /\ \A p \in Pools : born[p] # None => born'[p] # None
           /\ \A p \in Pools : \/ born'[p] = born[p]
                               \/ /\ born'[p] = [by |-> c, history |-> req[c].obj.history]
                                  /\ req[c].pc # "idle" /\ req[c].op = "create" /\ req[c].name = p
<1>0. Serve(c) BY DEF ServeRequest
<1>1. /\ req[c].pc # "idle"
      /\ \A d \in Clients : SameRequest(d)
      /\ \A p \in Pools : Exists(p) => Exists(p)'
      /\ \A p \in Pools : ~Exists(p) /\ Exists(p)' =>
             /\ req[c].op = "create" /\ req[c].name = p
             /\ pools'[p].history = req[c].obj.history
  BY <1>0, Served
<1>2. \A p \in Pools : born'[p] = IF ~Exists(p) /\ Exists(p)'
                                  THEN [by |-> c, history |-> pools'[p].history]
                                  ELSE born[p]
  BY DEF ServeRequest, Exists
<1>3. \A p \in Pools : [by |-> c, history |-> pools'[p].history] # None
  <2> SUFFICES ASSUME NEW p \in Pools PROVE [by |-> c, history |-> pools'[p].history] # None
    OBVIOUS
  <2>1. pools'[p].history \in {<<>>} \cup Histories BY DEF AdmissionTypeOK, PoolType
  <2>2. pools'[p].history \in Histories BY <2>1, ConfigsAssumption
  <2>3. [by |-> c, history |-> pools'[p].history] \in [by : Clients, history : Histories]
    BY <2>2
  <2> QED BY <2>3, EntriesAssumption
<1>4. \A p \in Pools : born[p] # None => born'[p] # None BY <1>2, <1>3
<1>5. \A p \in Pools : Exists(p)' => born'[p] # None BY <1>2, <1>3 DEF AllBorn
<1>6. \A d \in Clients : req[d].pc # "idle" => req[d].name \in Pools
  BY DEF AdmissionInv, RequestsOK, RequestOK
<1>7. \A d \in Clients : req'[d].pc # "idle" /\ req'[d].op = "update" /\ req'[d].fresh
                           => pools'[req'[d].name] # NoPool
  BY <1>1, <1>6 DEF AllBorn, SameRequest, Exists
<1>8. \A d \in Clients : req'[d].pc # "idle" => req'[d].op \in {"create", "update"}
  BY <1>1 DEF AllBorn, SameRequest
<1>9. AllBorn' BY <1>5, <1>7, <1>8 DEF AllBorn, Exists
<1> QED BY <1>1, <1>2, <1>4, <1>9

-----------------------------------------------------------------------------
(* The upgrade *)

\* The configmap stays what it is, and so does what is to be kept.
LEMMA ConfigStays ==
    ASSUME [Next]_vars
    PROVE  config' = config
  BY DEF Next, Start, Convert, CreateNext, CreateReturns, AfterConversion, Crash, ServeRequest,
         User, WriteStatus, RemovePool, Sync, bootVars, vars

\* Who is to remember what depends on the configmap alone.
LEMMA KeepersStay ==
    ASSUME config' = config
    PROVE  /\ Upgrading' <=> Upgrading
           /\ Keepers' = Keepers
           /\ \A n, h : Remembers(n, h)' <=> Remembers(n, h)
<1>1. Upgrading' <=> Upgrading BY DEF Upgrading, NamesDiffer
<1>2. \A k : KeeperOf(config.services[k])' = KeeperOf(config.services[k])
  BY DEF KeeperOf, Entry
<1>3. Keepers' = Keepers BY <1>2 DEF Keepers
<1>4. \A n, h : Remembers(n, h)' <=> Remembers(n, h) BY <1>2 DEF Remembers
<1> QED BY <1>1, <1>3, <1>4

\* The request of the process goes on or ends, while others are at work.
LEMMA OthersUpgrade ==
    ASSUME UpgradeInv, AllBorn', UNCHANGED <<config, converted, boot, born>>,
           SameRequest(Startup), req'[Startup].pc = req[Startup].pc,
           req'[Startup].outcome = req[Startup].outcome
    PROVE  UpgradeInv'
<1>1. /\ Upgrading' <=> Upgrading /\ Keepers' = Keepers
      /\ \A n, h : Remembers(n, h)' <=> Remembers(n, h)
  BY KeepersStay
<1>2. HistoriesKept'
  <2> SUFFICES ASSUME Upgrading
               PROVE  /\ \A p \in Pools : born'[p] # None /\ born'[p].by = Startup
                                            => Remembers(p, born'[p].history)
                      /\ req'[Startup].pc # "idle" /\ req'[Startup].op = "create"
                           => Remembers(req'[Startup].name, req'[Startup].obj.history)
                      /\ \A i \in DOMAIN boot'.todo :
                           Remembers(boot'.todo[i].name, boot'.todo[i].history)
    BY <1>1 DEF HistoriesKept
  <2> QED BY DEF UpgradeInv, HistoriesKept, SameRequest
<1>3. NoneForgotten' BY <1>1 DEF UpgradeInv, NoneForgotten, Seen
<1>4. Waiting' BY DEF UpgradeInv, Waiting, SameRequest, Seen
<1> QED BY <1>2, <1>3, <1>4 DEF UpgradeInv

\* The answer to a Create, or a step before it.
LEMMA ServeUpgrade ==
    ASSUME AdmissionInv, AdmissionTypeOK', BootOK, UpgradeInv, NEW c \in Clients, ServeRequest(c)
    PROVE  UpgradeInv'
<1>0. UNCHANGED <<config, converted, boot>> /\ Serve(c) BY DEF ServeRequest
<1>1. /\ AllBorn'
      /\ \A p \in Pools : born[p] # None => born'[p] # None
      /\ \A p \in Pools : \/ born'[p] = born[p]
                          \/ /\ born'[p] = [by |-> c, history |-> req[c].obj.history]
                             /\ req[c].pc # "idle" /\ req[c].op = "create" /\ req[c].name = p
  BY ServeBorn DEF UpgradeInv
<1>2. /\ req[c].pc # "idle" /\ req[c].name \in Pools
      /\ \A d \in Clients : SameRequest(d)
      /\ \A d \in Clients \ {c} : req'[d].pc = req[d].pc /\ req'[d].outcome = req[d].outcome
      /\ req'[c].pc = "idle" /\ req'[c].outcome \in {"ok", "exists"} => pools'[req[c].name] # NoPool
  BY <1>0, Served DEF UpgradeInv
<1>3. /\ Upgrading' <=> Upgrading /\ Keepers' = Keepers
      /\ \A n, h : Remembers(n, h)' <=> Remembers(n, h)
  BY <1>0, KeepersStay
<1>4. Startup \in Clients BY ClientsAssumption
<1>5. \A name : Seen(name) => name \in Pools /\ born'[name] # None BY <1>1 DEF Seen
<1>6. HistoriesKept'
  <2> SUFFICES ASSUME Upgrading
               PROVE  /\ \A p \in Pools : born'[p] # None /\ born'[p].by = Startup
                                            => Remembers(p, born'[p].history)
                      /\ req'[Startup].pc # "idle" /\ req'[Startup].op = "create"
                           => Remembers(req'[Startup].name, req'[Startup].obj.history)
                      /\ \A i \in DOMAIN boot'.todo :
                           Remembers(boot'.todo[i].name, boot'.todo[i].history)
    BY <1>3 DEF HistoriesKept
  <2>1. ASSUME NEW p \in Pools, born'[p] # None, born'[p].by = Startup
        PROVE  Remembers(p, born'[p].history)
    <3>1. CASE born'[p] = born[p] BY <2>1, <3>1 DEF UpgradeInv, HistoriesKept
    <3>2. CASE /\ born'[p] = [by |-> c, history |-> req[c].obj.history]
               /\ req[c].pc # "idle" /\ req[c].op = "create" /\ req[c].name = p
      <4>1. c = Startup /\ born'[p].history = req[c].obj.history BY <2>1, <3>2
      <4> QED BY <3>2, <4>1 DEF UpgradeInv, HistoriesKept
    <3> QED BY <1>1, <3>1, <3>2
  <2>2. req'[Startup].pc # "idle" /\ req'[Startup].op = "create"
          => Remembers(req'[Startup].name, req'[Startup].obj.history)
    BY <1>2, <1>4 DEF UpgradeInv, HistoriesKept, SameRequest
  <2>3. \A i \in DOMAIN boot'.todo : Remembers(boot'.todo[i].name, boot'.todo[i].history)
    BY <1>0 DEF UpgradeInv, HistoriesKept
  <2> QED BY <2>1, <2>2, <2>3
<1>7. NoneForgotten' BY <1>0, <1>3, <1>5 DEF UpgradeInv, NoneForgotten, Seen
<1>8. Waiting'
  <2> SUFFICES ASSUME boot.pc = "wait"
               PROVE  IF req'[Startup].pc # "idle"
                      THEN req'[Startup].op = "create" /\ req'[Startup].name = Head(boot.todo).name
                      ELSE req'[Startup].outcome \in {"ok", "exists"}
                             => Head(boot.todo).name \in Pools /\ born'[Head(boot.todo).name] # None
    BY <1>0 DEF Waiting, Seen
  <2>1. CASE req'[Startup].pc # "idle"
    BY <1>2, <1>4, <2>1 DEF UpgradeInv, Waiting, SameRequest
  <2>2. CASE req'[Startup].pc = "idle" /\ c # Startup
    BY <1>2, <1>4, <1>5, <2>2 DEF UpgradeInv, Waiting
  <2>3. CASE req'[Startup].pc = "idle" /\ c = Startup
    <3>1. req[Startup].name = Head(boot.todo).name BY <1>2, <2>3 DEF UpgradeInv, Waiting
    <3>2. req'[Startup].outcome \in {"ok", "exists"} => pools'[req[Startup].name] # NoPool
      BY <1>2, <2>3
    <3>3. \A p \in Pools : pools'[p] # NoPool => born'[p] # None BY <1>1 DEF AllBorn, Exists
    <3> QED BY <1>2, <2>3, <3>1, <3>2, <3>3
  <2> QED BY <2>1, <2>2, <2>3
<1> QED BY <1>1, <1>6, <1>7, <1>8 DEF UpgradeInv

\* Users, and the API server.
LEMMA UserUpgrade ==
    ASSUME AdmissionInv, UpgradeInv, NEW c \in Users, User(c)
    PROVE  UpgradeInv'
<1>0. UNCHANGED <<config, converted, boot, born>> BY DEF User
<1>1. c \in Clients /\ Startup \in Clients /\ c # Startup BY ClientsAssumption
<1>2. PICK p \in Pools :
        \/ \E spec \in UserSpecs : CreatePool(c, p, spec, <<>>) \/ EditPool(c, p, spec)
        \/ DeletePool(p)
  BY DEF User
<1>3. ASSUME NEW op \in {"create", "update"}, NEW pool \in PoolType, Submit(c, op, p, pool)
      PROVE  UpgradeInv'
  <2>1. AllBorn' BY <1>0, <1>1, <1>3, SubmitBorn DEF UpgradeInv
  <2>2. req'[Startup] = req[Startup] BY <1>1, <1>3, Submitted DEF AdmissionInv
  <2> QED BY <1>0, <2>1, <2>2, OthersUpgrade DEF SameRequest
<1>4. ASSUME NEW spec \in UserSpecs, CreatePool(c, p, spec, <<>>) PROVE UpgradeInv'
  <2> DEFINE pool == [NewPool(spec) EXCEPT !.history = <<>>]
  <2>1. spec \in Specs BY ConfigsAssumption
  <2>2. pool \in PoolType BY <2>1, NoPoolType DEF NewPool, NoPool, PoolType
  <2>3. Submit(c, "create", p, pool) BY <1>4 DEF CreatePool
  <2> HIDE DEF pool
  <2> QED BY <1>3, <2>2, <2>3
<1>5. ASSUME NEW spec \in UserSpecs, EditPool(c, p, spec) PROVE UpgradeInv'
  <2> DEFINE pool == [pools[p] EXCEPT !.ranges = spec.ranges, !.sel = spec.sel]
  <2>1. spec \in Specs BY ConfigsAssumption
  <2>2. pool \in PoolType BY <2>1 DEF AdmissionInv, AdmissionTypeOK, PoolType
  <2>3. Submit(c, "update", p, pool) BY <1>5 DEF EditPool
  <2> HIDE DEF pool
  <2> QED BY <1>3, <2>2, <2>3
<1>6. CASE DeletePool(p)
  <2>1. /\ Exists(p) /\ req' = Outdate(p, FALSE)
        /\ pools' = [pools EXCEPT ![p] = [pools[p] EXCEPT !.deleting = TRUE]]
    BY <1>6 DEF DeletePool
  <2>2. /\ AllBorn' /\ SameRequest(Startup) /\ req'[Startup].pc = req[Startup].pc
        /\ req'[Startup].outcome = req[Startup].outcome
    BY <1>0, <1>1, <2>1, OutdateBorn DEF UpgradeInv
  <2> QED BY <1>0, <2>2, OthersUpgrade
<1> QED BY <1>2, <1>4, <1>5, <1>6

\* Pools that go and caches that catch up lose no address.
LEMMA PoolUpgrade ==
    ASSUME AdmissionInv, UpgradeInv, NEW p \in Pools, RemovePool(p) \/ Sync(p)
    PROVE  UpgradeInv'
<1>0. UNCHANGED <<config, converted, boot, born>> BY DEF RemovePool, Sync, bootVars
<1>1. Startup \in Clients BY ClientsAssumption
<1>2. CASE RemovePool(p)
  <2>1. /\ pools[p].deleting /\ req' = Outdate(p, TRUE) /\ pools' = [pools EXCEPT ![p] = NoPool]
    BY <1>2 DEF RemovePool, PoolGone
  <2>2. Exists(p) BY <2>1 DEF Exists, NoPool
  <2>3. /\ AllBorn' /\ SameRequest(Startup) /\ req'[Startup].pc = req[Startup].pc
        /\ req'[Startup].outcome = req[Startup].outcome
    BY <1>0, <1>1, <2>1, <2>2, OutdateBorn DEF UpgradeInv
  <2> QED BY <1>0, <2>3, OthersUpgrade
<1>3. CASE Sync(p)
  <2>1. UNCHANGED <<pools, req, born>> BY <1>0, <1>3 DEF Sync, SyncPool
  <2>2. AllBorn' BY <2>1 DEF UpgradeInv, AllBorn, Exists
  <2> QED BY <1>0, <2>1, <2>2, OthersUpgrade DEF SameRequest
<1> QED BY <1>2, <1>3

\* The running controllers write only what is there.
LEMMA WriteUpgrade ==
    ASSUME AdmissionInv, UpgradeInv, WriteStatus
    PROVE  UpgradeInv'
<1>0. UNCHANGED <<config, converted, boot, born>> /\ boot.pc = "running" BY DEF WriteStatus
<1>1. Startup \in Clients BY ClientsAssumption
<1>2. PICK p \in Pools, ip \in IPs : Allocate(Startup, p, ip) BY DEF WriteStatus
<1> DEFINE al == IF ip \in pools[p].allocated THEN pools[p].allocated \ {ip}
                                              ELSE pools[p].allocated \cup {ip}
           pool == [pools[p] EXCEPT !.allocated = al]
<1>3. pools[p] \in PoolType /\ al \in SUBSET IPs
  BY DEF AdmissionInv, AdmissionTypeOK, PoolType
<1>4. Submit(Startup, "update", p, pool) BY <1>2 DEF Allocate
<1> HIDE DEF al
<1>5. pool \in PoolType BY <1>3 DEF PoolType
<1> HIDE DEF pool
<1>6. AllBorn' BY <1>0, <1>1, <1>4, <1>5, SubmitBorn DEF UpgradeInv
<1>7. req'[Startup].pc # "idle" => req'[Startup].op = "update"
  BY <1>1, <1>4, <1>5, Submitted DEF AdmissionInv
<1>8. /\ Upgrading' <=> Upgrading /\ Keepers' = Keepers
      /\ \A n, h : Remembers(n, h)' <=> Remembers(n, h)
  BY <1>0, KeepersStay
<1>9. HistoriesKept'
  <2> SUFFICES ASSUME Upgrading
               PROVE  /\ \A q \in Pools : born'[q] # None /\ born'[q].by = Startup
                                            => Remembers(q, born'[q].history)
                      /\ \A i \in DOMAIN boot'.todo :
                           Remembers(boot'.todo[i].name, boot'.todo[i].history)
    BY <1>7, <1>8 DEF HistoriesKept
  <2> QED BY <1>0 DEF UpgradeInv, HistoriesKept
<1>10. NoneForgotten' BY <1>0, <1>8 DEF UpgradeInv, NoneForgotten, Seen
<1>11. Waiting' BY <1>0 DEF Waiting
<1> QED BY <1>6, <1>9, <1>10, <1>11 DEF UpgradeInv

\* The Create of the first on the list.
LEMMA CreateUpgrade ==
    ASSUME AdmissionInv, BootOK, UpgradeInv, CreateNext
    PROVE  UpgradeInv'
<1> DEFINE h == Head(boot.todo)
           pool == [NewPool(h.spec) EXCEPT !.history = h.history]
<1>0. /\ UNCHANGED <<config, converted, born>> /\ boot.pc = "create"
      /\ boot' = [boot EXCEPT !.pc = "wait"]
  BY DEF CreateNext
<1>1. Startup \in Clients BY ClientsAssumption
<1>2. boot.todo \in Seq(Conversions) /\ boot.todo # <<>> BY <1>0 DEF BootOK
<1>3. h \in Conversions /\ 1 \in DOMAIN boot.todo /\ h = boot.todo[1] BY <1>2
<1>4. h.name \in Pools /\ h.spec \in Specs /\ h.history \in Histories BY <1>3 DEF Conversions
<1>5. Submit(Startup, "create", h.name, pool) BY DEF CreateNext, CreatePool
<1>6. boot'.todo = boot.todo /\ boot'.pc \in {"wait", boot.pc} BY <1>0
<1>7. ASSUME boot'.pc # "wait" PROVE boot'.pc = "create" BY <1>0, <1>6, <1>7
<1>8. pool \in PoolType /\ pool.history = h.history
  BY <1>4, NoPoolType DEF NewPool, NoPool, PoolType
<1> HIDE DEF h, pool
<1>9. AllBorn' BY <1>0, <1>1, <1>4, <1>5, <1>8, SubmitBorn DEF UpgradeInv
<1>10. \/ req'[Startup].pc = "idle" /\ req'[Startup].outcome = "refused"
       \/ /\ req'[Startup].pc # "idle" /\ req'[Startup].op = "create" /\ req'[Startup].name = h.name
          /\ req'[Startup].obj.history = h.history
  BY <1>1, <1>4, <1>5, <1>8, Submitted DEF AdmissionInv
<1>11. /\ Upgrading' <=> Upgrading /\ Keepers' = Keepers
       /\ \A n, x : Remembers(n, x)' <=> Remembers(n, x)
  BY <1>0, KeepersStay
<1>12. HistoriesKept'
  <2> SUFFICES ASSUME Upgrading
               PROVE  /\ \A q \in Pools : born'[q] # None /\ born'[q].by = Startup
                                            => Remembers(q, born'[q].history)
                      /\ req'[Startup].pc # "idle" /\ req'[Startup].op = "create"
                           => Remembers(req'[Startup].name, req'[Startup].obj.history)
                      /\ \A i \in DOMAIN boot'.todo :
                           Remembers(boot'.todo[i].name, boot'.todo[i].history)
    BY <1>11 DEF HistoriesKept
  <2>1. Remembers(h.name, h.history) BY <1>3 DEF UpgradeInv, HistoriesKept
  <2> QED BY <1>0, <1>6, <1>10, <2>1 DEF UpgradeInv, HistoriesKept
<1>13. NoneForgotten'
  BY <1>0, <1>6, <1>11 DEF UpgradeInv, NoneForgotten, Seen
<1>14. Waiting' BY <1>6, <1>10 DEF Waiting, h
<1> QED BY <1>9, <1>12, <1>13, <1>14 DEF UpgradeInv

\* The loop goes on with a list that leaves no pool out.
LEMMA ProceedUpgrade ==
    ASSUME UpgradeInv, UNCHANGED <<pools, req, config, converted, born>>,
           NEW todo \in Seq(Conversions), Proceed(todo),
           Upgrading => \A i \in DOMAIN todo : Remembers(todo[i].name, todo[i].history),
           Upgrading => \A name \in Keepers :
               Seen(name) \/ (~converted /\ \E i \in DOMAIN todo : todo[i].name = name)
    PROVE  UpgradeInv'
<1>1. /\ boot'.todo = todo /\ boot'.pc \in {"annotate", "create"}
      /\ boot'.pc = "annotate" => todo = <<>>
  BY DEF Proceed, Boot
<1>2. /\ Upgrading' <=> Upgrading /\ Keepers' = Keepers
      /\ \A n, h : Remembers(n, h)' <=> Remembers(n, h)
  BY KeepersStay
<1>3. HistoriesKept'
  <2> SUFFICES ASSUME Upgrading
               PROVE  /\ \A q \in Pools : born'[q] # None /\ born'[q].by = Startup
                                            => Remembers(q, born'[q].history)
                      /\ req'[Startup].pc # "idle" /\ req'[Startup].op = "create"
                           => Remembers(req'[Startup].name, req'[Startup].obj.history)
                      /\ \A i \in DOMAIN boot'.todo :
                           Remembers(boot'.todo[i].name, boot'.todo[i].history)
    BY <1>2 DEF HistoriesKept
  <2> QED BY <1>1 DEF UpgradeInv, HistoriesKept
<1>4. NoneForgotten' BY <1>1, <1>2 DEF UpgradeInv, NoneForgotten, Seen
<1>5. Waiting' BY <1>1 DEF Waiting
<1>6. AllBorn' BY DEF UpgradeInv, AllBorn, Exists
<1> QED BY <1>3, <1>4, <1>5, <1>6 DEF UpgradeInv

\* The process ends, or is done.
LEMMA RestUpgrade ==
    ASSUME UpgradeInv, UNCHANGED <<pools, req, config, born>>,
           boot'.pc \in {"down", "running"}, boot'.todo = <<>>,
           converted' = converted \/ (Upgrading => \A name \in Keepers : Seen(name)),
           converted' => config # None
    PROVE  UpgradeInv'
<1>1. /\ Upgrading' <=> Upgrading /\ Keepers' = Keepers
      /\ \A n, h : Remembers(n, h)' <=> Remembers(n, h)
  BY KeepersStay
<1>2. HistoriesKept'
  <2> SUFFICES ASSUME Upgrading
               PROVE  /\ \A q \in Pools : born'[q] # None /\ born'[q].by = Startup
                                            => Remembers(q, born'[q].history)
                      /\ req'[Startup].pc # "idle" /\ req'[Startup].op = "create"
                           => Remembers(req'[Startup].name, req'[Startup].obj.history)
                      /\ \A i \in DOMAIN boot'.todo :
                           Remembers(boot'.todo[i].name, boot'.todo[i].history)
    BY <1>1 DEF HistoriesKept
  <2> QED BY DEF UpgradeInv, HistoriesKept
<1>3. NoneForgotten' BY <1>1 DEF UpgradeInv, NoneForgotten, Seen
<1>4. Waiting' BY DEF Waiting
<1>5. AllBorn' BY DEF UpgradeInv, AllBorn, Exists
<1> QED BY <1>2, <1>3, <1>4, <1>5 DEF UpgradeInv

\* Nor does the process, as it converts, goes on, marks the configmap or dies.
LEMMA StartUpgrade ==
    ASSUME BootOK, UpgradeInv, Convert \/ CreateReturns \/ AfterConversion \/ Crash
    PROVE  UpgradeInv'
<1>0. UNCHANGED <<pools, req, config, born>>
  BY DEF Convert, CreateReturns, AfterConversion, Crash, admissionVars
<1>1. ASSUME Fatal, converted' = converted PROVE UpgradeInv'
  <2>1. boot'.pc = "down" /\ boot'.todo = <<>> BY <1>1 DEF Fatal, Boot
  <2> QED BY <1>0, <1>1, <2>1, RestUpgrade DEF UpgradeInv, NoneForgotten
<1>2. CASE Convert
  <2>0. UNCHANGED converted BY <1>2 DEF Convert
  <2>1. CASE config = None \/ converted
    <3>1. Proceed(<<>>) BY <1>2, <2>1 DEF Convert
    <3>2. <<>> \in Seq(Conversions) OBVIOUS
    <3>3. Upgrading => \A name \in Keepers : Seen(name)
      BY <2>1 DEF UpgradeInv, NoneForgotten, Upgrading
    <3> DEFINE none == <<>>
    <3>4. none \in Seq(Conversions) /\ DOMAIN none = {} /\ Proceed(none) BY <3>1, <3>2
    <3> HIDE DEF none
    <3> QED BY <1>0, <2>0, <3>3, <3>4, ProceedUpgrade
  <2>2. CASE ~(config = None \/ converted)
    <3>1. PICK list \in ConvertFromKubevipConfigMap[config] :
            IF list = None THEN Fatal ELSE Proceed(list)
      BY <1>2, <2>2 DEF Convert
    <3>2. CASE list = None BY <1>1, <2>0, <3>1, <3>2
    <3>3. CASE list # None
      <4>1. list \in Seq(Conversions) BY <2>2, <3>3, ConfigsAssumption DEF BootOK
      <4>2. ASSUME Upgrading
            PROVE  /\ \A i \in DOMAIN list : Remembers(list[i].name, list[i].history)
                   /\ \A name \in Keepers : \E i \in DOMAIN list : list[i].name = name
        BY <3>3, <4>2, ConversionRemembers DEF BootOK
      <4> QED BY <1>0, <2>0, <2>2, <3>1, <3>3, <4>1, <4>2, ProceedUpgrade
    <3> QED BY <3>2, <3>3
  <2> QED BY <2>1, <2>2
<1>3. CASE CreateReturns
  <2>0. UNCHANGED converted /\ boot.pc = "wait" /\ req[Startup].pc = "idle"
    BY <1>3 DEF CreateReturns
  <2>1. CASE req[Startup].outcome \in {"ok", "exists"}
    <3> DEFINE todo == boot.todo  rest == Tail(todo)
    <3>1. Proceed(rest) BY <1>3, <2>1 DEF CreateReturns
    <3>2. todo \in Seq(Conversions) /\ todo # <<>> BY <2>0 DEF BootOK
    <3>3. Seen(Head(todo).name) BY <2>0, <2>1 DEF UpgradeInv, Waiting
    <3> HIDE DEF todo
    <3>4. /\ rest \in Seq(Conversions) /\ Head(todo) = todo[1]
          /\ \A i \in DOMAIN rest : i + 1 \in DOMAIN todo /\ rest[i] = todo[i + 1]
          /\ \A i \in DOMAIN todo : i = 1 \/ (i - 1 \in DOMAIN rest /\ rest[i - 1] = todo[i])
      BY <3>2
    <3> HIDE DEF rest
    <3>5. Upgrading => \A i \in DOMAIN rest : Remembers(rest[i].name, rest[i].history)
      BY <3>4 DEF UpgradeInv, HistoriesKept, todo
    <3>6. ASSUME Upgrading, NEW name \in Keepers
          PROVE  Seen(name) \/ (~converted /\ \E i \in DOMAIN rest : rest[i].name = name)
      <4>1. Seen(name) \/ (~converted /\ \E i \in DOMAIN todo : todo[i].name = name)
        BY <2>0, <3>6 DEF UpgradeInv, NoneForgotten, todo
      <4> QED BY <3>3, <3>4, <4>1
    <3> QED BY <1>0, <2>0, <3>1, <3>4, <3>5, <3>6, ProceedUpgrade
  <2>2. CASE req[Startup].outcome \notin {"ok", "exists"}
    BY <1>1, <1>3, <2>0, <2>2 DEF CreateReturns
  <2> QED BY <2>1, <2>2
<1>4. CASE AfterConversion
  <2>1. CASE Fatal /\ UNCHANGED converted BY <1>1, <2>1
  <2>2. CASE RegisterAndStart /\ converted' = (config # None)
    <3>1. boot'.pc = "running" /\ boot'.todo = <<>> BY <2>2 DEF RegisterAndStart, Boot
    <3>2. boot.pc = "annotate" BY <1>4 DEF AfterConversion
    <3>3. Upgrading => \A name \in Keepers : Seen(name)
      BY <3>2 DEF UpgradeInv, NoneForgotten
    <3> QED BY <1>0, <2>2, <3>1, <3>3, RestUpgrade
  <2> QED BY <1>4, <2>1, <2>2 DEF AfterConversion
<1>5. CASE Crash BY <1>1, <1>5 DEF Crash
<1> QED BY <1>2, <1>3, <1>4, <1>5

\* Every step keeps what the upgrade is to keep.
LEMMA UpgradeStep ==
    ASSUME AdmissionInv, AdmissionInv', BootOK, UpgradeInv, [Next]_vars
    PROVE  UpgradeInv'
<1>1. CASE Convert \/ CreateReturns \/ AfterConversion \/ Crash BY <1>1, StartUpgrade
<1>2. CASE CreateNext BY <1>2, CreateUpgrade
<1>3. ASSUME NEW c \in Clients, ServeRequest(c) PROVE UpgradeInv'
  BY <1>3, ServeUpgrade DEF AdmissionInv
<1>4. ASSUME NEW c \in Users, User(c) PROVE UpgradeInv' BY <1>4, UserUpgrade
<1>5. CASE WriteStatus BY <1>5, WriteUpgrade
<1>6. ASSUME NEW p \in Pools, RemovePool(p) \/ Sync(p) PROVE UpgradeInv' BY <1>6, PoolUpgrade
<1>7. CASE UNCHANGED vars
  <2>1. UNCHANGED <<config, converted, boot, born, pools, req>>
    BY <1>7 DEF vars, bootVars, admissionVars
  <2>2. AllBorn' BY <2>1 DEF UpgradeInv, AllBorn, Exists
  <2> QED BY <2>1, <2>2, OthersUpgrade DEF SameRequest
<1> QED BY <1>1, <1>2, <1>3, <1>4, <1>5, <1>6, <1>7 DEF Next, Start

\* It holds before the first start.
LEMMA UpgradeInit ==
    ASSUME Init
    PROVE  UpgradeInv
<1>1. boot.pc = "down" /\ boot.todo = <<>> /\ ~converted BY DEF Init, Boot
<1>2. \A c \in Clients : req[c].pc = "idle" BY DEF Init, AdmissionInit, Idle
<1>3. Startup \in Clients BY ClientsAssumption
<1>4. \A p \in Pools : born[p] = None /\ ~Exists(p) BY DEF Init, AdmissionInit, Exists
<1> QED BY <1>1, <1>2, <1>3, <1>4
        DEF UpgradeInv, HistoriesKept, NoneForgotten, Waiting, AllBorn

\* Once the configmap is marked as converted, every pool that is to remember an
\* address of a service has been there, and if the conversion made it, with
\* that address: for every configmap in which the names of the pools differ, in
\* whatever order its entries are taken, through every crash and lost answer.
THEOREM UpgradeKeepsAddresses == Spec => []AddressesSurviveUpgrade
<1>1. UpgradeInv => AddressesSurviveUpgrade
  <2> SUFFICES ASSUME UpgradeInv, converted, NamesDiffer(config),
                      NEW k \in DOMAIN config.services, config.services[k].vip \in IPs,
                      NEW name \in KeeperOf(config.services[k])
               PROVE  /\ born[name] # None
                      /\ born[name].by = Startup
                           => config.services[k].vip \in DOMAIN born[name].history
    BY DEF AddressesSurviveUpgrade
  <2>1. Upgrading BY DEF UpgradeInv, NoneForgotten, Upgrading
  <2>2. name \in Keepers BY DEF Keepers
  <2>3. Seen(name) BY <2>1, <2>2 DEF UpgradeInv, NoneForgotten
  <2> QED BY <2>1, <2>3 DEF UpgradeInv, HistoriesKept, Remembers, Seen
<1>2. Init => AdmissionInv BY AdmissionInitInv DEF Init
<1> QED BY <1>1, <1>2, BootInit, BootStep, AdmissionImplemented, AdmissionStep, UpgradeInit,
           UpgradeStep, PTL DEF Spec
=============================================================================
