------------------------------- MODULE KubeVip -------------------------------
(***************************************************************************)
(* The start of the controller (main.run): the new leader converts the     *)
(* kube-vip configmap into IP pools (pkg/controller/ippool/kubevip), which *)
(* it creates through the webhook while users are at work there too, marks *)
(* the configmap as converted, and only then registers and starts the      *)
(* controllers.  Any error is fatal: the process ends and starts again.    *)
(*                                                                         *)
(* An entry of the configmap is [format, name, ranges]; a cidr range is    *)
(* [family, net, host], the other kind [family, start, end]; family "bad"  *)
(* is a text that does not parse.                                          *)
(***************************************************************************)
EXTENDS PoolAdmission

CONSTANTS
    Configs,      \* configmaps: [entries, services], or None for no configmap
    UserSpecs,    \* the specs that users write, a subset of Specs
    Users,        \* the other clients
    Startup,      \* the controllers' process as a client
    AskDHCP,      \* Address4AskDHCP, the VIP 0.0.0.0
    Undecodable,  \* in place of a VIP: the list of services does not decode
    MaxEdits,     \* bound on what users and controllers write, for each configmap
    MaxFaults     \* bound on crashes and failing calls, for each configmap

ASSUME ClientsAssumption == Clients = Users \cup {Startup} /\ Startup \notin Users

VARIABLES
    config,     \* the kubevip configmap of kube-system, and the services that
                \* the kubevip configmaps of all namespaces list
    converted,  \* its after-conversion annotation
    boot,       \* the starting process: program counter and pools to create
    born,       \* history variable: who created a pool and with which history
    edits, faults

bootVars == <<config, converted, boot, born, edits, faults>>
vars     == <<admissionVars, bootVars>>

GlobalIPPoolName == "global"

-----------------------------------------------------------------------------
(* The conversion *)

\* getIPNet: the smallest subnet, of two addresses at least, with both ends.
GetIPNet(item) ==
    LET same(h) == item.start \div 2^h = item.end \div 2^h
        host    == CHOOSE h \in 1 .. MaxHost :
                      same(h) /\ \A k \in 1 .. MaxHost : same(k) => h <= k
    IN  [net |-> (item.start \div 2^host) * 2^host, host |-> host]

\* parseKubevipIPPool, on one range that parses.  The mask of getIPNet is one
\* for IPv4: an IPv6 range gets a subnet that is none.
ParseRange(format, item) ==
    CASE format = "cidr" ->
           [family |-> item.family, net |-> item.net, host |-> item.host,
            start |-> None, end |-> None, gw |-> None]
      [] format = "range" /\ item.family = "v4" ->
           LET n == GetIPNet(item)
           IN  [family |-> "v4", net |-> n.net, host |-> n.host,
                start |-> item.start, end |-> item.end, gw |-> None]
      [] OTHER ->
           [family |-> "none", net |-> 0, host |-> 0,
            start |-> None, end |-> None, gw |-> None]

\* makeIPPool.
MakeIPPool(entry) ==
    [ranges |-> [i \in DOMAIN entry.ranges |-> ParseRange(entry.format, entry.ranges[i])],
     sel |-> [network |-> "", priority |-> 0,
              scope |-> <<[project   |-> All,
                           namespace |-> IF entry.name = GlobalIPPoolName
                                         THEN All ELSE entry.name,
                           cluster   |-> All]>>]]

\* Entries of another format (kubevip-services) are skipped.
Known(entry) == entry.format \in {"cidr", "range"}

\* convertKubevipIPPool fails: a key without a dash (no format), a range that
\* does not parse or mixes versions, a global pool that makes no range set.
ConvertFails(entry) ==
    \/ entry.format = None
    \/ /\ Known(entry)
       /\ \/ \E i \in DOMAIN entry.ranges : entry.ranges[i].family \in {"bad", "mixed"}
          \/ entry.name = GlobalIPPoolName /\ ~MakesRangeSet(MakeIPPool(entry).ranges)

\* The entries in the order of an iteration over the map, the global first.
EntryOrders(entries) ==
    {order \in SetToSeqs({e \in entries : Known(e)}) :
        \A i, j \in DOMAIN order :
            i < j /\ order[j].name = GlobalIPPoolName
                => order[i].name = GlobalIPPoolName}

\* The pool of that name that gets the history: the last one in the list.
LastNamed(order, name) ==
    LET is == {i \in DOMAIN order : order[i].name = name}
    IN  IF is = {} THEN 0 ELSE Max(is)

Holds(order, i, vip) == i # 0 /\ InRangeSet(MakeRangeSet(MakeIPPool(order[i]).ranges), vip)

\* assignAllocatedIPs, for one service: the pool of its namespace if it has the
\* address, else the global pool if that has it, else none (0).
AssignAllocatedIPs(order, s) ==
    LET own    == LastNamed(order, s.namespace)
        global == LastNamed(order, GlobalIPPoolName)
    IN  IF s.vip \in {AskDHCP, None}        THEN 0
        ELSE IF Holds(order, own, s.vip)    THEN own
        ELSE IF Holds(order, global, s.vip) THEN global
        ELSE 0

\* assignAllocatedIPs fails: the list does not decode (no VIP at all), or the
\* pool of the namespace makes no range set.
AssignFails(order, s) ==
    \/ s.vip = Undecodable
    \/ LET own == LastNamed(order, s.namespace)
       IN  own # 0 /\ ~MakesRangeSet(MakeIPPool(order[own]).ranges)

\* assignAllAllocatedIPs: the history of the i-th pool; a later service with
\* the same address replaces an earlier one.
HistoryOf(order, services, i) ==
    LET mine == {k \in DOMAIN services : AssignAllocatedIPs(order, services[k]) = i}
        last(ip) == Max({k \in mine : services[k].vip = ip})
    IN  [ip \in {services[k].vip : k \in mine} |-> services[last(ip)].owner]

ConversionFails(cm, order) ==
    \/ \E e \in cm.entries : ConvertFails(e)
    \/ \E k \in DOMAIN cm.services : AssignFails(order, cm.services[k])

\* ConvertFromKubevipConfigMap: the lists of pools it may return for each
\* configmap, None for an error.
ConvertFromKubevipConfigMap ==
    [cm \in Configs \ {None} |->
        {IF ConversionFails(cm, order)
         THEN None
         ELSE [i \in DOMAIN order |->
                 [name    |-> order[i].name,
                  spec    |-> MakeIPPool(order[i]),
                  history |-> HistoryOf(order, cm.services, i)]] :
            order \in EntryOrders(cm.entries)}]

ASSUME EntriesAssumption ==
    /\ \A cm \in Configs \ {None} : IsFiniteSet(cm.entries)
    /\ IPs \cap {AskDHCP, None} = {}
    /\ None \notin [by : Clients, history : Histories]

\* What is created is among the pools, specs and histories there are.
Conversions == [name : Pools, spec : Specs, history : Histories]

ASSUME ConfigsAssumption ==
    /\ UserSpecs \subseteq Specs /\ <<>> \in Histories
    /\ \A cm \in Configs \ {None} : \A list \in ConvertFromKubevipConfigMap[cm] :
          list # None => list \in Seq(Conversions)

-----------------------------------------------------------------------------
(* The start *)

Boot(pc, todo) == [pc |-> pc, todo |-> todo]

\* A mutant: an error does not end the process.
FatalStuck == boot' = Boot("failed", <<>>)

\* logrus.Fatalf, or the end of the process for any other reason.
Fatal == boot' = Boot("down", <<>>)

\* The loop over the pools to create.
Proceed(todo) ==
    boot' = IF todo = <<>> THEN Boot("annotate", <<>>) ELSE Boot("create", todo)

\* leader.RunOrDie: the process becomes the leader.  The webhook has answered
\* the last request of its predecessor.
Lead == boot.pc = "down" /\ req[Startup].pc = "idle"

\* initializeFromKubevipConfigMap, up to the first Create.
Convert ==
    /\ Lead
    /\ IF config = None \/ converted
       THEN Proceed(<<>>)
       ELSE \E list \in ConvertFromKubevipConfigMap[config] :
              IF list = None THEN Fatal ELSE Proceed(list)
    /\ UNCHANGED <<admissionVars, config, converted, born, edits, faults>>

\* ipPoolClient.Create(pool) is sent.
CreateNext ==
    /\ boot.pc = "create"
    /\ LET h == Head(boot.todo)
       IN  CreatePool(Startup, h.name, h.spec, h.history)
    /\ boot' = [boot EXCEPT !.pc = "wait"]
    /\ UNCHANGED <<config, converted, born, edits, faults>>

\* A mutant: a pool that is there already is an error like any other.
CreateReturnsStrict ==
    /\ boot.pc = "wait" /\ req[Startup].pc = "idle"
    /\ IF req[Startup].outcome = "ok" THEN Proceed(Tail(boot.todo)) ELSE Fatal
    /\ UNCHANGED <<admissionVars, config, converted, born, edits, faults>>

\* ipPoolClient.Create(pool) has returned.
CreateReturns ==
    /\ boot.pc = "wait" /\ req[Startup].pc = "idle"
    /\ IF req[Startup].outcome \in {"ok", "exists"}
       THEN Proceed(Tail(boot.todo))
       ELSE Fatal
    /\ UNCHANGED <<admissionVars, config, converted, born, edits, faults>>

\* The other controllers are registered and management.Start starts all.
RegisterAndStart == boot' = Boot("running", <<>>)

\* A mutant: the configmap is marked before the pools are created.
AfterConversionEarly ==
    /\ boot.pc \in {"create", "annotate"}
    /\ converted' = (config # None)
    /\ IF boot.pc = "annotate" THEN RegisterAndStart ELSE UNCHANGED boot
    /\ UNCHANGED <<admissionVars, config, born, edits, faults>>

\* AfterConversion.  Its Update may be refused: kube-vip writes the configmap.
AfterConversion ==
    /\ boot.pc = "annotate"
    /\ \/ /\ converted' = (config # None)
          /\ RegisterAndStart
          /\ UNCHANGED faults
       \/ /\ config # None /\ ~converted
          /\ faults < MaxFaults[config]
          /\ faults' = faults + 1
          /\ Fatal
          /\ UNCHANGED converted
    /\ UNCHANGED <<admissionVars, config, born, edits>>

\* The process dies, or a call of it fails; a Create that is under way may take
\* effect all the same.
Crash ==
    /\ boot.pc # "down"
    /\ faults < MaxFaults[config]
    /\ faults' = faults + 1
    /\ Fatal
    /\ UNCHANGED <<admissionVars, config, converted, born, edits>>

-----------------------------------------------------------------------------
(* The webhook and its users *)

ServeRequest(c) ==
    /\ Serve(c)
    /\ born' = [p \in Pools |->
         IF pools[p] = NoPool /\ pools'[p] # NoPool
         THEN [by |-> c, history |-> pools'[p].history]
         ELSE born[p]]
    /\ UNCHANGED <<config, converted, boot, edits, faults>>

User(c) ==
    /\ edits < MaxEdits[config]
    /\ edits' = edits + 1
    /\ \E p \in Pools :
         \/ \E spec \in UserSpecs : CreatePool(c, p, spec, <<>>) \/ EditPool(c, p, spec)
         \/ DeletePool(p)
    /\ UNCHANGED <<config, converted, boot, born, faults>>

\* The running controllers write the status of a pool.
WriteStatus ==
    /\ boot.pc = "running"
    /\ edits < MaxEdits[config]
    /\ edits' = edits + 1
    /\ \E p \in Pools, ip \in IPs : Allocate(Startup, p, ip)
    /\ UNCHANGED <<config, converted, boot, born, faults>>

\* OnRemove of the ippool controller has run; or the pool goes at once, as one
\* that the controllers have not met has no finalizer.
RemovePool(p) ==
    /\ PoolGone(p)
    /\ UNCHANGED bootVars

Sync(p) == SyncPool(p) /\ UNCHANGED bootVars

-----------------------------------------------------------------------------

Init ==
    /\ AdmissionInit
    /\ config \in Configs
    /\ converted = FALSE
    /\ boot = Boot("down", <<>>)
    /\ born = [p \in Pools |-> None]
    /\ edits = 0
    /\ faults = 0

\* main.run, the body of its leader.RunOrDie.
Start ==
    Convert \/ CreateNext \/ CreateReturns \/ AfterConversion

Next ==
    \/ Start
    \/ Crash
    \/ \E c \in Clients : ServeRequest(c)
    \/ \E c \in Users : User(c)
    \/ WriteStatus
    \/ \E p \in Pools : RemovePool(p) \/ Sync(p)

Spec == Init /\ [][Next]_vars

\* The process is started again when it ends; its requests are answered; the
\* informer of the webhook catches up.
Fairness ==
    /\ WF_vars(Start)
    /\ WF_vars(ServeRequest(Startup))
    /\ WF_vars(\E p \in Pools : Sync(p))

FairSpec == Spec /\ Fairness

-----------------------------------------------------------------------------
(* Properties *)

TypeOK ==
    /\ AdmissionTypeOK
    /\ boot.pc \in {"down", "create", "wait", "annotate", "running"}
    /\ converted \in BOOLEAN

\* No two entries give a pool of the same name.
NamesDiffer(cm) ==
    \A e, f \in cm.entries : Known(e) /\ Known(f) /\ e.name = f.name => e = f

Entry(name) == {e \in config.entries : Known(e) /\ e.name = name}

\* The name of the pool that is to remember an address.
KeeperOf(s) ==
    LET has(name) == \E e \in Entry(name) :
                        InRangeSet(MakeRangeSet(MakeIPPool(e).ranges), s.vip)
    IN  {name \in {s.namespace, GlobalIPPoolName} :
            /\ has(name)
            /\ name = GlobalIPPoolName => s.namespace = name \/ ~has(s.namespace)}

\* An address that a service had before the upgrade is kept for it: once the
\* configmap is marked, the pool with the address has been there, and if the
\* conversion made it, it came with that address in its history; also after
\* crashes in between, and lost answers.
AddressesSurviveUpgrade ==
    converted /\ NamesDiffer(config) =>
        \A k \in DOMAIN config.services :
            LET s == config.services[k]
            IN  s.vip \in IPs =>
                  \A name \in KeeperOf(s) :
                      /\ born[name] # None
                      /\ born[name].by = Startup => s.vip \in DOMAIN born[name].history

\* The configmaps that can be converted: everything parses, no range begins or ends
\* with the first or last address of the smallest subnet around it, and no two
\* pools are in each other's way.
Convertible ==
    {cm \in Configs : cm # None =>
      /\ NamesDiffer(cm)
      /\ \A e \in cm.entries :
           /\ ~ConvertFails(e)
           /\ Known(e) => /\ MakesRangeSet(MakeIPPool(e).ranges)
                          /\ SelfDisjoint(MakeRangeSet(MakeIPPool(e).ranges))
      /\ \A e, f \in {x \in cm.entries : Known(x)} :
           e # f => ~Conflict(MakeIPPool(e), MakeIPPool(f))
      /\ \A k \in DOMAIN cm.services : cm.services[k].vip # Undecodable}

\* A pool that a user made or edited keeps a pool of the configmap out.
InTheWay ==
    /\ config # None
    /\ \E p \in Pools : \E e \in config.entries :
        /\ pools[p] # NoPool
        /\ Known(e) /\ ~ConvertFails(e) /\ e.name # p
        /\ Conflict(pools[p], MakeIPPool(e))

\* A convertible configmap does not keep the controllers from starting, unless
\* pools that users made meanwhile do; every crash is recovered from.
EventuallyStarted ==
    config \in Convertible => (boot.pc = "down" ~> (boot.pc = "running" \/ InTheWay))
=============================================================================
