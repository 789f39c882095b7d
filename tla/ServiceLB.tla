----------------------------- MODULE ServiceLB ------------------------------
(***************************************************************************)
(* How a load balancer for virtual machines is served: the part of the     *)
(* loadbalancer controller that keeps its Service and EndpointSlice        *)
(* (ensureVMLoadBalancer, pkg/lb/servicelb), the health results that the   *)
(* prober reports into the same EndpointSlice, the vmi controller that     *)
(* enqueues the load balancer, and kube-vip, which gives the Service its   *)
(* external address.  The prober is module Prober.                         *)
(*                                                                         *)
(* There is one load balancer, Uid.  A target is a virtual machine         *)
(* instance with its address; an instance that is gone does not come back. *)
(* Of the allocation only what the pass decides is here: a pool stands for *)
(* the address it gives, and module IPAM has the pools themselves.         *)
(* Objects, caches and freshness are as in module IPAM: Update is refused  *)
(* unless the copy is the current version.  The informers of the Service   *)
(* and of the EndpointSlice enqueue nothing.                               *)
(*                                                                         *)
(* The program starts with a load balancer that already has its finalizer: *)
(* it was created before the last restart.                                 *)
(***************************************************************************)
EXTENDS Prober

CONSTANTS Uid,
          Pools,          \* IP pools: the address of one
          AskDHCP,        \* spec.ipam is dhcp: Address4AskDHCP, 0.0.0.0
          NoAddress,
          Specs,          \* the [hc, ports, pool] a load balancer may be given
          MaxEdits        \* bound: what users, virtual machines and servers do

\* hc: spec.healthCheck, or NoOption if it is disabled; ports: spec.listeners;
\* pool: spec.ipPool, or AskDHCP.
HealthChecks == {s.hc : s \in Specs}
Ports        == {s.ports : s \in Specs}

\* The address the allocator gives is the pool's; kube-vip asked to use DHCP
\* finds one that stands for itself.
Addresses == Pools \cup {AskDHCP, NoAddress}

\* generateOneProber: a threshold of 0 takes its default.
GenerateOneProber(hc) ==
    [success |-> IF hc.success = 0 THEN 1 ELSE hc.success,
     failure |-> IF hc.failure = 0 THEN 3 ELSE hc.failure]

ASSUME ServiceLBAssumption ==
    /\ UIDs = {Uid}
    /\ AskDHCP \notin Pools /\ NoAddress \notin Pools \cup {AskDHCP}
    /\ \A s \in Specs : /\ s.pool \in Pools \cup {AskDHCP}
                        /\ s.hc = NoOption \/ GenerateOneProber(s.hc) \in Options
    /\ MaxEdits \in Nat

VARIABLES vmi,                              \* cached VirtualMachineInstances
          lb, lbCache, lbSynced,            \* the LoadBalancer
          svc, svcCache, svcSynced,         \* its Service
          slice, sliceCache, sliceSynced,   \* its EndpointSlice
          queued,                           \* is its key in the work queue?
          pass,                             \* the pass over it being processed
          handler,                          \* updateHealthCondition
          edits                             \* what is left of MaxEdits

lbVars    == <<lb, lbCache, lbSynced>>
svcVars   == <<svc, svcCache, svcSynced>>
sliceVars == <<slice, sliceCache, sliceSynced>>
otherVars == <<vmi, lb, lbCache, lbSynced, svc, svcCache, svcSynced, slice,
               sliceCache, sliceSynced, queued, pass, handler, edits>>
svcLBVars == <<proberVars, otherVars>>

-----------------------------------------------------------------------------
(* Objects *)

\* An endpoint is of a target or the dummy one, which is always Ready.
Slice == [exists : BOOLEAN, ports : Ports, dummy : BOOLEAN,
          ready : [Targets -> {"none", "ready", "notReady"}]]

NoSlice(ports) == [exists |-> FALSE, ports |-> ports, dummy |-> FALSE,
                   ready |-> [t \in Targets |-> "none"]]

Endpoints(s) == {t \in Targets : s.ready[t] # "none"}
ReadyOnes(s) == {t \in Targets : s.ready[t] = "ready"}

\* want: spec.loadBalancerIP; ip: status.loadBalancer.ingress.
Service == [exists : BOOLEAN, ports : Ports, want : Addresses, ip : Addresses]

NoService(ports) == [exists |-> FALSE, ports |-> ports, want |-> NoAddress, ip |-> NoAddress]

\* The reasons of a condition that is not True: ErrWaitExternalIP,
\* errNoRunningBackendServer, errAllBackendServersNoIP,
\* errAllBackendServersNotHealthy, and any other error.
Reasons == {"", "wait", "noServer", "noIP", "unhealthy", "error"}

\* allocated: status.allocatedAddress, the address that was booked;
\* address: status.address, the one that the Service has.
Status == [cond : {"True", "False"}, reason : Reasons, allocated : Addresses,
           address : Addresses, servers : SUBSET Targets]

LoadBalancer == [state : {"live", "deleting", "gone"}, spec : Specs, status : Status]

\* slice and servers: what EnsureBackendServers keeps in local variables.
Pass == [pc : {"idle", "service", "serviceIP", "slice", "probes", "allReady",
               "dummy", "verdict", "write", "delete", "deleted"},
         obj : LoadBalancer, fresh : BOOLEAN,
         slice : Slice, sliceFresh : BOOLEAN,
         servers : SUBSET Targets, matched : BOOLEAN,
         status : Status]

Handler == [busy : BOOLEAN, slice : Slice, fresh : BOOLEAN]

ServiceTypeOK ==
    /\ TypeOK
    /\ vmi \in [Targets -> {"noIP", "ip", "gone"}]
    /\ lb \in LoadBalancer /\ lbCache \in LoadBalancer /\ lbSynced \in BOOLEAN
    /\ svc \in Service /\ svcCache \in Service /\ svcSynced \in BOOLEAN
    /\ slice \in Slice /\ sliceCache \in Slice /\ sliceSynced \in BOOLEAN
    /\ queued \in BOOLEAN
    /\ pass \in Pass
    /\ handler \in Handler
    /\ edits \in 0 .. MaxEdits

\* Between passes, and between reports, the local variables hold nothing.
SomeSpec  == CHOOSE s \in Specs : TRUE
SomePorts == SomeSpec.ports

NewStatus == [cond |-> "False", reason |-> "", allocated |-> NoAddress,
              address |-> NoAddress, servers |-> {}]

IdlePass ==
    LET nothing == NewStatus
    IN  [pc |-> "idle",
         obj |-> [state |-> "gone", spec |-> SomeSpec, status |-> nothing],
         fresh |-> FALSE, slice |-> NoSlice(SomePorts), sliceFresh |-> FALSE,
         servers |-> {}, matched |-> FALSE, status |-> nothing]

IdleHandler == [busy |-> FALSE, slice |-> NoSlice(SomePorts), fresh |-> FALSE]

\* The informers have listed everything and queued the load balancer.  One with
\* a pool is new, its first pass failed before it wrote anything but the
\* finalizer; one with DHCP had its Service and its address, and then an error.
SvcInit ==
    /\ ProberInit
    /\ vmi \in [Targets -> {"noIP", "ip"}]
    /\ \E s \in Specs :
          LET address == IF s.pool = AskDHCP THEN AskDHCP ELSE NoAddress
          IN  /\ lb = [state |-> "live", spec |-> s,
                       status |-> [NewStatus EXCEPT !.reason = "error", !.allocated = address,
                                                    !.address = address]]
              /\ svc = [exists |-> s.pool = AskDHCP, ports |-> s.ports,
                        want |-> address, ip |-> address]
    /\ lbCache = lb /\ lbSynced = TRUE
    /\ svcCache = svc /\ svcSynced = TRUE
    /\ slice = NoSlice(lb.spec.ports)
    /\ sliceCache = slice /\ sliceSynced = TRUE
    /\ queued = TRUE
    /\ pass = IdlePass
    /\ handler = IdleHandler
    /\ edits = MaxEdits

-----------------------------------------------------------------------------
(* The pass: OnChange and OnRemove of the loadbalancer controller *)

At(pc) == pass.pc = pc

Continue(new) == pass' = new /\ UNCHANGED queued

\* handleError, updateStatus and updateStatusNotReturnError: Update unless the
\* status is unchanged (two errors of the last kind may differ in their message).
Finish(st, again) ==
    /\ queued' = (queued \/ again)
    /\ \/ /\ st # pass.obj.status \/ st.reason = "error"
          /\ pass' = [IdlePass EXCEPT !.pc = "write", !.obj = pass.obj,
                                      !.fresh = pass.fresh, !.status = st]
       \/ st = pass.obj.status /\ pass' = IdlePass

NotReady(st, reason) == [st EXCEPT !.cond = "False", !.reason = reason]

Fail(st) == Finish(NotReady(st, "error"), TRUE)

\* Update of the EndpointSlice by the pass, with a copy that is current or not;
\* the handler's copy is stale then.
PassWrites(new) ==
    /\ slice' = new
    /\ sliceSynced' = FALSE
    /\ handler' = [handler EXCEPT !.fresh = FALSE]
    /\ UNCHANGED sliceCache

\* ensureAllocatedAddress: by DHCP, or from the pool of the spec; the address of
\* another pool is given up first and the new one is for the next pass.
EnsureAllocatedAddress(obj) ==
    IF obj.spec.pool = AskDHCP \/ obj.status.allocated \in {NoAddress, obj.spec.pool}
    THEN obj.spec.pool ELSE NoAddress

Take ==
    LET taken(pc) == [IdlePass EXCEPT !.pc = pc, !.obj = lbCache, !.fresh = lbSynced,
                                      !.status = lbCache.status]
    IN  /\ At("idle") /\ queued
        /\ queued' = FALSE
        /\ \/ /\ lbCache.state = "live"
              /\ pass' = [taken("service") EXCEPT
                             !.status.allocated = EnsureAllocatedAddress(lbCache)]
           \/ lbCache.state = "deleting" /\ pass' = taken("delete")
           \/ lbCache.state = "gone" /\ UNCHANGED pass
        /\ UNCHANGED <<proberVars, vmi, lbVars, svcVars, sliceVars, handler, edits>>

\* A mutant: a Service that asks for an address keeps asking for it.
ConstructServiceOnce(cur, obj) ==
    [cur EXCEPT !.exists = TRUE, !.ports = obj.spec.ports,
                !.want = IF @ # NoAddress THEN @ ELSE obj.status.allocated]

\* constructService, from the object as it was read: an address that this pass
\* allocates is for the Service of the next one.
ConstructService(cur, obj) ==
    [cur EXCEPT !.exists = TRUE, !.ports = obj.spec.ports,
                !.want = IF obj.spec.pool = AskDHCP THEN AskDHCP ELSE obj.status.allocated]

\* EnsureLoadBalancer: create the Service (somebody else's creation is as good)
\* or update it.  Its ports are built without the node ports of the one that was
\* read, so there is an Update in every pass; one that changes nothing else is no
\* event, but its copy must be current too.
EnsureService ==
    LET next == [pass EXCEPT !.pc = "serviceIP"]
        new  == ConstructService(svcCache, pass.obj)
    IN  /\ At("service")
        /\ \/ /\ ~svcCache.exists /\ svc.exists
              /\ Continue(next)
              /\ UNCHANGED <<svc, svcSynced>>
           \/ /\ IF svcCache.exists THEN svcSynced ELSE ~svc.exists
              /\ svc' = new /\ svcSynced' = (svcSynced /\ new = svc)
              /\ Continue(next)
           \/ /\ svcCache.exists /\ ~svcSynced
              /\ Fail(pass.status)
              /\ UNCHANGED <<svc, svcSynced>>
        /\ UNCHANGED <<proberVars, vmi, lbVars, svcCache, sliceVars, handler, edits>>

\* EnsureLoadBalancerServiceIP.
EnsureServiceIP ==
    LET st == [pass.status EXCEPT !.address = svcCache.ip]
    IN  /\ At("serviceIP")
        /\ \/ ~svcCache.exists /\ Fail(st)
           \/ svcCache.exists /\ svcCache.ip = NoAddress /\ Finish(NotReady(st, "wait"), TRUE)
           \/ svcCache.ip # NoAddress /\ Continue([pass EXCEPT !.pc = "slice", !.status = st])
        /\ UNCHANGED <<proberVars, vmi, lbVars, svcVars, sliceVars, handler, edits>>

\* Two mutants: the Ready condition of a new endpoint is left nil; the condition
\* of an old one is not kept.
ConstructUnset(cur, ports, servers) ==
    [exists |-> TRUE, ports |-> ports, dummy |-> servers = {},
     ready  |-> [t \in Targets |-> IF t \notin servers THEN "none"
                                   ELSE IF cur.ready[t] = "none" THEN "unset"
                                   ELSE cur.ready[t]]]

ConstructAnew(cur, ports, servers) ==
    [exists |-> TRUE, ports |-> ports, dummy |-> servers = {},
     ready  |-> [t \in Targets |-> IF t \notin servers THEN "none" ELSE "notReady"]]

\* constructEndpointSliceFromBackendServers: the endpoints of the servers, old
\* ones with their condition, new ones not Ready; the dummy one if there is none.
Construct(cur, ports, servers) ==
    [exists |-> TRUE, ports |-> ports, dummy |-> servers = {},
     ready  |-> [t \in Targets |-> IF t \notin servers THEN "none"
                                   ELSE IF cur.ready[t] = "none" THEN "notReady"
                                   ELSE cur.ready[t]]]

\* EnsureBackendServers up to the Create or Update of the EndpointSlice.  It
\* finds the Service that EnsureLoadBalancerServiceIP found, which goes only
\* after the load balancer.
EnsureSlice ==
    LET servers == {t \in Targets : vmi[t] = "ip"}
        new     == Construct(sliceCache, pass.obj.spec.ports, servers)
        next(fresh) ==
            [pass EXCEPT !.pc = "probes", !.slice = new, !.sliceFresh = fresh,
                         !.servers = servers,
                         !.matched = \E t \in Targets : vmi[t] # "gone"]
        accepted == IF sliceCache.exists THEN sliceSynced ELSE ~slice.exists
    IN  /\ At("slice")
        /\ \/ /\ new = sliceCache
              /\ Continue(next(sliceSynced))
              /\ UNCHANGED <<sliceVars, handler>>
           \/ /\ new # sliceCache /\ accepted
              /\ PassWrites(new)
              /\ Continue(next(TRUE))
           \/ /\ new # sliceCache /\ ~accepted
              /\ Fail(pass.status)
              /\ UNCHANGED <<sliceVars, handler>>
        /\ UNCHANGED <<proberVars, vmi, lbVars, svcVars, edits>>

\* ensureProbes without a health check: stop all workers ...
RemoveProbers ==
    /\ At("probes") /\ pass.obj.spec.hc = NoOption
    /\ RemoveWorkersByUid(Uid)
    /\ Continue([pass EXCEPT !.pc = "allReady"])
    /\ UNCHANGED <<vmi, lbVars, svcVars, sliceVars, handler, edits>>

\* ... and then updateAllConditions to Ready.  The local copy is left as it was.
UpdateAllConditions ==
    LET new == [pass.slice EXCEPT
                   !.ready = [t \in Targets |-> IF @[t] = "none" THEN "none" ELSE "ready"]]
    IN  /\ At("allReady") /\ ~Locked
        /\ \/ /\ new = pass.slice
              /\ Continue([pass EXCEPT !.pc = "dummy"])
              /\ UNCHANGED <<sliceVars, handler>>
           \/ /\ new # pass.slice /\ pass.sliceFresh
              /\ PassWrites(new)
              /\ Continue([pass EXCEPT !.pc = "dummy", !.sliceFresh = FALSE])
           \/ /\ new # pass.slice /\ ~pass.sliceFresh
              /\ Fail(pass.status)
              /\ UNCHANGED <<sliceVars, handler>>
        /\ UNCHANGED <<proberVars, vmi, lbVars, svcVars, edits>>

\* A mutant: workers without an endpoint are kept.
UpdateProbersKeeps ==
    LET missing == {t \in Endpoints(pass.slice) : ~Running(t)}
    IN  /\ At("probes") /\ pass.obj.spec.hc # NoOption
        /\ ~Locked
        /\ \/ \E t \in missing : AddWorker(t, GenerateOneProber(pass.obj.spec.hc)) /\ Continue(pass)
           \/ /\ missing = {}
              /\ Continue([pass EXCEPT !.pc = "dummy"])
              /\ UNCHANGED proberVars
        /\ UNCHANGED <<vmi, lbVars, svcVars, sliceVars, handler, edits>>

\* ensureProbes with a health check: updateAllProbers, one call at a time, in
\* any order, until there is a worker with the right options for every endpoint
\* and no other.
UpdateProbers ==
    LET wanted   == Endpoints(pass.slice)
        outdated == {t \in Targets : Running(t) /\ (t \notin wanted \/ workers[t].opt # GenerateOneProber(pass.obj.spec.hc))}
        missing  == {t \in wanted : ~Running(t)}
    IN  /\ At("probes") /\ pass.obj.spec.hc # NoOption
        /\ ~Locked
        /\ \/ \E t \in outdated : RemoveWorker(t) /\ Continue(pass)
           \/ \E t \in missing : AddWorker(t, GenerateOneProber(pass.obj.spec.hc)) /\ Continue(pass)
           \/ /\ outdated = {} /\ missing = {}
              /\ Continue([pass EXCEPT !.pc = "dummy"])
              /\ UNCHANGED proberVars
        /\ UNCHANGED <<vmi, lbVars, svcVars, sliceVars, handler, edits>>

\* ensureDummyEndpoint, on the local copy.
EnsureDummyEndpoint ==
    LET active == ReadyOnes(pass.slice) # {}
        new    == [pass.slice EXCEPT !.dummy = IF active THEN FALSE ELSE TRUE]
        next   == [pass EXCEPT !.pc = "verdict", !.status.servers = pass.servers,
                               !.slice = NoSlice(SomePorts), !.sliceFresh = FALSE]
    IN  /\ At("dummy")
        /\ \/ /\ new = pass.slice
              /\ Continue(next)
              /\ UNCHANGED <<sliceVars, handler>>
           \/ /\ new # pass.slice /\ pass.sliceFresh
              /\ PassWrites(new)
              /\ Continue(next)
           \/ /\ new # pass.slice /\ ~pass.sliceFresh
              /\ Fail(pass.status)
              /\ UNCHANGED <<sliceVars, handler>>
        /\ UNCHANGED <<proberVars, vmi, lbVars, svcVars, edits>>

\* The rest of ensureVMLoadBalancer, GetProbeReadyBackendServerCount included:
\* three of the errors are not retried.
Verdict ==
    LET st == pass.status
    IN  /\ At("verdict")
        /\ \/ /\ pass.servers = {}
              /\ Finish(NotReady(st, IF pass.matched THEN "noIP" ELSE "noServer"), FALSE)
           \/ /\ pass.servers # {} /\ pass.obj.spec.hc # NoOption /\ ~sliceCache.exists
              /\ Fail(st)
           \/ /\ pass.servers # {} /\ pass.obj.spec.hc # NoOption /\ sliceCache.exists
              /\ ReadyOnes(sliceCache) = {}
              /\ Finish(NotReady(st, "unhealthy"), FALSE)
           \/ /\ pass.servers # {}
              /\ pass.obj.spec.hc = NoOption \/ ReadyOnes(sliceCache) # {}
              /\ Finish([st EXCEPT !.cond = "True", !.reason = ""], FALSE)
        /\ UNCHANGED <<proberVars, vmi, lbVars, svcVars, sliceVars, handler, edits>>

\* The Update of the status; a conflict is an error and is retried.
WriteStatus ==
    /\ At("write")
    /\ \/ /\ pass.fresh
          /\ lb' = [pass.obj EXCEPT !.status = pass.status]
          /\ lbSynced' = FALSE
          /\ UNCHANGED queued
       \/ /\ ~pass.fresh
          /\ queued' = TRUE
          /\ UNCHANGED <<lb, lbSynced>>
    /\ pass' = IdlePass
    /\ UNCHANGED <<proberVars, vmi, lbCache, svcVars, sliceVars, handler, edits>>

\* A mutant: without a cached EndpointSlice there is nothing to stop.
DeleteIfSlice ==
    /\ At("delete")
    /\ IF sliceCache.exists THEN RemoveWorkersByUid(Uid) ELSE UNCHANGED proberVars
    /\ Continue([pass EXCEPT !.pc = "deleted"])
    /\ UNCHANGED <<vmi, lbVars, svcVars, sliceVars, handler, edits>>

\* OnRemove: DeleteLoadBalancer stops the workers, whether or not there is an
\* EndpointSlice, and the finalizer goes.
DeleteLoadBalancer ==
    /\ At("delete")
    /\ RemoveWorkersByUid(Uid)
    /\ Continue([pass EXCEPT !.pc = "deleted"])
    /\ UNCHANGED <<vmi, lbVars, svcVars, sliceVars, handler, edits>>

RemoveFinalizer ==
    /\ At("deleted") /\ ~Locked
    /\ \/ /\ pass.fresh
          /\ lb' = [lb EXCEPT !.state = "gone"]
          /\ lbSynced' = FALSE
          /\ UNCHANGED queued
       \/ /\ ~pass.fresh
          /\ queued' = TRUE
          /\ UNCHANGED <<lb, lbSynced>>
    /\ pass' = IdlePass
    /\ UNCHANGED <<proberVars, vmi, lbCache, svcVars, sliceVars, handler, edits>>

PassStep ==
    \/ Take \/ EnsureService \/ EnsureServiceIP \/ EnsureSlice
    \/ RemoveProbers \/ UpdateAllConditions \/ UpdateProbers
    \/ EnsureDummyEndpoint \/ Verdict \/ WriteStatus
    \/ DeleteLoadBalancer \/ RemoveFinalizer

-----------------------------------------------------------------------------
(* updateHealthCondition, on the goroutine that handles the prober's reports *)

Condition(healthy) == IF healthy THEN "ready" ELSE "notReady"

\* Is it news for the cached EndpointSlice?  Then notify the controller first.
NotifyHealth ==
    \E r \in handling :
        LET news == /\ sliceCache.exists
                    /\ sliceCache.ready[r.target] \notin {"none", Condition(r.healthy)}
        IN  /\ ~handler.busy
            /\ \/ /\ news
                  /\ queued' = TRUE
                  /\ handler' = [busy |-> TRUE, slice |-> sliceCache, fresh |-> sliceSynced]
                  /\ UNCHANGED proberVars
               \/ /\ ~news
                  /\ Handle
                  /\ UNCHANGED <<queued, handler>>
            /\ UNCHANGED <<vmi, lbVars, svcVars, sliceVars, pass, edits>>

\* Then Update the copy.  An error is logged only.
UpdateCondition ==
    \E r \in handling :
        /\ handler.busy
        /\ \/ /\ handler.fresh
              /\ slice' = [handler.slice EXCEPT !.ready[r.target] = Condition(r.healthy)]
              /\ sliceSynced' = FALSE
              /\ pass' = [pass EXCEPT !.sliceFresh = FALSE]
           \/ /\ ~handler.fresh
              /\ UNCHANGED <<slice, sliceSynced, pass>>
        /\ handler' = IdleHandler
        /\ Handle
        /\ UNCHANGED <<vmi, lbVars, svcVars, sliceCache, queued, edits>>

UpdateHealthCondition == NotifyHealth \/ UpdateCondition

-----------------------------------------------------------------------------
(* Informers, kube-vip, the garbage collector, users and virtual machines *)

SyncLB ==
    /\ ~lbSynced
    /\ lbCache' = lb /\ lbSynced' = TRUE
    /\ queued' = TRUE
    /\ UNCHANGED <<proberVars, vmi, lb, svcVars, sliceVars, pass, handler, edits>>

SyncService ==
    /\ ~svcSynced
    /\ svcCache' = svc /\ svcSynced' = TRUE
    /\ UNCHANGED <<proberVars, vmi, lbVars, svc, sliceVars, queued, pass, handler, edits>>

SyncSlice ==
    /\ ~sliceSynced
    /\ sliceCache' = slice /\ sliceSynced' = TRUE
    /\ UNCHANGED <<proberVars, vmi, lbVars, svcVars, slice, queued, pass, handler, edits>>

\* kube-vip gives a Service the address it asks for, and another one when it
\* asks for another one; it leaves a Service alone that asks for none.
KubeVip ==
    /\ svc.exists /\ svc.want # NoAddress /\ svc.ip # svc.want
    /\ svc' = [svc EXCEPT !.ip = svc.want]
    /\ svcSynced' = FALSE
    /\ UNCHANGED <<proberVars, vmi, lbVars, svcCache, sliceVars, queued, pass, handler, edits>>

\* The Service and the EndpointSlice are owned by the load balancer.
CollectGarbage ==
    /\ lb.state = "gone" /\ (svc.exists \/ slice.exists)
    /\ svc' = NoService(svc.ports)
    /\ slice' = NoSlice(slice.ports)
    /\ svcSynced' = FALSE /\ sliceSynced' = FALSE
    /\ handler' = [handler EXCEPT !.fresh = FALSE]
    /\ UNCHANGED <<proberVars, vmi, lbVars, svcCache, sliceCache, queued, pass, edits>>

Edit(new) ==
    /\ edits > 0 /\ edits' = edits - 1
    /\ lb' = new /\ lbSynced' = FALSE
    /\ pass' = [pass EXCEPT !.fresh = FALSE]
    /\ UNCHANGED <<proberVars, vmi, lbCache, svcVars, sliceVars, queued, handler>>

\* checkIPAM: not to or from DHCP.
EditLB ==
    /\ lb.state = "live"
    /\ \E s \in Specs \ {lb.spec} :
          /\ (s.pool = AskDHCP) <=> (lb.spec.pool = AskDHCP)
          /\ Edit([lb EXCEPT !.spec = s])

DeleteLB == lb.state = "live" /\ Edit([lb EXCEPT !.state = "deleting"])

\* OnChange and OnRemove of the vmi controller enqueue the load balancer.
ChangeVMI(t) ==
    /\ edits > 0 /\ edits' = edits - 1
    /\ vmi[t] # "gone"
    /\ \E s \in {"noIP", "ip", "gone"} \ {vmi[t]} : vmi' = [vmi EXCEPT ![t] = s]
    /\ queued' = (queued \/ lbCache.state = "live")
    /\ UNCHANGED <<proberVars, lbVars, svcVars, sliceVars, pass, handler>>

FlipTarget(t) ==
    /\ edits > 0 /\ edits' = edits - 1
    /\ Flip(t)
    /\ UNCHANGED <<vmi, lbVars, svcVars, sliceVars, queued, pass, handler>>

ProberSteps ==
    /\ (\E t \in Targets : Step(t)) \/ Stop(Uid)
    /\ UNCHANGED otherVars

SvcNext ==
    \/ PassStep \/ UpdateHealthCondition \/ ProberSteps
    \/ SyncLB \/ SyncService \/ SyncSlice \/ KubeVip \/ CollectGarbage
    \/ EditLB \/ DeleteLB \/ \E t \in Targets : ChangeVMI(t) \/ FlipTarget(t)

\* The work queue, the handling goroutine and the watches make progress, and
\* kube-vip gives an address; users, virtual machines and the garbage collector
\* owe nothing.
SvcSpec ==
    /\ SvcInit /\ [][SvcNext]_svcLBVars
    /\ ProberFairness
    /\ WF_svcLBVars(PassStep) /\ WF_svcLBVars(UpdateHealthCondition)
    /\ WF_svcLBVars(SyncLB) /\ WF_svcLBVars(SyncService) /\ WF_svcLBVars(SyncSlice)
    /\ WF_svcLBVars(KubeVip)

-----------------------------------------------------------------------------
(* Properties *)

\* A load balancer that is gone has no worker left, although its removal races
\* with passes that start workers and with reports that wait to be handled.
GoneHasNoWorkers == lb.state = "gone" => \A t \in Targets : ~Running(t)

\* Only a report of failed probes turns a Ready endpoint not Ready: no pass that
\* rebuilds the EndpointSlice from an older copy undoes a health result.
OnlyReportsMarkDown ==
    [][\A t \in Targets :
          (slice.ready[t] = "ready" /\ slice'.ready[t] = "notReady")
              => [target |-> t, healthy |-> FALSE] \in handling]_svcLBVars

Live(t) == lb.state = "live" /\ vmi[t] = "ip"

\* When nothing changes any more, exactly the servers with an address are
\* probed, with the options of the load balancer, and none if it has none.
ProbersConverge ==
    <>[](\A t \in Targets :
            lb.state = "live" =>
                IF Live(t) /\ lb.spec.hc # NoOption
                THEN Running(t) /\ workers[t].opt = GenerateOneProber(lb.spec.hc)
                ELSE ~Running(t))

\* No health result is lost for good to a conflict with a pass: the condition of
\* an endpoint settles on the health of its server, or else the controller is
\* still being notified and still passing over the load balancer.
HealthIsNotLost ==
    \A t \in Targets, b \in BOOLEAN :
        <>[](Live(t) /\ lb.spec.hc # NoOption /\ up[t] = b)
            => <>[](slice.ready[t] = Condition(b)) \/ []<>queued

\* However often passes lose to kube-vip, to stale caches and to edits, a load
\* balancer that is not health checked and has a server ends up Ready, and the
\* Service and the EndpointSlice with its listeners; the Service asks for, and
\* gets, the address of the pool the load balancer has now, not of the one it
\* was created with.
EventuallyServes ==
    <>[](lb.state = "live" /\ lb.spec.hc = NoOption /\ \E t \in Targets : vmi[t] = "ip")
        => <>[](/\ lb.status.cond = "True" /\ lb.status.allocated = lb.spec.pool
                /\ svc.want = lb.spec.pool /\ svc.ip = lb.spec.pool
                /\ svc.ports = lb.spec.ports /\ slice.ports = lb.spec.ports)

-----------------------------------------------------------------------------
(* What is left when the controller has nothing to do: only an event, or the  *)
(* resync of the informers every ten hours, would start another pass.         *)

Quiet ==
    /\ ~queued /\ At("idle") /\ handling = {}
    /\ lbSynced /\ svcSynced /\ sliceSynced
    /\ lb.state = "live"

\* "Without at least one Ready (dummy) endpoint, the service may route traffic
\* to local host": there is one.
SomeEndpointReady ==
    (Quiet /\ slice.exists) => slice.dummy \/ ReadyOnes(slice) # {}
=============================================================================
