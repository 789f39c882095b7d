----------------------------- MODULE GuestCluster -----------------------------
(***************************************************************************)
(* The life of the load balancers of one namespace in the API server: who  *)
(* writes them, through the webhook of LBWebhook, and what becomes of them *)
(* when Rancher removes a guest cluster (pkg/controller/vm).  Rancher      *)
(* marks the machines of the cluster and deletes them; OnRemove of each    *)
(* deletes the load balancers of the cluster before its finalizer goes,    *)
(* while the cloud provider, still alive in the guest, may create them     *)
(* again.  The webhook and the vm controller each read caches that lag.    *)
(***************************************************************************)
EXTENDS LBWebhook

CONSTANTS
    LBs,        \* names of load balancers
    Namespace,  \* their namespace
    Wanted,     \* of each name, what users and cloud providers create under it
    Starts,     \* where to begin: [lbs: the load balancers there are, removing: the
                \* removals that have begun, events: bound on what may happen to
                \* them: removals, creations, edits, faults, instances coming and going]
    Removable,  \* guest clusters that Rancher may remove
    Books,      \* status.allocated of the pools: address to owner, by pool
    Lease,      \* of each load balancer, its entry there: [pool, ip]
    Networks, Clusters, Types, Checks, IPAMs   \* what edits may put in

\* The machines of a guest cluster that Rancher made.
Of(c) == {v \in VMs : Machine[v].cluster = c /\ Machine[v].creator}

\* What the vm controller reads of a load balancer.
Listing == [uid : Nat, type : Text, label : Text \cup {None}, deleting : BOOLEAN]

\* A guest cluster has a name, not the default one, which the webhook does not
\* check, and machines.  No address is in the books of two pools.  The
\* listeners and the port of the health check were checked from the start.
ASSUME GuestAssumption ==
    /\ None \notin LoadBalancer /\ None \notin Listing
    /\ Removable \cap {None, "", "kubernetes"} = {}
    /\ Namespace \in Text
    /\ \A l \in LBs : Wanted[l] \subseteq LoadBalancer
    /\ \A s \in Starts :
         /\ \A l \in LBs : s.lbs[l] # None =>
              /\ s.lbs[l] \in LoadBalancer
              /\ CheckListeners(s.lbs[l])
              /\ \/ s.lbs[l].type = "cluster" \/ s.lbs[l].hc.port = 0
                 \/ IsBackendPort(s.lbs[l])
         /\ s.removing \subseteq {c \in Removable : Of(c) # {}}
         /\ s.events \in Nat
    /\ \A l \in LBs :
         /\ Lease[l] \in Allocated /\ Lease[l].ip \in Text \ {""}
         /\ PoolsByAddress(Books, Lease[l].ip, l) \subseteq {Lease[l].pool}
    /\ DOMAIN Books \subseteq Text
    /\ Networks \subseteq Text /\ Clusters \subseteq Text
    /\ Types \subseteq Text /\ IPAMs \subseteq Text
    /\ Checks \subseteq HealthCheck

VARIABLES
    vms,        \* the machines: [state, onRemove]
    vmCache,    \* the machines as the webhook has them
    vmis,       \* the instances that the webhook has
    lbs,        \* of each name, the load balancer: [uid, obj], obj None if there is none
    lbCache,    \* what the vm controller has of them
    create,     \* of each name, the Create under way that the webhook let through
    pass,       \* of each machine, its CleanGuestClusterLBs
    removing,   \* the guest clusters that Rancher removes
    raced,      \* history variable: the load balancers that a lagging cache kept from
                \* view, or that got into the cluster once its removal had begun
    events      \* how many of the bounded events are left

vars == <<vms, vmCache, vmis, lbs, lbCache, create, pass, removing, raced, events>>

There(l) == lbs[l].obj # None
Live(l)  == There(l) /\ ~lbs[l].obj.deleting

Listed(lb) ==
    IF lb.obj = None THEN None
    ELSE [uid |-> lb.uid, type |-> lb.obj.type, label |-> lb.obj.label,
          deleting |-> lb.obj.deleting]

GoneAll(c)  == \A v \in Of(c) : vms[v].state = "gone"
Annotated(c) == \E v \in Of(c) : vms[v].state # "gone" /\ vms[v].onRemove
Late(c)      == Annotated(c) \/ GoneAll(c)

IdlePass == [pc |-> "idle", todo |-> {}, failed |-> FALSE, last |-> "ok", saw |-> FALSE]

Event == events > 0 /\ events' = events - 1

-----------------------------------------------------------------------------
(* Rancher, and the machines *)

StartRemoval(c) ==
    /\ c \notin removing
    /\ Event
    /\ \E v \in Of(c) : vms[v].state = "live"
    /\ removing' = removing \cup {c}
    /\ UNCHANGED <<vms, vmCache, vmis, lbs, lbCache, create, pass, raced>>

AnnotateVM(v) ==
    /\ Machine[v].cluster \in removing /\ Machine[v].creator
    /\ vms[v].state # "gone" /\ ~vms[v].onRemove
    /\ vms' = [vms EXCEPT ![v].onRemove = TRUE]
    /\ UNCHANGED <<vmCache, vmis, lbs, lbCache, create, pass, removing, raced, events>>

\* Rancher deletes no machine of the cluster before all are marked.
DeleteMarked(v) ==
    /\ vms[v].state = "live"
    /\ Machine[v].cluster \in removing
    /\ \A w \in Of(Machine[v].cluster) : vms[w].state = "gone" \/ vms[w].onRemove
    /\ vms' = [vms EXCEPT ![v].state = "deleting"]
    /\ UNCHANGED <<vmCache, vmis, lbs, lbCache, create, pass, removing, raced, events>>

\* Any other machine may be deleted.
DeleteVM(v) ==
    /\ Event
    /\ vms[v].state = "live"
    /\ Machine[v].cluster \notin removing
    /\ vms' = [vms EXCEPT ![v].state = "deleting"]
    /\ UNCHANGED <<vmCache, vmis, lbs, lbCache, create, pass, removing, raced>>

\* An instance starts or ends, and the webhook gets to know.
Instance(v) ==
    /\ Event
    /\ v \notin vmis => vms[v].state = "live"
    /\ vmis' = IF v \in vmis THEN vmis \ {v} ELSE vmis \cup {v}
    /\ UNCHANGED <<vms, vmCache, lbs, lbCache, create, pass, removing, raced>>

\* The informer of the webhook catches up: one watch, in order.
SyncVMs ==
    /\ vmCache # vms
    /\ vmCache' = vms
    /\ UNCHANGED <<vms, vmis, lbs, lbCache, create, pass, removing, raced, events>>

-----------------------------------------------------------------------------
(* CleanGuestClusterLBs *)

\* IsGuestClusterVM, IsVmWithGuestClusterOnRemoveAnnotation and
\* GetGuestClusterNameFromVM.
Cleans(v) ==
    /\ Machine[v].creator /\ vms[v].onRemove
    /\ Machine[v].cluster # None

\* A mutant: the workload type is not looked at.
ToDeleteAnyType(v) ==
    {l \in LBs : /\ lbCache[l] # None
                 /\ lbCache[l].label = Machine[v].cluster
                 /\ ~lbCache[l].deleting}

\* The load balancers to delete, of those that the cache lists for the label.
ToDelete(v) ==
    {l \in LBs : /\ lbCache[l] # None
                 /\ lbCache[l].label = Machine[v].cluster
                 /\ lbCache[l].type = "cluster"
                 /\ ~lbCache[l].deleting}

\* OnRemove gets the machine, up to the loop.
StartPass(v) ==
    /\ vms[v].state = "deleting" /\ pass[v].pc = "idle"
    /\ pass' = [pass EXCEPT ![v] =
         [pc     |-> "clean",
          todo   |-> IF Cleans(v) THEN {[name |-> l, uid |-> lbCache[l].uid] : l \in ToDelete(v)}
                                  ELSE {},
          failed |-> FALSE,
          last   |-> "ok",
          saw    |-> vms[v].onRemove]]
    /\ raced' = raced \cup
         {l \in LBs : Cleans(v) /\ There(l) /\ lbCache[l] # Listed(lbs[l])}
    /\ UNCHANGED <<vms, vmCache, vmis, lbs, lbCache, create, removing, events>>

\* lbClient.Delete: by name.  It finds the object, or none, or fails.
DeleteNext(v) ==
    /\ pass[v].pc = "clean"
    /\ \E e \in pass[v].todo :
         LET after(failed, last) ==
                 pass' = [pass EXCEPT ![v].todo = @ \ {e}, ![v].failed = failed,
                                      ![v].last = last]
         IN  \/ /\ There(e.name)
                /\ lbs' = [lbs EXCEPT ![e.name].obj.deleting = TRUE]
                /\ after(pass[v].failed, "ok")
                /\ UNCHANGED events
             \/ /\ ~There(e.name)
                /\ after(pass[v].failed, "error")
                /\ UNCHANGED <<lbs, events>>
             \/ /\ Event
                /\ after(TRUE, "error")
                /\ UNCHANGED lbs
    /\ UNCHANGED <<vms, vmCache, vmis, lbCache, create, removing, raced>>

\* The process dies and is started again.
Restart == pass' = [v \in VMs |-> IdlePass]

\* A mutant: the pass of a machine that is gone is not over.
EndPassKeeps(v) ==
    /\ pass[v].pc = "clean" /\ pass[v].todo = {}
    /\ ~pass[v].failed
    /\ vms' = [vms EXCEPT ![v].state = "gone"]
    /\ UNCHANGED <<vmCache, vmis, lbs, lbCache, create, pass, removing, raced, events>>

\* A mutant: after a failure the machine is not taken up again.
EndPassOnce(v) ==
    /\ pass[v].pc = "clean" /\ pass[v].todo = {}
    /\ ~pass[v].failed
    /\ pass' = [pass EXCEPT ![v] = IdlePass]
    /\ vms' = [vms EXCEPT ![v].state = IF pass[v].saw = vms[v].onRemove THEN "gone" ELSE @]
    /\ UNCHANGED <<vmCache, vmis, lbs, lbCache, create, removing, raced, events>>

\* After the loop.  A failure is returned and OnRemove comes again; but the
\* message of it takes the text of err, which is nil if the last Delete
\* succeeded, and the process panics.  Without a failure the finalizer is
\* removed from the copy that OnRemove got, which must be the current one.
EndPass(v) ==
    /\ pass[v].pc = "clean" /\ pass[v].todo = {}
    /\ IF pass[v].failed /\ pass[v].last = "ok"
       THEN Restart
       ELSE pass' = [pass EXCEPT ![v] = IdlePass]
    /\ vms' = [vms EXCEPT ![v].state =
                  IF ~pass[v].failed /\ pass[v].saw = vms[v].onRemove THEN "gone" ELSE @]
    /\ UNCHANGED <<vmCache, vmis, lbs, lbCache, create, removing, raced, events>>

Crash ==
    /\ \E v \in VMs : pass[v] # IdlePass
    /\ Event
    /\ Restart
    /\ UNCHANGED <<vms, vmCache, vmis, lbs, lbCache, create, removing, raced>>

\* The informer of the vm controller catches up.
SyncLBs ==
    /\ lbCache' = [l \in LBs |-> Listed(lbs[l])]
    /\ lbCache' # lbCache
    /\ UNCHANGED <<vms, vmCache, vmis, lbs, create, pass, removing, raced, events>>

-----------------------------------------------------------------------------
(* Load balancers come, change and go *)

\* A Create passes mutator and validator.  The cloud provider of a guest
\* cluster runs on its machines; those of Rancher's have labels, of others not.
RequestCreate(l, lb) ==
    /\ create[l] = None
    /\ Event
    /\ lb.type = "cluster" /\ Of(lb.label) # {} => ~GoneAll(lb.label)
    /\ \E new \in Mutate(lb, Namespace, vmis) :
         /\ ValidateCreate(new, vmCache)
         /\ create' = [create EXCEPT ![l] =
              [obj   |-> new,
               blind |-> \E v \in Of(lb.label) : vmCache[v] # vms[v],
               clear |-> ~Annotated(lb.label)]]
    /\ UNCHANGED <<vms, vmCache, vmis, lbs, lbCache, pass, removing, raced>>

\* It is stored if there is none of that name.
CommitCreate(l) ==
    /\ create[l] # None
    /\ create' = [create EXCEPT ![l] = None]
    /\ IF There(l)
       THEN UNCHANGED <<lbs, raced>>
       ELSE LET r == create[l]
                c == r.obj.label
            IN  /\ lbs' = [lbs EXCEPT ![l] = [uid |-> @.uid + 1, obj |-> r.obj]]
                /\ raced' = IF r.blind \/ (r.clear /\ Late(c))
                            THEN raced \cup {l} ELSE raced \ {l}
    /\ UNCHANGED <<vms, vmCache, vmis, lbCache, pass, removing, events>>

\* An Update from the object as it is to new, if mutator and validator let it.
Update(l, new) ==
    /\ Live(l)
    /\ \E n \in Mutate(new, Namespace, vmis) :
         /\ ValidateUpdate(lbs[l].obj, n)
         /\ lbs' = [lbs EXCEPT ![l].obj = n]

\* What a client may change, each annotation to be dropped as well.
EditsOf(lb) ==
         {[lb EXCEPT !.mgmt = x] : x \in Networks \cup {""}}
    \cup {[lb EXCEPT !.cluster = x] : x \in Clusters \cup {""}}
    \cup {[lb EXCEPT !.type = x] : x \in Types}
    \cup {[lb EXCEPT !.hc = x] : x \in Checks}
    \cup {[lb EXCEPT !.ipam = x] : x \in IPAMs}

EditLB(l) ==
    /\ Event
    /\ Live(l)
    /\ \E new \in EditsOf(lbs[l].obj) : new # lbs[l].obj /\ Update(l, new)
    /\ UNCHANGED <<vms, vmCache, vmis, lbCache, create, pass, removing, raced>>

\* A client, such as the cloud provider, appoints the network, or drops it.
EditNetwork(l) ==
    /\ Event
    /\ Live(l)
    /\ \E x \in (Networks \cup {""}) \ {lbs[l].obj.net} :
          Update(l, [lbs[l].obj EXCEPT !.net = x])
    /\ UNCHANGED <<vms, vmCache, vmis, lbCache, create, pass, removing, raced>>

\* The label is changed, which the validator checks on Create only.
EditLabel(l) ==
    /\ Event
    /\ Live(l)
    /\ \E x \in (Clusters \cup {None}) \ {lbs[l].obj.label} :
          /\ Update(l, [lbs[l].obj EXCEPT !.label = x])
          /\ raced' = IF x \in Removable /\ Late(x) THEN raced \cup {l} ELSE raced
    /\ UNCHANGED <<vms, vmCache, vmis, lbCache, create, pass, removing>>

\* A client of the old version writes back what it has read.
EditV1alpha1(l) ==
    /\ Event
    /\ Live(l) /\ lbs[l].obj.ipam # ""
    /\ LET lb == lbs[l].obj
       IN  \E new \in ConvertToV1beta1(lb, ConvertToV1alpha1(lb), l, Books, vmis) :
              Update(l, new)
    /\ UNCHANGED <<vms, vmCache, vmis, lbCache, create, pass, removing, raced>>

\* The loadbalancer controller writes the address and the servers (see IPAM and
\* ServiceLB), through the same webhook: the resource has no status subresource.
WriteStatus(l) ==
    /\ Live(l)
    /\ LET lb == lbs[l].obj
       IN  Update(l,
             [lb EXCEPT !.allocated = IF lb.ipam = "dhcp" THEN [pool |-> "", ip |-> AskDHCP]
                                                          ELSE Lease[l],
                        !.address = Lease[l].ip,
                        !.servers = IF lb.type = "cluster" THEN {}
                                    ELSE UNION {GetAddress(v) : v \in lb.selector \cap vmis}])
    /\ lbs' # lbs
    /\ UNCHANGED <<vms, vmCache, vmis, lbCache, create, pass, removing, raced, events>>

\* Its owner deletes it.
DeleteLB(l) ==
    /\ Event
    /\ Live(l)
    /\ lbs' = [lbs EXCEPT ![l].obj.deleting = TRUE]
    /\ UNCHANGED <<vms, vmCache, vmis, lbCache, create, pass, removing, raced>>

\* The loadbalancer controller has released everything (see IPAM).
LBGone(l) ==
    /\ There(l) /\ ~Live(l)
    /\ lbs' = [lbs EXCEPT ![l].obj = None]
    /\ raced' = raced \ {l}
    /\ UNCHANGED <<vms, vmCache, vmis, lbCache, create, pass, removing, events>>

-----------------------------------------------------------------------------

Init ==
    /\ vms = [v \in VMs |-> [state |-> "live", onRemove |-> FALSE]]
    /\ vmCache = vms
    /\ vmis = VMs
    /\ \E s \in Starts :
         /\ lbs = [l \in LBs |-> [uid |-> 1, obj |-> s.lbs[l]]]
         /\ removing = s.removing
         /\ events = s.events
    /\ lbCache = [l \in LBs |-> Listed(lbs[l])]
    /\ create = [l \in LBs |-> None]
    /\ pass = [v \in VMs |-> IdlePass]
    /\ raced = {}

Clean(v) == StartPass(v) \/ DeleteNext(v) \/ EndPass(v)

Next ==
    \/ \E c \in Removable : StartRemoval(c)
    \/ \E v \in VMs : 
         \/ AnnotateVM(v) \/ DeleteMarked(v) \/ DeleteVM(v)
         \/ Instance(v) \/ Clean(v)
    \/ SyncVMs \/ SyncLBs \/ Crash
    \/ \E l \in LBs :
         \/ CommitCreate(l) \/ WriteStatus(l) \/ LBGone(l)
         \/ EditLB(l) \/ EditNetwork(l) \/ EditLabel(l) \/ EditV1alpha1(l) \/ DeleteLB(l)
         \/ \E lb \in Wanted[l] : RequestCreate(l, lb)

Spec == Init /\ [][Next]_vars

\* Some worker of the vm controller goes on.
FairSpec == Spec /\ WF_vars(\E v \in VMs : Clean(v))

-----------------------------------------------------------------------------
(* Properties *)

GuestTypeOK ==
    /\ vms \in [VMs -> [state : {"live", "deleting", "gone"}, onRemove : BOOLEAN]]
    /\ vmCache \in [VMs -> [state : {"live", "deleting", "gone"}, onRemove : BOOLEAN]]
    /\ vmis \subseteq VMs
    /\ lbs \in [LBs -> [uid : Nat, obj : LoadBalancer \cup {None}]]
    /\ lbCache \in [LBs -> Listing \cup {None}]
    /\ create \in [LBs -> [obj : LoadBalancer, blind : BOOLEAN, clear : BOOLEAN] \cup {None}]
    /\ pass \in [VMs -> [pc : {"idle", "clean"}, todo : SUBSET [name : LBs, uid : Nat],
                         failed : BOOLEAN, last : {"ok", "error"}, saw : BOOLEAN]]
    /\ \A v \in VMs : pass[v] # IdlePass => vms[v].state = "deleting"
    /\ removing \subseteq Removable
    /\ raced \subseteq LBs
    /\ events \in Nat

\* Once all machines of a removed guest cluster are gone, so are its load
\* balancers, or they go: whatever failed, panicked or was created again
\* meanwhile.  The exceptions are those that a lagging cache hid from the
\* webhook or from the vm controller, that were under way when the removal
\* began, or that were given the label of the cluster after that.
NoOrphans ==
    \A c \in removing :
        GoneAll(c) => \A l \in LBs :
            Live(l) /\ lbs[l].obj.type = "cluster" /\ lbs[l].obj.label = c => l \in raced

\* The removal of a guest cluster deletes no load balancer of virtual machines,
\* however it was edited while OnRemove worked on its list; unless it
\* is another one that got the name of a listed one.
SparesMachines ==
    [][\A v \in VMs : \A e \in pass[v].todo \ pass'[v].todo :
          lbs'[e.name] # lbs[e.name] /\ lbs[e.name].uid = e.uid
              => lbs[e.name].obj.type = "cluster"]_vars

\* Deleted machines go, for all failed deletions, panics and conflicts: again and
\* again none is left over.
CleanupCompletes == []<>(\A v \in VMs : vms[v].state # "deleting")

\* The network of a guest cluster's load balancer, on which its pool depends,
\* moves only when a client writes or drops that very annotation: no other write,
\* by users, through the old version or by the controller, has it looked up
\* again among the instances that happen to run, or replaced by the management
\* network.
NetworkSticks ==
    [][\A l \in LBs :
          /\ Live(l) /\ lbs'[l].uid = lbs[l].uid
          /\ lbs[l].obj.type = "cluster" /\ lbs[l].obj.net # ""
          /\ lbs'[l].obj.net # lbs[l].obj.net
          => EditNetwork(l)]_vars

\* What is stored can be written again: the controller's status is not refused,
\* not for what is there since before there were checks either.
StaysWritable ==
    \A l \in LBs : Live(l) =>
        LET lb == lbs[l].obj
        IN  \A n \in Mutate(lb, Namespace, vmis) : ValidateUpdate(lb, n)

\* Writing through the old version takes from a load balancer neither its
\* address nor an endpoint: every server that runs is still selected, or, where
\* several instances have the same first address, one of these.
OldVersionKeeps ==
    [][\A l \in LBs :
          LET lb  == lbs[l].obj
              new == lbs'[l].obj
          IN  /\ Live(l) /\ lbs'[l].uid = lbs[l].uid
              /\ lb.ipam = "pool" /\ lb.allocated = Lease[l] /\ lb.address = Lease[l].ip
              => /\ new.allocated = lb.allocated
                 /\ \A v \in lb.selector \cap vmis :
                       GetAddress(v) \cap lb.servers # {} =>
                           \E w \in new.selector \cap vmis : GetAddress(w) = GetAddress(v)]_vars
=============================================================================
