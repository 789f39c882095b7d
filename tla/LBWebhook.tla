------------------------------ MODULE LBWebhook ------------------------------
(***************************************************************************)
(* What the webhook does to a load balancer (pkg/webhook/loadbalancer):    *)
(* the mutator, the validator and the conversion between v1alpha1 and      *)
(* v1beta1, as operators on a load balancer                                *)
(*   [type, label, cluster, net, mgmt, namespace, project: its workload    *)
(*      type, cluster label, and annotations,                              *)
(*    listeners, hc, ipam, pool, selector: its spec,                       *)
(*    allocated, address, servers: its status, deleting].                  *)
(* A listener is [name, port, protocol, backendPort], a health check       *)
(* [port, success, failure, period, timeout].  A selector is given by the  *)
(* names of the machines that it matches.                                  *)
(***************************************************************************)
EXTENDS Integers, Sequences

CONSTANTS
    None,       \* a label that is not there
    VMs,        \* virtual machines
    Machine,    \* of each: [cluster, creator: labels, prefixes: the cluster names
                \* that its name begins with, networks: a sequence of names, ""
                \* for one that is not multus, addresses: of its interfaces]
    Projects,   \* namespaces in the cache, and their projects
    AskDHCP,    \* Address4AskDHCP
    MaxPort     \* 65535

\* A string, empty where there is none.
Text == STRING \cup {""}

\* The types.  A port is an int32, a threshold an unsigned number.
Listener    == [name : Text, port : Int, protocol : Text, backendPort : Int]
HealthCheck == [port : Int, success : Nat, failure : Nat, period : Nat, timeout : Nat]
IPs         == Text \cup {AskDHCP}
Allocated   == [pool : Text, ip : IPs]

LoadBalancer ==
    [type : Text, label : Text \cup {None}, cluster : Text, net : Text,
     mgmt : Text, namespace : Text, project : Text,
     listeners : Seq(Listener), hc : HealthCheck, ipam : Text, pool : Text,
     selector : SUBSET VMs, allocated : Allocated, address : IPs,
     servers : SUBSET Text, deleting : BOOLEAN]

ASSUME WebhookAssumption ==
    /\ \A v \in VMs : /\ Machine[v].networks \in Seq(Text)
                      /\ Machine[v].addresses \in Seq([v4 : BOOLEAN, ip : Text])
    /\ \A x \in DOMAIN Projects : Projects[x] \in Text

NoCheck == [port |-> 0, success |-> 0, failure |-> 0, period |-> 0, timeout |-> 0]

IsVM(lb) == lb.type \in {"vm", ""}

-----------------------------------------------------------------------------
(* The mutator *)

\* The first of some indices, as a set with at most one.
First(is) == {i \in is : \A j \in is : i <= j}

\* getFirstMultusNetworkNameFromVMI, as a set with at most one name.
FirstMultus(v) ==
    LET ns == Machine[v].networks
    IN  {ns[i] : i \in First({i \in DOMAIN ns : ns[i] # ""})}

\* NewGuestClusterNameSelector and getFirstMultusNetworkName: the list of the
\* cache is in no order.
NetworksByName(vmis, name) ==
    UNION {FirstMultus(v) : v \in {x \in vmis : Machine[x].cluster = name}}

\* NewGuestClusterCreatorSelector and findNetworkByLegacyNameMatch.
NetworksByPrefix(vmis, name) ==
    UNION {FirstMultus(v) : v \in {x \in vmis : /\ Machine[x].creator
                                                /\ name \in Machine[x].prefixes}}

\* A mutant: the management network comes first.
FindNetworkMgmt(lb, vmis) ==
    IF lb.mgmt # "" THEN {lb.mgmt} ELSE {lb.net}

\* findNetwork: what it may return with these instances.
FindNetwork(lb, vmis) ==
    LET named    == NetworksByName(vmis, lb.cluster)
        prefixed == NetworksByPrefix(vmis, lb.cluster)
    IN  IF lb.net # ""          THEN {lb.net}
        ELSE IF lb.mgmt # ""    THEN {lb.mgmt}
        ELSE IF lb.cluster = "" THEN {""}
        ELSE IF named # {}      THEN named
        ELSE IF prefixed # {}   THEN prefixed
        ELSE {""}

\* A mutant: a threshold that is missing stays so.
GetHealthyCheckPatchNone(hc) == hc

\* getHealthyCheckPatch.
GetHealthyCheckPatch(hc) ==
    IF hc.port = 0 THEN hc
    ELSE LET default(n, d) == IF n = 0 THEN d ELSE n
         IN  [port    |-> hc.port,
              success |-> default(hc.success, 2),
              failure |-> default(hc.failure, 2),
              period  |-> default(hc.period, 1),
              timeout |-> default(hc.timeout, 1)]

\* getAnnotationsPatch: the results of the mutator on a load balancer in
\* namespace ns.  There is none if findProject fails.
Mutate(lb, ns, vmis) ==
    LET checked == [lb EXCEPT !.hc = GetHealthyCheckPatch(lb.hc)]
    IN  IF lb.deleting  THEN {lb}
        ELSE IF IsVM(lb) THEN {[checked EXCEPT !.namespace = ns]}
        ELSE IF ns \notin DOMAIN Projects THEN {}
        ELSE {[checked EXCEPT !.namespace = ns, !.project = Projects[ns], !.net = n] :
                 n \in FindNetwork(lb, vmis)}

-----------------------------------------------------------------------------
(* The validator *)

\* checkListeners.
CheckListeners(lb) ==
    lb.type = "cluster" \/
    LET ls == lb.listeners
    IN  /\ ls # <<>>
        /\ \A i, j \in DOMAIN ls : i # j =>
             /\ ls[i].name # ls[j].name
             /\ <<ls[i].protocol, ls[i].port>> # <<ls[j].protocol, ls[j].port>>
             /\ <<ls[i].protocol, ls[i].backendPort>> # <<ls[j].protocol, ls[j].backendPort>>
        /\ \A i \in DOMAIN ls : {ls[i].port, ls[i].backendPort} \subseteq 1 .. MaxPort

\* checkHealthyCheck: the port is a TCP backend port and nothing is zero.
IsBackendPort(lb) ==
    \E i \in DOMAIN lb.listeners :
        lb.listeners[i].backendPort = lb.hc.port /\ lb.listeners[i].protocol = "TCP"

CheckHealthyCheck(lb) ==
    \/ lb.type = "cluster"
    \/ lb.hc.port = 0
    \/ /\ IsBackendPort(lb)
       /\ 0 \notin {lb.hc.success, lb.hc.failure, lb.hc.period, lb.hc.timeout}

\* checkIPAM.
CheckIPAM(old, new) == (old.ipam = "dhcp") = (new.ipam = "dhcp")

\* checkWorkloadType.
CheckWorkloadType(old, new) == (old.type = "cluster") = (new.type = "cluster")

\* A mutant: the guest side may create load balancers again at any time.
CheckGuestClusterIsOnRemoveNot(lb, vms) == TRUE

\* checkGuestClusterIsOnRemove, with the machines that the cache has.
CheckGuestClusterIsOnRemove(lb, vms) ==
    \/ lb.type # "cluster"
    \/ lb.label \in {None, "", "kubernetes"}
    \/ \A v \in DOMAIN vms :
         Machine[v].cluster = lb.label /\ Machine[v].creator /\ vms[v].state # "gone"
             => ~vms[v].onRemove

\* Create and Update of the validator.
ValidateCreate(lb, vms) ==
    CheckListeners(lb) /\ CheckHealthyCheck(lb) /\ CheckGuestClusterIsOnRemove(lb, vms)

ValidateUpdate(old, lb) ==
    \/ lb.deleting
    \/ /\ CheckListeners(lb) /\ CheckHealthyCheck(lb)
       /\ CheckIPAM(old, lb) /\ CheckWorkloadType(old, lb)

-----------------------------------------------------------------------------
(* The conversion *)

\* Server.GetAddress: the first IPv4 address, as a set with at most one.
GetAddress(v) ==
    LET as == Machine[v].addresses
    IN  {as[i].ip : i \in First({i \in DOMAIN as : as[i].v4})}

\* The fields that v1alpha1 has too; what else there is the API server prunes:
\* type, pool, selector, allocated, and the period, whose name there begins with
\* a capital.
Pruned(lb) ==
    [listeners |-> lb.listeners, ipam |-> lb.ipam,
     hc |-> [lb.hc EXCEPT !.period = 0],
     servers |-> {}, address |-> lb.address]

\* convertFromV1beta1ToV1alpha1: the servers of the status are in the spec.
ConvertToV1alpha1(lb) == [Pruned(lb) EXCEPT !.servers = lb.servers]

\* getPoolByAddressOfV1alpha1LB: the pools in whose books the address is.
PoolsByAddress(books, address, id) ==
    {p \in DOMAIN books : address \in DOMAIN books[p] /\ books[p][address] = id}

\* The allocated address: with DHCP it is not known.
PlacesOf(a, id, books) ==
    IF a.address = "" THEN {[pool |-> "", ip |-> ""]}
    ELSE IF a.ipam = "pool"
    THEN [pool : PoolsByAddress(books, a.address, id), ip : {a.address}]
    ELSE {[pool |-> "", ip |-> AskDHCP]}

\* convertBackendServersToBackendServerSelector: of the instances that have an
\* address the one that is listed last, and the list is in no order.
SelectorsOf(servers, vmis) ==
    LET having(ip) == {v \in vmis : ip \in GetAddress(v)}
        found      == {ip \in servers : having(ip) # {}}
    IN  {{last[ip] : ip \in found} :
            last \in {f \in [found -> vmis] : \A ip \in found : f[ip] \in having(ip)}}

\* The spec and the status of a, the metadata of lb.
InV1beta1(lb, a, place, selector) ==
    [lb EXCEPT !.type = "", !.listeners = a.listeners, !.ipam = a.ipam, !.hc = a.hc,
               !.pool = place.pool, !.allocated = place,
               !.selector = selector, !.servers = a.servers]

\* A mutant: the address is not looked up.
ConvertToV1beta1Plain(lb, a, id, books, vmis) ==
    {InV1beta1(lb, a, [pool |-> "", ip |-> a.address], s) : s \in SelectorsOf(a.servers, vmis)}

\* convertFromV1alpha1ToV1beta1 on the metadata of lb: its results, none if the
\* pool of the address is not found.
ConvertToV1beta1(lb, a, id, books, vmis) ==
    {InV1beta1(lb, a, place, s) :
        place \in PlacesOf(a, id, books), s \in SelectorsOf(a.servers, vmis)}
=============================================================================
