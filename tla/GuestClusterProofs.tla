------------------------- MODULE GuestClusterProofs -------------------------
(***************************************************************************)
(* The load balancers of a namespace and the removal of guest clusters,    *)
(* for any number of machines, load balancers, clusters and faults.        *)
(*                                                                         *)
(* NoOrphans speaks of the state when the last machine is gone. GuestInv   *)
(* is why it holds: a cluster that is being removed has a live machine     *)
(* left, or all of them are marked (Marked); a pass over a marked machine  *)
(* has every load balancer of the cluster on its list that is not raced    *)
(* (Cleaning); a Create under way was let through in sight of machines     *)
(* that were not marked, or is one of the raced (Requests). An edit of the *)
(* label, which the webhook does not check, counts as raced from the first *)
(* mark on. Stored is what makes an object pass the webhook again, and     *)
(* Sighted that the uid of a load balancer of a cluster never becomes that *)
(* of another kind.                                                        *)
(*                                                                         *)
(* The action properties rest on Kept: what any writer leaves of a load    *)
(* balancer, as the webhook lets it through.                               *)
(***************************************************************************)
EXTENDS GuestCluster, TLAPS

-----------------------------------------------------------------------------
(* The webhook: what it keeps, and types *)

\* An element of a sequence is of the set the sequence is over.
LEMMA Element ==
    ASSUME NEW S, NEW s \in Seq(S), NEW i \in DOMAIN s
    PROVE  s[i] \in S
  OBVIOUS

\* What is chosen first is one of those to choose from.
LEMMA FirstMultusType ==
    ASSUME NEW v \in VMs
    PROVE  FirstMultus(v) \subseteq Text
<1>1. Machine[v].networks \in Seq(Text) BY WebhookAssumption
<1>2. \A i \in DOMAIN Machine[v].networks : Machine[v].networks[i] \in Text BY <1>1
<1> QED BY <1>2 DEF FirstMultus, First

\* The address of an instance is one of its addresses.
LEMMA GetAddressType ==
    ASSUME NEW v \in VMs
    PROVE  GetAddress(v) \subseteq Text
<1>1. Machine[v].addresses \in Seq([v4 : BOOLEAN, ip : Text]) BY WebhookAssumption
<1>2. \A i \in DOMAIN Machine[v].addresses :
          Machine[v].addresses[i] \in [v4 : BOOLEAN, ip : Text]
  BY <1>1, Element
<1>3. \A i \in DOMAIN Machine[v].addresses : Machine[v].addresses[i].ip \in Text BY <1>2
<1> QED BY <1>3 DEF GetAddress, First

\* A network that is found is kept.
LEMMA FindNetworkType ==
    ASSUME NEW lb \in LoadBalancer, NEW is \in SUBSET VMs
    PROVE  /\ FindNetwork(lb, is) \subseteq Text
           /\ lb.net # "" => FindNetwork(lb, is) = {lb.net}
<1>1. NetworksByName(is, lb.cluster) \subseteq Text
  BY FirstMultusType DEF NetworksByName
<1>2. NetworksByPrefix(is, lb.cluster) \subseteq Text
  BY FirstMultusType DEF NetworksByPrefix
<1>3. lb.net \in Text /\ lb.mgmt \in Text BY DEF LoadBalancer
<1>4. "" \in Text BY DEF Text
<1>5. lb.net # "" => FindNetwork(lb, is) = {lb.net} BY DEF FindNetwork
<1>6. FindNetwork(lb, is) \subseteq Text BY <1>1, <1>2, <1>3, <1>4 DEF FindNetwork
<1> QED BY <1>5, <1>6

\* A default is filled in only for a health check with a port, and none is zero.
LEMMA PatchType ==
    ASSUME NEW hc \in HealthCheck
    PROVE  /\ GetHealthyCheckPatch(hc) \in HealthCheck
           /\ GetHealthyCheckPatch(hc).port = hc.port
           /\ hc.port # 0 => LET p == GetHealthyCheckPatch(hc)
                             IN  0 \notin {p.success, p.failure, p.period, p.timeout}
  BY DEF GetHealthyCheckPatch, HealthCheck

\* What the mutator may change: the health check and four annotations, of which
\* the network only if there is none or the load balancer is none of a cluster.
SameBut(n, lb) ==
    /\ n.type = lb.type /\ n.label = lb.label /\ n.cluster = lb.cluster
    /\ n.mgmt = lb.mgmt /\ n.listeners = lb.listeners /\ n.ipam = lb.ipam
    /\ n.selector = lb.selector /\ n.allocated = lb.allocated
    /\ n.address = lb.address /\ n.servers = lb.servers /\ n.deleting = lb.deleting
    /\ n.hc = lb.hc \/ n.hc = GetHealthyCheckPatch(lb.hc)
    /\ ~lb.deleting => n.hc = GetHealthyCheckPatch(lb.hc)
    /\ IsVM(lb) \/ lb.net # "" => n.net = lb.net

\* The mutator changes annotations and the health check only.
LEMMA MutateKeeps ==
    ASSUME NEW lb \in LoadBalancer, NEW is \in SUBSET VMs, NEW n \in Mutate(lb, Namespace, is)
    PROVE  n \in LoadBalancer /\ SameBut(n, lb)
<1> DEFINE hc == GetHealthyCheckPatch(lb.hc)
<1>1. hc \in HealthCheck BY PatchType DEF LoadBalancer
<1>2. Namespace \in Text BY GuestAssumption
<1> HIDE DEF hc
<1>3. CASE lb.deleting
  <2>1. Mutate(lb, Namespace, is) = {lb} BY <1>3 DEF Mutate
  <2> QED BY <1>3, <2>1 DEF SameBut
<1>4. CASE ~lb.deleting /\ IsVM(lb)
  <2>1. n = [lb EXCEPT !.hc = hc, !.namespace = Namespace] BY <1>4 DEF Mutate, hc
  <2> QED BY <1>1, <1>2, <1>4, <2>1 DEF LoadBalancer, SameBut, hc
<1>5. CASE ~lb.deleting /\ ~IsVM(lb)
  <2> DEFINE checked == [lb EXCEPT !.hc = hc]
  <2>1. /\ Namespace \in DOMAIN Projects
        /\ \E net \in FindNetwork(lb, is) :
             n = [checked EXCEPT !.namespace = Namespace, !.project = Projects[Namespace],
                                 !.net = net]
    BY <1>5 DEF Mutate, hc
  <2> PICK net \in FindNetwork(lb, is) :
        n = [checked EXCEPT !.namespace = Namespace, !.project = Projects[Namespace],
                            !.net = net]
    BY <2>1
  <2>2. Projects[Namespace] \in Text /\ net \in Text /\ (lb.net # "" => net = lb.net)
    <3>1. Projects[Namespace] \in Text BY <2>1, WebhookAssumption
    <3>2. FindNetwork(lb, is) \subseteq Text /\ (lb.net # "" => FindNetwork(lb, is) = {lb.net})
      BY FindNetworkType
    <3> QED BY <3>1, <3>2
  <2>3. checked \in LoadBalancer /\ checked.hc = hc BY <1>1 DEF LoadBalancer
  <2> QED BY <1>1, <1>2, <1>5, <2>2, <2>3 DEF LoadBalancer, SameBut, hc
<1> QED BY <1>3, <1>4, <1>5

\* For every server that runs the selector has an instance with its address.
LEMMA SelectorsServe ==
    ASSUME NEW is \in SUBSET VMs, NEW servers, NEW s \in SelectorsOf(servers, is)
    PROVE  /\ s \subseteq is
           /\ \A v \in is : GetAddress(v) \cap servers # {} =>
                 \E w \in s : GetAddress(w) \cap GetAddress(v) # {}
<1> DEFINE having(ip) == {v \in is : ip \in GetAddress(v)}
           found == {ip \in servers : having(ip) # {}}
<1>1. PICK last \in [found -> is] :
        (\A ip \in found : last[ip] \in having(ip)) /\ s = {last[ip] : ip \in found}
  BY DEF SelectorsOf
<1>2. s \subseteq is BY <1>1
<1>3. ASSUME NEW v \in is, NEW ip \in GetAddress(v) \cap servers
      PROVE  \E w \in s : GetAddress(w) \cap GetAddress(v) # {}
  <2>1. ip \in found BY <1>3
  <2>2. last[ip] \in s /\ ip \in GetAddress(last[ip]) BY <1>1, <2>1
  <2> QED BY <1>3, <2>2
<1> QED BY <1>2, <1>3

\* An instance has one address at most.
LEMMA OneAddress ==
    ASSUME NEW v \in VMs, NEW w \in VMs, GetAddress(w) \cap GetAddress(v) # {}
    PROVE  GetAddress(w) = GetAddress(v)
<1>1. ASSUME NEW x \in VMs, NEW a \in GetAddress(x), NEW b \in GetAddress(x) PROVE a = b
  <2> DEFINE as == Machine[x].addresses
             is == {i \in DOMAIN as : as[i].v4}
  <2>1. PICK i \in First(is) : a = as[i].ip BY DEF GetAddress
  <2>2. PICK j \in First(is) : b = as[j].ip BY DEF GetAddress
  <2>3. as \in Seq([v4 : BOOLEAN, ip : Text]) BY WebhookAssumption
  <2>4. i \in Nat /\ j \in Nat BY <2>3 DEF First
  <2>5. i <= j /\ j <= i BY DEF First
  <2> QED BY <2>1, <2>2, <2>4, <2>5
<1> QED BY <1>1

\* A conversion forth and back keeps what only v1beta1 has in the metadata.
LEMMA ConvertType ==
    ASSUME NEW lb \in LoadBalancer, NEW l \in LBs, NEW is \in SUBSET VMs,
           NEW n \in ConvertToV1beta1(lb, ConvertToV1alpha1(lb), l, Books, is)
    PROVE  /\ n \in LoadBalancer /\ n.label = lb.label /\ n.deleting = lb.deleting
           /\ n.type = "" /\ n.net = lb.net
           /\ n.selector \in SelectorsOf(lb.servers, is)
           /\ (lb.ipam = "pool" /\ lb.address # "") =>
                \E p \in PoolsByAddress(Books, lb.address, l) :
                    n.allocated = [pool |-> p, ip |-> lb.address]
<1> DEFINE a == ConvertToV1alpha1(lb)
<1>1. /\ a.listeners = lb.listeners /\ a.ipam = lb.ipam /\ a.servers = lb.servers
      /\ a.address = lb.address /\ a.hc = [lb.hc EXCEPT !.period = 0]
  BY DEF ConvertToV1alpha1, Pruned
<1>2. PICK place \in PlacesOf(a, l, Books), s \in SelectorsOf(a.servers, is) :
        n = InV1beta1(lb, a, place, s)
  BY DEF ConvertToV1beta1
<1> HIDE DEF a
<1>3. /\ place \in Allocated /\ place.pool \in Text
      /\ (lb.ipam = "pool" /\ lb.address # "") =>
           \E p \in PoolsByAddress(Books, lb.address, l) :
               place = [pool |-> p, ip |-> lb.address]
  <2>0. a.address = lb.address /\ a.ipam = lb.ipam BY <1>1
  <2>1. PoolsByAddress(Books, lb.address, l) \subseteq Text
    BY GuestAssumption DEF PoolsByAddress
  <2>2. lb.address \in IPs BY DEF LoadBalancer
  <2>3. CASE lb.address = ""
    <3>1. place = [pool |-> "", ip |-> ""] BY <2>0, <2>3 DEF PlacesOf
    <3>2. place.pool = "" /\ place \in Allocated BY <3>1 DEF Allocated, IPs, Text
    <3> QED BY <2>3, <3>2 DEF Text
  <2>4. CASE lb.address # "" /\ lb.ipam # "pool"
    <3>1. place = [pool |-> "", ip |-> AskDHCP] BY <2>0, <2>4 DEF PlacesOf
    <3>2. place.pool = "" /\ place \in Allocated BY <3>1 DEF Allocated, IPs, Text
    <3> QED BY <2>4, <3>2 DEF Text
  <2>5. CASE lb.address # "" /\ lb.ipam = "pool"
    <3>1. place \in [pool : PoolsByAddress(Books, lb.address, l), ip : {lb.address}]
      BY <2>0, <2>5 DEF PlacesOf
    <3>2. place = [pool |-> place.pool, ip |-> lb.address] BY <3>1
    <3> QED BY <2>1, <2>2, <3>1, <3>2 DEF Allocated
  <2> QED BY <2>3, <2>4, <2>5
<1>4. a.hc \in HealthCheck BY <1>1 DEF LoadBalancer, HealthCheck
<1>5. s \in SUBSET VMs /\ s \in SelectorsOf(lb.servers, is)
  <2>1. s \in SelectorsOf(lb.servers, is) BY <1>1
  <2>2. s \subseteq is BY <2>1, SelectorsServe
  <2> QED BY <2>1, <2>2
<1>6. "" \in Text BY DEF Text
<1>7. n \in LoadBalancer BY <1>1, <1>2, <1>3, <1>4, <1>5, <1>6 DEF LoadBalancer, InV1beta1
<1>8. /\ n.label = lb.label /\ n.deleting = lb.deleting /\ n.type = "" /\ n.net = lb.net
      /\ n.selector = s /\ n.allocated = place
  BY <1>2 DEF LoadBalancer, InV1beta1
<1> QED BY <1>3, <1>5, <1>7, <1>8

-----------------------------------------------------------------------------
(* What an Update leaves of a load balancer *)

Writable(o) ==
    /\ CheckListeners(o)
    /\ o.type = "cluster" \/ o.hc.port = 0 \/ IsBackendPort(o)

\* The same kind of load balancer, that can be written again ...
KindKept(o, n) ==
    /\ n \in LoadBalancer /\ ~n.deleting
    /\ n.type = "cluster" <=> o.type = "cluster"
    /\ Writable(n)

\* ... with its network, ...
NetKept(o, n) == o.type = "cluster" /\ o.net # "" => n.net = o.net

\* ... its address, and for every server that runs one of the same address.
ServiceKept(l, o, n) ==
    o.ipam = "pool" /\ o.allocated = Lease[l] /\ o.address = Lease[l].ip
        => /\ n.allocated = o.allocated
           /\ \A v \in o.selector \cap vmis :
                 GetAddress(v) \cap o.servers # {} =>
                     \E w \in n.selector \cap vmis : GetAddress(w) = GetAddress(v)

\* One load balancer becomes another object.
Becomes(l, n) == lbs' = [lbs EXCEPT ![l].obj = n]

\* What a load balancer consists of.
LEMMA LBFields ==
    ASSUME GuestTypeOK, NEW l \in LBs
    PROVE  /\ lbs[l] \in [uid : Nat, obj : LoadBalancer \cup {None}]
           /\ lbs[l].uid \in Nat
           /\ There(l) => lbs[l].obj \in LoadBalancer
  BY DEF GuestTypeOK, There

\* The listeners of a load balancer decide what can be written.
LEMMA WritableFields ==
    ASSUME NEW o, NEW n, n.type = o.type, n.listeners = o.listeners,
           n.hc.port = o.hc.port, Writable(o)
    PROVE  Writable(n)
  BY DEF Writable, CheckListeners, IsBackendPort

\* What passes the checks of a Create can be written.
LEMMA ValidIsWritable ==
    ASSUME NEW n, CheckListeners(n), CheckHealthyCheck(n)
    PROVE  Writable(n)
  BY DEF Writable, CheckHealthyCheck

\* An Update stores what the client sent, as patched, of the same kind.
LEMMA UpdateKeeps ==
    ASSUME GuestTypeOK, NEW l \in LBs, NEW new \in LoadBalancer, Update(l, new),
           ~new.deleting
    PROVE  \E n \in LoadBalancer : Becomes(l, n) /\ SameBut(n, new) /\ KindKept(lbs[l].obj, n)
<1> DEFINE o == lbs[l].obj
<1>1. PICK n \in Mutate(new, Namespace, vmis) :
        ValidateUpdate(o, n) /\ lbs' = [lbs EXCEPT ![l].obj = n]
  BY DEF Update
<1>2. n \in LoadBalancer /\ SameBut(n, new) BY MutateKeeps DEF GuestTypeOK
<1>3. ~n.deleting BY <1>2 DEF SameBut
<1>4. /\ CheckListeners(n) /\ CheckHealthyCheck(n)
      /\ n.type = "cluster" <=> o.type = "cluster"
  BY <1>1, <1>3 DEF ValidateUpdate, CheckWorkloadType
<1>5. Writable(n) BY <1>4, ValidIsWritable
<1> QED BY <1>1, <1>2, <1>3, <1>4, <1>5 DEF Becomes, KindKept

\* Most edits change neither network nor address nor cluster of a load balancer.
LEMMA EditLBKeeps ==
    ASSUME GuestTypeOK, NEW l \in LBs, EditLB(l)
    PROVE  /\ Live(l)
           /\ \E n \in LoadBalancer : /\ Becomes(l, n) /\ KindKept(lbs[l].obj, n)
                                      /\ n.label = lbs[l].obj.label
                                      /\ NetKept(lbs[l].obj, n)
                                      /\ ServiceKept(l, lbs[l].obj, n)
<1> DEFINE o == lbs[l].obj
<1>1. Live(l) /\ o \in LoadBalancer /\ ~o.deleting BY LBFields DEF EditLB, Live
<1> HIDE DEF o
<1>2. PICK new \in EditsOf(o) : Update(l, new) BY DEF EditLB, o
<1>3. /\ new \in LoadBalancer /\ new.label = o.label /\ ~new.deleting
      /\ new.net = o.net /\ new.allocated = o.allocated /\ new.selector = o.selector
  <2>0. /\ Networks \cup {""} \subseteq Text /\ Clusters \cup {""} \subseteq Text
        /\ Types \subseteq Text /\ IPAMs \subseteq Text /\ Checks \subseteq HealthCheck
    BY GuestAssumption DEF Text
  <2>1. CASE \E x \in Networks \cup {""} : new = [o EXCEPT !.mgmt = x]
    BY <1>1, <2>0, <2>1 DEF LoadBalancer
  <2>5. CASE \E x \in Clusters \cup {""} : new = [o EXCEPT !.cluster = x]
    BY <1>1, <2>0, <2>5 DEF LoadBalancer
  <2>2. CASE \E x \in Types : new = [o EXCEPT !.type = x]
    BY <1>1, <2>0, <2>2 DEF LoadBalancer
  <2>3. CASE \E x \in Checks : new = [o EXCEPT !.hc = x]
    BY <1>1, <2>0, <2>3 DEF LoadBalancer
  <2>4. CASE \E x \in IPAMs : new = [o EXCEPT !.ipam = x]
    BY <1>1, <2>0, <2>4 DEF LoadBalancer
  <2> QED BY <1>2, <2>1, <2>2, <2>3, <2>4, <2>5 DEF EditsOf
<1>4. PICK n \in LoadBalancer : Becomes(l, n) /\ SameBut(n, new) /\ KindKept(o, n)
  BY <1>2, <1>3, UpdateKeeps DEF o
<1>5. NetKept(o, n) BY <1>3, <1>4 DEF NetKept, SameBut
<1>6. ServiceKept(l, o, n) /\ n.label = o.label BY <1>3, <1>4 DEF ServiceKept, SameBut
<1> QED BY <1>1, <1>4, <1>5, <1>6 DEF o

\* A client may appoint another network.
LEMMA EditNetworkKeeps ==
    ASSUME GuestTypeOK, NEW l \in LBs, EditNetwork(l)
    PROVE  /\ Live(l)
           /\ \E n \in LoadBalancer : /\ Becomes(l, n) /\ KindKept(lbs[l].obj, n)
                                      /\ n.label = lbs[l].obj.label
                                      /\ ServiceKept(l, lbs[l].obj, n)
<1> DEFINE o == lbs[l].obj
<1>1. Live(l) /\ o \in LoadBalancer /\ ~o.deleting BY LBFields DEF EditNetwork, Live
<1> HIDE DEF o
<1>2. PICK x \in Networks \cup {""} : Update(l, [o EXCEPT !.net = x]) BY DEF EditNetwork, o
<1> DEFINE new == [o EXCEPT !.net = x]
<1>3. x \in Text BY GuestAssumption DEF Text
<1>4. /\ new \in LoadBalancer /\ new.label = o.label /\ ~new.deleting
      /\ new.allocated = o.allocated /\ new.selector = o.selector
  BY <1>1, <1>3 DEF LoadBalancer
<1>5. Update(l, new) BY <1>2
<1> HIDE DEF new
<1>6. PICK n \in LoadBalancer : Becomes(l, n) /\ SameBut(n, new) /\ KindKept(o, n)
  BY <1>4, <1>5, UpdateKeeps DEF o
<1>7. ServiceKept(l, o, n) /\ n.label = o.label BY <1>4, <1>6 DEF ServiceKept, SameBut
<1> QED BY <1>1, <1>6, <1>7 DEF o

\* Or give it to another cluster.
LEMMA EditLabelKeeps ==
    ASSUME GuestTypeOK, NEW l \in LBs, NEW x \in Clusters \cup {None}, Live(l),
           Update(l, [lbs[l].obj EXCEPT !.label = x])
    PROVE  \E n \in LoadBalancer : /\ Becomes(l, n) /\ KindKept(lbs[l].obj, n)
                                   /\ n.label = x
                                   /\ NetKept(lbs[l].obj, n)
                                   /\ ServiceKept(l, lbs[l].obj, n)
<1> DEFINE o == lbs[l].obj
<1>1. o \in LoadBalancer /\ ~o.deleting BY LBFields DEF Live
<1> HIDE DEF o
<1> DEFINE new == [o EXCEPT !.label = x]
<1>2. x \in Text \cup {None} BY GuestAssumption
<1>3. /\ new \in LoadBalancer /\ new.label = x /\ ~new.deleting /\ new.net = o.net
      /\ new.allocated = o.allocated /\ new.selector = o.selector
  BY <1>1, <1>2 DEF LoadBalancer
<1>4. Update(l, new) BY DEF o
<1> HIDE DEF new
<1>5. PICK n \in LoadBalancer : Becomes(l, n) /\ SameBut(n, new) /\ KindKept(o, n)
  BY <1>3, <1>4, UpdateKeeps DEF o
<1>6. NetKept(o, n) BY <1>3, <1>5 DEF NetKept, SameBut
<1>7. ServiceKept(l, o, n) /\ n.label = x BY <1>3, <1>5 DEF ServiceKept, SameBut
<1> QED BY <1>5, <1>6, <1>7 DEF o

\* Through the old version: refused for a load balancer of a cluster.
LEMMA EditV1alpha1Keeps ==
    ASSUME GuestTypeOK, NEW l \in LBs, EditV1alpha1(l)
    PROVE  /\ Live(l)
           /\ \E n \in LoadBalancer : /\ Becomes(l, n) /\ KindKept(lbs[l].obj, n)
                                      /\ n.label = lbs[l].obj.label
                                      /\ NetKept(lbs[l].obj, n)
                                      /\ ServiceKept(l, lbs[l].obj, n)
<1> DEFINE o == lbs[l].obj
<1>1. Live(l) /\ o \in LoadBalancer /\ ~o.deleting BY LBFields DEF EditV1alpha1, Live
<1>2. vmis \in SUBSET VMs BY DEF GuestTypeOK
<1> HIDE DEF o
<1>3. PICK new \in ConvertToV1beta1(o, ConvertToV1alpha1(o), l, Books, vmis) : Update(l, new)
  BY DEF EditV1alpha1, o
<1>4. /\ new \in LoadBalancer /\ new.label = o.label /\ new.deleting = o.deleting
      /\ new.type = "" /\ new.selector \in SelectorsOf(o.servers, vmis)
      /\ (o.ipam = "pool" /\ o.address # "") =>
            \E p \in PoolsByAddress(Books, o.address, l) :
                new.allocated = [pool |-> p, ip |-> o.address]
  BY <1>1, <1>2, ConvertType
<1>5. PICK n \in LoadBalancer : Becomes(l, n) /\ SameBut(n, new) /\ KindKept(o, n)
  BY <1>1, <1>3, <1>4, UpdateKeeps DEF o
<1>6. NetKept(o, n) BY <1>4, <1>5 DEF NetKept, SameBut, KindKept
<1>7. ServiceKept(l, o, n)
  <2> SUFFICES ASSUME o.ipam = "pool", o.allocated = Lease[l], o.address = Lease[l].ip
               PROVE  /\ n.allocated = o.allocated
                      /\ \A v \in o.selector \cap vmis :
                            GetAddress(v) \cap o.servers # {} =>
                                \E w \in n.selector \cap vmis : GetAddress(w) = GetAddress(v)
    BY DEF ServiceKept
  <2>1. /\ o.address # "" /\ PoolsByAddress(Books, o.address, l) \subseteq {Lease[l].pool}
        /\ Lease[l] \in Allocated
    BY GuestAssumption
  <2>2. new.allocated = [pool |-> Lease[l].pool, ip |-> Lease[l].ip] BY <1>4, <2>1
  <2>3. new.allocated = Lease[l] BY <2>1, <2>2 DEF Allocated
  <2>4. n.allocated = o.allocated /\ n.selector = new.selector
    BY <1>5, <2>3 DEF SameBut
  <2>5. ASSUME NEW v \in o.selector \cap vmis, GetAddress(v) \cap o.servers # {}
        PROVE  \E w \in n.selector \cap vmis : GetAddress(w) = GetAddress(v)
    <3>0. /\ new.selector \subseteq vmis
          /\ \A x \in vmis : GetAddress(x) \cap o.servers # {} =>
                \E w \in new.selector : GetAddress(w) \cap GetAddress(x) # {}
      <4>1. new.selector \in SelectorsOf(o.servers, vmis) BY <1>4
      <4> QED BY <1>2, <4>1, SelectorsServe
    <3>1. PICK w \in new.selector : w \in vmis /\ GetAddress(w) \cap GetAddress(v) # {}
      BY <2>5, <3>0
    <3>2. v \in VMs /\ w \in VMs BY <1>2, <2>5, <3>1
    <3> QED BY <2>4, <3>1, <3>2, OneAddress
  <2> QED BY <2>4, <2>5
<1>8. n.label = o.label BY <1>4, <1>5 DEF SameBut
<1> QED BY <1>1, <1>5, <1>6, <1>7, <1>8 DEF o

\* Nor does the controller.
LEMMA WriteStatusKeeps ==
    ASSUME GuestTypeOK, NEW l \in LBs, WriteStatus(l)
    PROVE  /\ Live(l)
           /\ \E n \in LoadBalancer : /\ Becomes(l, n) /\ KindKept(lbs[l].obj, n)
                                      /\ n.label = lbs[l].obj.label
                                      /\ NetKept(lbs[l].obj, n)
                                      /\ ServiceKept(l, lbs[l].obj, n)
<1> DEFINE o == lbs[l].obj
           al == IF o.ipam = "dhcp" THEN [pool |-> "", ip |-> AskDHCP] ELSE Lease[l]
           sv == IF o.type = "cluster" THEN {}
                 ELSE UNION {GetAddress(v) : v \in o.selector \cap vmis}
           new == [o EXCEPT !.allocated = al, !.address = Lease[l].ip, !.servers = sv]
<1>1. Live(l) /\ o \in LoadBalancer /\ ~o.deleting BY LBFields DEF WriteStatus, Live
<1>2. Update(l, new) BY DEF WriteStatus
<1>3. al \in Allocated /\ Lease[l].ip \in IPs
  BY GuestAssumption DEF Allocated, IPs, Text
<1>4. sv \in SUBSET Text BY GetAddressType DEF GuestTypeOK
<1>5. o.ipam = "pool" => al = Lease[l] OBVIOUS
<1> HIDE DEF o, al, sv
<1>6. /\ new \in LoadBalancer /\ new.label = o.label /\ ~new.deleting
      /\ new.net = o.net /\ new.allocated = al /\ new.selector = o.selector
  BY <1>1, <1>3, <1>4 DEF LoadBalancer
<1> HIDE DEF new
<1>7. PICK n \in LoadBalancer : Becomes(l, n) /\ SameBut(n, new) /\ KindKept(o, n)
  BY <1>2, <1>6, UpdateKeeps DEF o
<1>8. NetKept(o, n) BY <1>6, <1>7 DEF NetKept, SameBut
<1>9. ServiceKept(l, o, n) /\ n.label = o.label
  BY <1>5, <1>6, <1>7 DEF ServiceKept, SameBut
<1> QED BY <1>1, <1>7, <1>8, <1>9 DEF o

-----------------------------------------------------------------------------
(* The inductive invariant *)

\* What is stored, or on its way, can be written.
Stored ==
    /\ \A l \in LBs : Live(l) => Writable(lbs[l].obj)
    /\ \A l \in LBs : create[l] # None => Writable(create[l].obj)

\* A uid that was read with a load balancer of a cluster is that of one still,
\* or of none.
KnownAs(l, uid) ==
    /\ uid <= lbs[l].uid
    /\ There(l) /\ uid = lbs[l].uid => lbs[l].obj.type = "cluster"

Sighted ==
    /\ \A l \in LBs :
         lbCache[l] # None /\ lbCache[l].type = "cluster" => KnownAs(l, lbCache[l].uid)
    /\ \A v \in VMs : \A e \in pass[v].todo : KnownAs(e.name, e.uid)

\* The webhook lets no Create through for a cluster that it sees being removed.
Requests ==
    \A l \in LBs :
        create[l] # None /\ create[l].obj.type = "cluster" /\ create[l].obj.label \in Removable
            => create[l].blind \/ create[l].clear

\* Rancher deletes the last live machine of a cluster after all are marked.
MarkedAll(c) == \A v \in Of(c) : vms[v].state = "gone" \/ vms[v].onRemove

Marked ==
    \A c \in removing : (\E v \in Of(c) : vms[v].state = "live") \/ MarkedAll(c)

Serves(l, c) == Live(l) /\ lbs[l].obj.type = "cluster" /\ lbs[l].obj.label = c

\* A pass over a marked machine misses no load balancer of its cluster but the
\* raced ones, until a Delete fails.
SeesAll(v) ==
    \A l \in LBs : Serves(l, Machine[v].cluster) =>
        l \in raced \/ pass[v].failed \/ \E e \in pass[v].todo : e.name = l

Cleaning ==
    \A v \in VMs : pass[v].pc = "clean" /\ pass[v].saw =>
        /\ vms[v].onRemove
        /\ Machine[v].creator /\ Machine[v].cluster \in Removable => SeesAll(v)

GuestInv ==
    GuestTypeOK /\ Stored /\ Sighted /\ Requests /\ Marked /\ Cleaning /\ NoOrphans

\* What a step that creates no load balancer does to them all.
Changes ==
    /\ \A l \in LBs : lbs'[l].uid = lbs[l].uid
    /\ \A l \in LBs : There(l)' => There(l)
                        /\ (lbs'[l].obj.type = "cluster" <=> lbs[l].obj.type = "cluster")
    /\ \A l \in LBs : Live(l)' => Live(l) /\ Writable(lbs'[l].obj)

\* If it gives none to another cluster.
Evolves ==
    /\ Changes
    /\ \A l \in LBs : Live(l)' => lbs'[l].obj.label = lbs[l].obj.label

\* An Update creates nothing and keeps the kind.
LEMMA UpdateEvolves ==
    ASSUME GuestTypeOK, Stored, NEW l \in LBs, Live(l), NEW n \in LoadBalancer,
           Becomes(l, n), KindKept(lbs[l].obj, n)
    PROVE  /\ Changes
           /\ n.label = lbs[l].obj.label => Evolves
           /\ lbs' \in [LBs -> [uid : Nat, obj : LoadBalancer \cup {None}]]
<1>1. /\ lbs'[l].obj = n /\ lbs'[l].uid = lbs[l].uid
      /\ \A x \in LBs \ {l} : lbs'[x] = lbs[x]
  BY DEF Becomes, GuestTypeOK
<1>2. lbs' \in [LBs -> [uid : Nat, obj : LoadBalancer \cup {None}]]
  BY DEF Becomes, GuestTypeOK
<1>3. Changes
  BY <1>1 DEF Changes, There, Live, KindKept, Stored
<1>4. n.label = lbs[l].obj.label => Evolves BY <1>1, <1>3 DEF Evolves
<1> QED BY <1>2, <1>3, <1>4

\* A Delete.
LEMMA DeleteEvolves ==
    ASSUME GuestTypeOK, Stored, NEW l \in LBs, There(l),
           lbs' = [lbs EXCEPT ![l].obj.deleting = TRUE]
    PROVE  /\ Evolves /\ ~Live(l)'
           /\ lbs' \in [LBs -> [uid : Nat, obj : LoadBalancer \cup {None}]]
<1> DEFINE n == [lbs[l].obj EXCEPT !.deleting = TRUE]
<1>1. lbs[l].obj \in LoadBalancer BY LBFields
<1>2. n \in LoadBalancer /\ n.deleting /\ n.type = lbs[l].obj.type
  BY <1>1 DEF LoadBalancer
<1>3. lbs' = [lbs EXCEPT ![l].obj = n] OBVIOUS
<1> HIDE DEF n
<1>4. /\ lbs'[l].obj = n /\ lbs'[l].uid = lbs[l].uid
      /\ \A x \in LBs \ {l} : lbs'[x] = lbs[x]
  BY <1>3 DEF GuestTypeOK
<1>5. lbs' \in [LBs -> [uid : Nat, obj : LoadBalancer \cup {None}]]
  <2>1. lbs \in [LBs -> [uid : Nat, obj : LoadBalancer \cup {None}]] BY DEF GuestTypeOK
  <2>2. n \in LoadBalancer \cup {None} BY <1>2
  <2> QED BY <1>3, <2>1, <2>2
<1>6. Evolves /\ ~Live(l)'
  BY <1>2, <1>4 DEF Evolves, Changes, There, Live, Stored
<1> QED BY <1>5, <1>6

\* Nor does an object that goes create anything,
LEMMA GoneEvolves ==
    ASSUME GuestTypeOK, Stored, NEW l \in LBs, lbs' = [lbs EXCEPT ![l].obj = None]
    PROVE  /\ Evolves /\ ~There(l)'
           /\ lbs' \in [LBs -> [uid : Nat, obj : LoadBalancer \cup {None}]]
<1>1. /\ lbs'[l].obj = None /\ lbs'[l].uid = lbs[l].uid
      /\ \A x \in LBs \ {l} : lbs'[x] = lbs[x]
  BY DEF GuestTypeOK
<1>2. lbs' \in [LBs -> [uid : Nat, obj : LoadBalancer \cup {None}]]
  BY DEF GuestTypeOK
<1>3. Evolves /\ ~There(l)' BY <1>1 DEF Evolves, Changes, There, Live, Stored
<1> QED BY <1>2, <1>3

\* or a step that leaves all objects alone.
LEMMA UnchangedEvolves ==
    ASSUME Stored, UNCHANGED lbs
    PROVE  Evolves
  BY DEF Evolves, Changes, There, Live, Stored

\* What follows of the invariant.
LEMMA EvolvesKnown ==
    ASSUME Changes, NEW l \in LBs, NEW uid, KnownAs(l, uid)
    PROVE  KnownAs(l, uid)'
  BY DEF Changes, KnownAs

\* So no cluster gets a load balancer by such a step.
LEMMA EvolvesServes ==
    ASSUME Evolves, NEW l \in LBs, NEW c, Serves(l, c)'
    PROVE  Serves(l, c)
  BY DEF Evolves, Changes, Serves, Live

-----------------------------------------------------------------------------
(* Rancher, and the machines *)

VMStates == [VMs -> [state : {"live", "deleting", "gone"}, onRemove : BOOLEAN]]

\* Marks stay, and only the vm controller lets a machine go.
LEMMA MachineStep ==
    ASSUME GuestInv, UNCHANGED <<lbs, lbCache, create, raced, pass>>,
           vms' \in VMStates, vmCache' \in VMStates, vmis' \subseteq VMs,
           removing' \subseteq Removable, events' \in Nat,
           \A v \in VMs : /\ vms[v].onRemove => vms'[v].onRemove
                          /\ vms[v].state # "live" => vms'[v].state = vms[v].state
                          /\ vms'[v].state = "gone" => vms[v].state = "gone",
           Marked', \A c \in removing' \ removing : ~GoneAll(c)
    PROVE  GuestInv'
<1>1. GuestTypeOK' BY DEF GuestInv, GuestTypeOK, VMStates
<1>2. Stored' /\ Sighted' /\ Requests'
  BY DEF GuestInv, Stored, Sighted, Requests, KnownAs, There, Live
<1>3. Cleaning'
  BY DEF GuestInv, Cleaning, SeesAll, Serves, Live, There
<1>4. \A c \in removing' : GoneAll(c)' => GoneAll(c) /\ c \in removing
  BY DEF GoneAll, Of
<1>5. NoOrphans'
  BY <1>4 DEF GuestInv, NoOrphans, Live, There
<1> QED BY <1>1, <1>2, <1>3, <1>5 DEF GuestInv

\* Marked stays true while no live machine is deleted and no removal begins.
LEMMA MarkedStays ==
    ASSUME GuestInv, removing' = removing,
           \A v \in VMs : /\ vms[v].onRemove => vms'[v].onRemove
                          /\ vms[v].state = "gone" => vms'[v].state = "gone",
           \A c \in removing : \A v \in Of(c) :
               vms[v].state = "live" => vms'[v].state = "live" \/ MarkedAll(c)
    PROVE  Marked'
  BY DEF GuestInv, Marked, MarkedAll, Of

\* The events that are left stay a number.
LEMMA EventType ==
    ASSUME GuestTypeOK, Event
    PROVE  events' \in Nat
  BY DEF GuestTypeOK, Event

\* A removal begins while a machine is live.
LEMMA StartRemovalInv ==
    ASSUME GuestInv, NEW c \in Removable, StartRemoval(c)
    PROVE  GuestInv'
<1>1. PICK v \in Of(c) : vms[v].state = "live" BY DEF StartRemoval
<1>2. ~GoneAll(c) BY <1>1 DEF GoneAll
<1>3. Marked' BY <1>1 DEF StartRemoval, GuestInv, Marked, MarkedAll
<1>4. events' \in Nat BY EventType DEF StartRemoval, GuestInv
<1> QED BY <1>2, <1>3, <1>4, MachineStep DEF StartRemoval, GuestInv, GuestTypeOK, VMStates

\* A mark is added, and never taken away.
LEMMA AnnotateVMInv ==
    ASSUME GuestInv, NEW v \in VMs, AnnotateVM(v)
    PROVE  GuestInv'
<1>0. vms \in VMStates BY DEF GuestInv, GuestTypeOK, VMStates
<1>1. vms' = [vms EXCEPT ![v].onRemove = TRUE] BY DEF AnnotateVM
<1>2. vms' \in VMStates BY <1>0, <1>1 DEF VMStates
<1>3. \A x \in VMs : /\ vms[x].onRemove => vms'[x].onRemove
                     /\ vms'[x].state = vms[x].state
  BY <1>0, <1>1 DEF VMStates
<1>4. Marked' BY <1>3, MarkedStays DEF AnnotateVM, Of
<1> QED BY <1>2, <1>3, <1>4, MachineStep DEF AnnotateVM, GuestInv, GuestTypeOK, VMStates

\* One machine is deleted.
LEMMA DeleteStep ==
    ASSUME GuestInv, NEW v \in VMs, vms[v].state = "live",
           vms' = [vms EXCEPT ![v].state = "deleting"]
    PROVE  /\ vms' \in VMStates
           /\ \A x \in VMs : /\ vms[x].onRemove => vms'[x].onRemove
                             /\ vms[x].state # "live" => vms'[x].state = vms[x].state
                             /\ vms'[x].state = "gone" => vms[x].state = "gone"
                             /\ x # v => vms'[x] = vms[x]
<1>0. vms \in VMStates BY DEF GuestInv, GuestTypeOK, VMStates
<1>1. vms' \in VMStates BY <1>0 DEF VMStates
<1>2. \A x \in VMs : x # v => vms'[x] = vms[x] BY <1>0 DEF VMStates
<1>3. vms'[v].onRemove = vms[v].onRemove /\ vms'[v].state = "deleting"
  BY <1>0 DEF VMStates
<1> QED BY <1>1, <1>2, <1>3

\* Rancher deletes a machine when all are marked.
LEMMA DeleteMarkedInv ==
    ASSUME GuestInv, NEW v \in VMs, DeleteMarked(v)
    PROVE  GuestInv'
<1>1. /\ vms' \in VMStates
      /\ \A x \in VMs : /\ vms[x].onRemove => vms'[x].onRemove
                        /\ vms[x].state # "live" => vms'[x].state = vms[x].state
                        /\ vms'[x].state = "gone" => vms[x].state = "gone"
                        /\ x # v => vms'[x] = vms[x]
  BY DeleteStep DEF DeleteMarked
<1>2. MarkedAll(Machine[v].cluster) BY DEF DeleteMarked, MarkedAll
<1>3. Marked'
  BY <1>1, <1>2, MarkedStays DEF DeleteMarked, Of
<1> QED BY <1>1, <1>3, MachineStep DEF DeleteMarked, GuestInv, GuestTypeOK, VMStates

\* A user may delete any other.
LEMMA DeleteVMInv ==
    ASSUME GuestInv, NEW v \in VMs, DeleteVM(v)
    PROVE  GuestInv'
<1>1. /\ vms' \in VMStates
      /\ \A x \in VMs : /\ vms[x].onRemove => vms'[x].onRemove
                        /\ vms[x].state # "live" => vms'[x].state = vms[x].state
                        /\ vms'[x].state = "gone" => vms[x].state = "gone"
                        /\ x # v => vms'[x] = vms[x]
  BY DeleteStep DEF DeleteVM
<1>2. Marked'
  BY <1>1, MarkedStays DEF DeleteVM, Of
<1>3. events' \in Nat BY EventType DEF DeleteVM, GuestInv
<1> QED BY <1>1, <1>2, <1>3, MachineStep DEF DeleteVM, GuestInv, GuestTypeOK, VMStates

\* Instances matter to the network only.
LEMMA InstanceInv ==
    ASSUME GuestInv, NEW v \in VMs, Instance(v)
    PROVE  GuestInv'
<1>1. Marked' BY DEF Instance, GuestInv, Marked, MarkedAll
<1>2. events' \in Nat BY EventType DEF Instance, GuestInv
<1>3. vmis' \subseteq VMs BY DEF Instance, GuestInv, GuestTypeOK
<1> QED BY <1>1, <1>2, <1>3, MachineStep DEF Instance, GuestInv, GuestTypeOK, VMStates

\* The cache of the webhook catches up.
LEMMA SyncVMsInv ==
    ASSUME GuestInv, SyncVMs
    PROVE  GuestInv'
<1>1. Marked' BY DEF SyncVMs, GuestInv, Marked, MarkedAll
<1> QED BY <1>1, MachineStep DEF SyncVMs, GuestInv, GuestTypeOK, VMStates

-----------------------------------------------------------------------------
(* The vm controller *)

PassType == [pc : {"idle", "clean"}, todo : SUBSET [name : LBs, uid : Nat],
             failed : BOOLEAN, last : {"ok", "error"}, saw : BOOLEAN]

\* No pass is a pass with nothing to do.
LEMMA IdleIsPass == IdlePass \in PassType /\ IdlePass.pc = "idle" /\ IdlePass.todo = {}
  BY DEF IdlePass, PassType

\* What the cache lists for a label is what there is, or raced.
LEMMA StartPassInv ==
    ASSUME GuestInv, NEW v \in VMs, StartPass(v)
    PROVE  GuestInv'
<1> DEFINE todo == IF Cleans(v) THEN {[name |-> l, uid |-> lbCache[l].uid] : l \in ToDelete(v)}
                   ELSE {}
           p == [pc |-> "clean", todo |-> todo, failed |-> FALSE, last |-> "ok",
                 saw |-> vms[v].onRemove]
<1>0. /\ pass \in [VMs -> PassType] /\ vms \in VMStates
      /\ lbCache \in [LBs -> Listing \cup {None}]
  BY DEF GuestInv, GuestTypeOK, PassType, VMStates
<1>1. /\ vms[v].state = "deleting" /\ pass' = [pass EXCEPT ![v] = p]
      /\ raced' = raced \cup {l \in LBs : Cleans(v) /\ There(l) /\ lbCache[l] # Listed(lbs[l])}
      /\ UNCHANGED <<vms, vmCache, vmis, lbs, lbCache, create, removing, events>>
  BY DEF StartPass
<1>2. \A l \in ToDelete(v) : lbCache[l] \in Listing /\ l \in LBs
  BY <1>0 DEF ToDelete
<1>3. todo \in SUBSET [name : LBs, uid : Nat]
  BY <1>2 DEF Listing
<1>4. \A e \in todo : KnownAs(e.name, e.uid)
  BY DEF ToDelete, GuestInv, Sighted
<1>5. Cleans(v) => \A l \in ToDelete(v) : \E e \in todo : e.name = l
  <2> SUFFICES ASSUME Cleans(v), NEW l \in ToDelete(v) PROVE \E e \in todo : e.name = l
    OBVIOUS
  <2> DEFINE e == [name |-> l, uid |-> lbCache[l].uid]
  <2>1. e \in todo OBVIOUS
  <2>2. e.name = l OBVIOUS
  <2> HIDE DEF e, todo
  <2> QED BY <2>1, <2>2
<1> HIDE DEF todo
<1>6. p \in PassType BY <1>0, <1>3 DEF PassType, VMStates
<1>7. p.pc = "clean" /\ p.todo = todo /\ p.saw = vms[v].onRemove OBVIOUS
<1> HIDE DEF p
<1>8. pass'[v] = p /\ \A x \in VMs \ {v} : pass'[x] = pass[x] BY <1>0, <1>1
<1>9. GuestTypeOK'
  <2>1. pass' \in [VMs -> PassType] BY <1>0, <1>1, <1>6
  <2>2. \A x \in VMs : pass'[x] # IdlePass => vms[x].state = "deleting"
    BY <1>1, <1>8 DEF GuestInv, GuestTypeOK
  <2> QED BY <1>1, <2>1, <2>2 DEF GuestInv, GuestTypeOK, PassType
<1>10. Stored' /\ Requests' /\ Marked'
  BY <1>1 DEF GuestInv, Stored, Requests, Marked, MarkedAll, Live, There
<1>11. Sighted'
  BY <1>1, <1>4, <1>7, <1>8 DEF GuestInv, Sighted, KnownAs, There
<1>12. Cleaning'
  <2>1. ASSUME NEW x \in VMs, x # v, pass'[x].pc = "clean", pass'[x].saw
        PROVE  /\ vms'[x].onRemove
               /\ Machine[x].creator /\ Machine[x].cluster \in Removable => SeesAll(x)'
    BY <1>1, <1>8, <2>1 DEF GuestInv, Cleaning, SeesAll, Serves, Live, There
  <2>2. ASSUME p.saw, Machine[v].creator, Machine[v].cluster \in Removable,
               NEW l \in LBs, Serves(l, Machine[v].cluster)
        PROVE  l \in raced' \/ \E e \in todo : e.name = l
    <3>1. Cleans(v) BY <1>7, <2>2, GuestAssumption DEF Cleans
    <3>2. CASE lbCache[l] # Listed(lbs[l])
      BY <1>1, <2>2, <3>1, <3>2 DEF Serves, Live
    <3>3. CASE lbCache[l] = Listed(lbs[l])
      <4>1. lbs[l].obj \in LoadBalancer /\ lbs[l].uid \in Nat /\ ~lbs[l].obj.deleting
        BY <2>2, LBFields DEF GuestInv, Serves, Live
      <4>2. /\ lbCache[l] = [uid |-> lbs[l].uid, type |-> lbs[l].obj.type,
                             label |-> lbs[l].obj.label, deleting |-> lbs[l].obj.deleting]
        BY <2>2, <3>3 DEF Listed, Serves, Live, There
      <4>3. lbCache[l] \in Listing BY <4>1, <4>2 DEF Listing, LoadBalancer
      <4>4. lbCache[l] # None BY <4>3, GuestAssumption
      <4>5. /\ lbCache[l].type = "cluster" /\ lbCache[l].label = Machine[v].cluster
            /\ ~lbCache[l].deleting
        BY <2>2, <4>1, <4>2 DEF Serves
      <4> QED BY <1>5, <3>1, <4>4, <4>5 DEF ToDelete
    <3> QED BY <3>2, <3>3
  <2>3. p.saw /\ Machine[v].creator /\ Machine[v].cluster \in Removable => SeesAll(v)'
    BY <1>1, <1>7, <1>8, <2>2 DEF SeesAll, Serves, Live, There
  <2>4. p.saw => vms'[v].onRemove BY <1>1, <1>7
  <2> QED BY <1>8, <2>1, <2>3, <2>4 DEF Cleaning
<1>13. NoOrphans'
  BY <1>1 DEF GuestInv, NoOrphans, GoneAll, Live, There
<1> QED BY <1>9, <1>10, <1>11, <1>12, <1>13 DEF GuestInv

\* The loop takes a load balancer from its list when it is deleted, or gone, or
\* the Delete fails.
LEMMA DeleteNextInv ==
    ASSUME GuestInv, NEW v \in VMs, DeleteNext(v)
    PROVE  GuestInv'
<1>0. /\ pass \in [VMs -> PassType] /\ GuestTypeOK /\ Stored
      /\ lbs \in [LBs -> [uid : Nat, obj : LoadBalancer \cup {None}]]
  BY DEF GuestInv, GuestTypeOK, PassType
<1>1. PICK e \in pass[v].todo, failed \in BOOLEAN, last \in {"ok", "error"} :
        /\ pass' = [pass EXCEPT ![v].todo = @ \ {e}, ![v].failed = failed, ![v].last = last]
        /\ pass[v].failed => failed
        /\ \/ There(e.name) /\ lbs' = [lbs EXCEPT ![e.name].obj.deleting = TRUE]
           \/ ~There(e.name) /\ UNCHANGED lbs
           \/ failed /\ UNCHANGED lbs
        /\ UNCHANGED events \/ Event
  <2>1. PICK e \in pass[v].todo :
          LET after(failed, last) ==
                 pass' = [pass EXCEPT ![v].todo = @ \ {e}, ![v].failed = failed,
                                      ![v].last = last]
          IN  \/ /\ There(e.name)
                 /\ lbs' = [lbs EXCEPT ![e.name].obj.deleting = TRUE]
                 /\ after(pass[v].failed, "ok")
                 /\ UNCHANGED events
              \/ /\ ~There(e.name)
                 /\ after(pass[v].failed, "error")
                 /\ UNCHANGED <<lbs, events>>
              \/ /\ Event
                 /\ after(TRUE, "error")
                 /\ UNCHANGED lbs
    BY DEF DeleteNext
  <2>2. pass[v].failed \in BOOLEAN BY <1>0 DEF PassType
  <2> QED BY <2>1, <2>2
<1>2. UNCHANGED <<vms, vmCache, vmis, lbCache, create, removing, raced>> /\ pass[v].pc = "clean"
  BY DEF DeleteNext
<1>3. e.name \in LBs BY <1>0, <1>1 DEF PassType
<1>4. /\ Evolves /\ lbs' \in [LBs -> [uid : Nat, obj : LoadBalancer \cup {None}]]
      /\ failed \/ ~Live(e.name)'
  BY <1>0, <1>1, <1>3, DeleteEvolves, UnchangedEvolves DEF Live, There
<1>5. events' \in Nat BY <1>0, <1>1, EventType DEF GuestTypeOK
<1>6. /\ pass' \in [VMs -> PassType]
      /\ pass'[v].pc = "clean" /\ pass'[v].saw = pass[v].saw
      /\ pass'[v].todo = pass[v].todo \ {e} /\ pass'[v].failed = failed
      /\ \A x \in VMs \ {v} : pass'[x] = pass[x]
  <2> DEFINE q == [pass[v] EXCEPT !.todo = @ \ {e}, !.failed = failed, !.last = last]
  <2>1. pass[v] \in PassType BY <1>0
  <2>2. /\ q \in PassType /\ q.pc = pass[v].pc /\ q.saw = pass[v].saw
        /\ q.todo = pass[v].todo \ {e} /\ q.failed = failed
    BY <2>1 DEF PassType
  <2>3. pass' = [pass EXCEPT ![v] = q] BY <1>1
  <2> HIDE DEF q
  <2> QED BY <1>0, <1>2, <2>2, <2>3
<1>7. pass[v] # IdlePass BY <1>2, IdleIsPass
<1>8. GuestTypeOK'
  <2>1. \A x \in VMs : pass'[x] # IdlePass => vms[x].state = "deleting"
    BY <1>0, <1>6, <1>7 DEF GuestTypeOK
  <2> QED BY <1>0, <1>2, <1>4, <1>5, <1>6, <2>1 DEF GuestTypeOK, PassType
<1>9. Stored' /\ Requests' /\ Marked'
  BY <1>2, <1>4 DEF GuestInv, Stored, Requests, Marked, MarkedAll, Evolves, Changes
<1>10. Sighted'
  <2>1. ASSUME NEW l \in LBs, lbCache[l] # None, lbCache[l].type = "cluster"
        PROVE  KnownAs(l, lbCache[l].uid)'
    <3>1. KnownAs(l, lbCache[l].uid) BY <2>1 DEF GuestInv, Sighted
    <3> QED BY <1>2, <1>4, <3>1 DEF KnownAs, Evolves, Changes
  <2>2. \A x \in VMs : \A d \in pass'[x].todo : d \in pass[x].todo /\ d.name \in LBs
    BY <1>0, <1>6 DEF PassType
  <2>3. \A x \in VMs : \A d \in pass'[x].todo : KnownAs(d.name, d.uid)'
    BY <1>4, <2>2, EvolvesKnown DEF GuestInv, Sighted, Evolves
  <2> QED BY <1>2, <2>1, <2>3 DEF Sighted
<1>11. Cleaning'
  <2>1. \A l \in LBs : \A c : Serves(l, c)' => Serves(l, c) /\ Live(l)'
    BY <1>4, EvolvesServes DEF Serves
  <2>2. ASSUME NEW x \in VMs, x # v, SeesAll(x) PROVE SeesAll(x)'
    BY <1>2, <1>6, <2>1, <2>2 DEF SeesAll
  <2>3. ASSUME SeesAll(v) PROVE SeesAll(v)'
    <3> SUFFICES ASSUME NEW l \in LBs, Serves(l, Machine[v].cluster)', ~failed
                 PROVE  l \in raced \/ \E d \in pass[v].todo \ {e} : d.name = l
      BY <1>2, <1>6 DEF SeesAll
    <3>1. Serves(l, Machine[v].cluster) /\ Live(l)' BY <2>1
    <3>2. l # e.name BY <1>4, <3>1
    <3>3. l \in raced \/ \E d \in pass[v].todo : d.name = l
      BY <1>1, <2>3, <3>1 DEF SeesAll
    <3> QED BY <3>2, <3>3
  <2> QED BY <1>2, <1>6, <2>2, <2>3 DEF GuestInv, Cleaning
<1>12. NoOrphans'
  BY <1>2, <1>4, EvolvesServes DEF GuestInv, NoOrphans, GoneAll, Serves
<1> QED BY <1>8, <1>9, <1>10, <1>11, <1>12 DEF GuestInv

\* All passes, or one, are over.
LEMMA OverInv ==
    ASSUME GuestInv, UNCHANGED <<vms, vmCache, vmis, lbs, lbCache, create, removing, raced>>,
           events' \in Nat, pass' \in [VMs -> PassType],
           \A x \in VMs : pass'[x] = IdlePass \/ pass'[x] = pass[x]
    PROVE  GuestInv'
<1>1. GuestTypeOK' BY DEF GuestInv, GuestTypeOK, PassType
<1>2. Stored' /\ Requests' /\ Marked' /\ NoOrphans'
  BY DEF GuestInv, Stored, Requests, Marked, MarkedAll, NoOrphans, GoneAll, Live, There
<1>3. Sighted' BY IdleIsPass DEF GuestInv, Sighted, KnownAs, There
<1>4. Cleaning'
  <2>1. ASSUME NEW x \in VMs, pass'[x] = pass[x], SeesAll(x) PROVE SeesAll(x)'
    BY <2>1 DEF SeesAll, Serves, Live, There
  <2> QED BY <2>1, IdleIsPass DEF GuestInv, Cleaning
<1> QED BY <1>1, <1>2, <1>3, <1>4 DEF GuestInv

\* A crash loses the passes, and the machines keep their finalizers.
LEMMA CrashInv ==
    ASSUME GuestInv, Crash
    PROVE  GuestInv'
<1>1. pass' \in [VMs -> PassType] /\ \A x \in VMs : pass'[x] = IdlePass
  BY IdleIsPass DEF Crash, Restart
<1>2. events' \in Nat BY EventType DEF Crash, GuestInv
<1> QED BY <1>1, <1>2, OverInv DEF Crash

\* A machine goes when nothing of its list is left and nothing failed.  If it is
\* the last of its cluster it is marked, and so its pass saw all there was.
LEMMA EndPassInv ==
    ASSUME GuestInv, NEW v \in VMs, EndPass(v)
    PROVE  GuestInv'
<1>0. pass \in [VMs -> PassType] /\ vms \in VMStates
  BY DEF GuestInv, GuestTypeOK, PassType, VMStates
<1>1. /\ pass[v].pc = "clean" /\ pass[v].todo = {}
      /\ vms' = [vms EXCEPT ![v].state =
                  IF ~pass[v].failed /\ pass[v].saw = vms[v].onRemove THEN "gone" ELSE @]
      /\ UNCHANGED <<vmCache, vmis, lbs, lbCache, create, removing, raced, events>>
  BY DEF EndPass
<1>2. /\ pass' \in [VMs -> PassType] /\ pass'[v] = IdlePass
      /\ \A x \in VMs : pass'[x] = IdlePass \/ pass'[x] = pass[x]
  <2>1. CASE Restart BY <2>1, IdleIsPass DEF Restart
  <2>2. CASE pass' = [pass EXCEPT ![v] = IdlePass] BY <1>0, <2>2, IdleIsPass
  <2> QED BY <2>1, <2>2 DEF EndPass
<1>3. events' \in Nat BY <1>1 DEF GuestInv, GuestTypeOK
<1>4. CASE ~(~pass[v].failed /\ pass[v].saw = vms[v].onRemove)
  <2>1. UNCHANGED vms BY <1>0, <1>1, <1>4 DEF VMStates
  <2> QED BY <1>1, <1>2, <1>3, <2>1, OverInv
<1>5. CASE ~pass[v].failed /\ pass[v].saw = vms[v].onRemove
  <2>1. /\ vms' \in VMStates /\ vms'[v].state = "gone"
        /\ vms'[v].onRemove = vms[v].onRemove
        /\ \A x \in VMs \ {v} : vms'[x] = vms[x]
    BY <1>0, <1>1, <1>5 DEF VMStates
  <2>2. pass[v] # IdlePass BY <1>1, IdleIsPass
  <2>3. vms[v].state = "deleting" BY <2>2 DEF GuestInv, GuestTypeOK
  <2>4. GuestTypeOK'
    <3>1. \A x \in VMs : pass'[x] # IdlePass => vms'[x].state = "deleting"
      BY SMTT(30), <1>2, <2>1 DEF GuestInv, GuestTypeOK
    <3> QED BY <1>1, <1>2, <1>3, <2>1, <3>1 DEF GuestInv, GuestTypeOK, PassType, VMStates
  <2>5. Stored' /\ Requests'
    BY <1>1 DEF GuestInv, Stored, Requests, Live, There
  <2>6. Sighted' BY <1>1, <1>2, IdleIsPass DEF GuestInv, Sighted, KnownAs, There
  <2>7. Marked'
    <3>1. \A x \in VMs : /\ vms[x].onRemove => vms'[x].onRemove
                         /\ vms[x].state = "gone" => vms'[x].state = "gone"
                         /\ vms[x].state = "live" => vms'[x].state = "live"
      BY <2>1, <2>3
    <3> QED BY <1>1, <3>1, MarkedStays DEF Of
  <2>8. Cleaning'
    <3>1. ASSUME NEW x \in VMs, pass'[x] = pass[x], SeesAll(x) PROVE SeesAll(x)'
      BY <1>1, <3>1 DEF SeesAll, Serves, Live, There
    <3>2. \A x \in VMs : vms[x].onRemove => vms'[x].onRemove BY <2>1
    <3> QED BY <1>2, <3>1, <3>2, IdleIsPass DEF GuestInv, Cleaning
  <2>9. NoOrphans'
    <3> SUFFICES ASSUME NEW c \in removing, GoneAll(c)', NEW l \in LBs, Serves(l, c)
                 PROVE  l \in raced
      BY <1>1 DEF NoOrphans, Serves, Live, There
    <3>1. CASE GoneAll(c)
      BY <3>1 DEF GuestInv, NoOrphans, Serves
    <3>2. CASE ~GoneAll(c)
      <4>1. v \in Of(c) /\ \A x \in Of(c) : x # v => vms[x].state = "gone"
        BY <2>1, <3>2 DEF GoneAll, Of
      <4>2. MarkedAll(c)
        <5>1. ~\E x \in Of(c) : vms[x].state = "live" BY <2>3, <4>1
        <5> QED BY <5>1 DEF GuestInv, Marked
      <4>3. vms[v].onRemove BY <2>3, <4>1, <4>2 DEF MarkedAll
      <4>4. pass[v].saw BY <1>5, <4>3
      <4>5. Machine[v].creator /\ Machine[v].cluster = c /\ c \in Removable
        BY <4>1 DEF Of, GuestInv, GuestTypeOK
      <4>6. SeesAll(v) BY <1>1, <4>4, <4>5 DEF GuestInv, Cleaning
      <4> QED BY <1>1, <1>5, <4>5, <4>6 DEF SeesAll
    <3> QED BY <3>1, <3>2
  <2> QED BY <2>4, <2>5, <2>6, <2>7, <2>8, <2>9 DEF GuestInv
<1> QED BY <1>4, <1>5

\* The cache of the vm controller catches up.
LEMMA SyncLBsInv ==
    ASSUME GuestInv, SyncLBs
    PROVE  GuestInv'
<1>0. UNCHANGED <<vms, vmCache, vmis, lbs, create, pass, removing, raced, events>>
  BY DEF SyncLBs
<1>1. \A l \in LBs : /\ There(l) => lbCache'[l] = [uid |-> lbs[l].uid, type |-> lbs[l].obj.type,
                                                  label |-> lbs[l].obj.label,
                                                  deleting |-> lbs[l].obj.deleting]
                     /\ ~There(l) => lbCache'[l] = None
  BY DEF SyncLBs, Listed, There
<1>2. ASSUME NEW l \in LBs, There(l) PROVE lbCache'[l] \in Listing
  <2>1. lbs[l].obj \in LoadBalancer /\ lbs[l].uid \in Nat BY <1>2, LBFields DEF GuestInv
  <2>2. /\ lbs[l].obj.type \in Text /\ lbs[l].obj.label \in Text \cup {None}
        /\ lbs[l].obj.deleting \in BOOLEAN
    BY <2>1 DEF LoadBalancer
  <2>3. lbCache'[l] = [uid |-> lbs[l].uid, type |-> lbs[l].obj.type,
                       label |-> lbs[l].obj.label, deleting |-> lbs[l].obj.deleting]
    BY <1>1, <1>2
  <2> QED BY <2>1, <2>2, <2>3 DEF Listing
<1>3. lbCache' \in [LBs -> Listing \cup {None}]
  BY <1>1, <1>2 DEF SyncLBs
<1>4. GuestTypeOK' BY <1>0, <1>3 DEF GuestInv, GuestTypeOK
<1>5. Stored' /\ Requests' /\ Marked' /\ NoOrphans'
  BY <1>0 DEF GuestInv, Stored, Requests, Marked, MarkedAll, NoOrphans, GoneAll, Live, There
<1>6. Sighted'
  <2>1. ASSUME NEW l \in LBs, lbCache'[l] # None, lbCache'[l].type = "cluster"
        PROVE  KnownAs(l, lbCache'[l].uid)
    <3>1. There(l) /\ lbs[l].uid \in Nat BY <1>1, <2>1, LBFields DEF GuestInv
    <3>2. lbCache'[l] = [uid |-> lbs[l].uid, type |-> lbs[l].obj.type,
                         label |-> lbs[l].obj.label, deleting |-> lbs[l].obj.deleting]
      BY <1>1, <3>1
    <3> QED BY <2>1, <3>1, <3>2 DEF KnownAs
  <2> QED BY <1>0, <2>1 DEF GuestInv, Sighted, KnownAs, There
<1>7. Cleaning' BY <1>0 DEF GuestInv, Cleaning, SeesAll, Serves, Live, There
<1> QED BY <1>4, <1>5, <1>6, <1>7 DEF GuestInv

-----------------------------------------------------------------------------
(* Load balancers come, change and go *)

\* As long as nothing is created, most of the invariant stays true.
LEMMA ChangesInv ==
    ASSUME GuestInv, Changes, lbs' \in [LBs -> [uid : Nat, obj : LoadBalancer \cup {None}]],
           UNCHANGED <<vms, vmCache, vmis, lbCache, create, pass, removing>>,
           raced' \subseteq LBs, events' \in Nat
    PROVE  GuestTypeOK' /\ Stored' /\ Sighted' /\ Requests' /\ Marked'
<1>1. GuestTypeOK' BY DEF GuestInv, GuestTypeOK
<1>2. Stored' /\ Requests' /\ Marked'
  BY DEF GuestInv, Stored, Requests, Marked, MarkedAll, Changes
<1>3. Sighted'
  <2>1. ASSUME NEW l \in LBs, lbCache[l] # None, lbCache[l].type = "cluster"
        PROVE  KnownAs(l, lbCache[l].uid)'
    <3>1. KnownAs(l, lbCache[l].uid) BY <2>1 DEF GuestInv, Sighted
    <3> QED BY <3>1 DEF KnownAs, Changes
  <2>2. ASSUME NEW x \in VMs, NEW d \in pass[x].todo PROVE KnownAs(d.name, d.uid)'
    <3>1. d.name \in LBs BY DEF GuestInv, GuestTypeOK
    <3>2. KnownAs(d.name, d.uid) BY DEF GuestInv, Sighted
    <3> QED BY <3>1, <3>2, EvolvesKnown
  <2> QED BY <2>1, <2>2 DEF Sighted
<1> QED BY <1>1, <1>2, <1>3

\* Nothing is created, and what is no longer raced is gone.
LEMMA EvolvesInv ==
    ASSUME GuestInv, Evolves, lbs' \in [LBs -> [uid : Nat, obj : LoadBalancer \cup {None}]],
           UNCHANGED <<vms, vmCache, vmis, lbCache, create, pass, removing>>,
           raced' \subseteq raced, \A l \in raced \ raced' : ~There(l)', events' \in Nat
    PROVE  GuestInv'
<1>1. GuestTypeOK' /\ Stored' /\ Sighted' /\ Requests' /\ Marked'
  BY ChangesInv DEF GuestInv, GuestTypeOK, Evolves
<1>2. \A l \in LBs : \A c : Serves(l, c)' => Serves(l, c) /\ There(l)'
  BY EvolvesServes DEF Serves, Live
<1>3. Cleaning'
  <2>1. ASSUME NEW x \in VMs, SeesAll(x) PROVE SeesAll(x)'
    BY <1>2, <2>1 DEF SeesAll
  <2> QED BY <2>1 DEF GuestInv, Cleaning
<1>4. NoOrphans'
  BY <1>2 DEF GuestInv, NoOrphans, GoneAll, Serves
<1> QED BY <1>1, <1>3, <1>4 DEF GuestInv

\* What every Update has in common.
LEMMA UpdateInv ==
    ASSUME GuestInv, NEW l \in LBs,
           EditLB(l) \/ EditNetwork(l) \/ EditV1alpha1(l) \/ WriteStatus(l)
    PROVE  GuestInv'
<1>1. /\ Live(l)
      /\ \E n \in LoadBalancer : /\ Becomes(l, n) /\ KindKept(lbs[l].obj, n)
                                 /\ n.label = lbs[l].obj.label
  BY EditLBKeeps, EditNetworkKeeps, EditV1alpha1Keeps, WriteStatusKeeps DEF GuestInv
<1>2. Evolves /\ lbs' \in [LBs -> [uid : Nat, obj : LoadBalancer \cup {None}]]
  BY <1>1, UpdateEvolves DEF GuestInv
<1>3. /\ UNCHANGED <<vms, vmCache, vmis, lbCache, create, pass, removing, raced>>
      /\ Event \/ UNCHANGED events
  BY DEF EditLB, EditNetwork, EditV1alpha1, WriteStatus
<1>4. events' \in Nat BY <1>3, EventType DEF GuestInv, GuestTypeOK
<1> QED BY <1>2, <1>3, <1>4, EvolvesInv

\* A load balancer that gets the label of a cluster is raced if a machine of it
\* is marked by then, or none is left.
LEMMA EditLabelInv ==
    ASSUME GuestInv, NEW l \in LBs, EditLabel(l)
    PROVE  GuestInv'
<1>1. /\ Live(l) /\ Event
      /\ UNCHANGED <<vms, vmCache, vmis, lbCache, create, pass, removing>>
  BY DEF EditLabel
<1>2. PICK c \in Clusters \cup {None} :
        /\ Update(l, [lbs[l].obj EXCEPT !.label = c])
        /\ raced' = IF c \in Removable /\ Late(c) THEN raced \cup {l} ELSE raced
  BY DEF EditLabel
<1>3. PICK n \in LoadBalancer : /\ Becomes(l, n) /\ KindKept(lbs[l].obj, n)
                                /\ n.label = c
  BY <1>1, <1>2, EditLabelKeeps DEF GuestInv
<1>4. Changes /\ lbs' \in [LBs -> [uid : Nat, obj : LoadBalancer \cup {None}]]
  BY <1>1, <1>3, UpdateEvolves DEF GuestInv
<1>5. raced' \subseteq LBs /\ raced \subseteq raced' BY <1>2 DEF GuestInv, GuestTypeOK
<1>6. events' \in Nat BY <1>1, EventType DEF GuestInv
<1>7. GuestTypeOK' /\ Stored' /\ Sighted' /\ Requests' /\ Marked'
  BY <1>1, <1>4, <1>5, <1>6, ChangesInv
<1>8. \A x \in LBs \ {l} : \A k : Serves(x, k)' => Serves(x, k)
  BY <1>3 DEF Becomes, GuestInv, GuestTypeOK, Serves, Live, There
<1>9. lbs'[l].obj.label = c BY <1>3 DEF Becomes, GuestInv, GuestTypeOK
<1>10. ASSUME NEW k \in Removable, Serves(l, k)', l \notin raced'
       PROVE  ~Annotated(k) /\ ~GoneAll(k)
  BY <1>2, <1>9, <1>10 DEF Serves, Late
<1>11. Cleaning'
  <2> SUFFICES ASSUME NEW v \in VMs, pass[v].pc = "clean", pass[v].saw,
                      Machine[v].creator, Machine[v].cluster \in Removable,
                      NEW x \in LBs, Serves(x, Machine[v].cluster)', x \notin raced',
                      ~pass[v].failed
               PROVE  \E e \in pass[v].todo : e.name = x
    BY <1>1 DEF GuestInv, Cleaning, SeesAll
  <2>1. vms[v].onRemove /\ SeesAll(v) BY DEF GuestInv, Cleaning
  <2>2. CASE x # l BY <1>5, <1>8, <2>1, <2>2 DEF SeesAll
  <2>3. CASE x = l
    <3>1. pass[v] # IdlePass BY IdleIsPass
    <3>2. vms[v].state = "deleting" BY <3>1 DEF GuestInv, GuestTypeOK
    <3>3. Annotated(Machine[v].cluster) BY <2>1, <3>2 DEF Annotated, Of
    <3> QED BY <1>10, <2>3, <3>3
  <2> QED BY <2>2, <2>3
<1>12. NoOrphans'
  <2> SUFFICES ASSUME NEW k \in removing, GoneAll(k), NEW x \in LBs, Serves(x, k)'
               PROVE  x \in raced'
    BY <1>1 DEF NoOrphans, GoneAll, Serves
  <2>1. k \in Removable BY DEF GuestInv, GuestTypeOK
  <2>2. CASE x # l BY <1>5, <1>8, <2>2 DEF GuestInv, NoOrphans, Serves
  <2>3. CASE x = l BY <1>10, <2>1, <2>3
  <2> QED BY <2>2, <2>3
<1> QED BY <1>7, <1>11, <1>12 DEF GuestInv

\* A deletion leaves a cluster with fewer load balancers.
LEMMA DeleteLBInv ==
    ASSUME GuestInv, NEW l \in LBs, DeleteLB(l)
    PROVE  GuestInv'
<1>1. Evolves /\ lbs' \in [LBs -> [uid : Nat, obj : LoadBalancer \cup {None}]]
  BY DeleteEvolves DEF DeleteLB, Live, GuestInv
<1>2. events' \in Nat BY EventType DEF DeleteLB, GuestInv
<1> QED BY <1>1, <1>2, EvolvesInv DEF DeleteLB

\* So does the end of one.
LEMMA LBGoneInv ==
    ASSUME GuestInv, NEW l \in LBs, LBGone(l)
    PROVE  GuestInv'
<1>1. /\ Evolves /\ ~There(l)'
      /\ lbs' \in [LBs -> [uid : Nat, obj : LoadBalancer \cup {None}]]
  BY GoneEvolves DEF LBGone, GuestInv
<1>2. events' \in Nat BY DEF LBGone, GuestInv, GuestTypeOK
<1> QED BY <1>1, <1>2, EvolvesInv DEF LBGone

\* The webhook, with a current cache, refuses while a machine is marked.
LEMMA RequestCreateInv ==
    ASSUME GuestInv, NEW l \in LBs, NEW lb \in Wanted[l], RequestCreate(l, lb)
    PROVE  GuestInv'
<1> DEFINE blind == \E v \in Of(lb.label) : vmCache[v] # vms[v]
           clear == ~Annotated(lb.label)
<1>1. PICK new \in Mutate(lb, Namespace, vmis) :
        /\ ValidateCreate(new, vmCache)
        /\ create' = [create EXCEPT ![l] = [obj |-> new, blind |-> blind, clear |-> clear]]
  BY DEF RequestCreate
<1>2. UNCHANGED <<vms, vmCache, vmis, lbs, lbCache, pass, removing, raced>>
  BY DEF RequestCreate
<1>3. new \in LoadBalancer /\ new.type = lb.type /\ new.label = lb.label
  <2>1. lb \in LoadBalancer /\ vmis \in SUBSET VMs BY GuestAssumption DEF GuestInv, GuestTypeOK
  <2>2. new \in LoadBalancer /\ SameBut(new, lb) BY <2>1, MutateKeeps
  <2> QED BY <2>2 DEF SameBut
<1>4. Writable(new) BY <1>1, ValidIsWritable DEF ValidateCreate
<1>5. new.type = "cluster" /\ new.label \in Removable => blind \/ clear
  <2> SUFFICES ASSUME new.type = "cluster", new.label \in Removable, ~blind
               PROVE  clear
    OBVIOUS
  <2>1. new.label \notin {None, "", "kubernetes"} BY GuestAssumption
  <2>2. \A v \in DOMAIN vmCache :
          Machine[v].cluster = new.label /\ Machine[v].creator /\ vmCache[v].state # "gone"
              => ~vmCache[v].onRemove
    BY <1>1, <2>1 DEF ValidateCreate, CheckGuestClusterIsOnRemove
  <2>3. DOMAIN vmCache = VMs BY DEF GuestInv, GuestTypeOK
  <2> QED BY <1>3, <2>2, <2>3 DEF Annotated, Of
<1>6. blind \in BOOLEAN /\ clear \in BOOLEAN OBVIOUS
<1> DEFINE r == [obj |-> new, blind |-> blind, clear |-> clear]
<1> HIDE DEF blind, clear
<1>7. /\ r \in [obj : LoadBalancer, blind : BOOLEAN, clear : BOOLEAN]
      /\ r.obj = new /\ r.blind = blind /\ r.clear = clear
  BY <1>3, <1>6
<1>8. create' = [create EXCEPT ![l] = r] BY <1>1
<1> HIDE DEF r
<1>9. /\ create'[l] = r /\ \A x \in LBs \ {l} : create'[x] = create[x]
      /\ create' \in [LBs -> [obj : LoadBalancer, blind : BOOLEAN, clear : BOOLEAN] \cup {None}]
  BY <1>7, <1>8 DEF GuestInv, GuestTypeOK
<1>10. events' \in Nat BY EventType DEF RequestCreate, GuestInv
<1>11. GuestTypeOK' BY <1>2, <1>9, <1>10 DEF GuestInv, GuestTypeOK
<1>12. Stored' BY <1>2, <1>4, <1>7, <1>9 DEF GuestInv, Stored, Live, There
<1>13. Requests'
  <2>1. \A x \in LBs \ {l} : create'[x] = create[x] BY <1>9
  <2>2. create'[l].obj.type = "cluster" /\ create'[l].obj.label \in Removable
          => create'[l].blind \/ create'[l].clear
    BY <1>5, <1>7, <1>9
  <2> QED BY <2>1, <2>2 DEF GuestInv, Requests
<1>14. Marked' /\ NoOrphans'
  BY <1>2 DEF GuestInv, Marked, MarkedAll, NoOrphans, GoneAll, Live, There
<1>15. Sighted' BY <1>2 DEF GuestInv, Sighted, KnownAs, There
<1>16. Cleaning' BY <1>2 DEF GuestInv, Cleaning, SeesAll, Serves, Live, There
<1> QED BY <1>11, <1>12, <1>13, <1>14, <1>15, <1>16 DEF GuestInv

\* A load balancer that appears during a removal was let through before it could
\* be seen: by then a machine is marked, or none is left.
LEMMA CommitCreateInv ==
    ASSUME GuestInv, NEW l \in LBs, CommitCreate(l)
    PROVE  GuestInv'
<1> DEFINE Req == [obj : LoadBalancer, blind : BOOLEAN, clear : BOOLEAN]
           r == create[l]
           c == r.obj.label
<1>0. /\ create \in [LBs -> Req \cup {None}]
      /\ lbs \in [LBs -> [uid : Nat, obj : LoadBalancer \cup {None}]]
      /\ r # None /\ r \in Req /\ r.obj \in LoadBalancer
  BY DEF GuestInv, GuestTypeOK, CommitCreate
<1>1. /\ create' = [create EXCEPT ![l] = None]
      /\ UNCHANGED <<vms, vmCache, vmis, lbCache, pass, removing, events>>
  BY DEF CommitCreate
<1>2. /\ create'[l] = None /\ \A x \in LBs \ {l} : create'[x] = create[x]
      /\ create' \in [LBs -> Req \cup {None}]
  BY <1>0, <1>1
<1>3. Requests' /\ Marked'
  <2>1. Requests' BY <1>2 DEF GuestInv, Requests
  <2>2. Marked' BY <1>1 DEF GuestInv, Marked, MarkedAll
  <2> QED BY <2>1, <2>2
<1>4. CASE There(l)
  <2>1. UNCHANGED <<lbs, raced>> BY <1>4 DEF CommitCreate
  <2>2. GuestTypeOK' BY <1>1, <1>2, <2>1 DEF GuestInv, GuestTypeOK
  <2>3. Stored' BY <1>2, <2>1 DEF GuestInv, Stored, Live, There
  <2>4. Sighted' /\ NoOrphans'
    BY <1>1, <2>1 DEF GuestInv, Sighted, KnownAs, NoOrphans, GoneAll, There, Live
  <2>5. Cleaning' BY <1>1, <2>1 DEF GuestInv, Cleaning, SeesAll, Serves, Live, There
  <2> QED BY <1>3, <2>2, <2>3, <2>4, <2>5 DEF GuestInv
<1>5. CASE ~There(l)
  <2>1. /\ lbs' = [lbs EXCEPT ![l] = [uid |-> @.uid + 1, obj |-> r.obj]]
        /\ raced' = IF r.blind \/ (r.clear /\ (Annotated(c) \/ GoneAll(c)))
                    THEN raced \cup {l} ELSE raced \ {l}
    BY <1>5 DEF CommitCreate, Late
  <2>2. /\ lbs'[l].uid = lbs[l].uid + 1 /\ lbs'[l].obj = r.obj
        /\ \A x \in LBs \ {l} : lbs'[x] = lbs[x]
        /\ lbs' \in [LBs -> [uid : Nat, obj : LoadBalancer \cup {None}]]
    BY <1>0, <2>1
  <2>3. /\ raced' \subseteq LBs
        /\ \A x \in LBs \ {l} : x \in raced' <=> x \in raced
        /\ l \notin raced' => ~r.blind /\ (r.clear => ~Annotated(c) /\ ~GoneAll(c))
    BY <2>1 DEF GuestInv, GuestTypeOK
  <2>4. /\ \A x \in LBs \ {l} : There(x)' <=> There(x)
        /\ \A x \in LBs \ {l} : Live(x)' <=> Live(x)
        /\ \A x \in LBs \ {l} : \A k : Serves(x, k)' <=> Serves(x, k)
    BY <2>2 DEF There, Live, Serves
  <2>5. r.obj.type = "cluster" /\ c \in Removable /\ l \notin raced'
          => ~Annotated(c) /\ ~GoneAll(c)
    BY <1>0, <2>3 DEF GuestInv, Requests
  <2> HIDE DEF r, c
  <2>6. GuestTypeOK' BY <1>1, <1>2, <2>2, <2>3 DEF GuestInv, GuestTypeOK
  <2>7. Stored'
    <3>1. Writable(r.obj) BY <1>0 DEF GuestInv, Stored, r
    <3>2. \A x \in LBs : create'[x] # None => Writable(create'[x].obj)
      BY <1>2 DEF GuestInv, Stored
    <3>3. \A x \in LBs : Live(x)' => Writable(lbs'[x].obj)
      BY <2>2, <2>4, <3>1 DEF GuestInv, Stored
    <3> QED BY <3>2, <3>3 DEF Stored
  <2>8. Sighted'
    <3>1. \A x \in LBs, u \in Nat : KnownAs(x, u) => KnownAs(x, u)'
      <4> SUFFICES ASSUME NEW x \in LBs, NEW u \in Nat, KnownAs(x, u) PROVE KnownAs(x, u)'
        OBVIOUS
      <4>1. CASE x # l BY <2>2, <2>4, <4>1 DEF KnownAs
      <4>2. CASE x = l
        <5>1. u <= lbs[l].uid /\ lbs[l].uid \in Nat BY <1>0, <4>2 DEF KnownAs
        <5>2. u < lbs'[l].uid BY <2>2, <5>1
        <5> QED BY <4>2, <5>2, <5>1, <2>2 DEF KnownAs
      <4> QED BY <4>1, <4>2
    <3>2. \A x \in LBs : lbCache[x] # None => lbCache[x].uid \in Nat
      BY DEF GuestInv, GuestTypeOK, Listing
    <3>3. \A v \in VMs : \A e \in pass[v].todo : e.name \in LBs /\ e.uid \in Nat
      BY DEF GuestInv, GuestTypeOK
    <3>4. ASSUME NEW x \in LBs, lbCache[x] # None, lbCache[x].type = "cluster"
          PROVE  KnownAs(x, lbCache[x].uid)'
      <4>1. KnownAs(x, lbCache[x].uid) BY <3>4 DEF GuestInv, Sighted
      <4>2. \A u \in Nat : KnownAs(x, u) => KnownAs(x, u)' BY <3>1
      <4> QED BY <1>1, <3>2, <3>4, <4>1, <4>2 DEF KnownAs
    <3>5. ASSUME NEW v \in VMs, NEW e \in pass[v].todo PROVE KnownAs(e.name, e.uid)'
      BY <3>1, <3>3 DEF GuestInv, Sighted
    <3> QED BY <1>1, <3>4, <3>5 DEF Sighted
  <2>9. Cleaning'
    <3> SUFFICES ASSUME NEW v \in VMs, pass[v].pc = "clean", pass[v].saw,
                        Machine[v].creator, Machine[v].cluster \in Removable,
                        NEW x \in LBs, Serves(x, Machine[v].cluster)', x \notin raced',
                        ~pass[v].failed
                 PROVE  \E e \in pass[v].todo : e.name = x
      BY <1>1 DEF GuestInv, Cleaning, SeesAll
    <3>1. vms[v].onRemove /\ SeesAll(v) BY DEF GuestInv, Cleaning
    <3>2. CASE x # l BY <2>3, <2>4, <3>1, <3>2 DEF SeesAll
    <3>3. CASE x = l
      <4>1. r.obj.type = "cluster" /\ c = Machine[v].cluster BY <2>2, <3>3 DEF Serves, c
      <4>2. pass[v] # IdlePass BY IdleIsPass
      <4>3. vms[v].state = "deleting" BY <4>2 DEF GuestInv, GuestTypeOK
      <4>4. Annotated(c) BY <3>1, <4>1, <4>3 DEF Annotated, Of
      <4> QED BY <2>5, <3>3, <4>1, <4>4
    <3> QED BY <3>2, <3>3
  <2>10. NoOrphans'
    <3> SUFFICES ASSUME NEW k \in removing, GoneAll(k), NEW x \in LBs, Serves(x, k)'
                 PROVE  x \in raced'
      BY <1>1 DEF NoOrphans, GoneAll, Serves
    <3>1. k \in Removable BY DEF GuestInv, GuestTypeOK
    <3>2. CASE x # l BY <2>3, <2>4, <3>2 DEF GuestInv, NoOrphans, Serves
    <3>3. CASE x = l
      <4>1. r.obj.type = "cluster" /\ c = k BY <2>2, <3>3 DEF Serves, c
      <4> QED BY <2>5, <3>1, <3>3, <4>1
    <3> QED BY <3>2, <3>3
  <2> QED BY <1>3, <2>6, <2>7, <2>8, <2>9, <2>10 DEF GuestInv
<1> QED BY <1>4, <1>5

-----------------------------------------------------------------------------
(* The theorems *)

\* The invariant holds at the start.
LEMMA InitInv ==
    ASSUME Init
    PROVE  GuestInv
<1>0. PICK s \in Starts : /\ lbs = [l \in LBs |-> [uid |-> 1, obj |-> s.lbs[l]]]
                          /\ removing = s.removing /\ events = s.events
  BY DEF Init
<1>1. /\ vms = [v \in VMs |-> [state |-> "live", onRemove |-> FALSE]] /\ vmCache = vms
      /\ vmis = VMs /\ lbCache = [l \in LBs |-> Listed(lbs[l])]
      /\ create = [l \in LBs |-> None] /\ pass = [v \in VMs |-> IdlePass] /\ raced = {}
  BY DEF Init
<1>2. /\ \A l \in LBs : s.lbs[l] # None =>
              s.lbs[l] \in LoadBalancer /\ Writable(s.lbs[l])
      /\ removing \subseteq Removable /\ events \in Nat
      /\ \A k \in removing : Of(k) # {}
  BY <1>0, GuestAssumption DEF Writable
<1>3. lbs \in [LBs -> [uid : Nat, obj : LoadBalancer \cup {None}]]
      /\ \A l \in LBs : lbs[l].uid = 1 /\ lbs[l].obj = s.lbs[l]
  BY <1>0, <1>2
<1>4. ASSUME NEW l \in LBs, There(l)
      PROVE  /\ lbCache[l] \in Listing
             /\ lbCache[l].uid = lbs[l].uid /\ lbCache[l].type = lbs[l].obj.type
  <2>1. lbs[l].obj \in LoadBalancer BY <1>3, <1>4 DEF There
  <2>2. /\ lbs[l].obj.type \in Text /\ lbs[l].obj.label \in Text \cup {None}
        /\ lbs[l].obj.deleting \in BOOLEAN
    BY <2>1 DEF LoadBalancer
  <2>3. lbCache[l] = [uid |-> lbs[l].uid, type |-> lbs[l].obj.type,
                      label |-> lbs[l].obj.label, deleting |-> lbs[l].obj.deleting]
    BY <1>1, <1>4 DEF Listed, There
  <2> QED BY <1>3, <2>2, <2>3 DEF Listing
<1>5. \A l \in LBs : ~There(l) => lbCache[l] = None BY <1>1 DEF Listed, There
<1>6. lbCache \in [LBs -> Listing \cup {None}]
  <2>1. \A l \in LBs : lbCache[l] \in Listing \cup {None} BY <1>4, <1>5
  <2> QED BY <1>1, <2>1
<1>7. pass \in [VMs -> PassType] /\ \A v \in VMs : pass[v] = IdlePass
  BY <1>1, IdleIsPass
<1>8. vms \in VMStates /\ \A v \in VMs : vms[v].state = "live" BY <1>1 DEF VMStates
<1>9. GuestTypeOK
  BY <1>1, <1>2, <1>3, <1>6, <1>7, <1>8 DEF GuestTypeOK, PassType, VMStates
<1>10. Stored BY <1>1, <1>2, <1>3 DEF Stored, Live, There
<1>11. Sighted
  <2>1. ASSUME NEW l \in LBs, lbCache[l] # None, lbCache[l].type = "cluster"
        PROVE  KnownAs(l, lbCache[l].uid)
    <3>1. There(l) BY <1>5, <2>1
    <3> QED BY <1>3, <1>4, <2>1, <3>1 DEF KnownAs
  <2> QED BY <1>7, <2>1, IdleIsPass DEF Sighted
<1>12. Requests BY <1>1 DEF Requests
<1>13. Marked BY <1>2, <1>8 DEF Marked, Of
<1>14. Cleaning BY <1>7, IdleIsPass DEF Cleaning
<1>15. NoOrphans BY <1>2, <1>8 DEF NoOrphans, GoneAll, Of
<1> QED BY <1>9, <1>10, <1>11, <1>12, <1>13, <1>14, <1>15 DEF GuestInv

\* A step that changes no variable keeps it.
LEMMA StutterInv ==
    ASSUME GuestInv, UNCHANGED vars
    PROVE  GuestInv'
<1>1. UNCHANGED <<vms, vmCache, vmis, lbs, lbCache, create, removing, raced, pass, events>>
  BY DEF vars
<1>2. pass' \in [VMs -> PassType] /\ events' \in Nat
  BY <1>1 DEF GuestInv, GuestTypeOK, PassType
<1> QED BY <1>1, <1>2, OverInv

\* The steps of Next by who takes them.
LEMMA NextInv ==
    ASSUME GuestInv, [Next]_vars
    PROVE  GuestInv'
<1>1. CASE \E c \in Removable : StartRemoval(c) BY <1>1, StartRemovalInv
<1>2. ASSUME NEW v \in VMs,
             AnnotateVM(v) \/ DeleteMarked(v) \/ DeleteVM(v) \/ Instance(v) \/ Clean(v)
      PROVE  GuestInv'
  BY <1>2, AnnotateVMInv, DeleteMarkedInv, DeleteVMInv, InstanceInv, StartPassInv,
     DeleteNextInv, EndPassInv DEF Clean
<1>3. CASE SyncVMs \/ SyncLBs \/ Crash BY <1>3, SyncVMsInv, SyncLBsInv, CrashInv
<1>4. ASSUME NEW l \in LBs,
             \/ CommitCreate(l) \/ WriteStatus(l) \/ LBGone(l)
             \/ EditLB(l) \/ EditNetwork(l) \/ EditLabel(l) \/ EditV1alpha1(l) \/ DeleteLB(l)
             \/ \E lb \in Wanted[l] : RequestCreate(l, lb)
      PROVE  GuestInv'
  BY <1>4, CommitCreateInv, UpdateInv, EditLabelInv, LBGoneInv, DeleteLBInv,
     RequestCreateInv
<1>5. CASE UNCHANGED vars BY <1>5, StutterInv
<1> QED BY <1>1, <1>2, <1>3, <1>4, <1>5 DEF Next

\* The inductive invariant holds.
LEMMA GuestInvariant == Spec => []GuestInv
  BY InitInv, NextInv, PTL DEF Spec

\* Machines, caches, load balancers, requests and passes stay well formed, and a
\* pass is only of a machine that is being deleted.
THEOREM GuestTypeCorrect == Spec => []GuestTypeOK
<1>1. GuestInv => GuestTypeOK BY DEF GuestInv
<1> QED BY <1>1, GuestInvariant, PTL

\* Whatever fails, panics or is created again while Rancher removes a guest
\* cluster, no load balancer of it is left over but the raced ones.
THEOREM RemovalLeavesNoOrphans == Spec => []NoOrphans
<1>1. GuestInv => NoOrphans BY DEF GuestInv
<1> QED BY <1>1, GuestInvariant, PTL

\* The patch of the mutator makes a health check complete, so what was let
\* through once is let through again.
LEMMA WritableAgain ==
    ASSUME GuestInv
    PROVE  StaysWritable
<1> SUFFICES ASSUME NEW l \in LBs, Live(l), NEW n \in Mutate(lbs[l].obj, Namespace, vmis)
             PROVE  ValidateUpdate(lbs[l].obj, n)
  BY DEF StaysWritable
<1> DEFINE o == lbs[l].obj
<1>1. o \in LoadBalancer /\ ~o.deleting /\ Writable(o)
  BY LBFields DEF GuestInv, Stored, Live
<1> HIDE DEF o
<1>2. n \in LoadBalancer /\ SameBut(n, o) BY <1>1, MutateKeeps DEF GuestInv, GuestTypeOK, o
<1>3. n.hc = GetHealthyCheckPatch(o.hc) BY <1>1, <1>2 DEF SameBut
<1>4. /\ n.hc.port = o.hc.port
      /\ o.hc.port # 0 => 0 \notin {n.hc.success, n.hc.failure, n.hc.period, n.hc.timeout}
  <2>1. o.hc \in HealthCheck BY <1>1 DEF LoadBalancer
  <2> QED BY <1>3, <2>1, PatchType
<1>5. n.type = o.type /\ n.listeners = o.listeners /\ n.ipam = o.ipam BY <1>2 DEF SameBut
<1>6. Writable(n) BY <1>1, <1>4, <1>5, WritableFields
<1>7. CheckListeners(n) BY <1>6 DEF Writable
<1>8. CheckHealthyCheck(n) BY <1>4, <1>6 DEF Writable, CheckHealthyCheck
<1>9. CheckIPAM(o, n) /\ CheckWorkloadType(o, n) BY <1>5 DEF CheckIPAM, CheckWorkloadType
<1> QED BY <1>7, <1>8, <1>9 DEF ValidateUpdate, o

\* The controller's write of the status is not refused: what is stored can
\* always be written again.
THEOREM StoredStaysWritable == Spec => []StaysWritable
<1>1. GuestInv => StaysWritable BY WritableAgain
<1> QED BY <1>1, GuestInvariant, PTL

\* What any step leaves of a live load balancer.
Kept(l) ==
    lbs'[l].uid = lbs[l].uid
        => /\ NetKept(lbs[l].obj, lbs'[l].obj) \/ EditNetwork(l)
           /\ ServiceKept(l, lbs[l].obj, lbs'[l].obj)

\* What is not written is kept.
LEMMA SameIsKept ==
    ASSUME NEW l \in LBs, lbs'[l] = lbs[l]
    PROVE  Kept(l)
  BY DEF Kept, NetKept, ServiceKept

\* A deletion mark changes nothing else.
LEMMA DeleteKeeps ==
    ASSUME GuestTypeOK, NEW x \in LBs, There(x), lbs' = [lbs EXCEPT ![x].obj.deleting = TRUE],
           NEW l \in LBs, Live(l)
    PROVE  Kept(l)
<1> DEFINE n == [lbs[x].obj EXCEPT !.deleting = TRUE]
<1>1. lbs[x].obj \in LoadBalancer BY LBFields
<1>2. /\ n.net = lbs[x].obj.net /\ n.allocated = lbs[x].obj.allocated
      /\ n.selector = lbs[x].obj.selector
  BY <1>1 DEF LoadBalancer
<1>3. lbs' = [lbs EXCEPT ![x].obj = n] OBVIOUS
<1> HIDE DEF n
<1>4. lbs'[x].obj = n /\ \A y \in LBs \ {x} : lbs'[y] = lbs[y]
  BY <1>3 DEF GuestTypeOK
<1>5. CASE l # x BY <1>4, <1>5, SameIsKept
<1>6. CASE l = x BY <1>2, <1>4, <1>6 DEF Kept, NetKept, ServiceKept
<1> QED BY <1>5, <1>6

\* An Update keeps what is promised, whoever makes it.
LEMMA UpdateIsKept ==
    ASSUME GuestTypeOK, NEW x \in LBs, NEW l \in LBs,
           \/ EditLB(x) \/ EditNetwork(x) \/ EditLabel(x) \/ EditV1alpha1(x)
           \/ WriteStatus(x)
    PROVE  Kept(l)
<1>1. PICK n \in LoadBalancer : /\ Becomes(x, n)
                                /\ NetKept(lbs[x].obj, n) \/ EditNetwork(x)
                                /\ ServiceKept(x, lbs[x].obj, n)
  <2>1. CASE EditLabel(x) BY <2>1, EditLabelKeeps DEF EditLabel
  <2> QED BY <2>1, EditLBKeeps, EditNetworkKeeps, EditV1alpha1Keeps, WriteStatusKeeps
<1>2. lbs'[x].obj = n /\ \A y \in LBs \ {x} : lbs'[y] = lbs[y]
  BY <1>1 DEF Becomes, GuestTypeOK
<1>3. CASE l # x BY <1>2, <1>3, SameIsKept
<1>4. CASE l = x BY <1>1, <1>2, <1>4 DEF Kept
<1> QED BY <1>3, <1>4

\* The steps that change no load balancer, and the ones that do.
LEMMA StepsOfLBs ==
    ASSUME [Next]_vars
    PROVE  \/ UNCHANGED lbs
           \/ UNCHANGED pass /\ \E l \in LBs : \/ CommitCreate(l) \/ LBGone(l) \/ DeleteLB(l)
                                             \/ EditLB(l) \/ EditNetwork(l) \/ EditLabel(l)
                                             \/ EditV1alpha1(l) \/ WriteStatus(l)
           \/ \E v \in VMs : DeleteNext(v)
  BY DEF Next, vars, StartRemoval, AnnotateVM, DeleteMarked, DeleteVM, Instance, Clean,
         StartPass, EndPass, SyncVMs, SyncLBs, Crash, CommitCreate, LBGone, DeleteLB,
         EditLB, EditNetwork, EditLabel, EditV1alpha1, WriteStatus, RequestCreate

\* Every step keeps it.
LEMMA NextKeeps ==
    ASSUME GuestTypeOK, [Next]_vars, NEW l \in LBs, Live(l)
    PROVE  Kept(l)
<1>1. CASE UNCHANGED lbs BY <1>1, SameIsKept
<1>2. ASSUME NEW x \in LBs, CommitCreate(x) PROVE Kept(l)
  <2>1. CASE There(x) BY <1>2, <2>1, SameIsKept DEF CommitCreate
  <2>2. CASE ~There(x)
    <3>1. l # x BY <2>2 DEF Live
    <3>2. lbs'[l] = lbs[l] BY <1>2, <2>2, <3>1 DEF CommitCreate, GuestTypeOK
    <3> QED BY <3>2, SameIsKept
  <2> QED BY <2>1, <2>2
<1>3. ASSUME NEW x \in LBs, LBGone(x) PROVE Kept(l)
  <2>1. l # x BY <1>3 DEF LBGone
  <2>2. lbs'[l] = lbs[l] BY <1>3, <2>1 DEF LBGone, GuestTypeOK
  <2> QED BY <2>2, SameIsKept
<1>4. ASSUME NEW x \in LBs, DeleteLB(x) PROVE Kept(l)
  BY <1>4, DeleteKeeps DEF DeleteLB, Live
<1>5. ASSUME NEW x \in LBs,
             \/ EditLB(x) \/ EditNetwork(x) \/ EditLabel(x) \/ EditV1alpha1(x)
             \/ WriteStatus(x)
      PROVE  Kept(l)
  BY <1>5, UpdateIsKept
<1>6. ASSUME NEW v \in VMs, DeleteNext(v) PROVE Kept(l)
  <2>1. \A e \in pass[v].todo : e.name \in LBs BY DEF GuestTypeOK
  <2>2. \/ UNCHANGED lbs
        \/ \E e \in pass[v].todo : There(e.name) /\ lbs' = [lbs EXCEPT ![e.name].obj.deleting = TRUE]
    BY <1>6 DEF DeleteNext
  <2> QED BY <2>1, <2>2, DeleteKeeps, SameIsKept
<1> QED BY <1>1, <1>2, <1>3, <1>4, <1>5, <1>6, StepsOfLBs

\* A load balancer of a guest cluster changes its network only when a client
\* writes or drops that annotation: all other writes, of users, of the old version
\* and of the controller, leave it, whichever instances run by then.
THEOREM NetworkIsKept == Spec => NetworkSticks
<1>1. ASSUME GuestInv, [Next]_vars
      PROVE  \A l \in LBs :
               /\ Live(l) /\ lbs'[l].uid = lbs[l].uid
               /\ lbs[l].obj.type = "cluster" /\ lbs[l].obj.net # ""
               /\ lbs'[l].obj.net # lbs[l].obj.net
               => EditNetwork(l)
  BY <1>1, NextKeeps DEF GuestInv, Kept, NetKept
<1> QED BY <1>1, GuestInvariant, PTL DEF Spec, NetworkSticks

\* Writing back what a client of v1alpha1 has read takes from a load balancer
\* neither its address nor an endpoint: for every server that runs it still selects
\* that one, or one with the same address.
THEOREM OldVersionTakesNothing == Spec => OldVersionKeeps
<1>1. ASSUME GuestInv, [Next]_vars
      PROVE  \A l \in LBs :
               LET lb  == lbs[l].obj
                   new == lbs'[l].obj
               IN  /\ Live(l) /\ lbs'[l].uid = lbs[l].uid
                   /\ lb.ipam = "pool" /\ lb.allocated = Lease[l] /\ lb.address = Lease[l].ip
                   => /\ new.allocated = lb.allocated
                      /\ \A v \in lb.selector \cap vmis :
                            GetAddress(v) \cap lb.servers # {} =>
                                \E w \in new.selector \cap vmis :
                                    GetAddress(w) = GetAddress(v)
  BY <1>1, NextKeeps DEF GuestInv, Kept, ServiceKept
<1> QED BY <1>1, GuestInvariant, PTL DEF Spec, OldVersionKeeps

\* The removal of a guest cluster deletes no load balancer of virtual machines
\* that it had listed.
THEOREM RemovalSparesMachines == Spec => SparesMachines
<1>1. ASSUME GuestInv, [Next]_vars
      PROVE  \A v \in VMs : \A e \in pass[v].todo \ pass'[v].todo :
               lbs'[e.name] # lbs[e.name] /\ lbs[e.name].uid = e.uid
                   => lbs[e.name].obj.type = "cluster"
  <2> SUFFICES ASSUME NEW v \in VMs, NEW e \in pass[v].todo \ pass'[v].todo,
                      lbs'[e.name] # lbs[e.name], lbs[e.name].uid = e.uid
               PROVE  lbs[e.name].obj.type = "cluster"
    OBVIOUS
  <2>1. e.name \in LBs BY <1>1 DEF GuestInv, GuestTypeOK
  <2>2. PICK w \in VMs : DeleteNext(w) BY <1>1, StepsOfLBs
  <2>3. PICK d \in pass[w].todo :
          There(d.name) /\ lbs' = [lbs EXCEPT ![d.name].obj.deleting = TRUE]
    BY <2>2 DEF DeleteNext
  <2>4. d.name \in LBs BY <1>1 DEF GuestInv, GuestTypeOK
  <2>5. e.name = d.name BY <1>1, <2>1, <2>3, <2>4 DEF GuestInv, GuestTypeOK
  <2>6. KnownAs(e.name, e.uid) BY <1>1 DEF GuestInv, Sighted
  <2> QED BY <2>3, <2>5, <2>6 DEF KnownAs
<1> QED BY <1>1, GuestInvariant, PTL DEF Spec, SparesMachines
=============================================================================
