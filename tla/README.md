# A TLA+ development for the Harvester load balancer

TLA+ modules, TLC configurations and TLAPS proofs about the controllers of
`load-balancer-harvester`: how load balancers get and give up addresses of IP
pools, how a load balancer for virtual machines is served and health checked,
what the admission webhooks let through, how the program starts on a system that
is upgraded, and what becomes of the load balancers of a guest cluster when it
is removed. `PROJECT.json` maps every definition to the lines it models and lists
the components, runs, findings, hazards and theorems.

## 1. The system

One process (`main.go`, one leader at a time) runs four controllers over the
Kubernetes API; a second one runs the admission webhooks. All durable state is
in API objects. The controllers read them through informer caches that lag, and
write whole objects with `Update`, which is refused unless the copy has the
current `resourceVersion`. A key (object name) is processed by one worker at a
time, different keys concurrently; an error puts the key back in the queue.

| Component | State it keeps | Operations | Talks to |
|---|---|---|---|
| loadbalancer controller (`pkg/controller/loadbalancer`) | none of its own; `LoadBalancer.status` | `OnChange`: address, then Service and endpoints, then status; `OnRemove` | allocator map, pool cache, servicelb manager |
| ippool controller (`pkg/controller/ippool`) | the allocator map; `IPPool.status` | `OnChange` (allocator, status), manual release, `OnRemove` | allocators, lb cache |
| allocator and store (`pkg/ipam`, host-local) | ranges and checksum in memory; allocations, history, last address in `IPPool.status` | `Get`, `Reserve`, `ReleaseByID`, `GetByID`, the iterator | pool cache and client |
| servicelb manager (`pkg/lb/servicelb`) | none; Service and EndpointSlice | ensure Service, its address, endpoints, probers, dummy endpoint; health results | prober, informers, the loadbalancer queue |
| prober (`pkg/prober`) | a map of worker goroutines under a lock | add, remove, remove all of a uid; probe, count, report | servicelb manager, by a channel |
| vmi controller (`pkg/controller/vmi`) | none | enqueues the load balancers of an instance | the loadbalancer queue |
| vm controller (`pkg/controller/vm`) | none | `OnRemove` of a machine deletes the load balancers of its guest cluster, if that is being removed | lb cache and client |
| pool webhook (`pkg/webhook/ippool`) | none | labels; ranges, selector and allocations of a pool, against the other pools | its own pool cache, network definitions |
| loadbalancer webhook (`pkg/webhook/loadbalancer`) | none | annotations, defaults, validation, conversion between v1alpha1 and v1beta1 | its caches of machines, instances, namespaces, pools |
| pool selection (`pkg/ipam/selector.go`) | none | the pool for a load balancer, strict, then loose | pool cache |
| kube-vip conversion (`pkg/controller/ippool/kubevip`) | an annotation of the configmap | pools out of the configmap of older releases, once, before the controllers start | API, pool webhook |
| program (`main.go`, `cmd/webhook`) | the leader's lease | registration and start; an error there is fatal | all |

What is hard here: the address of a load balancer is kept in two objects (the
pool's `allocated` and the load balancer's `status`) that are written one after
the other from copies that may be old; an allocation reads the cached pool up to
four times; the allocator map is shared between the controllers; the finalizer
comes after the first work; two goroutines write the same EndpointSlice, and
nothing watches it; stopping a prober is a rendezvous under a lock. No resource
has a status subresource, so every status write of a controller passes mutator
and validator, which compare it with objects of a cache that lags and that other
requests under way are about to change; the upgrade goes through the same
webhook and may be cut off anywhere; the guest side of a cluster goes on creating
what the removal of the cluster deletes.

What makes it correct: an address belongs to at most one load balancer, the
counts of a pool are true, allocations lie in the ranges; a status names an
address its owner holds; what is removed holds nothing; everybody is served in
the end; workers exist for exactly the endpoints that are to be checked; health
results are earned and end up in the EndpointSlice and in the status; pools that
the webhook could compare never conflict, and what it once let in it lets the
controllers write; an upgrade loses no address and ends; a removed guest cluster
leaves no load balancer behind and takes nobody else's with it.

## 2. The modules

| Module | Models | Notes |
|---|---|---|
| `GoInts` | Go's int64, in which `Total` and `Available` of a pool are kept | operators only; `Int64Limit` is 2^63 in the code and small in an instance |
| `Ranges` | `MakeRange`, `parseIP`, `countIP`, host-local's `Contains`, `Overlaps`, `GetIter` | operators only; an address is a number, a subnet its first address and its host bits |
| `RangeIter` | `RangeIter.Next`, one advance per step | checks `Candidates`, by which IPAM allocates, against the iterator |
| `Leases` | what the pools promise | the abstract specification: grant, end, resize, drop |
| `IPAM` | the loadbalancer controller's address part, the ippool controller, allocator, store, allocator map, pool webhook, API server, informers, restarts | the core |
| `Prober` | `pkg/prober` | usable alone or inside `ServiceLB` |
| `ServiceLB` | the loadbalancer controller's VM part, servicelb manager, vmi controller, kube-vip | composes with `Prober` by EXTENDS: calls of the manager are its actions |
| `Selection` | `pkg/ipam/selector.go`, `selectIPPool` | operators only |
| `PoolAdmission` | mutator and validator of pools, the API server around them, the clients | requests of several clients, each in up to four steps; extends `Ranges` and `Selection` |
| `KubeVip` | the start under the leader: conversion, creation, annotation, controllers | composes with `PoolAdmission` by EXTENDS, as one of its clients; proved to implement it |
| `LBWebhook` | mutator, validator and conversion of load balancers | operators only |
| `GuestCluster` | the vm controller, Rancher, and everyone who writes load balancers | every write goes through `LBWebhook` |
| `RangesProofs` | lemmas about the operators of `Ranges` | the other proofs extend it |
| `RangeIterProofs` | the proofs about `RangeIter` | |
| `IPAMProofs` | the proofs about the pools of `IPAM` | |
| `IPAMBookingProofs` | the proofs about pools and load balancers of `IPAM` together | |
| `ServiceLBProofs` | the proofs about `Prober` and `ServiceLB` | the second part uses the lemmas of the first for the calls a pass makes |
| `PoolAdmissionProofs`, `KubeVipProofs` | the proofs about `PoolAdmission` and `KubeVip` | |
| `GuestClusterProofs` | the proofs about `GuestCluster` and the operators of `LBWebhook` | |
| `MCRangeIter`, `MCIPAM`, `MCProber`, `MCServiceLB`, `MCKubeVip`, `MCGuestCluster` | instances for TLC | |

### How state and steps correspond to the code

*Objects.* `pools[p]`, `lbs[l]`, `svc`, `slice` are the objects in the API
server; `...Cache` is what the informer has; `...Synced` says that the cache has
the current version. Resource versions are abstracted to freshness: a copy is
current until somebody else writes the object, and `Update` succeeds exactly if
it is current. A cache that syncs jumps to the latest version; the intermediate
versions it might show are older states in which a pass could have run, except
when two caches advance by different amounts, which the independent sync actions
cover.

*Passes.* `lbWork[l]`, `poolWork[p]` and `pass` are the local variables of the
worker of a key, with a program counter. A step is one read of a cache, one use
of the allocator map, or one `Update`. A store operation that reads the cached
pool and updates it is one step: had the pool changed in between, the `Update`
would have been refused, which is what the step does with a stale cache. The
handlers run in the order of registration, the finalizer adapter of wrangler
last, on the object the handlers return (lasso's `SharedHandler.OnChange`).

*Counts* are int64. `countIP` subtracts the ends of a range as `big.Int` and cuts
the result to its low 64 bits, so an IPv6 /64 with default ends, 2^64 - 1 addresses
less the gateway, has a total of -2. `Int64` does the same, `Total` adds up wrapped
numbers, and the store's increments and decrements of `available` wrap. The instances
make `Int64Limit` so small that wrapping happens (5 for subnets of up to 8 addresses).

*Failing calls.* With `MaxFaults` a call may fail by itself, and may have been
applied all the same. `Restart` loses passes, queues and allocators, and queues
every object.

*IPAM* models load balancers without their VM part (as for workload type
cluster): what `ensureVMLoadBalancer` does to the status in addition is in
`ServiceLB`, where the address is a DHCP one or that of the pool in the spec, and
how it is booked is left out. Which pools match a load balancer and in which
order is the constant `Preference`; `Selection` says how the code comes to it. A `False` condition may be
written although it was `False`, since its message may differ.

`raced[l]` is a history variable: the races that this load balancer was in and
against which the code does not guard. No guard reads it. The properties about the
two objects that keep an address speak of load balancers that were `Spared` the
races that break them:

| Race | Marked when | What comes of it |
|---|---|---|
| `staleLB` | a pass starts from a copy without the address that the status has, or that is to give it up where the object is not | `MCStaleLB` |
| `editedBack` | the spec is changed back to the pool of the address, when a pass is at work or the address is released already | *Changed and changed back* |
| `oldSearch` | the allocator looks for what an id has, or had, in a cached pool that does not show it, or in ranges that do not contain it | *Two addresses for one id* |
| `oldRelease` | `ReleaseByID` finds nothing in the cached pool and the pool has an allocation of the id | *A release that releases nothing* |
| `byHand` | the manual release frees an address of a load balancer that exists, or whose worker is at work | *Created again while released by hand* |
| `poolGone` | a pool disappears with an allocation of the load balancer | *Reserved while the pool is deleted* |

Lag by itself marks nothing: a pass may start from an old copy, and an allocation
read an old pool, as long as what it looks for is there.

*Prober.* Send on the report channel is a rendezvous with the handling
goroutine: the worker stays in `send` while `handling` is not empty. `Locked`
is `workerLock` held by a call that waits in `stop()`. `streak` is a history
variable, used by `ReportsAreEarned` only. Periods and timeouts are fairness.

*ServiceLB.* The contents of a Service are its listeners, the address it asks for
(`want`, DHCP or the one of a pool) and the one kube-vip gave it (`ip`); of an
EndpointSlice its listeners, the condition of the
endpoint of each instance, and the dummy endpoint. The informers of these two
objects enqueue nothing, as in the code. In `EnsureSlice` and what follows it,
`pass.slice` is the variable `eps`: `updateAllConditions` works on a copy, so
`ensureDummyEndpoint` goes on with the old one, whose version may be gone. A pass
updates the Service whether or not it changes: `constructService` builds the ports
without the node ports that the API server filled in, so the comparison before the
`Update` never finds them equal. From an old copy that `Update` is refused.

*PoolAdmission.* `req[c]` is the request a client has under way: `Submit` is the
mutator, `ValidateRanges` the first look at the webhook's cache (own ranges,
overlaps, allocations), `ValidateSelector` the second one (the global pool,
priorities, scopes), `Commit` what the API server does with the result: it refuses
a Create of a name that is taken and an Update of an old version. The cache may
change between any two. `cache[p]` is what the webhook's informer has of a pool,
any earlier version. An address is a number, a label is what it says. `vetted`
and `saw` are history variables: `<<p, q>>` is in `vetted` if the spec that p has
now was let through by two looks at the cache that both showed q with the spec
it has now.

*KubeVip.* Users make, edit and delete pools at any time, also while the program
starts. `boot` is the program counter of the starting leader and the pools it
has still to create. The map of entries is iterated in any order; which entry a
service's address goes to is computed from that order. A Create is a request of
`PoolAdmission`, and may be applied after its sender died. `born` is a history
variable: who made a pool, and with which history. Configmaps are `config`: its
entries by format, name and ranges, and the services listed in all namespaces.

*GuestCluster.* `pass[v]` is `CleanGuestClusterLBs` for one machine: the list from
the cache, one `Delete` per step, the end. The list holds the `uid` the cache
had, for the properties only: the code deletes by name. If a deletion failed and
the last one did not, the process panics, which `EndPass` models as `Restart`:
every pass under way is lost, and machines are taken up again since they are
still being deleted. A Create has two steps, since the removal can begin in
between; Updates are one step, as an Update of an old version is refused. Each
cache follows one watch, in order, so it is all of the objects at one earlier
time. `raced` marks load balancers that a lagging cache, or a removal that began
while they were under way, kept from webhook or controller, and those that are given
the label of a cluster whose removal has begun (the validator looks at the label on
Create only). Clients may write or drop everything the webhook decides by: the network
of the management side and the cluster name in `EditLB`, the network annotation in
`EditNetwork`, the label in `EditLabel`. The mutator respects a network that a client
appoints and looks for one when it was dropped. The conversion from v1alpha1 keeps, for
every address of a server, the instance that the list has last; the list of a cache has
no order, so `SelectorsOf` is the set of selectors it may come to. Assumed of the
surroundings: Rancher marks every machine of a cluster before it deletes one
(the comment at `webhook/loadbalancer/validator.go:270`), the cloud provider of a
cluster lives on its machines, and the machines have the finalizer already.

## 3. Runs

All passing runs explore their state space completely. CHECK_DEADLOCK is off in
all but `MCRangeIter` and `MCProber`: the system rests when users do nothing more.

| Run | Question | Result |
|---|---|---|
| `MCRangeIter` | Does the iterator offer every usable address once, in the order `Candidates` says, as many as `Total` says (as an int64), and stop? | holds, for every set of up to two ranges in subnets of 1 to 8 addresses and every last address |
| `MCRaces` | Two load balancers, two addresses, a gateway edited, lagging pool caches: are addresses exclusive, is what is remembered free, are pools leases? | holds (330,000 states) |
| `MCPools` | Two pools, one load balancer, all user operations in any order (selection, change of pool, DHCP, manual release, pools edited, created late, deleted), stale caches and a stale pass: counts, ranges, is an address given up before another is taken, and does a status name an address its owner holds, but for the races named above? | holds (2,270,000 states) |
| `MCLive` | A lagging pool cache, a restart, two failing calls: one address per id and removal releases, but for a search or release that missed it; everybody is served, every removal completes? | holds, the last two under `FairSpec` (290,000 states) |
| `MCProber` | Do calls return, are reports earned and repeated? | holds |
| `MCService` | One server, one edit (health check on or off, another pool, other listeners): do workers follow the load balancer, do only reports mark an endpoint down, do health results reach the EndpointSlice, and does it end up Ready, its Service with the address of its current pool? | holds with one edit; health results in the form below (324,000 states) |
| `MCKubeVip` | Six configmaps, two users, status writes, crashes: do pools conflict that did not race, are status writes refused, does selection depend on the order of a list, are addresses lost, do the controllers start? | holds (634,000 states) |
| `MCGuestCluster` | Two machines of a cluster that is removed and one that is not, two load balancers, all writers: is one left over, does the removal hit another's, does it come to an end; does the network move only where a client says so, does a load balancer stay writable, survive the old API version? | holds (864,000 states) |

The others are counterexamples to what a comment or a message in the code says;
the quotation is in `findings`.

| Run | Property | What happens |
|---|---|---|
| `MCStaleLB` | `BookedIsAllocated` | a pass with an old load balancer releases, as a duplicate, the address that the status has by now; another load balancer may get it |
| `MCDefaultIPAM` | `RemovalReleases` | `OnRemove` does not release if `ipam` was left empty |
| `MCStatusLost` | `StatusFollowsRanges` | the status write is refused after the allocator was registered; it is not tried again |
| `MCNoDummy` | `SomeEndpointReady` | the last server goes down, the pass notified of it is faster than the write of its condition: no dummy endpoint |

`SomeEndpointReady` says what holds when the controller has nothing left to do
(`Quiet`). An event, or the resync of the informers (ten hours by default, in
lasso), would start another pass and repair it.

`ConflictsAreRaces` says of the webhook what it can promise: pools that conflict
were let in without sight of each other. Two users who create overlapping pools
at the same time do get both, and from then on each status write of one is
refused because of the other; `StatusWritesPass` says that this is the only way
to get there. `NoOrphans` has the same form: the load balancers that stay behind
are those in `raced`. So have `BookedUnlessRaced`, `OneAddressUnlessRaced` and
`ReleasedUnlessRaced`: they hold through any lag, fault and restart, for the load
balancers that were in none of the races they name. `BookedIsAllocated` and
`RemovalReleases` are the same without exceptions, as the code's comments have it, and
are what `MCStaleLB` and `MCDefaultIPAM` refute.

`NetworkSticks` does not say that the network never changes: a client may write the
annotation, and one that drops it has the network looked up again. It says that this
is the only way: as `Mutate` runs on every write and finds a network among the
instances that happen to run, any other write could have moved it.
`OldVersionKeeps` does not say that the same instances stay selected: of two with one
address the conversion may take the other. It says that no address of a server that
runs is lost.

### Further races of the same kind

These are behaviours of the modules too. They are recorded here with the
instance that shows them, and have no run of their own.

- *Two addresses for one id.* With `PoolLag` and one fault: a `Reserve` is applied
  but its answer lost; in the retry `GetByID` reads the old cache and the cache
  advances before the search, which skips the first address and reserves another
  (`store.go`: "each ID can only have max 1 IP"). The same comes of ranges that were
  edited in between: `GetByID` asks for addresses in the ranges only, and one that
  was known outside of them is reserved anew. Race `oldSearch`.
- *A release that releases nothing.* With `PoolLag`: `ReleaseByID` does not find
  the allocation in an old cache, returns success, and the finalizer goes. Race
  `oldRelease`.
- *Deleted before the finalizer.* `OnChange` allocates before the finalizer
  adapter, which comes after it, adds the finalizer; a load balancer deleted in
  between goes without `OnRemove`, and its allocation stays until the manual
  release.
- *Created again while released by hand.* Race `byHand`; with the operations
  createLB, deleteLB and annotatePool, four edits, no restart and one fault it gives
  an id two addresses (35 states). The load balancer of the race before is created
  again while the address it left behind is released by hand: the ippool
  controller does not find it in its cache (`ippool/controller.go:189`), and its
  pass looks in the history before the address gets there and in the books after
  the address is gone from them. It reserves another one, the status write fails
  once, and the next pass takes up the address in the history too.
- *Changed and changed back.* Race `editedBack`. Two pools, three edits: the address is released for
  the new pool, the status write is refused because the spec was changed back,
  and the next pass sees an address of the right pool and keeps it.
- *Ready without an address.* After giving up the address for another pool the
  status is written Ready with no address; the next pass allocates one.
- *Reserved while the pool is deleted.* `Delete` of the webhook looks at the
  allocations when the deletion is requested; an address reserved before the
  finalizer is removed goes with the pool. Race `poolGone`.
- *IPv6 /128.* The point-to-point mask is that of an IPv4 /32. A /128 becomes the
  range of its address and the one after it, with the latter as gateway; since
  that gateway is outside the subnet it is counted, and the pool reports two
  addresses of which one can be had. `MCRangeIter` has no /128 for this reason.
- *A late report.* A report that is being handled when the health check is turned
  off is written after `updateAllConditions`: the endpoint stays not Ready.
- *Ready with no healthy server.* The race of `MCNoDummy` also leaves the status
  of the load balancer Ready.
- *Stale and equal.* A change and its reversal (two edits): the pass for the
  second reads a cached EndpointSlice or Service that has not seen the first
  one's write, finds it equal to what it wants and writes nothing; the informers
  of these objects start no other pass.
- *The address of the old pool in the status.* After a change of pool the Service
  asks for the new address, but `status.address` is copied from what kube-vip had
  set by the time of the pass; nothing starts another one when kube-vip follows.
  `EventuallyServes` therefore speaks of the Service and of the allocated address.
- *A range up to the edge.* The conversion takes the smallest subnet around a
  range of the configmap. A range that begins or ends with the first or last
  address of it (4-7 of `AtEdge`) is refused by the webhook, the error is fatal,
  and the controllers never start. IPv6 ranges (`Wide`) get an IPv4 mask and end
  the start too.
- *Two entries, one name.* `cidr-n1` and `range-n1` (`Twice`) give two pools n1. The
  history goes to the one that the iteration gives last, the first one is
  created, the second meets AlreadyExists: the addresses in use are not
  remembered, and the configmap is marked as converted.
- *A pool in the way.* A pool that a user makes between the upgrade and the first
  start keeps a converted one out, and with it all controllers (`InTheWay`).
- *A tie in loose mode.* Two pools of priority 0 with only a project, or only a
  cluster, in their scope are told apart by the webhook, which compares strictly,
  and both match a load balancer of a guest cluster in loose mode: the order of
  the list decides. `ChoiceIsClear` is about scopes the UI can write.
- *A panic at a message.* `vm/controller.go:86` takes the text of the last error,
  which is nil if the last deletion succeeded; see `EndPass`. The removal completes
  all the same, by the restart.
- *Deleted under another's name.* A load balancer deleted and created again between
  the list and the `Delete` is deleted, whatever it is (`SparesMachines`).
- *In the history, not in the books.* The conversion of a v1alpha1 load balancer
  looks for its address in `status.allocated`, while the upgrade has put it into
  the history: until it is reserved again the object does not convert.
- *A server that is down.* The conversion makes the selector of the instances that
  run: one that does not drops out when the old version is written.

### Bounds

`MaxEdits` bounds what users and other controllers do; with 3 or 4 a load
balancer can be created, changed, deleted and created again, or a pool be
created, edited, annotated and deleted. `MaxFaults`, `MaxCrashes` and
`MaxStaleLB` are at most 2, 1 and 1: the properties that break do so with one.
`PoolLag` FALSE makes the pool informer be read only when current; `MCDefaultIPAM`
has it, to show that lag is not needed there, every passing run has lag.
`MaxStaleLB` is 0 in `MCRaces` and `MCLive`, to keep them small, and 1 in `MCPools`.
`Int64Limit` is 2 for pools of up to three addresses, so that their counts wrap.
Two addresses and two load balancers suffice for contention, for a search that skips a taken address, and for
history; the edits of a pool shrink its range (`MCPools`) or put the gateway on
an address of it (`MCRaces`). `MCLive` has one load balancer: another one would
add conflicts on the pool, for which the calls that fail stand. `MaxRanges` is 2, the
least with which the search leaves a range and comes back. `MaxFlips` is how
often a server goes up or down, 2 in `MCProber` so that it flaps; thresholds are
1 and 2, the least that are reached at once and not at once. `MCProber` has two
targets, the ServiceLB runs one: a pass goes through its servers one by one, and
what two of them add, the interplay of their workers, is in `MCProber`.
`EventuallyServes` and `ProbersConverge` hold with one edit; with two they meet
"stale and equal".

`MCKubeVip` takes the work from users and the upgrade in turn: without a configmap
there are three user or status writes, the least with which two pools are
created and one of them edited, deleted or allocated from; with `Plain` (a pool of
a namespace, a global pool, services in both, with DHCP, twice the same address)
one write and one fault; the others (`Twice`, `AtEdge`, `Wide`, `Broken`) are there
for the order of entries and the error paths. Two pools suffice for every check,
as each is on a pair; the five user specs differ in what the checks tell apart:
scope as of the UI, equal priorities, a global pool, a network without definition,
ends the wrong way round.

`MCGuestCluster` bounds what happens (`events`) by where it begins: one event when
two load balancers are to be deleted, so that one of two deletions fails, first or
last; two with one load balancer, so that it is deleted and created again, or
created and the creation race; two on load balancers from before there were checks
and annotations. The removal has begun in the first two, and may begin in the
others. Marking, deletion, status writes and syncs are not bounded.

### Fairness

IPAM: weak fairness of every worker and every informer, that is, a queued key
is processed and a watch event delivered eventually. Users, faults, restarts and
foreign enqueues owe nothing; faults are bounded, as a call that always fails
serves nobody. Prober: tickers fire and probes end (weak); senders on a Go
channel are served first in first out (strong fairness of `Send`); a `select`
with two channels ready chooses at random (strong fairness of `Stop`); the
handler returns. ServiceLB: weak fairness of the pass, of the handling
goroutine, of the informers, and of kube-vip. KubeVip: weak fairness of the start
(the deployment restarts a process that ended, and a leader is elected), of the
webhook answering the leader's requests, and of its informer. GuestCluster: weak fairness
of some worker of the vm controller taking a step (a machine that is being deleted
stays queued until its finalizer is gone); nothing is owed by Rancher, users or
the guest.

With that fairness the handling goroutine may lose every race against the pass
that its own notification started: the pass removes and re-adds the dummy
endpoint, so the handler's copy is stale, its result is refused, and the worker
reports again. `HealthIsNotLost` therefore allows for passes that go on for
ever; what it excludes is that a result is lost while the controller is at rest.

## 4. Proofs

### Ranges and the iterator

`RangeIterProofs` proves, for any number of disjoint ranges, all gateways and every
last address:

- `IterTypes`: `Spec => []TypeOK`
- `IterOffersCandidates`: `Spec => []OffersCandidates`
- `IterOffersOnce`: `Spec => []OffersOnce`
- `IterReachesTotal`: `Spec => []TotalIsReachable`

`Candidates` and `Total` are recursive functions, and the walk over a range set is a
flattened sequence, so what they are is shown by induction, in `RangesProofs`. The
induction theorems of the library take an operator as a parameter, with which the
provers cannot deal; `SetInduction` and `UpTo` say the same of a set of numbers, and
follow from the fact that `<` is well-founded on Nat (`LeastNumber`). With them
`RangesProofs` shows that the recursive functions are what their equations say
(`TotalDef`, `OfferedDef`), which position of the walk an address of a range has
(`WalkCovers`, `WalkInRange`), that the position after it is the next address of the
range or the start of the next range (`WalkNext`), that disjoint ranges make an
injective walk (`RangesDisjoint`, `WalkInjective`: the code compares the ends of ranges
only), and that the addresses that are no gateway are as many as `countIP` sums up
(`TotalIsUsed`), wherever the search began (`OfferedLen`). The sum is one of wrapped
numbers: `Int64` of it is `Int64` of the true count, as `Int64` of a sum does not depend
on whether its terms were wrapped before (`Int64Assumption`: the limit is positive).

The invariant `IterInv` says of the iterator that it has made k steps of the search
for some k (`Reached`): the cursor is the address at that position of the walk, `startIP`
that of the first step, and `out` is what k steps of `Offered` offer. None of the four
properties is inductive, as they speak of `out` alone, and the iterator stops by
comparing cursor and `startIP`: that it comes back to `startIP` after exactly one round,
not earlier, needs that the walk is injective.

Assumed are `NoneAssumption` (nil is no number), `MaxRangesAssumption`, and
`RangeSpecsAssumption`: the fields of a spec are numbers or nil, an IPv6 subnet is no
/128 (section 3, *IPv6 /128*), and 2^h is a number, 1 for no host bits and at least 2
for more, as the prover does not know powers.

### IPAM

`IPAMProofs` proves, for every set of load balancers, pools and addresses, all
range sets, specs, preferences, user operations and bounds (`IPAMAssumption`: sorts are
disjoint from the nil values, addresses are a finite set of numbers;
`RangesAssumption`: the ranges of pools are such as `MakeRange` makes them, of those
addresses):

- `TypeCorrect`: `Spec => []TypeOK`
- `AccountingHolds`: `Spec => []Accounting`
- `HistoryIsFreeHolds`: `Spec => []HistoryIsFree`
- `AllocatedInRangeHolds`: `Spec => []AllocatedInRange`
- `NoStealingHolds`: `Spec => NoStealing`
- `LeasesImplemented`: `Spec => ImplementsLeases`

The inductive invariant is `IndInv == TypeOK /\ Shape /\ CurrentCopies` with

- `Shape`: what the program counter of a pass says of its local variables (a pass
  that has reached a pool knows which, one that searches has ranges, one that
  reserves has an address left to try, a pool worker works on an object that
  exists), and that every pool that exists has ranges. `TypeOK` is not inductive
  without it.
- `CurrentCopies`: a copy that claims to be current is: a synced pool cache, and
  the copy of a pool pass that is fresh, equal the object.

No safety property of the pools is inductive without `CurrentCopies`: a writer
computes the new object from its copy, and only because `Update` demands that
the copy be current does the new object inherit the property from the old one.
From it `PoolStep` shows that whatever step is taken, every pool object makes a
`PoolChange`: it is reserved from, released to, given its status by
`updateStatus`, edited without touching its books, emptied, or left alone. The
invariant `Books` (balanced counts, history disjoint from allocations,
allocations in range) is then proved by cases of `PoolChange`, not of `Next`, and
`AccountingHolds`, `HistoryIsFreeHolds` and `AllocatedInRangeHolds` are its parts.
`NoStealingHolds` follows from `PoolChange` directly, and `LeasesImplemented` from
it, `Books` and `OnePoolStep` (a step writes at most one pool), each case of
`PoolChange` being one action of `Leases`. That counts are integers and that the
iterator offers addresses of the ranges only is taken from `RangesProofs`
(`TotalType`, `CandidatesType`).

### Pools and load balancers together

`IPAMBookingProofs` is about the address as it is kept in two objects. Its theorems
have no condition on the constants: any lag of the caches of pools and load balancers,
any user operations, faults and restarts.

- `AddressIsGivenUpFirst`: `Spec => AddressGivenUpFirst`
- `BookedAddressesAreHeld`: `Spec => []BookedUnlessRaced`
- `OneAddressHolds`: `Spec => []OneAddressUnlessRaced`
- `RemovalReleasesFirst`: `Spec => ReleasedUnlessRaced`

The first is by `StatusInv`: copies of a load balancer that count as current are
current, and what a pass is about (`LBIntent`) fits the copy it works on: an address is
looked for only for a load balancer without one.

The other three say of a load balancer what holds as long as it was in none of the
races of their statement (section 2, *IPAM*). `MovesStep` says what a step does to the
allocations of a pool (`Moved`): it grants an address that nobody has to the load
balancer whose worker reserves (`Granted`), frees one of the load balancer whose worker
releases (`Freed`) or that is released by hand (`FreedByHand`), drops the pool
(`Dropped`), or changes no allocation (`Tidied`). `HolderStep` takes from it when a load
balancer loses or gets an address, and that the two ways that are not its own worker's
are remembered (`HandIsRemembered`, `DropIsRemembered`); `RacesStay` and
`SparedBefore` say that `raced` grows only, so that who is spared now was spared before.
Then, each for the load balancers that are spared:

- `BookingInv` adds to `BookedUnlessRaced` what a pass may rely on: the address it is
  about to write is allocated to it, an address that the cached pool shows as its
  own while it searches is its own still, and the status it began with is that of the
  object. `BookedUnlessRaced` alone is not inductive, since it says nothing of an
  address between the Update of the pool and that of the status.
- `SearchInv` says that an id is known, as allocation or in the history, at one address
  at most (`KnownOnce`), and that a pass that has looked and found nothing is right
  (`SearchPass`). History counts, as a search takes up what it finds there.
- `RemovalInv` says that a pass that is about to remove the finalizer holds nothing in
  the pool that the status names.

### Health checks

`ServiceLBProofs` proves, for any load balancers, addresses, thresholds and calls:

- `ProberTypeCorrect`: `Spec => []TypeOK`
- `EveryReportIsEarned`: `Spec => []ReportsAreEarned`

by `ProberInv`: `Counted` says of each worker that its counters are the streak of
equal results it has seen, that they are below their thresholds unless it is about
to report, and that the one it reports has reached its own. It goes on to prove, for
any number of instances, specs and edits and any lag of the caches:

- `ServiceTypeCorrect`: `SvcSpec => []ServiceTypeOK`
- `ServiceUsesProber`: `SvcSpec => ProberInit /\ [][Next]_proberVars`, and by it
  `ServiceReportsAreEarned`: the prober is used as its specification allows
- `NoWorkersAfterRemoval`: `SvcSpec => []GoneHasNoWorkers`
- `ReadyUntilReported`: `SvcSpec => OnlyReportsMarkDown`

`GoneInv` adds to `GoneHasNoWorkers` that the load balancer does not come back to life
(`Versions`: a copy that is being deleted is of an object that is), that only `OnChange` over
a live copy starts workers, that the object goes only by `OnRemove` (`Phases`), and that
a removal waits for every worker there is (`Stopping`). The load balancer cannot go
while a pass of `OnChange` is under way, stale or not, since one key has one worker at
a time. `SliceInv` says that a copy of the EndpointSlice with which somebody may
write is what the object is (`Copies`): so a pass, which marks nothing down in its
copy, marks nothing down in the object, whatever the health handler wrote meanwhile.

### Admission of pools

`PoolAdmissionProofs` proves, for every set of pools, clients, specs, requirements
and networks and any lag of the webhook's cache:

- `AdmissionTypes`: `AdmissionSpec => []AdmissionTypeOK`
- `OnlyRacesConflict`: `AdmissionSpec => []ConflictsAreRaces`
- `StatusNotRefused`: `AdmissionSpec => []StatusWritesPass`
- `ChoiceNeedsNoOrder`: `AdmissionSpec => []ChoiceIsClear`

from `HostAssumption` (2^h exceeds h for the host bits there are, as the prover
does not know powers), `RequirementsAssumption` (a load balancer requires no
wildcard), `SpecsAssumption` (a spec has numbers for its subnets, and a selector whose
priority is one) and `PoolsAssumption` (finitely many pools, all with a name).
The inductive invariant is `AdmissionInv`: types; `AllAdmitted`, that every object
not being deleted has its labels and passed the checks on itself; `RequestsOK`,
that a request past a check fits the pools it saw, as they still are; and
`VettedFit`, that vetted pairs fit. `ConflictsAreRaces` is not inductive: it says
nothing of requests under way, and a conflict is not what the code checks. `Fits`
is what it checks. It is shown to exclude a conflict (`DisjointShareNothing`: the
code only compares the ends of two ranges, which suffices since a range begins
inside its subnet; `FitNoTie`: two pools with the same priority that match a common
requirement match each other), and to be symmetric (`DisjointSymmetric`,
`SelectorsFitSymmetric`), by which a status write passes whichever pool came first.

The last theorem is about `Select` walking over the pools in any order. By induction over
the list, what it has found after i pools is the last of those with the highest
priority among the i (`FoundIn`, `VisitKeeps`), so the result is one that `Choice`
allows, which does not mention the order (`SelectChooses`). Pools that fit allow one
(`SelectIPPoolUnique`): in the strict try, since two pools of the same priority that match
a requirement without wildcards would match each other (`FitMatchesOnce`); in the loose
one, which is made only if nothing matches strictly and no pool is global, since a
scope of the UI that matches only there has neither project nor cluster, so again two of
them would match each other (`LooseMatchesUnset`). Without that restriction to scopes of
the UI it is false (*A tie in loose mode*).

### The start

`KubeVipProofs` proves that `KubeVip` implements `PoolAdmission`
(`StartIsAdmission: Spec => AdmissionSpec`), from `ClientsAssumption` and
`ConfigsAssumption` (what the conversion returns is among the pools, specs and
histories there are; TLC evaluates it for the instance). The invariant is
`BootOK`: the pools still to be created are well formed, and some are left while one
is created. With it follow `StartTypes` (`Spec => []TypeOK`) and
`ConvertedPoolsFit` (`Spec => [](ConflictsAreRaces /\ StatusWritesPass /\ ChoiceIsClear)`):
what holds of the webhook holds through every upgrade and crash.

`UpgradeKeepsAddresses` (`Spec => []AddressesSurviveUpgrade`) is by `UpgradeInv`. Every
start converts the configmap anew, in another order of its entries, and meets the
pools that an earlier one made. So the invariant is not about the list of one start:
whatever the leader made, is making or has on its list remembers what it is to keep
(`HistoriesKept`, by `ConversionRemembers` for every order); every pool that is to keep
an address has been there or is on the list (`NoneForgotten`); an answer ok or
AlreadyExists means that the pool has been there (`Waiting`, `AllBorn`). It uses
`EntriesAssumption`: a configmap has finitely many entries, and the address that
asks for DHCP is none of the addresses.

### Guest clusters

`GuestClusterProofs` proves, for any number of machines, load balancers, clusters,
failing calls and restarts, and any lag of the two caches:

- `GuestTypeCorrect`: `Spec => []GuestTypeOK`
- `RemovalLeavesNoOrphans`: `Spec => []NoOrphans`
- `StoredStaysWritable`: `Spec => []StaysWritable`
- `NetworkIsKept`: `Spec => NetworkSticks`
- `OldVersionTakesNothing`: `Spec => OldVersionKeeps`
- `RemovalSparesMachines`: `Spec => SparesMachines`

`NoOrphans` is about the state when all machines are gone, so the invariant `GuestInv`
has to follow the removal: a cluster that is being removed has a live machine or all
are marked (`Marked`); a pass over a marked machine has every load balancer of the
cluster that is not raced on its list, unless a `Delete` failed, after which its
finalizer stays (`Cleaning`); a Create under way was let in before the marks, or by
a cache that lags, and will be raced (`Requests`). `Stored` says that every object
passes the checks of the webhook as patched by the mutator, `Sighted` that the uid of
a load balancer of a cluster stays that of one. The four about writes rest on
what mutator, validator and conversion do to an object (`MutateKeeps`, `UpdateKeeps`
and so on), proved of the operators of `LBWebhook` for all load balancers;
`OldVersionTakesNothing` on `SelectorsServe`, that any selector the conversion may come
to has an instance for every address of a server that runs, and on `OneAddress`, that
an instance has one first address, so that this one has the same.

`WebhookAssumption` and `GuestAssumption` give the types of the constants and say in
addition: no cluster that is removed has the default name `kubernetes`, which the webhook
does not check (`validator.go:235`); no address is in the books of two pools
under one id, of which the conversion would take any; what is stored at the start
has listeners that pass, and a health check on one of them if any: these checks
are older than the completion of health checks, which what is stored may lack.

### Only model-checked

Every invariant and every action property of a passing run is stated by a theorem.
Left to TLC:

- Liveness (`EventuallyServed`, `RemovalCompletes`, and the liveness of the iterator,
  the prober, `ServiceLB`, `KubeVip` and `GuestCluster`): the prover has neither
  fairness nor ENABLED.
- The properties of the runs that expect a violation, which do not hold.

## 5. Not modelled

- Generated and vendored code (typed clients, deep copies, fake clients of tests,
  `pkg/codegen`): it is used as the API server and the informers of the modules.
  Of the vendored code, host-local's allocator and the handler chain of lasso and
  wrangler are modelled where the program runs through them.
- Text: formats of keys, addresses and ranges, `SplitIPAllocatedString`, messages,
  logs, metrics. Whether a text parses is part of an input where a handler
  branches on it.
- Flags, clients, signals, certificates, the election of a leader, rate limits, the
  ten-hour resync.
- `Store.Release` by address, which host-local never calls.
- Changes of network definitions and of the project of a namespace: `Vids` and
  `Projects` are constants. Without its definition a pool can be neither edited nor
  allocated from, since the mutator fails on every write.
- The conversion of a v1alpha1 object without status, on which a type assertion
  panics.
- Sessions and packets: what kube-proxy and kube-vip do with a Service beyond giving
  it its address.

## 6. Plan

1. `IPAM` over `Selection` in place of `Preference`, if an instance small enough can
   be found.
2. The upgrade and the conversion of old load balancers in one module, for *In the
   history, not in the books*.
