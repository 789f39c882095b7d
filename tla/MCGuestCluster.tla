---------------------------- MODULE MCGuestCluster ----------------------------
(* An instance of GuestCluster for TLC. *)
EXTENDS GuestCluster, TLC

Nic(ip) == [v4 |-> TRUE, ip |-> ip]

\* Two machines of guest cluster gc, in different networks, and one of nobody's
\* with the same address as one of them.
MCMachine ==
    [g1 |-> [cluster |-> "gc", creator |-> TRUE, prefixes |-> {"gc"},
             networks |-> <<"", "net1">>, addresses |-> <<>>],
     g2 |-> [cluster |-> "gc", creator |-> TRUE, prefixes |-> {"gc"},
             networks |-> <<"net2">>, addresses |-> <<Nic("s1")>>],
     u  |-> [cluster |-> None, creator |-> FALSE, prefixes |-> {},
             networks |-> <<"">>, addresses |-> <<[v4 |-> FALSE, ip |-> "s6"], Nic("s1")>>]]

Empty == [type |-> "", label |-> None, cluster |-> "", net |-> "", mgmt |-> "",
          namespace |-> "", project |-> "", listeners |-> <<>>, hc |-> NoCheck,
          ipam |-> "pool", pool |-> "", selector |-> {},
          allocated |-> [pool |-> "", ip |-> ""], address |-> "", servers |-> {},
          deleting |-> FALSE]

Web == [name |-> "web", port |-> 80, protocol |-> "TCP", backendPort |-> 8080]
Dns == [name |-> "dns", port |-> 53, protocol |-> "UDP", backendPort |-> 53]

Check(port, n) == [port |-> port, success |-> n, failure |-> n, period |-> n, timeout |-> n]

\* A load balancer of the guest cluster, and one of a virtual machine.
Guest   == [Empty EXCEPT !.type = "cluster", !.label = "gc", !.cluster = "gc"]
Plain   == [Empty EXCEPT !.type = "vm", !.label = "gc", !.listeners = <<Web, Dns>>,
                         !.selector = {"u"}, !.hc = Check(8080, 3)]
\* As before the webhook had checks: no thresholds, no annotations.
OldVM    == [Plain EXCEPT !.type = "", !.hc = Check(8080, 0)]
OldGuest == [Guest EXCEPT !.ipam = "dhcp"]

MCWanted == [l1 |-> {Guest, Plain}, l2 |-> {}]

MCLease  == [l1 |-> [pool |-> "p1", ip |-> "i1"], l2 |-> [pool |-> "p2", ip |-> "i2"]]

Settled(lb, lease) == [lb EXCEPT !.net = "net1", !.namespace = "ns", !.project = "c/p",
                                 !.allocated = lease, !.address = lease.ip]

\* Two load balancers for one fault to hit, one and time for it to be replaced,
\* none and time for one to appear, and old ones.
Begin(l1, l2, gone, n) == [lbs |-> [l1 |-> l1, l2 |-> l2], removing |-> gone, events |-> n]
MCStarts ==
    {Begin(Settled(Guest, MCLease.l1), Settled(Guest, MCLease.l2), {"gc"}, 1),
     Begin(Settled(Guest, MCLease.l1), None, {"gc"}, 2),
     Begin(None, None, {"gc"}, 2),
     Begin(OldVM, None, {}, 2),
     Begin(OldGuest, None, {}, 2)}
MCChecks == {Check(8080, 0)}
MCBooks  == [p1 |-> [i1 |-> "l1"], p2 |-> [i2 |-> "l2"]]
MCProjects == [ns |-> "c/p"]
=============================================================================
