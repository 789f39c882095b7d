------------------------------ MODULE MCKubeVip ------------------------------
(* An instance of KubeVip for TLC: addresses 0 to 15. *)
EXTENDS KubeVip, TLC

CONSTANTS user1, user2, startup

\* Subnet net with host bits host, addresses start..end of it.
Rng(net, host, start, end) ==
    [family |-> "v4", net |-> net, host |-> host, start |-> start, end |-> end, gw |-> None]

Scope(project, namespace, cluster) ==
    <<[project |-> project, namespace |-> namespace, cluster |-> cluster]>>

Sel(priority, scope) == [network |-> "", priority |-> priority, scope |-> scope]

\* What users write: a pool for a namespace as the UI makes it, two pools for a
\* guest cluster with the same priority, a global pool, whose ends are the wrong
\* way round, with addresses of the configmap's, and a pool on a network
\* without a definition.
MCUserSpecs ==
    {[ranges |-> <<Rng(12, 2, 13, 14)>>, sel |-> Sel(0, Scope("", "n1", ""))],
     [ranges |-> <<Rng(8, 2, None, None)>>, sel |-> Sel(1, Scope("*", "n1", "c1"))],
     [ranges |-> <<Rng(12, 2, 13, 13)>>, sel |-> Sel(1, Scope("*", "*", "c1"))],
     [ranges |-> <<Rng(0, 3, 6, 2)>>, sel |-> Sel(0, Scope("*", "*", "*"))],
     [ranges |-> <<Rng(8, 2, 9, 9)>>,
      sel |-> [Sel(0, Scope("*", "n1", "*")) EXCEPT !.network = "lost"]]}

Cidr(name, net, host) ==
    [format |-> "cidr", name |-> name,
     ranges |-> <<[family |-> "v4", net |-> net, host |-> host]>>]
Span(name, family, start, end) ==
    [format |-> "range", name |-> name,
     ranges |-> <<[family |-> family, start |-> start, end |-> end]>>]
Svc(namespace, vip, owner) == [namespace |-> namespace, vip |-> vip, owner |-> owner]

\* kubevip-services in kube-system, and a key without a dash.
Skipped == [format |-> "kubevip", name |-> "services", ranges |-> <<[family |-> "bad"]>>]
BadKey  == [format |-> None, name |-> None, ranges |-> <<>>]

Plain   == [entries  |-> {Skipped, Span("n1", "v4", 1, 2), Cidr("global", 4, 2)},
            services |-> <<Svc("n1", 1, "n1/a"), Svc("n1", 5, "n1/b"), Svc("n2", 6, "n2/a"),
                           Svc("n2", AskDHCP, "n2/b"), Svc("n2", None, "n2/c"), Svc("n2", 1, "n2/d")>>]
Twice   == [entries  |-> {Span("n1", "v4", 1, 2), Cidr("n1", 8, 2)},
            services |-> <<Svc("n1", 1, "n1/a"), Svc("n1", 9, "n1/b")>>]
AtEdge  == [entries  |-> {Span("n1", "v4", 4, 7)}, services |-> <<>>]
Wide    == [entries  |-> {Span("n1", "v6", 1, 2)}, services |-> <<Svc("n1", 1, "n1/a")>>]
Broken  == [entries  |-> {BadKey}, services |-> <<>>]

MCMaxEdits == [c \in {None, Plain, Twice, AtEdge, Wide, Broken} |->
                 CASE c = None -> 3 [] c = Plain -> 1 [] OTHER -> 0]

MCMaxFaults == [c \in {None, Plain, Twice, AtEdge, Wide, Broken} |->
                 IF c \in {Plain, Twice} THEN 1 ELSE 0]

MCConfigs == {None, Plain, Twice, AtEdge, Wide, Broken}

MCSpecs == MCUserSpecs \cup
    UNION {{MakeIPPool(e) : e \in {x \in c.entries : Known(x)}} : c \in MCConfigs \ {None}}

MCHistories == {<<>>} \cup
    UNION {{HistoryOf(order, c.services, i) : i \in 1 .. 2, order \in EntryOrders(c.entries)} :
              c \in {Plain, Twice}}

MCRequirements == [network : {""}, project : {"", "p1"}, namespace : {"n1", "n2"},
                   cluster : {"", "c1", "c2"}]
MCBalancers ==
    {[network |-> "", project |-> "p1", namespace |-> n, annotated |-> "",
      cluster |-> w[2], type |-> w[1]] :
        n \in {"n1", "n2"}, w \in {<<"vm", "">>, <<"cluster", "c1">>}}
MCVids == [n \in {"n1/net"} |-> 7]
=============================================================================
