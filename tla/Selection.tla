------------------------------ MODULE Selection ------------------------------
(***************************************************************************)
(* Which pool serves a load balancer: the selectors of pools and the       *)
(* choice among them (pkg/ipam/selector.go), and the requirement that the  *)
(* loadbalancer controller derives from a load balancer.                   *)
(*                                                                         *)
(* A selector is [network, priority, scope], its scope a sequence of       *)
(* tuples [project, namespace, cluster]; a requirement is                  *)
(* [network, project, namespace, cluster].                                 *)
(***************************************************************************)
EXTENDS Integers, Sequences, SequencesExt

NoName        == ""

All           == "*"
EmptySelector == ""

FieldMatches(t, r) == t = All \/ r = All \/ t = r

\* isMatch: in loose mode an unset project or guest cluster matches any.
IsMatch(t, r, loose) ==
    /\ FieldMatches(t.project, r.project) \/ (loose /\ t.project = EmptySelector)
    /\ FieldMatches(t.namespace, r.namespace)
    /\ FieldMatches(t.cluster, r.cluster) \/ (loose /\ t.cluster = EmptySelector)

\* Matcher.Matches.
Matches(sel, r, loose) ==
    /\ sel.network = r.network
    /\ \E i \in DOMAIN sel.scope : IsMatch(sel.scope[i], r, loose)

\* The requirement that one tuple of a selector makes of the others.
AsRequirement(sel, i) ==
    [network   |-> sel.network,
     project   |-> sel.scope[i].project,
     namespace |-> sel.scope[i].namespace,
     cluster   |-> sel.scope[i].cluster]

\* isGlobalIPPool.
IsGlobalIPPool(sel) ==
    sel.scope = <<[project |-> All, namespace |-> All, cluster |-> All]>>

\* A mutant: the priority of the pool selected so far is forgotten.
SelectLast(list, pool, r, loose) ==
    LET usable == SelectSeq(list, LAMBDA p : Matches(pool[p].sel, r, loose))
    IN  IF usable = <<>> THEN NoName ELSE Last(usable)

\* Select looks at one pool.  Pools with the global label are for when nothing
\* matches; of the pools that match, the last one with the highest priority
\* wins.
Visit(found, p, pool, r, loose) ==
    IF pool[p].global
    THEN [found EXCEPT !.global = p]
    ELSE IF /\ Matches(pool[p].sel, r, loose)
            /\ pool[p].sel.priority >= found.priority
         THEN [found EXCEPT !.selected = p, !.priority = pool[p].sel.priority]
         ELSE found

\* Selector.Select: one walk over the cached pools, in the order of the list.
Select(list, pool, r, loose) ==
    LET found[i \in 0 .. Len(list)] ==
            IF i = 0 THEN [selected |-> NoName, global |-> NoName, priority |-> 0]
                     ELSE Visit(found[i - 1], list[i], pool, r, loose)
        best == found[Len(list)]
    IN  IF best.selected # NoName THEN best.selected ELSE best.global

\* selectIPPool of the loadbalancer controller.  A load balancer of type
\* cluster that nothing matches is tried once more in loose mode.
SelectIPPool(list, pool, lb) ==
    LET r == [network   |-> lb.network,
              project   |-> lb.project,
              namespace |-> IF lb.annotated # NoName THEN lb.annotated
                                                     ELSE lb.namespace,
              cluster   |-> lb.cluster]
        strict == Select(list, pool, r, FALSE)
    IN  IF strict # NoName \/ lb.type # "cluster"
        THEN strict
        ELSE Select(list, pool, r, TRUE)
=============================================================================
