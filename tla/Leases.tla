------------------------------- MODULE Leases -------------------------------
(***************************************************************************)
(* What the pools promise, with no caches, versions or controllers: an     *)
(* address of a pool is leased to at most one client, a lease ends before  *)
(* the address is leased again, and the room a pool reports is its size    *)
(* less its leases.                                                        *)
(***************************************************************************)
EXTENDS GoInts

CONSTANTS Pools, Addresses, Clients, Nobody,
          Sizes    \* the sizes a pool may be given

VARIABLES lease,   \* lease[p][ip]: the client that holds ip of pool p
          size,    \* size[p]: the number of addresses pool p says it has
          room     \* room[p]: the number of them it says are left

vars == <<lease, size, room>>

\* Any pools, with nothing leased.
Init ==
    /\ lease = [p \in Pools |-> [ip \in Addresses |-> Nobody]]
    /\ size \in [Pools -> Sizes]
    /\ room = size

Grant(p, ip, c) ==
    /\ lease[p][ip] = Nobody
    /\ lease' = [lease EXCEPT ![p][ip] = c]
    /\ room' = [room EXCEPT ![p] = Int64(@ - 1)]
    /\ UNCHANGED size

End(p, ip) ==
    /\ lease[p][ip] # Nobody
    /\ lease' = [lease EXCEPT ![p][ip] = Nobody]
    /\ room' = [room EXCEPT ![p] = Int64(@ + 1)]
    /\ UNCHANGED size

\* The ranges of the pool were edited and its status brought up to date: the
\* room changes by as much as the size.
Resize(p, n) ==
    /\ size' = [size EXCEPT ![p] = n]
    /\ room' = [room EXCEPT ![p] = Int64(@ + n - size[p])]
    /\ UNCHANGED lease

\* The pool is deleted, its leases with it.
Drop(p) ==
    /\ lease' = [lease EXCEPT ![p] = [ip \in Addresses |-> Nobody]]
    /\ size' = [size EXCEPT ![p] = 0]
    /\ room' = [room EXCEPT ![p] = 0]

Next ==
    \E p \in Pools :
        \/ \E ip \in Addresses, c \in Clients : Grant(p, ip, c)
        \/ \E ip \in Addresses : End(p, ip)
        \/ \E n \in Sizes : Resize(p, n)
        \/ Drop(p)

Spec == Init /\ [][Next]_vars
=============================================================================
