----------------------------- MODULE MCServiceLB ----------------------------
(* Instances of ServiceLB for TLC: one load balancer, one server. *)
EXTENDS ServiceLB

CONSTANTS t1, a, b

OneUID == [t \in Targets |-> Uid]

\* The success threshold is left unset, as objects from before it was checked
\* may have it.
FirstFailure == [success |-> 0, failure |-> 1]
Fast         == [success |-> 1, failure |-> 1]
OnlyFast     == {Fast}

\* A load balancer that asks for its address by DHCP and is health checked or
\* not, and one with its address from pool a or, with other listeners, from b.
Checked   == [hc |-> FirstFailure, ports |-> 1, pool |-> AskDHCP]
Unchecked == [hc |-> NoOption, ports |-> 1, pool |-> AskDHCP]
InPoolA   == [hc |-> NoOption, ports |-> 1, pool |-> a]
InPoolB   == [hc |-> NoOption, ports |-> 2, pool |-> b]

AllSpecs    == {Checked, Unchecked, InPoolA, InPoolB}
OnlyChecked == {Checked}
=============================================================================
