------------------------------ MODULE MCProber ------------------------------
(* An instance of Prober for TLC: a load balancer with two addresses. *)
EXTENDS Prober

CONSTANTS u, t1, t2

OneUID == [t \in {t1, t2} |-> u]

\* The default thresholds are 1 and 3; what matters is 1 and more than 1.
BothOptions == {[success |-> 1, failure |-> 2], [success |-> 2, failure |-> 2]}
=============================================================================
