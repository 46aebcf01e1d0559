---------------------------- MODULE MCMetricSync ----------------------------
(* MetricSync for TLC: two clients, two connections. *)
EXTENDS MetricSync, TLC

Symmetry == Permutations(Threads) \cup Permutations(Conns)
=============================================================================
