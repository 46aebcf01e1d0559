----------------------------- MODULE MCMqttPool -----------------------------
(* MqttPool for TLC: a handful of publish() calls over a small pool. *)
EXTENDS MqttPool, TLC

Symmetry == Permutations(Jobs)
=============================================================================
