---------------------------- MODULE MetricNames ----------------------------
(***************************************************************************)
(* From names in the store to names Prometheus accepts (src/metrics.cpp).   *)
(* A name is a sequence of symbols; NameSymbols are those that stay in a    *)
(* name, Digits the ones it may not begin with.                             *)
(***************************************************************************)
EXTENDS Integers, Sequences, FiniteSets, SequencesExt

CONSTANTS NameSymbols, Digits

ASSUME DigitsAssumption ==
  NameSymbols \subseteq STRING /\ Digits \subseteq NameSymbols /\ "_" \in NameSymbols \ Digits

normalize_metric_name(prefix, name, topic_prefix) ==
  LET raw == topic_prefix \o name
      body == [i \in DOMAIN raw |-> IF raw[i] \in NameSymbols THEN raw[i] ELSE "_"]
  IN prefix \o (IF body # << >> /\ body[1] \in Digits THEN <<"_">> ELSE << >>) \o body

(* The members of a set of positions in ascending order. *)
Ascending(P) ==
  [k \in 1 .. Cardinality(P) |-> CHOOSE n \in P : Cardinality({m \in P : m <= n}) = k]

(* Mutant: only the entry before is looked at. *)
normalize_all_neighbours(prefix, items, topic_prefix) ==
  LET prom(n) == normalize_metric_name(prefix, items[n][1], topic_prefix)
      claiming == {n \in DOMAIN items : n = 1 \/ prom(n - 1) # prom(n)}
      kept == Ascending(claiming)
      dropped == Ascending(DOMAIN items \ claiming)
  IN [metrics |-> [k \in DOMAIN kept |-> <<prom(kept[k]), items[kept[k]][2]>>],
      collisions |-> [k \in DOMAIN dropped |-> items[dropped[k]][1]]]

(* The entries in the order of the snapshot: the first to claim a name gets  *)
(* it, the others are reported as collisions.                                *)
normalize_all(prefix, items, topic_prefix) ==
  LET prom(n) == normalize_metric_name(prefix, items[n][1], topic_prefix)
      claiming == {n \in DOMAIN items : \A k \in 1 .. n - 1 : prom(k) # prom(n)}
      kept == Ascending(claiming)
      dropped == Ascending(DOMAIN items \ claiming)
  IN [metrics |-> [k \in DOMAIN kept |-> <<prom(kept[k]), items[kept[k]][2]>>],
      collisions |-> [k \in DOMAIN dropped |-> items[dropped[k]][1]]]
=============================================================================
