----------------------------- MODULE MqttTopic -----------------------------
(***************************************************************************)
(* Topic filters (src/mqtt_topic.cpp).  A topic and a filter are sequences  *)
(* of levels, as split_levels() makes them: never empty, the empty string   *)
(* being the one empty level.                                               *)
(***************************************************************************)
EXTENDS Integers, Sequences

CONSTANT DollarLevels   \* the levels that begin with a '$'

ASSUME DollarAssumption == {"", "+", "#"} \cap DollarLevels = {}

EmptyString == <<"">>

(* Where the loop of topic_matches_filter() leaves: at a '#', at the end of  *)
(* the topic or at a level that differs, whichever it meets first.           *)
Stops(topic, filter) ==
  {i \in 1 .. Len(filter) : \/ filter[i] = "#"
                            \/ i > Len(topic)
                            \/ filter[i] # "+" /\ filter[i] # topic[i]}

(* Mutant: the end of the topic is looked at before the '#'. *)
topic_matches_filter_too_short(topic, filter) ==
  /\ filter # EmptyString /\ topic # EmptyString
  /\ ~(topic[1] \in DollarLevels /\ filter[1] \in {"+", "#"})
  /\ \/ Stops(topic, filter) = {} /\ Len(topic) = Len(filter)
     \/ \E i \in Stops(topic, filter) :
          /\ \A k \in Stops(topic, filter) : i <= k
          /\ i <= Len(topic)
          /\ filter[i] = "#" /\ i = Len(filter)

topic_matches_filter(topic, filter) ==
  /\ filter # EmptyString /\ topic # EmptyString
  /\ ~(topic[1] \in DollarLevels /\ filter[1] \in {"+", "#"})
  /\ \/ Stops(topic, filter) = {} /\ Len(topic) = Len(filter)
     \/ \E i \in Stops(topic, filter) :
          /\ \A k \in Stops(topic, filter) : i <= k
          /\ filter[i] = "#" /\ i = Len(filter)

topic_matches_any(topic, filters) ==
  \E filter \in filters : topic_matches_filter(topic, filter)

-----------------------------------------------------------------------------
(* What a filter means in MQTT (version 3.1.1, section 4.7), as the set of   *)
(* topics, among the given ones, that it stands for.                         *)

IsFilter(filter) ==
  filter # EmptyString /\ \A i \in 1 .. Len(filter) : filter[i] = "#" => i = Len(filter)

(* The levels match one by one, for the first n of them. *)
Agree(topic, filter, n) ==
  n <= Len(topic) /\ \A i \in 1 .. n : filter[i] \in {"+", topic[i]}

Denotes(filter, topics) ==
  {topic \in topics :
     /\ IsFilter(filter) /\ topic # EmptyString
     /\ topic[1] \in DollarLevels => filter[1] = topic[1]
     /\ IF filter[Len(filter)] = "#"
        THEN Agree(topic, filter, Len(filter) - 1)
        ELSE Len(topic) = Len(filter) /\ Agree(topic, filter, Len(filter))}
=============================================================================
