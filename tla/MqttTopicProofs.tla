-------------------------- MODULE MqttTopicProofs --------------------------
(* topic_matches_filter() computes what MQTT says, for every topic and filter. *)
EXTENDS MqttTopic, TLAPS

(* What split_levels() can return. *)
Levels == {s \in Seq(STRING) : s # << >>}

(* A filter that the code matches stands for the topic: before the place     *)
(* where the loop stops there is no '#', and the levels agree.               *)
LEMMA MatchIsMeant ==
  ASSUME NEW topic \in Levels, NEW filter \in Levels,
         topic_matches_filter(topic, filter)
  PROVE  topic \in Denotes(filter, {topic})
<1> USE DEF Levels
<1>1. /\ filter # EmptyString /\ topic # EmptyString
      /\ ~(topic[1] \in DollarLevels /\ filter[1] \in {"+", "#"})
  BY DEF topic_matches_filter
<1>2. Len(filter) \in Nat /\ Len(filter) >= 1 /\ Len(topic) \in Nat /\ Len(topic) >= 1
  OBVIOUS
<1>3. CASE Stops(topic, filter) = {} /\ Len(topic) = Len(filter)
  <2>1. \A i \in 1 .. Len(filter) : filter[i] # "#" /\ filter[i] \in {"+", topic[i]}
    BY <1>3 DEF Stops
  <2>2. IsFilter(filter)
    BY <1>1, <2>1 DEF IsFilter
  <2>3. Agree(topic, filter, Len(filter))
    BY <1>2, <1>3, <2>1 DEF Agree
  <2>4. filter[Len(filter)] # "#" /\ filter[1] \in {"+", topic[1]}
    BY <1>2, <2>1
  <2> QED BY <1>1, <1>3, <2>2, <2>3, <2>4 DEF Denotes
<1>4. CASE \E i \in Stops(topic, filter) :
             /\ \A k \in Stops(topic, filter) : i <= k
             /\ filter[i] = "#" /\ i = Len(filter)
  <2>1. PICK n \in Nat : n = Len(filter) /\ n >= 1
    BY <1>2
  <2>2. filter[n] = "#" /\ \A k \in Stops(topic, filter) : n <= k
    BY <1>4, <2>1
  <2>3. \A k \in 1 .. n - 1 : /\ filter[k] # "#" /\ k <= Len(topic)
                             /\ filter[k] \in {"+", topic[k]}
    BY <1>2, <2>1, <2>2 DEF Stops
  <2>4. IsFilter(filter)
    BY <1>1, <2>1, <2>3 DEF IsFilter
  <2>5. n = 1 \/ (1 \in 1 .. n - 1 /\ n - 1 \in 1 .. n - 1)
    BY <2>1
  <2>6. Agree(topic, filter, n - 1)
    <3>1. n - 1 <= Len(topic)
      BY <1>2, <2>3, <2>5
    <3> QED BY <3>1, <2>3 DEF Agree
  <2>7. topic[1] \in DollarLevels => filter[1] = topic[1]
    BY <1>1, <2>2, <2>3, <2>5
  <2> QED BY <1>1, <2>1, <2>2, <2>4, <2>6, <2>7 DEF Denotes
<1> QED BY <1>3, <1>4 DEF topic_matches_filter

(* A filter that stands for the topic is matched: the loop stops at its '#'  *)
(* or, without one, nowhere.                                                 *)
LEMMA MeantIsMatched ==
  ASSUME NEW topic \in Levels, NEW filter \in Levels,
         topic \in Denotes(filter, {topic})
  PROVE  topic_matches_filter(topic, filter)
<1> USE DEF Levels
<1>1. Len(filter) \in Nat /\ Len(filter) >= 1 /\ Len(topic) \in Nat /\ Len(topic) >= 1
  OBVIOUS
<1>2. /\ IsFilter(filter) /\ topic # EmptyString
      /\ topic[1] \in DollarLevels => filter[1] = topic[1]
  BY DEF Denotes
<1>3. /\ filter # EmptyString
      /\ \A i \in 1 .. Len(filter) : filter[i] = "#" => i = Len(filter)
  BY <1>2 DEF IsFilter
<1>4. ~(topic[1] \in DollarLevels /\ filter[1] \in {"+", "#"})
  BY <1>2, DollarAssumption
<1>5. CASE filter[Len(filter)] = "#"
  <2>1. Agree(topic, filter, Len(filter) - 1)
    BY <1>5 DEF Denotes
  <2>2. Len(filter) \in Stops(topic, filter)
    BY <1>1, <1>5 DEF Stops
  <2>3. \A k \in Stops(topic, filter) : Len(filter) <= k
    BY <1>1, <1>3, <2>1 DEF Stops, Agree
  <2> QED BY <1>2, <1>3, <1>4, <1>5, <2>2, <2>3 DEF topic_matches_filter
<1>6. CASE filter[Len(filter)] # "#"
  <2>1. Len(topic) = Len(filter) /\ Agree(topic, filter, Len(filter))
    BY <1>6 DEF Denotes
  <2>2. Stops(topic, filter) = {}
    BY <1>1, <1>3, <1>6, <2>1 DEF Stops, Agree
  <2> QED BY <1>2, <1>3, <1>4, <2>1, <2>2 DEF topic_matches_filter
<1> QED BY <1>5, <1>6

(* topic_matches_filter() (src/mqtt_topic.cpp) takes exactly the topics that *)
(* MQTT says the filter stands for, whatever the topics and however long.    *)
THEOREM FilterMatchesItsMeaning ==
  ASSUME NEW topic \in Levels, NEW filter \in Levels
  PROVE  topic_matches_filter(topic, filter) <=> topic \in Denotes(filter, {topic})
BY MatchIsMeant, MeantIsMatched
=============================================================================
