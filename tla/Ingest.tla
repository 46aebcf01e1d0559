------------------------------- MODULE Ingest -------------------------------
(***************************************************************************)
(* How values get into the store and out of it again: a request to          *)
(* /metric/<name> read from its connection (HttpRead), a message on a       *)
(* subscribed topic, plain or JSON (JsonText), the text save() writes and   *)
(* load() reads (src/state.cpp), and the names Prometheus sees              *)
(* (MetricNames).                                                           *)
(*                                                                         *)
(* The steps of saving are in StateFile, publishing is in MqttPool and the  *)
(* race of requests with the echo of their publishes in MetricSync; here a  *)
(* handler is one step.                                                     *)
(***************************************************************************)
EXTENDS HttpRead, JsonText, MetricNames, TLC

CONSTANTS Messages,     \* what the broker delivers: topic, payload, and what its author meant
          NoMessage,
          JsonTopics,   \* prometheus_mqtt_json_topics
          NameOrder,    \* every name, in the order of std::map
          Tokens,       \* http_auth_tokens
          SimpleGet,    \* simple_get
          StatePrefix,  \* prometheus_mqtt_state_prefix
          TopicPrefix   \* state_topic_prefix

ASSUME SimpleGetAssumption == SimpleGet \in BOOLEAN

ASSUME NoMessageAssumption == NoMessage \notin Messages

ASSUME MessagesAssumption == \A m \in Messages : m.text \in Seq(STRING)

VARIABLES msg,   \* the message the subscribe worker has taken
          store  \* StateStore::values_

vars == <<readvars, msg, store>>

Names == ToSet(NameOrder)
Numbers == {Double[w] : w \in DOMAIN Double}

TypeOK ==
  /\ ReadTypeOK
  /\ msg \in Messages \cup {NoMessage}
  /\ DOMAIN store \subseteq Names
  /\ \A name \in DOMAIN store : store[name] \in Numbers

Init == ReadInit /\ msg = NoMessage /\ store = << >>

set(st, name, value) == [n \in DOMAIN st \cup {name} |-> IF n = name THEN value ELSE st[n]]
remove(st, name) == [n \in DOMAIN st \ {name} |-> st[n]]

(* set() for each (name, value) in turn: the last of equal names stays. *)
SetAll(st, pairs) ==
  LET names == {pairs[k][1] : k \in DOMAIN pairs}
      last(name) == Max({k \in DOMAIN pairs : pairs[k][1] = name})
  IN [name \in names \cup DOMAIN st |->
        IF name \in names THEN pairs[last(name)][2] ELSE st[name]]

(* (name, value) in the order of std::map. *)
snapshot(st) ==
  LET present == Ascending({n \in DOMAIN NameOrder : NameOrder[n] \in DOMAIN st})
      name(k) == NameOrder[present[k]]
  IN [k \in DOMAIN present |-> <<name(k), st[name(k)]>>]

-----------------------------------------------------------------------------
(* Server::route() and handle_metric() *)

is_authorized(req) == Tokens = {} \/ LastHeader(req, "x-mqtt-api-key", "") \in Tokens

Name(req) == Decoded(req.path)

(* The number a PUT or a simple GET brings, none when it has no valid one. *)
Offered(req) ==
  CASE req.method = "PUT" ->
         IF LastHeader(req, "content-type", "") = "application/json"
         THEN extract_json_number_field(body, <<"value">>) ELSE parse_double(body)
    [] req.method = "GET" -> UNION {parse_double(v) : v \in find_query_param(req, <<"value">>)}

Writes(req) == req.method = "PUT" \/ (req.method = "GET" /\ SimpleGet)

RouteRefuses ==
  /\ cpc = "route"
  /\ \/ ~is_authorized(request) /\ End("401")
     \/ is_authorized(request) /\ Name(request) = << >> /\ End("400")
     \/ /\ is_authorized(request) /\ Name(request) # << >>
        /\ \/ Writes(request) /\ Offered(request) = {} /\ End("400")
           \/ request.method = "DELETE" /\ Name(request) \notin DOMAIN store /\ End("404")
           \/ ~Writes(request) /\ request.method # "DELETE" /\ End("405")
  /\ UNCHANGED <<request, got, body, msg, store>>

handle_metric_write ==
  /\ cpc = "route"
  /\ is_authorized(request) /\ Name(request) # << >> /\ Writes(request)
  /\ \E value \in Offered(request) : store' = set(store, Name(request), value)
  /\ End("200")
  /\ UNCHANGED <<request, got, body, msg>>

handle_metric_delete ==
  /\ cpc = "route"
  /\ is_authorized(request) /\ Name(request) \in DOMAIN store /\ request.method = "DELETE"
  /\ store' = remove(store, Name(request))
  /\ End("200")
  /\ UNCHANGED <<request, got, body, msg>>

-----------------------------------------------------------------------------
(* main()'s message handler, for a topic of subscribe_topics.  Requests and  *)
(* messages only meet in the store, which reading a request does not touch:  *)
(* a message handled between two requests stands for one at any moment.      *)
Leaves(m) ==
  IF m.topic \in JsonTopics
  THEN LET r == flatten_json_object(m.text)
       IN [n \in DOMAIN r.pairs |-> <<m.topic \o <<"/">> \o r.pairs[n][1], r.pairs[n][2]>>]
  ELSE LET v == parse_double(m.text)
       IN IF v = {} THEN << >> ELSE << <<m.topic, CHOOSE x \in v : TRUE>> >>

(* NameOrder has every name that can get into the store, once; no name is    *)
(* empty: route() refuses it, and MQTT has no empty topic.                   *)
ASSUME NamesAssumption ==
  /\ NameOrder \in Seq(Seq(STRING) \ {<< >>})
  /\ \A i, j \in DOMAIN NameOrder : NameOrder[i] = NameOrder[j] => i = j
  /\ \A r \in Requests : percent_decode(r.path) \subseteq Names \cup {<< >>}
  /\ \A m \in Messages : \A k \in DOMAIN Leaves(m) : Leaves(m)[k][1] \in Names

(* What stands before every name is configured as text. *)
ASSUME PrefixesAssumption == StatePrefix \in Seq(STRING) /\ TopicPrefix \in Seq(STRING)

TakeMessage ==
  /\ cpc = "idle" /\ msg = NoMessage
  /\ msg' \in Messages
  /\ UNCHANGED <<readvars, store>>

HandleMessage ==
  /\ msg # NoMessage
  /\ store' = SetAll(store, Leaves(msg))
  /\ msg' = NoMessage
  /\ UNCHANGED readvars

ReadStep ==
  \/ ClientConnects \/ RecvHead \/ ReadEnds \/ ParseRefuses \/ ParseAccepts
  \/ RecvBody \/ Close

Next ==
  \/ ReadStep /\ msg = NoMessage /\ UNCHANGED <<msg, store>>
  \/ RouteRefuses \/ handle_metric_write \/ handle_metric_delete
  \/ TakeMessage \/ HandleMessage

Spec == Init /\ [][Next]_vars

-----------------------------------------------------------------------------
(* save() and load() *)

StateText(st) ==
  LET items == snapshot(st)
      item(k) == (IF k > 1 THEN <<",">> ELSE << >>) \o <<Quote>> \o json_escape(items[k][1])
                 \o <<Quote, ":", Format[items[k][2]]>>
  IN <<"{">> \o FlattenSeq([k \in DOMAIN items |-> item(k)]) \o <<"}">>

load(text) == parse_flat_number_object(text)

-----------------------------------------------------------------------------
(* What a request brings: a document of doc bytes holding the numbers means, *)
(* at most one; announced shorter it is cut and brings nothing.              *)
Meant(req) ==
  IF req.method = "PUT" /\ content_length(req) < req.doc THEN {} ELSE req.means

(* The store changes as the documents say and in no other way.  A request    *)
(* that is authorised sets the number its document holds, or removes its     *)
(* name; a message sets one entry per number or boolean of its document,     *)
(* under the path to it, the last of equal names staying.  A document is     *)
(* what stands before and including its closing brace: what follows it in    *)
(* the text is not looked at (json_util.cpp:267).  A number is what strtod() *)
(* takes, nan and hexadecimal included, up to a NUL if there is one.  Texts  *)
(* that break off before the closing brace or hold a value that is none of   *)
(* JSON's kinds, and unauthorised requests, change nothing, also when part   *)
(* of them could be read (json_util.cpp:207-367, text_util.cpp:108-124,      *)
(* server.cpp:621-669, main.cpp:452-483).                                    *)
ValuesAsSent ==
  [][/\ cpc = "route" /\ cpc' = "end" =>
          store' = IF ~is_authorized(request) \/ Name(request) = << >> THEN store
                   ELSE IF request.method = "DELETE" THEN remove(store, Name(request))
                   ELSE IF Writes(request) /\ Meant(request) # {}
                   THEN set(store, Name(request), CHOOSE v \in Meant(request) : TRUE)
                   ELSE store
     /\ msg # NoMessage /\ msg' = NoMessage => store' = SetAll(store, msg.means)]_vars

(* Whatever is in the store, its text loads again, each name once and with   *)
(* the number its nine digits stand for, and no proper beginning of it does  *)
(* (state.cpp:88-99, 69); the one exception is a number whose text strtod()  *)
(* reports as out of range, as it does for every subnormal.                  *)
SavedTextLoads ==
  [][store' # store =>
       LET text == StateText(store')
           Readable == \A n \in DOMAIN store' : Format[store'[n]] \in DOMAIN Double
       IN /\ load(text).ok <=> Readable
          /\ Readable => /\ ToSet(load(text).pairs)
                               = {<<n, Double[Format[store'[n]]]>> : n \in DOMAIN store'}
                         /\ Len(load(text).pairs) = Cardinality(DOMAIN store')
          /\ \A t \in Prefixes(text) \ {text} : ~load(t).ok]_vars

(* GET /metrics-state shows every entry once or counts it as a collision:    *)
(* no two series have the same name, the first name in order keeps it, all   *)
(* are names Prometheus accepts if the configured prefix can begin one, and  *)
(* nothing is lost (metrics.cpp:54-92).                                      *)
ExposedOnce ==
  LET items == snapshot(store)
      r == normalize_all(StatePrefix, items, TopicPrefix)
      Begins(p) == ToSet(p) \subseteq NameSymbols /\ (p # << >> => p[1] \notin Digits)
  IN /\ \A j, k \in DOMAIN r.metrics : r.metrics[j][1] = r.metrics[k][1] => j = k
     /\ Begins(StatePrefix) =>
          \A k \in DOMAIN r.metrics : r.metrics[k][1] # << >> /\ Begins(r.metrics[k][1])
     /\ Len(r.metrics) + Len(r.collisions) = Cardinality(DOMAIN store)
     /\ \A k \in DOMAIN items :
          LET p == normalize_metric_name(StatePrefix, items[k][1], TopicPrefix)
          IN items[k][1] \notin ToSet(r.collisions) => <<p, items[k][2]>> \in ToSet(r.metrics)
=============================================================================
