------------------------------- MODULE Config -------------------------------
(***************************************************************************)
(* nshmqtt.conf and the NSHMQTT_* environment (src/config.cpp,              *)
(* src/config.h), and the part of main() that reads them (src/main.cpp).    *)
(*                                                                         *)
(* A text is a sequence of symbols: the blank " ", the separators "," and   *)
(* "=", the comment mark "#", and words, which hold none of these.  What    *)
(* strtol() and parse_bool() make of a word is a parameter.  A parser       *)
(* returns the set of the value it reads, empty when it refuses the text.   *)
(***************************************************************************)
EXTENDS Integers, Sequences, SequencesExt

CONSTANTS Decimal,  \* word -> what strtol() reads in base 10, when all of it is a long
          Octal,    \* the same in base 8
          Truth,    \* word -> the truth value parse_bool() reads, any case
          Cores,    \* hardware_concurrency(), 0 when it cannot tell
          ClientId  \* what default_client_id() drew at random

ASSUME CoresAssumption == Cores \in Nat

Blank == " "

-----------------------------------------------------------------------------
(* Texts *)

trim(s) ==
  LET ink == {i \in DOMAIN s : s[i] # Blank}
  IN IF ink = {} THEN << >> ELSE SubSeq(s, Min(ink), Max(ink))

(* strtol() skips leading blanks; anything left behind the number refuses it. *)
parse_long(s, number) ==
  LET t == SubSeq(s, SelectInSeq(s, LAMBDA c : c # Blank), Len(s))
  IN IF trim(s) # << >> /\ Len(t) = 1 /\ t[1] \in DOMAIN number
     THEN {number[t[1]]} ELSE {}

parse_bool(s) ==
  LET t == trim(s)
  IN IF Len(t) = 1 /\ t[1] \in DOMAIN Truth THEN {Truth[t[1]]} ELSE {}

(* The trimmed, non-empty entries between the commas. *)
split_csv(s) ==
  LET cut == SetToSortSeq({0, Len(s) + 1} \cup {i \in DOMAIN s : s[i] = ","}, <)
      item(k) == trim(SubSeq(s, cut[k] + 1, cut[k + 1] - 1))
  IN SelectSeq([k \in 1 .. Len(cut) - 1 |-> item(k)], LAMBDA x : x # << >>)

parse_port(s) == {v \in parse_long(s, Decimal) : v \in 1 .. 65535}

-----------------------------------------------------------------------------
(* apply_key(): what each key of the file takes *)

Join(f, g) == [key \in DOMAIN f \cup DOMAIN g |-> IF key \in DOMAIN f THEN f[key] ELSE g[key]]

Long(lo, hi) == [kind |-> "long", lo |-> lo, hi |-> hi]
Mode == [kind |-> "mode", lo |-> 0, hi |-> 4095]
Port == [kind |-> "port"]
OptionalPort == [kind |-> "optional_port"]
Flag == [kind |-> "flag"]
Text == [kind |-> "text"]
List == [kind |-> "list"]

ServerKeys ==
  [socket |-> Text, socket_mode |-> Mode, threads |-> Long(1, 256),
   max_request_bytes |-> Long(256, 1048576), max_body_bytes |-> Long(1, 16777216),
   debug_log |-> Flag, tcp_port |-> OptionalPort, tcp_address |-> Text,
   simple_get |-> Flag, event_placeholders_enabled |-> Flag,
   http_auth_tokens |-> List]

MqttKeys ==
  [mqtt_host |-> Text, mqtt_port |-> Port, mqtt_client_id |-> Text,
   mqtt_qos |-> Long(0, 2), mqtt_pool_size |-> Long(1, 64),
   mqtt_keepalive_seconds |-> Long(5, 3600),
   mqtt_connect_timeout_seconds |-> Long(1, 300),
   mqtt_publish_timeout_seconds |-> Long(1, 300),
   mqtt_queue_size |-> Long(1, 65536), mqtt_username |-> Text,
   mqtt_password |-> Text, subscribe_enabled |-> Flag, subscribe_topics |-> List]

WebhookKeys ==
  [webhook_enabled |-> Flag, webhook_url |-> Text, webhook_topics |-> List,
   webhook_auth_header |-> Text, webhook_auth_value |-> Text,
   webhook_tls_insecure |-> Flag, webhook_timeout_seconds |-> Long(1, 300),
   webhook_queue_size |-> Long(1, 65536)]

StateKeys ==
  [state_enabled |-> Flag, state_file |-> Text, prometheus_http |-> Flag,
   prometheus_textfile |-> Text,
   prometheus_textfile_interval_seconds |-> Long(1, 86400),
   prometheus_prefix |-> Text, prometheus_mqtt_state_prefix |-> Text,
   state_topic_prefix |-> Text, prometheus_mqtt_json_topics |-> List]

Takes == Join(Join(ServerKeys, MqttKeys), Join(WebhookKeys, StateKeys))

Keys == DOMAIN Takes

(* The value apply_key() stores for the key, none when it is invalid. *)
Value(key, s) ==
  LET p == Takes[key]
  IN CASE p.kind = "long" -> {v \in parse_long(s, Decimal) : v \in p.lo .. p.hi}
       [] p.kind = "mode" -> {v \in parse_long(s, Octal) : v \in p.lo .. p.hi}
       [] p.kind = "port" -> parse_port(s)
       [] p.kind = "optional_port" ->
            IF s \in {<< >>, <<"0">>} THEN {0} ELSE parse_port(s)
       [] p.kind = "flag" -> parse_bool(s)
       [] p.kind = "list" -> {split_csv(s)}
       [] p.kind = "text" -> {s}

-----------------------------------------------------------------------------
(* The built-in defaults *)

default_thread_count ==
  CASE Cores = 0 -> 8
    [] Cores \in 1 .. 3 -> 4
    [] Cores \in 4 .. 20 -> Cores
    [] OTHER -> 20

ServerDefaults ==
  [socket |-> <<"/run/nshmqtt/nshmqtt.sock">>, socket_mode |-> 432,
   threads |-> default_thread_count, max_request_bytes |-> 8192,
   max_body_bytes |-> 65536, debug_log |-> FALSE, tcp_port |-> 0,
   tcp_address |-> << >>, simple_get |-> TRUE, http_auth_tokens |-> << >>,
   event_placeholders_enabled |-> FALSE]

MqttDefaults ==
  [mqtt_host |-> <<"127.0.0.1">>, mqtt_port |-> 1883, mqtt_client_id |-> ClientId,
   mqtt_qos |-> 1, mqtt_pool_size |-> 1, mqtt_keepalive_seconds |-> 60,
   mqtt_connect_timeout_seconds |-> 10, mqtt_publish_timeout_seconds |-> 5,
   mqtt_queue_size |-> 256, mqtt_username |-> << >>, mqtt_password |-> << >>,
   subscribe_enabled |-> FALSE, subscribe_topics |-> <<<<"#">>>>]

WebhookDefaults ==
  [webhook_enabled |-> FALSE, webhook_url |-> << >>, webhook_topics |-> <<<<"#">>>>,
   webhook_auth_header |-> << >>, webhook_auth_value |-> << >>,
   webhook_tls_insecure |-> FALSE, webhook_timeout_seconds |-> 5,
   webhook_queue_size |-> 256]

StateDefaults ==
  [state_enabled |-> TRUE, state_file |-> <<"/var/lib/nshmqtt/state.json">>,
   prometheus_http |-> TRUE, prometheus_textfile |-> << >>,
   prometheus_textfile_interval_seconds |-> 60,
   prometheus_prefix |-> <<"nshmqtt_">>, prometheus_mqtt_state_prefix |-> <<"mqtt_">>,
   state_topic_prefix |-> << >>, prometheus_mqtt_json_topics |-> << >>]

Defaults == Join(Join(ServerDefaults, MqttDefaults), Join(WebhookDefaults, StateDefaults))

-----------------------------------------------------------------------------
(* Reading the file and the environment.  A reading is the configuration so  *)
(* far, whether it is refused, and the number of warnings.                   *)

Refused(r) == [r EXCEPT !.ok = FALSE]

apply_key(r, key, value) ==
  LET v == Value(key, value)
  IN IF v = {} THEN Refused(r)
     ELSE [r EXCEPT !.cfg[key] = CHOOSE x \in v : TRUE]

(* One line of the file: blank, comment, or key = value, cut at the first '='. *)
load_line(r, line) ==
  LET t == trim(line)
      eq == SelectInSeq(t, LAMBDA c : c = "=")
      key == trim(SubSeq(t, 1, eq - 1))
  IN CASE ~r.ok -> r
       [] r.ok /\ t = << >> -> r
       [] r.ok /\ t # << >> /\ t[1] = "#" -> r
       [] OTHER ->
            CASE eq = 0 -> Refused(r)
              [] eq # 0 /\ Len(key) = 1 /\ key[1] \in Keys ->
                   apply_key(r, key[1], trim(SubSeq(t, eq + 1, Len(t))))
              [] OTHER -> [r EXCEPT !.warnings = @ + 1]

load_config(file, r) ==
  LET after[n \in 0 .. Len(file)] == IF n = 0 THEN r ELSE load_line(after[n - 1], file[n])
  IN after[Len(file)]

(* kEnvKeys has every key of apply_key().  Each variable that is set changes *)
(* its own field and the values are not trimmed, so the order of the table   *)
(* only decides which error is reported.                                     *)
apply_env_overrides(env, r) ==
  IF \E key \in DOMAIN env : Value(key, env[key]) = {} THEN Refused(r)
  ELSE [r EXCEPT !.cfg = [key \in Keys |->
          IF key \in DOMAIN env THEN CHOOSE x \in Value(key, env[key]) : TRUE
          ELSE r.cfg[key]]]

(* Mutant: the environment first, the file over it. *)
ConfigureFileLast(start) ==
  LET fresh == [ok |-> TRUE, cfg |-> Defaults, warnings |-> 0]
      env == apply_env_overrides(start.env, fresh)
  IN CASE start.found = "readable" /\ env.ok -> load_config(start.file, env)
       [] start.found = "absent" /\ ~start.explicit -> env
       [] OTHER -> Refused(fresh)

(* main(): start is the command line and what it finds: whether --config was *)
(* given, whether the file is absent, unreadable or readable, its lines, and *)
(* the environment.                                                          *)
Configure(start) ==
  LET fresh == [ok |-> TRUE, cfg |-> Defaults, warnings |-> 0]
      file == CASE start.found = "readable" -> load_config(start.file, fresh)
                [] start.found = "absent" /\ ~start.explicit -> fresh
                [] OTHER -> Refused(fresh)
  IN IF file.ok THEN apply_env_overrides(start.env, file) ELSE file
=============================================================================
