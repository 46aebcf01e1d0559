----------------------------- MODULE MCStartup -----------------------------
(***************************************************************************)
(* Startup for TLC.  Instance a tries every key at both ends of what it     *)
(* takes, and one step beyond in a start of its own; instance b runs on the *)
(* defaults or with another mode, on the same path.                         *)
(***************************************************************************)
EXTENDS Startup

CONSTANTS a, b

MCInstances == {a, b}
MCPaths == {Defaults.socket, <<"/tmp/other.sock">>}
MCModes == {0, 384, 432, 4095}

-----------------------------------------------------------------------------
(* Words: every end of a range and its neighbours. *)

Low(key) == IF Takes[key].kind = "long" THEN Takes[key].lo ELSE 1
High(key) == IF Takes[key].kind = "long" THEN Takes[key].hi ELSE 65535

Numeric == {key \in Keys : Takes[key].kind \in {"long", "port", "optional_port"}}
Numbers == UNION {{Low(k) - 1, Low(k), High(k), High(k) + 1} : k \in Numeric}

MCDecimal == [w \in {ToString(n) : n \in Numbers} |-> CHOOSE n \in Numbers : ToString(n) = w]
MCOctal == [w \in {"0", "0600", "0660", "7777", "10000", "-1"} |->
              CASE w = "0" -> 0 [] w = "0600" -> 384 [] w = "0660" -> 432
                [] w = "7777" -> 4095 [] w = "10000" -> 4096 [] w = "-1" -> -1]
MCTruth == [w \in {"1", "true", "Yes", "on", "0", "FALSE", "no", "off"} |->
              w \in {"1", "true", "Yes", "on"}]
MCClientId == <<"nshmqtt_5eed0001">>

(* The least and the greatest text each key takes, and texts it refuses. *)
Lowest(key) ==
  CASE key = "socket" -> Defaults.socket
    [] key = "socket_mode" -> <<"0">>
    [] key = "tcp_port" -> << >>
    [] key \in Numeric \ {"tcp_port"} -> <<ToString(Low(key))>>
    [] Takes[key].kind = "flag" -> <<"FALSE">>
    [] OTHER -> << >>
Highest(key) ==
  CASE key = "socket" -> <<"/tmp/other.sock">>
    [] key = "socket_mode" -> <<"7777">>
    [] key \in Numeric -> <<ToString(High(key))>>
    [] Takes[key].kind = "flag" -> <<"on">>
    [] Takes[key].kind = "list" -> <<"x", " ", ",", " ", ",", "y">>
    [] OTHER -> <<"x", "=", "y">>
Wrong(key) ==
  CASE key = "socket_mode" -> {<<"10000">>, <<"-1">>, <<"8">>, << >>}
    [] key \in Numeric \ {"tcp_port"} ->
         {<<ToString(Low(key) - 1)>>, <<ToString(High(key) + 1)>>, <<"x">>, << >>}
    [] key = "tcp_port" -> {<<ToString(High(key) + 1)>>, <<"x">>}
    [] Takes[key].kind = "flag" -> {<<"x">>, << >>}
    [] OTHER -> {}

-----------------------------------------------------------------------------
(* Starts *)

Line(key, s) == <<key, " ", "=", " ">> \o s
All(text(_)) == FoldSet(LAMBDA key, lines : Append(lines, Line(key, text(key))), << >>, Keys)
NoEnv == [key \in {} |-> << >>]
WithFile(lines, env) == [explicit |-> FALSE, found |-> "readable", file |-> lines, env |-> env]
WithoutFile(found, explicit, env) ==
  [explicit |-> explicit, found |-> found, file |-> << >>, env |-> env]

Accepted ==
  {WithFile(All(Highest), NoEnv),
   WithFile(<<<<"#", " ", "x">>, << >>, <<" ">>, <<"x", "=", "y">>>>
            \o All(Highest) \o All(Lowest), NoEnv),
   WithFile(All(Highest), [key \in Keys |-> Lowest(key)]),
   WithFile(All(Lowest), [key \in {"threads"} |-> <<" ", "256">>])}
Refusals ==
  {WithoutFile("absent", TRUE, NoEnv), WithoutFile("unreadable", FALSE, NoEnv),
   WithFile(<<<<"threads">>>>, NoEnv),
   WithoutFile("absent", FALSE, [key \in {"threads"} |-> <<"1", " ">>]),
   WithFile(<<Line("threads", <<"x">>)>>, [key \in {"threads"} |-> <<"1">>]),
   WithFile(<<Line("threads", <<"x">>), Line("threads", <<"1">>)>>, NoEnv)}
  \cup UNION {{WithFile(<<Line(key, w)>>, NoEnv) : w \in Wrong(key)} : key \in Keys}
  \cup UNION {{WithoutFile("absent", FALSE, [k \in {key} |-> w]) : w \in Wrong(key)} : key \in Keys}

MCStarts(i) ==
  IF i = a THEN Accepted \cup Refusals
  ELSE {WithoutFile("absent", FALSE, NoEnv),
        WithoutFile("absent", FALSE, [key \in {"socket_mode"} |-> <<"0600">>])}
=============================================================================
