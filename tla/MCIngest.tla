------------------------------ MODULE MCIngest ------------------------------
(***************************************************************************)
(* Ingest for TLC.  Documents are trees, written to text here and nowhere   *)
(* else, so that what the reader makes of the text can be compared with the *)
(* tree; a message is such a text or a proper beginning of it.              *)
(***************************************************************************)
EXTENDS Ingest

(* Numbers: two small ones, one with more than nine digits, a subnormal, and *)
(* one that is none.                                                         *)
MCDouble == [w \in {"0", "1", "1.23456789012", "1.23456789", "0x1p-1074", "nan"} |->
               CASE w = "0" -> "zero" [] w = "1" -> "one"
                 [] w = "1.23456789012" -> "long" [] w = "1.23456789" -> "rounded"
                 [] w = "0x1p-1074" -> "subnormal" [] w = "nan" -> "nan"]
MCFormat == [v \in {"zero", "one", "long", "rounded", "subnormal", "nan"} |->
               CASE v = "zero" -> "0" [] v = "one" -> "1"
                 [] v \in {"long", "rounded"} -> "1.23456789"
                 [] v = "subnormal" -> "4.94065646e-324" [] v = "nan" -> "nan"]
MCCodePoint == [q \in {<<"0", "0", "0", "1">>, <<"0", "0", "6", "2">>} |->
                  IF q[4] = "1" THEN "SOH" ELSE "b"]
MCControls == {"SOH"}
MCLength == [w \in {"-1", "0", "1", "3", "6", "7", "9", "13", "15"} |->
               CASE w = "-1" -> -1 [] w = "0" -> 0 [] w = "1" -> 1 [] w = "3" -> 3
                 [] w = "6" -> 6 [] w = "7" -> 7 [] w = "9" -> 9 [] w = "13" -> 13 [] w = "15" -> 15]
MCByte == [p \in {<<"0", "0">>, <<"0", "1">>, <<"2", "2">>, <<"5", "c">>} |->
             CASE p = <<"0", "0">> -> "NUL" [] p = <<"0", "1">> -> "SOH"
               [] p = <<"2", "2">> -> Quote [] p = <<"5", "c">> -> Backslash]
MCRaw == {"SOH", "LF"}
MCNameSymbols == {"a", "b", "x", "1", "_", "mqtt"}
MCDigits == {"1"}

(* Names: two that Prometheus cannot tell apart, one of a nested leaf, and   *)
(* one that needs every kind of escape.                                      *)
AB == <<"a", "/", "b">>
AXB == <<"a", "/", "x", "_", "b">>
A_B == <<"a", "_", "b">>
Odd == <<"1", Quote, Backslash, "SOH">>
MCNameOrder == <<Odd, AB, AXB, A_B>>
MCTokens == {"secret"}
MCStatePrefix == <<"mqtt", "_">>
MCTopicPrefix == << >>
MCJsonTopics == {<<"a">>}

-----------------------------------------------------------------------------
(* Documents *)

Num(w) == [kind |-> "number", word |-> w, rest |-> << >>]
NumThen(w, rest) == [kind |-> "number", word |-> w, rest |-> <<Nul>> \o rest]
Lit(w) == [kind |-> "literal", word |-> w]
Raw_(s) == [kind |-> "raw", text |-> s]
Obj(fields) == [kind |-> "object", fields |-> fields]

RECURSIVE Render(_)
Render(d) ==
  CASE d.kind = "number" -> <<d.word>> \o d.rest
    [] d.kind = "literal" -> <<d.word>>
    [] d.kind = "raw" -> d.text
    [] d.kind = "object" ->
         <<"{">> \o FlattenSeq([k \in DOMAIN d.fields |->
           (IF k > 1 THEN <<",", " ">> ELSE << >>) \o <<Quote>> \o d.fields[k].spelt
             \o <<Quote, ":">> \o Render(d.fields[k].value)]) \o <<"}">>

RECURSIVE LeavesOf(_, _)
LeavesOf(d, path) ==
  CASE d.kind = "number" -> << <<path, MCDouble[d.word]>> >>
    [] d.kind = "literal" ->
         CASE d.word = "true" -> << <<path, "one">> >>
           [] d.word = "false" -> << <<path, "zero">> >>
           [] OTHER -> << >>
    [] d.kind = "raw" -> << >>
    [] d.kind = "object" ->
         FlattenSeq([k \in DOMAIN d.fields |->
           LeavesOf(d.fields[k].value,
                    (IF path[Len(path)] = "/" THEN path ELSE path \o <<"_">>)
                      \o d.fields[k].key)])

F(key, value) == [key |-> <<key>>, spelt |-> <<key>>, value |-> value]
Spelt(key, s, value) == [key |-> key, spelt |-> s, value |-> value]

Documents ==
  {Obj(<< >>),
   Obj(<<F("b", Num("1"))>>),
   Obj(<<Spelt(<<"b">>, <<Backslash, "u", "0", "0", "6", "2">>, NumThen("0", <<"x">>))>>),
   Obj(<<F("x", Obj(<<F("b", Lit("true")), F("x", Raw_(<<Quote, "}", Backslash, Quote, "{", Quote>>))>>)),
         F("b", Num("nan"))>>),
   Obj(<<F("b", Num("1")), F("x", Raw_(<<"[", "[", "]", ",", Quote, "]", Quote, "]">>)), F("b", Lit("false"))>>),
   Obj(<<F("x", Obj(<<F("b", Num("0"))>>)), Spelt(<<"x", "_", "b">>, <<"x", "_", "b">>, Lit("true")),
         F("b", Lit("null"))>>)}

Message(topic, text, means) == [topic |-> topic, text |-> text, means |-> means]
Whole(d) == Message(<<"a">>, Render(d), LeavesOf(d, <<"a", "/">>))
Followed(d) == Message(<<"a">>, Render(d) \o <<"x">>, LeavesOf(d, <<"a", "/">>))
Cut(d) == {Message(<<"a">>, t, << >>) : t \in Prefixes(Render(d)) \ {Render(d)}}

MCMessages ==
  {Whole(d) : d \in Documents} \cup UNION {Cut(d) : d \in Documents}
  \cup {Followed(d) : d \in {x \in Documents : Len(x.fields) <= 1}}
  \cup {Message(<<"a">>, <<"{", Quote, "b", Quote, ":", "oops", "}">>, << >>),
        Message(A_B, <<" ", "1", " ">>, << <<A_B, "one">> >>),
        Message(A_B, <<"1", Nul, "x">>, << <<A_B, "one">> >>),
        Message(A_B, <<"1", " ", Nul>>, << >>),
        Message(A_B, <<"{", "1", "}">>, << >>)}

-----------------------------------------------------------------------------
(* Requests *)

Request(method, path, headers, query, head, text, doc, means) ==
  [line |-> TRUE, method |-> method, path |-> path, headers |-> headers, query |-> query,
   head |-> head, text |-> text, doc |-> doc, means |-> means]

Key == <<"x-mqtt-api-key", "secret">>
Json == <<"content-type", "application/json">>
CL(w) == <<"content-length", w>>
Value1 == <<"{", Quote, "value", Quote, ":", "1", "}">>
Value10 == <<"{", Quote, "value", Quote, ":", "1", ",", Quote, "value", Quote, ":", "0", "}">>
OddPath == <<"1", "%", "2", "2", "%", "5", "c", "%", "0", "1">>

Put(headers, head, text, doc, means) ==
  Request("PUT", AB, <<Key, Json>> \o headers, << >>, head, text, doc, means)

MCRequests ==
  {Put(<<CL(w)>>, head, Value1 \o more, 7, {"one"}) :
     w \in {"6", "7"}, head \in {2, 5, 6}, more \in {<< >>, <<"x", "x">>}}
  \cup {Put(<<CL("9")>>, 3, Value1 \o <<"x", "x">>, 7, {"one"}),
        Put(<<CL("7")>>, 3, SubSeq(Value1, 1, 6), 7, {"one"}),
        Put(<<CL("13")>>, 3, Value10, 13, {"one"}), Put(<<CL("15")>>, 3, Value10, 13, {"one"}),
        Put(<<CL("6"), CL("7")>>, 3, Value1, 7, {"one"}), Put(<<CL("x")>>, 3, Value1, 7, {}),
        Put(<<CL("-1")>>, 3, Value1, 7, {}), Put(<<CL("0")>>, 3, Value1, 7, {"one"}),
        Put(<<>>, 3, Value1, 7, {"one"}),
        Put(<<CL("7"), <<"transfer-encoding", "chunked">>>>, 3, Value1, 7, {"one"}),
        [Put(<<CL("7")>>, 3, Value1, 7, {}) EXCEPT !.line = FALSE],
        [Put(<<CL("7")>>, 3, Value1, 7, {"one"}) EXCEPT !.headers = <<Json, CL("7")>>],
        Request("PUT", << >>, <<Key, CL("1")>>, << >>, 3, <<"1">>, 1, {"one"}),
        Request("PUT", OddPath, <<Key, CL("1")>>, << >>, 3, <<"0x1p-1074">>, 1, {"subnormal"}),
        Request("PUT", OddPath, <<Key, CL("1")>>, << >>, 3, <<"1.23456789012", "x", "x">>, 1, {"long"}),
        Request("PUT", OddPath, <<Key, CL("3")>>, << >>, 3, <<"1.23456789012", Nul, "x">>, 1, {"long"}),
        Request("DELETE", OddPath, <<Key>>, << >>, 3, << >>, 0, {}),
        Request("DELETE", AB, <<Key>>, << >>, 3, << >>, 0, {}),
        Request("DELETE", A_B, <<Key>>, << >>, 3, << >>, 0, {}),
        Request("POST", AB, <<Key>>, << >>, 3, << >>, 0, {"one"}),
        Request("PUT", <<"a", "%", "0", "0">>, <<Key, CL("1")>>, << >>, 3, <<"1">>, 1, {}),
        Request("PUT", <<"a", "%", "0">>, <<Key, CL("1")>>, << >>, 3, <<"1">>, 1, {}),
        Request("GET", AXB, <<Key>>, <<<<<<"x">>, <<"1">>>>, <<<<"value">>, <<"+", "1">>>>,
                <<<<"value">>, <<"0">>>>>>, 3, << >>, 0, {"one"}),
        Request("GET", AXB, <<Key>>, <<<<<<"x">>, <<"%">>>>>>, 3, << >>, 0, {})}
=============================================================================
