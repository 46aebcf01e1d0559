------------------------------ MODULE JsonText ------------------------------
(***************************************************************************)
(* The hand-written JSON reader (src/json_util.cpp) and the escaping the    *)
(* writer uses (json_escape(), src/text_util.cpp).                          *)
(*                                                                         *)
(* A text is a sequence of symbols: the characters that matter to the       *)
(* reader, and words (numbers, literals, names), which hold none of them.   *)
(* Positions start at 1; NPos stands for std::string::npos.                 *)
(***************************************************************************)
EXTENDS Integers, Sequences, SequencesExt

CONSTANTS Double,     \* word -> the double strtod() reads, when it reads all of it without ERANGE
          Format,     \* double -> the word operator<< writes with nine digits
          CodePoint,  \* four hex digits -> the symbol \uXXXX stands for
          Controls    \* symbols below 0x20 that have no short escape

(* The values of true and false are those of these words. *)
ASSUME DoubleAssumption == {"0", "1"} \subseteq DOMAIN Double

Quote == "\""
Backslash == "\\"
Space == " "
Nul == "NUL"
HexDigits == {"0", "1", "2", "3", "4", "5", "6", "7", "8", "9", "a", "b", "c", "d", "e", "f",
              "A", "B", "C", "D", "E", "F"}
NPos == 0

At(s, i, c) == i \in DOMAIN s /\ s[i] = c

-----------------------------------------------------------------------------
(* Numbers *)

trim_ws(s) ==
  LET ink == {i \in DOMAIN s : s[i] # Space}
  IN IF ink = {} THEN << >> ELSE SubSeq(s, Min(ink), Max(ink))

(* The set of the number read, empty when the text is refused.  strtod()     *)
(* must read up to the end of a C string, so a NUL may follow, and anything  *)
(* after it.                                                                 *)
parse_double(s) ==
  LET t == trim_ws(s)
  IN IF t # << >> /\ t[1] \in DOMAIN Double /\ (Len(t) > 1 => t[2] = Nul)
     THEN {Double[t[1]]} ELSE {}

-----------------------------------------------------------------------------
(* Escaping *)

ShortEscape == [c \in {"BS", "FF", "LF", "CR", "TAB"} |->
                  CASE c = "BS" -> "b" [] c = "FF" -> "f" [] c = "LF" -> "n"
                    [] c = "CR" -> "r" [] c = "TAB" -> "t"]

(* Every control symbol that has no short escape has a code point. *)
ASSUME ControlsAssumption ==
  /\ DOMAIN CodePoint \subseteq [1 .. 4 -> HexDigits]
  /\ \A c \in Controls : \E q \in DOMAIN CodePoint : CodePoint[q] = c
  /\ Controls \cap ({Quote, Backslash} \cup DOMAIN ShortEscape) = {}

(* Mutant: the backslash itself is not escaped. *)
json_escape_quotes(s) ==
  LET escaped(c) ==
        CASE c = Quote -> <<Backslash, c>>
          [] c \in DOMAIN ShortEscape -> <<Backslash, ShortEscape[c]>>
          [] c \in Controls ->
               <<Backslash, "u">> \o CHOOSE q \in DOMAIN CodePoint : CodePoint[q] = c
          [] OTHER -> <<c>>
  IN FlattenSeq([i \in DOMAIN s |-> escaped(s[i])])

json_escape(s) ==
  LET escaped(c) ==
        CASE c \in {Quote, Backslash} -> <<Backslash, c>>
          [] c \in DOMAIN ShortEscape -> <<Backslash, ShortEscape[c]>>
          [] c \in Controls ->
               <<Backslash, "u">> \o CHOOSE q \in DOMAIN CodePoint : CodePoint[q] = c
          [] OTHER -> <<c>>
  IN FlattenSeq([i \in DOMAIN s |-> escaped(s[i])])

(* A \u without four hex digits is passed through as "u". *)
json_unescape(s) ==
  LET single(c) == IF \E d \in DOMAIN ShortEscape : ShortEscape[d] = c
                   THEN CHOOSE d \in DOMAIN ShortEscape : ShortEscape[d] = c ELSE c
      quad(i) == SubSeq(s, i + 2, i + 5)
      IsQuad(i) == i + 5 <= Len(s) /\ \A k \in 1 .. 4 : quad(i)[k] \in HexDigits
      from[i \in 1 .. Len(s) + 1] ==
        CASE i > Len(s) -> << >>
          [] i <= Len(s) /\ s[i] # Backslash -> <<s[i]>> \o from[i + 1]
          [] At(s, i, Backslash) /\ i = Len(s) -> << >>
          [] At(s, i, Backslash) /\ At(s, i + 1, "u") ->
               IF IsQuad(i) THEN <<CodePoint[quad(i)]>> \o from[i + 6]
               ELSE <<"u">> \o from[i + 2]
          [] OTHER -> <<single(s[i + 1])>> \o from[i + 2]
  IN from[1]

-----------------------------------------------------------------------------
(* Finding where things end *)

skip_ws(s, i) == Min({j \in i .. Len(s) + 1 : j = Len(s) + 1 \/ s[j] # Space})

(* Just past the closing quote of the string that starts at i. *)
skip_json_string(s, i) ==
  LET end[j \in i + 1 .. Len(s) + 2] ==
        CASE j > Len(s) -> NPos
          [] At(s, j, Backslash) -> end[j + 2]
          [] At(s, j, Quote) -> j + 1
          [] OTHER -> end[j + 1]
  IN end[i + 1]

(* Mutant: brackets inside strings count. *)
skip_brackets_blind(s, i, open, close) ==
  LET end[j \in i + 1 .. Len(s) + 1, depth \in 0 .. Len(s)] ==
        CASE depth = 0 -> j
          [] depth > 0 /\ j > Len(s) -> NPos
          [] depth > 0 /\ At(s, j, open) -> end[j + 1, depth + 1]
          [] depth > 0 /\ At(s, j, close) -> end[j + 1, depth - 1]
          [] OTHER -> end[j + 1, depth]
  IN end[i + 1, 1]

(* Just past the object or array that starts at i: only its own kind of      *)
(* bracket is counted, and none inside a string.                             *)
skip_brackets(s, i, open, close) ==
  LET end[j \in i + 1 .. Len(s) + 1, depth \in 0 .. Len(s)] ==
        CASE depth = 0 -> j
          [] depth > 0 /\ j > Len(s) -> NPos
          [] depth > 0 /\ At(s, j, Quote) ->
               LET k == skip_json_string(s, j) IN IF k = NPos THEN NPos ELSE end[k, depth]
          [] depth > 0 /\ At(s, j, open) -> end[j + 1, depth + 1]
          [] depth > 0 /\ At(s, j, close) -> end[j + 1, depth - 1]
          [] OTHER -> end[j + 1, depth]
  IN end[i + 1, 1]

skip_json_value(s, i) ==
  LET stop == {j \in i .. Len(s) : s[j] \in {",", "}", "]", Space}} \cup {Len(s) + 1}
  IN CASE i > Len(s) -> NPos
       [] At(s, i, Quote) -> skip_json_string(s, i)
       [] At(s, i, "{") -> skip_brackets(s, i, "{", "}")
       [] At(s, i, "[") -> skip_brackets(s, i, "[", "]")
       [] OTHER -> IF Min(stop) > i THEN Min(stop) ELSE NPos

-----------------------------------------------------------------------------
(* Reading objects.  A reading is whether the text was accepted, and the     *)
(* (name, value) pairs in the order of the text.                             *)

Malformed == [ok |-> FALSE, pairs |-> << >>]
Pairs(ps) == [ok |-> TRUE, pairs |-> ps]

(* The field whose key starts at key, has its closing quote before after and *)
(* its value at value: the pair, and where what follows it starts.           *)
NoField == [ok |-> FALSE, pair |-> << >>, next |-> NPos]
FieldEnds(s, key, after, value, end) ==
  IF end = NPos THEN NoField
  ELSE [ok |-> TRUE, next |-> skip_ws(s, end),
        pair |-> <<json_unescape(SubSeq(s, key + 1, after - 2)), SubSeq(s, value, end - 1)>>]
FieldValue(s, key, after, value) == FieldEnds(s, key, after, value, skip_json_value(s, value))
FieldColon(s, key, after, colon) ==
  IF after # NPos /\ At(s, colon, ":") THEN FieldValue(s, key, after, skip_ws(s, colon + 1))
  ELSE NoField
FieldAfter(s, key, after) == FieldColon(s, key, after, skip_ws(s, after))
Field(s, key) ==
  IF At(s, key, Quote) THEN FieldAfter(s, key, skip_json_string(s, key)) ELSE NoField

(* The object's keys, unescaped, with the text of their values.  What        *)
(* follows the closing brace is not looked at.                               *)
tokenize_flat_object(s) ==
  LET start == skip_ws(s, 1)
      Prepend(pair, rest) == IF rest.ok THEN Pairs(<<pair>> \o rest.pairs) ELSE Malformed
      from[i \in 1 .. Len(s) + 1] ==
        LET Continue(field) ==
              CASE field.ok /\ At(s, field.next, "}") -> Pairs(<<field.pair>>)
                [] field.ok /\ At(s, field.next, ",") -> Prepend(field.pair, from[field.next + 1])
                [] OTHER -> Malformed
        IN Continue(Field(s, skip_ws(s, i)))
  IN CASE ~At(s, start, "{") -> Malformed
       [] At(s, start, "{") /\ At(s, skip_ws(s, start + 1), "}") -> Pairs(<< >>)
       [] OTHER -> from[start + 1]

(* The first field of that name decides. *)
extract_json_number_field(s, field) ==
  LET r == tokenize_flat_object(s)
      n == SelectInSeq(r.pairs, LAMBDA p : p[1] = field)
  IN IF r.ok /\ n # 0 THEN parse_double(r.pairs[n][2]) ELSE {}

(* {"name": number, ...}: every value a number; of two with one name the     *)
(* last stays.                                                               *)
parse_flat_number_object(s) ==
  LET r == tokenize_flat_object(s)
      numbers == [n \in DOMAIN r.pairs |-> parse_double(r.pairs[n][2])]
  IN IF r.ok /\ \A n \in DOMAIN numbers : numbers[n] # {}
     THEN Pairs([n \in DOMAIN numbers |-> <<r.pairs[n][1], CHOOSE v \in numbers[n] : TRUE>>])
     ELSE Malformed

(* flatten_json_object_impl() with its calls on a stack: todo has the fields *)
(* that are left, in order, under their joined names, and pairs the leaves   *)
(* so far.  What cannot be read refuses the whole text.                      *)
Flattening(ok, todo, pairs) == [ok |-> ok, todo |-> todo, pairs |-> pairs]

Enter(text, prefix, rest, pairs) ==
  LET r == tokenize_flat_object(text)
      name(key) == IF prefix = << >> THEN key ELSE prefix \o <<"_">> \o key
      fields == [n \in DOMAIN r.pairs |-> <<name(r.pairs[n][1]), r.pairs[n][2]>>]
  IN Flattening(r.ok, IF r.ok THEN fields \o rest ELSE << >>, pairs)

flatten_next(f) ==
  LET name == f.todo[1][1]
      v == f.todo[1][2]
      rest == Tail(f.todo)
      leaf(x) == Flattening(TRUE, rest, Append(f.pairs, <<name, x>>))
  IN CASE ~f.ok \/ f.todo = << >> -> f
       [] OTHER ->
            CASE v[1] = "{" -> Enter(v, name, rest, f.pairs)
              [] v[1] \in {"[", Quote} \/ v = <<"null">> -> Flattening(TRUE, rest, f.pairs)
              [] v = <<"true">> -> leaf(Double["1"])
              [] v = <<"false">> -> leaf(Double["0"])
              [] OTHER -> IF parse_double(v) = {} THEN Flattening(FALSE, << >>, f.pairs)
                          ELSE leaf(CHOOSE x \in parse_double(v) : TRUE)

(* One leaf per number or boolean, named by the path to it.  Every field has *)
(* a symbol of its own in the text, so its length is steps enough.           *)
flatten_json_object(s) ==
  LET after[n \in 0 .. Len(s)] ==
        IF n = 0 THEN Enter(s, << >>, << >>, << >>) ELSE flatten_next(after[n - 1])
      f == after[Len(s)]
  IN IF f.ok THEN Pairs(f.pairs) ELSE Malformed
=============================================================================
