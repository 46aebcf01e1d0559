------------------------------ MODULE HttpRead ------------------------------
(***************************************************************************)
(* One connection from accept() to its answer: read_until() and what is     *)
(* built on it, parse_http_request() (src/http.cpp), and the reading half   *)
(* of Server::handle_connection() (src/server.cpp).                         *)
(*                                                                         *)
(* A request is what the client intends to send.  Of its head only the size *)
(* and what parse_http_request() finds in it are kept; the text behind the  *)
(* head is a sequence of symbols, one per byte.  The peer sends in segments *)
(* of any size and may stop anywhere.                                       *)
(***************************************************************************)
EXTENDS Integers, Sequences, SequencesExt

CONSTANTS Requests,    \* what clients send
          NoRequest,
          BufSize,     \* sizeof(buf) in read_until()
          MaxRequest,  \* max_request_bytes
          MaxBody,     \* max_body_bytes
          Length,      \* word -> what strtol() reads of a Content-Length
          Byte,        \* two hex digits -> the symbol %XX stands for, "NUL" for %00
          Raw          \* symbols below 0x20 and DEL, which must be percent-encoded

ASSUME SizesAssumption ==
  BufSize \in Nat \ {0} /\ MaxRequest \in Nat \ {0} /\ MaxBody \in Nat \ {0}
ASSUME NoRequestAssumption == NoRequest \notin Requests
ASSUME RequestsAssumption ==
  \A r \in Requests : /\ r.head \in Nat \ {0} /\ r.text \in Seq(STRING)
                      /\ r.headers \in Seq(STRING \X STRING)
ASSUME LengthAssumption == \A w \in DOMAIN Length : Length[w] \in Int

VARIABLES cpc,     \* where handle_connection() is
          request, \* what the client sends
          got,     \* bytes received while reading the head
          body,    \* req.body
          status   \* what the connection ended with

readvars == <<cpc, request, got, body, status>>

Min2(x, y) == IF x < y THEN x ELSE y

-----------------------------------------------------------------------------
(* parse_http_request(): the set of the decoded text, empty when refused. *)

percent_decode(s) ==
  LET from[i \in 1 .. Len(s) + 1] ==
        IF i > Len(s) THEN {<< >>}
        ELSE LET pair == SubSeq(s, i + 1, i + 2)
                 Then(c, k) == {<<c>> \o rest : rest \in from[k]}
             IN CASE s[i] = "+" -> Then(" ", i + 1)
                  [] s[i] = "%" ->
                       IF i + 2 > Len(s) \/ pair \notin DOMAIN Byte THEN {}
                       ELSE IF Byte[pair] = "NUL" THEN {} ELSE Then(Byte[pair], i + 3)
                  [] s[i] \in Raw -> {}
                  [] OTHER -> Then(s[i], i + 1)
  IN from[1]

(* Headers are taken in order, so the last of two with one name counts; any  *)
(* Content-Length that is not a number of at least 0 refuses the request.    *)
HeaderLines(req, name) == {n \in DOMAIN req.headers : req.headers[n][1] = name}
LastHeader(req, name, default) ==
  LET ns == HeaderLines(req, name) IN IF ns = {} THEN default ELSE req.headers[Max(ns)][2]

LengthsAreValid(req) ==
  \A n \in DOMAIN req.headers : req.headers[n][1] = "content-length" =>
    req.headers[n][2] \in DOMAIN Length /\ Length[req.headers[n][2]] >= 0

QueryDecodes(req) ==
  \A n \in DOMAIN req.query : percent_decode(req.query[n][1]) # {} /\ percent_decode(req.query[n][2]) # {}

IsWellFormed(req) ==
  req.line /\ LengthsAreValid(req) /\ percent_decode(req.path) # {} /\ QueryDecodes(req)

content_length(req) ==
  IF HeaderLines(req, "content-length") = {} THEN -1
  ELSE Length[LastHeader(req, "content-length", "")]

IsChunked(req) == \E n \in DOMAIN req.headers : req.headers[n] = <<"transfer-encoding", "chunked">>

(* Mutant: the path is used as it was sent. *)
DecodedNot(s) == s

Decoded(s) == CHOOSE t \in percent_decode(s) : TRUE

(* The value of the first parameter with that name, none without it. *)
find_query_param(req, key) ==
  LET n == SelectInSeq(req.query, LAMBDA q : Decoded(q[1]) = key)
  IN IF n = 0 THEN {} ELSE {Decoded(req.query[n][2])}

-----------------------------------------------------------------------------
ReadTypeOK ==
  /\ cpc \in {"idle", "head", "parse", "body", "route", "end"}
  /\ request \in Requests \cup {NoRequest}
  /\ got \in 0 .. MaxRequest + BufSize
  /\ Len(body) <= MaxBody + BufSize
  /\ status \in {"none", "closed", "too_large", "overrun", "200", "400", "401", "404",
                "405", "411", "413"}

ReadInit ==
  /\ cpc = "idle" /\ request = NoRequest /\ got = 0 /\ body = << >> /\ status = "none"

End(s) == cpc' = "end" /\ status' = s

ClientConnects ==
  /\ cpc = "idle"
  /\ cpc' = "head" /\ request' \in Requests /\ got' = 0 /\ body' = << >>
  /\ UNCHANGED status

(* Mutant: a head that fills the limit exactly is refused. *)
RecvHeadAtLimit ==
  /\ cpc = "head"
  /\ \E n \in 1 .. Min2(BufSize, request.head + Len(request.text) - got) :
       /\ got' = got + n
       /\ \/ got' >= MaxRequest /\ End("too_large")
          \/ got' \in request.head .. MaxRequest - 1 /\ cpc' = "parse" /\ UNCHANGED status
          \/ got' < request.head /\ got' < MaxRequest /\ UNCHANGED <<cpc, status>>
  /\ UNCHANGED <<request, body>>

(* recv() returns n bytes of what the client sent; the limit is tested on    *)
(* all of them before the end of the head is looked for.                     *)
RecvHead ==
  /\ cpc = "head"
  /\ \E n \in 1 .. Min2(BufSize, request.head + Len(request.text) - got) :
       /\ got' = got + n
       /\ \/ got' > MaxRequest /\ End("too_large")
          \/ got' \in request.head .. MaxRequest /\ cpc' = "parse" /\ UNCHANGED status
          \/ got' < request.head /\ got' <= MaxRequest /\ UNCHANGED <<cpc, status>>
  /\ UNCHANGED <<request, body>>

(* The peer closes, times out or fails: no answer, in the head or the body. *)
ReadEnds ==
  /\ cpc \in {"head", "body"}
  /\ End("closed")
  /\ UNCHANGED <<request, got, body>>

(* What was read behind the head is the beginning of the body. *)
Leftover == SubSeq(request.text, 1, got - request.head)

ParseRefuses ==
  /\ cpc = "parse"
  /\ \/ ~IsWellFormed(request) /\ End("400")
     \/ IsWellFormed(request) /\ IsChunked(request) /\ End("411")
     \/ /\ IsWellFormed(request) /\ ~IsChunked(request)
        /\ content_length(request) > MaxBody /\ End("413")
  /\ UNCHANGED <<request, got, body>>

(* Mutant: bytes behind the announced body are kept. *)
ParseAcceptsUncut ==
  /\ cpc = "parse"
  /\ IsWellFormed(request) /\ ~IsChunked(request)
  /\ LET need == content_length(request)
     IN /\ need <= MaxBody
        /\ body' = IF need > 0 THEN Leftover ELSE << >>
        /\ cpc' = IF need > Len(Leftover) THEN "body" ELSE "route"
  /\ UNCHANGED <<request, got, status>>

ParseAccepts ==
  /\ cpc = "parse"
  /\ IsWellFormed(request) /\ ~IsChunked(request)
  /\ LET need == content_length(request)
     IN /\ need <= MaxBody
        /\ body' = IF need > 0 THEN SubSeq(Leftover, 1, Min2(need, Len(Leftover))) ELSE << >>
        /\ cpc' = IF need > Len(Leftover) THEN "body" ELSE "route"
  /\ UNCHANGED <<request, got, status>>

(* read_http_body(): a segment that brings more than is missing ends it. *)
RecvBody ==
  /\ cpc = "body"
  /\ \E n \in 1 .. Min2(BufSize, Len(request.text) - Len(body)) :
       /\ body' = SubSeq(request.text, 1, Len(body) + n)
       /\ \/ Len(body') > content_length(request) /\ End("overrun")
          \/ Len(body') = content_length(request) /\ cpc' = "route" /\ UNCHANGED status
          \/ Len(body') < content_length(request) /\ UNCHANGED <<cpc, status>>
  /\ UNCHANGED <<request, got>>

(* close(), after the answer if there is one. *)
Close ==
  /\ cpc = "end"
  /\ cpc' = "idle" /\ status' = "none"
  /\ request' = NoRequest /\ got' = 0 /\ body' = << >>

-----------------------------------------------------------------------------
(* A request reaches its handler with exactly the body it announced: the     *)
(* first Content-Length bytes behind its head, however the bytes were        *)
(* divided into segments and however many followed, and never with a head or *)
(* a body beyond the limits (server.cpp:799-832, http.cpp:150).              *)
RoutedWhole ==
  cpc = "route" =>
    LET need == content_length(request)
    IN /\ request.head <= MaxRequest /\ need <= MaxBody
       /\ need <= Len(request.text)
       /\ body = SubSeq(request.text, 1, need)

(* What is refused for its size was too large: a head, together with what    *)
(* one recv() may bring along of the body, only beyond max_request_bytes,    *)
(* and reading a body ends for surplus bytes only when the client sent more  *)
(* than it announced (http.cpp:150, 164-172).  The answer 413 goes by the    *)
(* announced length alone and is not looked at here.                         *)
RefusedForSize ==
  /\ status = "too_large" =>
       request.head + Min2(Len(request.text), BufSize - 1) > MaxRequest
  /\ status = "overrun" => Len(request.text) > content_length(request)
=============================================================================
