---------------------------- MODULE IngestProofs ----------------------------
(***************************************************************************)
(* Ingest for requests of any size, any limits, any division of the bytes   *)
(* into segments, and any names, messages and documents: what a request     *)
(* makes of its buffers (HttpRead), which names and values get into the     *)
(* store, and what Prometheus sees of it (MetricNames).  Of the headers     *)
(* only the last Content-Length matters; where a JSON value ends stays      *)
(* opaque, for what is stored is what parse_double() read of it.            *)
(***************************************************************************)
EXTENDS Ingest, FiniteSetTheorems, SequenceTheorems, WellFoundedInduction, TLAPS

-----------------------------------------------------------------------------
(* A set of numbers that is not empty has a least one: what an induction     *)
(* over data comes down to here.                                             *)
LEMMA LeastNumber ==
  ASSUME NEW P, P \subseteq Nat, P # {}
  PROVE  \E m \in P : \A k \in P : ~(k < m)
<1> DEFINE R == {ss \in Nat \X Nat : ss[1] < ss[2]}
<1>1. IsWellFoundedOn(R, Nat)
  BY NatLessThanWellFounded DEF OpToRel
<1>2. PICK m \in P : \A k \in P : <<k, m>> \notin R
  <2> HIDE DEF R
  <2> QED  BY <1>1, WFMin
<1>3. \A k \in P : ~(k < m)
  BY <1>2
<1> QED  BY <1>3

(* A non-empty set of positions has a last one. *)
LEMMA LastPosition ==
  ASSUME NEW n \in Nat, NEW P, P \subseteq 1 .. n, P # {}
  PROVE  Max(P) \in P
<1> DEFINE T == {n - k : k \in P}
<1>1. T \subseteq Nat /\ T # {}
  <2>1. \A k \in P : n - k \in Nat
    OBVIOUS
  <2>2. PICK k \in P : TRUE
    OBVIOUS
  <2>3. n - k \in T
    OBVIOUS
  <2> QED  BY <2>1, <2>3
<1>2. PICK x \in T : \A y \in T : ~(y < x)
  <2> HIDE DEF T
  <2> QED  BY <1>1, LeastNumber
<1>3. x \in Nat /\ \A y \in T : ~(y < x)
  BY <1>1, <1>2
<1>4. PICK k \in P : x = n - k
  BY <1>2
<1>5. ASSUME NEW j \in P
      PROVE  k >= j
  <2>1. ~(n - j < n - k)
    BY <1>3, <1>4
  <2>2. j \in Int /\ k \in Int
    BY <1>4
  <2> QED  BY <2>1, <2>2
<1>6. \E m \in P : \A j \in P : m >= j
  BY <1>5
<1> QED  BY <1>6, Zenon DEF Max

(* A Content-Length that was accepted is a number. *)
LEMMA LengthType ==
  ASSUME NEW req \in Requests, IsWellFormed(req)
  PROVE  content_length(req) \in Int /\ content_length(req) >= -1
<1> DEFINE ns == HeaderLines(req, "content-length")
<1>1. req.headers \in Seq(STRING \X STRING)
  BY RequestsAssumption
<1>2. ns \subseteq 1 .. Len(req.headers) /\ Len(req.headers) \in Nat
  BY <1>1 DEF HeaderLines
<1>3. CASE ns = {}
  BY <1>3 DEF content_length
<1>4. CASE ns # {}
  <2>1. Max(ns) \in ns
    BY <1>2, <1>4, LastPosition
  <2>2. /\ Max(ns) \in DOMAIN req.headers
        /\ req.headers[Max(ns)][1] = "content-length"
    BY <2>1 DEF HeaderLines
  <2>3. /\ req.headers[Max(ns)][2] \in DOMAIN Length
        /\ Length[req.headers[Max(ns)][2]] >= 0
    BY <2>2 DEF IsWellFormed, LengthsAreValid
  <2>4. Length[req.headers[Max(ns)][2]] \in Int
    BY <2>3, LengthAssumption
  <2>5. content_length(req) = Length[req.headers[Max(ns)][2]]
    BY <1>4 DEF content_length, LastHeader
  <2> QED  BY <2>3, <2>4, <2>5
<1> QED  BY <1>3, <1>4

-----------------------------------------------------------------------------
(* What has been read is a beginning of what the client sends. *)

Reading ==
  /\ cpc \in {"idle", "head", "parse", "body", "route", "end"}
  /\ cpc # "idle" => request \in Requests
  /\ request \in Requests \cup {NoRequest}
  /\ got \in Nat /\ body \in Seq(STRING)

(* The limit on the head is tested with every segment, its end found at once. *)
HeadRead ==
  /\ cpc = "head" => got < request.head /\ got <= MaxRequest
  /\ cpc = "parse" => /\ request.head <= got /\ got <= MaxRequest
                      /\ got <= request.head + Len(request.text)

(* A request that was parsed announced an acceptable body. *)
Announced ==
  cpc \in {"body", "route"} =>
    /\ request.head <= MaxRequest /\ IsWellFormed(request)
    /\ content_length(request) <= MaxBody

(* The body is the beginning of the text, short of what was announced. *)
BodyRead ==
  cpc = "body" => /\ Len(body) <= Len(request.text)
                  /\ body = SubSeq(request.text, 1, Len(body))
                  /\ Len(body) < content_length(request)

(* A connection has one answer, at its end. *)
OneAnswer == cpc # "end" => status = "none"

ReadInv ==
  Reading /\ HeadRead /\ Announced /\ BodyRead /\ OneAnswer /\ RoutedWhole /\ RefusedForSize
  /\ ReadTypeOK

(* A prefix of a text is a text of the length asked for. *)
LEMMA PrefixType ==
  ASSUME NEW s \in Seq(STRING), NEW k \in 0 .. Len(s)
  PROVE  SubSeq(s, 1, k) \in Seq(STRING) /\ Len(SubSeq(s, 1, k)) = k
OBVIOUS

(* A prefix of a prefix is a prefix of the whole: cutting the body out of    *)
(* what was received so far cuts it out of what was sent.                    *)
LEMMA PrefixOfPrefix ==
  ASSUME NEW s \in Seq(STRING), NEW k \in 0 .. Len(s), NEW n \in 0 .. k
  PROVE  SubSeq(SubSeq(s, 1, k), 1, n) = SubSeq(s, 1, n)
<1> DEFINE t == SubSeq(s, 1, k)
<1>1. t \in Seq(STRING) /\ Len(t) = k /\ \A j \in 1 .. k : t[j] = s[j]
  OBVIOUS
<1> HIDE DEF t
<1>2. /\ SubSeq(t, 1, n) \in Seq(STRING) /\ Len(SubSeq(t, 1, n)) = n
      /\ \A j \in 1 .. n : SubSeq(t, 1, n)[j] = t[j]
  BY <1>1
<1>3. /\ SubSeq(s, 1, n) \in Seq(STRING) /\ Len(SubSeq(s, 1, n)) = n
      /\ \A j \in 1 .. n : SubSeq(s, 1, n)[j] = s[j]
  OBVIOUS
<1>4. SubSeq(t, 1, n) = SubSeq(s, 1, n)
  BY <1>1, <1>2, <1>3
<1> QED  BY <1>4 DEF t

(* Nothing is cut out when nothing is asked for. *)
LEMMA EmptyPrefix ==
  ASSUME NEW s, NEW n \in Int, n <= 0
  PROVE  SubSeq(s, 1, n) = << >>
OBVIOUS

(* std::min() is one of its arguments and exceeds neither. *)
LEMMA Min2Is ==
  ASSUME NEW x \in Int, NEW y \in Int
  PROVE  /\ Min2(x, y) \in {x, y} /\ Min2(x, y) <= x /\ Min2(x, y) <= y
BY DEF Min2

(* The actions that read, one by one. *)

(* A new connection starts with empty buffers. *)
LEMMA ConnectKeeps ==
  ASSUME ReadInv, ClientConnects
  PROVE  ReadInv'
<1> USE SizesAssumption DEF ReadInv, ClientConnects
<1>1. /\ cpc' = "head" /\ request' \in Requests /\ got' = 0 /\ body' = << >>
      /\ status' = "none"
  BY DEF OneAnswer
<1>2. request'.head \in Nat \ {0}
  BY <1>1, RequestsAssumption
<1>3. Reading' /\ HeadRead' /\ Announced' /\ BodyRead' /\ OneAnswer'
  BY <1>1, <1>2 DEF Reading, HeadRead, Announced, BodyRead, OneAnswer
<1>4. RoutedWhole' /\ RefusedForSize' /\ ReadTypeOK'
  BY <1>1 DEF RoutedWhole, RefusedForSize, ReadTypeOK
<1> QED  BY <1>3, <1>4

(* What does not fit was more than the head could bring along. *)
LEMMA RecvHeadKeeps ==
  ASSUME ReadInv, RecvHead
  PROVE  ReadInv'
<1>1. PICK n \in 1 .. Min2(BufSize, request.head + Len(request.text) - got) :
        /\ got' = got + n
        /\ \/ got' > MaxRequest /\ End("too_large")
           \/ got' \in request.head .. MaxRequest /\ cpc' = "parse" /\ UNCHANGED status
           \/ got' < request.head /\ got' <= MaxRequest /\ UNCHANGED <<cpc, status>>
  BY DEF RecvHead
<1>2. cpc = "head" /\ UNCHANGED <<request, body>>
  BY DEF RecvHead
<1>3. /\ request \in Requests /\ got \in Nat /\ body \in Seq(STRING)
      /\ status = "none" /\ got < request.head /\ got <= MaxRequest
      /\ Len(body) <= MaxBody + BufSize
  BY <1>2 DEF ReadInv, Reading, OneAnswer, HeadRead, ReadTypeOK
<1>4. /\ request.head \in Nat \ {0} /\ Len(request.text) \in Nat
  BY <1>3, RequestsAssumption
<1>5. /\ n \in Nat /\ n <= BufSize /\ got + n <= request.head + Len(request.text)
  <2>1. /\ BufSize \in Int /\ request.head + Len(request.text) - got \in Int
    BY <1>3, <1>4, SizesAssumption
  <2> QED  BY <1>3, <1>4, <2>1, Min2Is, SizesAssumption
<1>6. /\ got' \in Nat /\ got' <= MaxRequest + BufSize
  BY <1>1, <1>3, <1>5, SizesAssumption
<1>7. CASE got' > MaxRequest /\ End("too_large")
  <2>1. request.head + Min2(Len(request.text), BufSize - 1) > MaxRequest
    BY <1>1, <1>3, <1>4, <1>5, <1>7, SizesAssumption DEF Min2
  <2>2. cpc' = "end" /\ status' = "too_large"
    BY <1>7 DEF End
  <2>3. Reading' /\ HeadRead' /\ Announced' /\ BodyRead' /\ OneAnswer'
    BY <1>2, <1>3, <1>6, <2>2 DEF Reading, HeadRead, Announced, BodyRead, OneAnswer
  <2>4. RoutedWhole' /\ RefusedForSize' /\ ReadTypeOK'
    BY <1>2, <1>3, <1>6, <2>1, <2>2, SizesAssumption DEF RoutedWhole, RefusedForSize, ReadTypeOK
  <2> QED  BY <2>3, <2>4 DEF ReadInv
<1>8. CASE got' \in request.head .. MaxRequest /\ cpc' = "parse" /\ UNCHANGED status
  <2>1. Reading' /\ HeadRead' /\ Announced' /\ BodyRead' /\ OneAnswer'
    BY <1>1, <1>2, <1>3, <1>4, <1>5, <1>6, <1>8 DEF Reading, HeadRead, Announced, BodyRead, OneAnswer
  <2>2. RoutedWhole' /\ RefusedForSize' /\ ReadTypeOK'
    BY <1>2, <1>3, <1>6, <1>8, SizesAssumption DEF RoutedWhole, RefusedForSize, ReadTypeOK
  <2> QED  BY <2>1, <2>2 DEF ReadInv
<1>9. CASE got' < request.head /\ got' <= MaxRequest /\ UNCHANGED <<cpc, status>>
  <2>1. Reading' /\ HeadRead' /\ Announced' /\ BodyRead' /\ OneAnswer'
    BY <1>2, <1>3, <1>6, <1>9 DEF Reading, HeadRead, Announced, BodyRead, OneAnswer
  <2>2. RoutedWhole' /\ RefusedForSize' /\ ReadTypeOK'
    BY <1>2, <1>3, <1>6, <1>9, SizesAssumption DEF RoutedWhole, RefusedForSize, ReadTypeOK
  <2> QED  BY <2>1, <2>2 DEF ReadInv
<1> QED  BY <1>1, <1>7, <1>8, <1>9

(* An end that has nothing to do with sizes. *)
LEMMA EndKeeps ==
  ASSUME ReadInv, cpc # "idle", UNCHANGED <<request, got, body>>,
         NEW s \in {"closed", "200", "400", "401", "404", "405", "411", "413"}, End(s)
  PROVE  ReadInv'
<1>1. cpc' = "end" /\ status' = s
  BY DEF End
<1>2. Reading' /\ HeadRead' /\ Announced' /\ BodyRead' /\ OneAnswer'
  BY <1>1 DEF ReadInv, Reading, HeadRead, Announced, BodyRead, OneAnswer
<1>3. RoutedWhole' /\ RefusedForSize' /\ ReadTypeOK'
  BY <1>1 DEF ReadInv, RoutedWhole, RefusedForSize, ReadTypeOK
<1> QED  BY <1>2, <1>3 DEF ReadInv

(* A head that parses fixes how long the body is; what was received after    *)
(* the head is its beginning.                                                *)
LEMMA ParseAcceptsKeeps ==
  ASSUME ReadInv, ParseAccepts
  PROVE  ReadInv'
<1> DEFINE need == content_length(request)
           text == request.text
           left == got - request.head
<1>1. /\ cpc = "parse" /\ IsWellFormed(request) /\ need <= MaxBody
      /\ body' = IF need > 0 THEN SubSeq(Leftover, 1, Min2(need, Len(Leftover))) ELSE << >>
      /\ cpc' = IF need > Len(Leftover) THEN "body" ELSE "route"
      /\ UNCHANGED <<request, got, status>>
  BY DEF ParseAccepts
<1>2. /\ request \in Requests /\ got \in Nat /\ status = "none"
      /\ request.head <= got /\ got <= MaxRequest /\ got <= request.head + Len(text)
  BY <1>1 DEF ReadInv, Reading, OneAnswer, HeadRead
<1>3. /\ request.head \in Nat \ {0} /\ text \in Seq(STRING) /\ Len(text) \in Nat
      /\ need \in Int /\ need >= -1
  BY <1>1, <1>2, RequestsAssumption, LengthType
<1>4. left \in 0 .. Len(text)
  BY <1>2, <1>3
<1>5. Leftover = SubSeq(text, 1, left)
  BY DEF Leftover
<1> HIDE DEF need, text, left
<1>6. Len(Leftover) = left
  BY <1>3, <1>4, <1>5, PrefixType
<1>7. CASE need > left
  <2>1. cpc' = "body" /\ body' = SubSeq(text, 1, left)
    <3>1. Min2(need, left) = left
      BY <1>3, <1>4, <1>7 DEF Min2
    <3>2. body' = SubSeq(SubSeq(text, 1, left), 1, left)
      BY <1>1, <1>3, <1>4, <1>5, <1>6, <1>7, <3>1
    <3>3. left \in 0 .. left
      BY <1>3, <1>4
    <3>4. body' = SubSeq(text, 1, left)
      BY <1>3, <1>4, <3>2, <3>3, PrefixOfPrefix
    <3> QED  BY <1>1, <1>6, <1>7, <3>4
  <2>2. body' \in Seq(STRING) /\ Len(body') = left
    BY <1>3, <1>4, <2>1, PrefixType
  <2>3. Reading' /\ HeadRead' /\ Announced' /\ OneAnswer'
    BY <1>1, <1>2, <1>3, <2>1, <2>2, SizesAssumption DEF Reading, HeadRead, Announced, OneAnswer, need
  <2>4. BodyRead'
    <3>1. /\ Len(body') <= Len(text) /\ Len(body') < need
          /\ body' = SubSeq(text, 1, Len(body'))
      BY <1>3, <1>4, <1>7, <2>1, <2>2
    <3> QED  BY <1>1, <3>1 DEF BodyRead, need, text
  <2>5. Len(body') <= MaxBody + BufSize
    <3>1. left \in Int /\ need \in Int /\ left < need /\ need <= MaxBody
      BY <1>1, <1>3, <1>4, <1>7
    <3>2. left <= MaxBody + BufSize
      BY <3>1, SizesAssumption
    <3> QED  BY <2>2, <3>2
  <2>6. got' \in 0 .. MaxRequest + BufSize
    BY <1>1, <1>2, SizesAssumption
  <2>7. RoutedWhole' /\ RefusedForSize' /\ ReadTypeOK'
    BY <1>1, <1>2, <2>1, <2>5, <2>6 DEF RoutedWhole, RefusedForSize, ReadTypeOK
  <2> QED  BY <2>3, <2>4, <2>7 DEF ReadInv
<1>8. CASE ~(need > left)
  <2>1. cpc' = "route"
    BY <1>1, <1>6, <1>8
  <2>2. body' = SubSeq(text, 1, need) /\ need <= Len(text)
    <3>1. CASE need > 0
      <4>1. Min2(need, left) = need
        BY <1>3, <1>4, <1>8 DEF Min2
      <4>2. body' = SubSeq(SubSeq(text, 1, left), 1, need)
        BY <1>1, <1>5, <1>6, <3>1, <4>1
      <4> QED  BY <1>3, <1>4, <1>8, <3>1, <4>2, PrefixOfPrefix
    <3>2. CASE ~(need > 0)
      BY <1>1, <1>3, <3>2, EmptyPrefix
    <3> QED  BY <3>1, <3>2
  <2>3. body' \in Seq(STRING) /\ Len(body') <= MaxBody
    <3>1. CASE need > 0
      <4>1. need \in 0 .. Len(text)
        BY <1>3, <2>2, <3>1
      <4> QED  BY <1>1, <1>3, <2>2, <4>1, PrefixType
    <3>2. CASE ~(need > 0)
      BY <1>1, <1>3, <3>2, SizesAssumption
    <3> QED  BY <3>1, <3>2
  <2>4. Reading' /\ HeadRead' /\ BodyRead' /\ OneAnswer'
    BY <1>1, <1>2, <2>1, <2>3 DEF Reading, HeadRead, BodyRead, OneAnswer
  <2>5. request.head <= MaxRequest
    BY <1>2, <1>3, SizesAssumption
  <2>6. Announced' /\ RoutedWhole'
    BY <1>1, <2>1, <2>2, <2>5 DEF Announced, RoutedWhole, need, text
  <2>7. /\ got' \in 0 .. MaxRequest + BufSize
        /\ Len(body') <= MaxBody + BufSize
    <3>1. Len(body') \in Nat /\ Len(body') <= MaxBody
      BY <2>3
    <3>2. Len(body') <= MaxBody + BufSize
      BY <3>1, SizesAssumption
    <3>3. got' \in 0 .. MaxRequest + BufSize
      BY <1>1, <1>2, SizesAssumption
    <3> QED  BY <3>2, <3>3
  <2>8. RefusedForSize' /\ ReadTypeOK'
    BY <1>1, <1>2, <2>1, <2>7 DEF RefusedForSize, ReadTypeOK
  <2> QED  BY <2>4, <2>6, <2>8 DEF ReadInv
<1> QED  BY <1>7, <1>8

(* A segment never brings body bytes out of order, nor more than one may. *)
LEMMA RecvBodyKeeps ==
  ASSUME ReadInv, RecvBody
  PROVE  ReadInv'
<1> DEFINE need == content_length(request)
           text == request.text
<1>1. PICK n \in 1 .. Min2(BufSize, Len(text) - Len(body)) :
        /\ body' = SubSeq(text, 1, Len(body) + n)
        /\ \/ Len(body') > need /\ End("overrun")
           \/ Len(body') = need /\ cpc' = "route" /\ UNCHANGED status
           \/ Len(body') < need /\ UNCHANGED <<cpc, status>>
  BY DEF RecvBody
<1>2. cpc = "body" /\ UNCHANGED <<request, got>>
  BY DEF RecvBody
<1>3. /\ request \in Requests /\ got \in 0 .. MaxRequest + BufSize /\ body \in Seq(STRING)
      /\ status = "none" /\ request.head <= MaxRequest /\ IsWellFormed(request)
      /\ need <= MaxBody /\ Len(body) < need /\ Len(body) <= Len(text)
  BY <1>2 DEF ReadInv, Reading, OneAnswer, Announced, BodyRead, ReadTypeOK
<1>4. text \in Seq(STRING) /\ Len(text) \in Nat /\ need \in Int /\ Len(body) \in Nat
  BY <1>3, RequestsAssumption, LengthType
<1> HIDE DEF need, text
<1> DEFINE new == Len(body) + n
<1>5. /\ n \in Nat /\ n <= BufSize /\ new \in 0 .. Len(text)
  <2>1. BufSize \in Int /\ Len(text) - Len(body) \in Int
    BY <1>4, SizesAssumption
  <2>2. n \in Int /\ 1 <= n /\ n <= BufSize /\ n <= Len(text) - Len(body)
    BY <1>1, <2>1, Min2Is
  <2> QED  BY <1>4, <2>2
<1>6. /\ body' = SubSeq(text, 1, new) /\ body' \in Seq(STRING) /\ Len(body') = new
  BY <1>1, <1>4, <1>5, PrefixType
<1>7. Len(body') <= MaxBody + BufSize
  <2>1. new <= MaxBody + BufSize
    BY <1>3, <1>4, <1>5, SizesAssumption
  <2> QED  BY <1>6, <2>1
<1> HIDE DEF new
<1>8. CASE Len(body') > need /\ End("overrun")
  <2>1. cpc' = "end" /\ status' = "overrun"
    BY <1>8 DEF End
  <2>2. Len(text) > need
    BY <1>4, <1>5, <1>6, <1>8
  <2>3. Reading' /\ HeadRead' /\ Announced' /\ BodyRead' /\ OneAnswer'
    BY <1>2, <1>3, <1>6, <2>1 DEF Reading, HeadRead, Announced, BodyRead, OneAnswer
  <2>4. RefusedForSize'
    BY <1>2, <2>1, <2>2 DEF RefusedForSize, need, text
  <2>5. RoutedWhole' /\ ReadTypeOK'
    BY <1>2, <1>3, <1>7, <2>1 DEF RoutedWhole, ReadTypeOK
  <2> QED  BY <2>3, <2>4, <2>5 DEF ReadInv
<1>9. CASE Len(body') = need /\ cpc' = "route" /\ UNCHANGED status
  <2>1. need <= Len(text) /\ body' = SubSeq(text, 1, need)
    BY <1>4, <1>5, <1>6, <1>9
  <2>2. Announced' /\ RoutedWhole'
    BY <1>2, <1>3, <1>9, <2>1 DEF Announced, RoutedWhole, need, text
  <2>3. Reading' /\ HeadRead' /\ BodyRead' /\ OneAnswer'
    BY <1>2, <1>3, <1>6, <1>9 DEF Reading, HeadRead, BodyRead, OneAnswer
  <2>4. RefusedForSize' /\ ReadTypeOK'
    BY <1>2, <1>3, <1>7, <1>9 DEF RefusedForSize, ReadTypeOK
  <2> QED  BY <2>2, <2>3, <2>4 DEF ReadInv
<1>10. CASE Len(body') < need /\ UNCHANGED <<cpc, status>>
  <2>1. Len(body') <= Len(text) /\ body' = SubSeq(text, 1, Len(body'))
    BY <1>4, <1>5, <1>6
  <2>2. Announced' /\ BodyRead'
    BY <1>2, <1>3, <1>10, <2>1 DEF Announced, BodyRead, need, text
  <2>3. Reading' /\ HeadRead' /\ OneAnswer'
    BY <1>2, <1>3, <1>6, <1>10 DEF Reading, HeadRead, OneAnswer
  <2>4. RoutedWhole' /\ RefusedForSize' /\ ReadTypeOK'
    BY <1>2, <1>3, <1>7, <1>10 DEF RoutedWhole, RefusedForSize, ReadTypeOK
  <2> QED  BY <2>2, <2>3, <2>4 DEF ReadInv
<1> QED  BY <1>1, <1>8, <1>9, <1>10 DEF need

(* Closing the connection empties what was read and keeps what was answered. *)
LEMMA CloseKeeps ==
  ASSUME ReadInv, Close
  PROVE  ReadInv'
<1> USE SizesAssumption DEF ReadInv, Close
<1>1. Reading' /\ HeadRead' /\ Announced' /\ BodyRead' /\ OneAnswer'
  BY DEF Reading, HeadRead, Announced, BodyRead, OneAnswer
<1>2. RoutedWhole' /\ RefusedForSize' /\ ReadTypeOK'
  BY DEF RoutedWhole, RefusedForSize, ReadTypeOK
<1> QED  BY <1>1, <1>2

(* The handlers answer; messages leave the connection alone. *)
LEMMA ReadInvStep ==
  ASSUME ReadInv, [Next]_vars
  PROVE  ReadInv'
<1>1. CASE UNCHANGED readvars
  BY <1>1 DEF readvars, ReadInv, Reading, HeadRead, Announced, BodyRead, OneAnswer, RoutedWhole,
              RefusedForSize, ReadTypeOK, content_length, HeaderLines, LastHeader
<1>2. CASE ReadStep
  <2>1. CASE ClientConnects \/ RecvHead \/ ParseAccepts \/ RecvBody \/ Close
    BY <2>1, ConnectKeeps, RecvHeadKeeps, ParseAcceptsKeeps, RecvBodyKeeps, CloseKeeps
  <2>2. CASE ReadEnds
    BY <2>2, EndKeeps DEF ReadEnds
  <2>3. CASE ParseRefuses
    BY <2>3, EndKeeps DEF ParseRefuses
  <2> QED  BY <1>2, <2>1, <2>2, <2>3 DEF ReadStep
<1>3. CASE RouteRefuses
  BY <1>3, EndKeeps DEF RouteRefuses
<1>4. CASE handle_metric_write \/ handle_metric_delete
  BY <1>4, EndKeeps DEF handle_metric_write, handle_metric_delete
<1>5. CASE TakeMessage \/ HandleMessage
  BY <1>1, <1>5 DEF TakeMessage, HandleMessage
<1>6. CASE UNCHANGED vars
  BY <1>1, <1>6 DEF vars
<1> QED  BY <1>2, <1>3, <1>4, <1>5, <1>6 DEF Next

(* The invariant holds in every reachable state. *)
LEMMA ReadInvAlways == Spec => []ReadInv
<1>1. Init => ReadInv
  BY SizesAssumption DEF Init, ReadInit, ReadInv, Reading, HeadRead, Announced, BodyRead,
     OneAnswer, RoutedWhole, RefusedForSize, ReadTypeOK
<1>2. ReadInv /\ [Next]_vars => ReadInv'
  BY ReadInvStep
<1> QED  BY <1>1, <1>2, PTL DEF Spec

(* The connection's buffers stay within one recv() of their limits, for all  *)
(* limits and all clients (http.cpp:150, server.cpp:770-832).                *)
THEOREM BuffersBounded == Spec => []ReadTypeOK
<1>1. ReadInv => ReadTypeOK
  BY DEF ReadInv
<1> QED  BY <1>1, ReadInvAlways, PTL

(* Whatever the sizes, the limits and the division into segments, a handler  *)
(* sees exactly the body that was announced (server.cpp:799-832).            *)
THEOREM HandlersSeeTheBody == Spec => []RoutedWhole
<1>1. ReadInv => RoutedWhole
  BY DEF ReadInv
<1> QED  BY <1>1, ReadInvAlways, PTL

(* No request is refused for a size it does not have (http.cpp:150, 171).    *)
THEOREM OnlyTheLargeAreRefused == Spec => []RefusedForSize
<1>1. ReadInv => RefusedForSize
  BY DEF ReadInv
<1> QED  BY <1>1, ReadInvAlways, PTL

-----------------------------------------------------------------------------
(* Positions in ascending order. *)

(* Ascending() lists a finite set of positions: each of them once. *)
LEMMA AscendingLists ==
  ASSUME NEW P, P \subseteq Nat, IsFiniteSet(P)
  PROVE  /\ Cardinality(P) \in Nat
         /\ Ascending(P) \in [1 .. Cardinality(P) -> P]
         /\ \A j, k \in 1 .. Cardinality(P) : Ascending(P)[j] = Ascending(P)[k] => j = k
         /\ \A n \in P : \E k \in 1 .. Cardinality(P) : Ascending(P)[k] = n
<1> DEFINE Upto(n) == {m \in P : m <= n}
           N == Cardinality(P)
           rank == [n \in P |-> Cardinality(Upto(n))]
<1>1. N \in Nat
  BY FS_CardinalityType
<1>2. ASSUME NEW n \in P
      PROVE  /\ IsFiniteSet(Upto(n)) /\ Cardinality(Upto(n)) \in 1 .. N
  <2>1. Upto(n) \in SUBSET P
    OBVIOUS
  <2>2. IsFiniteSet(Upto(n)) /\ Cardinality(Upto(n)) <= N
    BY <2>1, FS_Subset
  <2>3. Cardinality(Upto(n)) \in Nat
    BY <2>2, FS_CardinalityType
  <2>4. n \in Upto(n)
    OBVIOUS
  <2>5. Cardinality(Upto(n)) # 0
    BY <2>2, <2>4, FS_EmptySet
  <2> HIDE DEF Upto
  <2> QED  BY <1>1, <2>2, <2>3, <2>5
<1>3. ASSUME NEW m \in P, NEW n \in P, m < n
      PROVE  Cardinality(Upto(m)) # Cardinality(Upto(n))
  <2>0. m \in Nat /\ n \in Nat /\ \A x \in P : x \in Nat
    OBVIOUS
  <2>1. Upto(m) \in SUBSET Upto(n) /\ n \in Upto(n) /\ n \notin Upto(m)
    <3>1. ASSUME NEW x \in P, x <= m PROVE x <= n
      BY <1>3, <2>0, <3>1
    <3>2. n <= n /\ ~(n <= m)
      BY <1>3, <2>0
    <3> QED  BY <3>1, <3>2
  <2>2. Upto(m) # Upto(n)
    BY <2>1
  <2> HIDE DEF Upto
  <2> QED  BY <1>2, <2>1, <2>2, FS_Subset
<1>4. rank \in Injection(P, 1 .. N)
  <2>1. rank \in [P -> 1 .. N]
    BY <1>2
  <2>2. ASSUME NEW m \in P, NEW n \in P, rank[m] = rank[n] PROVE m = n
    <3>1. Cardinality(Upto(m)) = Cardinality(Upto(n))
      BY <2>2
    <3>2. m \in Nat /\ n \in Nat
      OBVIOUS
    <3> HIDE DEF Upto, rank
    <3> QED  BY <1>3, <3>1, <3>2
  <2> HIDE DEF rank
  <2> QED  BY <2>1, <2>2 DEF Injection, IsInjective
<1>5. rank \in Surjection(P, 1 .. N)
  <2>1. IsFiniteSet(1 .. N) /\ Cardinality(1 .. N) = N
    BY <1>1, FS_Interval
  <2> HIDE DEF rank
  <2> QED  BY <1>4, <2>1, FS_Injection
<1>6. \A k \in 1 .. N : \E n \in P : Cardinality(Upto(n)) = k
  BY <1>5 DEF Surjection
<1>7. \A k \in 1 .. N : /\ Ascending(P)[k] \in P
                        /\ Cardinality(Upto(Ascending(P)[k])) = k
  BY <1>6 DEF Ascending
<1>8. Ascending(P) \in [1 .. N -> P]
  BY <1>7 DEF Ascending
<1>9. ASSUME NEW j \in 1 .. N, NEW k \in 1 .. N, Ascending(P)[j] = Ascending(P)[k]
      PROVE  j = k
  BY <1>7, <1>9
<1>10. ASSUME NEW n \in P
       PROVE  \E k \in 1 .. N : Ascending(P)[k] = n
  <2> DEFINE k == Cardinality(Upto(n))
  <2>1. k \in 1 .. N
    BY <1>2
  <2>2. Ascending(P)[k] \in P /\ Cardinality(Upto(Ascending(P)[k])) = Cardinality(Upto(n))
    BY <1>7, <2>1
  <2>3. Ascending(P)[k] \in Nat /\ n \in Nat
    BY <2>2
  <2>4. Ascending(P)[k] = n
    <3> HIDE DEF k, Upto
    <3> QED  BY <1>3, <2>2, <2>3
  <2> QED  BY <2>1, <2>4
<1> HIDE DEF Upto, rank
<1> QED  BY <1>1, <1>8, <1>9, <1>10

-----------------------------------------------------------------------------
(* The names in the store *)

(* What is in the store has a name of NameOrder. *)
StoreNames == /\ DOMAIN store \subseteq Names
              /\ msg \in Messages \cup {NoMessage}

(* The name of a request that was parsed and is not refused is one of Names: *)
(* percent_decode() gave it.                                                 *)
LEMMA RequestNames ==
  ASSUME ReadInv, cpc = "route", Name(request) # << >>
  PROVE  Name(request) \in Names
<1>1. request \in Requests /\ percent_decode(request.path) # {}
  BY DEF ReadInv, Reading, Announced, IsWellFormed
<1>2. Name(request) \in percent_decode(request.path)
  BY <1>1 DEF Name, Decoded
<1> QED  BY <1>1, <1>2, NamesAssumption

(* SetAll() adds the names of its pairs. *)
LEMMA SetAllNames ==
  ASSUME NEW st, NEW pairs
  PROVE  DOMAIN SetAll(st, pairs) = {pairs[k][1] : k \in DOMAIN pairs} \cup DOMAIN st
BY DEF SetAll

(* A step adds no other name. *)
LEMMA StoreNamesStep ==
  ASSUME ReadInv, StoreNames, [Next]_vars
  PROVE  StoreNames'
<1> USE DEF StoreNames
<1>1. CASE UNCHANGED <<msg, store>>
  BY <1>1
<1>2. CASE handle_metric_write
  <2>1. Name(request) \in Names
    BY <1>2, RequestNames DEF handle_metric_write
  <2>2. PICK value : store' = set(store, Name(request), value)
    BY <1>2 DEF handle_metric_write
  <2>3. DOMAIN store' = {Name(request)} \cup DOMAIN store
    BY <2>2 DEF set
  <2> QED  BY <1>2, <2>1, <2>3 DEF handle_metric_write
<1>3. CASE handle_metric_delete
  BY <1>3 DEF handle_metric_delete, remove
<1>4. CASE TakeMessage
  BY <1>4 DEF TakeMessage
<1>5. CASE HandleMessage
  <2>1. /\ msg \in Messages /\ store' = SetAll(store, Leaves(msg)) /\ msg' = NoMessage
    BY <1>5 DEF HandleMessage
  <2>2. {Leaves(msg)[k][1] : k \in DOMAIN Leaves(msg)} \subseteq Names
    BY <2>1, NamesAssumption
  <2> QED  BY <2>1, <2>2, SetAllNames
<1> QED  BY <1>1, <1>2, <1>3, <1>4, <1>5 DEF Next, RouteRefuses, vars

(* No name gets into the store that is not one of NameOrder, in particular   *)
(* not the empty one.                                                        *)
LEMMA StoreNamesAlways == Spec => []StoreNames
<1>1. Init => StoreNames
  BY DEF Init, StoreNames
<1>2. ReadInv /\ StoreNames /\ [Next]_vars => StoreNames'
  BY StoreNamesStep
<1> QED  BY <1>1, <1>2, ReadInvAlways, PTL DEF Spec

-----------------------------------------------------------------------------
(* A function on 1 .. n is a sequence of length n. *)
LEMMA Listed ==
  ASSUME NEW n \in Nat, NEW f, DOMAIN f = 1 .. n, f = [k \in DOMAIN f |-> f[k]]
  PROVE  Len(f) = n
<1> DEFINE S == {f[k] : k \in 1 .. n}
<1>1. f \in [1 .. n -> S]
  OBVIOUS
<1>2. f \in Seq(S)
  BY <1>1, SeqDef
<1> HIDE DEF S
<1> QED  BY <1>2, LenProperties

(* snapshot() lists the store: every name in it once, with its value. *)
LEMMA SnapshotLists ==
  ASSUME DOMAIN store \subseteq Names
  PROVE  /\ Cardinality(DOMAIN store) \in Nat
         /\ DOMAIN snapshot(store) = 1 .. Cardinality(DOMAIN store)
         /\ \A k \in DOMAIN snapshot(store) : snapshot(store)[k][1] \in Names
<1> DEFINE P == {n \in DOMAIN NameOrder : NameOrder[n] \in DOMAIN store}
           f == [n \in P |-> NameOrder[n]]
<1>1. NameOrder \in Seq(Seq(STRING) \ {<< >>})
  BY NamesAssumption
<1>2. DOMAIN NameOrder = 1 .. Len(NameOrder) /\ Len(NameOrder) \in Nat
  BY <1>1, LenProperties
<1>3. P \subseteq Nat /\ IsFiniteSet(P)
  <2>1. IsFiniteSet(DOMAIN NameOrder)
    BY <1>2, FS_Interval
  <2>2. P \in SUBSET DOMAIN NameOrder
    OBVIOUS
  <2>3. P \subseteq Nat
    BY <1>2
  <2> QED  BY <2>1, <2>2, <2>3, FS_Subset
<1>4. Cardinality(DOMAIN store) = Cardinality(P) /\ Cardinality(P) \in Nat
  <2>1. f \in [P -> DOMAIN store]
    OBVIOUS
  <2>2. \A m, n \in P : f[m] = f[n] => m = n
    BY NamesAssumption
  <2>3. \A name \in DOMAIN store : \E n \in P : f[n] = name
    BY DEF Names, ToSet
  <2>4. f \in Bijection(P, DOMAIN store)
    <3> HIDE DEF f, P
    <3> QED  BY <2>1, <2>2, <2>3 DEF Bijection, Injection, IsInjective, Surjection
  <2>5. ExistsBijection(P, DOMAIN store)
    BY <2>4 DEF ExistsBijection
  <2> HIDE DEF P, f
  <2> QED  BY <1>3, <2>5, FS_Bijection, FS_CardinalityType
<1>5. /\ Ascending(P) \in [1 .. Cardinality(P) -> P]
  <2> HIDE DEF P
  <2> QED  BY <1>3, AscendingLists
<1>6. snapshot(store) = [k \in DOMAIN Ascending(P) |->
                           <<NameOrder[Ascending(P)[k]], store[NameOrder[Ascending(P)[k]]]>>]
  BY DEF snapshot
<1>7. \A n \in P : NameOrder[n] \in Names
  BY DEF Names, ToSet
<1> HIDE DEF P
<1> QED  BY <1>4, <1>5, <1>6, <1>7

(* normalize_all() keeps or counts every entry; of the entries that claim a  *)
(* name the first gets it.                                                   *)
LEMMA AllNormalized ==
  ASSUME NEW prefix, NEW topic, NEW items, NEW N \in Nat, DOMAIN items = 1 .. N
  PROVE  LET r == normalize_all(prefix, items, topic)
             prom(n) == normalize_metric_name(prefix, items[n][1], topic)
         IN /\ \A j, k \in DOMAIN r.metrics : r.metrics[j][1] = r.metrics[k][1] => j = k
            /\ \A k \in DOMAIN r.metrics : \E n \in 1 .. N : r.metrics[k][1] = prom(n)
            /\ Len(r.metrics) + Len(r.collisions) = N
            /\ \A n \in 1 .. N : items[n][1] \notin ToSet(r.collisions)
                                  => <<prom(n), items[n][2]>> \in ToSet(r.metrics)
<1> DEFINE r == normalize_all(prefix, items, topic)
           prom(n) == normalize_metric_name(prefix, items[n][1], topic)
           claiming == {n \in DOMAIN items : \A k \in 1 .. n - 1 : prom(k) # prom(n)}
           rest == DOMAIN items \ claiming
           kept == Ascending(claiming)
           dropped == Ascending(rest)
<1>1. /\ r.metrics = [k \in DOMAIN kept |-> <<prom(kept[k]), items[kept[k]][2]>>]
      /\ r.collisions = [k \in DOMAIN dropped |-> items[dropped[k]][1]]
  BY DEF normalize_all
<1>2. /\ claiming \subseteq 1 .. N /\ rest \subseteq 1 .. N
      /\ IsFiniteSet(claiming) /\ IsFiniteSet(rest)
      /\ Cardinality(claiming) + Cardinality(rest) = N
  <2>1. IsFiniteSet(1 .. N) /\ Cardinality(1 .. N) = N
    BY FS_Interval
  <2>2. claiming \in SUBSET (1 .. N) /\ rest = (1 .. N) \ claiming
        /\ (1 .. N) \cap claiming = claiming
    OBVIOUS
  <2> HIDE DEF claiming, rest
  <2>3. IsFiniteSet(claiming) /\ IsFiniteSet(rest)
    BY <2>1, <2>2, FS_Subset, SMTT(30)
  <2>4. Cardinality(rest) = N - Cardinality(claiming)
    <3>1. Cardinality((1 .. N) \ claiming) = Cardinality(1 .. N) - Cardinality((1 .. N) \cap claiming)
      BY <2>1, FS_Difference
    <3> QED  BY <2>1, <2>2, <3>1, Zenon
  <2>5. Cardinality(claiming) \in Nat /\ Cardinality(rest) \in Nat
    BY <2>3, FS_CardinalityType
  <2> QED  BY <2>2, <2>3, <2>4, <2>5
<1>3. /\ Cardinality(claiming) \in Nat
      /\ kept \in [1 .. Cardinality(claiming) -> claiming]
      /\ \A j, k \in DOMAIN kept : kept[j] = kept[k] => j = k
      /\ \A n \in claiming : \E k \in DOMAIN kept : kept[k] = n
  <2>1. claiming \subseteq Nat
    BY <1>2
  <2> HIDE DEF claiming
  <2>2. /\ Cardinality(claiming) \in Nat
        /\ kept \in [1 .. Cardinality(claiming) -> claiming]
        /\ \A j, k \in 1 .. Cardinality(claiming) : kept[j] = kept[k] => j = k
        /\ \A n \in claiming : \E k \in 1 .. Cardinality(claiming) : kept[k] = n
    BY <1>2, <2>1, AscendingLists
  <2> HIDE DEF kept
  <2> QED  BY <2>2
<1>4. /\ Cardinality(rest) \in Nat
      /\ dropped \in [1 .. Cardinality(rest) -> rest]
      /\ \A n \in rest : \E k \in DOMAIN dropped : dropped[k] = n
  <2>1. rest \subseteq Nat
    BY <1>2
  <2> HIDE DEF rest
  <2> QED  BY <1>2, <2>1, AscendingLists
<1>5. Len(r.metrics) + Len(r.collisions) = N
  <2>1. Len(r.metrics) = Cardinality(claiming)
    <3> HIDE DEF r, prom, claiming, kept
    <3>1. DOMAIN r.metrics = 1 .. Cardinality(claiming)
          /\ r.metrics = [k \in DOMAIN r.metrics |-> r.metrics[k]]
      BY <1>1, <1>3
    <3> QED  BY <1>3, <3>1, Listed
  <2>2. Len(r.collisions) = Cardinality(rest)
    <3> HIDE DEF r, prom, rest, dropped
    <3>1. DOMAIN r.collisions = 1 .. Cardinality(rest)
          /\ r.collisions = [k \in DOMAIN r.collisions |-> r.collisions[k]]
      BY <1>1, <1>4
    <3> QED  BY <1>4, <3>1, Listed
  <2> HIDE DEF r, claiming, rest
  <2> QED  BY <1>2, <2>1, <2>2
<1>6. \A m, n \in claiming : prom(m) = prom(n) => m = n
  <2> SUFFICES ASSUME NEW m \in claiming, NEW n \in claiming, prom(m) = prom(n), m < n
               PROVE  FALSE
    <3>1. \A m \in claiming : m \in Nat
      BY <1>2
    <3> HIDE DEF prom, claiming
    <3> QED  BY <3>1
  <2>1. m \in 1 .. N /\ n \in 1 .. N /\ \A k \in 1 .. n - 1 : prom(k) # prom(n)
    OBVIOUS
  <2>2. m \in 1 .. n - 1
    BY <2>1
  <2> HIDE DEF prom
  <2> QED  BY <2>1, <2>2
<1>7. ASSUME NEW j \in DOMAIN r.metrics, NEW k \in DOMAIN r.metrics,
             r.metrics[j][1] = r.metrics[k][1]
      PROVE  j = k
  <2> HIDE DEF r, prom, claiming, kept
  <2>1. j \in DOMAIN kept /\ k \in DOMAIN kept /\ prom(kept[j]) = prom(kept[k])
    BY <1>1, <1>7
  <2>2. kept[j] \in claiming /\ kept[k] \in claiming
    BY <1>3, <2>1
  <2> QED  BY <1>3, <1>6, <2>1, <2>2
<1>8. ASSUME NEW k \in DOMAIN r.metrics
      PROVE  \E n \in 1 .. N : r.metrics[k][1] = prom(n)
  <2> HIDE DEF r, prom, claiming, kept
  <2>1. k \in DOMAIN kept /\ r.metrics[k][1] = prom(kept[k])
    BY <1>1, <1>8
  <2> QED  BY <1>2, <1>3, <2>1
<1>9. ASSUME NEW n \in 1 .. N, items[n][1] \notin ToSet(r.collisions)
      PROVE  <<prom(n), items[n][2]>> \in ToSet(r.metrics)
  <2>1. n \in claiming \/ n \in rest
    OBVIOUS
  <2> HIDE DEF r, prom, claiming, rest, kept, dropped
  <2>2. n \notin rest
    BY <1>1, <1>4, <1>9 DEF ToSet
  <2>3. PICK k \in DOMAIN kept : kept[k] = n
    BY <1>3, <2>1, <2>2
  <2>4. k \in DOMAIN r.metrics /\ r.metrics[k] = <<prom(n), items[n][2]>>
    BY <1>1, <2>3
  <2> QED  BY <2>4 DEF ToSet
<1>10. QED
  <2> HIDE DEF r, prom
  <2>1. /\ \A j, k \in DOMAIN r.metrics : r.metrics[j][1] = r.metrics[k][1] => j = k
        /\ \A k \in DOMAIN r.metrics : \E n \in 1 .. N : r.metrics[k][1] = prom(n)
        /\ Len(r.metrics) + Len(r.collisions) = N
        /\ \A n \in 1 .. N : items[n][1] \notin ToSet(r.collisions)
                              => <<prom(n), items[n][2]>> \in ToSet(r.metrics)
    BY <1>5, <1>7, <1>8, <1>9
  <2> QED  BY <2>1 DEF r, prom

-----------------------------------------------------------------------------
(* normalize_metric_name() *)

(* A text of one symbol. *)
LEMMA OneSymbol ==
  ASSUME NEW S, NEW c \in S
  PROVE  <<c>> \in Seq(S) /\ Len(<<c>>) = 1 /\ DOMAIN <<c>> = 1 .. 1 /\ <<c>>[1] = c
OBVIOUS

(* Joining texts is associative. *)
LEMMA JoinTexts ==
  ASSUME NEW S, NEW s \in Seq(S), NEW t \in Seq(S), NEW u \in Seq(S)
  PROVE  s \o t \o u = s \o (t \o u)
BY ConcatAssociative

(* A text that can begin a name Prometheus accepts. *)
BeginsName(p) == ToSet(p) \subseteq NameSymbols /\ (p # << >> => p[1] \notin Digits)

(* Joined, two of them can still begin one: only the first symbol may not be *)
(* a digit.                                                                  *)
LEMMA JoinedNames ==
  ASSUME NEW s \in Seq(STRING), NEW t \in Seq(STRING), BeginsName(s), BeginsName(t)
  PROVE  BeginsName(s \o t)
<1>1. /\ s \o t \in Seq(STRING) /\ Len(s \o t) = Len(s) + Len(t)
      /\ \A i \in 1 .. Len(s) + Len(t) :
           (s \o t)[i] = IF i <= Len(s) THEN s[i] ELSE t[i - Len(s)]
  BY ConcatProperties
<1>2. /\ Len(s) \in Nat /\ DOMAIN s = 1 .. Len(s) /\ Len(t) \in Nat /\ DOMAIN t = 1 .. Len(t)
      /\ DOMAIN (s \o t) = 1 .. Len(s) + Len(t)
  BY <1>1, LenProperties
<1>3. ASSUME NEW i \in DOMAIN (s \o t)
      PROVE  (s \o t)[i] \in ToSet(s) \cup ToSet(t)
  <2>1. CASE i <= Len(s)
    BY <1>1, <1>2, <2>1 DEF ToSet
  <2>2. CASE ~(i <= Len(s))
    <3>1. i - Len(s) \in DOMAIN t
      BY <1>2, <2>2
    <3> QED  BY <1>1, <1>2, <2>2, <3>1 DEF ToSet
  <2> QED  BY <2>1, <2>2
<1>4. ToSet(s \o t) \subseteq NameSymbols
  BY <1>3 DEF BeginsName, ToSet
<1>5. ASSUME s \o t # << >>
      PROVE  (s \o t)[1] \notin Digits
  <2>1. CASE s # << >>
    <3>1. (s \o t)[1] = s[1]
      BY <1>1, <1>2, <2>1
    <3> QED  BY <2>1, <3>1 DEF BeginsName
  <2>2. CASE s = << >>
    BY <1>5, <2>2 DEF BeginsName
  <2> QED  BY <2>1, <2>2
<1> QED  BY <1>4, <1>5 DEF BeginsName

(* A symbol that is not a digit makes a name of any symbols of names. *)
LEMMA LeadingSymbol ==
  ASSUME NEW c \in NameSymbols \ Digits, NEW t \in Seq(STRING), ToSet(t) \subseteq NameSymbols
  PROVE  /\ <<c>> \in Seq(STRING) /\ BeginsName(<<c>>)
         /\ <<c>> \o t \in Seq(STRING) /\ <<c>> \o t # << >> /\ BeginsName(<<c>> \o t)
<1> DEFINE one == <<c>>
           whole == one \o t
<1>1. one \in Seq(STRING) /\ Len(one) = 1 /\ DOMAIN one = 1 .. 1 /\ one[1] = c
  BY DigitsAssumption, OneSymbol
<1>2. BeginsName(one)
  <2> HIDE DEF one
  <2>1. \A i \in DOMAIN one : one[i] \in NameSymbols
    BY <1>1
  <2> QED  BY <1>1, <2>1 DEF BeginsName, ToSet
<1> HIDE DEF one
<1>3. Len(t) \in Nat /\ DOMAIN t = 1 .. Len(t)
  BY LenProperties
<1>4. /\ whole \in Seq(STRING) /\ Len(whole) = 1 + Len(t)
      /\ \A i \in 1 .. 1 + Len(t) : whole[i] = IF i <= 1 THEN one[i] ELSE t[i - 1]
  <2>1. /\ whole \in Seq(STRING) /\ Len(whole) = Len(one) + Len(t)
        /\ \A i \in 1 .. Len(one) + Len(t) :
             whole[i] = IF i <= Len(one) THEN one[i] ELSE t[i - Len(one)]
    BY <1>1, ConcatProperties
  <2> HIDE DEF whole
  <2> QED  BY <1>1, <1>3, <2>1
<1> HIDE DEF whole
<1>5. DOMAIN whole = 1 .. 1 + Len(t) /\ whole[1] = c /\ whole # << >>
  BY <1>1, <1>3, <1>4, LenProperties, EmptySeq
<1>6. ASSUME NEW i \in DOMAIN whole
      PROVE  whole[i] \in NameSymbols
  <2>1. CASE i = 1
    BY <1>5, <2>1, DigitsAssumption
  <2>2. CASE i # 1
    <3>1. i - 1 \in DOMAIN t /\ whole[i] = t[i - 1]
      BY <1>3, <1>4, <1>5, <2>2
    <3> QED  BY <3>1 DEF ToSet
  <2> QED  BY <2>1, <2>2
<1>7. BeginsName(whole)
  BY <1>5, <1>6 DEF BeginsName, ToSet
<1> QED  BY <1>1, <1>2, <1>4, <1>5, <1>7 DEF one, whole

(* What normalize_metric_name() makes of a name of the store is a name       *)
(* Prometheus accepts, if the prefix can begin one.                          *)
LEMMA NormalizedName ==
  ASSUME NEW prefix \in Seq(STRING), NEW topic \in Seq(STRING), NEW name \in Seq(STRING),
         name # << >>, BeginsName(prefix)
  PROVE  /\ normalize_metric_name(prefix, name, topic) # << >>
         /\ BeginsName(normalize_metric_name(prefix, name, topic))
<1>0. "_" \in STRING
  BY DigitsAssumption
<1> DEFINE raw == topic \o name
           body1 == [i \in DOMAIN raw |-> IF raw[i] \in NameSymbols THEN raw[i] ELSE "_"]
           lead == IF body1 # << >> /\ body1[1] \in Digits THEN <<"_">> ELSE << >>
<1>1. normalize_metric_name(prefix, name, topic) = prefix \o lead \o body1
  BY DEF normalize_metric_name
<1>2. /\ raw \in Seq(STRING) /\ Len(raw) \in Nat /\ Len(raw) >= 1
      /\ DOMAIN raw = 1 .. Len(raw)
  <2>1. raw \in Seq(STRING) /\ Len(raw) = Len(topic) + Len(name)
    BY ConcatProperties
  <2>2. Len(topic) \in Nat /\ Len(name) \in Nat \ {0}
    BY EmptySeq, LenProperties
  <2> HIDE DEF raw
  <2> QED  BY <2>1, <2>2, LenProperties
<1>3. /\ body1 \in Seq(STRING) /\ Len(body1) = Len(raw) /\ DOMAIN body1 = 1 .. Len(raw)
      /\ ToSet(body1) \subseteq NameSymbols
  <2>1. \A i \in 1 .. Len(raw) : raw[i] \in STRING
    BY <1>2, ElementOfSeq
  <2>2. body1 \in [1 .. Len(raw) -> STRING]
    <3> HIDE DEF raw
    <3>1. \A i \in 1 .. Len(raw) : body1[i] \in STRING
      BY <1>0, <1>2, <2>1
    <3>2. DOMAIN body1 = 1 .. Len(raw) /\ body1 = [i \in DOMAIN body1 |-> body1[i]]
      BY <1>2
    <3> HIDE DEF body1
    <3> QED  BY <3>1, <3>2
  <2>3. \A i \in 1 .. Len(raw) : body1[i] \in NameSymbols
    <3> HIDE DEF raw
    <3> QED  BY <1>2, DigitsAssumption
  <2>4. body1 \in Seq(STRING)
    <3> HIDE DEF raw, body1
    <3> QED  BY <1>2, <2>2, SeqDef
  <2> HIDE DEF raw, body1
  <2>5. DOMAIN body1 = 1 .. Len(raw) /\ body1 = [i \in DOMAIN body1 |-> body1[i]]
    BY <2>2
  <2>6. Len(body1) = Len(raw)
    BY <1>2, <2>5, Listed
  <2> QED  BY <2>3, <2>4, <2>5, <2>6 DEF ToSet
<1> HIDE DEF raw, body1
<1>4. lead \in Seq(STRING) /\ BeginsName(lead)
  <2>1. << >> \in Seq(STRING) /\ BeginsName(<< >>)
    BY DEF BeginsName, ToSet
  <2>2. <<"_">> \in Seq(STRING) /\ BeginsName(<<"_">>)
    BY <1>3, DigitsAssumption, LeadingSymbol
  <2> QED  BY <2>1, <2>2
<1>5. BeginsName(lead \o body1) /\ lead \o body1 \in Seq(STRING) /\ lead \o body1 # << >>
  <2>1. body1 # << >> /\ Len(body1) \in Nat
    BY <1>2, <1>3
  <2>2. CASE body1[1] \in Digits
    <3>1. lead = <<"_">>
      BY <2>1, <2>2
    <3> HIDE DEF lead
    <3> QED  BY <1>3, <3>1, DigitsAssumption, LeadingSymbol
  <2>3. CASE body1[1] \notin Digits
    <3>1. lead = << >>
      BY <2>3
    <3>2. lead \o body1 = body1
      BY <1>3, <3>1, ConcatEmptySeq
    <3> HIDE DEF lead
    <3> QED  BY <1>3, <2>1, <2>3, <3>2 DEF BeginsName
  <2> QED  BY <2>2, <2>3
<1> HIDE DEF lead
<1>6. prefix \o lead \o body1 = prefix \o (lead \o body1)
  <2>1. body1 \in Seq(STRING) /\ lead \in Seq(STRING)
    BY <1>3, <1>4
  <2> QED  BY <2>1, JoinTexts, SMTT(30)
<1>7. prefix \o (lead \o body1) # << >>
  BY <1>5, ConcatEqualIffEmpty
<1> QED  BY <1>1, <1>5, <1>6, <1>7, JoinedNames

(* GET /metrics-state shows every entry of the store exactly once or counts  *)
(* it as a collision, for all names and prefixes: series have different      *)
(* names that Prometheus accepts and nothing is lost (metrics.cpp:54-92).    *)
THEOREM StateIsExposedOnce == Spec => []ExposedOnce
<1>1. ASSUME StoreNames PROVE ExposedOnce
  <2> DEFINE items == snapshot(store)
             N == Cardinality(DOMAIN store)
             r == normalize_all(StatePrefix, items, TopicPrefix)
             prom(n) == normalize_metric_name(StatePrefix, items[n][1], TopicPrefix)
  <2>1. N \in Nat /\ DOMAIN items = 1 .. N /\ \A k \in 1 .. N : items[k][1] \in Names
    BY <1>1, SnapshotLists DEF StoreNames
  <2>2. /\ \A j, k \in DOMAIN r.metrics : r.metrics[j][1] = r.metrics[k][1] => j = k
        /\ \A k \in DOMAIN r.metrics : \E n \in 1 .. N : r.metrics[k][1] = prom(n)
        /\ Len(r.metrics) + Len(r.collisions) = N
        /\ \A n \in 1 .. N : items[n][1] \notin ToSet(r.collisions)
                              => <<prom(n), items[n][2]>> \in ToSet(r.metrics)
    <3> HIDE DEF items, N
    <3> QED  BY <2>1, AllNormalized
  <2>3. ASSUME BeginsName(StatePrefix), NEW k \in DOMAIN r.metrics
        PROVE  r.metrics[k][1] # << >> /\ BeginsName(r.metrics[k][1])
    <3>1. PICK n \in 1 .. N : r.metrics[k][1] = prom(n)
      BY <2>2
    <3>2. items[n][1] \in Seq(STRING) /\ items[n][1] # << >>
      <4>1. \A name \in Names : name \in Seq(STRING) \ {<< >>}
        BY NamesAssumption DEF Names, ToSet
      <4> HIDE DEF items
      <4> QED  BY <2>1, <4>1
    <3> HIDE DEF items, r
    <3> QED  BY <2>3, <3>1, <3>2, NormalizedName, PrefixesAssumption
  <2> QED
    <3> HIDE DEF items, N, r, prom
    <3>1. \A k \in DOMAIN items : items[k][1] \notin ToSet(r.collisions)
                                   => <<prom(k), items[k][2]>> \in ToSet(r.metrics)
      BY <2>1, <2>2
    <3> QED  BY <2>2, <2>3, <3>1 DEF ExposedOnce, BeginsName, items, N, r, prom
<1> QED  BY <1>1, StoreNamesAlways, PTL

-----------------------------------------------------------------------------
(* The values in the store *)

(* What parse_double() reads is a number. *)
LEMMA ParsedNumbers ==
  ASSUME NEW s
  PROVE  parse_double(s) \subseteq Numbers
BY DEF parse_double, Numbers

(* A list of leaves: a sequence of pairs with a number each. *)
IsLeaves(ps) ==
  /\ \E S : ps \in Seq(S)
  /\ \A k \in DOMAIN ps : ps[k][2] \in Numbers

(* One more leaf. *)
LEMMA LeafAdded ==
  ASSUME NEW ps, IsLeaves(ps), NEW name, NEW x \in Numbers
  PROVE  IsLeaves(Append(ps, <<name, x>>))
<1> DEFINE leaf == <<name, x>>
           qs == Append(ps, leaf)
<1>1. PICK S : ps \in Seq(S)
  BY DEF IsLeaves
<1>2. leaf[2] = x
  OBVIOUS
<1> DEFINE T == S \cup {leaf}
<1>3. ps \in Seq(T) /\ leaf \in T
  <2>1. S \subseteq T
    OBVIOUS
  <2> HIDE DEF T, leaf
  <2>2. DOMAIN ps = 1 .. Len(ps) /\ Len(ps) \in Nat /\ ps \in [1 .. Len(ps) -> S]
    BY <1>1, LenProperties
  <2>3. ps \in [1 .. Len(ps) -> T]
    BY <2>1, <2>2
  <2>4. ps \in Seq(T)
    BY <2>2, <2>3, SeqDef
  <2> QED  BY <2>4 DEF T
<1> HIDE DEF T, leaf
<1>4. /\ qs \in Seq(T) /\ Len(qs) = Len(ps) + 1
      /\ \A i \in 1 .. Len(ps) : qs[i] = ps[i]
      /\ qs[Len(ps) + 1] = leaf
  BY <1>3, AppendProperties
<1> HIDE DEF qs
<1>5. /\ Len(ps) \in Nat /\ DOMAIN ps = 1 .. Len(ps) /\ DOMAIN qs = 1 .. Len(ps) + 1
  BY <1>1, <1>4, LenProperties
<1>6. ASSUME NEW k \in DOMAIN qs PROVE qs[k][2] \in Numbers
  <2>1. CASE k \in 1 .. Len(ps)
    BY <1>4, <1>5, <2>1 DEF IsLeaves
  <2>2. CASE k = Len(ps) + 1
    BY <1>2, <1>4, <2>2
  <2> QED  BY <1>5, <2>1, <2>2
<1>7. IsLeaves(qs)
  BY <1>4, <1>6 DEF IsLeaves
<1> QED  BY <1>7 DEF qs, leaf

(* A field adds a leaf, or none. *)
LEMMA FlattenStep ==
  ASSUME NEW f, IsLeaves(f.pairs)
  PROVE  IsLeaves(flatten_next(f).pairs)
<1> DEFINE name == f.todo[1][1]
           v == f.todo[1][2]
           rest == Tail(f.todo)
           leaf(x) == Flattening(TRUE, rest, Append(f.pairs, <<name, x>>))
           entered == Enter(v, name, rest, f.pairs)
           passed == Flattening(TRUE, rest, f.pairs)
           refused == Flattening(FALSE, << >>, f.pairs)
           one == leaf(Double["1"])
           zero == leaf(Double["0"])
           read == IF parse_double(v) = {} THEN refused
                   ELSE leaf(CHOOSE x \in parse_double(v) : TRUE)
           IsObject == v[1] = "{"
           IsPassed == v[1] \in {"[", Quote} \/ v = <<"null">>
           IsTrue == v = <<"true">>
           IsFalse == v = <<"false">>
           inner == CASE IsObject -> entered [] IsPassed -> passed [] IsTrue -> one
                      [] IsFalse -> zero [] OTHER -> read
<1>1. flatten_next(f) = IF ~f.ok \/ f.todo = << >> THEN f ELSE inner
  BY DEF flatten_next
<1>2. ASSUME NEW x \in Numbers PROVE IsLeaves(leaf(x).pairs)
  <2>1. leaf(x).pairs = Append(f.pairs, <<name, x>>)
    BY DEF Flattening
  <2> HIDE DEF leaf, name
  <2> QED  BY <2>1, LeafAdded
<1>3. entered.pairs = f.pairs /\ passed.pairs = f.pairs /\ refused.pairs = f.pairs
  BY DEF Enter, Flattening
<1>4. IsLeaves(one.pairs) /\ IsLeaves(zero.pairs)
  <2>1. Double["1"] \in Numbers /\ Double["0"] \in Numbers
    BY DoubleAssumption DEF Numbers
  <2> HIDE DEF leaf
  <2> QED  BY <1>2, <2>1
<1>5. IsLeaves(read.pairs)
  <2>1. CASE parse_double(v) = {}
    BY <1>3, <2>1
  <2>2. CASE parse_double(v) # {}
    <3> DEFINE x == CHOOSE y \in parse_double(v) : TRUE
    <3>1. x \in Numbers /\ read = leaf(x)
      <4> HIDE DEF v, leaf
      <4> QED  BY <2>2, ParsedNumbers
    <3> HIDE DEF x, leaf, read
    <3> QED  BY <1>2, <3>1
  <2> QED  BY <2>1, <2>2
<1>6. inner = entered \/ inner = passed \/ inner = one \/ inner = zero \/ inner = read
  <2> HIDE DEF IsObject, IsPassed, IsTrue, IsFalse, entered, passed, one, zero, read
  <2> QED  OBVIOUS
<1>7. IsLeaves(inner.pairs)
  <2> HIDE DEF inner, entered, passed, one, zero, read
  <2> QED  BY <1>3, <1>4, <1>5, <1>6
<1> HIDE DEF inner
<1> QED  BY <1>1, <1>7

(* The states flatten_json_object() goes through in N steps from b. *)
Flattens(f, N, b) == f = [n \in 0 .. N |-> IF n = 0 THEN b ELSE flatten_next(f[n - 1])]

(* There are such states, whatever the text. *)
LEMMA FlattensExist ==
  ASSUME NEW N \in Nat, NEW b
  PROVE  \E f : Flattens(f, N, b)
<1> DEFINE Bad == {m \in 0 .. N : ~\E f : Flattens(f, m, b)}
<1>1. SUFFICES ASSUME Bad # {} PROVE FALSE
  <2>1. N \in 0 .. N
    OBVIOUS
  <2> QED  BY <2>1
<1>3. Bad \subseteq Nat
  OBVIOUS
<1>4. PICK m \in Bad : \A k \in Bad : ~(k < m)
  <2> HIDE DEF Bad
  <2> QED  BY <1>1, <1>3, LeastNumber
<1>5. CASE m = 0
  <2> DEFINE f == [n \in 0 .. 0 |-> b]
  <2>1. Flattens(f, 0, b)
    BY DEF Flattens
  <2> QED  BY <1>4, <1>5, <2>1
<1>6. CASE m # 0
  <2>1. m \in 1 .. N /\ m - 1 \in 0 .. N /\ m - 1 \in Nat /\ m \in Nat
    BY <1>4, <1>6
  <2>2. m - 1 \notin Bad
    <3> HIDE DEF Bad
    <3> QED  BY <1>4, <2>1
  <2>3. PICK g : Flattens(g, m - 1, b)
    BY <2>1, <2>2
  <2>4. \A n \in 0 .. m - 1 : g[n] = IF n = 0 THEN b ELSE flatten_next(g[n - 1])
    <3>1. g = [n \in 0 .. m - 1 |-> IF n = 0 THEN b ELSE flatten_next(g[n - 1])]
      BY <2>3 DEF Flattens
    <3> QED  BY <3>1
  <2> DEFINE f == [n \in 0 .. m |-> IF n = m THEN flatten_next(g[m - 1]) ELSE g[n]]
  <2>5. ASSUME NEW n \in 0 .. m
        PROVE  f[n] = IF n = 0 THEN b ELSE flatten_next(f[n - 1])
    <3>1. CASE n = 0
      <4>1. f[0] = g[0] /\ g[0] = b
        BY <2>1, <2>4
      <4> QED  BY <3>1, <4>1
    <3>2. CASE n # 0 /\ n # m
      <4>1. n \in 0 .. m - 1 /\ n - 1 \in 0 .. m /\ n - 1 # m
        BY <2>1, <3>2
      <4>2. f[n] = g[n] /\ f[n - 1] = g[n - 1]
        BY <3>2, <4>1
      <4> HIDE DEF f
      <4> QED  BY <2>4, <3>2, <4>1, <4>2
    <3>3. CASE n = m
      <4>1. m - 1 \in 0 .. m /\ m - 1 # m /\ m \in 0 .. m
        BY <2>1
      <4>2. f[m] = flatten_next(g[m - 1]) /\ f[m - 1] = g[m - 1]
        BY <4>1
      <4> HIDE DEF f
      <4> QED  BY <2>1, <3>3, <4>2
    <3> QED  BY <3>1, <3>2, <3>3
  <2>6. Flattens(f, m, b)
    <3>1. f = [n \in 0 .. m |-> f[n]]
      OBVIOUS
    <3> HIDE DEF f
    <3>2. [n \in 0 .. m |-> f[n]] = [n \in 0 .. m |-> IF n = 0 THEN b ELSE flatten_next(f[n - 1])]
      BY <2>5
    <3> QED  BY <3>1, <3>2 DEF Flattens
  <2> QED  BY <1>4, <2>6
<1> QED  BY <1>5, <1>6

(* All of them have leaves only. *)
LEMMA FlattensKeeps ==
  ASSUME NEW N \in Nat, NEW b, IsLeaves(b.pairs), NEW f, Flattens(f, N, b)
  PROVE  \A n \in 0 .. N : IsLeaves(f[n].pairs)
<1> DEFINE Bad == {m \in 0 .. N : ~IsLeaves(f[m].pairs)}
<1>1. SUFFICES ASSUME Bad # {} PROVE FALSE
  OBVIOUS
<1>3. Bad \subseteq Nat
  OBVIOUS
<1>4. PICK m \in Bad : \A k \in Bad : ~(k < m)
  <2> HIDE DEF Bad
  <2> QED  BY <1>1, <1>3, LeastNumber
<1>5. \A n \in 0 .. N : f[n] = IF n = 0 THEN b ELSE flatten_next(f[n - 1])
  <2>1. f = [n \in 0 .. N |-> IF n = 0 THEN b ELSE flatten_next(f[n - 1])]
    BY DEF Flattens
  <2> QED  BY <2>1
<1>6. m # 0
  BY <1>4, <1>5
<1>7. m - 1 \in 0 .. N /\ m - 1 \notin Bad
  <2>1. m \in Nat /\ m - 1 \in Nat /\ m - 1 \in 0 .. N
    BY <1>4, <1>6
  <2> HIDE DEF Bad
  <2> QED  BY <1>4, <2>1
<1>8. IsLeaves(f[m - 1].pairs)
  BY <1>7
<1>9. f[m] = flatten_next(f[m - 1])
  BY <1>4, <1>5, <1>6
<1> QED  BY <1>4, <1>8, <1>9, FlattenStep

(* The empty list. *)
LEMMA NoLeaves == IsLeaves(<< >>)
<1>1. << >> \in Seq({})
  OBVIOUS
<1> QED  BY <1>1 DEF IsLeaves

(* Whatever the text, flatten_json_object() finds numbers. *)
LEMMA FlattenedNumbers ==
  ASSUME NEW s, Len(s) \in Nat
  PROVE  IsLeaves(flatten_json_object(s).pairs)
<1> DEFINE N == Len(s)
           b == Enter(s, << >>, << >>, << >>)
           after == CHOOSE f : Flattens(f, N, b)
           f == after[N]
<1>1. flatten_json_object(s) = IF f.ok THEN Pairs(f.pairs) ELSE Malformed
  BY DEF flatten_json_object, Flattens
<1>2. b.pairs = << >>
  BY DEF Enter, Flattening
<1>3. Flattens(after, N, b)
  <2> HIDE DEF b, N
  <2>1. N \in Nat
    BY DEF N
  <2> QED  BY <2>1, FlattensExist
<1>4. IsLeaves(f.pairs)
  <2>1. N \in 0 .. N
    OBVIOUS
  <2> HIDE DEF b, N, after
  <2>2. N \in Nat
    BY DEF N
  <2> QED  BY <1>2, <1>3, <2>1, <2>2, FlattensKeeps, NoLeaves
<1> HIDE DEF f
<1>5. Pairs(f.pairs).pairs = f.pairs /\ Malformed.pairs = << >>
  BY DEF Pairs, Malformed
<1> QED  BY <1>1, <1>4, <1>5, NoLeaves

(* A message brings numbers. *)
LEMMA LeavesAreNumbers ==
  ASSUME NEW m \in Messages
  PROVE  IsLeaves(Leaves(m))
<1>1. CASE m.topic \in JsonTopics
  <2> DEFINE r == flatten_json_object(m.text)
             name(n) == m.topic \o <<"/">> \o r.pairs[n][1]
             qs == [n \in DOMAIN r.pairs |-> <<name(n), r.pairs[n][2]>>]
  <2>1. Leaves(m) = qs
    BY <1>1 DEF Leaves
  <2>2. IsLeaves(r.pairs)
    BY MessagesAssumption, LenProperties, FlattenedNumbers
  <2> HIDE DEF r, name
  <2>3. PICK S : r.pairs \in Seq(S)
    BY <2>2 DEF IsLeaves
  <2>4. DOMAIN r.pairs = 1 .. Len(r.pairs) /\ Len(r.pairs) \in Nat
    BY <2>3, LenProperties
  <2>5. \A n \in DOMAIN qs : qs[n][2] \in Numbers
    BY <2>2 DEF IsLeaves
  <2> DEFINE T == {qs[n] : n \in DOMAIN qs}
  <2>6. DOMAIN qs = 1 .. Len(r.pairs) /\ qs = [n \in 1 .. Len(r.pairs) |-> qs[n]]
    BY <2>4
  <2> HIDE DEF qs
  <2>7. qs \in [1 .. Len(r.pairs) -> T]
    BY <2>6
  <2>8. qs \in Seq(T)
    BY <2>4, <2>7, SeqDef
  <2> QED  BY <2>1, <2>5, <2>8 DEF IsLeaves
<1>2. CASE m.topic \notin JsonTopics
  <2> DEFINE v == parse_double(m.text)
             x == CHOOSE y \in v : TRUE
             leaf == <<m.topic, x>>
  <2>1. Leaves(m) = IF v = {} THEN << >> ELSE <<leaf>>
    BY <1>2 DEF Leaves
  <2>2. v \subseteq Numbers
    BY ParsedNumbers
  <2>3. CASE v # {}
    <3>1. x \in Numbers
      <4> HIDE DEF v
      <4> QED  BY <2>2, <2>3
    <3>2. leaf[2] = x
      OBVIOUS
    <3> HIDE DEF leaf, x, v
    <3>3. <<leaf>> \in Seq({leaf}) /\ DOMAIN <<leaf>> = 1 .. 1 /\ <<leaf>>[1] = leaf
      BY OneSymbol
    <3> DEFINE qs == <<leaf>>
    <3>4. qs \in Seq({leaf}) /\ \A k \in DOMAIN qs : qs[k][2] \in Numbers
      <4>1. qs \in Seq({leaf}) /\ DOMAIN qs = 1 .. 1 /\ qs[1] = leaf
        BY <3>3
      <4> HIDE DEF qs
      <4> QED  BY <3>1, <3>2, <4>1
    <3>5. Leaves(m) = qs
      BY <2>1, <2>3
    <3> HIDE DEF qs
    <3> QED  BY <3>4, <3>5 DEF IsLeaves
  <2>4. CASE v = {}
    BY <2>1, <2>4, NoLeaves
  <2> QED  BY <2>3, <2>4
<1> QED  BY <1>1, <1>2

(* Of several leaves of one name SetAll() takes the last. *)
LEMMA SetAllNumbers ==
  ASSUME NEW st, NEW pairs, IsLeaves(pairs), \A name \in DOMAIN st : st[name] \in Numbers
  PROVE  \A name \in DOMAIN SetAll(st, pairs) : SetAll(st, pairs)[name] \in Numbers
<1> DEFINE names == {pairs[k][1] : k \in DOMAIN pairs}
           At1(name) == {k \in DOMAIN pairs : pairs[k][1] = name}
           new == SetAll(st, pairs)
<1>1. new = [name \in names \cup DOMAIN st |->
               IF name \in names THEN pairs[Max(At1(name))][2] ELSE st[name]]
  BY DEF SetAll
<1>2. PICK S : pairs \in Seq(S)
  BY DEF IsLeaves
<1>3. DOMAIN pairs = 1 .. Len(pairs) /\ Len(pairs) \in Nat
  BY <1>2, LenProperties
<1>4. ASSUME NEW name \in names
      PROVE  pairs[Max(At1(name))][2] \in Numbers
  <2>1. At1(name) \subseteq 1 .. Len(pairs) /\ At1(name) # {}
    BY <1>3
  <2>2. Max(At1(name)) \in At1(name)
    <3> HIDE DEF At1, names
    <3> QED  BY <1>3, <2>1, LastPosition
  <2>3. Max(At1(name)) \in DOMAIN pairs
    BY <2>2
  <2> QED  BY <2>3 DEF IsLeaves
<1> HIDE DEF new, names, At1
<1>5. \A name \in DOMAIN new : new[name] \in Numbers
  BY <1>1, <1>4
<1> QED  BY <1>5 DEF new

(* A request offers numbers. *)
LEMMA OfferedNumbers ==
  ASSUME Writes(request)
  PROVE  Offered(request) \subseteq Numbers
<1>1. \A s, field : extract_json_number_field(s, field) \subseteq Numbers
  BY ParsedNumbers DEF extract_json_number_field
<1>2. CASE request.method = "PUT"
  <2>1. Offered(request) = IF LastHeader(request, "content-type", "") = "application/json"
                           THEN extract_json_number_field(body, <<"value">>)
                           ELSE parse_double(body)
    BY <1>2 DEF Offered
  <2> QED  BY <1>1, <2>1, ParsedNumbers
<1>3. CASE request.method = "GET"
  <2> DEFINE given == find_query_param(request, <<"value">>)
  <2>1. Offered(request) = UNION {parse_double(v) : v \in given}
    BY <1>3 DEF Offered
  <2> HIDE DEF given
  <2> QED  BY <2>1, ParsedNumbers
<1> QED  BY <1>2, <1>3 DEF Writes

(* What is in the store is a number strtod() can read. *)
StoreValues == \A name \in DOMAIN store : store[name] \in Numbers

(* Requests and messages, whatever they hold, put nothing else there. *)
LEMMA StoreValuesStep ==
  ASSUME StoreNames, StoreValues, [Next]_vars
  PROVE  StoreValues'
<1> USE DEF StoreValues
<1>1. CASE UNCHANGED store
  BY <1>1
<1>2. CASE handle_metric_write
  <2>1. PICK value \in Offered(request) : store' = set(store, Name(request), value)
    BY <1>2 DEF handle_metric_write
  <2>2. value \in Numbers
    BY <1>2, <2>1, OfferedNumbers DEF handle_metric_write
  <2> QED  BY <2>1, <2>2 DEF set
<1>3. CASE handle_metric_delete
  BY <1>3 DEF handle_metric_delete, remove
<1>4. CASE HandleMessage
  <2>1. msg \in Messages /\ store' = SetAll(store, Leaves(msg))
    BY <1>4 DEF HandleMessage, StoreNames
  <2>2. IsLeaves(Leaves(msg))
    BY <2>1, LeavesAreNumbers
  <2> QED  BY <2>1, <2>2, SetAllNumbers
<1> QED  BY <1>1, <1>2, <1>3, <1>4 DEF Next, RouteRefuses, TakeMessage, vars

(* For every request and every message, however nested, cut or malformed its *)
(* JSON: the buffers stay within their limits, and the store only ever has   *)
(* names it may have, each with a number that strtod() can read              *)
(* (server.cpp:621-669, main.cpp:452-483, json_util.cpp:207-374).            *)
THEOREM StoreIsTyped == Spec => []TypeOK
<1>1. Init => StoreValues
  BY DEF Init, StoreValues
<1>2. StoreNames /\ StoreValues /\ [Next]_vars => StoreValues'
  BY StoreValuesStep
<1>3. ReadInv /\ StoreNames /\ StoreValues => TypeOK
  BY DEF ReadInv, StoreNames, StoreValues, TypeOK
<1> QED  BY <1>1, <1>2, <1>3, ReadInvAlways, StoreNamesAlways, PTL DEF Spec

-----------------------------------------------------------------------------
(* Texts put together from blocks *)

(* Where each block of a text starts. *)
BlocksAt(t, bs, n, p) ==
  /\ p \in [1 .. n + 1 -> Nat \ {0}] /\ p[1] = 1 /\ p[n + 1] = Len(t) + 1
  /\ \A k \in 1 .. n : /\ p[k + 1] = p[k] + Len(bs[k])
                       /\ \A j \in 1 .. Len(bs[k]) : t[p[k] + j - 1] = bs[k][j]

(* A block starts behind the end of every earlier one. *)
LEMMA BlocksAscend ==
  ASSUME NEW t, NEW n \in Nat, NEW bs, NEW p, BlocksAt(t, bs, n, p),
         \A k \in 1 .. n : Len(bs[k]) \in Nat, NEW k \in 1 .. n + 1
  PROVE  \A m \in k .. n + 1 : p[m] >= p[k]
<1>1. /\ \A m \in 1 .. n + 1 : p[m] \in Nat
      /\ \A m \in 1 .. n : p[m + 1] = p[m] + Len(bs[m])
  BY DEF BlocksAt
<1> DEFINE Bad == {m \in k .. n + 1 : ~(p[m] >= p[k])}
<1>2. SUFFICES ASSUME Bad # {} PROVE FALSE
  OBVIOUS
<1>3. Bad \subseteq Nat
  OBVIOUS
<1>4. PICK m \in Bad : \A i \in Bad : ~(i < m)
  <2> HIDE DEF Bad
  <2> QED  BY <1>2, <1>3, LeastNumber
<1>5. m \in k .. n + 1 /\ ~(p[m] >= p[k]) /\ m \in 1 .. n + 1
  BY <1>4
<1>6. m # k
  BY <1>1, <1>5
<1>7. m - 1 \in k .. n + 1 /\ m - 1 \in 1 .. n /\ m - 1 + 1 = m /\ m - 1 < m
  BY <1>5, <1>6
<1>8. m - 1 \notin Bad
  <2> HIDE DEF Bad
  <2> QED  BY <1>4, <1>7
<1>9. p[m - 1] >= p[k]
  BY <1>7, <1>8
<1>10. p[m - 1 + 1] = p[m - 1] + Len(bs[m - 1]) /\ Len(bs[m - 1]) \in Nat
  BY <1>1, <1>7
<1>11. p[m] = p[m - 1] + Len(bs[m - 1])
  BY <1>7, <1>10
<1>12. p[m] \in Nat /\ p[m - 1] \in Nat /\ p[k] \in Nat
  <2>1. m - 1 \in 1 .. n + 1
    BY <1>7
  <2> QED  BY <1>1, <1>5, <2>1
<1> QED  BY <1>5, <1>9, <1>10, <1>11, <1>12

(* One more block behind the others. *)
LEMMA BlockAdded ==
  ASSUME NEW T, NEW t \in Seq(T), NEW n \in Nat, NEW bs, NEW p, BlocksAt(t, bs, n, p),
         bs[n + 1] \in Seq(T), \A k \in 1 .. n : Len(bs[k]) \in Nat
  PROVE  /\ t \o bs[n + 1] \in Seq(T)
         /\ \E q : BlocksAt(t \o bs[n + 1], bs, n + 1, q)
<1> DEFINE b == bs[n + 1]
           u == t \o b
           q == [k \in 1 .. n + 1 + 1 |-> IF k <= n + 1 THEN p[k] ELSE Len(t) + 1 + Len(b)]
<1>1. /\ u \in Seq(T) /\ Len(u) = Len(t) + Len(b) /\ Len(t) \in Nat /\ Len(b) \in Nat
      /\ \A i \in 1 .. Len(t) + Len(b) : u[i] = IF i <= Len(t) THEN t[i] ELSE b[i - Len(t)]
  BY ConcatProperties, LenProperties
<1>2. /\ p \in [1 .. n + 1 -> Nat \ {0}] /\ p[1] = 1 /\ p[n + 1] = Len(t) + 1
      /\ \A k \in 1 .. n : /\ p[k + 1] = p[k] + Len(bs[k])
                           /\ \A j \in 1 .. Len(bs[k]) : t[p[k] + j - 1] = bs[k][j]
  BY DEF BlocksAt
<1> HIDE DEF u
<1>7. Len(u) = Len(t) + Len(b) /\ Len(t) \in Nat /\ Len(b) \in Nat
  BY <1>1
<1>3. /\ q \in [1 .. n + 1 + 1 -> Nat \ {0}] /\ q[1] = 1
      /\ \A k \in 1 .. n + 1 : q[k] = p[k]
      /\ q[n + 1 + 1] = Len(u) + 1
  <2> DEFINE last == Len(t) + 1 + Len(b)
             N == n + 1
  <2>1. last \in Nat \ {0} /\ last = Len(u) + 1 /\ N \in Nat \ {0}
    <3> HIDE DEF b
    <3> QED  BY <1>7
  <2>2. q = [k \in 1 .. N + 1 |-> IF k <= N THEN p[k] ELSE last] /\ p \in [1 .. N -> Nat \ {0}]
    BY <1>2
  <2> HIDE DEF last, N, q
  <2>3. /\ q \in [1 .. N + 1 -> Nat \ {0}] /\ \A k \in 1 .. N : q[k] = p[k]
        /\ q[N + 1] = last
    BY <2>1, <2>2
  <2>4. q[1] = p[1]
    BY <2>1, <2>3
  <2> QED  BY <1>2, <2>1, <2>3, <2>4 DEF N
<1> HIDE DEF q
<1>4. ASSUME NEW k \in 1 .. n, NEW j \in 1 .. Len(bs[k])
      PROVE  u[p[k] + j - 1] = t[p[k] + j - 1]
  <2>1. k + 1 \in 1 .. n + 1 /\ n + 1 \in k + 1 .. n + 1
    OBVIOUS
  <2>2. p[n + 1] >= p[k + 1] /\ p[k + 1] = p[k] + Len(bs[k]) /\ Len(bs[k]) \in Nat
    BY <1>2, <2>1, BlocksAscend
  <2>3. p[k] \in Nat \ {0} /\ p[n + 1] = Len(t) + 1
    BY <1>2
  <2>4. p[k] + j - 1 \in 1 .. Len(t)
    <3> DEFINE N == Len(t)
               L == Len(bs[k])
               P == p[k]
    <3>1. N \in Nat /\ L \in Nat /\ P \in Nat \ {0} /\ N + 1 >= P + L /\ j \in 1 .. L
      BY <1>7, <2>2, <2>3
    <3> HIDE DEF N, L, P
    <3>2. P + j - 1 \in 1 .. N
      BY <3>1
    <3> QED  BY <3>2 DEF N, P
  <2>5. ASSUME NEW i \in 1 .. Len(t) PROVE u[i] = t[i]
    <3>1. i \in 1 .. Len(t) + Len(b) /\ i <= Len(t)
      <4> HIDE DEF b
      <4> QED  BY <1>7
    <3> HIDE DEF b
    <3> QED  BY <1>1, <3>1
  <2> QED  BY <2>4, <2>5
<1>5. ASSUME NEW k \in 1 .. n + 1
      PROVE  /\ q[k + 1] = q[k] + Len(bs[k])
             /\ \A j \in 1 .. Len(bs[k]) : u[q[k] + j - 1] = bs[k][j]
  <2>1. CASE k \in 1 .. n
    <3>1. q[k] = p[k] /\ q[k + 1] = p[k + 1]
      BY <1>3, <2>1
    <3> QED  BY <1>2, <1>4, <2>1, <3>1
  <2>2. CASE k = n + 1
    <3>1. q[k] = Len(t) + 1 /\ q[k + 1] = Len(u) + 1 /\ bs[k] = b
      BY <1>2, <1>3, <2>2
    <3>2. ASSUME NEW j \in 1 .. Len(b)
          PROVE  u[Len(t) + 1 + j - 1] = b[j]
      <4>1. Len(t) + 1 + j - 1 = Len(t) + j /\ Len(t) + j \in 1 .. Len(t) + Len(b)
            /\ ~(Len(t) + j <= Len(t)) /\ Len(t) + j - Len(t) = j
        BY <1>1
      <4> QED  BY <1>1, <4>1
    <3> HIDE DEF b
    <3> QED  BY <1>1, <3>1, <3>2
  <2> QED  BY <2>1, <2>2
<1>6. BlocksAt(u, bs, n + 1, q)
  BY <1>3, <1>5 DEF BlocksAt
<1> QED  BY <1>1, <1>6 DEF u

(* FlattenSeq() puts the blocks one behind the other. *)
LEMMA FlattenBlocks ==
  ASSUME NEW T, NEW n \in Nat, NEW bs \in [1 .. n -> Seq(T)]
  PROVE  /\ FlattenSeq(bs) \in Seq(T)
         /\ \E p : BlocksAt(FlattenSeq(bs), bs, n, p)
<1>0. bs \in Seq(Seq(T)) /\ Len(bs) = n /\ DOMAIN bs = 1 .. n
  <2>1. bs \in Seq(Seq(T))
    BY SeqDef
  <2> QED  BY <2>1, LenProperties
<1>1. CASE n = 0
  <2>1. FlattenSeq(bs) = bs /\ bs = << >>
    BY <1>0, <1>1, EmptySeq DEF FlattenSeq
  <2>2. << >> \in Seq(T) /\ Len(<< >>) = 0
    OBVIOUS
  <2> DEFINE p == [k \in 1 .. 0 + 1 |-> 1]
  <2>3. p \in [1 .. 0 + 1 -> Nat \ {0}] /\ p[1] = 1 /\ p[0 + 1] = 0 + 1
    OBVIOUS
  <2> HIDE DEF p
  <2>4. BlocksAt(<< >>, bs, 0, p)
    BY <2>2, <2>3 DEF BlocksAt
  <2> QED  BY <1>1, <2>1, <2>2, <2>4
<1>2. CASE n # 0
  <2> DEFINE Is(f, m) == /\ f \in [1 .. m -> Seq(T)]
                         /\ \A i \in 1 .. m : f[i] = IF i = 1 THEN bs[i] ELSE f[i - 1] \o bs[i]
             fl == CHOOSE f : f = [i \in 1 .. Len(bs) |->
                                     IF i = 1 THEN bs[i] ELSE f[i - 1] \o bs[i]]
  <2>1. FlattenSeq(bs) = fl[n]
    BY <1>0, <1>2 DEF FlattenSeq
  <2>3. \E f : Is(f, n)
    <3> DEFINE Bad == {m \in 1 .. n : ~\E f : Is(f, m)}
    <3>1. SUFFICES ASSUME Bad # {} PROVE FALSE
      <4>1. n \in 1 .. n
        BY <1>2
      <4> HIDE DEF Is
      <4> QED  BY <4>1
    <3>2. Bad \subseteq Nat
      OBVIOUS
    <3>3. PICK m \in Bad : \A i \in Bad : ~(i < m)
      <4> HIDE DEF Bad
      <4> QED  BY <3>1, <3>2, LeastNumber
    <3>4. CASE m = 1
      <4> DEFINE f == [i \in 1 .. 1 |-> bs[1]]
      <4>1. Is(f, 1)
        BY <1>2
      <4> HIDE DEF Is
      <4> QED  BY <3>3, <3>4, <4>1
    <3>5. CASE m # 1
      <4>1. m \in 2 .. n /\ m - 1 \in 1 .. n /\ m \in Nat /\ m - 1 \in Nat
        BY <3>3, <3>5
      <4>3. m - 1 \notin Bad
        <5> HIDE DEF Bad
        <5> QED  BY <3>3, <4>1
      <4>4. PICK g : Is(g, m - 1)
        BY <4>1, <4>3
      <4>5. /\ g \in [1 .. m - 1 -> Seq(T)]
            /\ \A i \in 1 .. m - 1 : g[i] = IF i = 1 THEN bs[i] ELSE g[i - 1] \o bs[i]
        BY <4>4
      <4> DEFINE f == [i \in 1 .. m |-> IF i = m THEN g[m - 1] \o bs[m] ELSE g[i]]
      <4>6. f \in [1 .. m -> Seq(T)]
        <5>1. g[m - 1] \in Seq(T) /\ bs[m] \in Seq(T)
          BY <4>1, <4>5
        <5>2. g[m - 1] \o bs[m] \in Seq(T)
          BY <5>1, ConcatProperties
        <5>3. ASSUME NEW i \in 1 .. m, i # m PROVE g[i] \in Seq(T)
          BY <4>1, <4>5, <5>3
        <5> QED  BY <5>2, <5>3
      <4>7. ASSUME NEW i \in 1 .. m
            PROVE  f[i] = IF i = 1 THEN bs[i] ELSE f[i - 1] \o bs[i]
        <5>1. CASE i = m
          <6>1. m - 1 \in 1 .. m /\ m - 1 # m
            BY <4>1
          <6>2. f[m - 1] = g[m - 1] /\ f[m] = g[m - 1] \o bs[m]
            BY <4>1, <6>1
          <6> HIDE DEF f
          <6> QED  BY <4>1, <5>1, <6>2
        <5>2. CASE i # m
          <6>1. i \in 1 .. m - 1 /\ f[i] = g[i]
            BY <4>1, <5>2
          <6>2. i # 1 => i - 1 \in 1 .. m /\ f[i - 1] = g[i - 1]
            BY <4>1, <5>2
          <6> HIDE DEF f
          <6> QED  BY <4>5, <6>1, <6>2
        <5> QED  BY <5>1, <5>2
      <4>8. Is(f, m)
        <5> HIDE DEF f
        <5> QED  BY <4>6, <4>7
      <4> HIDE DEF Is, f
      <4> QED  BY <3>3, <4>8
    <3> QED  BY <3>4, <3>5
  <2>4. Is(fl, n)
    <3>1. PICK f : Is(f, n)
      <4> HIDE DEF Is
      <4> QED  BY <2>3
    <3>2. f = [i \in 1 .. n |-> IF i = 1 THEN bs[i] ELSE f[i - 1] \o bs[i]]
      <4>1. f = [i \in 1 .. n |-> f[i]]
        BY <3>1
      <4>2. [i \in 1 .. n |-> f[i]]
              = [i \in 1 .. n |-> IF i = 1 THEN bs[i] ELSE f[i - 1] \o bs[i]]
        BY <3>1
      <4> QED  BY <4>1, <4>2
    <3>3. fl = [i \in 1 .. n |-> IF i = 1 THEN bs[i] ELSE fl[i - 1] \o bs[i]]
      BY <1>0, <3>2
    <3> HIDE DEF fl
    <3>4. \A i \in 1 .. n : fl[i] = IF i = 1 THEN bs[i] ELSE fl[i - 1] \o bs[i]
      BY <3>3
    <3>5. \A i \in 1 .. n : fl[i] \in Seq(T)
      <4> DEFINE Bad == {m \in 1 .. n : fl[m] \notin Seq(T)}
      <4>1. SUFFICES ASSUME Bad # {} PROVE FALSE
        OBVIOUS
      <4>2. Bad \subseteq Nat
        OBVIOUS
      <4>3. PICK m \in Bad : \A i \in Bad : ~(i < m)
        <5> HIDE DEF Bad
        <5> QED  BY <4>1, <4>2, LeastNumber
      <4>4. m # 1
        BY <3>4, <4>3
      <4>5. m - 1 \in 1 .. n /\ m \in Nat /\ m - 1 \in Nat
        BY <4>3, <4>4
      <4>7. m - 1 \notin Bad
        <5> HIDE DEF Bad
        <5> QED  BY <4>3, <4>5
      <4>8. fl[m - 1] \in Seq(T) /\ bs[m] \in Seq(T) /\ fl[m] = fl[m - 1] \o bs[m]
        BY <3>4, <4>3, <4>4, <4>5, <4>7
      <4>9. fl[m] \in Seq(T)
        BY <4>8, ConcatProperties
      <4> QED  BY <4>3, <4>9
    <3> QED  BY <3>3, <3>4, <3>5
  <2> HIDE DEF fl
  <2>5. \A m \in 1 .. n : \E p : BlocksAt(fl[m], bs, m, p)
    <3> DEFINE Bad == {m \in 1 .. n : ~\E p : BlocksAt(fl[m], bs, m, p)}
    <3>1. SUFFICES ASSUME Bad # {} PROVE FALSE
      OBVIOUS
    <3>2. Bad \subseteq Nat
      OBVIOUS
    <3>3. PICK m \in Bad : \A i \in Bad : ~(i < m)
      <4> HIDE DEF Bad
      <4> QED  BY <3>1, <3>2, LeastNumber
    <3>4. CASE m = 1
      <4>1. fl[1] = bs[1] /\ bs[1] \in Seq(T) /\ Len(bs[1]) \in Nat
        BY <1>2, <2>4, LenProperties
      <4> DEFINE p == [k \in 1 .. 1 + 1 |-> IF k = 1 THEN 1 ELSE Len(bs[1]) + 1]
      <4>2. p \in [1 .. 1 + 1 -> Nat \ {0}] /\ p[1] = 1 /\ p[1 + 1] = Len(bs[1]) + 1
        BY <4>1
      <4> HIDE DEF p
      <4>3. ASSUME NEW j \in 1 .. Len(bs[1]) PROVE bs[1][p[1] + j - 1] = bs[1][j]
        <5>1. 1 + j - 1 = j
          BY <4>1
        <5> QED  BY <4>2, <5>1
      <4>4. BlocksAt(bs[1], bs, 1, p)
        BY <4>1, <4>2, <4>3 DEF BlocksAt
      <4> QED  BY <3>3, <3>4, <4>1, <4>4
    <3>5. CASE m # 1
      <4>1. m - 1 \in 1 .. n /\ m \in Nat /\ m - 1 \in Nat /\ m - 1 + 1 = m /\ m \in 1 .. n
        BY <3>3, <3>5
      <4>3. m - 1 \notin Bad
        <5> HIDE DEF Bad
        <5> QED  BY <3>3, <4>1
      <4>4. PICK p : BlocksAt(fl[m - 1], bs, m - 1, p)
        BY <4>1, <4>3
      <4>5. /\ fl[m - 1] \in Seq(T) /\ bs[m] \in Seq(T) /\ fl[m] = fl[m - 1] \o bs[m]
        BY <2>4, <3>5, <4>1
      <4>6. \A k \in 1 .. m - 1 : Len(bs[k]) \in Nat
        BY <4>1, LenProperties
      <4>7. \E q : BlocksAt(fl[m - 1] \o bs[m - 1 + 1], bs, m - 1 + 1, q)
        <5>1. bs[m - 1 + 1] \in Seq(T)
          BY <4>1, <4>5
        <5> HIDE DEF Bad, Is
        <5> QED  BY <4>1, <4>4, <4>5, <4>6, <5>1, BlockAdded
      <4> QED  BY <3>3, <4>1, <4>5, <4>7
    <3> QED  BY <3>4, <3>5
  <2>6. n \in 1 .. n
    BY <1>2
  <2> QED  BY <2>1, <2>4, <2>5, <2>6
<1> QED  BY <1>1, <1>2

-----------------------------------------------------------------------------
(* json_unescape() *)

Single(c) == IF \E d \in DOMAIN ShortEscape : ShortEscape[d] = c
             THEN CHOOSE d \in DOMAIN ShortEscape : ShortEscape[d] = c ELSE c
Quad(t, i) == SubSeq(t, i + 2, i + 5)
IsQuad(t, i) == i + 5 <= Len(t) /\ \A k \in 1 .. 4 : Quad(t, i)[k] \in HexDigits

(* What it reads from position i on, f being what it reads behind. *)
UnescapeStep(t, f, i) ==
  CASE i > Len(t) -> << >>
    [] i <= Len(t) /\ t[i] # Backslash -> <<t[i]>> \o f[i + 1]
    [] At(t, i, Backslash) /\ i = Len(t) -> << >>
    [] At(t, i, Backslash) /\ At(t, i + 1, "u") ->
         IF IsQuad(t, i) THEN <<CodePoint[Quad(t, i)]>> \o f[i + 6]
         ELSE <<"u">> \o f[i + 2]
    [] OTHER -> <<Single(t[i + 1])>> \o f[i + 2]

Reads(f, t) == \A i \in 1 .. Len(t) + 1 : f[i] = UnescapeStep(t, f, i)
Unescapes(f, t) == f = [i \in 1 .. Len(t) + 1 |-> UnescapeStep(t, f, i)]

(* Which case applies where. *)
StepIs(t, f, i) ==
  /\ i = Len(t) + 1 => UnescapeStep(t, f, i) = << >>
  /\ i <= Len(t) /\ t[i] # Backslash => UnescapeStep(t, f, i) = <<t[i]>> \o f[i + 1]
  /\ i = Len(t) /\ t[i] = Backslash => UnescapeStep(t, f, i) = << >>
  /\ i < Len(t) /\ t[i] = Backslash /\ t[i + 1] = "u" =>
       UnescapeStep(t, f, i) = IF IsQuad(t, i) THEN <<CodePoint[Quad(t, i)]>> \o f[i + 6]
                               ELSE <<"u">> \o f[i + 2]
  /\ i < Len(t) /\ t[i] = Backslash /\ t[i + 1] # "u" =>
       UnescapeStep(t, f, i) = <<Single(t[i + 1])>> \o f[i + 2]

(* The cases are disjoint. *)
LEMMA UnescapeCases ==
  ASSUME NEW T, NEW t \in Seq(T), NEW f, NEW i \in 1 .. Len(t) + 1
  PROVE  StepIs(t, f, i)
<1> DEFINE N == Len(t)
           plain == <<t[i]>> \o f[i + 1]
           coded == IF IsQuad(t, i) THEN <<CodePoint[Quad(t, i)]>> \o f[i + 6]
                    ELSE <<"u">> \o f[i + 2]
           short == <<Single(t[i + 1])>> \o f[i + 2]
           Slash == t[i] = Backslash
           U == t[i + 1] = "u"
           C1 == i > N
           C2 == i <= N /\ ~Slash
           C3 == At(t, i, Backslash) /\ i = N
           C4 == At(t, i, Backslash) /\ At(t, i + 1, "u")
           x == UnescapeStep(t, f, i)
<1>1. x = CASE C1 -> << >> [] C2 -> plain [] C3 -> << >> [] C4 -> coded [] OTHER -> short
  BY DEF UnescapeStep
<1>2. N \in Nat /\ DOMAIN t = 1 .. N /\ i \in 1 .. N + 1
  BY LenProperties
<1> HIDE DEF N
<1>3. /\ i \in DOMAIN t <=> i <= N
      /\ i + 1 \in DOMAIN t <=> i < N
  BY <1>2
<1>4. (C3 <=> i <= N /\ Slash /\ i = N) /\ (C4 <=> i <= N /\ Slash /\ i < N /\ U)
  <2> HIDE DEF C1, C2
  <2> QED  BY <1>3, Zenon DEF At
<1> HIDE DEF C3, C4, x, plain, coded, short, Slash, U
<1>5. /\ i = N + 1 => C1 /\ ~C2 /\ ~C3 /\ ~C4
      /\ i <= N /\ ~Slash => ~C1 /\ C2 /\ ~C3 /\ ~C4
      /\ i = N /\ Slash => ~C1 /\ ~C2 /\ C3 /\ ~C4
      /\ i < N /\ Slash /\ U => ~C1 /\ ~C2 /\ ~C3 /\ C4
      /\ i < N /\ Slash /\ ~U => ~C1 /\ ~C2 /\ ~C3 /\ ~C4
  BY <1>2, <1>4
<1> HIDE DEF C1, C2
<1>6. /\ C1 /\ ~C2 /\ ~C3 /\ ~C4 => x = << >>
      /\ ~C1 /\ C2 /\ ~C3 /\ ~C4 => x = plain
      /\ ~C1 /\ ~C2 /\ C3 /\ ~C4 => x = << >>
      /\ ~C1 /\ ~C2 /\ ~C3 /\ C4 => x = coded
      /\ ~C1 /\ ~C2 /\ ~C3 /\ ~C4 => x = short
  BY <1>1
<1>7. /\ i = N + 1 => x = << >>
      /\ i <= N /\ ~Slash => x = plain
      /\ i = N /\ Slash => x = << >>
      /\ i < N /\ Slash /\ U => x = coded
      /\ i < N /\ Slash /\ ~U => x = short
  BY <1>5, <1>6, Zenon
<1> QED  BY <1>7, Zenon DEF StepIs, N, Slash, U, x, plain, coded, short

(* Only what is read behind the position matters. *)
LEMMA UnescapeAgrees ==
  ASSUME NEW T, NEW t \in Seq(T), NEW i \in 1 .. Len(t) + 1, NEW f, NEW g,
         \A j \in i + 1 .. Len(t) + 1 : f[j] = g[j]
  PROVE  UnescapeStep(t, f, i) = UnescapeStep(t, g, i)
<1>1. Len(t) \in Nat
  BY LenProperties
<1>5. StepIs(t, f, i) /\ StepIs(t, g, i)
  BY UnescapeCases
<1>2. CASE i = Len(t) + 1 \/ (i = Len(t) /\ t[i] = Backslash)
  BY <1>2, <1>5 DEF StepIs
<1>3. CASE i <= Len(t) /\ t[i] # Backslash
  <2>1. f[i + 1] = g[i + 1]
    BY <1>1, <1>3
  <2> QED  BY <1>3, <1>5, <2>1 DEF StepIs
<1>4. CASE i < Len(t) /\ t[i] = Backslash
  <2>1. f[i + 2] = g[i + 2]
    BY <1>1, <1>4
  <2>2. IsQuad(t, i) => f[i + 6] = g[i + 6]
    BY <1>1, <1>4 DEF IsQuad
  <2>3. CASE t[i + 1] = "u"
    <3> DEFINE coded(h) == <<CodePoint[Quad(t, i)]>> \o h[i + 6]
               other(h) == <<"u">> \o h[i + 2]
    <3>1. /\ UnescapeStep(t, f, i) = IF IsQuad(t, i) THEN coded(f) ELSE other(f)
          /\ UnescapeStep(t, g, i) = IF IsQuad(t, i) THEN coded(g) ELSE other(g)
      BY <1>4, <1>5, <2>3, Zenon DEF StepIs
    <3>2. other(f) = other(g) /\ (IsQuad(t, i) => coded(f) = coded(g))
      BY <2>1, <2>2
    <3> HIDE DEF coded, other
    <3> QED  BY <3>1, <3>2
  <2>4. CASE t[i + 1] # "u"
    BY <1>4, <1>5, <2>1, <2>4 DEF StepIs
  <2> QED  BY <2>3, <2>4
<1> QED  BY <1>1, <1>2, <1>3, <1>4

(* json_unescape() is defined for every text. *)
LEMMA UnescapeExists ==
  ASSUME NEW T, NEW t \in Seq(T)
  PROVE  \E f : Unescapes(f, t)
<1> DEFINE N == Len(t)
           Upto(f, m) == \A i \in N + 1 - m .. N + 1 : f[i] = UnescapeStep(t, f, i)
           Bad == {m \in 0 .. N : ~\E f : Upto(f, m)}
<1>1. N \in Nat
  BY LenProperties
<1>2. Bad = {}
  <2> SUFFICES ASSUME Bad # {} PROVE FALSE
    OBVIOUS
  <2>1. Bad \subseteq Nat
    BY <1>1
  <2>2. PICK m \in Bad : \A j \in Bad : ~(j < m)
    <3> HIDE DEF Bad
    <3> QED  BY <2>1, LeastNumber
  <2>3. m \in 0 .. N
    BY <2>2
  <2>4. CASE m = 0
    <3> DEFINE f == [i \in {N + 1} |-> << >>]
    <3>1. Upto(f, 0)
      <4> SUFFICES ASSUME NEW i \in N + 1 - 0 .. N + 1 PROVE f[i] = UnescapeStep(t, f, i)
        OBVIOUS
      <4>1. i = N + 1 /\ i \in 1 .. Len(t) + 1
        BY <1>1
      <4>2. f[i] = << >>
        BY <4>1
      <4> HIDE DEF f
      <4>3. StepIs(t, f, i)
        BY <4>1, UnescapeCases
      <4> QED  BY <4>1, <4>2, <4>3 DEF StepIs
    <3> HIDE DEF Upto
    <3> QED  BY <2>2, <2>4, <3>1
  <2>5. CASE m # 0
    <3> DEFINE k == N + 1 - m
    <3>1. m - 1 \in 0 .. N /\ m - 1 < m /\ k \in 1 .. N /\ N + 1 - (m - 1) = k + 1
      BY <1>1, <2>3, <2>5
    <3>2. m - 1 \notin Bad
      <4> HIDE DEF Bad
      <4> QED  BY <2>2, <3>1
    <3>3. PICK g : Upto(g, m - 1)
      <4> HIDE DEF Upto
      <4> QED  BY <3>1, <3>2
    <3>4. \A i \in k + 1 .. N + 1 : g[i] = UnescapeStep(t, g, i)
      BY <3>1, <3>3
    <3> DEFINE f == [i \in 1 .. N + 1 |-> IF i = k THEN UnescapeStep(t, g, k) ELSE g[i]]
    <3> HIDE DEF k
    <3>5. f[k] = UnescapeStep(t, g, k) /\ \A i \in k + 1 .. N + 1 : f[i] = g[i]
      BY <1>1, <3>1
    <3> HIDE DEF f
    <3>6. ASSUME NEW i \in k .. N + 1
          PROVE  f[i] = UnescapeStep(t, f, i)
      <4>1. i \in 1 .. Len(t) + 1 /\ \A j \in i + 1 .. Len(t) + 1 : f[j] = g[j]
        BY <1>1, <3>1, <3>5
      <4>2. UnescapeStep(t, f, i) = UnescapeStep(t, g, i)
        <5> HIDE DEF N
        <5> QED  BY <4>1, UnescapeAgrees
      <4>3. f[i] = UnescapeStep(t, g, i)
        <5>1. i = k \/ i \in k + 1 .. N + 1
          BY <1>1, <3>1
        <5> QED  BY <3>4, <3>5, <5>1
      <4> QED  BY <4>2, <4>3
    <3>7. Upto(f, m)
      BY <3>6 DEF k
    <3> HIDE DEF Upto
    <3> QED  BY <2>2, <3>7
  <2> QED  BY <2>4, <2>5
<1>3. PICK f : Upto(f, N)
  <2>1. N \in 0 .. N
    BY <1>1
  <2> HIDE DEF Upto
  <2> QED  BY <1>2, <2>1
<1>4. \A i \in 1 .. N + 1 : f[i] = UnescapeStep(t, f, i)
  <2>1. N + 1 - N = 1
    BY <1>1
  <2> QED  BY <1>3, <2>1
<1> DEFINE h == [i \in 1 .. N + 1 |-> f[i]]
<1>5. ASSUME NEW i \in 1 .. N + 1
      PROVE  f[i] = UnescapeStep(t, h, i)
  <2>1. \A j \in i + 1 .. Len(t) + 1 : f[j] = h[j]
    BY <1>1
  <2> HIDE DEF h
  <2>2. UnescapeStep(t, f, i) = UnescapeStep(t, h, i)
    BY <2>1, UnescapeAgrees
  <2> QED  BY <1>4, <2>2
<1>6. Unescapes(h, t)
  <2>1. [i \in 1 .. N + 1 |-> f[i]] = [i \in 1 .. N + 1 |-> UnescapeStep(t, h, i)]
    <3> HIDE DEF h
    <3> QED  BY <1>5
  <2> QED  BY <2>1 DEF Unescapes
<1> QED  BY <1>6

(* What json_unescape() returns. *)
LEMMA UnescapeIs ==
  ASSUME NEW T, NEW t \in Seq(T)
  PROVE  \E f : json_unescape(t) = f[1] /\ Reads(f, t)
<1> DEFINE f == CHOOSE g : Unescapes(g, t)
<1>1. json_unescape(t) = f[1]
  BY DEF json_unescape, Unescapes, UnescapeStep, Single, Quad, IsQuad
<1>2. Unescapes(f, t)
  BY UnescapeExists
<1> HIDE DEF f
<1>3. \A i \in 1 .. Len(t) + 1 : f[i] = UnescapeStep(t, f, i)
  <2>1. f = [i \in 1 .. Len(t) + 1 |-> UnescapeStep(t, f, i)]
    BY <1>2 DEF Unescapes
  <2> QED  BY <2>1
<1> QED  BY <1>1, <1>3 DEF Reads

-----------------------------------------------------------------------------
(* json_escape() *)

Escaped(c) ==
  CASE c \in {Quote, Backslash} -> <<Backslash, c>>
    [] c \in DOMAIN ShortEscape -> <<Backslash, ShortEscape[c]>>
    [] c \in Controls -> <<Backslash, "u">> \o CHOOSE q \in DOMAIN CodePoint : CodePoint[q] = c
    [] OTHER -> <<c>>

(* The symbols of escaped texts over S. *)
EscapeSymbols(S) ==
  S \cup {Backslash, "u"} \cup HexDigits \cup {ShortEscape[d] : d \in DOMAIN ShortEscape}

(* The short escapes: each has a letter of its own, which is not 'u'. *)
LEMMA ShortEscapes ==
  /\ DOMAIN ShortEscape \cap {Quote, Backslash} = {}
  /\ \A d \in DOMAIN ShortEscape : /\ ShortEscape[d] \notin {"u", Quote, Backslash}
                                   /\ Single(ShortEscape[d]) = d
  /\ Single(Quote) = Quote /\ Single(Backslash) = Backslash
  /\ Quote # "u" /\ Backslash # "u"
<1>1. DOMAIN ShortEscape = {"BS", "FF", "LF", "CR", "TAB"}
  BY DEF ShortEscape
<1>2. /\ \A d : d = "BS" => ShortEscape[d] = "b"
      /\ \A d : d = "FF" => ShortEscape[d] = "f"
      /\ \A d : d = "LF" => ShortEscape[d] = "n"
      /\ \A d : d = "CR" => ShortEscape[d] = "r"
      /\ \A d : d = "TAB" => ShortEscape[d] = "t"
  BY DEF ShortEscape
<1>3. \A d \in DOMAIN ShortEscape : ShortEscape[d] \notin {"u", Quote, Backslash}
  BY <1>1, <1>2 DEF Quote, Backslash
<1>4. \A d, e \in DOMAIN ShortEscape : ShortEscape[d] = ShortEscape[e] => d = e
  BY <1>1, <1>2
<1>5. \A d \in DOMAIN ShortEscape : Single(ShortEscape[d]) = d
  BY <1>4 DEF Single
<1>6. Single(Quote) = Quote /\ Single(Backslash) = Backslash
  BY <1>3 DEF Single
<1> QED  BY <1>1, <1>3, <1>5, <1>6 DEF Quote, Backslash

(* An escape is one of four shapes. *)
LEMMA EscapedIs ==
  ASSUME NEW c
  PROVE  \/ c # Backslash /\ Escaped(c) = <<c>>
         \/ \E e : /\ Escaped(c) = <<Backslash, e>> /\ e # "u" /\ Single(e) = c
                   /\ e = c \/ \E d \in DOMAIN ShortEscape : e = ShortEscape[d]
         \/ \E q \in [1 .. 4 -> HexDigits] : /\ Escaped(c) = <<Backslash, "u">> \o q
                                             /\ CodePoint[q] = c
<1> DEFINE q == CHOOSE q \in DOMAIN CodePoint : CodePoint[q] = c
           marked == <<Backslash, c>>
           short == <<Backslash, ShortEscape[c]>>
           coded == <<Backslash, "u">> \o q
           plain == <<c>>
           C1 == c \in {Quote, Backslash}
           C2 == c \in DOMAIN ShortEscape
           C3 == c \in Controls
<1>1. Escaped(c) = CASE C1 -> marked [] C2 -> short [] C3 -> coded [] OTHER -> plain
  BY DEF Escaped
<1>2. (C1 => ~C2 /\ ~C3) /\ (C2 => ~C3)
  BY ShortEscapes, ControlsAssumption
<1>3. /\ C1 => Escaped(c) = marked
      /\ C2 => Escaped(c) = short
      /\ C3 => Escaped(c) = coded
      /\ ~C1 /\ ~C2 /\ ~C3 => Escaped(c) = plain
  <2> HIDE DEF C1, C2, C3, marked, short, coded, plain
  <2> QED  BY <1>1, <1>2
<1>4. CASE C1
  <2>1. Escaped(c) = <<Backslash, c>> /\ c # "u" /\ Single(c) = c
    BY <1>3, <1>4, ShortEscapes
  <2> QED  BY <2>1
<1>5. CASE C2
  <2> DEFINE e == ShortEscape[c]
  <2>1. /\ Escaped(c) = <<Backslash, e>> /\ e # "u" /\ Single(e) = c
        /\ \E d \in DOMAIN ShortEscape : e = ShortEscape[d]
    BY <1>3, <1>5, ShortEscapes
  <2> HIDE DEF e
  <2> QED  BY <2>1
<1>6. CASE C3
  <2>1. q \in DOMAIN CodePoint /\ CodePoint[q] = c
    BY <1>6, ControlsAssumption
  <2>2. q \in [1 .. 4 -> HexDigits]
    BY <2>1, ControlsAssumption
  <2>3. Escaped(c) = <<Backslash, "u">> \o q
    BY <1>3, <1>6
  <2> HIDE DEF q
  <2> QED  BY <2>1, <2>2, <2>3
<1>7. CASE ~C1 /\ ~C2 /\ ~C3
  <2>1. c # Backslash /\ Escaped(c) = <<c>>
    BY <1>3, <1>7
  <2> QED  BY <2>1
<1> QED  BY <1>4, <1>5, <1>6, <1>7

(* A text of two symbols. *)
LEMMA TwoSymbols ==
  ASSUME NEW T, NEW a \in T, NEW b \in T
  PROVE  <<a, b>> \in Seq(T) /\ Len(<<a, b>>) = 2 /\ <<a, b>>[1] = a /\ <<a, b>>[2] = b
OBVIOUS

(* A code is a text of four hex digits; with \u before it, of six symbols. *)
LEMMA CodedText ==
  ASSUME NEW T, HexDigits \subseteq T, Backslash \in T, "u" \in T, NEW q \in [1 .. 4 -> HexDigits]
  PROVE  LET b == <<Backslash, "u">> \o q
         IN /\ b \in Seq(T) /\ Len(b) = 6 /\ b[1] = Backslash /\ b[2] = "u"
            /\ \A k \in 1 .. 4 : b[k + 2] = q[k]
<1> DEFINE a == <<Backslash, "u">>
           b == a \o q
<1>1. a \in Seq(T) /\ Len(a) = 2 /\ a[1] = Backslash /\ a[2] = "u"
  BY TwoSymbols
<1> HIDE DEF a
<1>2. q \in Seq(T) /\ Len(q) = 4
  <2>1. q \in [1 .. 4 -> T]
    OBVIOUS
  <2>2. q \in Seq(T)
    <3>1. 4 \in Nat /\ Seq(T) = UNION {[1 .. n -> T] : n \in Nat}
      BY SeqDef
    <3> QED  BY <2>1, <3>1, Zenon
  <2>3. DOMAIN q = 1 .. 4 /\ Len(q) \in Nat /\ DOMAIN q = 1 .. Len(q)
    BY <2>2, LenProperties
  <2>4. Len(q) = 4
    BY <2>3
  <2> QED  BY <2>2, <2>4
<1>3. /\ b \in Seq(T) /\ Len(b) = Len(a) + Len(q)
      /\ \A i \in 1 .. Len(a) + Len(q) : b[i] = IF i <= Len(a) THEN a[i] ELSE q[i - Len(a)]
  BY <1>1, <1>2, ConcatProperties
<1> HIDE DEF b
<1>4. /\ b \in Seq(T) /\ Len(b) = 6
      /\ \A i \in 1 .. 6 : b[i] = IF i <= 2 THEN a[i] ELSE q[i - 2]
  BY <1>1, <1>2, <1>3
<1>5. b[1] = Backslash /\ b[2] = "u"
  BY <1>1, <1>4
<1>6. ASSUME NEW k \in 1 .. 4 PROVE b[k + 2] = q[k]
  <2>1. k + 2 \in 1 .. 6 /\ ~(k + 2 <= 2) /\ k + 2 - 2 = k
    OBVIOUS
  <2> QED  BY <1>4, <2>1
<1> QED  BY <1>4, <1>5, <1>6 DEF b, a

(* An escape is a text, and not empty. *)
LEMMA EscapedText ==
  ASSUME NEW S, NEW c \in S
  PROVE  Escaped(c) \in Seq(EscapeSymbols(S)) /\ Len(Escaped(c)) \in Nat \ {0}
<1> DEFINE T == EscapeSymbols(S)
<1>1. /\ c \in T /\ Backslash \in T /\ "u" \in T /\ HexDigits \subseteq T
      /\ \A d \in DOMAIN ShortEscape : ShortEscape[d] \in T
  BY DEF EscapeSymbols
<1> HIDE DEF T
<1>2. CASE Escaped(c) = <<c>>
  <2>1. <<c>> \in Seq(T) /\ Len(<<c>>) = 1
    BY <1>1, OneSymbol
  <2> QED  BY <1>2, <2>1 DEF T
<1>3. CASE \E e : /\ Escaped(c) = <<Backslash, e>>
                  /\ e = c \/ \E d \in DOMAIN ShortEscape : e = ShortEscape[d]
  <2>1. PICK e : /\ Escaped(c) = <<Backslash, e>>
                 /\ e = c \/ \E d \in DOMAIN ShortEscape : e = ShortEscape[d]
    BY <1>3
  <2>2. e \in T
    BY <1>1, <2>1
  <2>3. <<Backslash, e>> \in Seq(T) /\ Len(<<Backslash, e>>) = 2
    BY <1>1, <2>2, TwoSymbols
  <2> QED  BY <2>1, <2>3 DEF T
<1>4. CASE \E q \in [1 .. 4 -> HexDigits] : Escaped(c) = <<Backslash, "u">> \o q
  <2>1. PICK q \in [1 .. 4 -> HexDigits] : Escaped(c) = <<Backslash, "u">> \o q
    BY <1>4
  <2>2. Escaped(c) \in Seq(T) /\ Len(Escaped(c)) = 6
    BY <1>1, <2>1, CodedText
  <2> QED  BY <2>2 DEF T
<1> QED  BY <1>2, <1>3, <1>4, EscapedIs

(* The text b stands at position p of t. *)
Stands(t, p, b) ==
  p + Len(b) <= Len(t) + 1 /\ \A j \in 1 .. Len(b) : t[p + j - 1] = b[j]

(* Where an escape stands, json_unescape() reads the symbol it is of. *)
LEMMA BlockIsRead ==
  ASSUME NEW T, NEW t \in Seq(T), NEW f, Reads(f, t),
         NEW S, NEW c \in S, NEW p \in Nat \ {0}, Stands(t, p, Escaped(c))
  PROVE  f[p] = <<c>> \o f[p + Len(Escaped(c))]
<1> USE DEF Reads, Stands
<1> DEFINE b == Escaped(c)
           N == Len(t)
<1>1. N \in Nat /\ DOMAIN t = 1 .. N
  BY LenProperties
<1>2. Len(b) \in Nat \ {0}
  BY EscapedText
<1>3. p \in 1 .. N /\ p \in 1 .. N + 1 /\ f[p] = UnescapeStep(t, f, p)
  BY <1>1, <1>2
<1>8. StepIs(t, f, p)
  <2>1. p \in 1 .. Len(t) + 1
    BY <1>3
  <2> QED  BY <2>1, UnescapeCases
<1>4. CASE c # Backslash /\ b = <<c>>
  <2>1. Len(b) = 1 /\ b[1] = c
    BY <1>4, OneSymbol
  <2>2. t[p] = c
    <3>1. p + 1 - 1 = p /\ 1 \in 1 .. Len(b)
      BY <2>1
    <3> HIDE DEF b
    <3> QED  BY <2>1, <3>1 DEF b
  <2>3. f[p] = <<t[p]>> \o f[p + 1]
    <3>1. p <= Len(t)
      BY <1>3
    <3> HIDE DEF b
    <3> QED  BY <1>3, <1>4, <1>8, <2>2, <3>1 DEF StepIs
  <2> HIDE DEF b
  <2>4. f[p + Len(b)] = f[p + 1]
    BY <2>1
  <2> QED  BY <2>2, <2>3, <2>4 DEF b
<1>5. ASSUME NEW e, b = <<Backslash, e>>, e # "u", Single(e) = c
      PROVE  f[p] = <<c>> \o f[p + Len(b)]
  <2>1. Len(b) = 2 /\ b[1] = Backslash /\ b[2] = e
    <3>1. <<Backslash, e>> \in Seq({Backslash, e}) /\ Len(<<Backslash, e>>) = 2
          /\ <<Backslash, e>>[1] = Backslash /\ <<Backslash, e>>[2] = e
      BY TwoSymbols
    <3> QED  BY <1>5, <3>1
  <2>2. t[p] = Backslash /\ t[p + 1] = e /\ p < Len(t)
    <3>1. p + 1 - 1 = p /\ p + 2 - 1 = p + 1 /\ 1 \in 1 .. Len(b) /\ 2 \in 1 .. Len(b)
      BY <2>1
    <3>2. p < Len(t)
      <4>1. p + 2 <= N + 1
        BY <2>1
      <4> HIDE DEF N
      <4>2. p < N
        BY <1>1, <4>1
      <4> QED  BY <4>2 DEF N
    <3>3. t[p + 1 - 1] = b[1] /\ t[p + 2 - 1] = b[2]
      BY <3>1
    <3> HIDE DEF b
    <3> QED  BY <2>1, <3>1, <3>2, <3>3
  <2>3. f[p] = <<Single(t[p + 1])>> \o f[p + 2]
    <3>1. UnescapeStep(t, f, p) = <<Single(t[p + 1])>> \o f[p + 2]
      <4>1. p \in 1 .. Len(t) + 1 /\ t[p + 1] # "u"
        BY <1>3, <1>5, <2>2
      <4> HIDE DEF b, N
      <4> QED  BY <1>8, <2>2, <4>1, Zenon DEF StepIs
    <3> QED  BY <1>3, <3>1
  <2> HIDE DEF b
  <2>4. f[p + Len(b)] = f[p + 2]
    BY <2>1
  <2> QED  BY <1>5, <2>2, <2>3, <2>4
<1>6. ASSUME NEW q \in [1 .. 4 -> HexDigits], b = <<Backslash, "u">> \o q, CodePoint[q] = c
      PROVE  f[p] = <<c>> \o f[p + Len(b)]
  <2> DEFINE X == HexDigits \cup {Backslash, "u"}
  <2>1. /\ Len(b) = 6 /\ b[1] = Backslash /\ b[2] = "u"
        /\ \A k \in 1 .. 4 : b[k + 2] = q[k]
    <3>1. HexDigits \subseteq X /\ Backslash \in X /\ "u" \in X
      OBVIOUS
    <3> DEFINE d == <<Backslash, "u">> \o q
    <3> HIDE DEF X
    <3>2. /\ Len(d) = 6 /\ d[1] = Backslash /\ d[2] = "u"
          /\ \A k \in 1 .. 4 : d[k + 2] = q[k]
      BY <3>1, CodedText
    <3>3. b = d
      BY <1>6
    <3> HIDE DEF d, b
    <3> QED  BY <3>2, <3>3
  <2>2. p + 6 <= N + 1
    BY <2>1
  <2>3. \A j \in 1 .. 6 : t[p + j - 1] = b[j]
    <3>1. \A j \in 1 .. Len(b) : t[p + j - 1] = b[j]
      OBVIOUS
    <3> HIDE DEF b
    <3> QED  BY <2>1, <3>1
  <2> HIDE DEF b
  <2>4. p < N /\ p + 5 <= N
    <3> HIDE DEF N
    <3> QED  BY <1>1, <2>2
  <2>5. t[p] = Backslash /\ t[p + 1] = "u" /\ \A k \in 1 .. 4 : t[p + k + 1] = q[k]
    <3>1. p + 1 - 1 = p /\ p + 2 - 1 = p + 1
      OBVIOUS
    <3>2. t[p + 1 - 1] = b[1] /\ t[p + 2 - 1] = b[2]
      BY <2>3
    <3>3. ASSUME NEW k \in 1 .. 4 PROVE t[p + k + 1] = q[k]
      <4>1. k + 2 \in 1 .. 6 /\ p + (k + 2) - 1 = p + k + 1
        OBVIOUS
      <4>2. t[p + (k + 2) - 1] = b[k + 2]
        BY <2>3, <4>1
      <4> QED  BY <2>1, <4>1, <4>2
    <3> QED  BY <2>1, <3>1, <3>2, <3>3
  <2>6. Quad(t, p) = q
    <3> DEFINE r == SubSeq(t, p + 2, p + 5)
    <3>1. \A i \in p + 2 .. p + 5 : t[i] \in T
      BY <1>1, <2>4, ElementOfSeq
    <3>2. /\ r \in Seq(T) /\ Len(r) = IF p + 2 <= p + 5 THEN p + 5 - (p + 2) + 1 ELSE 0
          /\ \A i \in 1 .. p + 5 - (p + 2) + 1 : r[i] = t[p + 2 + i - 1]
      BY <3>1, SubSeqProperties
    <3>3. p + 2 <= p + 5 /\ p + 5 - (p + 2) + 1 = 4
      OBVIOUS
    <3> HIDE DEF r
    <3>4. Len(r) = 4 /\ \A i \in 1 .. 4 : r[i] = t[p + 2 + i - 1]
      BY <3>2, <3>3
    <3>5. ASSUME NEW i \in 1 .. 4 PROVE r[i] = q[i]
      <4>1. p + 2 + i - 1 = p + i + 1
        OBVIOUS
      <4> QED  BY <2>5, <3>4, <4>1
    <3>6. r \in [1 .. 4 -> T]
      BY <3>2, <3>4, LenProperties
    <3>7. r = [i \in 1 .. 4 |-> r[i]] /\ q = [i \in 1 .. 4 |-> q[i]]
      BY <3>6
    <3>8. [i \in 1 .. 4 |-> r[i]] = [i \in 1 .. 4 |-> q[i]]
      BY <3>5
    <3>9. r = q
      BY <3>7, <3>8
    <3> QED  BY <3>9 DEF r, Quad
  <2>7. IsQuad(t, p)
    <3>1. \A k \in 1 .. 4 : q[k] \in HexDigits
      OBVIOUS
    <3> QED  BY <2>4, <2>6, <3>1 DEF IsQuad
  <2>8. f[p] = <<CodePoint[Quad(t, p)]>> \o f[p + 6]
    BY <1>3, <1>8, <2>4, <2>5, <2>7 DEF StepIs
  <2>9. f[p + Len(b)] = f[p + 6]
    BY <2>1
  <2> QED  BY <1>6, <2>6, <2>8, <2>9
<1>7. f[p] = <<c>> \o f[p + Len(b)]
  <2> HIDE DEF N
  <2> QED  BY <1>4, <1>5, <1>6, EscapedIs
<1> QED  BY <1>7

(* A text from position k on is its symbol there and the text from k + 1 on. *)
LEMMA TextFrom ==
  ASSUME NEW S, NEW s \in Seq(S), NEW k \in 1 .. Len(s)
  PROVE  SubSeq(s, k, Len(s)) = <<s[k]>> \o SubSeq(s, k + 1, Len(s))
<1> DEFINE N == Len(s)
           u == SubSeq(s, k, N)
           v == SubSeq(s, k + 1, N)
           a == <<s[k]>>
<1>1. N \in Nat /\ k \in 1 .. N /\ \A i \in 1 .. N : s[i] \in S
  BY LenProperties, ElementOfSeq
<1> HIDE DEF N
<1>2. /\ u \in Seq(S) /\ Len(u) = N - k + 1
      /\ \A i \in 1 .. N - k + 1 : u[i] = s[k + i - 1]
  <2>1. (\A i \in k .. N : s[i] \in S) /\ k \in Int /\ N \in Int /\ k <= N
    BY <1>1
  <2> QED  BY <2>1, SubSeqProperties
<1>3. /\ v \in Seq(S) /\ Len(v) = N - k
      /\ \A i \in 1 .. N - k : v[i] = s[k + i]
  <2>1. (\A i \in k + 1 .. N : s[i] \in S) /\ k + 1 \in Int /\ N \in Int
    BY <1>1
  <2>2. /\ v \in Seq(S) /\ Len(v) = IF k + 1 <= N THEN N - (k + 1) + 1 ELSE 0
        /\ \A i \in 1 .. N - (k + 1) + 1 : v[i] = s[k + 1 + i - 1]
    BY <2>1, SubSeqProperties
  <2> HIDE DEF v
  <2>3. N - (k + 1) + 1 = N - k /\ \A i \in 1 .. N - k : k + 1 + i - 1 = k + i
    BY <1>1
  <2> QED  BY <1>1, <2>2, <2>3
<1>4. a \in Seq(S) /\ Len(a) = 1 /\ a[1] = s[k]
  BY <1>1, OneSymbol
<1> HIDE DEF u, v, a
<1>5. /\ a \o v \in Seq(S) /\ Len(a \o v) = Len(a) + Len(v)
      /\ \A i \in 1 .. Len(a) + Len(v) : (a \o v)[i] = IF i <= Len(a) THEN a[i] ELSE v[i - Len(a)]
  BY <1>3, <1>4, ConcatProperties
<1> DEFINE w == a \o v
<1> HIDE DEF w
<1>6. /\ w \in Seq(S) /\ Len(w) = 1 + (N - k)
      /\ \A i \in 1 .. 1 + (N - k) : w[i] = IF i <= 1 THEN a[i] ELSE v[i - 1]
  BY <1>3, <1>4, <1>5 DEF w
<1>7. Len(u) = Len(w)
  BY <1>1, <1>2, <1>6
<1>8. ASSUME NEW i \in 1 .. Len(u) PROVE u[i] = w[i]
  <2>0. i \in 1 .. N - k + 1 /\ i \in 1 .. 1 + (N - k)
    BY <1>1, <1>2
  <2>1. CASE i = 1
    <3>1. k + 1 - 1 = k /\ 1 <= 1
      BY <1>1
    <3>2. u[1] = s[k + 1 - 1] /\ w[1] = a[1]
      BY <1>2, <1>6, <2>0, <2>1
    <3> QED  BY <1>4, <2>1, <3>1, <3>2
  <2>2. CASE i # 1
    <3>1. i - 1 \in 1 .. N - k /\ ~(i <= 1) /\ k + i - 1 = k + (i - 1)
      BY <1>1, <2>0, <2>2
    <3>2. w[i] = v[i - 1] /\ v[i - 1] = s[k + (i - 1)] /\ u[i] = s[k + i - 1]
      BY <1>2, <1>3, <1>6, <2>0, <3>1
    <3> QED  BY <3>1, <3>2
  <2> QED  BY <2>1, <2>2
<1>9. u = w
  BY <1>2, <1>6, <1>7, <1>8, SeqEqual
<1> QED  BY <1>9 DEF u, v, a, w, N

(* json_unescape() gives back the text that json_escape() was given: the  *)
(* names write_state_file() escapes are the names load_state_file() reads. *)
THEOREM EscapedIsRead ==
  ASSUME NEW S, NEW s \in Seq(S)
  PROVE  json_unescape(json_escape(s)) = s
<1> DEFINE n == Len(s)
           T == EscapeSymbols(S)
           bs == [k \in 1 .. n |-> Escaped(s[k])]
           t == FlattenSeq(bs)
<1>1. n \in Nat /\ DOMAIN s = 1 .. n /\ \A k \in 1 .. n : s[k] \in S
  BY LenProperties, ElementOfSeq
<1>2. json_escape(s) = t
  BY <1>1 DEF json_escape, Escaped
<1>3. \A k \in 1 .. n : Escaped(s[k]) \in Seq(T) /\ Len(Escaped(s[k])) \in Nat \ {0}
  <2> SUFFICES ASSUME NEW k \in 1 .. n
               PROVE  Escaped(s[k]) \in Seq(T) /\ Len(Escaped(s[k])) \in Nat \ {0}
    OBVIOUS
  <2>1. s[k] \in S
    BY <1>1
  <2> QED  BY <2>1, EscapedText
<1>4. bs \in [1 .. n -> Seq(T)] /\ \A k \in 1 .. n : bs[k] = Escaped(s[k])
  <2> HIDE DEF T, n
  <2> QED  BY <1>3
<1> HIDE DEF bs, T, n
<1>5. t \in Seq(T) /\ \E p : BlocksAt(t, bs, n, p)
  BY <1>1, <1>4, FlattenBlocks
<1> HIDE DEF t
<1>6. PICK p : BlocksAt(t, bs, n, p)
  BY <1>5
<1>7. /\ p \in [1 .. n + 1 -> Nat \ {0}] /\ p[1] = 1 /\ p[n + 1] = Len(t) + 1
      /\ \A k \in 1 .. n : /\ p[k + 1] = p[k] + Len(bs[k])
                           /\ \A j \in 1 .. Len(bs[k]) : t[p[k] + j - 1] = bs[k][j]
  BY <1>6 DEF BlocksAt
<1>8. PICK f : json_unescape(t) = f[1] /\ Reads(f, t)
  BY <1>5, UnescapeIs
<1>9. ASSUME NEW k \in 1 .. n
      PROVE  f[p[k]] = <<s[k]>> \o f[p[k + 1]]
  <2> DEFINE e == Escaped(s[k])
  <2>1. bs[k] = e /\ s[k] \in S /\ Len(e) \in Nat \ {0}
    BY <1>1, <1>3, <1>4
  <2>2. p[k] \in Nat \ {0} /\ p[k + 1] = p[k] + Len(e)
    BY <1>1, <1>7, <2>1
  <2>3. \A j \in 1 .. Len(e) : t[p[k] + j - 1] = e[j]
    BY <1>7, <2>1
  <2>4. p[n + 1] >= p[k + 1]
    <3>1. k + 1 \in 1 .. n + 1 /\ n + 1 \in k + 1 .. n + 1
      BY <1>1
    <3>2. \A m \in 1 .. n : Len(bs[m]) \in Nat
      BY <1>3, <1>4
    <3> QED  BY <1>1, <1>6, <3>1, <3>2, BlocksAscend
  <2>5. p[k] + Len(e) <= Len(t) + 1
    <3>1. Len(t) \in Nat
      BY <1>5, LenProperties
    <3>2. p[n + 1] = Len(t) + 1
      BY <1>7
    <3> HIDE DEF e
    <3> QED  BY <2>1, <2>2, <2>4, <3>1, <3>2
  <2>6. f[p[k]] = <<s[k]>> \o f[p[k] + Len(e)]
    <3> DEFINE P == p[k]
               c == s[k]
    <3>1. /\ P \in Nat \ {0} /\ c \in S /\ Stands(t, P, Escaped(c))
      BY <2>1, <2>2, <2>3, <2>5 DEF Stands
    <3> HIDE DEF P, c
    <3>2. f[P] = <<c>> \o f[P + Len(Escaped(c))]
      <4>1. t \in Seq(T) /\ Reads(f, t)
        BY <1>5, <1>8
      <4>2. \A q \in Nat \ {0} : Stands(t, q, Escaped(c)) => f[q] = <<c>> \o f[q + Len(Escaped(c))]
        <5> SUFFICES ASSUME NEW q \in Nat \ {0}, Stands(t, q, Escaped(c))
                     PROVE  f[q] = <<c>> \o f[q + Len(Escaped(c))]
          OBVIOUS
        <5>1. c \in S
          BY <3>1
        <5> QED  BY <4>1, <5>1, BlockIsRead, SMTT(30)
      <4> QED  BY <3>1, <4>2, Zenon
    <3> QED  BY <3>2 DEF P, c
  <2> QED  BY <2>2, <2>6
<1> DEFINE Read(m) == f[p[n + 1 - m]] = SubSeq(s, n + 1 - m, n)
           Bad == {m \in 0 .. n : ~Read(m)}
<1>10. Bad = {}
  <2> SUFFICES ASSUME Bad # {} PROVE FALSE
    OBVIOUS
  <2>1. Bad \subseteq Nat
    BY <1>1
  <2>2. PICK m \in Bad : \A j \in Bad : ~(j < m)
    <3> HIDE DEF Bad
    <3> QED  BY <2>1, LeastNumber
  <2>3. m \in 0 .. n
    BY <2>2
  <2>4. CASE m = 0
    <3>1. n + 1 - m = n + 1 /\ n < n + 1
      BY <1>1, <2>4
    <3>2. f[p[n + 1]] = << >>
      <4>1. Len(t) + 1 \in 1 .. Len(t) + 1
        BY <1>5, LenProperties
      <4>2. UnescapeStep(t, f, Len(t) + 1) = << >>
        <5>1. StepIs(t, f, Len(t) + 1)
          BY <1>5, <4>1, UnescapeCases
        <5> QED  BY <5>1 DEF StepIs
      <4> QED  BY <1>7, <1>8, <4>1, <4>2 DEF Reads
    <3>3. SubSeq(s, n + 1, n) = << >>
      BY <1>1, <3>1, SubSeqEmpty
    <3> QED  BY <2>2, <3>1, <3>2, <3>3
  <2>5. CASE m # 0
    <3> DEFINE k == n + 1 - m
    <3>1. m - 1 \in 0 .. n /\ m - 1 < m /\ k \in 1 .. n /\ n + 1 - (m - 1) = k + 1
      BY <1>1, <2>3, <2>5
    <3>2. m - 1 \notin Bad
      <4> HIDE DEF Bad
      <4> QED  BY <2>2, <3>1
    <3>3. f[p[k + 1]] = SubSeq(s, k + 1, n)
      BY <3>1, <3>2
    <3> HIDE DEF k
    <3>4. f[p[k]] = <<s[k]>> \o SubSeq(s, k + 1, n)
      BY <1>9, <3>1, <3>3
    <3>5. SubSeq(s, k, n) = <<s[k]>> \o SubSeq(s, k + 1, n)
      BY <3>1, TextFrom DEF n
    <3>6. Read(m)
      BY <3>4, <3>5 DEF k
    <3> QED  BY <2>2, <3>6
  <2> QED  BY <2>4, <2>5
<1>11. f[1] = SubSeq(s, 1, n)
  <2>1. n \in 0 .. n /\ n + 1 - n = 1
    BY <1>1
  <2>2. Read(n)
    BY <1>10, <2>1
  <2> QED  BY <1>7, <2>1, <2>2
<1>12. SubSeq(s, 1, n) = s
  BY <1>1 DEF n
<1> QED  BY <1>2, <1>8, <1>11, <1>12

=============================================================================
