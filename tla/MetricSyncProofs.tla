-------------------------- MODULE MetricSyncProofs --------------------------
(***************************************************************************)
(* What holds of one metric's three copies for every number of HTTP         *)
(* workers, pool connections, values and changes: the echoes of the PUTs    *)
(* bring the store to the broker's retained value.                          *)
(***************************************************************************)
EXTENDS MetricSync, SequenceTheorems, TLAPS

(* format_double() makes a number of a number, and nothing of nothing. *)
LEMMA PayloadType ==
  ASSUME NEW v \in Values \cup {Absent}
  PROVE  Payload(v) \in Payloads /\ (v # Absent => Payload(v) \in Nat)
<1>1. CASE v = Absent
  BY <1>1 DEF Payload, Payloads
<1>2. CASE v # Absent
  <2>1. v \in Nat /\ v % Precision \in Nat /\ v % Precision <= v
    BY <1>2, ValuesAssumption, PrecisionAssumption
  <2> QED BY <1>2, <2>1 DEF Payload, Payloads
<1> QED BY <1>1, <1>2

-----------------------------------------------------------------------------
(* handle_metric(), the publish pool and the message handler keep their      *)
(* variables in their types and both queues within mqtt_queue_size.          *)
THEOREM TypeCorrect == Spec => []TypeOK
<1> USE BoundsAssumption, ValuesAssumption
<1>1. Init => TypeOK
  <2>1. Init => {deletes, missed} \subseteq BOOLEAN
    BY Zenon DEF Init
  <2> QED BY <2>1 DEF Init, TypeOK, Payloads
<1>2. TypeOK /\ [Next]_vars => TypeOK'
  <2> SUFFICES ASSUME TypeOK, [Next]_vars PROVE TypeOK'
    OBVIOUS
  <2> USE DEF TypeOK, Goto, handlers, pool, history
  <2>1. CASE UNCHANGED vars
    BY <2>1 DEF vars
  <2>2. ASSUME NEW t \in Threads, Request(t) PROVE TypeOK'
    BY <2>2 DEF Request, RequestArrives
  <2>3. ASSUME NEW t \in Threads, Write(t) \/ Delete(t) \/ DeleteNothing(t) \/ Answer(t)
        PROVE  TypeOK'
    BY <2>3 DEF Write, Delete, DeleteNothing, Answer, Payloads
  <2>4. ASSUME NEW t \in Threads, Publish(t) PROVE TypeOK'
    <3>1. Payload(change[t]) \in Payloads
      BY PayloadType
    <3>2. CASE Len(queue) < QueueSize
      <4>1. queue' \in Seq(Payloads) /\ Len(queue') <= QueueSize
        BY <2>4, <3>1, <3>2, AppendProperties, SMTT(30) DEF Publish
      <4> QED BY <2>4, <3>2, <4>1 DEF Publish
    <3>3. CASE ~(Len(queue) < QueueSize)
      BY <2>4, <3>3 DEF Publish
    <3> QED BY <3>2, <3>3
  <2>5. ASSUME NEW c \in Conns, TakeJob(c) PROVE TypeOK'
    <3>1. Head(queue) \in Payloads /\ queue' \in Seq(Payloads) /\ Len(queue') <= QueueSize
      BY <2>5, HeadTailProperties DEF TakeJob
    <3> QED BY <2>5, <3>1 DEF TakeJob
  <2>6. ASSUME NEW c \in Conns, Deliver(c) PROVE TypeOK'
    <3>1. Head(hand[c]) \in Payloads
      BY <2>6, HeadTailProperties DEF Deliver
    <3>2. CASE Len(incoming) < QueueSize
      <4>1. incoming' \in Seq(Payloads) /\ Len(incoming') <= QueueSize
        <5>1. incoming' = Append(incoming, Head(hand[c]))
          BY <2>6, <3>2 DEF Deliver
        <5>2. Len(incoming) \in Nat
          OBVIOUS
        <5> QED BY <3>1, <3>2, <5>1, <5>2, AppendProperties
      <4> QED BY <2>6, <3>1, <3>2, <4>1 DEF Deliver
    <3>3. CASE ~(Len(incoming) < QueueSize)
      BY <2>6, <3>1, <3>3 DEF Deliver
    <3> QED BY <3>2, <3>3
  <2>7. ASSUME NEW c \in Conns, PublishFails(c) PROVE TypeOK'
    BY <2>7 DEF PublishFails
  <2>8. CASE HandleMessage
    <3>1. /\ Head(incoming) \in Payloads /\ incoming' \in Seq(Payloads)
          /\ Len(incoming') <= QueueSize
      BY <2>8, HeadTailProperties DEF HandleMessage
    <3> QED BY <2>8, <3>1 DEF HandleMessage
  <2> QED BY <2>1, <2>2, <2>3, <2>4, <2>5, <2>6, <2>7, <2>8
          DEF Next, Handler, Worker, Bounded
<1> QED BY <1>1, <1>2, PTL DEF Spec

-----------------------------------------------------------------------------
(* As long as nothing was deleted, only numbers are published. *)
OnlyNumbers ==
  /\ \A t \in Threads : tpc[t] = "publish" => change[t] # Absent
  /\ \A i \in 1 .. Len(queue) : queue[i] # Absent
  /\ \A c \in Conns : \A i \in 1 .. Len(hand[c]) : hand[c][i] # Absent
  /\ \A i \in 1 .. Len(incoming) : incoming[i] # Absent

(* The last echo under way is of the broker's retained message. *)
LastEcho == incoming # << >> => incoming[Len(incoming)] = retained

(* Nothing that the broker or the store has yet to see is under way. *)
Settled == /\ \A t \in Threads : tpc[t] # "publish"
           /\ queue = << >> /\ \A c \in Conns : hand[c] = << >>
           /\ incoming = << >>

(* Without a failure and without a DELETE the echo of the last publish is    *)
(* still to come, or the store has the broker's value.                       *)
SyncInv == ~missed /\ ~deletes => /\ OnlyNumbers /\ LastEcho
                                  /\ Settled => store = retained

(* The handlers of PUT and DELETE: a change is followed by a publish. *)
LEMMA HandlerKeepsInv ==
  ASSUME TypeOK, SyncInv, NEW t \in Threads, Request(t) \/ Handler(t)
  PROVE  SyncInv'
<1> USE DEF TypeOK, Goto, handlers, pool, history
<1>1. CASE Request(t) \/ DeleteNothing(t) \/ Answer(t)
  BY <1>1 DEF Request, RequestArrives, DeleteNothing, Answer, SyncInv, OnlyNumbers,
              LastEcho, Settled
<1>2. CASE Write(t)
  BY <1>2 DEF Write, SyncInv, OnlyNumbers, LastEcho, Settled
<1>3. CASE Delete(t)
  BY <1>3 DEF Delete, SyncInv
<1>4. CASE Publish(t)
  <2> SUFFICES ASSUME ~missed', ~deletes'
               PROVE  OnlyNumbers' /\ LastEcho' /\ ~Settled'
    BY DEF SyncInv
  <2>1. /\ queue' = Append(queue, Payload(change[t])) /\ change[t] # Absent
        /\ tpc' = [tpc EXCEPT ![t] = "wait"]
        /\ UNCHANGED <<change, hand, retained, incoming>>
        /\ OnlyNumbers /\ LastEcho
    BY <1>4 DEF Publish, SyncInv, OnlyNumbers
  <2>2. Payload(change[t]) \in Payloads /\ Payload(change[t]) # Absent
    BY <2>1, PayloadType, ValuesAssumption
  <2>3. /\ \A i \in 1 .. Len(queue') : queue'[i] # Absent
        /\ Len(queue') = Len(queue) + 1
    BY <2>1, <2>2, AppendProperties DEF OnlyNumbers
  <2>4. OnlyNumbers'
    BY <2>1, <2>3 DEF OnlyNumbers
  <2>5. LastEcho' /\ ~Settled'
    BY <2>1, <2>3 DEF LastEcho, Settled
  <2> QED BY <2>4, <2>5
<1> QED BY <1>1, <1>2, <1>3, <1>4 DEF Handler

(* The pool takes a job, delivers it or fails; the broker echoes it. *)
LEMMA WorkerKeepsInv ==
  ASSUME TypeOK, SyncInv, NEW c \in Conns, Worker(c)
  PROVE  SyncInv'
<1> USE DEF TypeOK, handlers, pool, history
<1> SUFFICES ASSUME ~missed', ~deletes'
             PROVE  OnlyNumbers' /\ LastEcho' /\ ~Settled'
  BY DEF SyncInv
<1>1. ~missed /\ ~deletes /\ OnlyNumbers /\ LastEcho
  BY DEF SyncInv, Worker, TakeJob, Deliver, PublishFails
<1>2. CASE TakeJob(c)
  <2>1. Head(queue) = queue[1] /\ queue[1] # Absent
    BY <1>1, <1>2, HeadTailProperties DEF TakeJob, OnlyNumbers
  <2>2. \A i \in 1 .. Len(queue') : queue'[i] # Absent
    BY <1>1, <1>2, HeadTailProperties DEF TakeJob, OnlyNumbers
  <2>3. \A d \in Conns : \A i \in 1 .. Len(hand'[d]) : hand'[d][i] # Absent
    BY <1>1, <1>2, <2>1 DEF TakeJob, OnlyNumbers
  <2>4. OnlyNumbers'
    BY <1>1, <1>2, <2>2, <2>3 DEF TakeJob, OnlyNumbers
  <2> QED BY <1>1, <1>2, <2>4 DEF TakeJob, LastEcho, Settled
<1>3. CASE Deliver(c)
  <2>1. Head(hand[c]) = hand[c][1] /\ hand[c][1] # Absent /\ Head(hand[c]) \in Payloads
    BY <1>1, <1>3, HeadTailProperties DEF Deliver, OnlyNumbers
  <2>2. incoming' = Append(incoming, Head(hand[c])) /\ retained' = Head(hand[c])
    BY <1>3 DEF Deliver
  <2>3. /\ \A i \in 1 .. Len(incoming') : incoming'[i] # Absent
        /\ incoming'[Len(incoming')] = retained' /\ incoming' # << >>
    <3>1. incoming \in Seq(Payloads) /\ \A i \in 1 .. Len(incoming) : incoming[i] # Absent
      BY <1>1 DEF OnlyNumbers
    <3>2. /\ incoming' # << >> /\ Len(incoming') = Len(incoming) + 1
          /\ \A i \in 1 .. Len(incoming) : incoming'[i] = incoming[i]
          /\ incoming'[Len(incoming) + 1] = Head(hand[c])
      BY <2>1, <2>2, <3>1, AppendProperties
    <3>3. Len(incoming) \in Nat
      BY <3>1
    <3>4. \A i \in 1 .. Len(incoming') : i \in 1 .. Len(incoming) \/ i = Len(incoming) + 1
      BY <3>2, <3>3
    <3>5. \A i \in 1 .. Len(incoming') : incoming'[i] # Absent
      BY <2>1, <3>1, <3>2, <3>4
    <3> QED BY <2>2, <3>2, <3>5
  <2>4. OnlyNumbers'
    BY <1>1, <1>3, <2>3 DEF Deliver, OnlyNumbers
  <2> QED BY <2>3, <2>4 DEF LastEcho, Settled
<1>4. CASE PublishFails(c)
  BY <1>4 DEF PublishFails
<1> QED BY <1>2, <1>3, <1>4 DEF Worker

(* main.cpp's handler stores the echo; the last one is the broker's value. *)
LEMMA HandleMessageKeepsInv ==
  ASSUME TypeOK, SyncInv, HandleMessage
  PROVE  SyncInv'
<1> USE DEF TypeOK, handlers, pool, history
<1> SUFFICES ASSUME ~missed', ~deletes'
             PROVE  OnlyNumbers' /\ LastEcho' /\ (Settled' => store' = retained')
  BY DEF SyncInv
<1>1. /\ ~missed /\ ~deletes /\ OnlyNumbers /\ LastEcho /\ incoming # << >>
      /\ incoming' = Tail(incoming)
      /\ UNCHANGED <<tpc, change, queue, hand, retained>>
  BY DEF SyncInv, HandleMessage
<1>2. /\ Head(incoming) = incoming[1] /\ Len(incoming) \in Nat /\ Len(incoming) >= 1
      /\ Len(incoming') = Len(incoming) - 1 /\ incoming' \in Seq(Payloads)
      /\ \A i \in 1 .. Len(incoming') : incoming'[i] = incoming[i + 1]
  BY <1>1, HeadTailProperties
<1>3. OnlyNumbers'
  BY <1>1, <1>2 DEF OnlyNumbers
<1>4. LastEcho'
  BY <1>1, <1>2 DEF LastEcho
<1>5. ASSUME Settled' PROVE store' = retained'
  <2>1. Len(incoming) = 1
    BY <1>2, <1>5 DEF Settled
  <2>2. incoming[1] = retained /\ incoming[1] # Absent
    BY <1>1, <1>2, <2>1 DEF LastEcho, OnlyNumbers
  <2> QED BY <1>1, <1>2, <2>2 DEF HandleMessage
<1> QED BY <1>3, <1>4, <1>5

(* SyncInv holds throughout, for every interleaving of PUTs and DELETEs and  *)
(* every order in which the pool's connections publish.                      *)
THEOREM SyncCorrect == Spec => []SyncInv
<1>1. Init => SyncInv
  BY DEF Init, SyncInv, OnlyNumbers, LastEcho, Settled
<1>2. TypeOK /\ SyncInv /\ [Next]_vars => SyncInv'
  <2> SUFFICES ASSUME TypeOK, SyncInv, [Next]_vars PROVE SyncInv'
    OBVIOUS
  <2>1. CASE UNCHANGED vars
    BY <2>1 DEF vars, handlers, pool, history, SyncInv, OnlyNumbers, LastEcho, Settled
  <2> QED BY <2>1, HandlerKeepsInv, WorkerKeepsInv, HandleMessageKeepsInv
          DEF Next, Bounded
<1> QED BY <1>1, <1>2, TypeCorrect, PTL DEF Spec

(* Once everything is answered, published and handled, the store has the     *)
(* broker's retained value, provided every publish got through and nothing   *)
(* was deleted.                                                              *)
THEOREM StoreConverges == Spec => []StoreFollowsBroker
<1>1. SyncInv => StoreFollowsBroker
  BY DEF SyncInv, StoreFollowsBroker, Quiet, Settled
<1> QED BY <1>1, SyncCorrect, PTL
=============================================================================
