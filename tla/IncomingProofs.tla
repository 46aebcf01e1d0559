--------------------------- MODULE IncomingProofs ---------------------------
(***************************************************************************)
(* What holds of the way of a message from Paho's thread to the store and   *)
(* the webhook, for every number of messages, queue sizes, topics and       *)
(* filters.                                                                 *)
(***************************************************************************)
EXTENDS Incoming, MqttTopicProofs, SequenceTheorems

(* What the webhook worker's counters and its last message become. *)
Posted == [delivered : Nat, failed : Nat, last : Nat]

(* Taking a message changes only which one was last. *)
LEMMA PostedLast ==
  ASSUME NEW p \in Posted, NEW m \in Nat
  PROVE  /\ [p EXCEPT !.last = m] \in Posted
         /\ [p EXCEPT !.last = m].last = m
         /\ [p EXCEPT !.last = m].delivered = p.delivered
         /\ [p EXCEPT !.last = m].failed = p.failed
  BY DEF Posted

(* A POST counts once, as delivered or as failed. *)
LEMMA PostedCount ==
  ASSUME NEW p \in Posted, NEW result \in PostResults
  PROVE  /\ [p EXCEPT ![result] = @ + 1] \in Posted
         /\ [p EXCEPT ![result] = @ + 1].last = p.last
         /\ [p EXCEPT ![result] = @ + 1].delivered + [p EXCEPT ![result] = @ + 1].failed
              = p.delivered + p.failed + 1
  BY DEF Posted, PostResults

-----------------------------------------------------------------------------
(* Types, and who exists when. *)

(* A worker has a message in hand while it works on it, and at no other time. *)
HandInv == \A w \in Workers : hand[w] # 0 <=> wpc[w] \in {"body", "enqueue"}

(* main() starts the webhook client before anything can arrive, and stops it *)
(* when the subscribe worker is gone.                                        *)
LifeInv ==
  /\ main = "start_webhook" => wpc["webhook"] = "unborn"
  /\ main \in {"start_webhook", "start_mqtt", "start_worker"}
       => wpc["subscribe"] = "unborn"
  /\ main \in {"notify_webhook", "join_webhook", "done"} => wpc["subscribe"] = "exited"
  /\ main \notin {"start_webhook", "notify_webhook", "join_webhook", "done"}
       => running["webhook"]

TypeInv == TypeOK /\ HandInv /\ LifeInv

(* Init puts every variable in its type and no thread into being. *)
LEMMA TypeInit == Init => TypeInv
BY MessagesAssumption DEF Init, TypeInv, TypeOK, HandInv, LifeInv, MainPcs, WorkerPcs, Workers

(* Each step of main(), Paho's thread and the workers keeps the types. *)
LEMMA TypeStep ==
  ASSUME TypeInv, [Next]_vars
  PROVE  TypeOK'
<1> USE MessagesAssumption DEF TypeInv, TypeOK, Goto, Woken, Push, counters, MainPcs,
                               WorkerPcs, Workers, Messages
<1>1. CASE UNCHANGED vars
  BY <1>1 DEF vars
<1>2. CASE StartWebhook \/ StartMqtt \/ StartSubscribeWorker
  <2>1. CASE StartWebhook
    BY <2>1 DEF StartWebhook
  <2>2. CASE StartMqtt
    BY <2>2 DEF StartMqtt
  <2>3. CASE StartSubscribeWorker
    BY <2>3 DEF StartSubscribeWorker
  <2> QED BY <1>2, <2>1, <2>2, <2>3
<1>3. CASE MqttStop \/ WebhookStop
  <2>1. ASSUME NEW w \in Workers, NEW from \in MainPcs, NEW to \in MainPcs,
               StopFlag(w, from, to)
        PROVE  TypeOK'
    BY <2>1 DEF StopFlag
  <2>2. ASSUME NEW w \in Workers, NEW from \in MainPcs, NEW to \in MainPcs,
               StopNotify(w, from, to)
        PROVE  TypeOK'
    BY <2>2 DEF StopNotify
  <2>3. CASE JoinConnections \/ JoinWebhook
    BY <2>3 DEF JoinConnections, JoinWebhook
  <2> QED BY <1>3, <2>1, <2>2, <2>3 DEF MqttStop, WebhookStop
<1>4. CASE MessageArrives
  <2>1. CASE QueueIsFull("subscribe")
    BY <1>4, <2>1, SMTT(30) DEF MessageArrives
  <2>2. CASE ~QueueIsFull("subscribe")
    <3>1. received' \in Messages
      BY <1>4 DEF MessageArrives
    <3>2. Append(queue["subscribe"], received') \in Seq(Messages)
      BY <3>1, AppendProperties
    <3>3. queue' \in [Workers -> Seq(Messages)]
      BY <1>4, <2>2, <3>2 DEF MessageArrives
    <3> QED BY <1>4, <2>2, <3>1, <3>3 DEF MessageArrives
  <2> QED BY <2>1, <2>2
<1>5. CASE NotifyArrival \/ NotifyWebhook
  BY <1>5 DEF NotifyArrival, NotifyWebhook
<1>6. ASSUME NEW w \in Workers, CheckRunning(w) \/ TestFails(w) \/ Block(w) PROVE TypeOK'
  <2>1. wpc' \in [Workers -> WorkerPcs]
    BY <1>6 DEF CheckRunning, TestFails, Block
  <2>2. UNCHANGED <<main, running, queue, hand, paho, counters>>
    BY <1>6 DEF CheckRunning, TestFails, Block
  <2> QED BY <2>1, <2>2
<1>7. ASSUME NEW w \in Workers, Take(w) PROVE TypeOK'
  <2>1. Head(queue[w]) \in Messages /\ Tail(queue[w]) \in Seq(Messages)
    BY <1>7, HeadTailProperties DEF Take
  <2>2. posted \in Posted /\ Head(queue[w]) \in Nat
    BY <2>1 DEF Posted
  <2>3. posted' = posted \/ posted' = [posted EXCEPT !.last = Head(queue[w])]
    BY <1>7 DEF Take
  <2>4. posted' \in Posted
    BY <2>2, <2>3, PostedLast
  <2>5. queue' \in [Workers -> Seq(Messages)] /\ hand' \in [Workers -> Messages \cup {0}]
    BY <1>7, <2>1 DEF Take
  <2>6. handled' \in Nat
    BY <1>7 DEF Take
  <2>7. wpc' \in [Workers -> WorkerPcs]
    BY <1>7 DEF Take
  <2> QED BY <1>7, <2>4, <2>5, <2>6, <2>7 DEF Take, Posted
<1>8. CASE HandleMessage
  BY <1>8 DEF HandleMessage
<1>9. CASE Enqueue
  <2>1. hand["subscribe"] \in Messages
    BY <1>9 DEF Enqueue, HandInv
  <2>2. Append(queue["webhook"], hand["subscribe"]) \in Seq(Messages)
    BY <2>1, AppendProperties
  <2>3. queue' \in [Workers -> Seq(Messages)]
    BY <1>9, <2>2 DEF Enqueue
  <2>4. wpc' \in [Workers -> WorkerPcs]
    BY <1>9 DEF Enqueue
  <2>5. hand' \in [Workers -> Messages \cup {0}]
    BY <1>9 DEF Enqueue
  <2>6. {offered', full'} \subseteq Nat
    BY <1>9 DEF Enqueue
  <2>7. UNCHANGED <<main, running, paho, received, dropped, handled, stored, posted>>
    BY <1>9 DEF Enqueue
  <2> QED BY <2>3, <2>4, <2>5, <2>6, <2>7
<1>10. ASSUME NEW result \in PostResults, Post(result) PROVE TypeOK'
  <2>1. posted \in Posted /\ posted' = [posted EXCEPT ![result] = @ + 1]
    BY <1>10 DEF Post, Posted
  <2>2. posted' \in Posted
    BY <2>1, PostedCount
  <2> QED BY <1>10, <2>2 DEF Post, Posted
<1> QED BY <1>1, <1>2, <1>3, <1>4, <1>5, <1>6, <1>7, <1>8, <1>9, <1>10
        DEF Next, SubscribeWorker, WebhookWorker, Loop, Terminated

(* What is in a worker's hand goes with where it is. *)
LEMMA HandStep ==
  ASSUME TypeInv, [Next]_vars
  PROVE  HandInv'
<1> USE DEF TypeInv, TypeOK, HandInv, Goto, Woken, WorkerPcs, Workers
<1>1. CASE UNCHANGED vars
  BY <1>1 DEF vars
<1>2. CASE StartWebhook \/ StartMqtt \/ StartSubscribeWorker
  BY <1>2 DEF StartWebhook, StartMqtt, StartSubscribeWorker, LifeInv
<1>3. CASE MqttStop \/ WebhookStop
  BY <1>3 DEF MqttStop, WebhookStop, StopFlag, StopNotify, JoinConnections, JoinWebhook
<1>4. CASE MessageArrives \/ NotifyArrival \/ NotifyWebhook
  BY <1>4 DEF MessageArrives, NotifyArrival, NotifyWebhook
<1>5. ASSUME NEW w \in Workers, CheckRunning(w) \/ TestFails(w) \/ Block(w) PROVE HandInv'
  BY <1>5 DEF CheckRunning, TestFails, Block
<1>6. ASSUME NEW w \in Workers, Take(w) PROVE HandInv'
  <2>1. Head(queue[w]) \in Messages
    BY <1>6, HeadTailProperties DEF Take
  <2>2. Head(queue[w]) # 0
    BY <2>1 DEF Messages
  <2>3. wpc' = [wpc EXCEPT ![w] = "body"] /\ hand' = [hand EXCEPT ![w] = Head(queue[w])]
    BY <1>6 DEF Take
  <2> QED BY <2>2, <2>3
<1>7. CASE HandleMessage \/ Enqueue
  BY <1>7 DEF HandleMessage, Enqueue
<1>8. ASSUME NEW result \in PostResults, Post(result) PROVE HandInv'
  BY <1>8 DEF Post
<1> QED BY <1>1, <1>2, <1>3, <1>4, <1>5, <1>6, <1>7, <1>8
        DEF Next, SubscribeWorker, WebhookWorker, Loop, Terminated

(* main()'s order: the webhook client outlives the subscribe worker. *)
LEMMA LifeStep ==
  ASSUME TypeInv, [Next]_vars
  PROVE  LifeInv'
<1> USE DEF TypeInv, TypeOK, LifeInv, Goto, Woken, MainPcs, WorkerPcs, Workers
<1>1. CASE UNCHANGED vars
  BY <1>1 DEF vars
<1>2. CASE StartWebhook \/ StartMqtt \/ StartSubscribeWorker
  BY <1>2 DEF StartWebhook, StartMqtt, StartSubscribeWorker
<1>3. CASE MqttStop
  BY <1>3 DEF MqttStop, StopFlag, StopNotify, JoinConnections
<1>4. CASE WebhookStop
  BY <1>4 DEF WebhookStop, StopFlag, StopNotify, JoinWebhook
<1>5. CASE MessageArrives \/ NotifyArrival \/ NotifyWebhook
  BY <1>5 DEF MessageArrives, NotifyArrival, NotifyWebhook
<1>6. ASSUME NEW w \in Workers, Loop(w) PROVE LifeInv'
  BY <1>6 DEF Loop, CheckRunning, TestFails, Block, Take
<1>7. CASE HandleMessage \/ Enqueue
  BY <1>7 DEF HandleMessage, Enqueue
<1>8. ASSUME NEW result \in PostResults, Post(result) PROVE LifeInv'
  BY <1>8 DEF Post
<1> QED BY <1>1, <1>2, <1>3, <1>4, <1>5, <1>6, <1>7, <1>8
        DEF Next, SubscribeWorker, WebhookWorker, Terminated

(* TypeInv holds throughout. *)
LEMMA TypeInvCorrect == Spec => []TypeInv
<1>1. TypeInv /\ [Next]_vars => TypeInv'
  BY TypeStep, HandStep, LifeStep DEF TypeInv
<1> QED BY <1>1, TypeInit, PTL DEF Spec

(* main(), Paho's thread and the two workers keep their variables in their   *)
(* types: in particular only messages that arrived are ever queued.          *)
THEOREM TypeCorrect == Spec => []TypeOK
<1>1. TypeInv => TypeOK
  BY DEF TypeInv
<1> QED BY <1>1, TypeInvCorrect, PTL

(* enqueue() never meets a webhook client that is not running, so no message *)
(* is dropped without being counted: main() starts the client before the     *)
(* first message can arrive and stops it after the subscribe worker.         *)
THEOREM WebhookOutlivesSubscribe == Spec => []NoSilentDrop
<1>1. TypeInv => NoSilentDrop
  BY DEF TypeInv, TypeOK, LifeInv, NoSilentDrop, MainPcs
<1> QED BY <1>1, TypeInvCorrect, PTL

-----------------------------------------------------------------------------
(* Workers that sleep. *)

(* A worker inside wait(), with the mutex, has an empty queue: nobody can    *)
(* push between its test and its sleep.                                      *)
SleepInv == /\ \A w \in Workers : wpc[w] = "tested" => queue[w] = << >>
            /\ NoMissedMessage

(* A push meets no worker between its test and its sleep, and whoever pushed *)
(* notifies next.                                                            *)
LEMMA SleepStep ==
  ASSUME TypeInv, SleepInv, [Next]_vars
  PROVE  SleepInv'
<1> USE DEF TypeInv, TypeOK, SleepInv, NoMissedMessage, Goto, Woken, Workers
<1>1. CASE UNCHANGED vars
  BY <1>1 DEF vars
<1>2. CASE StartWebhook \/ StartMqtt \/ StartSubscribeWorker
  BY <1>2 DEF StartWebhook, StartMqtt, StartSubscribeWorker, LifeInv
<1>3. CASE MqttStop \/ WebhookStop
  BY <1>3 DEF MqttStop, WebhookStop, StopFlag, StopNotify, JoinConnections, JoinWebhook
<1>4. CASE MessageArrives
  BY <1>4 DEF MessageArrives, MutexFree, Push
<1>5. CASE NotifyArrival \/ NotifyWebhook
  BY <1>5 DEF NotifyArrival, NotifyWebhook
<1>6. ASSUME NEW w \in Workers, Loop(w) PROVE SleepInv'
  BY <1>6 DEF Loop, CheckRunning, TestFails, Block, Take
<1>7. CASE HandleMessage
  BY <1>7 DEF HandleMessage
<1>8. CASE Enqueue
  BY <1>8 DEF Enqueue, MutexFree, Push
<1>9. ASSUME NEW result \in PostResults, Post(result) PROVE SleepInv'
  BY <1>9 DEF Post
<1> QED BY <1>1, <1>2, <1>3, <1>4, <1>5, <1>6, <1>7, <1>8, <1>9
        DEF Next, SubscribeWorker, WebhookWorker, Terminated

(* A worker that sleeps on a non-empty queue is about to be notified: the    *)
(* push under the mutex and the notify_one() after it lose no message.       *)
THEOREM NoMessageMissed == Spec => []NoMissedMessage
<1>1. Init => SleepInv
  BY DEF Init, SleepInv, NoMissedMessage, Workers
<1>2. TypeInv /\ SleepInv /\ [Next]_vars => SleepInv'
  BY SleepStep
<1>3. SleepInv => NoMissedMessage
  BY DEF SleepInv
<1> QED BY <1>1, <1>2, <1>3, TypeInvCorrect, PTL DEF Spec

-----------------------------------------------------------------------------
(* The counters. *)

(* Every message that leaves one place of the sums arrives in another. *)
LEMMA CountersStep ==
  ASSUME TypeInv, CountersAddUp, [Next]_vars
  PROVE  CountersAddUp'
<1> USE DEF TypeInv, TypeOK, CountersAddUp, Workers, counters
<1>0. /\ received \in Nat /\ dropped \in Nat /\ handled \in Nat /\ offered \in Nat
      /\ full \in Nat /\ posted.delivered \in Nat /\ posted.failed \in Nat
      /\ Len(queue["subscribe"]) \in Nat /\ Len(queue["webhook"]) \in Nat
  BY MessagesAssumption
<1>1. CASE UNCHANGED vars
  BY <1>1 DEF vars
<1>2. CASE StartWebhook \/ StartMqtt \/ StartSubscribeWorker
  BY <1>2 DEF StartWebhook, StartMqtt, StartSubscribeWorker
<1>3. CASE MqttStop \/ WebhookStop
  BY <1>3 DEF MqttStop, WebhookStop, StopFlag, StopNotify, JoinConnections, JoinWebhook
<1>4. CASE MessageArrives
  <2>1. CASE QueueIsFull("subscribe")
    BY <1>4, <2>1 DEF MessageArrives
  <2>2. CASE ~QueueIsFull("subscribe")
    <3>1. /\ queue' = [queue EXCEPT !["subscribe"] = Append(@, received')]
          /\ received' = received + 1 /\ received < MaxMessages
          /\ UNCHANGED <<hand, dropped, handled, offered, full, posted>>
      BY <1>4, <2>2 DEF MessageArrives, Push
    <3>2. received' \in Messages
      BY <1>0, <3>1, MessagesAssumption DEF Messages
    <3>3. /\ Len(queue'["subscribe"]) = Len(queue["subscribe"]) + 1
          /\ queue'["webhook"] = queue["webhook"]
      BY <3>1, <3>2, AppendProperties
    <3> QED BY <1>0, <3>1, <3>3
  <2> QED BY <2>1, <2>2
<1>5. CASE NotifyArrival \/ NotifyWebhook
  BY <1>5 DEF NotifyArrival, NotifyWebhook
<1>6. ASSUME NEW w \in Workers, CheckRunning(w) \/ TestFails(w) \/ Block(w)
      PROVE  CountersAddUp'
  BY <1>6 DEF CheckRunning, TestFails, Block
<1>7. CASE Take("subscribe")
  <2>1. Len(queue'["subscribe"]) = Len(queue["subscribe"]) - 1
    BY <1>7, HeadTailProperties DEF Take
  <2>2. /\ queue'["webhook"] = queue["webhook"] /\ hand'["webhook"] = hand["webhook"]
        /\ handled' = handled + 1
        /\ UNCHANGED <<received, dropped, offered, full, posted>>
    BY <1>7 DEF Take
  <2> QED BY <2>1, <2>2
<1>8. CASE Take("webhook")
  <2>1. /\ Len(queue'["webhook"]) = Len(queue["webhook"]) - 1 /\ Len(queue["webhook"]) \in Nat
        /\ Head(queue["webhook"]) \in Messages
    BY <1>8, HeadTailProperties DEF Take
  <2>2. /\ queue'["subscribe"] = queue["subscribe"]
        /\ hand["webhook"] = 0 /\ hand'["webhook"] = Head(queue["webhook"])
        /\ UNCHANGED <<received, dropped, handled, offered, full>>
    BY <1>8 DEF Take, HandInv
  <2>3. posted'.delivered = posted.delivered /\ posted'.failed = posted.failed
    <3>1. /\ posted \in Posted /\ Head(queue["webhook"]) \in Nat
          /\ posted' = [posted EXCEPT !.last = Head(queue["webhook"])]
      BY <1>8, <2>1 DEF Take, Posted, Messages
    <3> QED BY <3>1, PostedLast
  <2>4. hand'["webhook"] # 0
    BY <2>1, <2>2 DEF Messages
  <2> QED BY <2>1, <2>2, <2>3, <2>4
<1>9. CASE HandleMessage
  BY <1>9 DEF HandleMessage
<1>10. CASE Enqueue
  <2>1. running["webhook"]
    BY <1>10 DEF Enqueue, LifeInv, MainPcs
  <2>2. /\ offered' = offered + 1 /\ hand'["webhook"] = hand["webhook"]
        /\ UNCHANGED <<received, dropped, handled, posted>>
    BY <1>10 DEF Enqueue
  <2>3. CASE QueueIsFull("webhook")
    <3>1. full' = full + 1 /\ queue' = queue
      BY <1>10, <2>1, <2>3 DEF Enqueue
    <3> QED BY <1>0, <2>2, <3>1
  <2>4. CASE ~QueueIsFull("webhook")
    <3>1. /\ queue' = [queue EXCEPT !["webhook"] = Append(@, hand["subscribe"])]
          /\ hand["subscribe"] \in Messages /\ full' = full
      BY <1>10, <2>1, <2>4 DEF Enqueue, Push, HandInv
    <3>2. /\ Len(queue'["webhook"]) = Len(queue["webhook"]) + 1
          /\ queue'["subscribe"] = queue["subscribe"] /\ Len(queue["webhook"]) \in Nat
      BY <3>1, AppendProperties
    <3> QED BY <1>0, <2>2, <3>1, <3>2, SMTT(30)
  <2> QED BY <2>3, <2>4
<1>11. ASSUME NEW result \in PostResults, Post(result) PROVE CountersAddUp'
  <2>1. posted'.delivered + posted'.failed = posted.delivered + posted.failed + 1
    <3>1. posted \in Posted /\ posted' = [posted EXCEPT ![result] = @ + 1]
      BY <1>11 DEF Post, Posted
    <3> QED BY <3>1, PostedCount
  <2>2. posted'.delivered \in Nat /\ posted'.failed \in Nat
    BY TypeStep
  <2>3. /\ hand["webhook"] # 0 /\ hand'["webhook"] = 0
        /\ UNCHANGED <<queue, received, dropped, handled, offered, full>>
    BY <1>11 DEF Post, HandInv
  <2>4. offered = full + Len(queue["webhook"]) + 1 + posted.delivered + posted.failed
    BY <2>3
  <2>5. offered' = full' + Len(queue'["webhook"]) + 0 + posted'.delivered + posted'.failed
    <3>1. PICK d \in Nat, f \in Nat, d1 \in Nat, f1 \in Nat, n \in Nat :
            /\ posted.delivered = d /\ posted.failed = f /\ Len(queue["webhook"]) = n
            /\ posted'.delivered = d1 /\ posted'.failed = f1
      BY <1>0, <2>2
    <3>2. d1 + f1 = d + f + 1 /\ offered = full + n + 1 + d + f
      BY <2>1, <2>4, <3>1
    <3>3. offered = full + n + 0 + d1 + f1
      BY <1>0, <3>2, SMTT(30)
    <3> QED BY <2>3, <3>1, <3>3
  <2> QED BY <2>3, <2>5
<1> QED BY <1>1, <1>2, <1>3, <1>4, <1>5, <1>6, <1>7, <1>8, <1>9, <1>10, <1>11
        DEF Next, SubscribeWorker, WebhookWorker, Loop, Terminated

(* The metrics add up: a message received was dropped, is queued or was      *)
(* handled, and one offered to the webhook was refused, is queued or in      *)
(* hand, or its POST is counted as delivered or failed.                      *)
THEOREM CountersCorrect == Spec => []CountersAddUp
<1>1. Init => CountersAddUp
  BY DEF Init, CountersAddUp, Workers
<1>2. TypeInv /\ CountersAddUp /\ [Next]_vars => CountersAddUp'
  BY CountersStep
<1> QED BY <1>1, <1>2, TypeInvCorrect, PTL DEF Spec

-----------------------------------------------------------------------------
(* The order of the messages. *)

Ascending(q) == \A i, j \in 1 .. Len(q) : i < j => q[i] < q[j]

(* Message m arrived, and before all that wait in incoming_queue_. *)
Passed(m) == /\ m <= received
             /\ \A i \in 1 .. Len(queue["subscribe"]) : m < queue["subscribe"][i]

(* The messages are in order from incoming_queue_ over the handler and the   *)
(* webhook's queue to the last POST: a later place has earlier messages.     *)
InOrder ==
  /\ Ascending(queue["subscribe"]) /\ Ascending(queue["webhook"])
  /\ \A i \in 1 .. Len(queue["subscribe"]) : queue["subscribe"][i] <= received
  /\ Passed(stored) /\ Passed(hand["subscribe"]) /\ Passed(posted.last)
  /\ \A i \in 1 .. Len(queue["webhook"]) : /\ Passed(queue["webhook"][i])
                                           /\ posted.last < queue["webhook"][i]
  /\ hand["subscribe"] # 0 =>
       /\ posted.last < hand["subscribe"]
       /\ \A i \in 1 .. Len(queue["webhook"]) : queue["webhook"][i] < hand["subscribe"]

(* The store sees a message before the webhook's queue does. *)
StoredFirst ==
  /\ wpc["subscribe"] = "body" => stored < hand["subscribe"]
  /\ wpc["subscribe"] = "enqueue" /\ hand["subscribe"] \in StateTopic
       => stored = hand["subscribe"]
  /\ \A i \in 1 .. Len(queue["webhook"]) :
       queue["webhook"][i] \in StateTopic => queue["webhook"][i] <= stored

OrderInv == InOrder /\ StoredFirst

(* Messages are natural numbers, wherever they are. *)
LEMMA MessageTypes ==
  ASSUME TypeInv
  PROVE  /\ received \in Nat /\ stored \in Nat /\ posted.last \in Nat
         /\ hand["subscribe"] \in Nat
         /\ \A w \in Workers : /\ queue[w] \in Seq(Messages) /\ Len(queue[w]) \in Nat
                               /\ \A i \in 1 .. Len(queue[w]) : queue[w][i] \in Messages
         /\ \A m \in Messages : m \in Nat /\ m > 0
<1>1. \A m \in Messages : m \in Nat /\ m > 0
  BY MessagesAssumption DEF Messages
<1>2. /\ received \in Nat /\ stored \in Nat /\ posted.last \in Nat
      /\ hand["subscribe"] \in Nat
  BY <1>1, MessagesAssumption DEF TypeInv, TypeOK, Workers
<1>3. ASSUME NEW w \in Workers
      PROVE  /\ queue[w] \in Seq(Messages) /\ Len(queue[w]) \in Nat
             /\ \A i \in 1 .. Len(queue[w]) : queue[w][i] \in Messages
  <2>1. queue[w] \in Seq(Messages)
    BY DEF TypeInv, TypeOK
  <2> QED BY <2>1
<1> QED BY <1>1, <1>2, <1>3

(* A later message goes to the end of a queue in order. *)
LEMMA AscendingAppend ==
  ASSUME NEW q \in Seq(Nat), NEW m \in Nat, Ascending(q),
         \A i \in 1 .. Len(q) : q[i] < m
  PROVE  Ascending(Append(q, m))
<1> DEFINE r == Append(q, m)
<1>1. /\ Len(r) = Len(q) + 1 /\ Len(q) \in Nat /\ r[Len(q) + 1] = m
      /\ \A i \in 1 .. Len(q) : r[i] = q[i]
  BY AppendProperties
<1> HIDE DEF r
<1>2. ASSUME NEW i \in 1 .. Len(r), NEW j \in 1 .. Len(r), i < j PROVE r[i] < r[j]
  <2>1. i \in 1 .. Len(q)
    BY <1>1, <1>2
  <2>2. CASE j \in 1 .. Len(q)
    BY <1>1, <1>2, <2>1, <2>2 DEF Ascending
  <2>3. CASE j = Len(q) + 1
    BY <1>1, <2>1, <2>3
  <2> QED BY <1>1, <2>2, <2>3
<1> QED BY <1>2 DEF Ascending, r

(* What is left of a queue in order is in order, and after its head. *)
LEMMA AscendingTail ==
  ASSUME NEW q \in Seq(Nat), q # << >>, Ascending(q)
  PROVE  Ascending(Tail(q)) /\ \A i \in 1 .. Len(Tail(q)) : q[1] < Tail(q)[i]
<1> DEFINE r == Tail(q)
<1>1. /\ Len(r) = Len(q) - 1 /\ Len(q) \in Nat /\ Len(q) >= 1
      /\ \A i \in 1 .. Len(r) : r[i] = q[i + 1]
  BY HeadTailProperties
<1> HIDE DEF r
<1>2. ASSUME NEW i \in 1 .. Len(r) PROVE q[1] < r[i]
  <2>1. 1 \in 1 .. Len(q) /\ i + 1 \in 1 .. Len(q) /\ 1 < i + 1
    BY <1>1
  <2> QED BY <1>1, <2>1 DEF Ascending
<1>3. ASSUME NEW i \in 1 .. Len(r), NEW j \in 1 .. Len(r), i < j PROVE r[i] < r[j]
  <2>1. i + 1 \in 1 .. Len(q) /\ j + 1 \in 1 .. Len(q) /\ i + 1 < j + 1
    BY <1>1, <1>3
  <2> QED BY <1>1, <2>1 DEF Ascending
<1> QED BY <1>2, <1>3 DEF Ascending, r

(* A step that moves no message keeps the order. *)
LEMMA OrderUntouched ==
  ASSUME OrderInv, UNCHANGED <<queue, received, stored>>,
         hand'["subscribe"] = hand["subscribe"], posted'.last = posted.last,
         \/ wpc'["subscribe"] = wpc["subscribe"]
         \/ wpc'["subscribe"] \notin {"body", "enqueue"}
  PROVE  OrderInv'
BY DEF OrderInv, InOrder, StoredFirst, Ascending, Passed

(* A message that arrives is the newest. *)
LEMMA ArrivalKeepsOrder ==
  ASSUME TypeInv, OrderInv, MessageArrives
  PROVE  OrderInv'
<1> USE DEF TypeInv, TypeOK, Workers
<1>1. /\ received' = received + 1 /\ received \in Nat /\ received' \in Messages
      /\ hand' = hand /\ stored' = stored /\ posted' = posted /\ wpc' = wpc
  BY MessagesAssumption DEF MessageArrives, Messages
<1>2. /\ stored \in Nat /\ posted.last \in Nat /\ hand["subscribe"] \in Nat
      /\ \A i \in 1 .. Len(queue["webhook"]) : queue["webhook"][i] \in Nat
      /\ \A i \in 1 .. Len(queue["subscribe"]) : queue["subscribe"][i] \in Nat
      /\ queue["subscribe"] \in Seq(Messages) /\ queue["subscribe"] \in Seq(Nat)
  BY MessageTypes
<1>3. CASE queue' = queue
  BY <1>1, <1>2, <1>3, SMTT(30) DEF OrderInv, InOrder, StoredFirst, Ascending, Passed
<1>4. CASE queue' = [queue EXCEPT !["subscribe"] = Append(@, received')]
  <2> DEFINE q == queue["subscribe"]
             r == queue'["subscribe"]
  <2>1. /\ Len(r) = Len(q) + 1 /\ Len(q) \in Nat
        /\ \A i \in 1 .. Len(q) : r[i] = q[i]
        /\ r[Len(q) + 1] = received + 1
        /\ queue'["webhook"] = queue["webhook"]
    BY <1>1, <1>4, AppendProperties
  <2>2. Ascending(q) /\ \A i \in 1 .. Len(q) : q[i] <= received
    BY DEF OrderInv, InOrder
  <2>3. Ascending(r)
    <3>1. r = Append(q, received + 1) /\ q \in Seq(Nat) /\ received + 1 \in Nat
      BY <1>1, <1>2, <1>4
    <3>3. \A i \in 1 .. Len(q) : q[i] \in Nat
      BY <1>2
    <3> HIDE DEF q, r, TypeInv, TypeOK
    <3>2. \A i \in 1 .. Len(q) : q[i] < received + 1
      BY <1>1, <2>2, <3>3
    <3> QED BY <2>2, <3>1, <3>2, AscendingAppend
  <2>4. \A i \in 1 .. Len(r) : i \in 1 .. Len(q) \/ i = Len(q) + 1
    <3> HIDE DEF q, r, TypeInv, TypeOK
    <3> QED BY <2>1
  <2>6. \A i \in 1 .. Len(r) : r[i] <= received'
    <3>1. \A i \in 1 .. Len(q) : q[i] \in Nat
      BY <1>2
    <3> HIDE DEF q, r
    <3>2. ASSUME NEW i \in 1 .. Len(r) PROVE r[i] <= received + 1
      <4>1. CASE i \in 1 .. Len(q)
        <5>1. r[i] = q[i] /\ q[i] \in Nat /\ q[i] <= received
          BY <2>1, <2>2, <3>1, <4>1
        <5> QED BY <1>1, <5>1
      <4>2. CASE i = Len(q) + 1
        BY <1>1, <2>1, <4>2
      <4> QED BY <2>4, <4>1, <4>2
    <3> QED BY <1>1, <3>2
  <2>7. ASSUME NEW m \in Nat, Passed(m) PROVE m <= received' /\ \A i \in 1 .. Len(r) : m < r[i]
    <3>1. m <= received /\ \A i \in 1 .. Len(q) : m < q[i]
      BY <2>7 DEF Passed
    <3>2. received' = received + 1 /\ received \in Nat
      BY <1>1
    <3> HIDE DEF TypeInv, TypeOK, q, r
    <3>3. ASSUME NEW i \in 1 .. Len(r) PROVE m < r[i]
      <4>1. CASE i \in 1 .. Len(q)
        BY <2>1, <3>1, <4>1
      <4>2. CASE i = Len(q) + 1
        BY <2>1, <2>7, <3>1, <3>2, <4>2
      <4> QED BY <2>4, <4>1, <4>2
    <3>4. m <= received'
      BY <2>7, <3>1, <3>2
    <3> QED BY <3>3, <3>4
  <2>5. InOrder'
    BY <1>1, <1>2, <2>1, <2>3, <2>6, <2>7 DEF OrderInv, InOrder, Passed, Ascending
  <2> QED BY <1>1, <2>1, <2>5 DEF OrderInv, StoredFirst
<1> QED BY <1>3, <1>4 DEF MessageArrives, Push

(* The subscribe worker takes the oldest message that waits. *)
LEMMA SubscribeTakeKeepsOrder ==
  ASSUME TypeInv, OrderInv, Take("subscribe")
  PROVE  OrderInv'
<1> USE DEF TypeInv, TypeOK, Workers
<1> DEFINE q == queue["subscribe"]
           r == queue'["subscribe"]
<1>1. /\ q # << >> /\ r = Tail(q) /\ hand'["subscribe"] = Head(q)
      /\ queue'["webhook"] = queue["webhook"] /\ wpc'["subscribe"] = "body"
      /\ UNCHANGED <<received, stored, posted>>
  BY DEF Take, Goto
<1>2. /\ Head(q) = q[1] /\ Head(q) \in Messages /\ Len(q) \in Nat /\ Len(q) >= 1
      /\ Len(r) = Len(q) - 1 /\ \A i \in 1 .. Len(r) : r[i] = q[i + 1]
  BY <1>1, HeadTailProperties
<1>3. /\ Ascending(q) /\ \A i \in 1 .. Len(q) : q[i] <= received
      /\ Passed(stored) /\ Passed(posted.last)
      /\ \A i \in 1 .. Len(queue["webhook"]) : Passed(queue["webhook"][i])
  BY DEF OrderInv, InOrder
<1>4. Ascending(r) /\ \A i \in 1 .. Len(r) : r[i] <= received' /\ q[1] < r[i]
  <2>1. q \in Seq(Nat)
    BY MessageTypes
  <2> QED BY <1>1, <1>2, <1>3, <2>1, AscendingTail
<1>5. ASSUME NEW m, Passed(m)
      PROVE  m <= received' /\ m < q[1] /\ \A i \in 1 .. Len(r) : m < r[i]
  BY <1>1, <1>2, <1>5 DEF Passed
<1>6. \A i \in 1 .. Len(r) : q[1] < r[i]
  BY <1>4
<1>7. q[1] <= received'
  BY <1>1, <1>2, <1>3
<1>8. InOrder'
  <2> HIDE DEF q, r
  <2>1. (\A i \in 1 .. Len(queue["webhook"]) : posted.last < queue["webhook"][i])
        /\ Ascending(queue["webhook"])
    BY DEF OrderInv, InOrder
  <2>2. Passed(stored)' /\ Passed(hand["subscribe"])' /\ Passed(posted.last)'
    BY <1>1, <1>2, <1>3, <1>5, <1>6, <1>7 DEF Passed, r
  <2>3. \A i \in 1 .. Len(queue'["webhook"]) : Passed(queue["webhook"][i])'
    BY <1>1, <1>3, <1>5 DEF Passed, r
  <2> QED BY <1>1, <1>2, <1>3, <1>4, <1>5, <2>1, <2>2, <2>3 DEF InOrder, Ascending, r
<1>9. StoredFirst'
  BY <1>1, <1>2, <1>3, <1>5 DEF OrderInv, StoredFirst
<1> QED BY <1>8, <1>9 DEF OrderInv

(* The handler leaves the message in its place, and the store has it. *)
LEMMA HandleKeepsOrder ==
  ASSUME TypeInv, OrderInv, HandleMessage
  PROVE  OrderInv'
<1> USE DEF TypeInv, TypeOK, Workers
<1> DEFINE m == hand["subscribe"]
<1>1. /\ m \in Messages /\ m # 0 /\ m \in Nat /\ stored \in Nat /\ stored < m
      /\ \A i \in 1 .. Len(queue["webhook"]) : queue["webhook"][i] \in Nat
  BY MessageTypes DEF HandleMessage, HandInv, OrderInv, StoredFirst
<1>2. /\ stored' = IF m \in StateTopic THEN m ELSE stored
      /\ UNCHANGED <<queue, received, posted>>
      /\ \/ wpc'["subscribe"] = "enqueue" /\ hand' = hand
         \/ wpc'["subscribe"] = "top" /\ hand'["subscribe"] = 0
  BY DEF HandleMessage, Goto
<1>3. \A i \in 1 .. Len(queue["subscribe"]) : queue["subscribe"][i] \in Messages
  OBVIOUS
<1>4. Passed(0)
  BY <1>3, MessagesAssumption DEF Passed, Messages
<1>5. InOrder'
  BY <1>1, <1>2, <1>4 DEF OrderInv, InOrder, Passed, Ascending
<1>6. stored <= stored'
  BY <1>1, <1>2
<1>7. StoredFirst'
  <2>1. \A i \in 1 .. Len(queue["webhook"]) :
          queue["webhook"][i] \in StateTopic => queue["webhook"][i] <= stored
    BY DEF OrderInv, StoredFirst
  <2>2. stored' \in Nat
    BY <1>1, <1>2
  <2> QED BY <1>1, <1>2, <1>6, <2>1, <2>2 DEF StoredFirst, StateTopic, Messages
<1> QED BY <1>5, <1>7 DEF OrderInv

(* enqueue() puts the message behind all that were offered before. *)
LEMMA EnqueueKeepsOrder ==
  ASSUME TypeInv, OrderInv, Enqueue
  PROVE  OrderInv'
<1> USE DEF TypeInv, TypeOK, Workers
<1> DEFINE m == hand["subscribe"]
           q == queue["webhook"]
           r == queue'["webhook"]
<1>1. /\ m \in Messages /\ m # 0
      /\ wpc'["subscribe"] \in {"top", "notify"} /\ hand'["subscribe"] = 0
      /\ UNCHANGED <<received, stored, posted>>
  BY DEF Enqueue, HandInv, Goto
<1>2. Passed(0)
  <2>1. \A i \in 1 .. Len(queue["subscribe"]) : queue["subscribe"][i] \in Messages
    OBVIOUS
  <2> QED BY <2>1, MessagesAssumption DEF Passed, Messages
<1>3. CASE queue' = queue
  BY <1>1, <1>2, <1>3 DEF OrderInv, InOrder, StoredFirst, Passed, Ascending
<1>4. CASE queue' = [queue EXCEPT !["webhook"] = Append(@, m)]
  <2>1. /\ Len(r) = Len(q) + 1 /\ Len(q) \in Nat
        /\ \A i \in 1 .. Len(q) : r[i] = q[i]
        /\ r[Len(q) + 1] = m
        /\ queue'["subscribe"] = queue["subscribe"]
    BY <1>1, <1>4, AppendProperties
  <2>2. \A i \in 1 .. Len(r) : i \in 1 .. Len(q) \/ i = Len(q) + 1
    BY <2>1
  <2>3. /\ Ascending(q) /\ Passed(m) /\ posted.last < m
        /\ \A i \in 1 .. Len(q) : q[i] < m /\ Passed(q[i]) /\ posted.last < q[i]
    BY <1>1 DEF OrderInv, InOrder
  <2>4. Ascending(r)
    <3>1. q \in Seq(Nat) /\ m \in Nat
      BY <1>1, MessageTypes
    <3> QED BY <1>4, <2>3, <3>1, AscendingAppend
  <2>5. \A i \in 1 .. Len(r) : Passed(r[i]) /\ posted.last < r[i]
    BY <2>1, <2>2, <2>3
  <2>6. InOrder'
    <3> HIDE DEF q, m
    <3> QED BY <1>1, <1>2, <2>1, <2>4, <2>5 DEF OrderInv, InOrder, Passed, Ascending
  <2>7. m \in StateTopic => m = stored
    BY <1>1 DEF OrderInv, StoredFirst, Enqueue
  <2>8. \A i \in 1 .. Len(r) : r[i] \in StateTopic => r[i] <= stored
    <3>1. stored \in Nat /\ \A i \in 1 .. Len(q) : q[i] \in StateTopic => q[i] <= stored
      BY MessageTypes DEF OrderInv, StoredFirst
    <3> HIDE DEF TypeInv, TypeOK, q, r, m
    <3>2. ASSUME NEW i \in 1 .. Len(r), r[i] \in StateTopic PROVE r[i] <= stored
      <4>1. CASE i \in 1 .. Len(q)
        BY <2>1, <3>1, <3>2, <4>1
      <4>2. CASE i = Len(q) + 1
        BY <2>1, <2>7, <3>1, <3>2, <4>2
      <4> QED BY <2>2, <4>1, <4>2
    <3> QED BY <3>2
  <2>9. StoredFirst'
    BY <1>1, <2>8 DEF StoredFirst, StateTopic
  <2> QED BY <2>6, <2>9 DEF OrderInv
<1> QED BY <1>3, <1>4 DEF Enqueue, Push

(* The webhook worker takes the oldest message of its queue, which comes     *)
(* after the last one it took.                                               *)
LEMMA WebhookTakeKeepsOrder ==
  ASSUME TypeInv, OrderInv, Take("webhook")
  PROVE  /\ OrderInv'
         /\ posted'.last > posted.last
         /\ posted'.last \in StateTopic => posted'.last <= stored
<1> USE DEF TypeInv, TypeOK, Workers
<1> DEFINE q == queue["webhook"]
           r == queue'["webhook"]
<1>1. /\ q # << >> /\ r = Tail(q) /\ hand'["subscribe"] = hand["subscribe"]
      /\ queue'["subscribe"] = queue["subscribe"]
      /\ wpc'["subscribe"] = wpc["subscribe"]
      /\ UNCHANGED <<received, stored>>
  BY DEF Take, Goto
<1>2. /\ Head(q) = q[1] /\ Head(q) \in Messages /\ Len(q) \in Nat /\ Len(q) >= 1
      /\ Len(r) = Len(q) - 1 /\ \A i \in 1 .. Len(r) : r[i] = q[i + 1]
  BY <1>1, HeadTailProperties
<1>3. posted'.last = q[1]
  <2>1. posted \in Posted /\ Head(q) \in Nat
    BY <1>2 DEF Posted, Messages
  <2>2. posted' = [posted EXCEPT !.last = Head(q)]
    BY DEF Take
  <2> QED BY <1>2, <2>1, <2>2, PostedLast
<1>4. /\ Ascending(q)
      /\ \A i \in 1 .. Len(q) : Passed(q[i]) /\ posted.last < q[i]
      /\ \A i \in 1 .. Len(q) : q[i] \in StateTopic => q[i] <= stored
  BY DEF OrderInv, InOrder, StoredFirst
<1>5. Ascending(r) /\ \A i \in 1 .. Len(r) : Passed(r[i]) /\ q[1] < r[i]
  <2>1. q \in Seq(Nat)
    BY MessageTypes
  <2>2. \A i \in 1 .. Len(r) : i + 1 \in 1 .. Len(q)
    BY <1>2
  <2> QED BY <1>1, <1>2, <1>4, <2>1, <2>2, AscendingTail
<1>6. posted.last \in Nat /\ q[1] \in Nat
  BY <1>2 DEF Messages
<1>7. /\ posted'.last > posted.last
      /\ posted'.last \in StateTopic => posted'.last <= stored
  BY <1>2, <1>3, <1>4, <1>6
<1>8. InOrder'
  <2>1. Passed(q[1]) /\ (hand["subscribe"] # 0 => \A i \in 1 .. Len(q) : q[i] < hand["subscribe"])
    BY <1>2, <1>4 DEF OrderInv, InOrder
  <2>2. hand["subscribe"] # 0 => /\ q[1] < hand["subscribe"]
                                /\ \A i \in 1 .. Len(r) : r[i] < hand["subscribe"]
    BY <1>2, <2>1, SMTT(30)
  <2> HIDE DEF q
  <2> QED BY <1>1, <1>3, <1>5, <2>1, <2>2 DEF OrderInv, InOrder, Passed, Ascending
<1>9. StoredFirst'
  BY <1>1, <1>2, <1>4 DEF OrderInv, StoredFirst, StateTopic
<1> QED BY <1>7, <1>8, <1>9 DEF OrderInv

(* Every step keeps the order, and the webhook worker goes forward in it. *)
LEMMA OrderStep ==
  ASSUME TypeInv, OrderInv, [Next]_vars
  PROVE  /\ OrderInv'
         /\ posted'.last # posted.last =>
              /\ posted'.last > posted.last
              /\ posted'.last \in StateTopic => posted'.last <= stored
<1> USE DEF TypeInv, TypeOK, Goto, Woken, Workers, counters
<1>1. CASE UNCHANGED vars
  BY <1>1, OrderUntouched DEF vars
<1>2. CASE StartWebhook \/ StartMqtt \/ StartSubscribeWorker
  BY <1>2, OrderUntouched DEF StartWebhook, StartMqtt, StartSubscribeWorker
<1>3. CASE MqttStop \/ WebhookStop
  BY <1>3, OrderUntouched DEF MqttStop, WebhookStop, StopFlag, StopNotify,
                              JoinConnections, JoinWebhook
<1>4. CASE MessageArrives
  BY <1>4, ArrivalKeepsOrder DEF MessageArrives
<1>5. CASE NotifyArrival \/ NotifyWebhook
  BY <1>5, OrderUntouched DEF NotifyArrival, NotifyWebhook
<1>6. ASSUME NEW w \in Workers, CheckRunning(w) \/ TestFails(w) \/ Block(w)
      PROVE  OrderInv' /\ posted' = posted
  BY <1>6, OrderUntouched DEF CheckRunning, TestFails, Block
<1>7. CASE Take("subscribe")
  BY <1>7, SubscribeTakeKeepsOrder DEF Take
<1>8. CASE Take("webhook")
  BY <1>8, WebhookTakeKeepsOrder
<1>9. CASE HandleMessage
  BY <1>9, HandleKeepsOrder DEF HandleMessage
<1>10. CASE Enqueue
  BY <1>10, EnqueueKeepsOrder DEF Enqueue
<1>11. ASSUME NEW result \in PostResults, Post(result)
       PROVE  OrderInv' /\ posted'.last = posted.last
  <2>1. posted \in Posted /\ posted' = [posted EXCEPT ![result] = @ + 1]
    BY <1>11 DEF Post, Posted
  <2>2. posted'.last = posted.last
    BY <2>1, PostedCount
  <2>3. /\ UNCHANGED <<queue, received, stored>>
        /\ hand'["subscribe"] = hand["subscribe"] /\ wpc'["subscribe"] = wpc["subscribe"]
    BY <1>11 DEF Post
  <2> QED BY <2>2, <2>3, OrderUntouched
<1> QED BY <1>1, <1>2, <1>3, <1>4, <1>5, <1>6, <1>7, <1>8, <1>9, <1>10, <1>11
        DEF Next, SubscribeWorker, WebhookWorker, Loop, Terminated

(* OrderInv holds throughout. *)
LEMMA OrderCorrect == Spec => []OrderInv
<1>1. Init => OrderInv
  BY DEF Init, OrderInv, InOrder, StoredFirst, Ascending, Passed, Workers
<1>2. TypeInv /\ OrderInv /\ [Next]_vars => OrderInv'
  BY OrderStep
<1> QED BY <1>1, <1>2, TypeInvCorrect, PTL DEF Spec

(* The webhook worker takes messages in the order they arrived, each at most *)
(* once, and only after the store had the chance to see them.                *)
THEOREM PostsInOrder == Spec => PostedInOrder
<1>1. TypeInv /\ OrderInv /\ [Next]_vars
        => [posted'.last # posted.last =>
              /\ posted'.last > posted.last
              /\ posted'.last \in StateTopic => posted'.last <= stored]_vars
  BY OrderStep
<1> QED BY <1>1, TypeInvCorrect, OrderCorrect, PTL DEF Spec, PostedInOrder

-----------------------------------------------------------------------------
(* main.cpp's handler asks topic_matches_any() for each of its two lists. *)

(* A list of filters takes a message exactly if one of them means its topic. *)
LEMMA AnyIsMeant ==
  ASSUME NEW m \in Messages, NEW filters \in {subscribe_topics, webhook_topics}
  PROVE  topic_matches_any(Topic[m], filters) <=> Meant(m, filters)
<1>1. Topic[m] \in Levels /\ \A filter \in filters : filter \in Levels
  BY TopicsAssumption DEF Levels
<1> QED BY <1>1, FilterMatchesItsMeaning DEF topic_matches_any, Meant

(* A message goes to the store, to the webhook or to both exactly if MQTT    *)
(* says that the filters of subscribe_topics and webhook_topics stand for    *)
(* its topic, whatever the topics and the filters.                           *)
THEOREM RoutesAsSubscribed == Spec => RoutedAsSubscribed
<1> DEFINE Routed ==
      wpc["subscribe"] = "body" /\ wpc'["subscribe"] # "body" =>
        LET m == hand["subscribe"] IN
          /\ stored' = m <=> Meant(m, subscribe_topics) /\ m \in Numeric
          /\ wpc'["subscribe"] = "enqueue" <=> Meant(m, webhook_topics)
<1>1. TypeInv /\ OrderInv /\ [Next]_vars => [Routed]_vars
  <2> SUFFICES ASSUME TypeInv, OrderInv, Next, wpc["subscribe"] = "body",
                      wpc'["subscribe"] # "body"
               PROVE  Routed
    BY DEF vars
  <2> USE DEF TypeInv, TypeOK, Goto, Woken, Workers
  <2>1. HandleMessage
    <3>1. ~(StartWebhook \/ StartMqtt \/ StartSubscribeWorker)
      BY DEF StartWebhook, StartMqtt, StartSubscribeWorker, LifeInv
    <3>2. ~(MqttStop \/ WebhookStop)
      BY DEF MqttStop, WebhookStop, StopFlag, StopNotify, JoinConnections, JoinWebhook
    <3>3. ~(MessageArrives \/ NotifyArrival \/ NotifyWebhook \/ Enqueue \/ Terminated)
      BY DEF MessageArrives, NotifyArrival, NotifyWebhook, Enqueue, Terminated, vars
    <3>4. ASSUME NEW w \in Workers PROVE ~Loop(w)
      BY DEF Loop, CheckRunning, TestFails, Block, Take
    <3>5. ASSUME NEW result \in PostResults PROVE ~Post(result)
      BY DEF Post
    <3> QED BY <3>1, <3>2, <3>3, <3>4, <3>5 DEF Next, SubscribeWorker, WebhookWorker
  <2>2. PICK m \in Messages : m = hand["subscribe"] /\ stored < m
    BY DEF HandInv, OrderInv, StoredFirst
  <2>3. stored # m
    BY <2>2, MessageTypes
  <2>4. stored' = m <=> Meant(m, subscribe_topics) /\ m \in Numeric
    BY <2>1, <2>2, <2>3, AnyIsMeant DEF HandleMessage, StateTopic
  <2>5. wpc'["subscribe"] = "enqueue" <=> Meant(m, webhook_topics)
    BY <2>1, <2>2, AnyIsMeant DEF HandleMessage, WebhookTopic
  <2> QED BY <2>2, <2>4, <2>5
<1> QED BY <1>1, TypeInvCorrect, OrderCorrect, PTL DEF Spec, RoutedAsSubscribed
=============================================================================
