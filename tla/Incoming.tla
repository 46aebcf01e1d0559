------------------------------ MODULE Incoming ------------------------------
(***************************************************************************)
(* What happens to a message that arrives on a subscription: Paho's thread  *)
(* copies it into incoming_queue_ (src/mqtt.cpp, on_message_arrived), the   *)
(* subscribe worker takes it out and runs main.cpp's handler, which updates *)
(* the store and may hand it to the webhook queue (src/webhook.cpp), whose  *)
(* worker POSTs it.  main() starts and stops the two workers.               *)
(*                                                                         *)
(* Both workers wait on a condition variable without a timeout.  wait()     *)
(* tests its predicate with the mutex held ("tested": it came out false)    *)
(* and then blocks and releases the mutex in one step; a notification       *)
(* reaches only a worker that has blocked.  stop() sets the running flag    *)
(* and notifies without the mutex.                                          *)
(*                                                                         *)
(* Messages are numbered in the order they arrive.                          *)
(***************************************************************************)
EXTENDS Integers, Sequences, MqttTopic

CONSTANTS MaxMessages,   \* bound on the messages that arrive
          IncomingSize,  \* mqtt_queue_size
          WebhookSize,   \* webhook_queue_size
          Topic,             \* message -> its topic
          Numeric,           \* messages whose payload is a number, or JSON on
                             \* one of prometheus_mqtt_json_topics
          subscribe_topics,  \* the filters that feed the store
          webhook_topics     \* the filters that feed the webhook

ASSUME SizesAssumption == IncomingSize \in Nat \ {0} /\ WebhookSize \in Nat \ {0}
ASSUME MessagesAssumption == MaxMessages \in Nat

Messages == 1 .. MaxMessages

(* Topics and filters are what split_levels() makes: never without a level. *)
ASSUME TopicsAssumption ==
  /\ \A m \in Messages : Topic[m] \in Seq(STRING) /\ Topic[m] # << >>
  /\ \A filter \in subscribe_topics \cup webhook_topics :
       filter \in Seq(STRING) /\ filter # << >>

Workers == {"subscribe", "webhook"}

(* What main.cpp's handler does with a message: each list on its own. *)
StateTopic == {m \in Messages : /\ topic_matches_any(Topic[m], subscribe_topics)
                                /\ m \in Numeric}
WebhookTopic == {m \in Messages : topic_matches_any(Topic[m], webhook_topics)}

QueueSize == [subscribe |-> IncomingSize, webhook |-> WebhookSize]

VARIABLES main,       \* where main() is
          running,    \* worker -> running_ of its class
          queue,      \* worker -> incoming_queue_ or queue_
          wpc,        \* worker -> where its loop is
          hand,       \* worker -> the message it took, 0 if none
          paho,       \* Paho's thread: "idle", or "notify" in on_message_arrived
          received,   \* mqtt_messages_received_total
          dropped,    \* mqtt_messages_dropped_total
          handled,    \* history: messages the subscribe worker took
          stored,     \* the last message the handler put into the store and
                      \* saved (StateFile has the steps of the save)
          offered,    \* history: calls of enqueue()
          full,       \* webhook_queue_full_total
          posted      \* webhook_delivered_total, webhook_failed_total and, as
                      \* history, the last message the webhook worker took

counters == <<received, dropped, handled, stored, offered, full, posted>>
vars == <<main, running, queue, wpc, hand, paho, counters>>

MainPcs == {"start_webhook", "start_mqtt", "start_worker", "serving", "notify_subscribe",
            "join_connections", "join_subscribe", "notify_webhook", "join_webhook",
            "done"}
WorkerPcs == {"unborn", "top", "test", "tested", "blocked", "body", "enqueue",
              "notify", "exited"}

TypeOK ==
  /\ main \in MainPcs
  /\ running \in [Workers -> BOOLEAN]
  /\ queue \in [Workers -> Seq(Messages)]
  /\ wpc \in [Workers -> WorkerPcs]
  /\ hand \in [Workers -> Messages \cup {0}]
  /\ paho \in {"idle", "notify"}
  /\ received \in 0 .. MaxMessages
  /\ {dropped, handled, stored, offered, full} \subseteq Nat
  /\ posted \in [delivered : Nat, failed : Nat, last : Nat]

Init ==
  /\ main = "start_webhook"
  /\ running = [w \in Workers |-> FALSE]
  /\ queue = [w \in Workers |-> << >>]
  /\ wpc = [w \in Workers |-> "unborn"]
  /\ hand = [w \in Workers |-> 0]
  /\ paho = "idle"
  /\ received = 0 /\ dropped = 0 /\ handled = 0 /\ stored = 0 /\ offered = 0 /\ full = 0
  /\ posted = [delivered |-> 0, failed |-> 0, last |-> 0]

Goto(w, pc) == wpc' = [wpc EXCEPT ![w] = pc]
(* Mutant: the newest message goes to the front. *)
PushFront(w, m) == queue' = [queue EXCEPT ![w] = <<m>> \o @]

Push(w, m) == queue' = [queue EXCEPT ![w] = Append(@, m)]
QueueIsFull(w) == Len(queue[w]) >= QueueSize[w]

(* The mutex of a worker's queue is free: the worker is not inside wait(),   *)
(* between its test and blocking.                                            *)
MutexFree(w) == wpc[w] # "tested"

(* notify_one() or notify_all(): there is one waiter at most. *)
Woken(w) == [wpc EXCEPT ![w] = IF @ = "blocked" THEN "test" ELSE @]

-----------------------------------------------------------------------------
(* main(): webhook.start(), mqtt.start(), server.run(), mqtt.stop() and      *)
(* webhook.stop(), in this order.                                            *)

StartWebhook ==
  /\ main = "start_webhook"
  /\ main' = "start_mqtt"
  /\ running' = [running EXCEPT !["webhook"] = TRUE]
  /\ Goto("webhook", "top")
  /\ UNCHANGED <<queue, hand, paho, counters>>

(* The connections come first: messages may arrive before there is a worker. *)
StartMqtt ==
  /\ main = "start_mqtt"
  /\ main' = "start_worker"
  /\ running' = [running EXCEPT !["subscribe"] = TRUE]
  /\ UNCHANGED <<queue, wpc, hand, paho, counters>>

StartSubscribeWorker ==
  /\ main = "start_worker"
  /\ main' = "serving"
  /\ Goto("subscribe", "top")
  /\ UNCHANGED <<running, queue, hand, paho, counters>>

(* stop(): the flag first ... *)
StopFlag(w, from, to) ==
  /\ main = from
  /\ main' = to
  /\ running' = [running EXCEPT ![w] = FALSE]
  /\ UNCHANGED <<queue, wpc, hand, paho, counters>>

(* ... then the notification, neither under the mutex ... *)
StopNotify(w, from, to) ==
  /\ main = from
  /\ main' = to
  /\ wpc' = Woken(w)
  /\ UNCHANGED <<running, queue, hand, paho, counters>>

(* ... then the joins. *)
JoinConnections ==
  /\ main = "join_connections" /\ paho = "idle"
  /\ main' = "join_subscribe"
  /\ UNCHANGED <<running, queue, wpc, hand, paho, counters>>

JoinWebhook ==
  /\ main = "join_webhook" /\ wpc["webhook"] = "exited"
  /\ main' = "done"
  /\ UNCHANGED <<running, queue, wpc, hand, paho, counters>>

MqttStop == \/ StopFlag("subscribe", "serving", "notify_subscribe")
            \/ StopNotify("subscribe", "notify_subscribe", "join_connections")
            \/ JoinConnections

(* Mutant: main() stops the webhook client before the MQTT client has joined *)
(* its worker.                                                               *)
WebhookStopEarly == \/ StopFlag("webhook", "join_subscribe", "notify_webhook")
                    \/ StopNotify("webhook", "notify_webhook", "join_webhook")
                    \/ JoinWebhook

WebhookStop == \/ wpc["subscribe"] = "exited"
                  /\ StopFlag("webhook", "join_subscribe", "notify_webhook")
               \/ StopNotify("webhook", "notify_webhook", "join_webhook")
               \/ JoinWebhook

-----------------------------------------------------------------------------
(* on_message_arrived(), on Paho's thread, while the connections exist. *)

(* Mutant: the drop is taken off its counter. *)
MessageArrivesUncounted ==
  /\ main \in {"start_worker", "serving", "notify_subscribe", "join_connections"}
  /\ paho = "idle"
  /\ received < MaxMessages
  /\ received' = received + 1
  /\ MutexFree("subscribe")
  /\ IF QueueIsFull("subscribe")
     THEN dropped' = dropped - 1 /\ UNCHANGED <<queue, paho>>
     ELSE Push("subscribe", received') /\ paho' = "notify" /\ UNCHANGED dropped
  /\ UNCHANGED <<main, running, wpc, hand, handled, stored, offered, full, posted>>

(* Mutant: no notify_one() after the push. *)
MessageArrivesSilently ==
  /\ main \in {"start_worker", "serving", "notify_subscribe", "join_connections"}
  /\ paho = "idle"
  /\ received < MaxMessages
  /\ received' = received + 1
  /\ MutexFree("subscribe")
  /\ IF QueueIsFull("subscribe")
     THEN dropped' = dropped + 1 /\ UNCHANGED <<queue, paho>>
     ELSE Push("subscribe", received') /\ UNCHANGED <<paho, dropped>>
  /\ UNCHANGED <<main, running, wpc, hand, handled, stored, offered, full, posted>>

MessageArrives ==
  /\ main \in {"start_worker", "serving", "notify_subscribe", "join_connections"}
  /\ paho = "idle"
  /\ received < MaxMessages
  /\ received' = received + 1
  /\ MutexFree("subscribe")
  /\ IF QueueIsFull("subscribe")
     THEN dropped' = dropped + 1 /\ UNCHANGED <<queue, paho>>
     ELSE Push("subscribe", received') /\ paho' = "notify" /\ UNCHANGED dropped
  /\ UNCHANGED <<main, running, wpc, hand, handled, stored, offered, full, posted>>

NotifyArrival ==
  /\ paho = "notify"
  /\ paho' = "idle"
  /\ wpc' = Woken("subscribe")
  /\ UNCHANGED <<main, running, queue, hand, counters>>

-----------------------------------------------------------------------------
(* The loop both workers run, up to having a message in hand. *)

CheckRunning(w) ==
  /\ wpc[w] = "top"
  /\ Goto(w, IF running[w] THEN "test" ELSE "exited")
  /\ UNCHANGED <<main, running, queue, hand, paho, counters>>

TestFails(w) ==
  /\ wpc[w] = "test" /\ queue[w] = << >>
  /\ Goto(w, IF running[w] THEN "tested" ELSE "exited")
  /\ UNCHANGED <<main, running, queue, hand, paho, counters>>

Block(w) ==
  /\ wpc[w] = "tested"
  /\ Goto(w, "blocked")
  /\ UNCHANGED <<main, running, queue, hand, paho, counters>>

Take(w) ==
  /\ wpc[w] = "test" /\ queue[w] # << >>
  /\ hand' = [hand EXCEPT ![w] = Head(queue[w])]
  /\ queue' = [queue EXCEPT ![w] = Tail(@)]
  /\ Goto(w, "body")
  /\ handled' = IF w = "subscribe" THEN handled + 1 ELSE handled
  /\ posted' = IF w = "webhook" THEN [posted EXCEPT !.last = Head(queue[w])] ELSE posted
  /\ UNCHANGED <<main, running, paho, received, dropped, stored, offered, full>>

Loop(w) == CheckRunning(w) \/ TestFails(w) \/ Block(w) \/ Take(w)

-----------------------------------------------------------------------------
(* main.cpp's message handler, on the subscribe worker: the store first, the *)
(* webhook after it, each if the topic matches its own filters.              *)

HandleMessage ==
  /\ wpc["subscribe"] = "body"
  /\ stored' = IF hand["subscribe"] \in StateTopic THEN hand["subscribe"] ELSE stored
  /\ IF hand["subscribe"] \in WebhookTopic
     THEN Goto("subscribe", "enqueue") /\ UNCHANGED hand
     ELSE Goto("subscribe", "top") /\ hand' = [hand EXCEPT !["subscribe"] = 0]
  /\ UNCHANGED <<main, running, queue, paho, received, dropped, handled, offered, full,
                 posted>>

(* WebhookClient::enqueue(): nothing at all if the worker is not running, a  *)
(* counted drop if the queue is full.                                        *)
Enqueue ==
  /\ wpc["subscribe"] = "enqueue"
  /\ MutexFree("webhook")
  /\ offered' = offered + 1
  /\ IF ~running["webhook"]
     THEN Goto("subscribe", "top") /\ UNCHANGED <<queue, full>>
     ELSE IF QueueIsFull("webhook")
     THEN Goto("subscribe", "top") /\ full' = full + 1 /\ UNCHANGED queue
     ELSE Goto("subscribe", "notify") /\ Push("webhook", hand["subscribe"])
            /\ UNCHANGED full
  /\ hand' = [hand EXCEPT !["subscribe"] = 0]
  /\ UNCHANGED <<main, running, paho, received, dropped, handled, stored, posted>>

(* Mutant: the notification is forgotten. *)
NotifyNobody ==
  /\ wpc["subscribe"] = "notify"
  /\ Goto("subscribe", "top")
  /\ UNCHANGED <<main, running, queue, hand, paho, counters>>

NotifyWebhook ==
  /\ wpc["subscribe"] = "notify"
  /\ wpc' = [Woken("webhook") EXCEPT !["subscribe"] = "top"]
  /\ UNCHANGED <<main, running, queue, hand, paho, counters>>

SubscribeWorker == Loop("subscribe") \/ HandleMessage \/ Enqueue \/ NotifyWebhook

(* Mutant: a failed POST is not counted. *)
PostUncounted(result) ==
  /\ wpc["webhook"] = "body"
  /\ posted' = IF result = "failed" THEN posted ELSE [posted EXCEPT ![result] = @ + 1]
  /\ hand' = [hand EXCEPT !["webhook"] = 0]
  /\ Goto("webhook", "top")
  /\ UNCHANGED <<main, running, queue, paho, received, dropped, handled, stored, offered,
                 full>>

(* What HttpClient::post() may say of one POST: delivered for a 2xx status,  *)
(* failed for any other status and for every error, webhook_timeout_seconds  *)
(* included.                                                                 *)
PostResults == {"delivered", "failed"}

(* The worker counts the result and goes on: a POST is never retried. *)
Post(result) ==
  /\ wpc["webhook"] = "body"
  /\ posted' = [posted EXCEPT ![result] = @ + 1]
  /\ hand' = [hand EXCEPT !["webhook"] = 0]
  /\ Goto("webhook", "top")
  /\ UNCHANGED <<main, running, queue, paho, received, dropped, handled, stored, offered,
                 full>>

WebhookWorker == Loop("webhook") \/ \E result \in PostResults : Post(result)

Terminated == main = "done" /\ UNCHANGED vars

Next == \/ StartWebhook \/ StartMqtt \/ StartSubscribeWorker
        \/ MqttStop \/ WebhookStop
        \/ MessageArrives \/ NotifyArrival
        \/ SubscribeWorker \/ WebhookWorker
        \/ Terminated

Spec == Init /\ [][Next]_vars

(* Every thread that can step does: a POST is bounded by its timeout.  No    *)
(* message need arrive, and the service need not be stopped; a stop() that   *)
(* has begun goes on.                                                        *)
Fairness ==
  /\ WF_vars(SubscribeWorker)
  /\ WF_vars(WebhookWorker)
  /\ WF_vars(NotifyArrival)
  /\ WF_vars(main # "serving" /\ (\/ StartWebhook \/ StartMqtt \/ StartSubscribeWorker
                              \/ MqttStop \/ WebhookStop))

FairSpec == Spec /\ Fairness

-----------------------------------------------------------------------------
(* Properties. *)

(* A worker that sleeps on a non-empty queue is about to be notified: the    *)
(* push under the mutex and the notify_one() after it never lose a message   *)
(* between the worker's test and its sleep.                                  *)
NoMissedMessage ==
  /\ wpc["subscribe"] = "blocked" /\ queue["subscribe"] # << >> => paho = "notify"
  /\ wpc["webhook"] = "blocked" /\ queue["webhook"] # << >> => wpc["subscribe"] = "notify"

(* enqueue() never meets a webhook client that is not running: main() starts *)
(* it before the first message can arrive and stops it after the last one    *)
(* was handled, so its silent early return takes none.  What is still queued *)
(* when the workers stop is another matter: it is discarded, uncounted.      *)
NoSilentDrop == wpc["subscribe"] = "enqueue" => running["webhook"]

(* The counters add up: a message received was dropped, is queued or was     *)
(* handled; one offered to the webhook was refused, is queued, in hand, or   *)
(* its POST is counted.                                                      *)
CountersAddUp ==
  /\ received = dropped + Len(queue["subscribe"]) + handled
  /\ offered = full + Len(queue["webhook"]) + (IF hand["webhook"] = 0 THEN 0 ELSE 1)
                 + posted.delivered + posted.failed

(* Messages are POSTed in the order they arrived, each at most once, and     *)
(* only after the store had the chance to see them.                          *)
PostedInOrder ==
  [][posted'.last # posted.last =>
       /\ posted'.last > posted.last
       /\ posted'.last \in StateTopic => posted'.last <= stored]_vars

(* While the service runs, a queued message is eventually taken. *)
QueuedIsTaken ==
  \A w \in Workers : \A m \in Messages :
    (\E i \in 1 .. Len(queue[w]) : queue[w][i] = m)
      ~> (~running[w] \/ \A i \in 1 .. Len(queue[w]) : queue[w][i] # m)

(* Some filter of the list stands for the message's topic, in MQTT's sense. *)
Meant(m, filters) == \E filter \in filters : Topic[m] \in Denotes(filter, {Topic[m]})

(* The handler takes a message for the store, for the webhook or for both    *)
(* exactly if MQTT says the lists' filters stand for its topic, so what the  *)
(* broker sent for a filter reaches the part that subscribed, and the other  *)
(* part does not see it.                                                     *)
RoutedAsSubscribed ==
  [][wpc["subscribe"] = "body" /\ wpc'["subscribe"] # "body" =>
       LET m == hand["subscribe"] IN
         /\ stored' = m <=> Meant(m, subscribe_topics) /\ m \in Numeric
         /\ wpc'["subscribe"] = "enqueue" <=> Meant(m, webhook_topics)]_vars

(* mqtt.h on stop(): "Returns quickly even if the broker is currently        *)
(* unreachable."  A stop that has begun ends with both workers joined.       *)
StopCompletes == main = "notify_subscribe" ~> main = "done"
=============================================================================
