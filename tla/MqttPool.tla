------------------------------ MODULE MqttPool ------------------------------
(***************************************************************************)
(* The publish side of MqttClient (src/mqtt.cpp, src/mqtt.h): a pool of     *)
(* MQTT connections, each owned by one worker thread, that pull publish     *)
(* jobs from one bounded queue; the HTTP threads that put the jobs there    *)
(* and wait for an outcome with a timeout; and start() and stop().          *)
(*                                                                         *)
(* A job is one call of publish(): the job's name stands for the call, the  *)
(* Job object the call makes, and the calling thread while it waits.        *)
(*                                                                         *)
(* The Paho library and the broker are external.  link[c] is Paho's own     *)
(* view of connection c's session, lost[c] a connection-lost callback Paho  *)
(* has yet to run, wire[j] how far job j's message got.                     *)
(***************************************************************************)
EXTENDS Integers, Sequences, FiniteSets

CONSTANTS Jobs,       \* the publish() calls
          NoJob,      \* "no job in hand"
          PoolSize,   \* mqtt_pool_size
          QueueSize,  \* mqtt_queue_size
          Filters     \* subscribe_topics and webhook_topics, as enabled

ASSUME JobsAssumption == IsFiniteSet(Jobs) /\ NoJob \notin Jobs
ASSUME PoolAssumption == PoolSize \in Nat \ {0}
ASSUME QueueAssumption == QueueSize \in Nat \ {0}

Conns == 0 .. PoolSize - 1
Primary == 0

Outcomes == {"Ok", "QueueFull", "Timeout", "Failed"}

VARIABLES
  phase,      \* where start()/stop() are: see Phases
  running,    \* running_
  started,    \* connections start() has put into connections_
  joined,     \* connections stop() has joined and destroyed
  subscriber, \* subscribe_worker_: see module Incoming for what it does
  queue,      \* queue_
  qos,        \* job -> Job::qos (1 stands for 1 and 2)
  done,       \* job -> Job::done
  outcome,    \* job -> Job::outcome
  call,       \* job -> what publish() is doing, or what it returned
  wpc,        \* connection -> where its worker_loop() is
  held,       \* connection -> the job in run_job(), or NoJob
  result,     \* connection -> run_job()'s local outcome
  connected,  \* connection -> connected_
  todo,       \* filters try_connect() has yet to subscribe to
  total,      \* the mqtt_publish_*_total and mqtt_queue_full_total counters
  link,       \* external: connection -> Paho's session
  lost,       \* external: connection -> a connection-lost callback is due
  subs,       \* external: filters the broker holds for the primary's session
  wire        \* external: job -> how far its message got

client == <<phase, running, started, joined, subscriber>>
jobs == <<queue, qos, done, outcome, call>>
workers == <<wpc, held, result>>
session == <<link, lost, subs, todo>>
vars == <<client, jobs, workers, connected, total, session, wire>>

Phases == {"starting", "unwinding", "failed", "running", "stopping", "stopped"}

WorkerPcs == {"unborn", "top", "check", "connect", "connected", "subscribe",
              "backoff", "wait", "publish", "ack", "finish", "leave", "exited"}

TypeOK ==
  /\ phase \in Phases
  /\ running \in BOOLEAN
  /\ started \in 0 .. PoolSize
  /\ joined \in 0 .. PoolSize
  /\ subscriber \in {"none", "running", "exited"}
  /\ queue \in Seq(Jobs)
  /\ qos \in [Jobs -> {0, 1}]
  /\ done \in [Jobs -> BOOLEAN]
  /\ outcome \in [Jobs -> Outcomes]
  /\ call \in [Jobs -> Outcomes \cup {"none", "waiting"}]
  /\ wpc \in [Conns -> WorkerPcs]
  /\ held \in [Conns -> Jobs \cup {NoJob}]
  /\ result \in [Conns -> Outcomes]
  /\ connected \in [Conns -> BOOLEAN]
  /\ todo \in SUBSET Filters
  /\ total \in [{"ok", "failed", "timeout", "queue_full"} -> Nat]
  /\ link \in [Conns -> {"down", "up"}]
  /\ lost \in [Conns -> BOOLEAN]
  /\ subs \in SUBSET Filters
  /\ wire \in [Jobs -> {"none", "sent", "received", "acked"}]

(* start() has set running_ and is about to make the first connection. *)
Init ==
  /\ phase = "starting"
  /\ running = TRUE
  /\ started = 0
  /\ joined = 0
  /\ subscriber = "none"
  /\ queue = << >>
  /\ qos = [j \in Jobs |-> 0]
  /\ done = [j \in Jobs |-> FALSE]
  /\ outcome = [j \in Jobs |-> "Failed"]
  /\ call = [j \in Jobs |-> "none"]
  /\ wpc = [c \in Conns |-> "unborn"]
  /\ held = [c \in Conns |-> NoJob]
  /\ result = [c \in Conns |-> "Failed"]
  /\ connected = [c \in Conns |-> FALSE]
  /\ todo = {}
  /\ total = [ok |-> 0, failed |-> 0, timeout |-> 0, queue_full |-> 0]
  /\ link = [c \in Conns |-> "down"]
  /\ lost = [c \in Conns |-> FALSE]
  /\ subs = {}
  /\ wire = [j \in Jobs |-> "none"]

Count(k) == total' = [total EXCEPT ![k] = @ + 1]
Goto(c, pc) == wpc' = [wpc EXCEPT ![c] = pc]

-----------------------------------------------------------------------------
(* start(): one connection at a time, its worker thread running at once,    *)
(* then the subscribe worker if there is a filter.  A connection Paho       *)
(* refuses ends start(): the ones already made are stopped.                 *)

StartSubscriber ==
  subscriber' = IF phase' = "running" /\ Filters # {} THEN "running" ELSE subscriber

(* Mutant: the loop runs to i <= mqtt_pool_size. *)
StartConnectionOneTooMany ==
  /\ phase = "starting"
  /\ wpc' = [c \in Conns |-> IF c = started THEN "top" ELSE wpc[c]]
  /\ started' = started + 1
  /\ phase' = IF started = PoolSize THEN "running" ELSE "starting"
  /\ StartSubscriber
  /\ UNCHANGED <<running, joined, jobs, held, result, connected, total,
                 session, wire>>

StartConnection ==
  /\ phase = "starting"
  /\ started < PoolSize
  /\ Goto(started, "top")
  /\ started' = started + 1
  /\ phase' = IF started' = PoolSize THEN "running" ELSE "starting"
  /\ StartSubscriber
  /\ UNCHANGED <<running, joined, jobs, held, result, connected, total,
                 session, wire>>

StartFails ==
  /\ phase = "starting"
  /\ running' = FALSE
  /\ phase' = "unwinding"
  /\ UNCHANGED <<started, joined, subscriber, jobs, workers, connected, total,
                 session, wire>>

(* stop(): running_.exchange(false) and the notifications. *)
Stop ==
  /\ phase = "running"
  /\ running' = FALSE
  /\ phase' = "stopping"
  /\ UNCHANGED <<started, joined, subscriber, jobs, workers, connected, total,
                 session, wire>>

(* Connection::stop(): join the worker, destroy the Paho client. *)
JoinConnection ==
  /\ phase \in {"stopping", "unwinding"}
  /\ joined < started
  /\ wpc[joined] = "exited"
  /\ joined' = joined + 1
  /\ connected' = [connected EXCEPT ![joined] = FALSE]
  /\ link' = [link EXCEPT ![joined] = "down"]
  /\ lost' = [lost EXCEPT ![joined] = FALSE]
  /\ subs' = IF joined = Primary THEN {} ELSE subs
  /\ UNCHANGED <<phase, running, started, subscriber, jobs, workers, total, todo,
                 wire>>

StartUnwound ==
  /\ phase = "unwinding"
  /\ joined = started
  /\ phase' = "failed"
  /\ UNCHANGED <<running, started, joined, subscriber, jobs, workers, connected,
                 total, session, wire>>

(* subscribe_worker_loop() ends, once running_ is false: at once, later, or  *)
(* never, when it sleeps through the notification (module Incoming).         *)
SubscriberLeaves ==
  /\ subscriber = "running"
  /\ ~running
  /\ subscriber' = "exited"
  /\ UNCHANGED <<phase, running, started, joined, jobs, workers, connected, total,
                 session, wire>>

InQueue(j) == \E i \in 1 .. Len(queue) : queue[i] = j

(* Mutant: every job is answered Failed, not only the queued ones. *)
DrainEverything ==
  /\ phase = "stopping"
  /\ joined = started
  /\ subscriber # "running"
  /\ done' = [j \in Jobs |-> TRUE]
  /\ outcome' = [j \in Jobs |-> "Failed"]
  /\ queue' = << >>
  /\ phase' = "stopped"
  /\ UNCHANGED <<running, started, joined, subscriber, qos, call, workers,
                 connected, total, session, wire>>

(* Mutant: the queue is cleared without answering its jobs. *)
DrainSilently ==
  /\ phase = "stopping"
  /\ joined = started
  /\ subscriber # "running"
  /\ queue' = << >>
  /\ phase' = "stopped"
  /\ UNCHANGED <<running, started, joined, subscriber, qos, done, outcome, call,
                 workers, connected, total, session, wire>>

(* The end of stop(), behind the join of the subscribe worker: the jobs no    *)
(* worker took are answered Failed.                                          *)
DrainQueue ==
  /\ phase = "stopping"
  /\ joined = started
  /\ subscriber # "running"
  /\ done' = [j \in Jobs |-> done[j] \/ InQueue(j)]
  /\ outcome' = [j \in Jobs |-> IF InQueue(j) THEN "Failed" ELSE outcome[j]]
  /\ queue' = << >>
  /\ phase' = "stopped"
  /\ UNCHANGED <<running, started, joined, subscriber, qos, call, workers,
                 connected, total, session, wire>>

-----------------------------------------------------------------------------
(* publish(), on an HTTP thread. *)

QueueIsFull == Len(queue) >= QueueSize

PublishRefused(j) ==
  /\ phase \in {"running", "stopping"}
  /\ call[j] = "none"
  /\ QueueIsFull
  /\ Count("queue_full")
  /\ call' = [call EXCEPT ![j] = "QueueFull"]
  /\ UNCHANGED <<client, queue, qos, done, outcome, workers, connected, session, wire>>

PublishQueued(j, q) ==
  /\ phase \in {"running", "stopping"}
  /\ call[j] = "none"
  /\ ~QueueIsFull
  /\ queue' = Append(queue, j)
  /\ qos' = [qos EXCEPT ![j] = q]
  /\ call' = [call EXCEPT ![j] = "waiting"]
  /\ UNCHANGED <<client, done, outcome, workers, connected, total, session, wire>>

(* wait_for() ends with done set ... *)
PublishReturns(j) ==
  /\ call[j] = "waiting"
  /\ done[j]
  /\ call' = [call EXCEPT ![j] = outcome[j]]
  /\ UNCHANGED <<client, queue, qos, done, outcome, workers, connected, total,
                 session, wire>>

(* ... or after wait_timeout without it: the job stays where it is. *)
PublishTimesOut(j) ==
  /\ call[j] = "waiting"
  /\ ~done[j]
  /\ call' = [call EXCEPT ![j] = "Timeout"]
  /\ UNCHANGED <<client, queue, qos, done, outcome, workers, connected, total,
                 session, wire>>

-----------------------------------------------------------------------------
(* Connection::worker_loop() and try_connect(), on c's worker thread. *)

(* Where only the place in the code changes. *)
Move(c, from, to) ==
  /\ wpc[c] = from
  /\ Goto(c, to)
  /\ UNCHANGED <<client, jobs, held, result, connected, total, session, wire>>

(* Mutant: the loop does not look at running_. *)
CheckNothing(c) == Move(c, "top", "check")

CheckRunning(c) == Move(c, "top", IF running THEN "check" ELSE "leave")

CheckConnected(c) == Move(c, "check", IF connected[c] THEN "wait" ELSE "connect")

(* MQTTClient_connect() returns; whatever session there was is gone. *)
Connect(c, up, to) ==
  /\ wpc[c] = "connect"
  /\ Goto(c, to)
  /\ link' = [link EXCEPT ![c] = up]
  /\ subs' = IF c = Primary THEN {} ELSE subs
  /\ UNCHANGED <<client, jobs, held, result, connected, total, lost, todo, wire>>

(* With an error (mqtt_reconnects_total is left out) ... *)
ConnectFails(c) == Connect(c, "down", "backoff")

(* ... or with a new, clean session. *)
ConnectSucceeds(c) == Connect(c, "up", "connected")

(* Only now is connected_ stored. *)
StoreConnected(c) ==
  /\ wpc[c] = "connected"
  /\ connected' = [connected EXCEPT ![c] = TRUE]
  /\ Goto(c, IF c = Primary THEN "subscribe" ELSE "top")
  /\ todo' = IF c = Primary THEN Filters ELSE todo
  /\ UNCHANGED <<client, jobs, held, result, total, link, lost, subs, wire>>

(* MQTTClient_subscribe() for one filter: a failure is only logged. *)
Subscribe(f) ==
  /\ wpc[Primary] = "subscribe"
  /\ f \in todo
  /\ todo' = todo \ {f}
  /\ \/ link[Primary] = "up" /\ subs' = subs \cup {f}
     \/ UNCHANGED subs
  /\ UNCHANGED <<client, jobs, workers, connected, total, link, lost, wire>>

SubscribeEnds == todo = {} /\ Move(Primary, "subscribe", "top")

BackoffEnds(c) == Move(c, "backoff", "top")

(* The bounded wait_for() on queue_cv_ may end at any moment.  What follows *)
(* looks at running_ and at the queue, and not at connected_ again.         *)
WaitEndsStopped(c) == ~running /\ Move(c, "wait", "leave")

(* Mutant: an idle worker waits again instead of going around the loop. *)
WaitAgain(c) == running /\ queue = << >> /\ Move(c, "wait", "wait")

WaitEndsIdle(c) == running /\ queue = << >> /\ Move(c, "wait", "top")

(* Mutant: the job is copied out but not popped. *)
TakeJobPopLost(c) ==
  /\ wpc[c] = "wait"
  /\ running
  /\ queue # << >>
  /\ held' = [held EXCEPT ![c] = Head(queue)]
  /\ Goto(c, "publish")
  /\ UNCHANGED <<client, jobs, result, connected, total, session, wire>>

TakeJob(c) ==
  /\ wpc[c] = "wait"
  /\ running
  /\ queue # << >>
  /\ held' = [held EXCEPT ![c] = Head(queue)]
  /\ queue' = Tail(queue)
  /\ Goto(c, "publish")
  /\ UNCHANGED <<client, qos, done, outcome, call, result, connected, total,
                 session, wire>>

(* After the loop: disconnect if connected_ says there is a session. *)
LeaveLoop(c) ==
  /\ wpc[c] = "leave"
  /\ Goto(c, "exited")
  /\ connected' = [connected EXCEPT ![c] = FALSE]
  /\ link' = IF connected[c] THEN [link EXCEPT ![c] = "down"] ELSE link
  /\ subs' = IF connected[c] /\ c = Primary THEN {} ELSE subs
  /\ UNCHANGED <<client, jobs, held, result, total, lost, todo, wire>>

-----------------------------------------------------------------------------
(* Connection::run_job(), on c's worker thread. *)

(* Mutant: a failed publish is not counted. *)
PublishFailsUncounted(c) ==
  /\ wpc[c] = "publish"
  /\ result' = [result EXCEPT ![c] = "Failed"]
  /\ connected' = [connected EXCEPT ![c] = FALSE]
  /\ Goto(c, "finish")
  /\ UNCHANGED <<client, jobs, held, total, session, wire>>

(* MQTTClient_publishMessage() returns an error. *)
PublishFails(c) ==
  /\ wpc[c] = "publish"
  /\ result' = [result EXCEPT ![c] = "Failed"]
  /\ Count("failed")
  /\ connected' = [connected EXCEPT ![c] = FALSE]
  /\ Goto(c, "finish")
  /\ UNCHANGED <<client, jobs, held, session, wire>>

(* It succeeds at QoS 0: there is nothing more to wait for. *)
PublishHandedOff(c) ==
  /\ wpc[c] = "publish"
  /\ link[c] = "up"
  /\ qos[held[c]] = 0
  /\ wire' = [wire EXCEPT ![held[c]] = "sent"]
  /\ result' = [result EXCEPT ![c] = "Ok"]
  /\ Count("ok")
  /\ Goto(c, "finish")
  /\ UNCHANGED <<client, jobs, held, connected, session>>

(* It succeeds at QoS 1 or 2: waitForCompletion() is next. *)
PublishInFlight(c) ==
  /\ wpc[c] = "publish"
  /\ link[c] = "up"
  /\ qos[held[c]] # 0
  /\ wire' = [wire EXCEPT ![held[c]] = "sent"]
  /\ Goto(c, "ack")
  /\ UNCHANGED <<client, jobs, held, result, connected, total, session>>

(* Mutant: waitForCompletion()'s result is not looked at. *)
CompletionAssumed(c) ==
  /\ wpc[c] = "ack"
  /\ result' = [result EXCEPT ![c] = "Ok"]
  /\ Count("ok")
  /\ Goto(c, "finish")
  /\ UNCHANGED <<client, jobs, held, connected, session, wire>>

CompletionSucceeds(c) ==
  /\ wpc[c] = "ack"
  /\ wire[held[c]] = "acked"
  /\ result' = [result EXCEPT ![c] = "Ok"]
  /\ Count("ok")
  /\ Goto(c, "finish")
  /\ UNCHANGED <<client, jobs, held, connected, session, wire>>

(* Mutant: an unacknowledged publish is reported as a definite failure. *)
CompletionFails(c) ==
  /\ wpc[c] = "ack"
  /\ wire[held[c]] # "acked"
  /\ result' = [result EXCEPT ![c] = "Failed"]
  /\ Count("failed")
  /\ connected' = [connected EXCEPT ![c] = FALSE]
  /\ Goto(c, "finish")
  /\ UNCHANGED <<client, jobs, held, session, wire>>

(* Mutant: an unacknowledged publish is tried again. *)
CompletionRetries(c) == Move(c, "ack", "publish") /\ wire[held[c]] # "acked"

(* Not acknowledged in mqtt_publish_timeout_seconds, or the session ended. *)
CompletionTimesOut(c) ==
  /\ wpc[c] = "ack"
  /\ wire[held[c]] # "acked"
  /\ result' = [result EXCEPT ![c] = "Timeout"]
  /\ Count("timeout")
  /\ connected' = [connected EXCEPT ![c] = FALSE]
  /\ Goto(c, "finish")
  /\ UNCHANGED <<client, jobs, held, session, wire>>

(* The outcome is stored under done_mutex and the waiter notified. *)
FinishJob(c) ==
  /\ wpc[c] = "finish"
  /\ done' = [done EXCEPT ![held[c]] = TRUE]
  /\ outcome' = [outcome EXCEPT ![held[c]] = result[c]]
  /\ held' = [held EXCEPT ![c] = NoJob]
  /\ result' = [result EXCEPT ![c] = "Failed"]   \* run_job()'s frame is gone
  /\ Goto(c, "top")
  /\ UNCHANGED <<client, queue, qos, call, connected, total, session, wire>>

-----------------------------------------------------------------------------
(* Paho and the broker (external), and the callback they drive. *)

(* A session ends without the worker asking for it. *)
LinkBreaks(c) ==
  /\ link[c] = "up"
  /\ link' = [link EXCEPT ![c] = "down"]
  /\ lost' = [lost EXCEPT ![c] = TRUE]
  /\ subs' = IF c = Primary THEN {} ELSE subs
  /\ UNCHANGED <<client, jobs, workers, connected, total, todo, wire>>

(* on_connection_lost(), on a thread of Paho's. *)
OnConnectionLost(c) ==
  /\ lost[c]
  /\ lost' = [lost EXCEPT ![c] = FALSE]
  /\ connected' = [connected EXCEPT ![c] = FALSE]
  /\ UNCHANGED <<client, jobs, workers, total, link, subs, todo, wire>>

(* A message that left may reach the broker at any later time, or never. *)
BrokerReceives(j) ==
  /\ wire[j] = "sent"
  /\ wire' = [wire EXCEPT ![j] = "received"]
  /\ UNCHANGED <<client, jobs, workers, connected, total, session>>

(* The acknowledgement arrives while c's session lasts. *)
BrokerAcks(c) ==
  /\ wpc[c] = "ack"
  /\ link[c] = "up"
  /\ wire[held[c]] = "received"
  /\ wire' = [wire EXCEPT ![held[c]] = "acked"]
  /\ UNCHANGED <<client, jobs, workers, connected, total, session>>

-----------------------------------------------------------------------------
(* Nothing is left to happen: stop() or a failed start() has returned. *)
Terminated ==
  /\ phase \in {"stopped", "failed"}
  /\ \A j \in Jobs : call[j] # "waiting"
  /\ UNCHANGED vars

ClientStep == \/ StartConnection \/ StartFails \/ StartUnwound
              \/ Stop \/ JoinConnection \/ SubscriberLeaves \/ DrainQueue

CallerStep(j) == \/ PublishRefused(j)
                 \/ \E q \in {0, 1} : PublishQueued(j, q)
                 \/ PublishReturns(j)
                 \/ PublishTimesOut(j)

SubscribeStep == SubscribeEnds \/ \E f \in Filters : Subscribe(f)

WorkerStep(c) ==
  \/ CheckRunning(c) \/ CheckConnected(c)
  \/ ConnectFails(c) \/ ConnectSucceeds(c) \/ StoreConnected(c) \/ BackoffEnds(c)
  \/ WaitEndsStopped(c) \/ WaitEndsIdle(c) \/ TakeJob(c) \/ LeaveLoop(c)
  \/ PublishFails(c) \/ PublishHandedOff(c) \/ PublishInFlight(c)
  \/ CompletionSucceeds(c) \/ CompletionTimesOut(c) \/ FinishJob(c)

PahoStep(c) == LinkBreaks(c) \/ OnConnectionLost(c) \/ BrokerAcks(c)

Next ==
  \/ ClientStep
  \/ \E j \in Jobs : CallerStep(j) \/ BrokerReceives(j)
  \/ \E c \in Conns : WorkerStep(c) \/ PahoStep(c)
  \/ SubscribeStep
  \/ Terminated

Spec == Init /\ [][Next]_vars

(* The threads the operating system runs: a worker's Paho calls and waits    *)
(* are all bounded (connect_timeout, publish_timeout, the wait_for()s), so a *)
(* worker that can step does; so do stop() and Paho's callback thread.       *)
(* Nothing makes a connect succeed, a message arrive or an HTTP call come,   *)
(* and nothing here makes the subscribe worker leave.                        *)
Fairness ==
  /\ \A c \in Conns : WF_vars(WorkerStep(c)) /\ WF_vars(OnConnectionLost(c))
  /\ WF_vars(SubscribeStep)
  /\ WF_vars(JoinConnection \/ DrainQueue \/ StartUnwound)

FairSpec == Spec /\ Fairness

-----------------------------------------------------------------------------
(* Properties. *)

(* The queue to the workers never outgrows mqtt_queue_size, whatever callers *)
(* race for the last slot (publish()'s check and push under queue_mutex_).   *)
QueueBounded == Len(queue) <= QueueSize

(* The message left at QoS 0, or was acknowledged at QoS 1 or 2. *)
Acknowledged(j) ==
  wire[j] = "acked" \/ (qos[j] = 0 /\ wire[j] # "none")

(* publish() answers Ok only for a message that left at QoS 0, or that the   *)
(* broker acknowledged at QoS 1 or 2 (PublishOutcome::Ok, mqtt.h).           *)
OkMeansAcknowledged ==
  \A j \in Jobs : call[j] = "Ok" => Acknowledged(j)

(* publish() answers Failed or QueueFull only for a message that never left, *)
(* and that no worker or shutdown path sends later: the caller may retry     *)
(* without publishing twice.                                                 *)
RefusedMeansNeverPublished ==
  \A j \in Jobs : call[j] \in {"Failed", "QueueFull"} => wire[j] = "none"

(* A message is handed to Paho at most once: no worker repeats a job that    *)
(* timed out, and no two workers run the same job.                           *)
PublishedOnce ==
  [][\A j \in Jobs : wire[j] # "none" => wire'[j] # "none" /\
                       (wire'[j] = "sent" => wire[j] = "sent")]_vars

(* Once a worker has stored a job's outcome nothing overwrites it: stop()'s  *)
(* final sweep leaves the answered jobs alone.                               *)
OutcomeIsFinal ==
  [][\A j \in Jobs : done[j] => done'[j] /\ outcome'[j] = outcome[j]]_vars

(* When stop() has returned, every job publish() ever accepted has its       *)
(* outcome: none is queued and none was lost with the worker that held it,   *)
(* so no caller is left to run into its timeout.                             *)
NothingLeftBehind ==
  phase = "stopped" =>
    /\ queue = << >>
    /\ \A j \in Jobs : call[j] \notin {"none", "QueueFull"} => done[j]

(* Jobs whose outcome a worker has decided, stored yet or not. *)
Decided == {j \in Jobs : done[j] \/ \E c \in Conns : wpc[c] = "finish" /\ held[c] = j}

(* The counters account for every job exactly once: until the final sweep    *)
(* each job a worker decided is in ok, failed or timeout, and each refused   *)
(* one in queue_full.                                                        *)
CountersAccountForJobs ==
  /\ phase # "stopped" =>
       total["ok"] + total["failed"] + total["timeout"] = Cardinality(Decided)
  /\ total["queue_full"] = Cardinality({j \in Jobs : call[j] = "QueueFull"})

(* No broker keeps stop(), or a start() that failed, waiting for one of the  *)
(* pool's workers: none goes on reconnecting or waiting once running_ is     *)
(* false.  stop() joins every connection, and then returns if the subscribe  *)
(* worker, which it joins next, leaves.  (Whether that one does is another   *)
(* matter: mqtt.h's "Returns quickly" fails there, run incoming_stop.)       *)
WorkersStop ==
  /\ phase = "unwinding" ~> phase = "failed"
  /\ phase = "stopping" ~> joined = started
  /\ (phase = "stopping" /\ subscriber # "running") ~> phase = "stopped"

(* A connection marked down is tried again, whether jobs keep arriving or    *)
(* none does (worker_loop()'s one second poll).                              *)
LostIsRetried ==
  \A c \in Conns : (running /\ wpc[c] # "unborn" /\ ~connected[c])
                       ~> (wpc[c] = "connect" \/ connected[c] \/ ~running)

-----------------------------------------------------------------------------
(* Why the outcomes can be trusted: where every job is, and what follows. *)

(* A queued job is queued once, was sent by nobody and is in nobody's hands. *)
QueuedJobs ==
  /\ Len(queue) <= QueueSize
  /\ \A i, k \in 1 .. Len(queue) : queue[i] = queue[k] => i = k
  /\ \A i \in 1 .. Len(queue) :
       /\ call[queue[i]] \in {"waiting", "Timeout"}
       /\ ~done[queue[i]]
       /\ wire[queue[i]] = "none"
       /\ \A c \in Conns : held[c] # queue[i]

(* A job in run_job() is in one worker's hands, and has come this far. *)
HeldJobs ==
  \A c \in Conns :
    /\ held[c] = NoJob <=> wpc[c] \notin {"publish", "ack", "finish"}
    /\ held[c] # NoJob =>
         /\ call[held[c]] \in {"waiting", "Timeout"}
         /\ ~done[held[c]]
         /\ \A d \in Conns : held[d] = held[c] => d = c
         /\ wpc[c] = "publish" => wire[held[c]] = "none"
         /\ wpc[c] = "ack" => wire[held[c]] # "none"
         /\ wpc[c] = "finish" => /\ result[c] = "Ok" => Acknowledged(held[c])
                                 /\ result[c] = "Failed" => wire[held[c]] = "none"
                                 /\ result[c] # "QueueFull"

(* Every call is answered from its job, and every accepted job is somewhere. *)
AnsweredJobs ==
  \A j \in Jobs :
    /\ call[j] \in {"none", "QueueFull"} => ~done[j] /\ wire[j] = "none"
    /\ call[j] \in {"Ok", "Failed"} => done[j] /\ outcome[j] = call[j]
    /\ done[j] => /\ outcome[j] = "Ok" => Acknowledged(j)
                  /\ outcome[j] = "Failed" => wire[j] = "none"
                  /\ outcome[j] # "QueueFull"
    /\ call[j] \notin {"none", "QueueFull"} =>
         done[j] \/ InQueue(j) \/ \E c \in Conns : held[c] = j

(* stop() sweeps the queue only after every worker has left its loop. *)
JoinedWorkers ==
  /\ phase \in {"running", "stopping", "stopped"} => started = PoolSize
  /\ joined <= started
  /\ \A c \in Conns : c < joined => wpc[c] = "exited"
  /\ \A c \in Conns : c >= started => wpc[c] = "unborn"
  /\ phase = "stopped" => joined = PoolSize /\ queue = << >>

(* No job of publish() is ever lost, duplicated or answered with something   *)
(* other than what became of it, at any point of any worker's run_job() and  *)
(* of start() and stop(); inductive together with TypeOK.                    *)
PoolInv == QueuedJobs /\ HeldJobs /\ AnsweredJobs /\ JoinedWorkers
=============================================================================
