----------------------------- MODULE MetricSync -----------------------------
(***************************************************************************)
(* One metric in three places: the store (src/state.cpp), the broker's      *)
(* retained message, and the publishes and subscription messages between    *)
(* them.  PUT and DELETE /metric (src/server.cpp, handle_metric_write and   *)
(* handle_metric_delete) change the store and then publish; with            *)
(* subscribe_topics=# every publish comes back through the incoming queue,  *)
(* and main.cpp's handler sets the store again.                             *)
(*                                                                         *)
(* The publish path is MqttPool's, reduced to what it does to one topic: a  *)
(* FIFO queue and connections that each take a job, and then deliver it or  *)
(* not.  A caller may time out while its job goes on.                       *)
(***************************************************************************)
EXTENDS Integers, Sequences

CONSTANTS Threads,    \* HTTP workers
          Conns,      \* the connections of the MQTT pool
          Values,     \* the numbers a client may PUT
          Absent,     \* no value; as a payload, the empty one
          Precision,  \* what format_double() keeps of a number
          QueueSize,  \* mqtt_queue_size, of both queues
          MaxChanges  \* bound on the PUTs and DELETEs

ASSUME ValuesAssumption == Values \subseteq Nat /\ Absent \notin Nat
ASSUME PrecisionAssumption == Precision \in Nat \ {0}
ASSUME BoundsAssumption == QueueSize \in Nat \ {0} /\ MaxChanges \in Nat

VARIABLES
  store,     \* values_[name]
  tpc,       \* thread -> where its handler is
  change,    \* thread -> the change it makes: a number, or Absent for DELETE
  queue,     \* queue_: the payloads to publish
  hand,      \* connection -> the payloads in its run_job(), one or none
  retained,  \* external: the broker's retained message
  incoming,  \* payloads on their way back: the session, then incoming_queue_
  changes,   \* PUTs and DELETEs so far
  deletes,   \* history: some of them were DELETEs
  missed     \* history: a publish failed or a message was dropped

handlers == <<tpc, change>>
pool == <<queue, hand>>
history == <<changes, deletes>>
vars == <<store, handlers, pool, retained, incoming, history, missed>>

Payloads == Nat \cup {Absent}

TypeOK ==
  /\ store \in Payloads
  /\ tpc \in [Threads -> {"idle", "set", "publish", "wait"}]
  /\ change \in [Threads -> Values \cup {Absent}]
  /\ queue \in Seq(Payloads) /\ Len(queue) <= QueueSize
  /\ hand \in [Conns -> Seq(Payloads)]
  /\ retained \in Payloads
  /\ incoming \in Seq(Payloads) /\ Len(incoming) <= QueueSize
  /\ changes \in 0 .. MaxChanges
  /\ {deletes, missed} \subseteq BOOLEAN

Init ==
  /\ store = Absent /\ retained = Absent
  /\ tpc = [t \in Threads |-> "idle"]
  /\ change = [t \in Threads |-> Absent]
  /\ queue = << >> /\ hand = [c \in Conns |-> << >>]
  /\ incoming = << >>
  /\ changes = 0 /\ deletes = FALSE /\ missed = FALSE

Goto(t, pc) == tpc' = [tpc EXCEPT ![t] = pc]

(* format_double(): the payload has the digits it keeps. *)
Payload(v) == IF v = Absent THEN Absent ELSE v - (v % Precision)

-----------------------------------------------------------------------------
(* handle_metric() takes a valid PUT or a DELETE. *)
RequestArrives(t, v) ==
  /\ tpc[t] = "idle" /\ changes < MaxChanges
  /\ Goto(t, "set")
  /\ change' = [change EXCEPT ![t] = v]
  /\ changes' = changes + 1
  /\ UNCHANGED <<store, pool, retained, incoming, deletes, missed>>

(* Mutant: the value is published first and stored when that is over. *)
WriteAfterPublish(t) ==
  /\ change[t] # Absent
  /\ \/ tpc[t] = "set" /\ Goto(t, "publish") /\ UNCHANGED store
     \/ tpc[t] = "wait" /\ Goto(t, "idle") /\ store' = change[t]
  /\ UNCHANGED <<change, pool, retained, incoming, history, missed>>

(* handle_metric_write(): set() and save() (StateFile), then the publish. *)
Write(t) ==
  /\ tpc[t] = "set" /\ change[t] # Absent
  /\ store' = change[t]
  /\ Goto(t, "publish")
  /\ UNCHANGED <<change, pool, retained, incoming, history, missed>>

(* handle_metric_delete(): remove() and save(), then an empty publish. *)
Delete(t) ==
  /\ tpc[t] = "set" /\ change[t] = Absent
  /\ store # Absent
  /\ store' = Absent
  /\ deletes' = TRUE
  /\ Goto(t, "publish")
  /\ UNCHANGED <<change, pool, retained, incoming, changes, missed>>

(* There is nothing to delete: 404. *)
DeleteNothing(t) ==
  /\ tpc[t] = "set" /\ change[t] = Absent
  /\ store = Absent
  /\ Goto(t, "idle")
  /\ UNCHANGED <<store, change, pool, retained, incoming, history, missed>>

(* Mutant: a full queue is not looked at. *)
PublishAnyway(t) ==
  /\ tpc[t] = "publish"
  /\ queue' = Append(queue, Payload(change[t]))
  /\ Goto(t, "wait")
  /\ UNCHANGED <<store, change, hand, retained, incoming, history, missed>>

(* publish() puts the job into the queue, or refuses it. *)
Publish(t) ==
  /\ tpc[t] = "publish"
  /\ IF Len(queue) < QueueSize
     THEN queue' = Append(queue, Payload(change[t])) /\ Goto(t, "wait") /\ UNCHANGED missed
     ELSE Goto(t, "idle") /\ missed' = TRUE /\ UNCHANGED queue
  /\ UNCHANGED <<store, change, hand, retained, incoming, history>>

(* publish() returns, with the job's outcome or at its timeout, and the      *)
(* client gets its answer: 200 in either case.                               *)
Answer(t) ==
  /\ tpc[t] = "wait"
  /\ Goto(t, "idle")
  /\ UNCHANGED <<store, change, pool, retained, incoming, history, missed>>

-----------------------------------------------------------------------------
(* The connections' workers and the broker. *)

TakeJob(c) ==
  /\ hand[c] = << >> /\ queue # << >>
  /\ hand' = [hand EXCEPT ![c] = <<Head(queue)>>]
  /\ queue' = Tail(queue)
  /\ UNCHANGED <<store, handlers, retained, incoming, history, missed>>

(* The broker receives the message, retains it (an empty one clears what it  *)
(* holds) and sends it to the subscription; a full incoming queue drops it.  *)
Deliver(c) ==
  /\ hand[c] # << >>
  /\ hand' = [hand EXCEPT ![c] = << >>]
  /\ retained' = Head(hand[c])
  /\ IF Len(incoming) < QueueSize
     THEN incoming' = Append(incoming, Head(hand[c])) /\ UNCHANGED missed
     ELSE missed' = TRUE /\ UNCHANGED incoming
  /\ UNCHANGED <<store, handlers, queue, history>>

PublishFails(c) ==
  /\ hand[c] # << >>
  /\ hand' = [hand EXCEPT ![c] = << >>]
  /\ missed' = TRUE
  /\ UNCHANGED <<store, handlers, queue, retained, incoming, history>>

(* main.cpp's handler: a number is set and saved, an empty payload is no     *)
(* number and is ignored.                                                    *)
HandleMessage ==
  /\ incoming # << >>
  /\ incoming' = Tail(incoming)
  /\ store' = IF Head(incoming) = Absent THEN store ELSE Head(incoming)
  /\ UNCHANGED <<handlers, pool, retained, history, missed>>

(* The bound on the changes is reached and nothing is left to do. *)
Quiet == /\ \A t \in Threads : tpc[t] = "idle"
         /\ queue = << >> /\ \A c \in Conns : hand[c] = << >>
         /\ incoming = << >>

Bounded == Quiet /\ changes = MaxChanges /\ UNCHANGED vars

Request(t) == \E v \in Values \cup {Absent} : RequestArrives(t, v)
Handler(t) == Write(t) \/ Delete(t) \/ DeleteNothing(t) \/ Publish(t) \/ Answer(t)
Worker(c) == TakeJob(c) \/ Deliver(c) \/ PublishFails(c)

Next == \/ \E t \in Threads : Request(t) \/ Handler(t)
        \/ \E c \in Conns : Worker(c)
        \/ HandleMessage
        \/ Bounded

Spec == Init /\ [][Next]_vars

-----------------------------------------------------------------------------
(* Properties. *)

(* However the PUTs of several clients interleave, and in whatever order the *)
(* pool's connections publish them, the echoes bring the store to the        *)
(* broker's retained value in the end, provided every publish got through    *)
(* and nothing was deleted.                                                  *)
StoreFollowsBroker == Quiet /\ ~missed /\ ~deletes => store = retained

(* README, "MQTT subscriptions": the echo of a PUT "writes the exact same    *)
(* value the first one (from the HTTP request) just wrote -- there's no      *)
(* window for it to change in between, so it's guaranteed identical, never a *)
(* race."                                                                    *)
EchoChangesNothing == [][HandleMessage => store' = store]_vars
=============================================================================
