--------------------------- MODULE MqttPoolProofs ---------------------------
(***************************************************************************)
(* What holds of the publish pool for every pool size, queue size and set   *)
(* of publish() calls: type correctness, and the safety of the outcomes     *)
(* publish() returns.                                                       *)
(***************************************************************************)
EXTENDS MqttPool, FiniteSetTheorems, SequenceTheorems, TLAPS

Counters == {"ok", "failed", "timeout", "queue_full"}

(* Adding one to a metrics counter leaves the counters natural numbers. *)
LEMMA CountType ==
  ASSUME total \in [Counters -> Nat], NEW k \in Counters, Count(k)
  PROVE  total' \in [Counters -> Nat]
  BY DEF Count, Counters

(* Every Init and step keeps the variables in their types. *)
THEOREM TypeCorrect == Spec => []TypeOK
<1> USE PoolAssumption, QueueAssumption, JobsAssumption
<1>1. Init => TypeOK
  BY DEF Init, TypeOK, Conns, Phases, WorkerPcs, Outcomes
<1>2. TypeOK /\ [Next]_vars => TypeOK'
  <2> SUFFICES ASSUME TypeOK, [Next]_vars PROVE TypeOK'
    OBVIOUS
  <2>1. CASE UNCHANGED vars
    BY <2>1 DEF TypeOK, vars, client, jobs, workers, session
  <2>2. CASE ClientStep
    <3>1. CASE StartConnection
      BY <3>1 DEF StartConnection, StartSubscriber, TypeOK, Conns, Phases, WorkerPcs, Goto, jobs, session
    <3>2. CASE StartFails \/ StartUnwound \/ Stop
      BY <3>2 DEF StartFails, StartUnwound, Stop, TypeOK, Phases, jobs, workers, session
    <3>3. CASE JoinConnection
      BY <3>3 DEF JoinConnection, TypeOK, Conns, jobs, workers
    <3>4. CASE DrainQueue
      BY <3>4 DEF DrainQueue, TypeOK, Phases, Outcomes, workers, session
    <3>5. CASE SubscriberLeaves
      BY <3>5 DEF SubscriberLeaves, TypeOK, jobs, workers, session
    <3> QED BY <2>2, <3>1, <3>2, <3>3, <3>4, <3>5 DEF ClientStep
  <2>3. ASSUME NEW j \in Jobs, CallerStep(j) PROVE TypeOK'
    <3>1. CASE PublishRefused(j)
      <4>1. total' \in [Counters -> Nat]
        BY <3>1, CountType DEF PublishRefused, TypeOK, Counters
      <4> QED BY <3>1, <4>1 DEF PublishRefused, TypeOK, Counters, Outcomes, client,
                                workers, session
    <3>2. ASSUME NEW q \in {0, 1}, PublishQueued(j, q) PROVE TypeOK'
      BY <3>2 DEF PublishQueued, TypeOK, client, workers, session
    <3>3. CASE PublishReturns(j) \/ PublishTimesOut(j)
      BY <3>3 DEF PublishReturns, PublishTimesOut, TypeOK, Outcomes, client, workers,
                  session
    <3> QED BY <2>3, <3>1, <3>2, <3>3 DEF CallerStep
  <2>4. ASSUME NEW c \in Conns, WorkerStep(c) PROVE TypeOK'
    <3>1. CASE CheckRunning(c) \/ CheckConnected(c) \/ BackoffEnds(c)
               \/ WaitEndsStopped(c) \/ WaitEndsIdle(c)
      BY <3>1 DEF CheckRunning, CheckConnected, BackoffEnds, WaitEndsStopped,
                  WaitEndsIdle, Move, Goto, TypeOK, WorkerPcs, client, jobs, session
    <3>2. CASE ConnectFails(c) \/ ConnectSucceeds(c)
      <4>1. ASSUME NEW up \in {"up", "down"}, NEW p \in WorkerPcs, Connect(c, up, p)
            PROVE  TypeOK'
        BY <4>1 DEF Connect, Goto, TypeOK, WorkerPcs, client, jobs
      <4> QED BY <3>2, <4>1 DEF ConnectFails, ConnectSucceeds, WorkerPcs
    <3>10. CASE StoreConnected(c)
      BY <3>10 DEF StoreConnected, Goto, TypeOK, WorkerPcs, client, jobs
    <3>11. CASE LeaveLoop(c)
      BY <3>11 DEF LeaveLoop, Goto, TypeOK, WorkerPcs, client, jobs
    <3>3. CASE TakeJob(c)
      BY <3>3 DEF TakeJob, Goto, TypeOK, WorkerPcs, client, session
    <3>4. CASE PublishInFlight(c)
      BY <3>4 DEF PublishInFlight, Goto, TypeOK, WorkerPcs, client, jobs, session
    <3>5. CASE PublishFails(c)
      <4>1. total' \in [Counters -> Nat]
        BY <3>5, CountType DEF PublishFails, TypeOK, Counters
      <4> QED BY <3>5, <4>1 DEF PublishFails, Goto, TypeOK, Counters, WorkerPcs,
                                Outcomes, client, jobs, session
    <3>7. CASE PublishHandedOff(c)
      <4>1. total' \in [Counters -> Nat]
        BY <3>7, CountType DEF PublishHandedOff, TypeOK, Counters
      <4> QED BY <3>7, <4>1 DEF PublishHandedOff, Goto, TypeOK, Counters, WorkerPcs,
                                Outcomes, client, jobs, session
    <3>8. CASE CompletionSucceeds(c)
      <4>1. total' \in [Counters -> Nat]
        BY <3>8, CountType DEF CompletionSucceeds, TypeOK, Counters
      <4> QED BY <3>8, <4>1 DEF CompletionSucceeds, Goto, TypeOK, Counters, WorkerPcs,
                                Outcomes, client, jobs, session
    <3>9. CASE CompletionTimesOut(c)
      <4>1. total' \in [Counters -> Nat]
        BY <3>9, CountType DEF CompletionTimesOut, TypeOK, Counters
      <4> QED BY <3>9, <4>1 DEF CompletionTimesOut, Goto, TypeOK, Counters, WorkerPcs,
                                Outcomes, client, jobs, session
    <3>6. CASE FinishJob(c)
      BY <3>6 DEF FinishJob, Goto, TypeOK, WorkerPcs, Outcomes, client, session
    <3> QED BY <2>4, <3>1, <3>2, <3>3, <3>4, <3>5, <3>6, <3>7, <3>8, <3>9,
               <3>10, <3>11 DEF WorkerStep
  <2>5. ASSUME NEW c \in Conns, PahoStep(c) PROVE TypeOK'
    <3>1. CASE LinkBreaks(c)
      BY <3>1 DEF LinkBreaks, TypeOK, client, jobs, workers, session
    <3>2. CASE OnConnectionLost(c)
      BY <3>2 DEF OnConnectionLost, TypeOK, client, jobs, workers, session
    <3>3. CASE BrokerAcks(c)
      BY <3>3 DEF BrokerAcks, TypeOK, client, jobs, workers, session
    <3> QED BY <2>5, <3>1, <3>2, <3>3 DEF PahoStep
  <2>6. ASSUME NEW j \in Jobs, BrokerReceives(j) PROVE TypeOK'
    BY <2>6 DEF BrokerReceives, TypeOK, client, jobs, workers, session
  <2>7. CASE SubscribeStep
    BY <2>7 DEF SubscribeStep, SubscribeEnds, Subscribe, Move, Goto, TypeOK, Conns,
                WorkerPcs, Primary, client, jobs, workers, session
  <2> QED BY <2>1, <2>2, <2>3, <2>4, <2>5, <2>6, <2>7 DEF Next, Terminated
<1> QED BY <1>1, <1>2, PTL DEF Spec

-----------------------------------------------------------------------------
(* The places of worker_loop() where no job is in hand, before it ended. *)
Between == {"top", "check", "connect", "connected", "subscribe", "backoff",
            "wait", "leave", "exited"}

(* A worker that moves from one such place to another disturbs nothing. *)
LEMMA MoveKeepsInv ==
  ASSUME TypeOK, PoolInv, NEW c \in Conns, NEW p \in Between,
         wpc[c] \in Between \ {"exited"}, wpc' = [wpc EXCEPT ![c] = p],
         UNCHANGED <<client, jobs, held, result, wire>>
  PROVE  PoolInv'
<1>1. QueuedJobs'
  BY DEF PoolInv, QueuedJobs, client, jobs
<1>2. HeldJobs'
  BY DEF PoolInv, HeldJobs, Acknowledged, TypeOK, Between, client, jobs
<1>3. AnsweredJobs'
  BY DEF PoolInv, AnsweredJobs, Acknowledged, InQueue, client, jobs
<1>4. JoinedWorkers'
  BY DEF PoolInv, JoinedWorkers, TypeOK, Between, client, jobs
<1> QED BY <1>1, <1>2, <1>3, <1>4 DEF PoolInv

(* A step that leaves jobs, workers and messages alone disturbs nothing. *)
LEMMA OutsideKeepsInv ==
  ASSUME PoolInv, UNCHANGED <<client, jobs, workers, wire>>
  PROVE  PoolInv'
  BY DEF PoolInv, QueuedJobs, HeldJobs, AnsweredJobs, JoinedWorkers, Acknowledged,
         InQueue, client, jobs, workers

-----------------------------------------------------------------------------
(* Each step of publish(), run_job(), start() and stop() keeps PoolInv. *)

(* publish() accepting a job puts it in the queue and nowhere else. *)
LEMMA PublishQueuedKeepsInv ==
  ASSUME TypeOK, PoolInv, NEW j \in Jobs, NEW q \in {0, 1}, PublishQueued(j, q)
  PROVE  PoolInv'
<1> USE JobsAssumption DEF PublishQueued, TypeOK, PoolInv
<1>1. /\ Len(queue') = Len(queue) + 1
      /\ \A i \in 1 .. Len(queue) : queue'[i] = queue[i]
      /\ queue'[Len(queue) + 1] = j
  BY AppendProperties
<1>2. /\ \A i \in 1 .. Len(queue) : queue[i] # j
      /\ \A c \in Conns : held[c] # j
      /\ ~done[j] /\ wire[j] = "none"
  <2>1. \A i \in 1 .. Len(queue) : queue[i] # j
    BY DEF QueuedJobs
  <2>2. \A c \in Conns : held[c] # j
    BY DEF HeldJobs
  <2>3. ~done[j] /\ wire[j] = "none"
    BY DEF AnsweredJobs
  <2> QED BY <2>1, <2>2, <2>3
<1>3. QueuedJobs'
  BY <1>1, <1>2, QueueAssumption DEF QueuedJobs, QueueIsFull, workers
<1>4. HeldJobs'
  BY <1>2 DEF HeldJobs, Acknowledged, workers
<1>5. AnsweredJobs'
  <2> SUFFICES ASSUME NEW k \in Jobs
               PROVE  /\ call'[k] \in {"none", "QueueFull"} => ~done'[k] /\ wire'[k] = "none"
                      /\ call'[k] \in {"Ok", "Failed"} => done'[k] /\ outcome'[k] = call'[k]
                      /\ done'[k] => /\ outcome'[k] = "Ok" => Acknowledged(k)'
                                     /\ outcome'[k] = "Failed" => wire'[k] = "none"
                                     /\ outcome'[k] # "QueueFull"
                      /\ call'[k] \notin {"none", "QueueFull"} =>
                           done'[k] \/ InQueue(k)' \/ \E c \in Conns : held'[c] = k
    BY DEF AnsweredJobs
  <2>1. CASE k = j
    <3>1. InQueue(j)'
      BY <1>1 DEF InQueue
    <3> QED BY <2>1, <3>1, <1>2
  <2>2. CASE k # j
    <3>1. InQueue(k) => InQueue(k)'
      BY <1>1 DEF InQueue
    <3> QED BY <2>2, <3>1 DEF AnsweredJobs, Acknowledged, workers
  <2> QED BY <2>1, <2>2
<1>6. JoinedWorkers'
  BY DEF JoinedWorkers, client, workers
<1> QED BY <1>3, <1>4, <1>5, <1>6

(* publish() returning, by refusal, outcome or timeout, moves no job. *)
LEMMA PublishAnswersKeepInv ==
  ASSUME TypeOK, PoolInv, NEW j \in Jobs,
         PublishRefused(j) \/ PublishReturns(j) \/ PublishTimesOut(j)
  PROVE  PoolInv'
<1> USE DEF PublishRefused, PublishReturns, PublishTimesOut, TypeOK, PoolInv
<1>1. /\ call[j] \in {"none", "waiting"}
      /\ call' = [call EXCEPT ![j] = call'[j]]
      /\ UNCHANGED <<client, queue, qos, done, outcome, workers, wire>>
  OBVIOUS
<1>2. /\ call[j] = "none" => call'[j] = "QueueFull"
      /\ call[j] = "waiting" /\ done[j] => call'[j] = outcome[j]
      /\ call[j] = "waiting" /\ ~done[j] => call'[j] = "Timeout"
  OBVIOUS
<1>3. QueuedJobs'
  BY <1>1, <1>2 DEF QueuedJobs, workers
<1>4. HeldJobs'
  BY <1>1, <1>2 DEF HeldJobs, Acknowledged, workers
<1>5. AnsweredJobs'
  BY <1>1, <1>2 DEF AnsweredJobs, Acknowledged, InQueue, workers, Outcomes
<1>6. JoinedWorkers'
  BY <1>1 DEF JoinedWorkers, client, workers
<1> QED BY <1>3, <1>4, <1>5, <1>6

(* worker_loop() popping a job moves it from the queue to one worker. *)
LEMMA TakeJobKeepsInv ==
  ASSUME TypeOK, PoolInv, NEW c \in Conns, TakeJob(c)
  PROVE  PoolInv'
<1> USE JobsAssumption DEF TakeJob, Goto, TypeOK, PoolInv
<1>1. /\ Head(queue) \in Jobs /\ Head(queue) = queue[1] /\ Len(queue) >= 1
      /\ Len(queue') = Len(queue) - 1
      /\ \A i \in 1 .. Len(queue') : queue'[i] = queue[i + 1]
  BY HeadTailProperties
<1> DEFINE h == Head(queue)
<1>2. /\ call[h] \in {"waiting", "Timeout"} /\ ~done[h] /\ wire[h] = "none"
      /\ \A d \in Conns : held[d] # h
      /\ \A i \in 1 .. Len(queue') : queue'[i] # h
  BY <1>1 DEF QueuedJobs
<1>3. held'[c] = h /\ wpc'[c] = "publish" /\ h # NoJob
  BY <1>1
<1>4. \A d \in Conns : d # c => held'[d] = held[d] /\ wpc'[d] = wpc[d]
  OBVIOUS
<1> HIDE DEF h
<1>5. QueuedJobs'
  <2>1. \A i \in 1 .. Len(queue') : i + 1 \in 1 .. Len(queue)
    BY <1>1
  <2>2. \A i, k \in 1 .. Len(queue') : queue'[i] = queue'[k] => i = k
    BY <1>1, <2>1 DEF QueuedJobs
  <2>3. \A i \in 1 .. Len(queue') : \A d \in Conns : held'[d] # queue'[i]
    BY <1>1, <1>2, <1>3, <1>4, <2>1 DEF QueuedJobs
  <2>4. \A i \in 1 .. Len(queue') : /\ call'[queue'[i]] \in {"waiting", "Timeout"}
                                    /\ ~done'[queue'[i]] /\ wire'[queue'[i]] = "none"
    BY <1>1, <2>1 DEF QueuedJobs
  <2> QED BY <1>1, <2>2, <2>3, <2>4, QueueAssumption DEF QueuedJobs
<1>6. HeldJobs'
  BY <1>2, <1>3, <1>4 DEF HeldJobs, Acknowledged
<1>7. AnsweredJobs'
  <2>1. \A k \in Jobs : InQueue(k) => InQueue(k)' \/ k = h
    <3> SUFFICES ASSUME NEW k \in Jobs, NEW i \in 1 .. Len(queue), queue[i] = k, k # h
                 PROVE  InQueue(k)'
      BY DEF InQueue
    <3>1. i # 1 /\ i - 1 \in 1 .. Len(queue') /\ queue'[i - 1] = k
      BY <1>1 DEF h
    <3> QED BY <3>1 DEF InQueue
  <2>2. \A k \in Jobs : (\E d \in Conns : held[d] = k) => \E d \in Conns : held'[d] = k
    <3> SUFFICES ASSUME NEW d \in Conns, held[d] \in Jobs PROVE held'[d] = held[d]
      OBVIOUS
    <3>1. held[c] = NoJob
      BY DEF HeldJobs
    <3> QED BY <3>1, <1>4
  <2> QED BY <2>1, <2>2, <1>3 DEF AnsweredJobs, Acknowledged
<1>8. JoinedWorkers'
  BY <1>1 DEF JoinedWorkers, client
<1> QED BY <1>5, <1>6, <1>7, <1>8

(* run_job(), up to its outcome, sends only the job it holds. *)
LEMMA RunJobKeepsInv ==
  ASSUME TypeOK, PoolInv, NEW c \in Conns,
         \/ PublishFails(c) \/ PublishHandedOff(c) \/ PublishInFlight(c)
         \/ CompletionSucceeds(c) \/ CompletionTimesOut(c)
  PROVE  PoolInv'
<1> USE JobsAssumption
        DEF PublishFails, PublishHandedOff, PublishInFlight, CompletionSucceeds,
            CompletionTimesOut, Goto, TypeOK, PoolInv
<1> DEFINE h == held[c]
<1>1. /\ h \in Jobs
      /\ ~done[h] /\ call[h] \in {"waiting", "Timeout"}
      /\ \A d \in Conns : held[d] = h => d = c
      /\ wpc[c] = "publish" => wire[h] = "none"
      /\ wpc[c] = "ack" => wire[h] # "none"
  BY DEF HeldJobs
<1>2. \A i \in 1 .. Len(queue) : queue[i] # h
  BY DEF QueuedJobs
<1>3. /\ UNCHANGED <<client, jobs, held>>
      /\ \A d \in Conns : d # c => wpc'[d] = wpc[d] /\ result'[d] = result[d]
      /\ \A k \in Jobs : k # h => wire'[k] = wire[k]
  BY <1>1
<1>4. /\ wpc[c] \in {"publish", "ack"}
      /\ wpc'[c] \in {"ack", "finish"}
      /\ wpc'[c] = "ack" => wire'[h] # "none"
      /\ wpc'[c] = "finish" => /\ result'[c] = "Ok" => Acknowledged(h)'
                               /\ result'[c] = "Failed" => wire'[h] = "none"
                               /\ result'[c] # "QueueFull"
  <2>1. CASE PublishFails(c)
    BY <1>1, <2>1 DEF jobs
  <2>2. CASE PublishHandedOff(c)
    BY <1>1, <2>2 DEF Acknowledged, jobs
  <2>3. CASE PublishInFlight(c)
    BY <1>1, <2>3
  <2>4. CASE CompletionSucceeds(c)
    BY <1>1, <2>4 DEF Acknowledged
  <2>5. CASE CompletionTimesOut(c)
    BY <1>1, <2>5
  <2> QED BY <2>1, <2>2, <2>3, <2>4, <2>5
<1> HIDE DEF PublishFails, PublishHandedOff, PublishInFlight, CompletionSucceeds,
             CompletionTimesOut, Goto
<1>5. QueuedJobs'
  <2>1. \A i \in 1 .. Len(queue) : queue[i] \in Jobs
    OBVIOUS
  <2>2. \A i \in 1 .. Len(queue) : wire'[queue[i]] = wire[queue[i]]
    BY <1>2, <1>3, <2>1
  <2>3. queue' = queue /\ call' = call /\ done' = done /\ held' = held
    BY <1>3 DEF jobs
  <2>4. \A i \in 1 .. Len(queue) : wire[queue[i]] = "none"
    BY DEF QueuedJobs
  <2> HIDE DEF TypeOK, h
  <2> QED BY <2>2, <2>3, <2>4 DEF QueuedJobs
<1>6. HeldJobs'
  <2> SUFFICES ASSUME NEW d \in Conns
               PROVE  /\ held'[d] = NoJob <=> wpc'[d] \notin {"publish", "ack", "finish"}
                      /\ held'[d] # NoJob =>
                           /\ call'[held'[d]] \in {"waiting", "Timeout"}
                           /\ ~done'[held'[d]]
                           /\ \A e \in Conns : held'[e] = held'[d] => e = d
                           /\ wpc'[d] = "publish" => wire'[held'[d]] = "none"
                           /\ wpc'[d] = "ack" => wire'[held'[d]] # "none"
                           /\ wpc'[d] = "finish" =>
                                /\ result'[d] = "Ok" => Acknowledged(held[d])'
                                /\ result'[d] = "Failed" => wire'[held'[d]] = "none"
                                /\ result'[d] # "QueueFull"
    BY <1>3 DEF HeldJobs
  <2>1. CASE d = c
    BY <1>1, <1>3, <1>4, <2>1 DEF HeldJobs, jobs
  <2>2. CASE d # c
    BY <1>1, <1>3, <2>2 DEF HeldJobs, Acknowledged, jobs
  <2> QED BY <2>1, <2>2
<1>7. AnsweredJobs'
  BY <1>1, <1>3 DEF AnsweredJobs, Acknowledged, InQueue, jobs
<1>8. JoinedWorkers'
  BY <1>3, <1>4 DEF JoinedWorkers, client, jobs
<1> QED BY <1>5, <1>6, <1>7, <1>8

(* run_job() storing an outcome answers the job it held with its own result. *)
LEMMA FinishJobKeepsInv ==
  ASSUME TypeOK, PoolInv, NEW c \in Conns, FinishJob(c)
  PROVE  PoolInv'
<1> USE JobsAssumption DEF FinishJob, Goto, TypeOK, PoolInv
<1> DEFINE h == held[c]
<1>1. /\ h \in Jobs
      /\ ~done[h] /\ call[h] \in {"waiting", "Timeout"}
      /\ \A d \in Conns : held[d] = h => d = c
      /\ result[c] = "Ok" => Acknowledged(h)
      /\ result[c] = "Failed" => wire[h] = "none"
      /\ result[c] # "QueueFull"
  BY DEF HeldJobs
<1>2. \A i \in 1 .. Len(queue) : queue[i] # h
  BY DEF QueuedJobs
<1>3. /\ done'[h] /\ outcome'[h] = result[c]
      /\ \A k \in Jobs : k # h => done'[k] = done[k] /\ outcome'[k] = outcome[k]
      /\ held'[c] = NoJob /\ wpc'[c] = "top" /\ wpc[c] = "finish"
      /\ \A d \in Conns : d # c => /\ wpc'[d] = wpc[d] /\ held'[d] = held[d]
                                    /\ result'[d] = result[d]
  BY <1>1
<1>4. QueuedJobs'
  BY <1>1, <1>2, <1>3 DEF QueuedJobs
<1>5. HeldJobs'
  BY <1>1, <1>3 DEF HeldJobs, Acknowledged
<1>6. AnsweredJobs'
  BY <1>1, <1>3 DEF AnsweredJobs, Acknowledged, InQueue
<1>7. JoinedWorkers'
  BY <1>3 DEF JoinedWorkers, client
<1> QED BY <1>4, <1>5, <1>6, <1>7

(* The broker receiving or acknowledging a message only moves it forward. *)
LEMMA BrokerKeepsInv ==
  ASSUME TypeOK, PoolInv, NEW k \in Jobs,
         wire[k] # "none", wire' = [wire EXCEPT ![k] = wire'[k]],
         wire'[k] # "none", wire[k] = "acked" => wire'[k] = "acked",
         UNCHANGED <<client, jobs, workers>>
  PROVE  PoolInv'
<1> USE DEF TypeOK, PoolInv
<1>1. QueuedJobs'
  BY DEF QueuedJobs, jobs, workers
<1>2. HeldJobs'
  BY DEF HeldJobs, Acknowledged, jobs, workers
<1>3. AnsweredJobs'
  BY DEF AnsweredJobs, Acknowledged, InQueue, jobs, workers
<1>4. JoinedWorkers'
  BY DEF JoinedWorkers, client, jobs, workers
<1> QED BY <1>1, <1>2, <1>3, <1>4

(* start() and stop(), the final sweep of the queue included, lose no job. *)
LEMMA ClientKeepsInv ==
  ASSUME TypeOK, PoolInv, ClientStep
  PROVE  PoolInv'
<1> USE PoolAssumption, JobsAssumption DEF TypeOK, PoolInv
<1>1. CASE StartConnection
  <2>1. started \in Conns /\ wpc[started] = "unborn"
    BY <1>1 DEF StartConnection, JoinedWorkers, Conns
  <2>2. QueuedJobs' /\ AnsweredJobs'
    BY <1>1 DEF StartConnection, QueuedJobs, AnsweredJobs, Acknowledged, InQueue, jobs
  <2>3. HeldJobs'
    BY <1>1, <2>1 DEF StartConnection, Goto, HeldJobs, Acknowledged, jobs
  <2>4. JoinedWorkers'
    BY <1>1, <2>1 DEF StartConnection, Goto, JoinedWorkers, Conns, jobs
  <2> QED BY <2>2, <2>3, <2>4
<1>2. CASE StartFails \/ StartUnwound \/ Stop
  <2> UNCHANGED <<jobs, workers, wire>>
    BY <1>2 DEF StartFails, StartUnwound, Stop
  <2>1. QueuedJobs'
    BY DEF QueuedJobs, jobs, workers
  <2>2. HeldJobs'
    BY DEF HeldJobs, Acknowledged, jobs, workers
  <2>3. AnsweredJobs'
    BY DEF AnsweredJobs, Acknowledged, InQueue, jobs, workers
  <2>4. JoinedWorkers'
    BY <1>2 DEF StartFails, StartUnwound, Stop, JoinedWorkers, jobs, workers
  <2> QED BY <2>1, <2>2, <2>3, <2>4
<1>3. CASE JoinConnection
  <2> UNCHANGED <<jobs, workers, wire>>
    BY <1>3 DEF JoinConnection
  <2>1. QueuedJobs'
    BY DEF QueuedJobs, jobs, workers
  <2>2. HeldJobs'
    BY DEF HeldJobs, Acknowledged, jobs, workers
  <2>3. AnsweredJobs'
    BY DEF AnsweredJobs, Acknowledged, InQueue, jobs, workers
  <2>4. JoinedWorkers'
    BY <1>3 DEF JoinConnection, JoinedWorkers, Conns, jobs, workers
  <2> QED BY <2>1, <2>2, <2>3, <2>4
<1>4. CASE DrainQueue
  <2>1. \A c \in Conns : held[c] = NoJob
    <3>1. \A c \in Conns : wpc[c] = "exited"
      BY <1>4 DEF DrainQueue, JoinedWorkers, Conns
    <3> QED BY <3>1 DEF HeldJobs
  <2>2. \A j \in Jobs : InQueue(j) => ~done[j] /\ wire[j] = "none"
                                     /\ call[j] \in {"waiting", "Timeout"}
    BY DEF InQueue, QueuedJobs
  <2>3. QueuedJobs'
    BY <1>4, QueueAssumption DEF DrainQueue, QueuedJobs
  <2>4. HeldJobs'
    BY <1>4, <2>1 DEF DrainQueue, HeldJobs, workers
  <2>5. AnsweredJobs'
    <3> SUFFICES ASSUME NEW j \in Jobs
                 PROVE  (/\ call[j] \in {"none", "QueueFull"} => ~done[j] /\ wire[j] = "none"
                         /\ call[j] \in {"Ok", "Failed"} => done[j] /\ outcome[j] = call[j]
                         /\ done[j] => /\ outcome[j] = "Ok" => Acknowledged(j)
                                       /\ outcome[j] = "Failed" => wire[j] = "none"
                                       /\ outcome[j] # "QueueFull"
                         /\ call[j] \notin {"none", "QueueFull"} =>
                              done[j] \/ InQueue(j) \/ \E c \in Conns : held[c] = j)'
      BY DEF AnsweredJobs
    <3>1. UNCHANGED <<call, wire, qos>>
      BY <1>4 DEF DrainQueue
    <3>2. CASE InQueue(j)
      <4>1. done'[j] = TRUE /\ outcome'[j] = "Failed"
        BY <1>4, <3>2 DEF DrainQueue
      <4> QED BY <2>2, <3>1, <3>2, <4>1
    <3>3. CASE ~InQueue(j)
      <4>1. done'[j] = done[j] /\ outcome'[j] = outcome[j]
        BY <1>4, <3>3 DEF DrainQueue
      <4>2. j # NoJob
        BY JobsAssumption
      <4>3. call[j] \notin {"none", "QueueFull"} => done[j]
        BY <2>1, <3>3, <4>2 DEF AnsweredJobs
      <4> QED BY <3>1, <4>1, <4>3 DEF AnsweredJobs, Acknowledged
    <3> QED BY <3>2, <3>3
  <2>6. JoinedWorkers'
    BY <1>4 DEF DrainQueue, JoinedWorkers, workers
  <2> QED BY <2>3, <2>4, <2>5, <2>6
<1>5. CASE SubscriberLeaves
  BY <1>5 DEF SubscriberLeaves, PoolInv, QueuedJobs, HeldJobs, AnsweredJobs,
              JoinedWorkers, Acknowledged, InQueue, jobs, workers
<1> QED BY <1>1, <1>2, <1>3, <1>4, <1>5 DEF ClientStep

-----------------------------------------------------------------------------
(* PoolInv is an invariant: no publish() job is lost, duplicated or answered *)
(* with an outcome that is not its own, whatever the pool and queue sizes.   *)
THEOREM PoolCorrect == Spec => []PoolInv
<1>1. Init => PoolInv
  BY PoolAssumption, QueueAssumption, JobsAssumption
     DEF Init, PoolInv, QueuedJobs, HeldJobs, AnsweredJobs, JoinedWorkers, Conns
<1>2. TypeOK /\ PoolInv /\ [Next]_vars => PoolInv'
  <2> SUFFICES ASSUME TypeOK, PoolInv, [Next]_vars PROVE PoolInv'
    OBVIOUS
  <2>1. CASE UNCHANGED vars
    BY <2>1, OutsideKeepsInv DEF vars
  <2>2. CASE ClientStep
    BY <2>2, ClientKeepsInv
  <2>3. ASSUME NEW j \in Jobs, CallerStep(j) PROVE PoolInv'
    BY <2>3, PublishQueuedKeepsInv, PublishAnswersKeepInv DEF CallerStep
  <2>4. ASSUME NEW c \in Conns, WorkerStep(c) PROVE PoolInv'
    <3>1. CASE CheckRunning(c) \/ CheckConnected(c) \/ BackoffEnds(c)
               \/ WaitEndsStopped(c) \/ WaitEndsIdle(c)
      BY <3>1, MoveKeepsInv DEF CheckRunning, CheckConnected, BackoffEnds,
              WaitEndsStopped, WaitEndsIdle, Move, Goto, Between
    <3>2. CASE ConnectFails(c) \/ ConnectSucceeds(c) \/ StoreConnected(c) \/ LeaveLoop(c)
      BY <3>2, MoveKeepsInv DEF ConnectFails, ConnectSucceeds, Connect,
              StoreConnected, LeaveLoop, Goto, Between
    <3>3. CASE TakeJob(c)
      BY <3>3, TakeJobKeepsInv
    <3>4. CASE \/ PublishFails(c) \/ PublishHandedOff(c) \/ PublishInFlight(c)
               \/ CompletionSucceeds(c) \/ CompletionTimesOut(c)
      BY <3>4, RunJobKeepsInv
    <3>5. CASE FinishJob(c)
      BY <3>5, FinishJobKeepsInv
    <3> QED BY <2>4, <3>1, <3>2, <3>3, <3>4, <3>5 DEF WorkerStep
  <2>5. ASSUME NEW c \in Conns, PahoStep(c) PROVE PoolInv'
    <3>1. CASE LinkBreaks(c) \/ OnConnectionLost(c)
      BY <3>1, OutsideKeepsInv DEF LinkBreaks, OnConnectionLost
    <3>2. CASE BrokerAcks(c)
      <4>1. held[c] \in Jobs
        BY <2>5, <3>2 DEF BrokerAcks, PoolInv, HeldJobs, TypeOK
      <4> QED BY <2>5, <3>2, <4>1, BrokerKeepsInv DEF BrokerAcks, TypeOK
    <3> QED BY <2>5, <3>1, <3>2 DEF PahoStep
  <2>6. ASSUME NEW j \in Jobs, BrokerReceives(j) PROVE PoolInv'
    BY <2>6, BrokerKeepsInv DEF BrokerReceives, TypeOK
  <2>7. CASE SubscribeStep
    <3>1. CASE SubscribeEnds
      <4>1. Primary \in Conns
        BY PoolAssumption DEF Primary, Conns
      <4> QED BY <3>1, <4>1, MoveKeepsInv DEF SubscribeEnds, Move, Goto, Between
    <3>2. ASSUME NEW f \in Filters, Subscribe(f) PROVE PoolInv'
      BY <3>2, OutsideKeepsInv DEF Subscribe
    <3> QED BY <2>7, <3>1, <3>2 DEF SubscribeStep
  <2> QED BY <2>1, <2>2, <2>3, <2>4, <2>5, <2>6, <2>7 DEF Next, Terminated
<1> QED BY <1>1, <1>2, TypeCorrect, PTL DEF Spec

(* The queue never outgrows mqtt_queue_size. *)
THEOREM QueueStaysBounded == Spec => []QueueBounded
<1>1. PoolInv => QueueBounded
  BY DEF PoolInv, QueuedJobs, QueueBounded
<1> QED BY <1>1, PoolCorrect, PTL

(* An Ok from publish() was earned: handed off at QoS 0, acknowledged above. *)
THEOREM OkIsEarned == Spec => []OkMeansAcknowledged
<1>1. PoolInv => OkMeansAcknowledged
  BY DEF PoolInv, AnsweredJobs, OkMeansAcknowledged
<1> QED BY <1>1, PoolCorrect, PTL

(* A Failed or QueueFull from publish() is definite: the message never left. *)
THEOREM RefusalIsDefinite == Spec => []RefusedMeansNeverPublished
<1>1. PoolInv => RefusedMeansNeverPublished
  BY DEF PoolInv, AnsweredJobs, RefusedMeansNeverPublished
<1> QED BY <1>1, PoolCorrect, PTL

(* stop() leaves no accepted job queued, in hand or unanswered. *)
THEOREM StopLeavesNothing == Spec => []NothingLeftBehind
<1>1. TypeOK /\ PoolInv => NothingLeftBehind
  <2> SUFFICES ASSUME TypeOK, PoolInv, phase = "stopped",
                      NEW j \in Jobs, call[j] \notin {"none", "QueueFull"}
               PROVE  done[j]
    BY DEF NothingLeftBehind, PoolInv, JoinedWorkers
  <2>1. \A c \in Conns : held[c] = NoJob
    <3>1. \A c \in Conns : wpc[c] = "exited"
      BY PoolAssumption DEF PoolInv, JoinedWorkers, Conns
    <3> QED BY <3>1 DEF PoolInv, HeldJobs
  <2>2. ~InQueue(j)
    BY DEF InQueue, PoolInv, JoinedWorkers
  <2> QED BY <2>1, <2>2, JobsAssumption DEF PoolInv, AnsweredJobs
<1> QED BY <1>1, PoolCorrect, TypeCorrect, PTL

(* No message is handed to Paho twice: run_job() sends only a job whose      *)
(* message has not left, and the broker only moves a message forward.        *)
THEOREM PublishedAtMostOnce == Spec => PublishedOnce
<1> DEFINE Once == \A j \in Jobs : wire[j] # "none" =>
                     wire'[j] # "none" /\ (wire'[j] = "sent" => wire[j] = "sent")
<1>1. TypeOK /\ PoolInv /\ [Next]_vars => [Once]_vars
  <2> SUFFICES ASSUME TypeOK, PoolInv, Next PROVE Once
    BY DEF Once
  <2>1. CASE UNCHANGED wire
    BY <2>1
  <2>2. ASSUME NEW c \in Conns, PublishHandedOff(c) \/ PublishInFlight(c) PROVE Once
    <3>1. wire[held[c]] = "none" /\ wire' = [wire EXCEPT ![held[c]] = "sent"]
      BY <2>2, JobsAssumption DEF PublishHandedOff, PublishInFlight, PoolInv, HeldJobs
    <3> QED BY <3>1 DEF TypeOK
  <2>3. ASSUME NEW c \in Conns, BrokerAcks(c) PROVE Once
    BY <2>3 DEF BrokerAcks, TypeOK
  <2>4. ASSUME NEW j \in Jobs, BrokerReceives(j) PROVE Once
    BY <2>4 DEF BrokerReceives, TypeOK
  <2>5. ClientStep \/ SubscribeStep \/ Terminated => UNCHANGED wire
    BY DEF ClientStep, StartConnection, StartFails, StartUnwound, Stop, JoinConnection,
           SubscriberLeaves, DrainQueue, SubscribeStep, SubscribeEnds, Subscribe, Move, Terminated, vars
  <2>6. ASSUME NEW j \in Jobs, CallerStep(j) PROVE UNCHANGED wire
    BY <2>6 DEF CallerStep, PublishRefused, PublishQueued, PublishReturns, PublishTimesOut
  <2>7. ASSUME NEW c \in Conns, WorkerStep(c) \/ PahoStep(c)
        PROVE  \/ UNCHANGED wire \/ BrokerAcks(c)
               \/ PublishHandedOff(c) \/ PublishInFlight(c)
    BY <2>7 DEF WorkerStep, CheckRunning, CheckConnected, ConnectFails, ConnectSucceeds,
           Connect, StoreConnected, BackoffEnds, WaitEndsStopped, WaitEndsIdle, TakeJob,
           LeaveLoop, PublishFails, CompletionSucceeds, CompletionTimesOut, FinishJob,
           Move, PahoStep, LinkBreaks, OnConnectionLost
  <2> HIDE DEF Once
  <2> QED BY <2>1, <2>2, <2>3, <2>4, <2>5, <2>6, <2>7 DEF Next
<1> QED BY <1>1, TypeCorrect, PoolCorrect, PTL DEF Spec, PublishedOnce

(* A stored outcome is never overwritten: run_job() stores the outcome of a  *)
(* job that has none, and stop() sweeps only jobs no worker took.            *)
THEOREM OutcomesAreFinal == Spec => OutcomeIsFinal
<1> DEFINE Final == \A j \in Jobs : done[j] => done'[j] /\ outcome'[j] = outcome[j]
<1>1. TypeOK /\ PoolInv /\ [Next]_vars => [Final]_vars
  <2> SUFFICES ASSUME TypeOK, PoolInv, Next PROVE Final
    BY DEF Final
  <2>1. CASE UNCHANGED <<done, outcome>>
    BY <2>1
  <2>2. ASSUME NEW c \in Conns, FinishJob(c) PROVE Final
    <3>1. ~done[held[c]]
      BY <2>2 DEF FinishJob, PoolInv, HeldJobs
    <3> QED BY <2>2, <3>1 DEF FinishJob, TypeOK
  <2>3. CASE DrainQueue
    <3>1. \A j \in Jobs : InQueue(j) => ~done[j]
      BY DEF InQueue, PoolInv, QueuedJobs
    <3> QED BY <2>3, <3>1 DEF DrainQueue, TypeOK
  <2>4. \/ ~(ClientStep \/ SubscribeStep \/ Terminated)
        \/ DrainQueue \/ UNCHANGED <<done, outcome>>
    BY DEF ClientStep, StartConnection, StartFails, StartUnwound, Stop, JoinConnection,
           SubscriberLeaves, SubscribeStep, SubscribeEnds, Subscribe, Move, Terminated, vars, jobs
  <2>5. ASSUME NEW j \in Jobs, CallerStep(j) \/ BrokerReceives(j)
        PROVE  UNCHANGED <<done, outcome>>
    BY <2>5 DEF CallerStep, PublishRefused, PublishQueued, PublishReturns,
                PublishTimesOut, BrokerReceives, jobs
  <2>6. ASSUME NEW c \in Conns, WorkerStep(c) \/ PahoStep(c)
        PROVE  FinishJob(c) \/ UNCHANGED <<done, outcome>>
    BY <2>6 DEF WorkerStep, CheckRunning, CheckConnected, ConnectFails, ConnectSucceeds,
           Connect, StoreConnected, BackoffEnds, WaitEndsStopped, WaitEndsIdle, TakeJob,
           LeaveLoop, PublishFails, PublishHandedOff, PublishInFlight, CompletionSucceeds,
           CompletionTimesOut, Move, PahoStep, LinkBreaks, OnConnectionLost, BrokerAcks,
           jobs
  <2> HIDE DEF Final
  <2> QED BY <2>1, <2>2, <2>3, <2>4, <2>5, <2>6 DEF Next
<1> QED BY <1>1, TypeCorrect, PoolCorrect, PTL DEF Spec, OutcomeIsFinal

-----------------------------------------------------------------------------
(* The counters: one set of jobs for the workers' three, one for refusals. *)

Refused == {j \in Jobs : call[j] = "QueueFull"}

(* Both sets of jobs are finite and have a cardinality. *)
LEMMA JobSetsFinite ==
  /\ IsFiniteSet(Decided) /\ Cardinality(Decided) \in Nat
  /\ IsFiniteSet(Refused) /\ Cardinality(Refused) \in Nat
<1>1. Decided \subseteq Jobs /\ Refused \subseteq Jobs
  BY DEF Decided, Refused
<1> QED  BY <1>1, JobsAssumption, FS_Subset, FS_CardinalityType

(* A step that decides and refuses no job, and counts none. *)
LEMMA NothingCounted ==
  ASSUME CountersAccountForJobs, UNCHANGED total, phase = "stopped" => phase' = "stopped",
         phase' = "stopped" \/ Decided' = Decided, Refused' = Refused
  PROVE  CountersAccountForJobs'
BY DEF CountersAccountForJobs, Refused

(* Nothing is decided by what leaves done and the workers at "finish" alone. *)
LEMMA SameDecided ==
  ASSUME UNCHANGED done,
         \A c \in Conns : \A j \in Jobs :
           (wpc'[c] = "finish" /\ held'[c] = j) <=> (wpc[c] = "finish" /\ held[c] = j)
  PROVE  Decided' = Decided
BY DEF Decided

(* A worker that moves on without deciding. *)
LEMMA WorkerCountsNothing ==
  ASSUME TypeOK, CountersAccountForJobs, NEW c \in Conns,
         UNCHANGED <<phase, done, call, total>>,
         wpc[c] # "finish", wpc' = [wpc EXCEPT ![c] = wpc'[c]], wpc'[c] # "finish",
         \A d \in Conns \ {c} : held'[d] = held[d]
  PROVE  CountersAccountForJobs'
<1>1. Decided' = Decided
  <2>1. \A d \in Conns \ {c} : wpc'[d] = wpc[d]
    BY DEF TypeOK
  <2> QED  BY <2>1, SameDecided
<1>2. Refused' = Refused
  BY DEF Refused
<1> QED  BY <1>1, <1>2, NothingCounted

(* A worker that reaches an outcome adds its job, and counts it once. *)
LEMMA DecisionCounts ==
  ASSUME TypeOK, PoolInv, CountersAccountForJobs, NEW c \in Conns,
         NEW k \in {"ok", "failed", "timeout"}, Count(k),
         wpc[c] \in {"publish", "ack"}, wpc' = [wpc EXCEPT ![c] = "finish"],
         UNCHANGED <<phase, done, call, held>>
  PROVE  CountersAccountForJobs'
<1> DEFINE h == held[c]
<1>1. h \in Jobs /\ ~done[h] /\ \A d \in Conns : held[d] = h => d = c
  BY JobsAssumption DEF TypeOK, PoolInv, HeldJobs
<1>2. h \notin Decided
  BY <1>1 DEF Decided
<1>3. /\ wpc'[c] = "finish" /\ wpc[c] # "finish"
      /\ \A d \in Conns \ {c} : wpc'[d] = wpc[d]
  BY DEF TypeOK
<1>4. Decided' = Decided \cup {h}
  BY <1>1, <1>3 DEF Decided
<1>5. Cardinality(Decided') = Cardinality(Decided) + 1
  BY <1>2, <1>4, JobSetsFinite, FS_AddElement
<1>6. total'["ok"] + total'["failed"] + total'["timeout"]
        = total["ok"] + total["failed"] + total["timeout"] + 1
  BY DEF Count, TypeOK
<1>7. total'["queue_full"] = total["queue_full"] /\ Refused' = Refused
  BY DEF Count, TypeOK, Refused
<1> QED  BY <1>5, <1>6, <1>7 DEF CountersAccountForJobs, Refused

(* Storing the outcome moves the job from the worker to the decided ones. *)
LEMMA FinishCountsNothing ==
  ASSUME TypeOK, PoolInv, CountersAccountForJobs, NEW c \in Conns, FinishJob(c)
  PROVE  CountersAccountForJobs'
<1> DEFINE h == held[c]
<1>1. h \in Jobs /\ \A d \in Conns : held[d] = h => d = c
  BY JobsAssumption DEF FinishJob, TypeOK, PoolInv, HeldJobs
<1>2. /\ wpc[c] = "finish" /\ wpc'[c] = "top" /\ done'[h]
      /\ \A d \in Conns \ {c} : wpc'[d] = wpc[d] /\ held'[d] = held[d]
      /\ \A j \in Jobs \ {h} : done'[j] = done[j]
  BY <1>1 DEF FinishJob, Goto, TypeOK
<1>3. Decided' = Decided
  BY <1>1, <1>2 DEF Decided
<1>4. Refused' = Refused
  BY DEF FinishJob, Refused
<1> QED  BY <1>3, <1>4, NothingCounted DEF FinishJob, client

(* A refusal is counted where it is returned, and nowhere else. *)
LEMMA CallerCounts ==
  ASSUME TypeOK, PoolInv, CountersAccountForJobs, NEW j \in Jobs, CallerStep(j)
  PROVE  CountersAccountForJobs'
<1>1. Decided' = Decided
  BY SameDecided DEF CallerStep, PublishRefused, PublishQueued, PublishReturns,
                     PublishTimesOut, workers
<1>2. UNCHANGED phase
  BY DEF CallerStep, PublishRefused, PublishQueued, PublishReturns, PublishTimesOut, client
<1>3. CASE PublishRefused(j)
  <2>1. Refused' = Refused \cup {j} /\ j \notin Refused
    BY <1>3 DEF PublishRefused, Refused, TypeOK
  <2>2. Cardinality(Refused') = Cardinality(Refused) + 1
    BY <2>1, JobSetsFinite, FS_AddElement
  <2>3. /\ total'["queue_full"] = total["queue_full"] + 1 /\ total'["ok"] = total["ok"]
        /\ total'["failed"] = total["failed"] /\ total'["timeout"] = total["timeout"]
    BY <1>3 DEF PublishRefused, Count, TypeOK
  <2> QED  BY <1>1, <1>2, <2>2, <2>3 DEF CountersAccountForJobs, Refused
<1>4. CASE \/ \E q \in {0, 1} : PublishQueued(j, q)
           \/ PublishReturns(j) \/ PublishTimesOut(j)
  <2>1. /\ UNCHANGED total /\ call[j] # "QueueFull"
        /\ call' = [call EXCEPT ![j] = call'[j]] /\ call'[j] # "QueueFull"
    BY <1>4 DEF PublishQueued, PublishReturns, PublishTimesOut, TypeOK, PoolInv, AnsweredJobs
  <2>2. Refused' = Refused
    BY <2>1 DEF Refused, TypeOK
  <2> QED  BY <1>1, <1>2, <2>1, <2>2, NothingCounted
<1> QED  BY <1>3, <1>4 DEF CallerStep

(* Every step keeps the counters equal to the sizes of those sets: a step    *)
(* that counts a job puts that very job into the set, and it was not in it   *)
(* before.                                                                   *)
LEMMA CountersStep ==
  ASSUME TypeOK, PoolInv, CountersAccountForJobs, [Next]_vars
  PROVE  CountersAccountForJobs'
<1>1. CASE UNCHANGED <<phase, done, call, workers, total>>
  BY <1>1 DEF CountersAccountForJobs, Decided, workers
<1>2. CASE ClientStep
  <2>1. CASE StartConnection
    <3>1. started \in Conns /\ wpc[started] = "unborn"
      BY <2>1, PoolAssumption DEF StartConnection, TypeOK, PoolInv, JoinedWorkers, Conns
    <3>2. \A c \in Conns : wpc'[c] = "finish" <=> wpc[c] = "finish"
      BY <2>1, <3>1 DEF StartConnection, Goto, TypeOK
    <3>3. Decided' = Decided
      BY <2>1, <3>2, SameDecided DEF StartConnection, jobs
    <3> QED  BY <2>1, <3>3, NothingCounted DEF StartConnection, Refused, jobs
  <2>2. CASE StartFails \/ StartUnwound \/ Stop \/ JoinConnection \/ SubscriberLeaves
    <3>1. Decided' = Decided /\ Refused' = Refused
      BY <2>2 DEF StartFails, StartUnwound, Stop, JoinConnection, SubscriberLeaves,
                  Decided, Refused, jobs, workers
    <3> QED  BY <2>2, <3>1, NothingCounted
                DEF StartFails, StartUnwound, Stop, JoinConnection, SubscriberLeaves
  <2>3. CASE DrainQueue
    BY <2>3, NothingCounted DEF DrainQueue, Refused
  <2> QED  BY <1>2, <2>1, <2>2, <2>3 DEF ClientStep
<1>3. ASSUME NEW c \in Conns, WorkerStep(c)
      PROVE  CountersAccountForJobs'
  <2>1. CASE \/ CheckRunning(c) \/ CheckConnected(c) \/ BackoffEnds(c)
             \/ WaitEndsStopped(c) \/ WaitEndsIdle(c) \/ ConnectFails(c) \/ ConnectSucceeds(c)
             \/ StoreConnected(c) \/ LeaveLoop(c)
    <3>1. /\ wpc[c] # "finish" /\ wpc' = [wpc EXCEPT ![c] = wpc'[c]] /\ wpc'[c] # "finish"
          /\ UNCHANGED <<client, jobs, total, held>>
      BY <2>1 DEF CheckRunning, CheckConnected, BackoffEnds, WaitEndsStopped, WaitEndsIdle,
                  Move, ConnectFails, ConnectSucceeds, Connect, StoreConnected, LeaveLoop,
                  Goto, TypeOK
    <3> QED  BY <3>1, WorkerCountsNothing DEF client, jobs
  <2>2. CASE TakeJob(c) \/ PublishInFlight(c)
    <3>1. /\ wpc[c] # "finish" /\ wpc' = [wpc EXCEPT ![c] = wpc'[c]] /\ wpc'[c] # "finish"
          /\ UNCHANGED <<client, done, call, total>>
          /\ \A d \in Conns \ {c} : held'[d] = held[d]
      BY <2>2 DEF TakeJob, PublishInFlight, Goto, TypeOK, jobs
    <3> QED  BY <3>1, WorkerCountsNothing DEF client
  <2>3. CASE PublishFails(c)
    BY <2>3, DecisionCounts DEF PublishFails, Goto, client, jobs
  <2>4. CASE PublishHandedOff(c)
    BY <2>4, DecisionCounts DEF PublishHandedOff, Goto, client, jobs
  <2>5. CASE CompletionSucceeds(c)
    BY <2>5, DecisionCounts DEF CompletionSucceeds, Goto, client, jobs
  <2>6. CASE CompletionTimesOut(c)
    BY <2>6, DecisionCounts DEF CompletionTimesOut, Goto, client, jobs
  <2>7. CASE FinishJob(c)
    BY <2>7, FinishCountsNothing
  <2> QED  BY <1>3, <2>1, <2>2, <2>3, <2>4, <2>5, <2>6, <2>7 DEF WorkerStep
<1>4. ASSUME NEW c \in Conns, PahoStep(c)
      PROVE  CountersAccountForJobs'
  BY <1>1, <1>4 DEF PahoStep, LinkBreaks, OnConnectionLost, BrokerAcks, client, jobs
<1>5. ASSUME NEW j \in Jobs, BrokerReceives(j)
      PROVE  CountersAccountForJobs'
  BY <1>1, <1>5 DEF BrokerReceives, client, jobs
<1>6. CASE SubscribeStep
  <2>1. CASE SubscribeEnds
    <3>1. Primary \in Conns
      BY PoolAssumption DEF Primary, Conns
    <3>2. /\ wpc[Primary] # "finish" /\ wpc' = [wpc EXCEPT ![Primary] = wpc'[Primary]]
          /\ wpc'[Primary] # "finish" /\ UNCHANGED <<client, jobs, total, held>>
      BY <2>1, <3>1 DEF SubscribeEnds, Move, Goto, TypeOK
    <3> QED  BY <3>1, <3>2, WorkerCountsNothing DEF client, jobs
  <2>2. ASSUME NEW f \in Filters, Subscribe(f)
        PROVE  CountersAccountForJobs'
    BY <1>1, <2>2 DEF Subscribe, client, jobs
  <2> QED  BY <1>6, <2>1, <2>2 DEF SubscribeStep
<1>7. CASE UNCHANGED vars
  BY <1>1, <1>7 DEF vars, client, jobs
<1> QED  BY <1>2, <1>3, <1>4, <1>5, <1>6, <1>7, CallerCounts DEF Next, Terminated

(* For every pool, queue and set of calls, each decided job is in exactly    *)
(* one of ok, failed and timeout, once, and each refusal in queue_full.      *)
THEOREM CountersAreExact == Spec => []CountersAccountForJobs
<1>1. Init => CountersAccountForJobs
  <2> SUFFICES ASSUME Init PROVE CountersAccountForJobs
    OBVIOUS
  <2>1. Decided = {} /\ Refused = {}
    BY DEF Init, Decided, Refused
  <2>2. Cardinality(Decided) = 0 /\ Cardinality(Refused) = 0
    BY <2>1, FS_EmptySet
  <2>3. total["ok"] + total["failed"] + total["timeout"] = 0 /\ total["queue_full"] = 0
    BY DEF Init
  <2> QED  BY <2>2, <2>3 DEF CountersAccountForJobs, Refused
<1>2. TypeOK /\ PoolInv /\ CountersAccountForJobs /\ [Next]_vars => CountersAccountForJobs'
  BY CountersStep
<1> QED  BY <1>1, <1>2, TypeCorrect, PoolCorrect, PTL DEF Spec
=============================================================================
