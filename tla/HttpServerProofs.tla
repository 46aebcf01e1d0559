-------------------------- MODULE HttpServerProofs --------------------------
(***************************************************************************)
(* What holds of the HTTP server for every number of connections, worker    *)
(* threads and listeners: a connection has one owner, a clean shutdown      *)
(* serves all that was accepted, no handler outlives the MQTT client and no *)
(* request goes uncounted.                                                  *)
(***************************************************************************)
EXTENDS HttpServer, FiniteSetTheorems, SequenceTheorems, TLAPS

(* Where a worker has a connection, and where it has counted its request. *)
Busy == {"head", "body", "route", "publish", "respond", "respond_large"}
Counted == Busy \ {"head"}

(* When main() is on its way out: run() is over, or init() failed. *)
Ending == {"mqtt_stop", "destroy", "returned"}

-----------------------------------------------------------------------------
(* The parts of the inductive invariant. *)

(* The workers exist between StartPool and Join. *)
PoolLife ==
  /\ main \in {"signals", "socket", "tcp", "pool"}
       => \A w \in Workers : wpc[w] = "unborn"
  /\ main = "close" => \A w \in Workers : wpc[w] = "exited"
  /\ main \in Ending => \A w \in Workers : wpc[w] \in {"unborn", "exited"}

(* The MQTT client is stopped when no worker is left. *)
MqttLife ==
  /\ main \notin {"destroy", "returned", "killed"} => mqtt
  /\ ~mqtt => \A w \in Workers : wpc[w] \in {"unborn", "exited"}

(* A worker leaves when stop_ is set and nothing is queued, and once stop_   *)
(* is set nothing more is.                                                   *)
QueueLife ==
  /\ stop => main \in {"stop_notify", "join", "close", "killed"} \cup Ending
  /\ \A w \in Workers : wpc[w] = "exited" => stop /\ queue = << >>
  /\ main \in {"signals", "socket", "tcp", "pool", "close"} \cup Ending => queue = << >>

(* A worker holds a connection exactly while it handles one. *)
FdInv == \A w \in Workers : fd[w] # NoConn <=> wpc[w] \in Busy

Queued(k) == \E i \in 1 .. Len(queue) : queue[i] = k
Held(k) == \E w \in Workers : fd[w] = k

(* An accepted connection is in the queue or with a worker, in one place. *)
Ownership ==
  /\ \A k \in Conns : conn[k] = "accepted" <=> Queued(k) \/ Held(k)
  /\ \A k \in Conns : ~(Queued(k) /\ Held(k))
  /\ \A i, j \in 1 .. Len(queue) : queue[i] = queue[j] => i = j
  /\ \A w, v \in Workers : fd[w] = fd[v] /\ fd[w] # NoConn => w = v

(* A connection waits in the backlog of one listener. *)
BacklogInv ==
  /\ \A l \in Listeners : \A k \in backlog[l] : conn[k] = "backlog"
  /\ \A l, m \in Listeners : \A k \in backlog[l] \cap backlog[m] : l = m

LifeInv == PoolLife /\ MqttLife /\ QueueLife
OwnerInv == FdInv /\ Ownership /\ BacklogInv

-----------------------------------------------------------------------------
(* The server's variables keep their types in every step of main(), of the   *)
(* pool's workers, of clients and of signals.                                *)
THEOREM TypeCorrect == Spec => []TypeOK
<1>1. Init => TypeOK
  <2>1. Init => {masked, pending, sigready, mqtt, stop} \subseteq BOOLEAN
    BY Zenon DEF Init
  <2> QED BY <2>1 DEF Init, TypeOK, MainPcs, WorkerPcs
<1>2. TypeOK /\ [Next]_vars => TypeOK'
  <2> SUFFICES ASSUME TypeOK, [Next]_vars PROVE TypeOK'
    OBVIOUS
  <2> USE DEF TypeOK, Goto, process, loop, pool, clients, metrics, MainPcs, WorkerPcs
  <2>1. CASE UNCHANGED vars
    BY <2>1 DEF vars
  <2>2. CASE SetupSignals \/ SetupSocket \/ SetupTcpListeners \/ InitFails \/ PollFails
    BY <2>2 DEF SetupSignals, SetupSocket, SetupTcpListeners, InitFails, PollFails
  <2>3. CASE StartPool \/ NotifyOne \/ StopNotify
    BY <2>3 DEF StartPool, NotifyOne, StopNotify
  <2>4. CASE Poll \/ CheckSignal
    BY <2>4 DEF Poll, CheckSignal
  <2>5. ASSUME NEW l \in Listeners, AcceptEnds(l) PROVE TypeOK'
    BY <2>5 DEF AcceptEnds
  <2>6. ASSUME NEW l \in Listeners, NEW k \in Conns, Accept(l, k) PROVE TypeOK'
    <3>1. queue' \in Seq(Conns)
      BY <2>6, AppendProperties DEF Accept, Submit
    <3> QED BY <2>6, <3>1 DEF Accept, Submit
  <2>7. CASE StopFlag \/ Join \/ CloseSockets \/ MqttStop \/ Destroy
    BY <2>7 DEF StopFlag, Join, CloseSockets, MqttStop, Destroy
  <2>8. ASSUME NEW w \in Workers, TestFails(w) \/ Block(w) \/ BodyRead(w) \/ PublishReturns(w)
        PROVE  TypeOK'
    BY <2>8 DEF TestFails, Block, BodyRead, PublishReturns
  <2>9. ASSUME NEW w \in Workers, Take(w) PROVE TypeOK'
    <3>1. Head(queue) \in Conns /\ queue' \in Seq(Conns)
      BY <2>9, HeadTailProperties DEF Take
    <3> QED BY <2>9, <3>1 DEF Take
  <2>10. ASSUME NEW w \in Workers, NEW to \in {"respond", "body", "route"}, RequestRead(w, to)
         PROVE  TypeOK'
    BY <2>10 DEF RequestRead, RecordRequest
  <2>11. ASSUME NEW w \in Workers, NEW to \in {"publish", "respond", "respond_large"},
                Route(w, to)
         PROVE  TypeOK'
    BY <2>11 DEF Route
  <2>12. ASSUME NEW w \in Workers, HeadFails(w) \/ BodyFails(w) PROVE TypeOK'
    BY <2>12 DEF HeadFails, BodyFails, CloseFd
  <2>13. ASSUME NEW w \in Workers, NEW from, Respond(w, from) PROVE TypeOK'
    <3>1. responses' \in Nat
      BY <2>13 DEF Respond, RecordResponse
    <3> QED BY <2>13, <3>1 DEF Respond, CloseFd
  <2>14. ASSUME NEW l \in Listeners, NEW k \in Conns, ClientConnects(l, k) PROVE TypeOK'
    BY <2>14 DEF ClientConnects
  <2>15. CASE SignalArrives \/ SignalDropped
    BY <2>15 DEF SignalArrives, SignalDropped
  <2> QED BY <2>1, <2>2, <2>3, <2>4, <2>5, <2>6, <2>7, <2>8, <2>9, <2>10, <2>11, <2>12,
             <2>13, <2>14, <2>15
          DEF Next, MainStep, WorkerStep, WriteLarge, Ended
<1> QED BY <1>1, <1>2, PTL DEF Spec

-----------------------------------------------------------------------------
(* Who is there when. *)

(* A worker at work moves on: main() is not past the join. *)
LEMMA WorkerKeepsLife ==
  ASSUME TypeOK, LifeInv, NEW w \in Workers, NEW pc \in WorkerPcs,
         wpc[w] \notin {"unborn", "exited"}, wpc' = [wpc EXCEPT ![w] = pc],
         pc = "exited" => stop /\ queue = << >>,
         queue' = queue \/ queue # << >>,
         UNCHANGED <<main, mqtt, stop>>
  PROVE  LifeInv'
<1> USE DEF TypeOK, LifeInv
<1>1. PoolLife'
  BY DEF PoolLife
<1>2. MqttLife'
  BY DEF MqttLife
<1>3. QueueLife'
  BY DEF QueueLife, PoolLife, Ending
<1> QED BY <1>1, <1>2, <1>3

(* main()'s order of init(), run(), cleanup() and the clients' stop(). *)
LEMMA MainKeepsLife ==
  ASSUME TypeOK, LifeInv, MainStep \/ MqttStop
  PROVE  LifeInv'
<1> USE DEF TypeOK, LifeInv, PoolLife, MqttLife, QueueLife, Ending, Goto, process, loop, pool,
            clients, MainPcs
<1>1. CASE SetupSignals \/ SetupSocket \/ SetupTcpListeners \/ InitFails \/ PollFails
  BY <1>1 DEF SetupSignals, SetupSocket, SetupTcpListeners, InitFails, PollFails
<1>2. CASE StartPool
  BY <1>2 DEF StartPool
<1>3. CASE NotifyOne
  BY <1>3 DEF NotifyOne
<1>4. CASE StopNotify
  BY <1>4 DEF StopNotify
<1>5. CASE Poll \/ CheckSignal
  <2>1. /\ main \in {"poll", "accept"} /\ main' \in {"accept", "stop_flag", "poll"}
        /\ UNCHANGED <<mqtt, stop, queue, wpc>>
    BY <1>5 DEF Poll, CheckSignal
  <2> QED BY <2>1
<1>6. ASSUME NEW l \in Listeners, AcceptEnds(l) PROVE LifeInv'
  BY <1>6 DEF AcceptEnds
<1>7. ASSUME NEW l \in Listeners, NEW k \in Conns, Accept(l, k) PROVE LifeInv'
  BY <1>7 DEF Accept, Submit, Serving
<1>8. CASE StopFlag
  BY <1>8 DEF StopFlag
<1>9. CASE Join
  BY <1>9, WorkersAssumption DEF Join
<1>10. CASE CloseSockets \/ MqttStop \/ Destroy
  BY <1>10 DEF CloseSockets, MqttStop, Destroy
<1> QED BY <1>1, <1>2, <1>3, <1>4, <1>5, <1>6, <1>7, <1>8, <1>9, <1>10 DEF MainStep

(* LifeInv holds throughout. *)
LEMMA LifeCorrect == Spec => []LifeInv
<1>1. Init => LifeInv
  BY DEF Init, LifeInv, PoolLife, MqttLife, QueueLife, Ending
<1>2. TypeOK /\ LifeInv /\ [Next]_vars => LifeInv'
  <2> SUFFICES ASSUME TypeOK, LifeInv, [Next]_vars PROVE LifeInv'
    OBVIOUS
  <2> USE DEF process, loop, pool, clients
  <2>1. CASE UNCHANGED vars \/ Ended
    BY <2>1 DEF vars, Ended, LifeInv, PoolLife, MqttLife, QueueLife
  <2>2. CASE SignalArrives \/ SignalDropped
    BY <2>2 DEF SignalArrives, SignalDropped, LifeInv, PoolLife, MqttLife, QueueLife, Ending
  <2>3. ASSUME NEW l \in Listeners, NEW k \in Conns, ClientConnects(l, k) PROVE LifeInv'
    BY <2>3 DEF ClientConnects, LifeInv, PoolLife, MqttLife, QueueLife
  <2>4. ASSUME NEW w \in Workers, WorkerStep(w) \/ WriteLarge(w) PROVE LifeInv'
    <3> USE DEF Goto, WorkerPcs
    <3>1. CASE TestFails(w)
      <4>1. PICK pc \in {"exited", "tested"} :
              /\ wpc' = [wpc EXCEPT ![w] = pc] /\ (pc = "exited" => stop)
              /\ wpc[w] = "test" /\ queue = << >>
              /\ UNCHANGED <<main, mqtt, stop, queue>>
        BY <3>1 DEF TestFails
      <4> QED BY <4>1, WorkerKeepsLife
    <3>2. CASE Block(w) \/ Take(w) \/ BodyRead(w) \/ PublishReturns(w)
      BY <3>2, WorkerKeepsLife DEF Block, Take, BodyRead, PublishReturns
    <3>3. ASSUME NEW to \in {"respond", "body", "route"}, RequestRead(w, to) PROVE LifeInv'
      BY <3>3, WorkerKeepsLife DEF RequestRead
    <3>4. CASE HeadFails(w) \/ BodyFails(w)
      BY <3>4, WorkerKeepsLife DEF HeadFails, BodyFails, CloseFd
    <3>5. ASSUME NEW to \in {"publish", "respond", "respond_large"}, Route(w, to)
          PROVE  LifeInv'
      BY <3>5, WorkerKeepsLife DEF Route
    <3>6. CASE Respond(w, "respond") \/ Respond(w, "respond_large")
      BY <3>6, WorkerKeepsLife DEF Respond, CloseFd
    <3> QED BY <2>4, <3>1, <3>2, <3>3, <3>4, <3>5, <3>6 DEF WorkerStep, WriteLarge
  <2> QED BY <2>1, <2>2, <2>3, <2>4, MainKeepsLife DEF Next
<1> QED BY <1>1, <1>2, TypeCorrect, PTL DEF Spec

(* A handler never calls publish() on a client that was stopped: run()       *)
(* returns after the pool is joined, and main() stops the client after it.   *)
THEOREM HandlersHaveMqtt == Spec => []MqttOutlivesHandlers
<1>1. LifeInv => MqttOutlivesHandlers
  BY DEF LifeInv, MqttLife, MqttOutlivesHandlers
<1> QED BY <1>1, LifeCorrect, PTL

-----------------------------------------------------------------------------
(* Who has which connection. *)

(* A step that gives and takes no connection. *)
LEMMA OwnersUntouched ==
  ASSUME OwnerInv, UNCHANGED <<queue, fd, conn, backlog>>,
         \A w \in Workers : wpc'[w] \in Busy <=> wpc[w] \in Busy
  PROVE  OwnerInv'
BY DEF OwnerInv, FdInv, Ownership, Queued, Held, BacklogInv

(* submit(): the connection goes from one backlog to the queue's end, or is  *)
(* closed.                                                                   *)
LEMMA AcceptKeepsOwners ==
  ASSUME TypeOK, OwnerInv, NEW l \in Listeners, NEW k \in Conns, Accept(l, k)
  PROVE  OwnerInv'
<1> USE DEF TypeOK
<1>1. /\ conn[k] = "backlog" /\ backlog' = [backlog EXCEPT ![l] = @ \ {k}]
      /\ UNCHANGED <<wpc, fd>> /\ ~Queued(k) /\ ~Held(k)
  BY DEF Accept, OwnerInv, BacklogInv, Ownership
<1>2. FdInv'
  BY <1>1 DEF OwnerInv, FdInv
<1>3. /\ \A m \in Listeners : backlog'[m] \subseteq backlog[m] /\ k \notin backlog'[m]
      /\ \E c \in {"closed", "accepted"} : conn' = [conn EXCEPT ![k] = c]
  BY <1>1 DEF OwnerInv, BacklogInv, Accept, Submit
<1>4. BacklogInv'
  BY <1>3 DEF OwnerInv, BacklogInv
<1>5. CASE stop
  BY <1>1, <1>2, <1>4, <1>5, SMTT(30) DEF Accept, Submit, OwnerInv, Ownership, Queued, Held
<1>6. CASE ~stop
  <2>1. conn' = [conn EXCEPT ![k] = "accepted"] /\ queue' = Append(queue, k)
    BY <1>6 DEF Accept, Submit
  <2>2. /\ Len(queue') = Len(queue) + 1 /\ Len(queue) \in Nat
        /\ queue'[Len(queue) + 1] = k
        /\ \A i \in 1 .. Len(queue) : queue'[i] = queue[i]
    BY <2>1, AppendProperties
  <2>3. \A i : i \in 1 .. Len(queue') <=> i \in 1 .. Len(queue) \/ i = Len(queue) + 1
    BY <2>2
  <2>4. \A c \in Conns : Queued(c)' <=> Queued(c) \/ c = k
    BY <2>2, <2>3 DEF Queued
  <2>5. \A c \in Conns : Held(c)' <=> Held(c)
    BY <1>1 DEF Held
  <2>6. \A i, j \in 1 .. Len(queue') : queue'[i] = queue'[j] => i = j
    BY <1>1, <2>2, <2>3 DEF OwnerInv, Ownership, Queued
  <2>7. Ownership'
    BY <1>1, <2>1, <2>4, <2>5, <2>6 DEF OwnerInv, Ownership
  <2> QED BY <1>2, <1>4, <2>7 DEF OwnerInv
<1> QED BY <1>5, <1>6

(* A worker takes the connection at the head of the queue. *)
LEMMA TakeKeepsOwners ==
  ASSUME TypeOK, OwnerInv, NEW w \in Workers, Take(w)
  PROVE  OwnerInv'
<1> USE DEF TypeOK
<1> DEFINE k == Head(queue)
<1>1. /\ queue # << >> /\ queue' = Tail(queue) /\ fd' = [fd EXCEPT ![w] = k]
      /\ wpc[w] = "test" /\ wpc' = [wpc EXCEPT ![w] = "head"]
      /\ UNCHANGED <<conn, backlog>>
  BY DEF Take, Goto, clients
<1>2. /\ k = queue[1] /\ k \in Conns /\ Len(queue) \in Nat /\ Len(queue) >= 1
      /\ Len(queue') = Len(queue) - 1
      /\ \A i \in 1 .. Len(queue') : queue'[i] = queue[i + 1]
  BY <1>1, HeadTailProperties
<1>3. k # NoConn
  BY <1>2, ConnsAssumption
<1> HIDE DEF k
<1>4. fd[w] = NoConn /\ fd'[w] = k /\ \A v \in Workers \ {w} : fd'[v] = fd[v]
  BY <1>1 DEF OwnerInv, FdInv, Busy
<1>5. FdInv'
  BY <1>1, <1>3, <1>4 DEF OwnerInv, FdInv, Busy
<1>6. BacklogInv'
  BY <1>1 DEF OwnerInv, BacklogInv
<1>7. Queued(k) /\ conn[k] = "accepted" /\ ~Held(k)
  BY <1>2 DEF Queued, OwnerInv, Ownership
<1>8. \A c \in Conns : Held(c)' <=> Held(c) \/ c = k
  <2>1. \A c \in Conns : Held(c) => \E v \in Workers \ {w} : fd[v] = c
    BY <1>4, ConnsAssumption DEF Held
  <2> QED BY <1>4, <2>1 DEF Held
<1>9. \A c \in Conns : Queued(c)' <=> Queued(c) /\ c # k
  <2>1. ASSUME NEW c \in Conns, NEW i \in 1 .. Len(queue'), queue'[i] = c
        PROVE  Queued(c) /\ c # k
    <3>1. i + 1 \in 1 .. Len(queue) /\ queue[i + 1] = c /\ 1 \in 1 .. Len(queue) /\ i + 1 # 1
      BY <1>2, <2>1
    <3> QED BY <1>2, <3>1 DEF Queued, OwnerInv, Ownership
  <2>2. ASSUME NEW c \in Conns, c # k, NEW i \in 1 .. Len(queue), queue[i] = c
        PROVE  Queued(c)'
    <3>1. i # 1 /\ i - 1 \in 1 .. Len(queue') /\ (i - 1) + 1 = i
      BY <1>2, <2>2
    <3>2. queue'[i - 1] = c
      BY <1>2, <2>2, <3>1
    <3> QED BY <3>1, <3>2 DEF Queued
  <2> QED BY <2>1, <2>2 DEF Queued
<1>10. \A i, j \in 1 .. Len(queue') : queue'[i] = queue'[j] => i = j
  <2> SUFFICES ASSUME NEW i \in 1 .. Len(queue'), NEW j \in 1 .. Len(queue'),
                      queue'[i] = queue'[j]
               PROVE  i = j
    OBVIOUS
  <2>1. i + 1 \in 1 .. Len(queue) /\ j + 1 \in 1 .. Len(queue) /\ queue[i + 1] = queue[j + 1]
    BY <1>2
  <2>2. i + 1 = j + 1
    BY <2>1 DEF OwnerInv, Ownership
  <2> QED BY <2>2
<1>11. \A u, v \in Workers : fd'[u] = fd'[v] /\ fd'[u] # NoConn => u = v
  BY <1>4, <1>7 DEF Held, OwnerInv, Ownership
<1>12. Ownership'
  BY <1>1, <1>7, <1>8, <1>9, <1>10, <1>11 DEF OwnerInv, Ownership
<1> QED BY <1>5, <1>6, <1>12 DEF OwnerInv

(* A worker closes the connection it handles, which nobody else has. *)
LEMMA CloseKeepsOwners ==
  ASSUME TypeOK, OwnerInv, NEW w \in Workers, wpc[w] \in Busy, CloseFd(w),
         UNCHANGED <<queue, backlog>>
  PROVE  OwnerInv'
<1> USE DEF TypeOK
<1> DEFINE k == fd[w]
<1>1. /\ k \in Conns /\ k # NoConn /\ Held(k)
  BY DEF OwnerInv, FdInv, Held
<1>2. /\ conn' = [conn EXCEPT ![k] = "closed"] /\ fd' = [fd EXCEPT ![w] = NoConn]
      /\ wpc' = [wpc EXCEPT ![w] = "test"]
  BY DEF CloseFd, Goto
<1>3. conn[k] = "accepted" /\ ~Queued(k) /\ \A v \in Workers \ {w} : fd[v] # k
  BY <1>1 DEF OwnerInv, Ownership
<1> HIDE DEF k
<1>4. FdInv'
  BY <1>2 DEF OwnerInv, FdInv, Busy
<1>5. BacklogInv'
  BY <1>2, <1>3 DEF OwnerInv, BacklogInv
<1>6. \A c \in Conns : Held(c)' <=> Held(c) /\ c # k
  BY <1>1, <1>2, <1>3, ConnsAssumption DEF Held, k
<1>7. \A c \in Conns : Queued(c)' <=> Queued(c)
  BY DEF Queued
<1>8. Ownership'
  BY <1>1, <1>2, <1>3, <1>6, <1>7 DEF OwnerInv, Ownership
<1> QED BY <1>4, <1>5, <1>8 DEF OwnerInv

(* A client's new connection waits in one backlog. *)
LEMMA ConnectKeepsOwners ==
  ASSUME TypeOK, OwnerInv, NEW l \in Listeners, NEW k \in Conns, ClientConnects(l, k)
  PROVE  OwnerInv'
<1> USE DEF TypeOK
<1>1. /\ conn[k] = "none" /\ conn' = [conn EXCEPT ![k] = "backlog"]
      /\ backlog' = [backlog EXCEPT ![l] = @ \cup {k}]
      /\ UNCHANGED <<queue, fd, wpc>>
  BY DEF ClientConnects, pool
<1>2. ~Queued(k) /\ ~Held(k) /\ \A m \in Listeners : k \notin backlog[m]
  BY <1>1 DEF OwnerInv, Ownership, BacklogInv
<1>3. FdInv' /\ BacklogInv'
  BY <1>1, <1>2 DEF OwnerInv, FdInv, BacklogInv
<1>4. Ownership'
  BY <1>1, <1>2 DEF OwnerInv, Ownership, Queued, Held
<1> QED BY <1>3, <1>4 DEF OwnerInv

(* Closing the listeners resets what nobody has accepted. *)
LEMMA ResetKeepsOwners ==
  ASSUME TypeOK, OwnerInv, CloseSockets \/ Destroy
  PROVE  OwnerInv'
<1> USE DEF TypeOK
<1>1. /\ conn' = [k \in Conns |-> IF conn[k] = "backlog" THEN "reset" ELSE conn[k]]
      /\ backlog' = [l \in Listeners |-> {}] /\ UNCHANGED <<queue, fd, wpc>>
  BY DEF CloseSockets, Destroy, pool
<1>2. \A k \in Conns : conn'[k] = "accepted" <=> conn[k] = "accepted"
  BY <1>1
<1>3. FdInv' /\ BacklogInv'
  BY <1>1 DEF OwnerInv, FdInv, BacklogInv
<1>4. Ownership'
  BY <1>1, <1>2 DEF OwnerInv, Ownership, Queued, Held
<1> QED BY <1>3, <1>4 DEF OwnerInv

(* OwnerInv holds throughout. *)
LEMMA OwnerCorrect == Spec => []OwnerInv
<1>1. Init => OwnerInv
  BY ConnsAssumption DEF Init, OwnerInv, FdInv, Ownership, BacklogInv, Queued, Held, Busy
<1>2. TypeOK /\ LifeInv /\ OwnerInv /\ [Next]_vars => OwnerInv'
  <2> SUFFICES ASSUME TypeOK, LifeInv, OwnerInv, [Next]_vars PROVE OwnerInv'
    OBVIOUS
  <2> USE DEF process, loop, pool, clients, Goto
  <2>1. CASE UNCHANGED vars \/ Ended
    BY <2>1, OwnersUntouched DEF vars, Ended
  <2>2. CASE SetupSignals \/ SetupSocket \/ SetupTcpListeners \/ InitFails \/ PollFails
    BY <2>2, OwnersUntouched DEF SetupSignals, SetupSocket, SetupTcpListeners, InitFails,
                                 PollFails
  <2>3. CASE StartPool
    BY <2>3, OwnersUntouched DEF StartPool, LifeInv, PoolLife, Busy
  <2>4. CASE NotifyOne
    BY <2>4, OwnersUntouched DEF NotifyOne, TypeOK, Busy
  <2>5. CASE StopNotify
    BY <2>5, OwnersUntouched DEF StopNotify, TypeOK, Busy
  <2>6. CASE Poll \/ CheckSignal
    BY <2>6, OwnersUntouched DEF Poll, CheckSignal
  <2>7. ASSUME NEW l \in Listeners, AcceptEnds(l) PROVE OwnerInv'
    BY <2>7, OwnersUntouched DEF AcceptEnds
  <2>8. CASE StopFlag \/ Join \/ MqttStop
    BY <2>8, OwnersUntouched DEF StopFlag, Join, MqttStop
  <2>9. CASE MainStep
    BY <2>2, <2>3, <2>4, <2>5, <2>6, <2>7, <2>8, <2>9, AcceptKeepsOwners, ResetKeepsOwners
       DEF MainStep
  <2>10. CASE SignalArrives \/ SignalDropped
    BY <2>10, OwnersUntouched DEF SignalArrives, SignalDropped
  <2>11. ASSUME NEW w \in Workers, WorkerStep(w) \/ WriteLarge(w) PROVE OwnerInv'
    <3> USE DEF TypeOK, Busy
    <3>1. CASE TestFails(w) \/ Block(w) \/ BodyRead(w) \/ PublishReturns(w)
      BY <3>1, OwnersUntouched DEF TestFails, Block, BodyRead, PublishReturns
    <3>2. CASE Take(w)
      BY <3>2, TakeKeepsOwners
    <3>3. ASSUME NEW to \in {"respond", "body", "route"}, RequestRead(w, to) PROVE OwnerInv'
      BY <3>3, OwnersUntouched DEF RequestRead
    <3>4. CASE HeadFails(w) \/ BodyFails(w)
      BY <3>4, CloseKeepsOwners DEF HeadFails, BodyFails
    <3>5. ASSUME NEW to \in {"publish", "respond", "respond_large"}, Route(w, to)
          PROVE  OwnerInv'
      BY <3>5, OwnersUntouched DEF Route
    <3>6. CASE Respond(w, "respond") \/ Respond(w, "respond_large")
      BY <3>6, CloseKeepsOwners DEF Respond
    <3> QED BY <2>11, <3>1, <3>2, <3>3, <3>4, <3>5, <3>6 DEF WorkerStep, WriteLarge
  <2> QED BY <2>1, <2>8, <2>9, <2>10, <2>11, ConnectKeepsOwners DEF Next
<1> QED BY <1>1, <1>2, TypeCorrect, LifeCorrect, PTL DEF Spec

(* thread_pool.h, "a clean shutdown finishes serving what was already        *)
(* accepted": when run() has closed its sockets no accepted connection is    *)
(* open, queued or with a worker.                                            *)
THEOREM ShutdownServesAccepted == Spec => []AcceptedAreServed
<1>1. LifeInv /\ OwnerInv => AcceptedAreServed
  <2> SUFFICES ASSUME LifeInv, OwnerInv, main \in Ending
               PROVE  /\ queue = << >>
                      /\ \A k \in Conns : conn[k] # "accepted"
                      /\ \A w \in Workers : fd[w] = NoConn
    BY DEF AcceptedAreServed, Ending
  <2>1. queue = << >>
    BY DEF LifeInv, QueueLife
  <2>2. \A w \in Workers : fd[w] = NoConn
    BY DEF LifeInv, PoolLife, OwnerInv, FdInv, Busy
  <2>3. \A k \in Conns : ~Queued(k) /\ ~Held(k)
    BY <2>1, <2>2, ConnsAssumption DEF Queued, Held
  <2> QED BY <2>1, <2>2, <2>3 DEF OwnerInv, Ownership
<1> QED BY <1>1, LifeCorrect, OwnerCorrect, PTL

(* An accepted connection is in one worker's hands or in one place of the    *)
(* queue, and any other connection in none: no descriptor is closed twice.   *)
THEOREM ConnectionsHaveOneOwner == Spec => []OneOwner
<1>1. TypeOK /\ OwnerInv => OneOwner
  <2> SUFFICES ASSUME TypeOK, OwnerInv, NEW k \in Conns
               PROVE  Cardinality({w \in Workers : fd[w] = k})
                        + Cardinality({i \in 1 .. Len(queue) : queue[i] = k})
                        = IF conn[k] = "accepted" THEN 1 ELSE 0
    BY DEF OneOwner
  <2> DEFINE holders == {w \in Workers : fd[w] = k}
             places == {i \in 1 .. Len(queue) : queue[i] = k}
  <2>1. ~Held(k) => Cardinality(holders) = 0
    <3>1. ~Held(k) => holders = {}
      BY DEF Held
    <3> QED BY <3>1, FS_EmptySet
  <2>2. ~Queued(k) => Cardinality(places) = 0
    <3>1. ~Queued(k) => places = {}
      BY DEF Queued
    <3> QED BY <3>1, FS_EmptySet
  <2>3. Held(k) => Cardinality(holders) = 1
    <3> SUFFICES ASSUME Held(k) PROVE Cardinality(holders) = 1
      OBVIOUS
    <3>1. PICK w \in Workers : fd[w] = k
      BY DEF Held
    <3>2. holders = {w}
      BY <3>1, ConnsAssumption DEF OwnerInv, Ownership
    <3> QED BY <3>2, FS_Singleton
  <2>4. Queued(k) => Cardinality(places) = 1
    <3> SUFFICES ASSUME Queued(k) PROVE Cardinality(places) = 1
      OBVIOUS
    <3>1. PICK i \in 1 .. Len(queue) : queue[i] = k
      BY DEF Queued
    <3>2. places = {i}
      BY <3>1 DEF OwnerInv, Ownership
    <3> QED BY <3>2, FS_Singleton
  <2>5. /\ conn[k] = "accepted" <=> Queued(k) \/ Held(k)
        /\ ~(Queued(k) /\ Held(k))
    BY DEF OwnerInv, Ownership
  <2> HIDE DEF holders, places
  <2>6. Cardinality(holders) + Cardinality(places) = IF conn[k] = "accepted" THEN 1 ELSE 0
    BY <2>1, <2>2, <2>3, <2>4, <2>5
  <2> QED BY <2>6 DEF holders, places
<1> QED BY <1>1, TypeCorrect, OwnerCorrect, PTL

-----------------------------------------------------------------------------
(* The counters of requests and responses. *)

(* The workers that have counted a request and not yet its response. *)
Handling == {w \in Workers : wpc[w] \in Counted}

(* The workers that count are some of the pool's. *)
LEMMA HandlingFinite == IsFiniteSet(Handling) /\ Cardinality(Handling) \in Nat
<1>1. Handling \in SUBSET Workers
  BY DEF Handling
<1>2. IsFiniteSet(Handling)
  BY <1>1, WorkersAssumption, FS_Subset
<1> QED BY <1>2, FS_CardinalityType

(* The property in these words. *)
LEMMA AccountedMeans ==
  RequestsAccounted <=> requests = responses + abandoned + Cardinality(Handling)
BY DEF RequestsAccounted, Handling, Counted, Busy

(* A step after which the same workers count. *)
LEMMA CountUntouched ==
  ASSUME RequestsAccounted, UNCHANGED metrics,
         \A w \in Workers : wpc'[w] \in Counted <=> wpc[w] \in Counted
  PROVE  RequestsAccounted'
<1>1. Handling' = Handling
  BY DEF Handling
<1>2. RequestsAccounted' <=> requests' = responses' + abandoned' + Cardinality(Handling')
  BY DEF RequestsAccounted, Handling, Counted, Busy
<1> QED BY <1>1, <1>2, AccountedMeans DEF metrics

(* record_request(): one more request, one more worker that handles one. *)
LEMMA RequestReadCounts ==
  ASSUME TypeOK, RequestsAccounted, NEW w \in Workers,
         NEW to \in {"respond", "body", "route"}, RequestRead(w, to)
  PROVE  RequestsAccounted'
<1> USE DEF TypeOK
<1>1. /\ wpc[w] = "head" /\ wpc' = [wpc EXCEPT ![w] = to]
      /\ requests' = requests + 1 /\ responses' = responses /\ abandoned' = abandoned
  BY DEF RequestRead, RecordRequest, Goto
<1>2. w \notin Handling /\ Handling' = Handling \cup {w}
  BY <1>1 DEF Handling, Counted, Busy
<1>3. Cardinality(Handling') = Cardinality(Handling) + 1
  BY <1>2, HandlingFinite, FS_AddElement
<1>4. requests' = responses' + abandoned' + Cardinality(Handling')
  BY <1>1, <1>3, AccountedMeans, HandlingFinite
<1> QED BY <1>4 DEF RequestsAccounted, Handling, Counted, Busy

(* record_response(), or a body that never came: the request is accounted    *)
(* for and its worker has none.                                              *)
LEMMA RequestEndCounts ==
  ASSUME TypeOK, RequestsAccounted, NEW w \in Workers, wpc[w] \in Counted,
         wpc' = [wpc EXCEPT ![w] = "test"], requests' = requests,
         responses' + abandoned' = responses + abandoned + 1,
         responses' \in Nat, abandoned' \in Nat
  PROVE  RequestsAccounted'
<1> USE DEF TypeOK
<1>1. w \in Handling /\ Handling' = Handling \ {w}
  BY DEF Handling, Counted, Busy
<1>2. Cardinality(Handling') = Cardinality(Handling) - 1
  BY <1>1, HandlingFinite, FS_RemoveElement
<1>3. requests' = responses' + abandoned' + Cardinality(Handling')
  BY <1>2, AccountedMeans, HandlingFinite
<1> QED BY <1>3 DEF RequestsAccounted, Handling, Counted, Busy

(* Every request counted is being handled, was answered and counted, or had  *)
(* no body, whatever the workers do at the same time.                        *)
THEOREM RequestsAreAccounted == Spec => []RequestsAccounted
<1>1. Init => RequestsAccounted
  <2>1. Init => Handling = {}
    BY DEF Init, Handling, Counted, Busy
  <2>2. Init => requests = responses + abandoned + Cardinality(Handling)
    <3>1. Init => Cardinality(Handling) = 0
      BY <2>1, FS_EmptySet
    <3> QED BY <3>1 DEF Init
  <2> QED BY <2>2, AccountedMeans
<1>2. TypeOK /\ LifeInv /\ RequestsAccounted /\ [Next]_vars => RequestsAccounted'
  <2> SUFFICES ASSUME TypeOK, LifeInv, RequestsAccounted, [Next]_vars
               PROVE  RequestsAccounted'
    OBVIOUS
  <2> USE DEF TypeOK, process, loop, pool, Goto, Counted, Busy
  <2>1. CASE UNCHANGED vars \/ Ended
    BY <2>1, CountUntouched DEF vars, Ended
  <2>2. CASE SetupSignals \/ SetupSocket \/ SetupTcpListeners \/ InitFails \/ PollFails
    BY <2>2, CountUntouched DEF SetupSignals, SetupSocket, SetupTcpListeners, InitFails,
                                PollFails
  <2>3. CASE StartPool
    BY <2>3, CountUntouched DEF StartPool, LifeInv, PoolLife
  <2>4. CASE NotifyOne
    BY <2>4, CountUntouched DEF NotifyOne
  <2>5. CASE StopNotify
    BY <2>5, CountUntouched DEF StopNotify
  <2>6. CASE Poll \/ CheckSignal
    BY <2>6, CountUntouched DEF Poll, CheckSignal
  <2>7. ASSUME NEW l \in Listeners, AcceptEnds(l) \/ \E k \in Conns : Accept(l, k)
        PROVE  RequestsAccounted'
    BY <2>7, CountUntouched DEF AcceptEnds, Accept
  <2>8. CASE StopFlag \/ Join \/ CloseSockets \/ MqttStop \/ Destroy
    BY <2>8, CountUntouched DEF StopFlag, Join, CloseSockets, MqttStop, Destroy
  <2>9. CASE MainStep
    BY <2>2, <2>3, <2>4, <2>5, <2>6, <2>7, <2>8, <2>9 DEF MainStep
  <2>10. CASE SignalArrives \/ SignalDropped
    BY <2>10, CountUntouched DEF SignalArrives, SignalDropped
  <2>11. ASSUME NEW l \in Listeners, NEW k \in Conns, ClientConnects(l, k)
         PROVE  RequestsAccounted'
    BY <2>11, CountUntouched DEF ClientConnects
  <2>12. ASSUME NEW w \in Workers, WorkerStep(w) \/ WriteLarge(w) PROVE RequestsAccounted'
    <3>1. CASE TestFails(w) \/ Block(w) \/ Take(w) \/ BodyRead(w) \/ PublishReturns(w)
      BY <3>1, CountUntouched DEF TestFails, Block, Take, BodyRead, PublishReturns
    <3>2. ASSUME NEW to \in {"respond", "body", "route"}, RequestRead(w, to)
          PROVE  RequestsAccounted'
      BY <3>2, RequestReadCounts
    <3>3. CASE HeadFails(w)
      BY <3>3, CountUntouched DEF HeadFails, CloseFd
    <3>4. CASE BodyFails(w)
      <4>1. /\ wpc[w] \in Counted /\ wpc' = [wpc EXCEPT ![w] = "test"]
            /\ requests' = requests /\ responses' = responses /\ abandoned' = abandoned + 1
        BY <3>4 DEF BodyFails, CloseFd
      <4>2. /\ responses' + abandoned' = responses + abandoned + 1
            /\ responses' \in Nat /\ abandoned' \in Nat
        BY <4>1
      <4> HIDE DEF TypeOK, Counted
      <4> QED BY <4>1, <4>2, RequestEndCounts
    <3>5. ASSUME NEW to \in {"publish", "respond", "respond_large"}, Route(w, to)
          PROVE  RequestsAccounted'
      BY <3>5, CountUntouched DEF Route
    <3>6. ASSUME NEW from \in {"respond", "respond_large"}, Respond(w, from)
          PROVE  RequestsAccounted'
      <4>1. /\ wpc[w] \in Counted /\ wpc' = [wpc EXCEPT ![w] = "test"]
            /\ requests' = requests /\ responses' = responses + 1 /\ abandoned' = abandoned
        BY <3>6 DEF Respond, RecordResponse, CloseFd
      <4>2. /\ responses' + abandoned' = responses + abandoned + 1
            /\ responses' \in Nat /\ abandoned' \in Nat
        BY <4>1
      <4> HIDE DEF TypeOK, Counted
      <4> QED BY <4>1, <4>2, RequestEndCounts
    <3> QED BY <2>12, <3>1, <3>2, <3>3, <3>4, <3>5, <3>6 DEF WorkerStep, WriteLarge
  <2> QED BY <2>1, <2>8, <2>9, <2>10, <2>11, <2>12 DEF Next
<1> QED BY <1>1, <1>2, TypeCorrect, LifeCorrect, PTL DEF Spec
=============================================================================
