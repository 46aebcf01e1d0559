----------------------------- MODULE HttpServer -----------------------------
(***************************************************************************)
(* The HTTP side of the service: Server::init(), the accept loop of         *)
(* Server::run() and cleanup() (src/server.cpp), the ThreadPool it feeds    *)
(* (src/thread_pool.cpp), handle_connection() on the pool's workers, and    *)
(* the part of main() around them (src/main.cpp).                           *)
(*                                                                         *)
(* A connection is one accepted socket.  The kernel (backlogs, signals) and *)
(* the peers are external.  What a request says is abstracted to the path   *)
(* it takes through handle_connection() and route(); what publish() and the *)
(* store do is in MqttPool and StateFile, the socket's directory entry in   *)
(* SocketSetup.                                                             *)
(***************************************************************************)
EXTENDS Integers, Sequences, FiniteSets

CONSTANTS Conns,      \* the connections clients may open
          NoConn,     \* "no connection in hand"
          Workers,    \* the pool's threads
          Listeners   \* the UNIX socket and the TCP listeners, in poll() order

ASSUME ConnsAssumption == IsFiniteSet(Conns) /\ NoConn \notin Conns
ASSUME WorkersAssumption == IsFiniteSet(Workers) /\ Workers # {}
ASSUME ListenersAssumption == Listeners \subseteq Nat /\ Listeners # {}

VARIABLES
  main,      \* where main() and Server::run() are
  masked,    \* the main thread blocks SIGTERM and SIGINT
  pending,   \* external: a signal waits for signal_fd_
  ready,     \* run(): listeners poll() found readable, yet to be served
  sigready,  \* run(): poll() found signal_fd_ readable
  mqtt,      \* the MqttClient is running
  stop,      \* ThreadPool::stop_
  queue,     \* ThreadPool::queue_
  wpc,       \* worker -> where it is
  fd,        \* worker -> the connection it handles
  conn,      \* external: connection -> what has become of it
  backlog,   \* external: listener -> connections not yet accepted
  requests,  \* the *_requests_total counters, summed
  responses, \* the responses counted by record_response()
  abandoned  \* history: requests counted whose body never came

process == <<main, masked, pending, mqtt>>
loop == <<ready, sigready>>
pool == <<stop, queue, wpc, fd>>
clients == <<conn, backlog>>
metrics == <<requests, responses, abandoned>>
vars == <<process, loop, pool, clients, metrics>>

MainPcs == {"signals", "socket", "tcp", "pool", "poll", "accept", "notify",
            "stop_flag", "stop_notify", "join", "close", "mqtt_stop", "destroy",
            "returned", "killed"}
WorkerPcs == {"unborn", "test", "tested", "blocked", "head", "body", "route",
              "publish", "respond", "respond_large", "exited"}

TypeOK ==
  /\ main \in MainPcs
  /\ {masked, pending, sigready, mqtt, stop} \subseteq BOOLEAN
  /\ ready \subseteq Listeners
  /\ queue \in Seq(Conns)
  /\ wpc \in [Workers -> WorkerPcs]
  /\ fd \in [Workers -> Conns \cup {NoConn}]
  /\ conn \in [Conns -> {"none", "backlog", "accepted", "closed", "reset"}]
  /\ backlog \in [Listeners -> SUBSET Conns]
  /\ {requests, responses, abandoned} \subseteq Nat

(* main() has started the webhook client and the MQTT client and their       *)
(* threads, and is about to call server.init().                              *)
Init ==
  /\ main = "signals" /\ masked = FALSE /\ pending = FALSE /\ mqtt = TRUE
  /\ ready = {} /\ sigready = FALSE
  /\ stop = FALSE /\ queue = << >>
  /\ wpc = [w \in Workers |-> "unborn"]
  /\ fd = [w \in Workers |-> NoConn]
  /\ conn = [k \in Conns |-> "none"]
  /\ backlog = [l \in Listeners |-> {}]
  /\ requests = 0 /\ responses = 0 /\ abandoned = 0

Goto(w, pc) == wpc' = [wpc EXCEPT ![w] = pc]

-----------------------------------------------------------------------------
(* Server::init() *)

(* sigprocmask(): the main thread only, the threads that exist keep theirs. *)
SetupSignals ==
  /\ main = "signals"
  /\ main' = "socket" /\ masked' = TRUE
  /\ UNCHANGED <<pending, mqtt, loop, pool, clients, metrics>>

(* The directory entry, and who else may be using it, is in SocketSetup. *)
SetupSocket ==
  /\ main = "socket"
  /\ main' = "tcp"
  /\ UNCHANGED <<masked, pending, mqtt, loop, pool, clients, metrics>>

SetupTcpListeners ==
  /\ main = "tcp"
  /\ main' = "pool"
  /\ UNCHANGED <<masked, pending, mqtt, loop, pool, clients, metrics>>

StartPool ==
  /\ main = "pool"
  /\ main' = "poll"
  /\ wpc' = [w \in Workers |-> "test"]
  /\ UNCHANGED <<masked, pending, mqtt, loop, stop, queue, fd, clients, metrics>>

(* One of the steps fails; main() stops the clients and returns. *)
InitFails ==
  /\ main \in {"signals", "socket", "tcp"}
  /\ main' = "mqtt_stop"
  /\ UNCHANGED <<masked, pending, mqtt, loop, pool, clients, metrics>>

-----------------------------------------------------------------------------
(* Server::run(): poll, accept what is there, look at the signal. *)

Poll ==
  /\ main = "poll"
  /\ pending \/ \E l \in Listeners : backlog[l] # {}
  /\ ready' = {l \in Listeners : backlog[l] # {}}
  /\ sigready' = pending
  /\ main' = "accept"
  /\ UNCHANGED <<masked, pending, mqtt, pool, clients, metrics>>

(* poll() fails other than with EINTR: the loop is left as by a signal. *)
PollFails ==
  /\ main = "poll"
  /\ main' = "stop_flag"
  /\ UNCHANGED <<masked, pending, mqtt, loop, pool, clients, metrics>>

(* No worker is inside wait(), between its test and blocking. *)
MutexFree == \A w \in Workers : wpc[w] # "tested"

(* submit(): a pool that is stopping closes the connection instead. *)
Submit(k) ==
  IF stop
  THEN /\ conn' = [conn EXCEPT ![k] = "closed"]
       /\ main' = "accept"
       /\ UNCHANGED queue
  ELSE /\ conn' = [conn EXCEPT ![k] = "accepted"]
       /\ queue' = Append(queue, k)
       /\ main' = "notify"

(* Mutant: nobody is woken after the push. *)
NotifyNobody ==
  /\ main = "notify"
  /\ main' = "accept"
  /\ UNCHANGED <<masked, pending, mqtt, loop, pool, clients, metrics>>

(* cv_.notify_one() *)
NotifyOne ==
  /\ main = "notify"
  /\ main' = "accept"
  /\ IF \E w \in Workers : wpc[w] = "blocked"
     THEN \E w \in Workers : wpc[w] = "blocked" /\ Goto(w, "test")
     ELSE UNCHANGED wpc
  /\ UNCHANGED <<masked, pending, mqtt, loop, stop, queue, fd, clients, metrics>>

(* The listeners are served in poll()'s order. *)
Serving(l) == main = "accept" /\ l \in ready /\ \A m \in ready : l <= m

Accept(l, k) ==
  /\ Serving(l)
  /\ k \in backlog[l]
  /\ MutexFree
  /\ backlog' = [backlog EXCEPT ![l] = @ \ {k}]
  /\ Submit(k)
  /\ UNCHANGED <<masked, pending, mqtt, loop, stop, wpc, fd, metrics>>

(* accept4() finds the backlog empty, or fails and leaves it as it is. *)
AcceptEnds(l) ==
  /\ Serving(l)
  /\ ready' = ready \ {l}
  /\ UNCHANGED <<process, sigready, pool, clients, metrics>>

(* signal_fd_ is blocking: read() returns when there is a signal to read. *)
CheckSignal ==
  /\ main = "accept" /\ ready = {}
  /\ sigready => pending
  /\ main' = IF sigready THEN "stop_flag" ELSE "poll"
  /\ pending' = IF sigready THEN FALSE ELSE pending
  /\ sigready' = FALSE
  /\ UNCHANGED <<masked, mqtt, ready, pool, clients, metrics>>

-----------------------------------------------------------------------------
(* cleanup(): ThreadPool::shutdown(), then the sockets; then main()'s end. *)

StopFlag ==
  /\ main = "stop_flag" /\ MutexFree
  /\ main' = "stop_notify" /\ stop' = TRUE
  /\ UNCHANGED <<masked, pending, mqtt, loop, queue, wpc, fd, clients, metrics>>

(* Mutant: notify_one(), with several workers asleep. *)
StopNotifyOne ==
  /\ main = "stop_notify"
  /\ main' = "join"
  /\ IF \E w \in Workers : wpc[w] = "blocked"
     THEN \E w \in Workers : wpc[w] = "blocked" /\ Goto(w, "test")
     ELSE UNCHANGED wpc
  /\ UNCHANGED <<masked, pending, mqtt, loop, stop, queue, fd, clients, metrics>>

StopNotify ==
  /\ main = "stop_notify"
  /\ main' = "join"
  /\ wpc' = [w \in Workers |-> IF wpc[w] = "blocked" THEN "test" ELSE wpc[w]]
  /\ UNCHANGED <<masked, pending, mqtt, loop, stop, queue, fd, clients, metrics>>

(* Mutant: the workers are detached instead of joined. *)
Detach ==
  /\ main = "join"
  /\ main' = "close"
  /\ UNCHANGED <<masked, pending, mqtt, loop, pool, clients, metrics>>

Join ==
  /\ main = "join"
  /\ \A w \in Workers : wpc[w] = "exited"
  /\ main' = "close"
  /\ UNCHANGED <<masked, pending, mqtt, loop, pool, clients, metrics>>

(* The listeners, with what is in their backlogs. *)
CloseSockets ==
  /\ main = "close"
  /\ main' = "mqtt_stop"
  /\ conn' = [k \in Conns |-> IF conn[k] = "backlog" THEN "reset" ELSE conn[k]]
  /\ backlog' = [l \in Listeners |-> {}]
  /\ UNCHANGED <<masked, pending, mqtt, loop, pool, metrics>>

(* mqtt.stop() and webhook.stop(), if they return: see MqttPool and Incoming. *)
MqttStop ==
  /\ main = "mqtt_stop"
  /\ main' = "destroy" /\ mqtt' = FALSE
  /\ UNCHANGED <<masked, pending, loop, pool, clients, metrics>>

(* ~Server(): what a failed init() had set up goes. *)
Destroy ==
  /\ main = "destroy"
  /\ main' = "returned"
  /\ conn' = [k \in Conns |-> IF conn[k] = "backlog" THEN "reset" ELSE conn[k]]
  /\ backlog' = [l \in Listeners |-> {}]
  /\ UNCHANGED <<masked, pending, mqtt, loop, pool, metrics>>

-----------------------------------------------------------------------------
(* ThreadPool::worker_loop() *)

TestFails(w) ==
  /\ wpc[w] = "test" /\ MutexFree
  /\ queue = << >>
  /\ Goto(w, IF stop THEN "exited" ELSE "tested")
  /\ UNCHANGED <<process, loop, stop, queue, fd, clients, metrics>>

Block(w) ==
  /\ wpc[w] = "tested"
  /\ Goto(w, "blocked")
  /\ UNCHANGED <<process, loop, stop, queue, fd, clients, metrics>>

(* Mutant: a worker that sees stop_ leaves whatever is queued. *)
TakeUnlessStopped(w) ==
  /\ wpc[w] = "test" /\ MutexFree
  /\ queue # << >>
  /\ IF stop
     THEN Goto(w, "exited") /\ UNCHANGED <<fd, queue>>
     ELSE /\ fd' = [fd EXCEPT ![w] = Head(queue)]
          /\ queue' = Tail(queue)
          /\ Goto(w, "head")
  /\ UNCHANGED <<process, loop, stop, clients, metrics>>

Take(w) ==
  /\ wpc[w] = "test" /\ MutexFree
  /\ queue # << >>
  /\ fd' = [fd EXCEPT ![w] = Head(queue)]
  /\ queue' = Tail(queue)
  /\ Goto(w, "head")
  /\ UNCHANGED <<process, loop, stop, clients, metrics>>

-----------------------------------------------------------------------------
(* handle_connection(), and route() under it. *)

CloseFd(w) ==
  /\ conn' = [conn EXCEPT ![fd[w]] = "closed"]
  /\ fd' = [fd EXCEPT ![w] = NoConn]
  /\ Goto(w, "test")

(* record_request(), record_response(): one counter each, by path or status. *)
RecordRequest == requests' = requests + 1
RecordResponse == responses' = responses + 1

(* The head is there: too large, malformed, chunked or with too large a body *)
(* it is answered at once; else a body may have to be read before route().   *)
RequestRead(w, to) ==
  /\ wpc[w] = "head"
  /\ RecordRequest
  /\ Goto(w, to)
  /\ UNCHANGED <<process, loop, stop, queue, fd, clients, responses, abandoned>>

(* Nobody sent a head: closed, timed out or failed.  There is no answer and  *)
(* nothing to count.                                                         *)
HeadFails(w) ==
  /\ wpc[w] = "head"
  /\ CloseFd(w)
  /\ UNCHANGED <<process, loop, stop, queue, backlog, metrics>>

BodyRead(w) ==
  /\ wpc[w] = "body"
  /\ Goto(w, "route")
  /\ UNCHANGED <<process, loop, stop, queue, fd, clients, metrics>>

(* Mutant: a connection whose body does not come is left open. *)
BodyFailsOpen(w) ==
  /\ wpc[w] = "body"
  /\ fd' = [fd EXCEPT ![w] = NoConn]
  /\ Goto(w, "test")
  /\ abandoned' = abandoned + 1
  /\ UNCHANGED <<process, loop, stop, queue, clients, requests, responses>>

(* The body does not come: counted as a request, never answered. *)
BodyFails(w) ==
  /\ wpc[w] = "body"
  /\ CloseFd(w)
  /\ abandoned' = abandoned + 1
  /\ UNCHANGED <<process, loop, stop, queue, backlog, requests, responses>>

(* route(): events and metric changes publish, everything else is answered   *)
(* from memory; only the Prometheus views may outgrow a socket buffer.       *)
Route(w, to) ==
  /\ wpc[w] = "route"
  /\ Goto(w, to)
  /\ UNCHANGED <<process, loop, stop, queue, fd, clients, metrics>>

(* publish() returns, after its timeout at the latest. *)
PublishReturns(w) ==
  /\ wpc[w] = "publish"
  /\ Goto(w, "respond")
  /\ UNCHANGED <<process, loop, stop, queue, fd, clients, metrics>>

(* Mutant: a response is taken off its counter. *)
RespondUncounted(w, from) ==
  /\ wpc[w] = from
  /\ responses' = responses - 1
  /\ CloseFd(w)
  /\ UNCHANGED <<process, loop, stop, queue, backlog, requests, abandoned>>

(* Mutant: error responses are written but not recorded. *)
RespondUnrecorded(w, from) ==
  /\ wpc[w] = from
  /\ CloseFd(w)
  /\ UNCHANGED <<process, loop, stop, queue, backlog, metrics>>

(* record_response(), write_all() and close(). *)
Respond(w, from) ==
  /\ wpc[w] = from
  /\ RecordResponse
  /\ CloseFd(w)
  /\ UNCHANGED <<process, loop, stop, queue, backlog, requests, abandoned>>

-----------------------------------------------------------------------------
(* Clients and the kernel (external). *)

(* A client connects to a listener: bind() and listen() are behind us. *)
ClientConnects(l, k) ==
  /\ main \in {"tcp", "pool", "poll", "accept", "notify", "stop_flag", "stop_notify",
               "join", "close"}
  /\ conn[k] = "none"
  /\ conn' = [conn EXCEPT ![k] = "backlog"]
  /\ backlog' = [backlog EXCEPT ![l] = @ \cup {k}]
  /\ UNCHANGED <<process, loop, pool, metrics>>

(* SIGTERM or SIGINT, sent to the process while it serves.  The clients'     *)
(* threads do not block it: the kernel gives it to one of them, and its      *)
(* default action ends the process.  PID 1 has no default action: once the   *)
(* main thread blocks the signal it may stay for signal_fd_ ...              *)
SignalArrives ==
  /\ main \notin {"returned", "killed"}
  /\ \/ main' = "killed" /\ UNCHANGED pending
     \/ masked /\ ~pending /\ pending' = TRUE /\ UNCHANGED main
  /\ UNCHANGED <<masked, mqtt, loop, pool, clients, metrics>>

(* ... unless the thread it was given to takes it first, and drops it. *)
SignalDropped ==
  /\ main \notin {"returned", "killed"}
  /\ pending /\ pending' = FALSE
  /\ UNCHANGED <<main, masked, mqtt, loop, pool, clients, metrics>>

Ended == main \in {"returned", "killed"} /\ UNCHANGED vars

-----------------------------------------------------------------------------
MainStep ==
  \/ SetupSignals \/ SetupSocket \/ SetupTcpListeners \/ StartPool \/ InitFails
  \/ Poll \/ PollFails \/ NotifyOne \/ CheckSignal
  \/ \E l \in Listeners : AcceptEnds(l) \/ \E k \in Conns : Accept(l, k)
  \/ StopFlag \/ StopNotify \/ Join \/ CloseSockets \/ Destroy

WorkerStep(w) ==
  \/ TestFails(w) \/ Block(w) \/ Take(w)
  \/ \E to \in {"respond", "body", "route"} : RequestRead(w, to)
  \/ HeadFails(w) \/ BodyRead(w) \/ BodyFails(w)
  \/ \E to \in {"publish", "respond", "respond_large"} : Route(w, to)
  \/ PublishReturns(w)
  \/ Respond(w, "respond")

WriteLarge(w) == Respond(w, "respond_large")

Alive == main \notin {"returned", "killed"}

Next ==
  \/ MainStep \/ MqttStop
  \/ \E w \in Workers : Alive /\ (WorkerStep(w) \/ WriteLarge(w))
  \/ \E l \in Listeners, k \in Conns : ClientConnects(l, k)
  \/ SignalArrives \/ SignalDropped
  \/ Ended

Spec == Init /\ [][Next]_vars

(* The main thread and the workers run: reads and publish() have timeouts.   *)
(* write_all() has none: a large response waits for a peer that reads, so    *)
(* nothing is assumed of WriteLarge; nor of MqttStop, whose joins may never  *)
(* return (run incoming_stop).                                               *)
Fairness ==
  /\ WF_vars(MainStep)
  /\ \A w \in Workers : WF_vars(Alive /\ WorkerStep(w))

FairSpec == Spec /\ Fairness

-----------------------------------------------------------------------------
(* Properties. *)

(* thread_pool.h: "a clean shutdown finishes serving what was already        *)
(* accepted".  When run() has closed its sockets no accepted connection is   *)
(* left open, queued or in a worker's hands.                                 *)
AcceptedAreServed ==
  main \in {"mqtt_stop", "destroy", "returned"} =>
    /\ queue = << >>
    /\ \A k \in Conns : conn[k] # "accepted"
    /\ \A w \in Workers : fd[w] = NoConn

(* No connection is handled by two workers, or closed while another worker   *)
(* or the queue still has its descriptor: a number the kernel reuses is      *)
(* never closed twice.                                                       *)
OneOwner ==
  \A k \in Conns :
    Cardinality({w \in Workers : fd[w] = k}) + Cardinality({i \in 1 .. Len(queue) : queue[i] = k})
      = IF conn[k] = "accepted" THEN 1 ELSE 0

(* A handler never calls publish() on a client that was stopped: the pool is *)
(* joined before main() stops the MQTT client.                               *)
MqttOutlivesHandlers == \A w \in Workers : wpc[w] = "publish" => mqtt

(* Every request counted is being handled, was answered and counted, or had  *)
(* no body: the request and the response counters never drift apart.          *)
RequestsAccounted ==
  requests = responses + abandoned
               + Cardinality({w \in Workers : wpc[w] \in {"body", "route", "publish",
                                                         "respond", "respond_large"}})

(* Peers read what they asked for, or go away: no write_all() blocks for ever. *)
PeersRead == \A w \in Workers : []<>(wpc[w] # "respond_large")

(* An accepted connection is served to its end, however workers fall asleep  *)
(* and the pool is shut down, provided no peer blocks a write for ever and   *)
(* no signal kills the process.                                              *)
AcceptedIsClosed ==
  PeersRead => \A k \in Conns : conn[k] = "accepted"
                                  ~> conn[k] = "closed" \/ main = "killed"

(* run() is over, its cleanup() included, or was never reached. *)
RunOver == main \in {"mqtt_stop", "destroy", "returned", "killed"}

(* run() looks at a signal that stays for signal_fd_, however many of the    *)
(* clients' connections it has to accept first; and once it has read one it  *)
(* ends, with cleanup(), provided no peer blocks a write for ever:           *)
(* ThreadPool::shutdown() wakes and joins every worker.  What main() does    *)
(* next, mqtt.stop() and webhook.stop(), is not promised to return.          *)
SignalEndsRun ==
  PeersRead => /\ pending ~> ~pending \/ RunOver
               /\ main = "stop_flag" ~> RunOver

(* server.h on run(): "Runs the accept loop until SIGTERM/SIGINT. Returns a  *)
(* process exit code (0 on clean shutdown)": once setup_signals() has run,   *)
(* no signal ends the process without cleanup().                             *)
SignalNeverKills == main = "killed" => ~masked
=============================================================================
