# nshmqtt in TLA+

nshmqtt is a bridge between HTTP and MQTT: it publishes what HTTP clients send
(`/event`, `/metric`), keeps a store of current values with a file on disk, takes
messages from MQTT subscriptions into that store, and forwards some of them to a
webhook. This directory models the parts of it that run concurrently, must survive
failures or turn text into state, checks them with TLC on small instances, and proves with
TLAPS, for every value of the constants, every safety invariant the runs check, what a
configuration means included; only what two properties say of JSON texts stays with TLC.

`PROJECT.json` holds the machine-readable index: components, runs, mutants, the map
from definitions to source lines, findings, hazards and theorems.

## The system

| Component | State | Operations | Threads |
|---|---|---|---|
| MQTT pool (`src/src/mqtt.cpp`) | `queue_`, `running_`, per connection `connected_`, per job `done`/`outcome` | `start`, `stop`, `publish`, `worker_loop`, `try_connect`, `run_job`, `on_connection_lost` | HTTP workers, one worker per connection, Paho's threads, main |
| Incoming messages (`mqtt.cpp`, handler in `main.cpp`) | `incoming_queue_` | `on_message_arrived`, `subscribe_worker_loop`, the handler | Paho's thread, the subscribe worker |
| Webhook (`webhook.cpp`) | its bounded `queue_`, `running_` | `start`, `stop`, `enqueue`, `worker_loop` | subscribe worker, webhook worker, main |
| State store (`state.cpp`) | `values_`, `state.json`, `state.json.tmp` | `set`, `remove`, `snapshot`, `save`, `load` | HTTP workers, subscribe worker, main |
| HTTP worker pool (`thread_pool.cpp`) | `queue_`, `stop_` | `submit`, `shutdown`, `worker_loop` | main, HTTP workers |
| Server (`server.cpp`) | listeners, the socket file, `signal_fd_` | `init`, `run`, `cleanup`, `handle_connection`, `route` and its handlers | main, HTTP workers |
| Request reading (`http.cpp`) | the bytes received so far | `read_http_head`, `parse_http_request`, `read_http_body` | HTTP workers |
| Configuration (`config.cpp`, `config.h`) | `Config`, read once | `load_config`, `apply_env_overrides`, `apply_key` | main |
| JSON (`json_util.cpp`, `text_util.cpp`) | none | escaping, splitting, flattening | HTTP workers, subscribe worker, main |
| main (`main.cpp`) | the order of all the above | start, stop, option handling, `--health-check` | main |
| Metrics (`metrics.cpp`) | atomic counters | `record_*`, rendering, name normalisation | all |
| Pure helpers (`mqtt_topic.cpp`, `event_placeholders.cpp`, `webhook_json.cpp`) | none | matching, formatting | callers |

HTTP workers call `publish()`, which queues a job and waits for its outcome with a
timeout; connection workers take jobs and answer them. Paho calls back on threads of
its own. Metric writes change the store, save it, then publish. A message that arrives
goes through two bounded queues, each emptied by one worker. `main()` starts webhook,
MQTT and server in this order, and stops them in the reverse order.

What is hard here: outcomes that race timeouts; sessions that end while a worker
reconnects; several savers of one file; condition variables notified without their
mutex; shutdown while everything is busy; signals in a process with many threads; several
instances on one socket path; requests in segments of any size; documents that are cut or
nested. The list, with lines and the properties that cover each, is `hazards` in `PROJECT.json`.

What makes each part correct: the pool never loses, repeats or misreports a job and can
always be stopped; the state file is always loadable and never older than the last
successful save; messages are handled in order and every drop is counted; every accepted
HTTP connection is served and closed exactly once, also during shutdown; the socket the
process created goes with it, unless removing it fails; a setting is what its operator wrote, or the start is refused;
the store changes as the documents received say and in no other way.

## Modules

### MqttPool: the publish path

A job's name stands for one `publish()` call, its `Job` and the waiting HTTP thread.
`call[j]` is what the call is doing or returned; `done[j]`, `outcome[j]`, `qos[j]` are the
`Job`'s fields. `wpc[c]` is the place of connection `c`'s worker in `worker_loop()`,
`try_connect()` or `run_job()`; `held[c]` and `result[c]` are `run_job()`'s argument and
local. `connected[c]` is the flag, `link[c]` the session as Paho has it: they differ, and the
difference is the first of the divergences described below. `wire[j]` is how far the message got.

One action is one critical section or one Paho call: the check and push of `publish()`
under `queue_mutex_`; the pop in `worker_loop()`; `MQTTClient_connect()`, then, separately, the
store of `connected_`, then each `MQTTClient_subscribe()`; `publishMessage()`,
`waitForCompletion()`, and the store of the outcome under `done_mutex`. `wait_for()` may end at
any moment, for a notification, its timeout or a spurious wakeup, which is why notifications
need no state here. `PublishTimesOut` may fire whenever the job is not done.

External: `LinkBreaks`, `BrokerReceives`, `BrokerAcks`. A message that left may arrive at any
later time or never; an acknowledgement needs the session. QoS 2 is treated as QoS 1, since
the code treats them alike. Left out: `mqtt_reconnects_total` and the length of the back-off.
`subscriber` is the subscribe worker, which `stop()` joins between the connections and the sweep of the
queue; here it leaves at some time after `running_` is cleared, or never, as `Incoming` shows it may.
`publish()` may be called while `stop()` runs, as the class allows; in this program it is not
(`HttpServer`, `MqttOutlivesHandlers`), so the model has more behaviours than the program.

### StateFile and DurableState: the state file

`StateFile` has the store, and `save()` step by step per thread: snapshot, open and truncate
`.tmp`, write, rename, with an error possible at each, over two directory entries and inodes
that live while a name or an open stream refers to them. That is what makes two savers of one
`.tmp` come out as they do: each holds a stream to the same inode, and a rename moves the name
under the other's feet. `Crash` may strike at any step. The start after it is `LoadFile` (no file, or a
text that parses), `LoadUnopened` (a file that is there and cannot be opened: `state.cpp:54-58` takes this for
a fresh start, the store is empty and the next save overwrites the file) or `LoadRefused`. The handlers that change the store always save afterwards, so a change leads to a save. `Written`
is `format_double()`: digits beyond its precision are lost. `DurableState` is the promise
(`state.h`): one memory, one disk, the disk replaced in a single step by a complete state the memory had
when a save began. `SaveIsAtomic` states that `StateFile` implements it, with `disk` as what `load()` would
read, as long as saves do not overlap. Nothing in the code keeps them apart, so the model does not either:
the history variable `raced` is set when one `save()` meets another and cleared by the rename of one
that met none, and `unread` remembers a file `LoadUnopened` passed over. The properties say what holds
outside those times, and so that the damage of a race lasts no longer than to the next save by itself.

### Incoming: arriving messages, webhook, start and stop

Both workers wait on a condition variable without a timeout, so its steps matter: `test`
(predicate, under the mutex), `tested` (false, mutex still held), `blocked` (mutex released in
the same step), and a notification wakes only a blocked worker. Producers push under the mutex
and notify after it. `stop()` sets the flag and notifies in two steps without the mutex. Messages
are numbered by arrival; the topics say which match `subscribe_topics` (with a payload that is a
number or JSON) and which `webhook_topics`, by `MqttTopic`'s `topic_matches_any()`. The store update and its save are one step here;
`StateFile` has the steps of the save.

### MqttTopic: filters

`topic_matches_filter()` over levels, and `Denotes`, what MQTT 3.1.1 says a filter stands for.
`Incoming` routes messages with the first and checks it against the second;
`MqttTopicProofs` shows that they agree for topics and filters of any length.

### MetricSync: one metric in the store and on the broker

Composes the metric handlers, the publish path and the subscription for one topic. The publish
path is reduced to its effect: a FIFO queue, connections that take a job each and deliver it or
fail, callers that may stop waiting. `Deliver` is the broker: it retains the message and sends it
back. `Payload` is `format_double()`, so the echo of a value with more digits than it keeps is
another value. `StoreFollowsBroker` needs its two conditions: a lost publish leaves the store
ahead, and the empty message of a DELETE is ignored when it comes back.

### Config, SocketSetup and Startup: from the command line to a serving instance

`Config` is pure: a text is a sequence of blanks, separators and words, and what `strtol()` and
`parse_bool()` read of a word is a parameter. `Takes` is `apply_key()`: for each of the 41 keys the
kind of its value and the limits. `Configure` is the part of `main()` that reads file and environment.
A reading is the configuration so far, whether it was refused, and the number of warnings;
`load_config` is a function from the number of lines read to the reading after them.

`SocketSetup` has one step per system call on the socket's path, for any number of instances:
`lstat()`, the probe's `connect()`, `unlink()`, `bind()`, `chmod()`, `listen()`, and the `close()` and
`unlink()` of `cleanup()` and `~Server()`. `entry[p]` is what a path names: nothing, a plain file, the
socket an instance holds open, or a socket nobody holds. Any step of `setup_socket()` may fail, the probe too
(which the code takes for "nobody listens"), and so may the last `unlink()`, which is then not tried again
(`UnlinkFails`); an instance may be killed between any two steps. The history
variables `disturbed` and `orphans` remember paths two instances touched at once, or probed in vain,
and sockets left by a kill or a failed `unlink()`; the properties need them to say what is promised and to whom.

`Startup` composes the two: `Main(i)` reads the configuration of instance `i`, which refuses the
start or decides path and mode.

### HttpRead, JsonText, MetricNames and Ingest: from bytes to the store and out again

`HttpRead` is one connection: `recv()` returns any part of what the client sends, `read_until()`
tests the limit on all of it and then looks for the end, the head is parsed, the rest of the body
read. Of a head only its size and what `parse_http_request()` keeps of it are modelled; the text
behind it has one symbol per byte. Timeouts, errors and closing peers are `ReadEnds`, at any moment.

`JsonText` has every function of `json_util.cpp`, and `json_escape()` and `parse_double()`, over symbols:
a number or a literal is one symbol, structural characters and escapes are symbols of their own.
`parse_double()` looks at a C string: a NUL ends the number, and what follows it is ignored.
The recursion of `flatten_json_object_impl()` is a stack of fields still to be looked at, one per step
of `flatten_next`, so that it can be reasoned about. `MetricNames` is `normalize_metric_name()` and
`normalize_all()`, whose loop is the set of entries that claim a name first.

`Ingest` composes them with the store: `/metric` requests with authorisation and status, messages on
plain and JSON topics, `StateText` and `load`. A handler is one step here; its races are in
`MetricSync`, its save in `StateFile`, its publish in `MqttPool`. `MCIngest` writes documents,
which are trees, to text, so that `ValuesAsSent` compares what the code read with the tree and not
with another parser. What counts as a document is what the code takes for one: text behind the closing
brace, `nan` and what follows a NUL do not make a text malformed, and the run has messages and bodies
with each of them.

### HttpServer: accept loop, worker pool, connections, shutdown

`main` walks through `init()`, the `poll()` loop of `run()`, `cleanup()`, and the end of `main()`.
The worker pool has the condition-variable steps of `Incoming`, but sets `stop_` under the mutex. A worker walks
through `handle_connection()`: head, body, route, publish, respond, with the paths that close
without an answer. The kernel and the clients are external. A signal meets threads that do not block it:
one of them takes it, and its default action ends the process; or, as PID 1, which has no default
actions, the signal may stay for `signal_fd_` until `run()` reads it (`SignalArrives`) or be dropped by
the thread it was given to (`SignalDropped`), also between `poll()` and the blocking `read()`.
`MqttStop` is `main()`'s `mqtt.stop()` and `webhook.stop()`, which may not return.

## Runs

| Run | Shows |
|---|---|
| `pool_safe` | 2 calls, 2 connections, queue of 1. `OkMeansAcknowledged`, `RefusedMeansNeverPublished`, `PublishedOnce`, `OutcomeIsFinal`, `NothingLeftBehind`, `CountersAccountForJobs`, and `PoolInv`, the inductive invariant |
| `pool_live` | 1 call, 2 connections, 1 filter, fair. `WorkersStop`, `LostIsRetried` |
| `file_pass` | 2 savers, crashes, I/O errors, failed loads: `LoneSavesHeal`, `FileIsCurrent`, refinement `SaveIsAtomic` |
| `file_crash` | violation: two savers leave an empty `state.json` |
| `incoming_pass` | 4 messages, queues of 2 and 1: `NoMissedMessage`, `NoSilentDrop`, `CountersAddUp`, `PostedInOrder`, `QueuedIsTaken`, `RoutedAsSubscribed` |
| `incoming_stop` | violation: `stop()` hangs after a lost wakeup |
| `metric_pass` | 5 changes by 2 clients over 2 connections, all echoed: `StoreFollowsBroker` |
| `metric_echo` | violation: a late echo undoes a newer change |
| `http_pass` | 3 connections, 2 workers, 2 listeners: `AcceptedAreServed`, `OneOwner`, `MqttOutlivesHandlers`, `RequestsAccounted`, `AcceptedIsClosed`, `SignalEndsRun` |
| `http_signal` | violation: SIGTERM ends the process without cleanup |
| `startup_pass` | 2 instances, 2 paths: `ConfigIsMeant`, `ServingIsReachable`, `SocketGoesWithProcess` |
| `ingest_pass` | some 30 requests in every segmentation, 6 documents whole, cut at every symbol and followed by text: `RoutedWhole`, `RefusedForSize`, `ValuesAsSent`, `SavedTextLoads`, `ExposedOnce` |

Run one with `tlc -config MqttPool_safe.cfg MCMqttPool`, and so on.

### Bounds

Two calls and a queue of one make the queue fill, a job wait behind a worker and two workers
compete; two connections make `start()` fail half way. One filter lets `pool_live` go through the
subscription steps, which no other property of the pool depends on; `pool_safe` has none. In
`StateFile` two threads, one name and values apart by less and by more than `Precision` are enough
for every order of two saves; an inode per name and per stream plus one is all that can be in
use. Four messages fill both queues and leave some of each kind of topic. Five changes let two clients'
echoes overtake each other in both queues and on both connections. Three connections on
two workers keep one queued while both are busy. The proofs do not depend on any of these bounds.

`incoming_pass` does not check for deadlock because of the hang `incoming_stop` shows.
Every other passing run does.

In `Startup` one instance goes through every key at both ends of its range and one step beyond
each, repeated, unknown, commented and broken lines, and environment over file; the other
shares its path or not. Two instances are enough for every pair of system calls on a path to
meet. In `Ingest` a buffer of three bytes under limits of 5 and 13 makes heads end before, at and
after a `recv()` and bodies come with the head, after it, or both; the documents nest two deep,
hold brackets and quotes in strings, equal names and an escape; the names need every kind of
escape and collide for Prometheus.

### Fairness

Threads that can step do (weak fairness per thread). In the pool this is justified because every wait is bounded: `connectTimeout`,
the timeout of `waitForCompletion()`, the `wait_for()`s. In `Incoming` a POST is bounded by
`webhook_timeout_seconds`. In `HttpServer` reads and `publish()` have timeouts; `write_all()` has
none, so nothing is assumed of a large response, and the two liveness properties say so
(`PeersRead`). The joins of `mqtt.stop()` and `webhook.stop()` can hang (`incoming_stop`), so nothing is assumed of
`HttpServer`'s `MqttStop` nor of `MqttPool`'s `SubscriberLeaves`: `SignalEndsRun` ends where `mqtt.stop()` is
called, and `WorkersStop` says that `stop()` joins every connection and returns if the subscribe worker ends. Nothing is assumed of the broker, of clients, of `accept()` succeeding or of when a
stop comes. The number of connections is bounded, so an endless stream of clients that keeps the
inner accept loop busy is outside `SignalEndsRun`.

## Proofs

Each component has a module of proofs that extends the one TLC checks, so both speak of the same
definitions. A theorem holds for every value of the constants that satisfies the assumptions named
in the component's module; TLC evaluates these in the component's run. The assumptions:

| Module | Assumption | Why the code justifies it |
|---|---|---|
| `MqttPool` | finitely many calls; at least one connection and room for one job | `config.cpp` refuses sizes of 0 |
| `Incoming` | both queues have room for one message; topics and filters are sequences of at least one level | `config.cpp`; `split_levels()` returns at least one |
| `MqttTopic` | neither a wildcard nor the empty level begins with a `$` | what the symbols mean |
| `StateFile`, `MetricSync` | numbers are naturals, `Absent` is not one; the precision is positive | choice of representation |
| `HttpServer` | finitely many connections and workers, at least one worker and one listener | `config.cpp` takes 1 to 256 threads; the UNIX socket is always a listener |
| `SocketSetup`, `Startup` | what a path can name is distinct; the default and every accepted configuration name a path of `Paths` and a mode of `Modes`; a start has a file of lines of symbols, read, unreadable or absent, and variables for known keys only | the two sets are what the model calls the configured ones; `apply_env_overrides()` asks for the known keys only |
| `HttpRead` | buffer and limits are positive; a head has a byte; headers are pairs of texts; a readable length is an integer | `config.cpp`, `server.cpp`'s constants; a head ends in an empty line |
| `JsonText` | `parse_double()` reads the texts 0 and 1; codes have four hex digits, every control symbol has one, and none has another escape | `json_util.cpp:308-315` stores 1.0 and 0.0; `text_util.cpp:32-56` |
| `MetricNames` | digits and the underscore can be in a name, the underscore can begin one | `metrics.cpp:62-67` |
| `Ingest` | `NameOrder` lists, once each and none empty, all names that requests and messages give; messages and prefixes are texts | `NameOrder` stands for the order of the `std::map`; `route()` refuses an empty name and MQTT has no empty topic |

In almost every case the invariant a run checks is not inductive. What it takes, by module:

**`MqttPoolProofs`.** That an `Ok` was earned depends on the outcome a worker has yet to store,
that a refused message never leaves depends on no worker and no queue slot holding it, and that
`stop()` leaves nothing depends on every accepted job being somewhere. `PoolInv` is the
conjunction of these facts, and `pool_safe` checks it too:

* `QueuedJobs`: a queued job is queued once, unsent, undone, in nobody's hands;
* `HeldJobs`: a job in `run_job()` is in one worker's hands, undone, and sent exactly if that
  worker is past its `publishMessage()`; a decided result fits the message's fate;
* `AnsweredJobs`: a call's answer is its job's outcome, and an accepted job is done, queued or held;
* `JoinedWorkers`: a joined worker has left its loop, so the final sweep meets no held job.

`OkMeansAcknowledged`, `RefusedMeansNeverPublished`, `NothingLeftBehind`, `QueueBounded`,
`PublishedOnce` and `OutcomeIsFinal` follow. For `CountersAccountForJobs` each counting step is
shown to add one job to `Decided`, or to the refused ones, that was not in there: by `PoolInv`
an undone job is in one worker's hands only.

**`StateFileProofs`.** All theorems are about any number of threads saving at will. `LoneSavesHeal`,
`FileIsCurrent` and `SaveIsAtomic` hold whenever no race is open (`~raced`), and to prove that they hold again after
one takes facts about what a save that meets no other does even on a disk others left in any state:
`.tmp` and `state.json` are never one file, and a saver that met no other is alone in `save()`, has `.tmp` as its stream, finds it
complete before the rename, and has a snapshot that is the store unless another thread is still to take its own (`LoneSavers`).
With `Healed`, that outside a race `state.json` is a whole text, this is `FileInv`.
`SingleThreadIsAtomic` is the case of one saving thread, `threads=1` without a subscription: there `raced` stays
false, so all behaviours are `DurableState`'s and `CrashLeavesLoadable` holds without condition.

**`MetricSyncProofs`.** `StoreFollowsBroker` says something only when all is quiet. `SyncInv` says
what holds on the way there: only numbers are under way, and the last echo in `incoming` is of the
retained message. All of it is conditional on no publish having been missed and nothing deleted,
as the property is.

**`IncomingProofs`.** `TypeInv` adds to the types which worker exists at which step of `main()`;
`NoSilentDrop` follows from it. `SleepInv` adds that a worker between test and sleep has an empty queue,
because it has the mutex. `OrderInv` has the messages ascending along the whole
way, from `incoming_queue_` over the handler and the webhook's queue to the last POST, with the
store ahead of the webhook: `PostedInOrder`. `RoutedAsSubscribed` rests on `FilterMatchesItsMeaning` of
`MqttTopicProofs`, which needs no induction, as the loop is written as the set of
places where it would leave (`Stops`): the first one is the only `#`, or there is none.

**`HttpServerProofs`.** `LifeInv` says when workers, the queue and the MQTT client exist: a worker
leaves only with `stop_` set and nothing queued, and nothing is queued after that. `OwnerInv` says
that an accepted connection is in one slot of the queue or with one worker. Together they give
`AcceptedAreServed`, `OneOwner` and `MqttOutlivesHandlers`; `RequestsAccounted` is about the set of workers
between the two counters, one joining or leaving it per step.

**`StartupProofs`.** `LifeInv`: an entry that names an instance was made by it, and `socket_created_` is set
from `bind()` to `unlink()`, whatever others do in between; `SocketGoesWithProcess` needs no more. `PathInv` is
about paths nobody disturbed: one instance touches such a path at a time, the path names it from
`bind()` on with its mode from `chmod()` on, and while it listens no other gets past the probe. Both
need of `Configure` only the assumption above.

`ConfigIsMeant` compares what the loops compute with a definition that has no loop: the last line that
sets a key counts. The lemmas follow the text. `TrimPart`, `TrimWhole` and `TrimTwice`: what `trim()` leaves
begins and ends with something else than a blank, and trimming the line before or after it is split makes no
difference (`AssignsTrimmed`, `AssignedOfLine`). `LineLoads`: one line refuses, warns, or sets the one
key it assigns to. `FileLoads`: after `n` lines every key has the value of the last of these lines that sets it,
and all is refused as soon as one line is. `ConfigureMeans`: the same with the environment over it, and
`MeantIsWithinLimits`: within the limits the other modules assume, so these assumptions are theorems about
`config.cpp`. `ReadInv` says that a reading is what `Configure` makes of the instance's start and that nobody
works without an accepted one; `TypeOK` and `ConfigIsMeant` follow.

**`IngestProofs`.** `ReadInv` follows a request through `read_until()`: what was received is a
beginning of what was sent, the head's end is found in the segment that brings it, and the limits are
tested with each. `RoutedWhole`, `RefusedForSize` and the bound on the buffers (`ReadTypeOK`) follow, for
every segmentation. `LastPosition` is where `headers[name] = value` in a loop comes in: the last line of that name counts.

`StoreNames` says that every name in the store is one a request or a message gave. From it
`SnapshotLists` (the snapshot has every name once) and `AllNormalized` (the entries kept and the entries reported
share out the snapshot, and no two kept ones have the same name) give `ExposedOnce`; `NormalizedName` is the
part about names Prometheus accepts: whatever stood in the topic, prefix, underscore and body make one, if
the prefix can begin one. `StoreValues` says that every value is a number `parse_double()` read. For messages this is about
`flatten_json_object()`: `Flattens` is the walk over the stack, `FlattenStep` one field of it, and `FlattensKeeps`
carries the fact to the end of the text; with `ReadInv` and `StoreNames` it gives `TypeOK`.

`EscapedIsRead` is the half of the state file's round trip that is about names:
`json_unescape(json_escape(s)) = s` for every text `s`. `FlattenBlocks` says where the escape of each symbol
stands in the whole, `BlockIsRead` that `json_unescape()`, once it is at the beginning of one, reads the symbol and goes
on behind it. Then, from the last symbol to the first, what is read from there on is the rest of `s`.

Where these proofs go over a text they do it by hand, as the library's induction theorems cannot be
applied: the positions at which the claim fails have a least one (`LeastNumber`, from `WFMin`), and the step
refutes it. That a recursive function over a text exists, which its definition takes for granted, is proved
the same way (`StepByStep`, `FlattensExist`, `UnescapeExists`).

Before they were proved, the inductive invariants were checked by TLC on the bounds of the runs.

Only model-checked, and why:

* liveness (`WorkersStop`, `LostIsRetried`, `QueuedIsTaken`, `AcceptedIsClosed`, `SignalEndsRun`): the prover
  has no rules for fairness and `ENABLED`;
* `ValuesAsSent`: it compares what was read of a text with the tree the text was written from. The
  writer is `MCIngest`'s, recursive over trees, so a theorem would take an induction over trees for the writer and one over
  positions for every function of the parser, `skip_brackets()` among them. What is proved of it is
  `StoreIsTyped`: which names and values can get into the store at all.
* `SavedTextLoads`: the same for the text of the store, and for all its beginnings. Names alone are proved
  (`EscapedIsRead`); where the tokenizer ends each field is not.

## Findings

1. `file_crash`: `save()` is atomic for one caller only (`state.h:54`). Two savers can also finish
   in the wrong order, and the older snapshot stays (`README.md:737`): `FileIsCurrent` excepts the
   time from an overlap to the next save that meets no other for this reason.
2. `incoming_stop`: the untimed waits of the subscribe and webhook workers can miss `stop()`'s
   notification (`mqtt.h:109`).
3. `http_signal`: the signals are blocked in the main thread only, after other threads exist
   (`server.h:44`). As PID 1, the container case, the process is not killed, but the signal may be
   dropped by the thread that takes it instead of reaching `signal_fd_`.
4. `metric_echo`: the echo of a PUT may come after a newer PUT or a DELETE and undo it
   (README 612-615 rules this out). A deleted metric that comes back this way stays.

Divergences and limits without a run of their own:

* A session lost between `MQTTClient_connect()` and the store of `connected_` (`mqtt.cpp:267`) stays
  marked connected until a publish on it fails; on the primary, subscriptions stay dead meanwhile.
* `worker_loop()` does not test `connected_` again after its wait, so a connection that just went
  down takes a job and fails it, where `mqtt.h:66` says a connected one takes it.
* `ServingIsReachable` excepts paths that two instances set up or clean up at the same time, and
  paths whose live listener a probe missed. Without the exceptions it fails: an instance between
  `bind()` and `listen()` looks stale, one that stops removes whatever the path names by then
  (`server.cpp:906`), and a probe without a descriptor finds nobody (`server.cpp:158`).
* A subnormal value is accepted when its text is exact (`0x1p-1074`), and its saved text is
  refused by `load()` (`text_util.cpp:118`): the service does not start again until the file is
  edited. In the model `SavedTextLoads` has no other exception.
* `prometheus_mqtt_state_prefix` is taken as it is (`config.cpp:452`): a prefix that cannot begin a metric's name gives
  names Prometheus refuses. `ExposedOnce` therefore has the prefix as a condition.
* What follows the closing brace of a JSON object is ignored (`json_util.cpp:267`), where
  `json_util.h:43` says that a state file with trailing data is refused: `{"b":1}x` is stored. So are `nan` and
  a number followed by a NUL and anything else (`text_util.cpp:117-118`).
* A `state.json` that exists and cannot be opened is taken for a fresh start (`state.cpp:54-58`): the
  service comes up empty and its first save replaces the file.
* A configuration path that opens and cannot be read, a directory for one, ends `getline()` like the end of the
  file (`config.cpp:484`) and is accepted as empty; `Config`'s unreadable file is one that does not open.
* `unlink()` failing in `cleanup()` is logged and not repeated, in `~Server()` not looked at: the socket stays,
  and the next start removes it as stale.
* Messages still queued when `stop()` is called are discarded and not counted as dropped.
* `StoreFollowsBroker` is about `subscribe_topics=#`. With subscriptions off, the default, nothing brings store
  and broker together again after two PUTs that overtook each other.
* `max_request_bytes` counts body bytes that arrive with the head (`http.cpp:150`), so whether a
  request near the limit is answered 400 depends on segmentation; `RefusedForSize` gives the
  exact bound. Surplus bytes are cut when they come with the head and end the connection
  without an answer when they come later.

## Not modelled

* The command line's options and `--health-check`: a client of the service that exits, with no state.
* Splitting a request's head into lines, building answers, Prometheus rendering, placeholders,
  webhook JSON, logging: text without state or property.
* TLS, libcurl and Paho's internals. Power loss (`save()` does not fsync). `mqtt_reconnects_total`.
* The Prometheus textfile: one writer, same write-and-rename as `save()`.
* The descriptor limit: `accept()` may fail at any time, which is its effect.

## Plan

The components are modelled, and every invariant the runs check is a theorem. What could follow:

1. `SavedTextLoads`: `BlockIsRead` for `skip_json_string()` in place of `json_unescape()`, then for
   `Field` and `tokenize_flat_object()`: the blocks are the fields, the argument that of `EscapedIsRead`.
2. `ValuesAsSent`, for documents that are not nested, along the same way.

