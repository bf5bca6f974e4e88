# Verification of metricq-cpp

TLA+ models of the C++ client library of MetricQ, the TLC configurations that
check them, and TLAPS proofs of the main results. Paths are relative to the
repository (`src/…` is its library directory, `include/metricq/…` its headers).

## The system

Every client is one object derived from `Connection`, driven by one
single-threaded asio `io_service`. All concurrency is that of completion
handlers: each runs to its end, but their order is decided by the network, the
clock and the broker. An exception that leaves a handler leaves
`io_service::run()` and ends the program.

| Component | State | Operations | Used by / uses |
|---|---|---|---|
| `AsioConnectionHandler` (`connection_handler.{hpp,cpp}`) | send queue with an offset into its first buffer, `flush_in_progress_`, heartbeat timer, `connection_` (AMQP-CPP), socket | connect, handshake, read, flush, beat, close; callbacks `onData`, `onNegotiate`, `onClosed`, `onError` from AMQP-CPP | one per AMQP connection |
| `Connection` (`connection.{hpp,cpp}`) | management connection and channel, RPC callbacks, outstanding RPCs with a timeout guard each | connect, rpc, handle_management_message, stop, close | owns a handler; base of everything below |
| `Timer` (`timer.{hpp,cpp}`) | wait, interval, running flag | start, restart, cancel; a callback that may ask to repeat | RPC guards, examples |
| `DataClient` (`data_client.*`) | data connection and channel, its address | data_config, close | owns a second handler |
| `Sink`, `Source`, `Transformer`, `Db`, `Drain` | data queue or exchange, set-up flag, metadata | subscribe, register, consume, declare, send, on_data | derived from `DataClient` |
| `HistoryClient` | a data connection of its own, history queue | request, on_history_response, close | like `DataClient` |
| `Subscriber`, `RpcRequest`, `simple.*` | result of one exchange | one RPC, then stop | derived from `Connection` |
| `Metric`, `DataChunkIter`, `HistoryResponse` iterators | chunk under construction, last timestamp | send, flush, iterate | sources and sinks |
| `metricq-summary` | collected values | filter, statistics | a drain |

What makes these correct, and what is hard:

* **Connection handler.** Bytes must leave once and in order although sends
  are partial and are requested from every handler; there may be only one
  write; a flush that was refused because the socket was closed or busy must be
  made up for; the heartbeat must never stop; a close must wait for everything
  sent before. Hard: which handlers are already queued when the socket or the
  timer is closed.
* **RPC layer.** A response callback runs at most once, only while its RPC is
  outstanding, although callbacks make further RPCs, stop the client or throw,
  and answers come twice, late or never. Every message is acknowledged once.
* **Shutdown.** The data connection closes before the management connection,
  and then the loop ends.
* **Sinks, sources.** Configuration may come again while queue set-up is under
  way; declared metadata may be stale; all data before the end marker of a drain
  must be processed before the queue is released.
* **Data.** Encoder and decoder of delta timestamps agree; statistics of small
  inputs.

The whole list, each at its line, is under `hazards` in `PROJECT.json`.

## Modules

| Module | Models | Runs / proofs |
|---|---|---|
| `ByteStream` | abstract: what a connection promises AMQP-CPP | refined by `ConnectionHandler` |
| `ConnectionHandler` | `connection_handler.{hpp,cpp}` | `conn_*`, `ConnectionHandlerProofs` |
| `RpcContract` | abstract: what `rpc()` promises its caller | refined by `Client` |
| `Client` | `connection.{hpp,cpp}`, `data_client.*`, `RPCResponseGuard`, `final_action` | `client*`, `ClientProofs` |
| `Timer` | `timer.{hpp,cpp}` | `timer*`, `TimerProofs` |
| `DataSetup` | `sink.*`, `drain.*`, `source.*`, `transformer.*`, `db.*` up to the consumption of data | `setup`, `DataSetupProofs` |
| `Producer` | `metric.hpp`, `DataChunkIter` (`types.hpp`), `send()`, the ticks of the dummy sources | part of `session`; `ProducerProofs` |
| `Summary` | `Summary::calculate()` of `metricq-summary` (operators only) | part of `session`; `DrainSessionProofs` |
| `SessionContract` | abstract: what a recorded session promises | refined by `DrainSession` |
| `DrainSession` | `subscriber.*`, `drain.*`, `simple*`, `rpc_request.hpp`, `Sink::on_data()`, `metricq-summary`, the dummy sink | `session`, `DrainSessionProofs` |
| `History` | `history_client.*`, the history side of `db.cpp`, the views of `types.hpp`, the dummy history client | `history`, `HistoryProofs` |
| `SequenceFacts` | lemmas about numbers and sequences | used by the proofs about `Producer`, `DrainSession`, `History` |
| `MC…` | values of the constants, from the `.cfg` files | |

### ConnectionHandler

Variables are the members: `buffers`/`offset` are `send_buffers_`,
`flushInProgress`, `interval`, `armed` + `beats` the heartbeat timer. A byte is
named by its position in the stream AMQP-CPP produces, so `wire = <<1, 2, …>>`
says that nothing was lost, repeated or reordered. `writes` holds the
asynchronous write that is outstanding with its state: *pending* in the kernel,
*done* or *failed* with its handler still queued. This difference matters when
the socket is closed: asio aborts the pending operation, but a done one still
reports success. In the same way `armed` is a wait that can be cancelled,
`beats` the expired waits that cannot.

An action is one handler. The read handler is one action per kind of AMQP frame
because `parse()` calls back into the handler: `FrameStart`, `FrameTune`
(`onNegotiate`), `FrameOpenOk`, `FrameAnswered`, `FrameDrained` (a postponed
close is sent), `FrameCloseOk` (`onClosed`). AMQP-CPP's own state is reduced to
`amqp`, `closeWanted` and `asked`, the stream position the broker must have seen
before it can answer. `Publish` and `Close` are calls of the owner. When the
library sends depends on its internals; the sends that do not bring the
handshake forward are optional and bounded by `MaxBytes`.

### Client

Each connection is reduced to *none, up, closing, closed*; *closing* lasts
until the broker confirms, and messages that were under way are still handled
in that time, with sends going nowhere. RPCs are numbered (correlation ids are
fresh uuids). `entries` is the key set of `rpc_response_callbacks_`; `armed` and
`expired` again tell a wait that `cancel()` reaches from one it does not. The
handlers of derived classes are the nondeterministic `Callback`: make an RPC,
apply a data configuration (responses only), stop, throw. A timeout whose guard
was destroyed after its timer expired runs on a dead object: it may do nothing,
throw or crash. The manager answers any RPC it received, again if it likes.
`Addresses = {}` gives a class derived directly from `Connection`.

Of `handle_management_message()` the branch "response callback vanished" does
not occur: nothing a callback can call erases entries. A failed parse of a
message is part of `LinkFails`: the exception leaves the loop.

### Timer

`waits` counts the waits of `timer_` that `cancel()` and `expires_after()`
reach, `queued` the expired ones they do not; `expiry` is `expires_at()`.
`Start` is `start()` and `restart()`, `StartRejected` a `start()` that throws
with `interval_` already overwritten. `Callback` is `timer_callback()` with all
the user's callback may do to its own timer before it returns: nothing, start or
cancel. `Deadlines` is the catch-up loop; where it does not end (interval 0 in
the past) there is no step. `started` is the only history variable.

### DataSetup

One client of any of the classes derived from `DataClient`, from its connection
to its consumer. `calls` are its unanswered RPCs, answered in any order (what
`RpcContract` allows; how is in `Client`); `ops` are the declarations and consume
requests on the data channel the broker has not confirmed, in the order they were
sent; each carries the queue name of the time it was made, which is where a later
`data_queue()` can get apart from it. `dataQueue` is `data_queue_`, `setUp` is
`is_data_queue_set_up_`. `declared` is a history variable that says for each metric
in which stage it was last declared. The answers of the manager name any queue; the
exception for a name that may not change any more is `Throw`. The choices of the
application (which metrics it offers, when it subscribes) are the existential
quantifiers.

A second, different server address is in `Client`. `metadata_` is left out: only the
application reads it.

### Producer, Summary and DrainSession

`Producer` has the state of `Metric` per metric (`chunk`, `previous`, `chunkSize`)
and the calls of an application in any order, or the ticks of a dummy source with
its `stopped` and `ticking` timer. `buffered` and the `rows` of a published chunk
are history: what the application gave to `send()`. `DrainSession` EXTENDS it and
adds the queue of the broker, the manager and one of three consumers:
`metricq-summary` (three objects one after the other: `Subscriber`, the command,
`SimpleDrain`), the dummy sink, or a single RPC. `calls` has per RPC whether the
manager served it and whether the answer was handled, since data is delivered
between the two. `SessionContract` has no chunks, no queue and no manager: rows that
were routed, rows that were handed over, and the end. The refinement says that a
session completes only with every routed row handed over, once and in order; the
end message makes this hard, as routing goes on while the unsubscribe is on its way.

`Summary` is `Summary::calculate()` with exact fractions instead of doubles. The
window drops the rows at its ends even for deltas of 0, as the code does. The
median's positions are those of the code, also where they are past the end. Sum and
window are recursive functions along the rows, sorting a permutation that ascends.

### History

A client, the broker's two queues and a database. `asked` gives the metric of each
request by its number (correlation ids are fresh uuids); `ops` is what the client
sent on its channel, `dbSends` what the database sent on its own; both are lost
with their connection. The database acknowledges after it has published, in this
order on one channel (`Sends`); a crash between the two, or before both got out,
makes the broker offer the request again. Responses carry delta-encoded times;
`ValueView` and `AggregateView` are the iterators over them, `Handed` the choice
among the application's three functions. What a database stores is an input; that an
aggregate's sum and integral are those of values between its minimum and maximum
(`AggregateAssumption`) is what such a record means (`history.proto`), and the
databases are not in this repository.

## Checks

| Run | Shows | Bounds |
|---|---|---|
| `conn_safety` | `WireInOrder`, `SingleWriter`, `NoLostFlush`, `WriteOnlyWhenUp`, `QueueAndReadAsserts`, `HeartbeatChain`, `GracefulClose`, `NoBlowUp`; implements `ByteStream` | blocks of 1 and 3 bytes (partial writes, several per buffer), 9 bytes before optional sends stop, timeouts 0 and 2, two queued beats |
| `conn_liveness` | `AllSent`, `CloseCompletes` with TLS and throwing channel callbacks | 1-byte blocks, 7 bytes |
| `conn_beat_assert` | finding: `NoAssert` is violated | |
| `conn_timeout_one` | finding: `HeartbeatPromised` is violated with a timeout of 1 s | |
| `client` | `AckedOnce`, `Guarded`, `CloseOrder`, `RpcSettles`, `StopEnds`; implements `RpcContract` | two RPCs (one may be made in the callback of the other), three messages (both answered, one twice; or a request), two addresses |
| `client_quiet_close` | finding: `QuietClose` is violated | |
| `client_management_last` | finding: `ManagementLast` is violated | |
| `timer` | `RunningFires`, `NoDrift`, `FutureDeadline`, one wait at most (`TypeOK`) | intervals 2 and 3, 9 ticks (several missed deadlines), two queued handlers |
| `timer_early` | finding: `NotEarly` is violated | |
| `setup` | `NamedQueueServed`, `StaysOnQueue`, `ReadyBeforeData`, `DeclaredWhenReady`, `SetupCompletes` | all five kinds of clients, two queue names (every answer may bring the other one), two metrics, two further subscriptions or config requests |
| `session` | `ChunksDecode`, `FlushedInTime`, `QuartilesSplit`, `SessionEnds`; implements `SessionContract` | two metrics; three rows with times that go back, chunk sizes 0 to 2; or six rows of a dummy source in two chunks, four of them in the window, in every order and with ties; each RPC may be refused or never answered |
| `history` | `NoRequestLost`, `TrueAnswers`, `DuplicatesNeedCrash`, `Answered` | two requests for two stored metrics (one without data) or one that nobody serves, two crashes; three rows, and aggregates with and without active time |

The bounds are enough for the cases that matter: two blocks in the queue while
a partial write is under way, a write and a beat queued when the connection
closes, a nested RPC whose outer entry is erased afterwards, a duplicate answer,
an error with another RPC outstanding; two configurations with different queues in
each order with the declaration and the consumer of the first; an end message
before, between and behind chunks; a chunk size lowered below what a chunk holds; a
database that dies with a response out and its acknowledgement not. The safety
properties of the passing runs do not depend on them: they are all proved for all
values. Deadlock is not checked because the loop
really ends (`loop # "running"`).

**Fairness.** `ConnectionHandler!Fairness` assumes that queued handlers run,
that the resolver, TCP and TLS finish one way or the other, that the kernel
takes outstanding bytes, and that the broker answers what it received. Nothing is
assumed of the application, of timers or of failures. `Client!Fairness`: time
passes, queued timer handlers run, the broker confirms a close. The manager need
not answer; that is what the RPC timeouts are for. `DataSetup!FairSpec`: the broker
confirms an operation unless it closes the channel. `DrainSession!FairSpec`: a
program that was started goes on, the command ends, the manager answers and the
broker delivers; nothing is assumed of the producer, and a lost connection or a
timeout ends a program at any time (`Fails`). `History!FairSpec`: messages get
through and the database is started again. Requests of the manager, signals,
refusals and crashes are never fair.

### Findings

1. *Heartbeat assertion after an orderly close* (`connection_handler.cpp:483`).
   A wait of the heartbeat timer that expired in the same turn as the
   confirmation of the close cannot be cancelled (314); `beat()` then runs with
   `connection_` already reset.
2. *Heartbeats off for a timeout of one second* (`connection_handler.cpp:189`).
   `timeout / 2` is an integer division, and 0 means no heartbeat.
3. *An RPC outlives the connections* (`connection.cpp:340`). A client that stops
   with an unanswered RPC, or whose callback makes one while the channel closes,
   does not stop "once all connections are closed": it waits for the RPC's timer
   and ends with the exception "Timeout during RPC".
4. *A data connection opened behind the close* (`data_client.cpp:97`). `close()`
   before the answer with the data configuration closes the management
   connection at once; the answer then opens a data connection that nothing
   closes. `StopEnds` is stated with this exception. `HistoryClient::close()`
   (`history_client.cpp:187`) has the same shape.
5. *A restarted timer fires early* (`timer.cpp:73`). A handler that is queued
   already is not cancelled by `start()` or `cancel()`, against the comment at 71:
   the callback runs early, and by returning repeat makes a cancelled timer wait
   again.

Disagreements without a run of their own, as no document says what is meant:

* `summary.cpp:87` takes element `n / 2 + 1` of `n` rows as the median, one above the
  middle, and reads past the end for `n = 1` and, at line 92, `n = 2`;
  `QuartilesSplit` therefore says nothing of `quart50`. With two rows or fewer the
  window is always empty and the assertion in line 53 fails.
* `subscribe()` and `drain()` return normally when the manager refuses
  (`simple.cpp:48`, `connection.cpp:212`): `metricq-summary` runs the command with an
  empty queue name and then fails, or prints statistics of a part.
* A queue that expires between the answer to `sink.unsubscribe` and its declaration
  closes the data channel, which is only logged (`data_client.cpp:92`): the drain
  waits without end. `SessionEnds` has this exception (`consumer = "dead"`).
* A response with neither values nor an error is handed over as aggregates
  (`history_client.cpp:210`), also if rows were asked for and there are none.
* The chunk size a source announces is that of its first declaration
  (`source.cpp:101`); the dummy source sets it to 0 only afterwards.

## Proofs

TLAPS proves, for all values of the constants (under `HandlerAssumption`,
`ClientAssumption`, `TimerAssumption`, `SetupAssumption`, `ProducerAssumption`,
`SessionAssumption`, `HistoryAssumption` and `AggregateAssumption`, which give them
types and ranges), every invariant and every action property of the passing runs, and
that `ConnectionHandler`, `Client` and `DrainSession` implement their abstract
specifications:

* `ConnectionHandlerProofs`: `Invariance` (`Spec => []Inv`), from it each safety
  property of `conn_safety` (`TypeCorrect`, `WireIsInOrder`, `OnlyOneWriter`,
  `FlushNeverLost`, `WritesWaitForSetup`, `AssertsHold`, `CloseIsGraceful`,
  `CloseDoesNotBlowUp`, `HeartbeatNeverForgotten`) and `ImplementsByteStream`.
* `ClientProofs`: `ClientInvariance`, `ClientTypeCorrect`, `MessagesAckedOnce`,
  `RpcsGuarded`, `DataClosesFirst` and `ImplementsContract`.
* `TimerProofs`: `TimerInvariance`, `TimerTypeCorrect`, `TimerRunningFires`,
  `TimerNoDrift` and `DeadlinesInFuture`, for all positive intervals
  (`TimerAssumption`).
* `DataSetupProofs`: `SetupInvariant`, and from it `SetupTypeCorrect`,
  `SetupServesNamedQueue`, `SetupStaysOnQueue`, `SetupReadyBeforeData` and
  `SetupDeclaresMetrics`, for any number of queues, metrics and configurations.
* `HistoryProofs`: `HistoryInvariant`, and from it `HistoryTypeCorrect`,
  `HistoryNothingLost`, `HistoryTrueAnswers` and `HistoryAnswersOnce`, for any number of
  requests and crashes and whatever is stored (aggregates as `AggregateAssumption` says).
* `ProducerProofs`: decoding a chunk undoes its encoding, for any rows, and the
  steps of a producer keep its invariant `PInv` (lemmas).
* `DrainSessionProofs`: `SessionInvariance`, and from it `SessionTypeCorrect`,
  `SessionChunksDecode`, `SessionFlushesInTime` and `SessionQuartilesSplit`; and
  `SessionKeepsContract`, the refinement of `SessionContract`. For all rows, chunk sizes,
  programs and orders of messages.

*Why the connection is correct.* `WireInOrder` is not inductive: a wrong queue
could still have a right wire. `Inv` adds that the queue is gapless and ends with
the last byte submitted (`QueueOK`), that the only write is the rest of the front
buffer and the wire holds exactly what left the queue (`WriteOK`), and which
phases, library states and pending operations go together (`PhaseOK`). The close
needs `amqp = "closing" => asked = submitted`: after the close frames nothing
more is submitted, so when the broker has seen them everything was written, the
queue is at most waiting for a handler that will report success, and the
"blow-up" the comment in `onClosed()` expects cannot come from here.

*Why RPCs are answered once.* While the loop runs no outstanding entry was
called before (`EntriesOK`): the handler erases the entry in the step that calls
it, except when the callback throws, and then the loop is over. `Guarded` is
part of the same conjunct, as a new entry and its timer are made in one step.
`AckedOnce` needs that all messages are accounted for and that the channel, once
closing, never sends again (`MessagesOK`).

*Why a timer keeps its phase.* `NoDrift` speaks of a timer that waits; the
invariant keeps the phase also while nothing waits, because a queued callback may
go on from the old expiry (`Repeat` after `Cancel`). The step is the lemma
`NextDeadline`: whatever multiple the catch-up loop adds, the sum of two
multiples of the interval is one.

*Why a named queue is served.* `NamedQueueServed` alone does not survive a
configuration that comes when the queue is set up already: that it then names the
queue consumed follows from `Fixed`, and that the channel was there from
`ChannelOK`. The lemmas `Joined`, `Moved` and `Taken` say that an operation on the
channel is never lost, only confirmed. The order of readiness needs to know which
class makes which RPC (`KindOK`) and that a source registers once (`RegisterOK`):
a second answer would add metrics nobody declares.

*Why no request is lost.* A request leaves the queue of the database only with an
acknowledgement, so `NoRequestLost` needs that an acknowledgement on its way has its
response before it, or the client already has that (`AckBehindReply`). A crash takes
both away and offers the request again; this is where duplicates come from.

*Why answers are true and come once.* The response is encoded when the database
answers and decoded when the client handles it, so `Truth` follows each body from the
database's channel to the application: it belongs to the metric its request asked for,
and decodes to what is stored for it. For `DuplicatesNeedCrash` a request is counted
where it is: it is at one place only, on its way to the queue or in it (`Asked`), and the
answers handed over, on their way, and still to come from an open request are at most one
more than the crashes (`AnswersTo`). Only a crash raises that sum, by opening a request
again that was answered; every other step moves an answer one place on.

*Why a session has every row.* `ContractSpec` lets a session complete only when all
routed rows were handed over. The invariant says that the messages in the queue, consumed
in order, lead from what was handed over to what was routed (`NothingMissing`: there are
intermediate results, one for each message), and that the end marker is the last message
and comes when the queue is no longer bound (`EndIsLast`, from the order of the RPCs,
`CallOrder`). A decoded message then is what was sent (`PInv`).

*Recursion.* Decoding, sums and the window are recursive functions. What such a function
computes is shown by induction on the prefix, `IntervalInduction` in `SequenceFacts`: a
set that contains 0, and with each number below n the next, contains 0..n. It is stated
with a set instead of a predicate and follows from the subset ordering of finite sets
being well founded. That there is a function that obeys the equation is
`PrefixRecursion`, that there is a permutation that sorts `SortingExists`.

Only model-checked: liveness (`AllSent`, `CloseCompletes`, `RpcSettles`, `StopEnds`,
`SetupCompletes`, `SessionEnds`, `Answered`), as fairness is out of the prover's reach,
and the findings, which are counterexamples.

## Not modelled, and the plan

Next:

1. `Link`: the abstract life of a connection `Client` assumes, refined by
   `ConnectionHandler`.

Left out for good: logging, version, JSON and protobuf serialization, typed
metadata, text formats of times and durations, benchmarks, the command lines of the
example programs. The deprecated iterator over minima, maxima and averages of a
history response, which nothing in the repository calls. Integers are unbounded in
`Producer` and `History`: times are 64-bit nanoseconds and their deltas cannot
overflow before the year 2262. AMQP-CPP, asio, the broker and the manager are external; what is assumed of them
is what their documentation says, how the code uses them, and the comments in the
modules repeat.
