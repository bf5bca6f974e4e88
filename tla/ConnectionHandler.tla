--------------------------- MODULE ConnectionHandler ---------------------------
(***************************************************************************)
(* One AsioConnectionHandler (src/src/connection_handler.{hpp,cpp}): the   *)
(* life of one AMQP connection on a single-threaded asio event loop.       *)
(*                                                                         *)
(* An action is one completion handler run by io_service::run(), one call  *)
(* of the application into the handler, or the completion of an            *)
(* asynchronous operation (which only queues its handler).  Completed      *)
(* handlers run in any order: asio promises none between different         *)
(* operations.  The AMQP-CPP library behind connection_ is external; of it *)
(* the variables amqp, closeWanted and asked are kept.                     *)
(*                                                                         *)
(* A byte is named by its position in the stream of bytes the library      *)
(* hands to onData(), so losing, repeating or reordering bytes shows.      *)
(***************************************************************************)
EXTENDS Naturals, Sequences

CONSTANTS
  Secure,      \* SSLConnectionHandler (TRUE) or PlainConnectionHandler (FALSE)
  FailThrows,  \* some channel of this connection has a throwing error callback
  BlockSizes,  \* sizes of the blocks the library hands to onData()
  Timeouts,    \* heartbeat timeouts, in seconds, the broker may propose
  MaxBytes,    \* bound: no optional send once this many bytes were handed over
  MaxBeats     \* bound on heartbeat completions queued at the same time

ASSUME HandlerAssumption ==
  /\ Secure \in BOOLEAN /\ FailThrows \in BOOLEAN
  /\ BlockSizes \subseteq Nat \ {0}
  /\ Timeouts \subseteq Nat
  /\ MaxBytes \in Nat /\ MaxBeats \in Nat

VARIABLES
  setup,           \* how far connect() got
  open,            \* underlying_socket().is_open()
  amqp,            \* "none" iff connection_ is null, else the library's state:
                   \* "protocol" -> "handshake" -> "opening" -> "connected" -> "closing"
  closeWanted,     \* connection_->close() was called
  asked,           \* stream position the broker must see before it answers
  submitted,       \* number of bytes handed to onData() so far
  buffers,         \* send_buffers_.buffers_
  offset,          \* send_buffers_.offset_
  flushInProgress, \* flush_in_progress_
  writes,          \* async_write_some operations whose handler has not run
  wire,            \* the bytes the socket accepted, in order
  reading,         \* an async_read_some is outstanding
  timeout,         \* heartbeat timeout accepted in onNegotiate()
  interval,        \* heartbeat_interval_
  armed,           \* heartbeat_timer_ has a wait that has not expired
  beats,           \* expired waits of heartbeat_timer_ whose handler is queued
  errorReported,   \* error_callback_ was called
  closeCallbacks,  \* number of calls of close_callback_
  loop             \* what became of io_service::run()

library   == <<amqp, closeWanted, asked>>
sendQueue == <<submitted, buffers, offset, flushInProgress, writes>>
heartbeat == <<timeout, interval, armed, beats>>
callbacks == <<errorReported, closeCallbacks>>
vars == <<setup, open, library, sendQueue, wire, reading, heartbeat, callbacks, loop>>

Init ==
  /\ setup = "new" /\ open = FALSE /\ loop = "running"
  /\ amqp = "none" /\ closeWanted = FALSE /\ asked = 0
  /\ submitted = 0 /\ buffers = <<>> /\ offset = 0
  /\ flushInProgress = FALSE /\ writes = <<>> /\ wire = <<>>
  /\ reading = FALSE
  /\ timeout = 0 /\ interval = 0 /\ armed = FALSE /\ beats = 0
  /\ errorReported = FALSE /\ closeCallbacks = 0

-----------------------------------------------------------------------------
(***************************************************************************)
(* QueuedBuffer                                                            *)
(***************************************************************************)
Emplace(n) == Append(buffers, [lo |-> submitted + 1, len |-> n])

\* The write of what is left of the first buffer.
Front(bufs, off) ==
  [lo |-> Head(bufs).lo + off, len |-> Head(bufs).len - off, st |-> "pending", n |-> 0]

\* Mutant of Consume: the offset survives the buffer it belongs to.
ConsumeKeepsOffset(n) ==
  IF Head(buffers).len = offset + n
  THEN [bufs |-> Tail(buffers), off |-> offset]
  ELSE [bufs |-> buffers, off |-> offset + n]

Consume(n) ==
  IF Head(buffers).len = offset + n
  THEN [bufs |-> Tail(buffers), off |-> 0]
  ELSE [bufs |-> buffers, off |-> offset + n]

-----------------------------------------------------------------------------
(***************************************************************************)
(* flush() and onData()                                                    *)
(***************************************************************************)
StartWrite(starts, bufs, off, busy, ops) ==
  /\ buffers' = bufs
  /\ offset' = off
  /\ flushInProgress' = (busy \/ starts)
  /\ writes' = IF starts THEN Append(ops, Front(bufs, off)) ELSE ops

\* Mutant of Flush: flush_in_progress_ is not tested.
FlushOverlapping(isOpen, bufs, off, busy, ops) ==
  StartWrite(isOpen /\ bufs # <<>>, bufs, off, busy, ops)

\* Mutant of Flush: is_open() is not tested.
FlushClosed(isOpen, bufs, off, busy, ops) ==
  StartWrite(bufs # <<>> /\ ~busy, bufs, off, busy, ops)

Flush(isOpen, bufs, off, busy, ops) ==
  StartWrite(isOpen /\ bufs # <<>> /\ ~busy, bufs, off, busy, ops)

OnData(n) ==
  /\ submitted' = submitted + n
  /\ Flush(open, Emplace(n), offset, flushInProgress, writes)

\* socket.close(): outstanding writes complete with operation_aborted, unless
\* they completed before.
Aborted(ops) ==
  [i \in 1..Len(ops) |->
     IF ops[i].st = "pending" THEN [ops[i] EXCEPT !.st = "failed"] ELSE ops[i]]

\* onError(): tell the owner, close the socket and throw out of the event loop.
OnError ==
  /\ errorReported' = TRUE
  /\ open' = FALSE
  /\ loop' = "threw"

\* A handler that got an error first calls connection_->fail(), which reports to
\* the channels; a channel callback that throws keeps onError() from running.
FailThenOnError ==
  IF FailThrows /\ amqp # "none"
  THEN loop' = "threw" /\ UNCHANGED <<open, errorReported>>
  ELSE OnError

Running == loop = "running"
Up      == setup = "up"

-----------------------------------------------------------------------------
(***************************************************************************)
(* connect()                                                               *)
(***************************************************************************)
\* The constructor of AMQP::Connection hands the protocol header to onData();
\* the socket is still closed, so flush() leaves it queued.
Connect(n) ==
  /\ Running /\ setup = "new"
  /\ setup' = "resolving"
  /\ amqp' = "protocol"
  /\ OnData(n)
  /\ asked' = submitted'
  /\ UNCHANGED <<open, closeWanted, wire, reading, heartbeat, callbacks, loop>>

\* async_connect() opens the socket before the first attempt.
ResolveHandler ==
  /\ Running /\ setup = "resolving"
  /\ \/ setup' = "connecting" /\ open' = TRUE /\ UNCHANGED <<errorReported, loop>>
     \/ OnError /\ UNCHANGED setup
  /\ UNCHANGED <<library, sendQueue, wire, reading, heartbeat, closeCallbacks>>

\* Mutant of StartTransfer: only reads.
StartReading ==
  /\ setup' = "up"
  /\ reading' = TRUE
  /\ UNCHANGED <<open, sendQueue, errorReported, loop>>

\* read(); flush(): the end of PlainConnectionHandler::handshake() and of the
\* handler SSLConnectionHandler::handshake() installs.
StartTransfer ==
  /\ setup' = "up"
  /\ reading' = TRUE
  /\ Flush(open, buffers, offset, flushInProgress, writes)
  /\ UNCHANGED <<open, submitted, errorReported, loop>>

SetupFails == OnError /\ UNCHANGED <<setup, sendQueue, reading>>

ConnectHandler ==
  /\ Running /\ setup = "connecting"
  /\ \/ ~Secure /\ StartTransfer
     \/ /\ Secure
        /\ setup' = "handshaking"
        /\ UNCHANGED <<open, sendQueue, reading, errorReported, loop>>
     \/ SetupFails
  /\ UNCHANGED <<library, wire, heartbeat, closeCallbacks>>

HandshakeHandler ==
  /\ Running /\ setup = "handshaking"
  /\ StartTransfer \/ SetupFails
  /\ UNCHANGED <<library, wire, heartbeat, closeCallbacks>>

-----------------------------------------------------------------------------
(***************************************************************************)
(* The write an open flush() left behind                                   *)
(***************************************************************************)
\* The socket takes n bytes of the outstanding write, possibly not all.
WriteCompletes(n) ==
  /\ Running /\ writes # <<>> /\ Head(writes).st = "pending"
  /\ n \in 1..Head(writes).len
  /\ wire' = wire \o [i \in 1..n |-> Head(writes).lo + i - 1]
  /\ writes' = [writes EXCEPT ![1].st = "done", ![1].n = n]
  /\ UNCHANGED <<setup, open, library, submitted, buffers, offset, flushInProgress,
                 reading, heartbeat, callbacks, loop>>

WriteFails ==
  /\ Running /\ writes # <<>> /\ Head(writes).st = "pending"
  /\ writes' = [writes EXCEPT ![1].st = "failed"]
  /\ UNCHANGED <<setup, open, library, submitted, buffers, offset, flushInProgress,
                 wire, reading, heartbeat, callbacks, loop>>

\* The timer restarts from here; a beat that is already queued stays queued.
WriteHandler ==
  /\ Running /\ writes # <<>> /\ Head(writes).st = "done"
  /\ LET left == Consume(Head(writes).n)
     IN  Flush(open, left.bufs, left.off, FALSE, Tail(writes))
  /\ armed' = (armed \/ (interval # 0 /\ open))
  /\ UNCHANGED <<setup, open, library, submitted, wire, reading, timeout, interval,
                 beats, callbacks, loop>>

WriteErrorHandler ==
  /\ Running /\ writes # <<>> /\ Head(writes).st = "failed"
  /\ FailThenOnError
  /\ writes' = Tail(writes)
  /\ UNCHANGED <<setup, library, submitted, buffers, offset, flushInProgress, wire,
                 reading, heartbeat, closeCallbacks>>

-----------------------------------------------------------------------------
(***************************************************************************)
(* read(): each action is one frame parse() takes out of what was received *)
(* (a frame the library neither answers nor reports changes nothing here)  *)
(***************************************************************************)
Receives == Running /\ Up /\ reading

\* The broker has seen everything its next answer depends on.
BrokerMayAnswer == Len(wire) >= asked

\* Mutant of ReadAgain: reads even if the frame closed the connection.
ReadAlways == reading' = TRUE

\* Mutant of ReadAgain: reads only once.
ReadOnce == reading' = FALSE

\* The frame is consumed; the handler reads again while the socket is open.
ReadAgain == reading' = open'

FrameStart(n) ==
  /\ Receives /\ BrokerMayAnswer /\ amqp = "protocol"
  /\ amqp' = "handshake"
  /\ OnData(n)
  /\ asked' = submitted'
  /\ UNCHANGED <<setup, open, closeWanted, wire, heartbeat, callbacks, loop>>
  /\ ReadAgain

\* Mutant of HeartbeatInterval: beats one second early.
HeartbeatIntervalEarly(t) == (t \div 2) - 1

HeartbeatInterval(t) == t \div 2

\* Connection.Tune: onNegotiate(), then the library sends tune-ok and open.
FrameTune(t, n) ==
  /\ Receives /\ BrokerMayAnswer /\ amqp = "handshake"
  /\ timeout' = t
  /\ interval' = HeartbeatInterval(t)
  /\ amqp' = "opening"
  /\ OnData(n)
  /\ asked' = submitted'
  /\ UNCHANGED <<setup, open, closeWanted, wire, armed, beats, callbacks, loop>>
  /\ ReadAgain

\* Connection.OpenOk: what the channels queued in the library is sent, at least
\* the channel.open of the channel make_channel() created after connect().
FrameOpenOk(n) ==
  /\ Receives /\ BrokerMayAnswer /\ amqp = "opening"
  /\ amqp' = "connected"
  /\ OnData(n)
  /\ UNCHANGED <<setup, open, closeWanted, asked, wire, heartbeat, callbacks, loop>>
  /\ ReadAgain

\* A channel frame whose callback or whose processing sends something.
FrameAnswered(n) ==
  /\ Receives /\ amqp = "connected" /\ submitted < MaxBytes
  /\ OnData(n)
  /\ UNCHANGED <<setup, open, library, wire, heartbeat, callbacks, loop>>
  /\ ReadAgain

\* The close frames go out; the library refuses every later send.
SendClose(n) ==
  /\ amqp' = "closing"
  /\ OnData(n)
  /\ asked' = submitted'

\* The answer the library postponed a requested close for.
FrameDrained(n) ==
  /\ Receives /\ amqp = "connected" /\ closeWanted
  /\ SendClose(n)
  /\ UNCHANGED <<setup, open, closeWanted, wire, heartbeat, callbacks, loop>>
  /\ ReadAgain

\* onClosed()
FrameCloseOk ==
  /\ Receives /\ BrokerMayAnswer /\ amqp = "closing"
  /\ open' = FALSE
  /\ writes' = Aborted(writes)
  /\ armed' = FALSE
  /\ amqp' = "none"
  /\ closeCallbacks' = closeCallbacks + 1
  /\ UNCHANGED <<setup, closeWanted, asked, submitted, buffers, offset, flushInProgress,
                 wire, timeout, interval, beats, errorReported, loop>>
  /\ ReadAgain

\* A read error, or a frame the library reports through onError().
ReadErrorHandler ==
  /\ Receives
  /\ FailThenOnError
  /\ reading' = FALSE
  /\ UNCHANGED <<setup, library, sendQueue, wire, heartbeat, closeCallbacks>>

-----------------------------------------------------------------------------
(***************************************************************************)
(* The heartbeat timer                                                     *)
(***************************************************************************)
\* The wait is over: its handler is queued and can no longer be cancelled.
Expire ==
  /\ Running /\ armed
  /\ beats < MaxBeats /\ (submitted < MaxBytes \/ amqp = "closing")
  /\ armed' = FALSE
  /\ beats' = beats + 1
  /\ UNCHANGED <<setup, open, library, sendQueue, wire, reading, timeout, interval,
                 callbacks, loop>>

\* Mutant of RetryBeat: a refused heartbeat is forgotten.
NoRetry == UNCHANGED armed

RetryBeat == armed' = TRUE

\* beat() without an error.  During the handshake the library only queues the
\* frame; while closing it refuses it and the timer is set to one second.
Beat(n) ==
  /\ Running /\ beats > 0
  /\ beats' = beats - 1
  /\ \/ /\ amqp = "connected"
        /\ OnData(n)
        /\ UNCHANGED <<armed, loop>>
     \/ /\ amqp \in {"protocol", "handshake", "opening"}
        /\ UNCHANGED <<sendQueue, armed, loop>>
     \/ /\ amqp = "closing"
        /\ RetryBeat
        /\ UNCHANGED <<sendQueue, loop>>
     \/ /\ amqp = "none"
        /\ loop' = "assert"
        /\ UNCHANGED <<sendQueue, armed>>
  /\ UNCHANGED <<setup, open, library, wire, reading, timeout, interval, callbacks>>

\* beat() with an error other than operation_aborted.
BeatError ==
  /\ Running /\ armed
  /\ armed' = FALSE
  /\ FailThenOnError
  /\ UNCHANGED <<setup, library, sendQueue, wire, reading, timeout, interval, beats,
                 closeCallbacks>>

-----------------------------------------------------------------------------
(***************************************************************************)
(* The application                                                         *)
(***************************************************************************)
\* A publish, ack or other operation on a channel.
Publish(n) ==
  /\ Running /\ amqp = "connected" /\ submitted < MaxBytes
  /\ OnData(n)
  /\ UNCHANGED <<setup, open, library, wire, reading, heartbeat, callbacks, loop>>

\* Mutant of Close: does what onClosed() does without waiting for the broker.
CloseAtOnce(n) ==
  /\ Running /\ amqp = "connected" /\ ~closeWanted
  /\ closeWanted' = TRUE /\ amqp' = "none"
  /\ open' = FALSE /\ armed' = FALSE /\ reading' = FALSE
  /\ submitted' = submitted + n /\ buffers' = Emplace(n) /\ writes' = Aborted(writes)
  /\ closeCallbacks' = closeCallbacks + 1
  /\ UNCHANGED <<setup, asked, offset, flushInProgress, wire, timeout, interval, beats,
                 errorReported, loop>>

\* close(); the library sends the close frames now, or postpones them while the
\* handshake or a channel operation is unanswered.
Close(n) ==
  /\ Running /\ amqp # "none" /\ ~closeWanted
  /\ closeWanted' = TRUE
  /\ \/ amqp = "connected" /\ SendClose(n)
     \/ UNCHANGED <<amqp, asked, sendQueue>>
  /\ UNCHANGED <<setup, open, wire, reading, heartbeat, callbacks, loop>>

-----------------------------------------------------------------------------
Handshake ==
  \/ \E n \in BlockSizes : Connect(n)
  \/ ResolveHandler
  \/ ConnectHandler
  \/ HandshakeHandler

Transmit ==
  \/ writes # <<>> /\ \E n \in 1..Head(writes).len : WriteCompletes(n)
  \/ WriteFails
  \/ WriteHandler
  \/ WriteErrorHandler

Receive ==
  \/ \E n \in BlockSizes : \/ FrameStart(n)
                           \/ \E t \in Timeouts : FrameTune(t, n)
                           \/ FrameOpenOk(n)
                           \/ FrameAnswered(n)
                           \/ FrameDrained(n)
  \/ FrameCloseOk
  \/ ReadErrorHandler

Heartbeat == Expire \/ BeatError \/ \E n \in BlockSizes : Beat(n)

Application == \E n \in BlockSizes : Publish(n) \/ Close(n)

Next == Handshake \/ Transmit \/ Receive \/ Heartbeat \/ Application

Spec == Init /\ [][Next]_vars

\* Queued handlers run, the resolver, the TCP connection and TLS finish one way
\* or the other, and the broker answers what it has received.  Nothing is assumed
\* of the application, of the timer, or of any failure.
Fairness ==
  /\ WF_vars(ResolveHandler) /\ WF_vars(ConnectHandler) /\ WF_vars(HandshakeHandler)
  /\ WF_vars(writes # <<>> /\ \E n \in 1..Head(writes).len : WriteCompletes(n))
  /\ WF_vars(WriteHandler) /\ WF_vars(WriteErrorHandler)
  /\ WF_vars(\E n \in BlockSizes : FrameStart(n))
  /\ WF_vars(\E n \in BlockSizes, t \in Timeouts : FrameTune(t, n))
  /\ WF_vars(\E n \in BlockSizes : FrameOpenOk(n))
  /\ WF_vars(\E n \in BlockSizes : FrameDrained(n))
  /\ WF_vars(FrameCloseOk)

FairSpec == Spec /\ Fairness

-----------------------------------------------------------------------------
(***************************************************************************)
(* Properties                                                              *)
(***************************************************************************)
Block == [lo : Nat \ {0}, len : Nat \ {0}]
Write == [lo : Nat \ {0}, len : Nat \ {0}, st : {"pending", "done", "failed"}, n : Nat]

\* Every variable has the type its declaration in connection_handler.hpp gives it.
TypeOK ==
  /\ setup \in {"new", "resolving", "connecting", "handshaking", "up"}
  /\ open \in BOOLEAN /\ closeWanted \in BOOLEAN /\ reading \in BOOLEAN
  /\ amqp \in {"none", "protocol", "handshake", "opening", "connected", "closing"}
  /\ asked \in Nat /\ submitted \in Nat /\ offset \in Nat
  /\ buffers \in Seq(Block) /\ writes \in Seq(Write) /\ wire \in Seq(Nat)
  /\ flushInProgress \in BOOLEAN /\ armed \in BOOLEAN /\ errorReported \in BOOLEAN
  /\ timeout \in Nat /\ interval \in Nat /\ beats \in Nat /\ closeCallbacks \in Nat
  /\ loop \in {"running", "threw", "assert"}

\* The socket gets exactly the bytes the library produced, each once and in
\* order, whatever the sizes of the blocks and of the partial writes.
WireInOrder ==
  /\ Len(wire) <= submitted
  /\ \A i \in 1..Len(wire) : wire[i] = i

\* There is never more than one async_write_some, it sends the part of the queue
\* that nothing sent yet, and flush_in_progress_ tells whether it exists: two
\* overlapping writes would send the front buffer twice.
SingleWriter ==
  /\ Len(writes) <= 1
  /\ Running => (flushInProgress <=> writes # <<>>)

\* The queue of an open connection is never left without a write in progress,
\* however onData() calls and completed writes interleave.
NoLostFlush == (Running /\ Up /\ open /\ buffers # <<>>) => writes # <<>>

\* Nothing is written to a socket that is still connecting or in its TLS
\* handshake, although async_connect() opens it long before.
WriteOnlyWhenUp == writes # <<>> => Up

\* What assert(!empty()) in consume() and front() and assert(connection_) in the
\* read path require: a completed write has a buffer to consume, an outstanding
\* read has a connection to parse for.
QueueAndReadAsserts ==
  Running =>
    /\ writes # <<>> /\ Head(writes).st = "done" => buffers # <<>>
    /\ reading => amqp # "none"

\* Once heartbeats are negotiated the next one can never be forgotten: a write
\* that will arm the timer, the armed timer or a queued beat always exists, also
\* when the library refuses a heartbeat.
HeartbeatChain ==
  (Running /\ open /\ interval # 0 /\ amqp \in {"connected", "closing"})
     => (writes # <<>> \/ armed \/ beats > 0)

\* "we should send a heartbeat every timeout/2" (connection_handler.cpp:188): the
\* same for every timeout the broker may have negotiated.
HeartbeatPromised ==
  (Running /\ open /\ timeout # 0 /\ amqp \in {"connected", "closing"})
     => (writes # <<>> \/ armed \/ beats > 0)

\* close_callback_ runs at most once, and then everything the library ever
\* produced, the close frames last, has reached the socket.
GracefulClose ==
  /\ closeCallbacks <= 1
  /\ closeCallbacks = 1 => Len(wire) = submitted

\* assert(this->connection_) in beat() (connection_handler.cpp:483).
NoAssert == loop # "assert"

\* No exception leaves the event loop after an orderly close, although onClosed()
\* closes the socket under a write whose handler has not run yet.
NoBlowUp == [][closeCallbacks = 1 => loop' # "threw"]_vars

\* Every byte handed to onData() is eventually written, unless the loop ends.
AllSent ==
  \A b \in 1..MaxBytes : submitted >= b ~> (Len(wire) >= b \/ ~Running)

\* A requested close eventually calls close_callback_, unless the loop ends; a
\* close requested during the handshake included.
CloseCompletes == closeWanted ~> (closeCallbacks = 1 \/ ~Running)

\* The connection as a byte stream: what ByteStream.tla promises.
Stream == INSTANCE ByteStream
            WITH closed <- (setup \notin {"new", "resolving"} /\ ~open)

StreamSpec == Stream!Spec

-----------------------------------------------------------------------------
(***************************************************************************)
(* The inductive invariant behind the safety properties                    *)
(***************************************************************************)
\* Blocks without gap or overlap that end with byte `last' of the stream.
Contiguous(bufs, last) ==
  \A i \in 1..Len(bufs) :
    /\ bufs[i].lo + bufs[i].len <= last + 1
    /\ i = Len(bufs) => bufs[i].lo + bufs[i].len = last + 1
    /\ i < Len(bufs) => bufs[i].lo + bufs[i].len = bufs[i + 1].lo

\* Bytes of the stream that left the queue, or the front buffer.
Consumed == IF buffers = <<>> THEN submitted ELSE Head(buffers).lo + offset - 1

\* The queue holds the last bytes handed to onData().
QueueOK ==
  /\ Contiguous(buffers, submitted)
  /\ IF buffers = <<>> THEN offset = 0 ELSE offset < Head(buffers).len

\* The only write is the rest of the front buffer; the socket has what was
\* consumed before, and the part a completed write reports.
WriteOK ==
  /\ \/ writes = <<>> /\ Len(wire) = Consumed
     \/ /\ Len(writes) = 1 /\ buffers # <<>>
        /\ Head(writes).lo = Consumed + 1
        /\ Head(writes).len = Head(buffers).len - offset
        /\ IF Head(writes).st = "done"
           THEN Head(writes).n \in 1..Head(writes).len /\ Len(wire) = Consumed + Head(writes).n
           ELSE Len(wire) = Consumed
  /\ \A i \in 1..Len(wire) : wire[i] = i

\* Which phases of connect(), library states and pending operations go together.
PhaseOK ==
  /\ ~Up => writes = <<>> /\ ~reading /\ amqp \in {"none", "protocol"} /\ closeCallbacks = 0
  /\ setup \in {"new", "resolving"} => ~open
  /\ Running =>
       /\ flushInProgress <=> writes # <<>>
       /\ open <=> setup \notin {"new", "resolving"} /\ closeCallbacks = 0
       /\ reading <=> Up /\ closeCallbacks = 0
       /\ Up /\ open /\ buffers # <<>> => writes # <<>>
       /\ ~open /\ writes # <<>> => Head(writes).st = "done"
  /\ amqp = "none" <=> setup = "new" \/ closeCallbacks = 1
  /\ amqp = "closing" => asked = submitted
  /\ closeCallbacks <= 1
  /\ closeCallbacks = 1 =>
       Len(wire) = submitted /\ ~armed /\ loop # "threw"

Inv == TypeOK /\ QueueOK /\ WriteOK /\ PhaseOK

=============================================================================
