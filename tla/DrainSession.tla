------------------------------- MODULE DrainSession -------------------------------
(***************************************************************************)
(* Recording metrics: a producer, the queue of the broker, the manager,    *)
(* and one of three programs.                                              *)
(*                                                                         *)
(*   "summary": metricq-summary subscribes, runs a command meanwhile, and  *)
(*     then drains the queue (Subscriber, run_command(), SimpleDrain);     *)
(*   "sink": the dummy sink subscribes and consumes until it is told to    *)
(*     stop or has had enough chunks;                                      *)
(*   "query": one RPC, as get_metrics() and get_metadata() make it.        *)
(*                                                                         *)
(* After an unsubscribe the manager stops the routing and puts an "end"    *)
(* message into the queue.  Each RPC has two steps, as its effect at the   *)
(* manager and the handling of its answer are apart, with data in between. *)
(* How a queue is set up is in DataSetup, how a client closes in Client:   *)
(* here both are one step.                                                 *)
(***************************************************************************)
EXTENDS Producer, Summary

CONSTANTS
  Tools,       \* the programs to look at
  Counts,      \* what the dummy sink may be told of the number of chunks, 0 for any
  StartDelta,  \* options of metricq-summary
  StopDelta

ASSUME SessionAssumption ==
  /\ Tools \subseteq {"summary", "sink", "query"}
  /\ Counts \subseteq Nat /\ StartDelta \in Nat /\ StopDelta \in Nat

VARIABLES
  tool,       \* the program that runs
  stage,      \* how far it is
  expected,   \* expected_chunk_count_ of the dummy sink
  calls,      \* the state of each RPC
  named,      \* the program knows the name of the queue
  timing,     \* timeout_timer_ of the dummy sink: not started, "on", "off"
  bound,      \* metrics are routed to the queue
  exists,     \* the queue exists
  queue,      \* its messages
  consumer,   \* "no", being set up, "yes", or the channel is dead
  collected,  \* data_ of SimpleDrain: the rows handed over
  chunks,     \* chunk_count_
  result,     \* how the session ended
  routed      \* history: the rows that reached the queue

programVars == <<tool, stage, expected, named, timing, chunks, collected, result>>
brokerVars == <<bound, exists, queue, routed>>
vars == <<producerVars, programVars, calls, brokerVars, consumer>>

Functions == {"subscribe", "unsubscribe", "release", "query"}
End == [typeName |-> "end"]

Init ==
  /\ ProducerInit
  /\ tool \in Tools /\ stage = "options" /\ expected = 0 /\ named = FALSE /\ timing = "no"
  /\ calls = [f \in Functions |-> "no"]
  /\ bound = FALSE /\ exists = FALSE /\ queue = <<>> /\ routed = [m \in Metrics |-> <<>>]
  /\ consumer = "no" /\ collected = [m \in Metrics |-> <<>>] /\ chunks = 0
  /\ result = "open"

Running == result = "open"

\* rpc(), and the handling of an answer.
Ask(f) == calls' = [calls EXCEPT ![f] = "asked"]
Granted(f) == Running /\ calls[f] = "granted"
Handled(f) == calls' = [calls EXCEPT ![f] = "handled"]

-----------------------------------------------------------------------------
(***************************************************************************)
(* Starting                                                                *)
(***************************************************************************)
\* The options are wrong, or help is wanted: the program exits.
Usage ==
  /\ Running /\ stage = "options"
  /\ result' = "abandoned"
  /\ UNCHANGED <<producerVars, tool, stage, expected, named, timing, chunks, collected, calls,
                 brokerVars, consumer>>

Started(f) ==
  /\ Running /\ stage = "options"
  /\ stage' = f /\ Ask(f)
  /\ UNCHANGED <<producerVars, tool, named, timing, chunks, collected, result, brokerVars, consumer>>

\* Config of metricq-summary, and Subscriber::on_connected()
StartSummary == tool = "summary" /\ Started("subscribe") /\ UNCHANGED expected

\* The options of the dummy sink, and DummySink::on_connected()
StartSink == tool = "sink" /\ Started("subscribe") /\ expected' \in Counts

\* RpcRequest::on_connected()
StartQuery == tool = "query" /\ Started("query") /\ UNCHANGED expected

-----------------------------------------------------------------------------
(***************************************************************************)
(* The manager and the broker                                              *)
(***************************************************************************)
Serve(f, answer) == calls[f] = "asked" /\ calls' = [calls EXCEPT ![f] = answer]

ServeSubscribe ==
  /\ Serve("subscribe", "granted")
  /\ bound' = TRUE /\ exists' = TRUE
  /\ UNCHANGED <<producerVars, programVars, queue, routed, consumer>>

\* Mutant of ServeUnsubscribe: the end is in the queue before the routing stops.
EndTooEarly ==
  /\ exists
  /\ Serve("unsubscribe", "granted")
  /\ queue' = Append(queue, End)
  /\ UNCHANGED <<producerVars, programVars, bound, exists, routed, consumer>>

ServeUnsubscribe ==
  /\ exists
  /\ Serve("unsubscribe", "granted")
  /\ bound' = FALSE /\ queue' = Append(queue, End)
  /\ UNCHANGED <<producerVars, programVars, exists, routed, consumer>>

ServeRelease ==
  /\ Serve("release", "granted")
  /\ bound' = FALSE /\ exists' = FALSE /\ queue' = <<>>
  /\ UNCHANGED <<producerVars, programVars, routed, consumer>>

ServeQuery ==
  /\ Serve("query", "granted")
  /\ UNCHANGED <<producerVars, programVars, brokerVars, consumer>>

\* An answer with an error.
Refuse ==
  /\ \E f \in Functions :
       /\ calls[f] \in {"asked", "nameless"}
       /\ calls' = [calls EXCEPT ![f] = "refused"]
  /\ UNCHANGED <<producerVars, programVars, brokerVars, consumer>>

\* A published message reaches the exchange, which drops it unless it is bound.
Route ==
  /\ outbox # <<>>
  /\ outbox' = Tail(outbox)
  /\ IF bound
     THEN /\ queue' = Append(queue, Head(outbox))
          /\ routed' = [routed EXCEPT ![Head(outbox).metric] = @ \o Head(outbox).rows]
     ELSE UNCHANGED <<queue, routed>>
  /\ UNCHANGED <<producer, todo, metricVars, ticking, stopped, programVars, calls, bound,
                 exists, consumer>>

\* The queue of a subscription with a time to live goes when nobody has consumed it
\* for so long.
Expire ==
  /\ tool = "summary" /\ exists /\ consumer # "yes"
  /\ exists' = FALSE /\ bound' = FALSE /\ queue' = <<>>
  /\ UNCHANGED <<producerVars, programVars, calls, routed, consumer>>

\* The declaration and the consume that sink_config() asked for (DataSetup).
Consume ==
  /\ Running /\ consumer = "setup"
  /\ tool = "sink" => timing # "no"
  /\ consumer' = IF exists THEN "yes" ELSE "dead"
  /\ UNCHANGED <<producerVars, programVars, calls, brokerVars>>

-----------------------------------------------------------------------------
(***************************************************************************)
(* Subscribing and running the command                                     *)
(***************************************************************************)
\* Subscriber's response callback: the program goes on with the command.
SummarySubscribed ==
  /\ tool = "summary" /\ Granted("subscribe") /\ Handled("subscribe")
  /\ named' = TRUE /\ stage' = "command"
  /\ UNCHANGED <<producerVars, tool, expected, timing, chunks, collected, result, brokerVars, consumer>>

\* DummySink: sink_config()
SinkSubscribed ==
  /\ tool = "sink" /\ Granted("subscribe") /\ Handled("subscribe")
  /\ named' = TRUE /\ consumer' = "setup"
  /\ UNCHANGED <<producerVars, tool, stage, expected, timing, chunks, collected, result, brokerVars>>

\* run_command(): fork() or waitpid() fails; or the command ends, with whatever status,
\* also that of a child process that could not execute it.
RunCommand ==
  /\ Running /\ stage = "command"
  /\ \/ result' = "abandoned" /\ UNCHANGED stage
     \/ stage' = "drain" /\ UNCHANGED result
  /\ UNCHANGED <<producerVars, tool, expected, named, timing, chunks, collected, calls, brokerVars,
                 consumer>>

\* drain(): SimpleDrain connects; it cannot be made without the name of a queue.
StartDrain ==
  /\ Running /\ stage = "drain" /\ calls["unsubscribe"] = "no"
  /\ IF named THEN Ask("unsubscribe") /\ UNCHANGED result
              ELSE result' = "abandoned" /\ UNCHANGED calls
  /\ UNCHANGED <<producerVars, tool, stage, expected, named, timing, chunks, collected, brokerVars,
                 consumer>>

-----------------------------------------------------------------------------
(***************************************************************************)
(* Consuming                                                               *)
(***************************************************************************)
\* Mutant of UnsubscribeComplete: the answer is taken for the end.
CloseOnAnswer ==
  /\ tool = "summary" /\ Granted("unsubscribe") /\ Handled("unsubscribe")
  /\ result' = "complete"
  /\ UNCHANGED <<producerVars, tool, stage, expected, named, timing, chunks, collected, brokerVars,
                 consumer>>

\* Drain::unsubscribe_complete()
UnsubscribeComplete ==
  /\ tool = "summary" /\ Granted("unsubscribe") /\ Handled("unsubscribe")
  /\ consumer' = "setup"
  /\ UNCHANGED <<producerVars, programVars, brokerVars>>

\* DummySink::on_data_channel_ready(), after sink_config() opened the channel: its timeout
\* starts, if it has one.
SinkReady ==
  /\ tool = "sink" /\ Running /\ named /\ timing = "no"
  /\ timing' \in {"on", "off"}
  /\ UNCHANGED <<producerVars, tool, stage, expected, named, chunks, collected, result, calls,
                 brokerVars, consumer>>

\* A signal reaches the dummy sink, which unsubscribes, perhaps from a queue without
\* a name yet; its timeout is cancelled if it runs.
SinkSignalled ==
  /\ tool = "sink" /\ Running /\ stage = "subscribe" /\ calls["unsubscribe"] = "no"
  /\ calls' = [calls EXCEPT !["unsubscribe"] = IF named THEN "asked" ELSE "nameless"]
  /\ timing' = IF timing = "on" THEN "off" ELSE timing
  /\ UNCHANGED <<producerVars, tool, stage, expected, named, chunks, collected, result,
                 brokerVars, consumer>>

SinkUnsubscribed ==
  /\ tool = "sink" /\ Granted("unsubscribe") /\ Handled("unsubscribe")
  /\ UNCHANGED <<producerVars, programVars, brokerVars, consumer>>

\* The timeout of the dummy sink, which throws.
SinkTimeout ==
  /\ tool = "sink" /\ Running /\ timing = "on"
  /\ result' = "abandoned"
  /\ UNCHANGED <<producerVars, tool, stage, expected, named, timing, chunks, collected, calls,
                 brokerVars, consumer>>

Delivers == Running /\ consumer = "yes" /\ queue # <<>>

\* SimpleDrain::on_data(), for a metric it was told to expect.
Collect(m, dc) == collected' = [collected EXCEPT ![m] = @ \o Decode(m, dc)]

\* Sink::on_data(): the chunk is decoded, handed over and acknowledged.
SummaryData ==
  /\ tool = "summary" /\ Delivers /\ Head(queue) # End
  /\ Collect(Head(queue).metric, Head(queue).chunk)
  /\ queue' = Tail(queue)
  /\ UNCHANGED <<producerVars, tool, stage, expected, named, timing, chunks, result, calls,
                 bound, exists, routed, consumer>>

\* DummySink::on_data(): also counts, and stops when it has had enough.
SinkData ==
  /\ tool = "sink" /\ Delivers /\ Head(queue) # End
  /\ Collect(Head(queue).metric, Head(queue).chunk)
  /\ queue' = Tail(queue)
  /\ chunks' = chunks + 1
  /\ result' = IF expected # 0 /\ chunks' >= expected THEN "abandoned" ELSE result
  /\ UNCHANGED <<producerVars, tool, stage, expected, named, timing, calls,
                 bound, exists, routed, consumer>>

\* Mutant of DataEnd: the release is forgotten.
EndAcked ==
  /\ Delivers /\ Head(queue) = End
  /\ queue' = Tail(queue)
  /\ UNCHANGED <<producerVars, programVars, calls, bound, exists, routed, consumer>>

\* The end message, in Drain::on_data() and DummySink::on_data().
DataEnd ==
  /\ Delivers /\ Head(queue) = End
  /\ queue' = Tail(queue) /\ Ask("release")
  /\ UNCHANGED <<producerVars, programVars, bound, exists, routed, consumer>>

\* The answer to sink.release: close().
Released ==
  /\ Granted("release") /\ Handled("release")
  /\ result' = "complete"
  /\ UNCHANGED <<producerVars, tool, stage, expected, named, timing, chunks, collected, brokerVars,
                 consumer>>

\* RpcRequest: the response is kept, and get_metrics() reads it.
QueryAnswered ==
  /\ Granted("query") /\ Handled("query")
  /\ result' = "complete"
  /\ UNCHANGED <<producerVars, tool, stage, expected, named, timing, chunks, collected, brokerVars,
                 consumer>>

\* An RPC was answered with an error: the client stops and main_loop() returns as if
\* nothing had happened.  metricq-summary goes on, with the command (and no queue) or
\* the statistics.
Refused(f) ==
  /\ Running /\ calls[f] = "refused" /\ Handled(f)
  /\ IF tool = "summary" /\ f = "subscribe"
     THEN stage' = "command" /\ UNCHANGED result
     ELSE result' = "abandoned" /\ UNCHANGED stage
  /\ UNCHANGED <<producerVars, tool, expected, named, timing, chunks, collected, brokerVars, consumer>>

\* An RPC times out or a connection fails: an exception leaves main_loop().
Fails ==
  /\ Running /\ stage # "options"
  /\ result' = "abandoned"
  /\ UNCHANGED <<producerVars, tool, stage, expected, named, timing, chunks, collected, calls,
                 brokerVars, consumer>>

\* The producer, whose next step is independent of all others.
Produces ==
  /\ ProducerNext
  /\ UNCHANGED <<programVars, calls, brokerVars, consumer>>

-----------------------------------------------------------------------------
Start == Usage \/ StartSummary \/ StartSink \/ StartQuery
Manager == ServeSubscribe \/ ServeUnsubscribe \/ ServeRelease \/ ServeQuery \/ Refuse
OnAnswer ==
  \/ SummarySubscribed \/ SinkSubscribed \/ UnsubscribeComplete \/ SinkUnsubscribed
  \/ Released \/ QueryAnswered \/ \E f \in Functions : Refused(f)
OnMessage == SummaryData \/ SinkData \/ DataEnd

Next ==
  \/ Produces \/ Route \/ Expire \/ Manager
  \/ Start \/ OnAnswer \/ RunCommand \/ StartDrain \/ SinkReady \/ SinkSignalled \/ SinkTimeout
  \/ Consume \/ OnMessage \/ Fails

Spec == Init /\ [][Next]_vars

\* Programs start, the command ends, the manager answers and messages are delivered.
\* Nothing is assumed of the producer.
FairSpec ==
  /\ Spec
  /\ WF_vars(Start) /\ WF_vars(RunCommand) /\ WF_vars(StartDrain)
  /\ WF_vars(Manager) /\ WF_vars(OnAnswer) /\ WF_vars(SinkReady) /\ WF_vars(Consume) /\ WF_vars(OnMessage)

-----------------------------------------------------------------------------
\* The type invariant.
TypeOK ==
  /\ ProducerTypeOK
  /\ tool \in Tools /\ stage \in {"options", "subscribe", "query", "command", "drain"}
  /\ expected \in Nat /\ chunks \in Nat
  /\ calls \in [Functions -> {"no", "asked", "nameless", "granted", "refused", "handled"}]
  /\ named \in BOOLEAN /\ timing \in {"no", "on", "off"} /\ bound \in BOOLEAN /\ exists \in BOOLEAN
  /\ consumer \in {"no", "setup", "yes", "dead"}
  /\ result \in {"open", "abandoned", "complete"}
  /\ collected \in [Metrics -> Seq(Row)] /\ routed \in [Metrics -> Seq(Row)]
  /\ ~exists => ~bound /\ queue = <<>>

\* The abstract session.
Contract == INSTANCE SessionContract WITH handed <- collected
ContractSpec == Contract!ContractSpec

\* Every program comes to its end if the command does: a recording is drained, and a
\* dummy sink ends after a signal.  The exception is a queue that expires between the
\* answer to the unsubscribe and its declaration: nothing ends the drain then.
SessionEnds ==
  /\ tool \in {"summary", "query"} ~> ~Running \/ consumer = "dead"
  /\ (tool = "sink" /\ calls["unsubscribe"] # "no") ~> ~Running

\* What metricq-summary prints for a metric.
Printed(m) == ~Running /\ Kept(collected[m], StartDelta, StopDelta) # <<>>

\* The order statistics printed are those of the rows inside the window: the quartiles
\* have a quarter and three quarters of the values below them, and no value, nor the
\* average, is outside minimum and maximum.
QuartilesSplit ==
  tool = "summary" => \A m \in Metrics :
    collected[m] # <<>> /\ Printed(m) =>
      LET vs == ValuesOf(Kept(collected[m], StartDelta, StopDelta))
          summary == Calculate(collected[m], StartDelta, StopDelta)
      IN  /\ IsNth(summary.quart25, Len(vs) \div 4, vs)
          /\ IsNth(summary.quart75, (3 * Len(vs)) \div 4, vs)
          /\ \A v \in ToSet(vs) : v \in summary.minimum..summary.maximum
          /\ summary.average \in Len(vs) * summary.minimum..Len(vs) * summary.maximum
=============================================================================
