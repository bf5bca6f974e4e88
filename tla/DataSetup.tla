-------------------------------- MODULE DataSetup --------------------------------
(***************************************************************************)
(* How a client gets from its first RPC to data: the classes derived from  *)
(* DataClient.  A "sink" subscribes (src/src/sink.cpp), a "drain" takes    *)
(* over a queue (drain.cpp), a "source", a "transformer" and a "db"        *)
(* register and are configured (source.cpp, transformer.cpp, db.cpp), also *)
(* later, by "config" requests of the manager.                             *)
(*                                                                         *)
(* Three orders are independent of each other: answers to RPCs come in any *)
(* order (what RpcContract promises is that each comes at most once),      *)
(* config requests come at any time, and the broker confirms the           *)
(* operations on the data channel one after the other in the order they    *)
(* were sent.  An action is one handler.                                   *)
(*                                                                         *)
(* Left out: metadata_ of a sink, which only the application reads, and a  *)
(* second data server address, which is in Client.                         *)
(***************************************************************************)
EXTENDS Naturals, Sequences

CONSTANTS
  Kinds,      \* the kinds of clients to look at
  Queues,     \* names the manager gives to data and history queues
  Metrics,    \* metrics a source or transformer may offer
  MaxRequests \* bound on subscriptions by the application and config requests

AllKinds == {"sink", "drain", "source", "transformer", "db"}

ASSUME SetupAssumption == Kinds \subseteq AllKinds /\ MaxRequests \in Nat

VARIABLES
  kind,          \* class of the client
  life,          \* "running", or how the event loop ended
  requests,      \* subscriptions and config requests
  made,          \* RPCs made
  calls,         \* RPCs without answer
  registered,    \* the registration was answered
  dataQueue,     \* data_queue_: a set of at most one name
  historyQueue,  \* history_queue_ of a db
  exchange,      \* data_exchange_ is set
  inputs,        \* input_metrics of a transformer
  metrics,       \* metrics_, output_metrics_
  declared,      \* for each metric: not declared, or before or after the application was ready
  configured,    \* the application was given its configuration
  ready,         \* on_source_ready(), on_transformer_ready() or on_db_ready() was called
  channel,       \* data_channel_
  ops,           \* operations on the channel the broker has not confirmed
  consumers,     \* queues consumed, with what for
  setUp          \* is_data_queue_set_up_

rpcs   == <<requests, made, calls, registered>>
names  == <<dataQueue, historyQueue, exchange>>
app    == <<inputs, metrics, declared, configured, ready>>
broker == <<channel, ops, consumers, setUp>>
vars   == <<kind, life, rpcs, names, app, broker>>

Functions == {"sink.subscribe", "sink.unsubscribe", "source.register", "transformer.register",
              "transformer.subscribe", "db.register", "db.subscribe", "declare_metrics"}

Operation(op, queue, for) == [op |-> op, queue |-> queue, for |-> for]
Purposes == {"data", "history"}

\* A drain is made with the name of its queue.
InitialQueue(k) == IF k = "drain" THEN {{q} : q \in Queues} ELSE {{}}

Init ==
  /\ kind \in Kinds
  /\ life = "running"
  /\ requests = 0 /\ made = 0 /\ calls = {} /\ registered = FALSE
  /\ dataQueue \in InitialQueue(kind)
  /\ historyQueue = {} /\ exchange = FALSE
  /\ inputs = {} /\ metrics = {} /\ declared = [m \in Metrics |-> "no"]
  /\ configured = FALSE /\ ready = FALSE
  /\ channel = "none" /\ ops = <<>> /\ consumers = {} /\ setUp = FALSE

Running == life = "running"

-----------------------------------------------------------------------------
(***************************************************************************)
(* RPCs                                                                    *)
(***************************************************************************)
\* The application or the manager asks for something.
Request == requests < MaxRequests /\ requests' = requests + 1

\* rpc(): the answer to number made' will be handed to the callback of f.
Call(f) ==
  /\ made' = made + 1
  /\ calls' = calls \cup {[id |-> made + 1, fn |-> f]}

\* The response of call c; its callback may make the RPC f.
Answered(c, f) ==
  /\ Running /\ c \in calls /\ c.fn = f
NoCall(c) == calls' = calls \ {c} /\ UNCHANGED <<requests, made>>
AndCall(c, f) ==
  /\ made' = made + 1 /\ UNCHANGED requests
  /\ calls' = (calls \ {c}) \cup {[id |-> made + 1, fn |-> f]}

\* An exception leaves the handler, and with it the event loop.
Throw(c) ==
  /\ life' = "failed" /\ calls' = calls \ {c}
  /\ UNCHANGED <<requests, made, registered, names, app, broker>>

-----------------------------------------------------------------------------
(***************************************************************************)
(* The data queue                                                          *)
(***************************************************************************)
\* data_config(): the channel is opened with the first configuration.
Opened == IF channel = "none" THEN "opening" ELSE channel

\* Mutant of Fixed: the name may always change.
NeverFixed(q) == FALSE

\* data_queue(): the name may change until the queue is consumed.
Fixed(q) == setUp /\ dataQueue # {q}

\* Mutant of SetupData: setup_data_queue() comes before data_queue(name).
SetupBeforeName(q) ==
  IF setUp \/ channel = "dead" THEN <<>> ELSE <<Operation("declare", dataQueue, "data")>>

\* Mutant of SetupData: the queue is set up with the first configuration only.
SetupOnce(q) ==
  IF channel # "none" THEN <<>> ELSE <<Operation("declare", q, "data")>>

\* setup_data_queue(): nothing to do once consuming.  On a broken channel the
\* operation is lost.
SetupData(q) ==
  IF setUp \/ channel = "dead" THEN <<>> ELSE <<Operation("declare", q, "data")>>

\* sink_config(), which is not called if the name is fixed.
SinkConfig(q) ==
  /\ ~Fixed(q)
  /\ channel' = Opened
  /\ dataQueue' = {q}
  /\ ops' = ops \o SetupData(q)
  /\ UNCHANGED <<consumers, setUp>>

-----------------------------------------------------------------------------
(***************************************************************************)
(* Sink and Drain                                                          *)
(***************************************************************************)
\* Sink::subscribe(), called by the application of a sink, more than once if it likes.
Subscribe ==
  /\ Running /\ kind = "sink" /\ Request
  /\ Call("sink.subscribe")
  /\ UNCHANGED <<kind, life, registered, names, app, broker>>

\* Sink::subscribe() for a limited time, which throws if that time is not positive.
SubscribeExpiring ==
  /\ Running /\ kind = "sink" /\ Request
  /\ \/ life' = "failed" /\ UNCHANGED <<made, calls>>
     \/ Call("sink.subscribe") /\ UNCHANGED life
  /\ UNCHANGED <<kind, registered, names, app, broker>>

\* Drain::on_connected()
DrainConnected ==
  /\ Running /\ kind = "drain" /\ made = 0
  /\ Call("sink.unsubscribe") /\ UNCHANGED requests
  /\ UNCHANGED <<kind, life, registered, names, app, broker>>

\* The response of sink.subscribe, for a db also of its later configurations,
\* and of the unsubscribe of a drain.
Subscribed(c) ==
  /\ Answered(c, "sink.subscribe") \/ Answered(c, "sink.unsubscribe")
  /\ UNCHANGED kind
  /\ \E q \in Queues :
       \/ Fixed(q) /\ Throw(c)
       \/ /\ SinkConfig(q) /\ NoCall(c)
          /\ UNCHANGED <<life, registered, historyQueue, exchange, app>>

-----------------------------------------------------------------------------
(***************************************************************************)
(* Source                                                                  *)
(***************************************************************************)
\* declare_metrics(): no RPC without metrics; c is the call just answered, if any.
DeclareAs(offered, stage) ==
  declared' = [m \in Metrics |-> IF m \in offered THEN stage ELSE declared[m]]
DeclareMetrics(done, offered, stage) ==
  IF offered = {}
  THEN calls' = calls \ done /\ UNCHANGED <<made, declared>>
  ELSE /\ made' = made + 1
       /\ calls' = (calls \ done) \cup {[id |-> made + 1, fn |-> "declare_metrics"]}
       /\ DeclareAs(offered, stage)

Stage == IF ready THEN "ready" ELSE "early"

\* Source::on_connected()
SourceConnected ==
  /\ Running /\ kind = "source" /\ made = 0
  /\ Call("source.register") /\ UNCHANGED requests
  /\ UNCHANGED <<kind, life, registered, names, app, broker>>

\* operator[] of a source: metrics are only added.
Offered(ms) == metrics \cup ms

\* Source::on_register_response(); on_source_config() offers some metrics.
SourceRegistered(c) ==
  /\ Answered(c, "source.register") /\ NoCall(c)
  /\ registered' = TRUE /\ exchange' = TRUE /\ configured' = TRUE
  /\ channel' = Opened
  /\ \E ms \in SUBSET Metrics : metrics' = Offered(ms)
  /\ UNCHANGED <<kind, life, dataQueue, historyQueue, inputs, declared, ready,
                 ops, consumers, setUp>>

\* The request "config" of a source; on_source_config() may also clear_metrics().
SourceConfig ==
  /\ Running /\ kind = "source" /\ registered /\ Request
  /\ \E ms \in SUBSET Metrics :
       /\ metrics' \in {ms, Offered(ms)}
       /\ DeclareMetrics({}, metrics', Stage)
  /\ UNCHANGED <<kind, life, registered, names, inputs, configured, ready, broker>>

\* Mutant of SourceReady: declares before the application is ready.
DeclareThenReady ==
  /\ ready' = TRUE
  /\ \E ms \in SUBSET Metrics :
       /\ metrics' = Offered(ms)
       /\ DeclareMetrics({}, metrics, "early")
  /\ UNCHANGED <<inputs, configured>>

\* Source::on_data_channel_ready(), when the channel opens: on_source_ready() may
\* offer more metrics.
SourceReady ==
  /\ ready' = TRUE
  /\ \E ms \in SUBSET Metrics :
       /\ metrics' = Offered(ms)
       /\ DeclareMetrics({}, metrics', "ready")
  /\ UNCHANGED <<inputs, configured>>

-----------------------------------------------------------------------------
(***************************************************************************)
(* Transformer                                                             *)
(***************************************************************************)
\* Transformer::on_connected()
TransformerConnected ==
  /\ Running /\ kind = "transformer" /\ made = 0
  /\ Call("transformer.register") /\ UNCHANGED requests
  /\ UNCHANGED <<kind, life, registered, names, app, broker>>

\* on_transformer_config() adds inputs and the metrics made of them.
TransformerApp ==
  /\ \E ins, ms \in SUBSET Metrics : inputs' = inputs \cup ins /\ metrics' = Offered(ms)
  /\ configured' = TRUE
  /\ UNCHANGED <<declared, ready>>

\* subscribe_metrics(): aborts the process without inputs.
SubscribeMetrics(done) ==
  IF inputs' = {}
  THEN life' = "aborted" /\ calls' = calls \ done /\ UNCHANGED made
  ELSE /\ made' = made + 1 /\ UNCHANGED life
       /\ calls' = (calls \ done) \cup {[id |-> made + 1, fn |-> "transformer.subscribe"]}

\* Mutant of TransformerRegistered: a queue in the answer is consumed at once.
EagerTransformer(c) ==
  /\ Answered(c, "transformer.register") /\ UNCHANGED requests
  /\ registered' = TRUE /\ exchange' = TRUE
  /\ TransformerApp /\ SubscribeMetrics({c})
  /\ \E q \in Queues : SinkConfig(q)
  /\ UNCHANGED <<kind, historyQueue>>

\* Transformer::on_register_response()
TransformerRegistered(c) ==
  /\ Answered(c, "transformer.register") /\ UNCHANGED requests
  /\ registered' = TRUE /\ exchange' = TRUE
  /\ TransformerApp /\ SubscribeMetrics({c})
  /\ UNCHANGED <<kind, dataQueue, historyQueue, broker>>

\* The request "config" of a transformer.
TransformerConfig ==
  /\ Running /\ kind = "transformer" /\ registered /\ Request
  /\ TransformerApp /\ SubscribeMetrics({})
  /\ UNCHANGED <<kind, registered, names, broker>>

\* The response of transformer.subscribe: sink_config(), on_transformer_ready(),
\* declare_metrics().
TransformerSubscribed(c) ==
  /\ Answered(c, "transformer.subscribe")
  /\ UNCHANGED kind
  /\ \E q \in Queues :
       \/ Fixed(q) /\ Throw(c)
       \/ /\ SinkConfig(q)
          /\ ready' = TRUE
          /\ DeclareMetrics({c}, metrics, "ready")
          /\ UNCHANGED <<requests, life, registered, historyQueue, exchange, inputs, metrics, configured>>

-----------------------------------------------------------------------------
(***************************************************************************)
(* Db                                                                      *)
(***************************************************************************)
\* Db::on_connected()
DbConnected ==
  /\ Running /\ kind = "db" /\ made = 0
  /\ Call("db.register") /\ UNCHANGED requests
  /\ UNCHANGED <<kind, life, registered, names, app, broker>>

\* Db::setup_history_queue()
HistorySetup(h) ==
  IF channel = "dead" THEN <<>> ELSE <<Operation("declare", h, "history")>>

\* Db::on_register_response(): sink_config(), on_db_config(), db_subscribe(), the
\* history queue, on_db_ready().
DbRegistered(c) ==
  /\ Answered(c, "db.register") /\ AndCall(c, "db.subscribe")
  /\ \E q, h \in Queues :
       /\ ~Fixed(q)
       /\ dataQueue' = {q} /\ historyQueue' = {h}
       /\ ops' = ops \o SetupData(q) \o HistorySetup(h)
  /\ channel' = Opened
  /\ registered' = TRUE /\ configured' = TRUE /\ ready' = TRUE
  /\ UNCHANGED <<kind, life, exchange, inputs, metrics, declared, consumers, setUp>>

\* The response of db.subscribe (Db::db_subscribe) must name the same queues.
DbSubscribed(c) ==
  /\ Answered(c, "db.subscribe")
  /\ UNCHANGED kind
  /\ \E q, h \in Queues :
       IF dataQueue = {q} /\ historyQueue = {h}
       THEN NoCall(c) /\ UNCHANGED <<life, registered, names, app, broker>>
       ELSE Throw(c)

\* The request "config" of a db.
DbConfig ==
  /\ Running /\ kind = "db" /\ registered /\ Request
  /\ Call("sink.subscribe")
  /\ UNCHANGED <<kind, life, registered, names, app, broker>>

\* The response of declare_metrics: nothing to do.
Declared(c) ==
  /\ Answered(c, "declare_metrics") /\ NoCall(c)
  /\ UNCHANGED <<kind, life, registered, names, app, broker>>

-----------------------------------------------------------------------------
(***************************************************************************)
(* The data channel                                                        *)
(***************************************************************************)
\* The broker confirms the channel: on_data_channel_ready().
ChannelReady ==
  /\ Running /\ channel = "opening"
  /\ channel' = "ready"
  /\ IF kind = "source" THEN SourceReady ELSE UNCHANGED <<made, calls, app>>
  /\ UNCHANGED <<kind, life, requests, registered, names, ops, consumers, setUp>>

\* Mutant of DeclareOk: a queue that has been replaced is not consumed, but the
\* comparison is the wrong way round.
DeclareSkipped ==
  /\ Running /\ channel = "ready" /\ ops # <<>> /\ Head(ops).op = "declare"
  /\ ops' = IF dataQueue = {Head(ops).queue} /\ Len(ops) > 1
            THEN Tail(ops) ELSE Append(Tail(ops), [Head(ops) EXCEPT !.op = "consume"])
  /\ UNCHANGED <<kind, life, rpcs, names, app, channel, consumers, setUp>>

\* The passive declaration succeeded: setup_data_consumer(), or the callback
\* on_register_response() of a db gave to setup_history_queue().
DeclareOk ==
  /\ Running /\ channel = "ready" /\ ops # <<>> /\ Head(ops).op = "declare"
  /\ ops' = Append(Tail(ops), [Head(ops) EXCEPT !.op = "consume"])
  /\ UNCHANGED <<kind, life, rpcs, names, app, channel, consumers, setUp>>

\* Mutant of ConsumeOk: the flag is forgotten.
ConsumeForgets ==
  /\ Running /\ channel = "ready" /\ ops # <<>> /\ Head(ops).op = "consume"
  /\ ops' = Tail(ops)
  /\ consumers' = consumers \cup {<<Head(ops).queue, Head(ops).for>>}
  /\ UNCHANGED <<kind, life, rpcs, names, app, channel, setUp>>

\* The consumer is registered.
ConsumeOk ==
  /\ Running /\ channel = "ready" /\ ops # <<>> /\ Head(ops).op = "consume"
  /\ ops' = Tail(ops)
  /\ consumers' = consumers \cup {<<Head(ops).queue, Head(ops).for>>}
  /\ setUp' = (setUp \/ Head(ops).for = "data")
  /\ UNCHANGED <<kind, life, rpcs, names, app, channel>>

\* The broker refuses an operation, or the queue is gone: it closes the channel,
\* and all that DataClient does about it is to log an error.
ChannelFails ==
  /\ Running /\ channel \in {"opening", "ready"}
  /\ channel' = "dead" /\ ops' = <<>> /\ consumers' = {}
  /\ UNCHANGED <<kind, life, rpcs, names, app, setUp>>

\* An RPC is refused or times out, a connection fails, or the application stops:
\* the rest is in Client.
Ends ==
  /\ Running
  /\ life' \in {"failed", "ended"}
  /\ UNCHANGED <<kind, rpcs, names, app, broker>>

-----------------------------------------------------------------------------
OnAnswer ==
  \E c \in calls :
    \/ Subscribed(c) \/ SourceRegistered(c)
    \/ TransformerRegistered(c) \/ TransformerSubscribed(c)
    \/ DbRegistered(c) \/ DbSubscribed(c) \/ Declared(c)

OnConnected == DrainConnected \/ SourceConnected \/ TransformerConnected \/ DbConnected
OnRequest == SourceConfig \/ TransformerConfig \/ DbConfig

Next ==
  \/ OnConnected \/ Subscribe \/ SubscribeExpiring \/ OnAnswer \/ OnRequest
  \/ ChannelReady \/ DeclareOk \/ ConsumeOk \/ ChannelFails \/ Ends

Spec == Init /\ [][Next]_vars

\* The broker confirms what it does not refuse.
FairSpec == Spec /\ WF_vars(ChannelReady) /\ WF_vars(DeclareOk) /\ WF_vars(ConsumeOk)

-----------------------------------------------------------------------------
\* The type invariant.
TypeOK ==
  /\ kind \in Kinds /\ life \in {"running", "failed", "ended", "aborted"}
  /\ requests \in 0..MaxRequests /\ made \in Nat
  /\ calls \subseteq [id : 1..made, fn : Functions]
  /\ registered \in BOOLEAN
  /\ dataQueue \in SUBSET Queues /\ historyQueue \in SUBSET Queues /\ exchange \in BOOLEAN
  /\ inputs \subseteq Metrics /\ metrics \subseteq Metrics
  /\ declared \in [Metrics -> {"no", "early", "ready"}]
  /\ configured \in BOOLEAN /\ ready \in BOOLEAN
  /\ channel \in {"none", "opening", "ready", "dead"}
  /\ ops \in Seq([op : {"declare", "consume"}, queue : Queues, for : Purposes])
  /\ consumers \subseteq Queues \X Purposes
  /\ setUp \in BOOLEAN

Pending(q, for) == \E i \in 1..Len(ops) : ops[i].queue = q /\ ops[i].for = for
Served(q, for) == <<q, for>> \in consumers \/ Pending(q, for)

\* As long as the data channel works, the queue that data_queue_ names, and the
\* history queue of a db, are consumed or about to be, whichever configuration
\* came while the set-up of an earlier one was under way.
NamedQueueServed ==
  channel \in {"opening", "ready"} =>
    /\ \A q \in dataQueue : Served(q, "data")
    /\ \A h \in historyQueue : Served(h, "history")

\* A client that consumes the queue it names stays with it.
StaysOnQueue ==
  [][\A q \in dataQueue : <<q, "data">> \in consumers => dataQueue' = dataQueue]_vars

\* No data arrives at an application that is not ready: not configured, without the
\* exchange it will send to, or with metrics it has not declared.
ReadyBeforeData ==
  consumers # {} /\ kind \in {"transformer", "db"} =>
    /\ registered /\ configured /\ ready
    /\ kind = "transformer" => exchange /\ inputs # {}

\* Once the application was told that it is ready, every metric it offers was
\* declared with the metadata it had then.
DeclaredWhenReady ==
  ready /\ kind = "source" => \A m \in metrics : declared[m] = "ready"

\* A set-up that began is completed: the named queue is consumed, a source becomes
\* ready, unless the channel breaks or the client ends.
SetupCompletes ==
  /\ \A q \in Queues, for \in Purposes :
       Pending(q, for) ~> <<q, for>> \in consumers \/ channel = "dead" \/ ~Running
  /\ channel = "opening" ~> channel # "opening" \/ ~Running
=============================================================================
