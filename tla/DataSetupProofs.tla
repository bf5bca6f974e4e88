------------------------------ MODULE DataSetupProofs ------------------------------
(***************************************************************************)
(* Proofs about DataSetup, for every value of the constants: the types,    *)
(* and that whatever the order of answers, config requests and             *)
(* confirmations, the named queue is served and kept, data waits for the   *)
(* application, and a source that is ready has declared its metrics.       *)
(***************************************************************************)
EXTENDS DataSetup, SequenceTheorems, TLAPS

\* Each class makes its own RPCs; a source has no queues.
KindOK ==
  /\ \A c \in calls :
       /\ c.fn = "sink.subscribe" => kind \in {"sink", "db"}
       /\ c.fn = "sink.unsubscribe" => kind = "drain"
       /\ c.fn = "source.register" => kind = "source"
       /\ c.fn \in {"transformer.register", "transformer.subscribe"} => kind = "transformer"
       /\ c.fn \in {"db.register", "db.subscribe"} => kind = "db"
  /\ kind = "source" => dataQueue = {} /\ historyQueue = {}

\* Nothing is set up before the channel is there; a consumer of data was noted.
ChannelOK ==
  /\ setUp \/ ops # <<>> \/ consumers # {} \/ historyQueue # {} => channel # "none"
  /\ made = 0 => channel = "none"
  /\ \A q \in Queues : <<q, "data">> \in consumers => setUp

\* A source is not ready before its registration was answered, which happens once.
RegisterOK ==
  /\ \A c \in calls : c.fn = "source.register" => c.id = 1 /\ channel = "none"
  /\ kind = "source" /\ ready => channel \in {"ready", "dead"}

\* The channel of a transformer or db is opened for an application that is ready.
TransformerOK ==
  kind = "transformer" =>
    /\ registered => exchange /\ configured
    /\ \A c \in calls : c.fn = "transformer.subscribe" => registered /\ inputs # {}
    /\ channel # "none" => registered /\ ready /\ inputs # {}
DbOK ==
  kind = "db" =>
    /\ \A c \in calls : c.fn = "sink.subscribe" => registered
    /\ registered => channel # "none"
    /\ channel # "none" => registered /\ configured /\ ready

\* What is about calls and the application, without the queues.
Order == KindOK /\ ChannelOK /\ RegisterOK /\ TransformerOK /\ DbOK /\ DeclaredWhenReady

\* The inductive invariant.
IInv == TypeOK /\ NamedQueueServed /\ Order

-----------------------------------------------------------------------------
(***************************************************************************)
(* Operations on the channel                                               *)
(***************************************************************************)
OpSet == [op : {"declare", "consume"}, queue : Queues, for : Purposes]

Has(s, q, for) == \E i \in 1..Len(s) : s[i].queue = q /\ s[i].for = for

\* A declaration alone.
LEMMA OneOperation ==
  ASSUME NEW q \in Queues, NEW for \in Purposes
  PROVE  /\ <<Operation("declare", q, for)>> \in Seq(OpSet)
         /\ Has(<<Operation("declare", q, for)>>, q, for)
<1>1. Operation("declare", q, for) \in OpSet  BY DEF Operation, OpSet
<1>2. <<Operation("declare", q, for)>> \in Seq(OpSet)  BY <1>1
<1>3. /\ Len(<<Operation("declare", q, for)>>) = 1
      /\ <<Operation("declare", q, for)>>[1] = Operation("declare", q, for)
  OBVIOUS
<1>4. Has(<<Operation("declare", q, for)>>, q, for)  BY <1>3 DEF Has, Operation
<1>5. QED  BY <1>2, <1>4

\* Nothing is lost when operations are added.
LEMMA Joined ==
  ASSUME NEW s \in Seq(OpSet), NEW t \in Seq(OpSet)
  PROVE  /\ s \o t \in Seq(OpSet)
         /\ \A q, for : Has(s, q, for) \/ Has(t, q, for) => Has(s \o t, q, for)
<1>1. /\ s \o t \in Seq(OpSet) /\ Len(s \o t) = Len(s) + Len(t)
      /\ \A i \in 1..(Len(s) + Len(t)) :
           (s \o t)[i] = IF i <= Len(s) THEN s[i] ELSE t[i - Len(s)]
      /\ Len(s) \in Nat /\ Len(t) \in Nat
  BY ConcatProperties, LenProperties
<1>2. ASSUME NEW q, NEW for, Has(s, q, for)
      PROVE  Has(s \o t, q, for)
  <2>1. PICK i \in 1..Len(s) : s[i].queue = q /\ s[i].for = for  BY <1>2 DEF Has
  <2>2. i \in 1..(Len(s) + Len(t)) /\ (s \o t)[i] = s[i]  BY <1>1, <2>1
  <2>3. QED  BY <1>1, <2>1, <2>2 DEF Has
<1>3. ASSUME NEW q, NEW for, Has(t, q, for)
      PROVE  Has(s \o t, q, for)
  <2>1. PICK i \in 1..Len(t) : t[i].queue = q /\ t[i].for = for  BY <1>3 DEF Has
  <2>2. /\ i + Len(s) \in 1..(Len(s) + Len(t))
        /\ (s \o t)[i + Len(s)] = t[i]
    BY <1>1, <2>1
  <2>3. QED  BY <1>1, <2>1, <2>2 DEF Has
<1>4. QED  BY <1>1, <1>2, <1>3

\* What is left when the first operation is taken.
LEMMA Taken ==
  ASSUME NEW s \in Seq(OpSet), s # <<>>
  PROVE  /\ Tail(s) \in Seq(OpSet) /\ Head(s) \in OpSet
         /\ \A q, for : Has(s, q, for) =>
              Has(Tail(s), q, for) \/ (Head(s).queue = q /\ Head(s).for = for)
<1>1. /\ Tail(s) \in Seq(OpSet) /\ Head(s) \in OpSet
      /\ Len(Tail(s)) = Len(s) - 1 /\ Len(s) \in Nat
      /\ \A i \in 1..Len(Tail(s)) : Tail(s)[i] = s[i + 1]
      /\ Head(s) = s[1]
  BY HeadTailProperties, LenProperties
<1>2. ASSUME NEW q, NEW for, Has(s, q, for), ~(Head(s).queue = q /\ Head(s).for = for)
      PROVE  Has(Tail(s), q, for)
  <2>1. PICK i \in 1..Len(s) : s[i].queue = q /\ s[i].for = for  BY <1>2 DEF Has
  <2>2. i # 1  BY <1>1, <1>2, <2>1
  <2>3. i - 1 \in 1..Len(Tail(s)) /\ Tail(s)[i - 1] = s[i]  BY <1>1, <2>1, <2>2
  <2>4. QED  BY <2>1, <2>3 DEF Has
<1>3. QED  BY <1>1, <1>2

\* A confirmed declaration becomes the request to consume the same queue.
LEMMA Moved ==
  ASSUME NEW s \in Seq(OpSet), s # <<>>
  PROVE  LET moved == Append(Tail(s), [Head(s) EXCEPT !.op = "consume"])
         IN  /\ moved \in Seq(OpSet) /\ moved # <<>>
             /\ \A q, for : Has(s, q, for) => Has(moved, q, for)
<1> DEFINE last == [Head(s) EXCEPT !.op = "consume"]
           moved == Append(Tail(s), last)
<1>1. Tail(s) \in Seq(OpSet) /\ Head(s) \in OpSet  BY Taken
<1>2. last \in OpSet /\ last.queue = Head(s).queue /\ last.for = Head(s).for
  BY <1>1 DEF OpSet
<1>3. /\ moved \in Seq(OpSet) /\ Len(moved) = Len(Tail(s)) + 1 /\ Len(Tail(s)) \in Nat
      /\ \A i \in 1..Len(Tail(s)) : moved[i] = Tail(s)[i]
      /\ moved[Len(Tail(s)) + 1] = last
  BY <1>1, <1>2, AppendProperties, LenProperties
<1>4. moved # <<>>  BY <1>3, EmptySeq
<1>5. ASSUME NEW q, NEW for, Has(s, q, for)
      PROVE  Has(moved, q, for)
  <2>1. CASE Has(Tail(s), q, for)
    <3>1. PICK i \in 1..Len(Tail(s)) : Tail(s)[i].queue = q /\ Tail(s)[i].for = for
      BY <2>1 DEF Has
    <3>2. i \in 1..Len(moved) /\ moved[i] = Tail(s)[i]  BY <1>3, <3>1
    <3>3. QED  BY <3>1, <3>2 DEF Has
  <2>2. CASE Head(s).queue = q /\ Head(s).for = for
    <3>1. Len(Tail(s)) + 1 \in 1..Len(moved)  BY <1>3
    <3>2. moved[Len(Tail(s)) + 1].queue = q /\ moved[Len(Tail(s)) + 1].for = for
      BY <1>2, <1>3, <2>2
    <3>3. QED  BY <3>1, <3>2 DEF Has
  <2>3. QED  BY <1>5, <2>1, <2>2, Taken
<1>6. QED  BY <1>3, <1>4, <1>5

\* What setup_data_queue() and setup_history_queue() ask for.
LEMMA SetupDataAsks ==
  ASSUME NEW q \in Queues
  PROVE  /\ SetupData(q) \in Seq(OpSet)
         /\ ~setUp /\ channel # "dead" => Has(SetupData(q), q, "data")
<1>1. "data" \in Purposes  BY DEF Purposes
<1>2. QED  BY <1>1, OneOperation, EmptySeq DEF SetupData

LEMMA HistorySetupAsks ==
  ASSUME NEW h \in Queues
  PROVE  /\ HistorySetup(h) \in Seq(OpSet)
         /\ channel # "dead" => Has(HistorySetup(h), h, "history")
<1>1. "history" \in Purposes  BY DEF Purposes
<1>2. QED  BY <1>1, OneOperation, EmptySeq DEF HistorySetup

-----------------------------------------------------------------------------
(***************************************************************************)
(* Types                                                                   *)
(***************************************************************************)
\* The state of the broker after a configuration of the data queue.
LEMMA TypeSinkConfig ==
  ASSUME TypeOK, NEW q \in Queues, SinkConfig(q)
  PROVE  /\ dataQueue' \in SUBSET Queues /\ channel' \in {"opening", "ready", "dead"}
         /\ ops' \in Seq(OpSet) /\ consumers' = consumers /\ setUp' = setUp
<1>1. ops \in Seq(OpSet) /\ SetupData(q) \in Seq(OpSet)
  BY SetupDataAsks DEF TypeOK, OpSet
<1>2. ops' \in Seq(OpSet)  BY <1>1, Joined DEF SinkConfig
<1>3. channel' \in {"opening", "ready", "dead"}  BY DEF SinkConfig, Opened, TypeOK
<1>4. QED  BY <1>2, <1>3 DEF SinkConfig

\* A declaration of metrics.
LEMMA TypeDeclareMetrics ==
  ASSUME TypeOK, NEW done, NEW offered, NEW stage \in {"early", "ready"},
         DeclareMetrics(done, offered, stage)
  PROVE  /\ made' \in Nat /\ calls' \subseteq [id : 1..made', fn : Functions]
         /\ declared' \in [Metrics -> {"no", "early", "ready"}]
<1>1. made' \in Nat /\ calls' \subseteq [id : 1..made', fn : Functions]
  BY DEF TypeOK, DeclareMetrics, Functions
<1>2. declared' \in [Metrics -> {"no", "early", "ready"}]
  BY DEF TypeOK, DeclareMetrics, DeclareAs
<1>3. QED  BY <1>1, <1>2

LEMMA TypeInit == Init => TypeOK
<1>1. SUFFICES ASSUME Init PROVE TypeOK  OBVIOUS
<1>2. <<>> \in Seq(OpSet)  BY EmptySeq
<1>3. dataQueue \in SUBSET Queues  BY <1>1 DEF Init, InitialQueue
<1>4. declared \in [Metrics -> {"no", "early", "ready"}]  BY <1>1 DEF Init
<1>5. made = 0 /\ calls = {} /\ requests = 0 /\ requests \in 0..MaxRequests
  BY <1>1, SetupAssumption DEF Init
<1>6. calls \subseteq [id : 1..made, fn : Functions]  BY <1>5
<1>7. /\ kind \in Kinds /\ life = "running" /\ registered = FALSE
      /\ historyQueue = {} /\ exchange = FALSE /\ inputs = {} /\ metrics = {}
  BY <1>1 DEF Init
<1>8. /\ configured = FALSE /\ ready = FALSE /\ channel = "none" /\ ops = <<>>
      /\ consumers = {} /\ setUp = FALSE
  BY <1>1 DEF Init
<1>9. QED  BY <1>2, <1>3, <1>4, <1>5, <1>6, <1>7, <1>8 DEF TypeOK, OpSet

\* Each handler of an answer.
LEMMA TypeOnAnswer ==
  ASSUME TypeOK, OnAnswer
  PROVE  TypeOK'
<1>1. PICK c \in calls :
        \/ Subscribed(c) \/ SourceRegistered(c)
        \/ TransformerRegistered(c) \/ TransformerSubscribed(c)
        \/ DbRegistered(c) \/ DbSubscribed(c) \/ Declared(c)
  BY DEF OnAnswer
<1>2. CASE Throw(c) /\ kind' = kind
  BY <1>2 DEF TypeOK, Throw, names, app, broker
<1>3. CASE Subscribed(c)
  <2>1. kind' = kind  BY <1>3 DEF Subscribed
  <2>2. PICK q \in Queues :
          \/ Throw(c)
          \/ /\ SinkConfig(q) /\ NoCall(c)
             /\ UNCHANGED <<life, registered, historyQueue, exchange, app>>
    BY <1>3 DEF Subscribed
  <2>3. CASE SinkConfig(q) /\ NoCall(c)
             /\ UNCHANGED <<life, registered, historyQueue, exchange, app>>
    BY <2>1, <2>3, TypeSinkConfig DEF TypeOK, NoCall, app, OpSet
  <2>4. QED  BY <1>2, <2>1, <2>2, <2>3
<1>4. CASE SourceRegistered(c)
  BY <1>4 DEF TypeOK, SourceRegistered, NoCall, Opened, Offered
<1>5. CASE TransformerRegistered(c)
  BY <1>5 DEF TypeOK, TransformerRegistered, TransformerApp, SubscribeMetrics, Offered,
              Functions, broker
<1>6. CASE TransformerSubscribed(c)
  <2>1. kind' = kind  BY <1>6 DEF TransformerSubscribed
  <2>2. PICK q \in Queues :
          \/ Throw(c)
          \/ /\ SinkConfig(q) /\ ready' = TRUE /\ DeclareMetrics({c}, metrics, "ready")
             /\ UNCHANGED <<requests, life, registered, historyQueue, exchange, inputs,
                            metrics, configured>>
    BY <1>6 DEF TransformerSubscribed
  <2>3. CASE /\ SinkConfig(q) /\ ready' = TRUE /\ DeclareMetrics({c}, metrics, "ready")
             /\ UNCHANGED <<requests, life, registered, historyQueue, exchange, inputs,
                            metrics, configured>>
    <3>1. /\ made' \in Nat /\ calls' \subseteq [id : 1..made', fn : Functions]
          /\ declared' \in [Metrics -> {"no", "early", "ready"}]
      BY <2>3, TypeDeclareMetrics
    <3>2. QED  BY <2>1, <2>3, <3>1, TypeSinkConfig DEF TypeOK, OpSet
  <2>4. QED  BY <1>2, <2>1, <2>2, <2>3
<1>7. CASE DbRegistered(c)
  <2>1. PICK q, h \in Queues :
          /\ dataQueue' = {q} /\ historyQueue' = {h}
          /\ ops' = ops \o SetupData(q) \o HistorySetup(h)
    BY <1>7 DEF DbRegistered
  <2>2. ops \in Seq(OpSet)  BY DEF TypeOK, OpSet
  <2>3. ops' \in Seq(OpSet)  BY <2>1, <2>2, SetupDataAsks, HistorySetupAsks, Joined
  <2>4. QED  BY <1>7, <2>1, <2>3 DEF TypeOK, DbRegistered, AndCall, Opened, Functions, OpSet
<1>8. CASE DbSubscribed(c)
  <2>1. Throw(c) \/ (NoCall(c) /\ UNCHANGED <<life, registered, names, app, broker>>)
    BY <1>8 DEF DbSubscribed
  <2>2. kind' = kind  BY <1>8 DEF DbSubscribed
  <2>3. QED  BY <1>2, <2>1, <2>2 DEF TypeOK, NoCall, names, app, broker
<1>9. CASE Declared(c)
  BY <1>9 DEF TypeOK, Declared, NoCall, names, app, broker
<1>10. QED  BY <1>1, <1>3, <1>4, <1>5, <1>6, <1>7, <1>8, <1>9

LEMMA TypeNext == TypeOK /\ [Next]_vars => TypeOK'
<1>1. SUFFICES ASSUME TypeOK, [Next]_vars PROVE TypeOK'  OBVIOUS
<1>2. CASE OnConnected
  BY <1>1, <1>2 DEF OnConnected, DrainConnected, SourceConnected, TransformerConnected,
     DbConnected, Call, TypeOK, Functions, names, app, broker
<1>3. CASE Subscribe
  BY <1>1, <1>3, SetupAssumption
     DEF Subscribe, Request, Call, TypeOK, Functions, names, app, broker
<1>4. CASE SubscribeExpiring
  BY <1>1, <1>4, SetupAssumption
     DEF SubscribeExpiring, Request, Call, TypeOK, Functions, names, app, broker
<1>5. CASE OnAnswer  BY <1>1, <1>5, TypeOnAnswer
<1>6. CASE SourceConfig
  BY <1>1, <1>6, SetupAssumption
     DEF SourceConfig, Request, DeclareMetrics, DeclareAs, Stage, Offered, TypeOK,
         Functions, names, broker
<1>7. CASE TransformerConfig
  BY <1>1, <1>7, SetupAssumption
     DEF TransformerConfig, Request, TransformerApp, SubscribeMetrics, Offered, TypeOK,
         Functions, names, broker
<1>8. CASE DbConfig
  BY <1>1, <1>8, SetupAssumption
     DEF DbConfig, Request, Call, TypeOK, Functions, names, app, broker
<1>9. CASE ChannelReady
  <2>1. CASE SourceReady
    <3>1. PICK ms \in SUBSET Metrics :
            metrics' = Offered(ms) /\ DeclareMetrics({}, metrics', "ready")
      BY <2>1 DEF SourceReady
    <3>2. /\ made' \in Nat /\ calls' \subseteq [id : 1..made', fn : Functions]
          /\ declared' \in [Metrics -> {"no", "early", "ready"}]
      BY <1>1, <3>1, TypeDeclareMetrics
    <3>3. metrics' \subseteq Metrics  BY <1>1, <3>1 DEF Offered, TypeOK
    <3>4. QED  BY <1>1, <1>9, <2>1, <3>2, <3>3 DEF ChannelReady, SourceReady, TypeOK, names
  <2>2. CASE UNCHANGED <<made, calls, app>>
    BY <1>1, <1>9, <2>2 DEF ChannelReady, TypeOK, names, app
  <2>3. QED  BY <1>9, <2>1, <2>2 DEF ChannelReady
<1>10. CASE DeclareOk
  <2>1. ops \in Seq(OpSet)  BY <1>1 DEF TypeOK, OpSet
  <2>2. ops' \in Seq(OpSet)  BY <1>10, <2>1, Moved DEF DeclareOk
  <2>3. QED  BY <1>1, <1>10, <2>2 DEF DeclareOk, TypeOK, OpSet, rpcs, names, app
<1>11. CASE ConsumeOk
  <2>1. ops \in Seq(OpSet)  BY <1>1 DEF TypeOK, OpSet
  <2>2. ops' \in Seq(OpSet) /\ Head(ops) \in OpSet  BY <1>11, <2>1, Taken DEF ConsumeOk
  <2>3. QED  BY <1>1, <1>11, <2>2 DEF ConsumeOk, TypeOK, OpSet, rpcs, names, app
<1>12. CASE ChannelFails
  <2>1. <<>> \in Seq(OpSet)  BY EmptySeq
  <2>2. QED  BY <1>1, <1>12, <2>1 DEF ChannelFails, TypeOK, OpSet, rpcs, names, app
<1>13. CASE Ends
  BY <1>1, <1>13 DEF Ends, TypeOK, rpcs, names, app, broker
<1>14. CASE UNCHANGED vars
  BY <1>1, <1>14 DEF vars, TypeOK, rpcs, names, app, broker
<1>15. QED
  BY <1>1, <1>2, <1>3, <1>4, <1>5, <1>6, <1>7, <1>8, <1>9, <1>10, <1>11, <1>12, <1>13, <1>14
     DEF Next, OnRequest

-----------------------------------------------------------------------------
(***************************************************************************)
(* The named queue                                                         *)
(***************************************************************************)
LEMMA ServedStays ==
  ASSUME NEW q, NEW for, Served(q, for), consumers \subseteq consumers',
         Has(ops, q, for) => Has(ops', q, for)
  PROVE  Served(q, for)'
  BY DEF Served, Pending, Has

LEMMA ServedSinkConfig ==
  ASSUME TypeOK, ChannelOK, NamedQueueServed, NEW q \in Queues, SinkConfig(q),
         historyQueue' = historyQueue
  PROVE  NamedQueueServed'
<1>1. SUFFICES ASSUME channel' \in {"opening", "ready"}
      PROVE  Served(q, "data")' /\ \A h \in historyQueue : Served(h, "history")'
  BY DEF NamedQueueServed, SinkConfig
<1>2. /\ channel # "dead" /\ dataQueue' = {q} /\ consumers' = consumers
      /\ ops' = ops \o SetupData(q) /\ (setUp => dataQueue = {q})
  BY <1>1 DEF SinkConfig, Opened, Fixed
<1>3. ops \in Seq(OpSet) /\ SetupData(q) \in Seq(OpSet)
  BY SetupDataAsks DEF TypeOK, OpSet
<1>4. /\ \A r, for : Has(ops, r, for) => Has(ops', r, for)
      /\ Has(SetupData(q), q, "data") => Has(ops', q, "data")
  BY <1>2, <1>3, Joined
<1>5. Served(q, "data")'
  <2>1. CASE setUp
    <3>1. channel # "none"  BY <2>1 DEF ChannelOK
    <3>2. Served(q, "data")  BY <1>2, <2>1, <3>1 DEF NamedQueueServed, TypeOK
    <3>3. QED  BY <1>2, <1>4, <3>2, ServedStays
  <2>2. CASE ~setUp
    <3>1. Has(ops', q, "data")  BY <1>2, <1>4, <2>2, SetupDataAsks
    <3>2. QED  BY <3>1 DEF Served, Pending, Has
  <2>3. QED  BY <2>1, <2>2
<1>6. ASSUME NEW h \in historyQueue
      PROVE  Served(h, "history")'
  <2>1. channel # "none"  BY <1>6 DEF ChannelOK
  <2>2. Served(h, "history")  BY <1>2, <1>6, <2>1 DEF NamedQueueServed, TypeOK
  <2>3. QED  BY <1>2, <1>4, <2>2, ServedStays
<1>7. QED  BY <1>5, <1>6

LEMMA ServedDbRegistered ==
  ASSUME TypeOK, ChannelOK, NamedQueueServed, NEW c \in calls, DbRegistered(c)
  PROVE  NamedQueueServed'
<1>1. PICK q, h \in Queues :
        /\ ~Fixed(q)
        /\ dataQueue' = {q} /\ historyQueue' = {h}
        /\ ops' = (ops \o SetupData(q)) \o HistorySetup(h)
  BY DEF DbRegistered
<1>2. SUFFICES ASSUME channel' \in {"opening", "ready"}
      PROVE  Served(q, "data")' /\ Served(h, "history")'
  BY <1>1 DEF NamedQueueServed
<1>3. channel # "dead" /\ consumers' = consumers /\ (setUp => dataQueue = {q})
  BY <1>1, <1>2 DEF DbRegistered, Opened, Fixed
<1>4. /\ ops \in Seq(OpSet) /\ SetupData(q) \in Seq(OpSet)
      /\ HistorySetup(h) \in Seq(OpSet)
  BY SetupDataAsks, HistorySetupAsks DEF TypeOK, OpSet
<1>5. /\ ops \o SetupData(q) \in Seq(OpSet)
      /\ \A r, for : Has(ops, r, for) \/ Has(SetupData(q), r, for) =>
           Has(ops \o SetupData(q), r, for)
  BY <1>4, Joined
<1>6. \A r, for : Has(ops \o SetupData(q), r, for) \/ Has(HistorySetup(h), r, for) =>
        Has(ops', r, for)
  BY <1>1, <1>4, <1>5, Joined
<1>7. Served(h, "history")'
  <2>1. Has(ops', h, "history")  BY <1>3, <1>6, HistorySetupAsks
  <2>2. QED  BY <2>1 DEF Served, Pending, Has
<1>8. Served(q, "data")'
  <2>1. CASE setUp
    <3>1. channel # "none"  BY <2>1 DEF ChannelOK
    <3>2. Served(q, "data")  BY <1>3, <2>1, <3>1 DEF NamedQueueServed, TypeOK
    <3>3. QED  BY <1>3, <1>5, <1>6, <3>2, ServedStays
  <2>2. CASE ~setUp
    <3>1. Has(ops', q, "data")  BY <1>3, <1>5, <1>6, <2>2, SetupDataAsks
    <3>2. QED  BY <3>1 DEF Served, Pending, Has
  <2>3. QED  BY <2>1, <2>2
<1>9. QED  BY <1>7, <1>8

\* A confirmation takes nothing away.
LEMMA ServedConfirm ==
  ASSUME TypeOK, NamedQueueServed, DeclareOk \/ ConsumeOk
  PROVE  NamedQueueServed'
<1>1. UNCHANGED <<dataQueue, historyQueue, channel>>
  BY DEF DeclareOk, ConsumeOk, names
<1>2. ops \in Seq(OpSet)  BY DEF TypeOK, OpSet
<1>3. ASSUME NEW q, NEW for, Served(q, for)
      PROVE  Served(q, for)'
  <2>1. CASE DeclareOk
    <3>1. Has(ops, q, for) => Has(ops', q, for)  BY <1>2, <2>1, Moved DEF DeclareOk
    <3>2. consumers' = consumers  BY <2>1 DEF DeclareOk
    <3>3. QED  BY <1>3, <3>1, <3>2, ServedStays
  <2>2. CASE ConsumeOk
    <3>1. /\ consumers' = consumers \cup {<<Head(ops).queue, Head(ops).for>>}
          /\ ops' = Tail(ops) /\ ops # <<>>
      BY <2>2 DEF ConsumeOk
    <3>2. CASE Head(ops).queue = q /\ Head(ops).for = for
      BY <3>1, <3>2 DEF Served
    <3>3. CASE ~(Head(ops).queue = q /\ Head(ops).for = for)
      <4>1. Has(ops, q, for) => Has(ops', q, for)  BY <1>2, <3>1, <3>3, Taken
      <4>2. QED  BY <1>3, <3>1, <4>1, ServedStays
    <3>4. QED  BY <3>2, <3>3
  <2>3. QED  BY <2>1, <2>2
<1>4. QED  BY <1>1, <1>3 DEF NamedQueueServed

\* The queues and the operations stay as they are.
LEMMA ServedSame ==
  ASSUME NamedQueueServed, UNCHANGED <<dataQueue, historyQueue, ops, consumers>>,
         channel' \in {"opening", "ready"} => channel \in {"opening", "ready"}
  PROVE  NamedQueueServed'
  BY DEF NamedQueueServed, Served, Pending

LEMMA ServedOnAnswer ==
  ASSUME TypeOK, NamedQueueServed, KindOK, ChannelOK, OnAnswer
  PROVE  NamedQueueServed'
<1>1. PICK c \in calls :
        \/ Subscribed(c) \/ SourceRegistered(c)
        \/ TransformerRegistered(c) \/ TransformerSubscribed(c)
        \/ DbRegistered(c) \/ DbSubscribed(c) \/ Declared(c)
  BY DEF OnAnswer
<1>2. CASE Throw(c)  BY <1>2, ServedSame DEF Throw, names, broker
<1>3. CASE Subscribed(c)
  <2>1. PICK q \in Queues : Throw(c) \/ (SinkConfig(q) /\ historyQueue' = historyQueue)
    BY <1>3 DEF Subscribed
  <2>2. QED  BY <1>2, <2>1, ServedSinkConfig
<1>4. CASE SourceRegistered(c)
  <2>1. dataQueue' = {} /\ historyQueue' = {}
    BY <1>4 DEF SourceRegistered, Answered, KindOK
  <2>2. QED  BY <2>1 DEF NamedQueueServed
<1>5. CASE TransformerRegistered(c)
  BY <1>5, ServedSame DEF TransformerRegistered, broker
<1>6. CASE TransformerSubscribed(c)
  <2>1. PICK q \in Queues : Throw(c) \/ (SinkConfig(q) /\ historyQueue' = historyQueue)
    BY <1>6 DEF TransformerSubscribed
  <2>2. QED  BY <1>2, <2>1, ServedSinkConfig
<1>7. CASE DbRegistered(c)  BY <1>7, ServedDbRegistered
<1>8. CASE DbSubscribed(c)
  <2>1. Throw(c) \/ UNCHANGED <<names, broker>>  BY <1>8 DEF DbSubscribed
  <2>2. QED  BY <1>2, <2>1, ServedSame DEF names, broker
<1>9. CASE Declared(c)  BY <1>9, ServedSame DEF Declared, names, broker
<1>10. QED  BY <1>1, <1>3, <1>4, <1>5, <1>6, <1>7, <1>8, <1>9

LEMMA ServedNext ==
  ASSUME TypeOK, NamedQueueServed, KindOK, ChannelOK, [Next]_vars
  PROVE  NamedQueueServed'
<1>1. CASE OnAnswer  BY <1>1, ServedOnAnswer
<1>2. CASE DeclareOk \/ ConsumeOk  BY <1>2, ServedConfirm
<1>3. CASE ChannelFails  BY <1>3 DEF ChannelFails, NamedQueueServed
<1>4. CASE ChannelReady  BY <1>4, ServedSame DEF ChannelReady, names
<1>5. CASE OnConnected
  BY <1>5, ServedSame
     DEF OnConnected, DrainConnected, SourceConnected, TransformerConnected, DbConnected,
         names, broker
<1>6. CASE Subscribe \/ SubscribeExpiring
  BY <1>6, ServedSame DEF Subscribe, SubscribeExpiring, names, broker
<1>7. CASE OnRequest
  BY <1>7, ServedSame
     DEF OnRequest, SourceConfig, TransformerConfig, DbConfig, names, broker
<1>8. CASE Ends \/ UNCHANGED vars
  BY <1>8, ServedSame DEF Ends, vars, names, broker
<1>9. QED  BY <1>1, <1>2, <1>3, <1>4, <1>5, <1>6, <1>7, <1>8 DEF Next

-----------------------------------------------------------------------------
(***************************************************************************)
(* The order of registration, configuration, readiness and the channel     *)
(***************************************************************************)
LEMMA OrderInit == Init => Order
  BY DEF Init, Order, KindOK, ChannelOK, RegisterOK, TransformerOK, DbOK,
         DeclaredWhenReady, InitialQueue

\* An exception leaves a call less, and all else as it is.
LEMMA OrderThrow ==
  ASSUME Order, NEW c \in calls, Throw(c), kind' = kind
  PROVE  Order'
<1>1. calls' \subseteq calls /\ UNCHANGED <<made, registered, names, app, broker>>
  BY DEF Throw
<1>2. KindOK' /\ ChannelOK' /\ RegisterOK'
  BY <1>1 DEF Order, KindOK, ChannelOK, RegisterOK, names, app, broker
<1>3. TransformerOK' /\ DbOK' /\ DeclaredWhenReady'
  BY <1>1 DEF Order, TransformerOK, DbOK, DeclaredWhenReady, names, app, broker
<1>4. QED  BY <1>2, <1>3 DEF Order

\* The only registration of a source: before it the channel was not there, so
\* that the source was not ready.
LEMMA OrderSourceRegistered ==
  ASSUME TypeOK, Order, NEW c \in calls, SourceRegistered(c)
  PROVE  Order'
<1>1. kind = "source" /\ channel = "none" /\ c.id = 1 /\ ~ready
  BY DEF SourceRegistered, Answered, Order, KindOK, RegisterOK
<1>2. \A d \in calls' : d \in calls /\ d.fn # "source.register"
  <2>1. SUFFICES ASSUME NEW d \in calls', d.fn = "source.register" PROVE FALSE
    BY DEF SourceRegistered, NoCall
  <2>2. d \in calls /\ d # c  BY DEF SourceRegistered, NoCall
  <2>3. d.id = c.id /\ d.fn = c.fn
    BY <1>1, <2>1, <2>2 DEF Order, RegisterOK, SourceRegistered, Answered
  <2>4. d \in [id : 1..made, fn : Functions] /\ c \in [id : 1..made, fn : Functions]
    BY <2>2 DEF TypeOK
  <2>5. QED  BY <2>2, <2>3, <2>4
<1>3. /\ kind' = kind /\ ready' = ready /\ channel' = "opening" /\ made' = made /\ made # 0
      /\ UNCHANGED <<dataQueue, historyQueue, consumers, setUp>>
  BY <1>1 DEF SourceRegistered, NoCall, Opened, TypeOK
<1>4. KindOK' /\ ChannelOK' /\ RegisterOK'
  BY <1>1, <1>2, <1>3 DEF Order, KindOK, ChannelOK, RegisterOK
<1>5. TransformerOK' /\ DbOK' /\ DeclaredWhenReady'
  BY <1>1, <1>3 DEF TransformerOK, DbOK, DeclaredWhenReady
<1>6. QED  BY <1>4, <1>5 DEF Order

\* A source becomes ready when its channel does, and declares what it has then.
LEMMA OrderChannelReady ==
  ASSUME TypeOK, Order, ChannelReady
  PROVE  Order'
<1>1. /\ channel = "opening" /\ channel' = "ready"
      /\ UNCHANGED <<kind, registered, names, ops, consumers, setUp>>
  BY DEF ChannelReady
<1>2. CASE kind = "source"
  <2>1. /\ ready' = TRUE
        /\ \E ms \in SUBSET Metrics :
             metrics' = Offered(ms) /\ DeclareMetrics({}, metrics', "ready")
    BY <1>2 DEF ChannelReady, SourceReady
  <2>2. KindOK' /\ ChannelOK' /\ RegisterOK'
    BY <1>1, <1>2, <2>1
       DEF Order, KindOK, ChannelOK, RegisterOK, DeclareMetrics, TypeOK, names
  <2>3. metrics' \subseteq Metrics  BY <2>1 DEF Offered, TypeOK
  <2>4. DeclaredWhenReady'
    BY <2>1, <2>3 DEF DeclaredWhenReady, DeclareMetrics, DeclareAs
  <2>5. TransformerOK' /\ DbOK'  BY <1>1, <1>2 DEF TransformerOK, DbOK
  <2>6. QED  BY <2>2, <2>4, <2>5 DEF Order
<1>3. CASE kind # "source"
  <2>1. UNCHANGED <<made, calls, app>>  BY <1>3 DEF ChannelReady
  <2>2. KindOK' /\ ChannelOK' /\ RegisterOK'
    BY <1>1, <1>3, <2>1 DEF Order, KindOK, ChannelOK, RegisterOK, names, app
  <2>3. TransformerOK' /\ DbOK' /\ DeclaredWhenReady'
    BY <1>1, <1>3, <2>1 DEF Order, TransformerOK, DbOK, DeclaredWhenReady, names, app
  <2>4. QED  BY <2>2, <2>3 DEF Order
<1>4. QED  BY <1>2, <1>3

LEMMA OrderOnAnswer ==
  ASSUME TypeOK, Order, OnAnswer
  PROVE  Order'
<1>1. PICK c \in calls :
        \/ Subscribed(c) \/ SourceRegistered(c)
        \/ TransformerRegistered(c) \/ TransformerSubscribed(c)
        \/ DbRegistered(c) \/ DbSubscribed(c) \/ Declared(c)
  BY DEF OnAnswer
<1> USE DEF Answered, KindOK, ChannelOK, RegisterOK, TransformerOK, DbOK, DeclaredWhenReady
<1>2. CASE Subscribed(c)
  <2>1. kind' = kind /\ kind # "source" /\ kind # "transformer"
    BY <1>2 DEF Subscribed, Order
  <2>2. PICK q \in Queues :
          \/ Throw(c)
          \/ /\ SinkConfig(q) /\ NoCall(c)
             /\ UNCHANGED <<life, registered, historyQueue, exchange, app>>
    BY <1>2 DEF Subscribed
  <2>3. CASE /\ SinkConfig(q) /\ NoCall(c)
             /\ UNCHANGED <<life, registered, historyQueue, exchange, app>>
    <3>1. channel' # "none" /\ (channel # "none" => channel' = channel)
      BY <2>3 DEF SinkConfig, Opened
    <3>2. kind = "db" => channel # "none"  BY <1>2, <2>1 DEF Subscribed, Order
    <3>3. KindOK' /\ ChannelOK' /\ RegisterOK'
      BY <2>1, <2>3, <3>1 DEF Order, SinkConfig, NoCall, app, TypeOK
    <3>4. TransformerOK' /\ DbOK' /\ DeclaredWhenReady'
      BY <2>1, <2>3, <3>1, <3>2 DEF Order, NoCall, app
    <3>5. QED  BY <3>3, <3>4 DEF Order
  <2>4. QED  BY <2>1, <2>2, <2>3, OrderThrow
<1>3. CASE SourceRegistered(c)  BY <1>3, OrderSourceRegistered
<1>4. CASE TransformerRegistered(c)
  BY <1>4 DEF Order, TransformerRegistered, TransformerApp, SubscribeMetrics, TypeOK, broker
<1>5. CASE TransformerSubscribed(c)
  <2>1. kind' = kind /\ kind = "transformer" /\ registered /\ inputs # {}
    BY <1>5 DEF TransformerSubscribed, Order
  <2>2. PICK q \in Queues :
          \/ Throw(c)
          \/ /\ SinkConfig(q) /\ ready' = TRUE /\ DeclareMetrics({c}, metrics, "ready")
             /\ UNCHANGED <<requests, life, registered, historyQueue, exchange, inputs,
                            metrics, configured>>
    BY <1>5 DEF TransformerSubscribed
  <2>3. CASE /\ SinkConfig(q) /\ ready' = TRUE /\ DeclareMetrics({c}, metrics, "ready")
             /\ UNCHANGED <<requests, life, registered, historyQueue, exchange, inputs,
                            metrics, configured>>
    BY <2>1, <2>3 DEF Order, SinkConfig, Opened, DeclareMetrics, TypeOK
  <2>4. QED  BY <2>1, <2>2, <2>3, OrderThrow
<1>6. CASE DbRegistered(c)
  BY <1>6 DEF Order, DbRegistered, AndCall, Opened, TypeOK
<1>7. CASE DbSubscribed(c)
  <2>1. Throw(c) \/ (NoCall(c) /\ UNCHANGED <<life, registered, names, app, broker>>)
    BY <1>7 DEF DbSubscribed
  <2>2. kind' = kind  BY <1>7 DEF DbSubscribed
  <2>3. QED  BY <2>1, <2>2, OrderThrow DEF Order, NoCall, names, app, broker
<1>8. CASE Declared(c)
  BY <1>8 DEF Order, Declared, NoCall, names, app, broker
<1>9. QED  BY <1>1, <1>2, <1>3, <1>4, <1>5, <1>6, <1>7, <1>8

LEMMA OrderNext ==
  ASSUME TypeOK, Order, [Next]_vars
  PROVE  Order'
<1>1. CASE OnAnswer  BY <1>1, OrderOnAnswer
<1>2. CASE ChannelReady  BY <1>2, OrderChannelReady
<1> USE DEF KindOK, ChannelOK, RegisterOK, TransformerOK, DbOK, DeclaredWhenReady
<1>3. CASE OnConnected
  <2>1. made = 0 /\ calls = {} /\ channel = "none"
    BY <1>3 DEF OnConnected, DrainConnected, SourceConnected, TransformerConnected,
                DbConnected, Order, TypeOK
  <2>2. QED
    BY <1>3, <2>1 DEF OnConnected, DrainConnected, SourceConnected, TransformerConnected,
                      DbConnected, Call, Order, names, app, broker
<1>4. CASE Subscribe \/ SubscribeExpiring
  BY <1>4 DEF Subscribe, SubscribeExpiring, Call, Order, TypeOK, names, app, broker
<1>5. CASE SourceConfig
  <2>1. metrics' \subseteq Metrics  BY <1>5 DEF SourceConfig, Offered, TypeOK
  <2>2. QED
    BY <1>5, <2>1
       DEF SourceConfig, DeclareMetrics, DeclareAs, Stage, Order, TypeOK, names, broker
<1>6. CASE TransformerConfig
  BY <1>6 DEF TransformerConfig, TransformerApp, SubscribeMetrics, Order, TypeOK, names, broker
<1>7. CASE DbConfig
  BY <1>7 DEF DbConfig, Call, Order, TypeOK, names, app, broker
<1>8. CASE DeclareOk \/ ConsumeOk
  <2>1. CASE DeclareOk  BY <2>1 DEF DeclareOk, Order, rpcs, names, app
  <2>2. CASE ConsumeOk
    BY <2>2 DEF ConsumeOk, Order, TypeOK, rpcs, names, app
  <2>3. QED  BY <1>8, <2>1, <2>2
<1>9. CASE ChannelFails
  BY <1>9 DEF ChannelFails, Order, rpcs, names, app
<1>10. CASE Ends \/ UNCHANGED vars
  BY <1>10 DEF Ends, Order, vars, rpcs, names, app, broker
<1>11. QED
  BY <1>1, <1>2, <1>3, <1>4, <1>5, <1>6, <1>7, <1>8, <1>9, <1>10 DEF Next, OnRequest

-----------------------------------------------------------------------------
(***************************************************************************)
(* The theorems                                                            *)
(***************************************************************************)
LEMMA SetupInvariant == Spec => []IInv
<1>1. Init => IInv
  <2>1. Init => NamedQueueServed  BY DEF Init, NamedQueueServed
  <2>2. QED  BY <2>1, TypeInit, OrderInit DEF IInv
<1>2. IInv /\ [Next]_vars => IInv'
  BY TypeNext, ServedNext, OrderNext DEF IInv, Order
<1>3. QED  BY <1>1, <1>2, PTL DEF Spec

\* Type correctness of Sink, Drain, Source, Transformer and Db together.
THEOREM SetupTypeCorrect == Spec => []TypeOK
<1>1. IInv => TypeOK  BY DEF IInv
<1>2. QED  BY <1>1, SetupInvariant, PTL

\* While the data channel works, the queue data_queue_ names, and the history queue
\* of a db, are consumed or about to be (setup_data_queue, setup_history_queue).
THEOREM SetupServesNamedQueue == Spec => []NamedQueueServed
<1>1. IInv => NamedQueueServed  BY DEF IInv
<1>2. QED  BY <1>1, SetupInvariant, PTL

\* When on_source_ready() has been called, each metric the source offers was declared
\* with the metadata it had then (Source::declare_metrics).
THEOREM SetupDeclaresMetrics == Spec => []DeclaredWhenReady
<1>1. IInv => DeclaredWhenReady  BY DEF IInv, Order
<1>2. QED  BY <1>1, SetupInvariant, PTL

\* A transformer or db gets no data before its application is configured and ready.
THEOREM SetupReadyBeforeData == Spec => []ReadyBeforeData
<1>1. IInv => ReadyBeforeData
  BY DEF IInv, Order, ChannelOK, TransformerOK, DbOK, ReadyBeforeData
<1>2. QED  BY <1>1, SetupInvariant, PTL

\* The name of a queue that is consumed does not change (Sink::data_queue).
LEMMA StayStep ==
  ASSUME IInv, [Next]_vars, NEW q \in dataQueue, <<q, "data">> \in consumers
  PROVE  dataQueue' = dataQueue
<1>1. setUp /\ q \in Queues  BY DEF IInv, Order, TypeOK, ChannelOK
<1>2. ASSUME NEW r, ~Fixed(r), dataQueue' = {r}
      PROVE  dataQueue' = dataQueue
  BY <1>1, <1>2 DEF Fixed
<1>3. CASE OnAnswer
  <2>1. UNCHANGED dataQueue \/ \E r \in Queues : ~Fixed(r) /\ dataQueue' = {r}
    BY <1>3 DEF OnAnswer, Subscribed, SourceRegistered, TransformerRegistered,
       TransformerSubscribed, DbRegistered, DbSubscribed, Declared, Throw, SinkConfig,
       names, broker
  <2>2. QED  BY <1>2, <2>1
<1>4. CASE OnConnected \/ OnRequest
  BY <1>4 DEF OnConnected, DrainConnected, SourceConnected, TransformerConnected,
     DbConnected, OnRequest, SourceConfig, TransformerConfig, DbConfig, names
<1>5. CASE Subscribe \/ SubscribeExpiring \/ ChannelReady \/ DeclareOk \/ ConsumeOk
           \/ ChannelFails \/ Ends \/ UNCHANGED vars
  BY <1>5 DEF Subscribe, SubscribeExpiring, ChannelReady, DeclareOk, ConsumeOk,
     ChannelFails, Ends, vars, names
<1>6. QED  BY <1>3, <1>4, <1>5 DEF Next

\* A client that consumes the queue it names stays with it, whatever later answers name.
THEOREM SetupStaysOnQueue == Spec => StaysOnQueue
<1> DEFINE Stays == \A q \in dataQueue : <<q, "data">> \in consumers => dataQueue' = dataQueue
<1>1. IInv /\ [Next]_vars => [Stays]_vars  BY StayStep
<1>2. Spec => [][Stays]_vars  BY <1>1, SetupInvariant, PTL DEF Spec
<1>3. QED  BY <1>2 DEF StaysOnQueue
=============================================================================
