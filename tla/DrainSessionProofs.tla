----------------------------- MODULE DrainSessionProofs -----------------------------
(***************************************************************************)
(* Proofs about DrainSession, for all rows, metrics and chunk sizes, all   *)
(* programs and all orders of messages: the types, that chunks decode to   *)
(* what was sent, that the statistics printed are those of the rows, and   *)
(* that a recorded session keeps SessionContract.                          *)
(***************************************************************************)
EXTENDS DrainSession, ProducerProofs

Message == Published \cup {End}
CallStates == {"no", "asked", "nameless", "granted", "refused", "handled"}

SessionTypes ==
  /\ tool \in Tools /\ stage \in {"options", "subscribe", "query", "command", "drain"}
  /\ expected \in Nat /\ chunks \in Nat
  /\ calls \in [Functions -> CallStates]
  /\ named \in BOOLEAN /\ timing \in {"no", "on", "off"}
  /\ bound \in BOOLEAN /\ exists \in BOOLEAN
  /\ consumer \in {"no", "setup", "yes", "dead"}
  /\ result \in {"open", "abandoned", "complete"}
  /\ collected \in [Metrics -> Seq(Row)] /\ routed \in [Metrics -> Seq(Row)]
  /\ queue \in Seq(Message)

\* The manager has not served the subscription yet.
Before == calls["subscribe"] \in {"no", "asked"}
\* The program asked to unsubscribe, and the manager answered.
Unsubscribed == named /\ calls["unsubscribe"] \notin {"no", "asked", "nameless"}

\* The RPCs follow one another: the name of the queue comes with the answer to
\* sink.subscribe, and is needed for sink.unsubscribe and sink.release.
CallOrder ==
  /\ stage = "options" => \A f \in Functions : calls[f] = "no"
  /\ calls["query"] # "no" => calls["subscribe"] = "no"
  /\ named => calls["subscribe"] = "handled"
  /\ calls["unsubscribe"] \in {"asked", "granted"} => named
  /\ calls["release"] # "no" => Unsubscribed
  /\ result = "complete" => calls["subscribe"] # "asked"

\* The rows handed over when a message is consumed.
Delivered(rows, msg) ==
  IF msg = End THEN rows ELSE [rows EXCEPT ![msg.metric] = @ \o msg.rows]

\* The messages of the queue lead from what was handed over to what was routed.
Leads(p) ==
  /\ p \in [0..Len(queue) -> [Metrics -> Seq(Row)]]
  /\ p[0] = collected /\ p[Len(queue)] = routed
  /\ \A i \in 1..Len(queue) : p[i] = Delivered(p[i - 1], queue[i])
NothingMissing == \E p : Leads(p)

\* The end is the last message, and comes when the routing has stopped.
EndIsLast ==
  \A i \in 1..Len(queue) : queue[i] = End => i = Len(queue) /\ ~bound /\ Unsubscribed

QueueOrder ==
  /\ ~exists => ~bound /\ queue = <<>>
  /\ Before => ~exists /\ routed = collected
  /\ calls["release"] # "no" => ~bound /\ queue = <<>> /\ routed = collected
  /\ result = "complete" => ~bound
  /\ EndIsLast
  /\ exists => NothingMissing

\* The inductive invariant.
IInv == PInv /\ SessionTypes /\ CallOrder /\ QueueOrder

-----------------------------------------------------------------------------
(***************************************************************************)
(* The steps of the producer and of the exchange                           *)
(***************************************************************************)
\* The manager, the timers of RPCs and the programs leave the producer alone.
LEMMA OthersLeaveProducer ==
  ASSUME Next, ~Produces, ~Route
  PROVE  UNCHANGED producerVars
<1>1. Manager \/ Expire => UNCHANGED producerVars
  BY DEF Manager, ServeSubscribe, ServeUnsubscribe, ServeRelease, ServeQuery, Refuse, Expire
<1>2. Consume \/ OnMessage \/ Fails => UNCHANGED producerVars
  BY DEF Consume, OnMessage, SummaryData, SinkData, DataEnd, Fails
<1>3. RunCommand \/ StartDrain \/ SinkReady \/ SinkSignalled \/ SinkTimeout
        => UNCHANGED producerVars
  BY DEF RunCommand, StartDrain, SinkReady, SinkSignalled, SinkTimeout
<1>4. Start \/ OnAnswer => UNCHANGED producerVars
  BY DEF Start, Usage, StartSummary, StartSink, StartQuery, Started, OnAnswer,
     SummarySubscribed, SinkSubscribed, UnsubscribeComplete, SinkUnsubscribed, Released,
     QueryAnswered, Refused
<1>5. QED  BY <1>1, <1>2, <1>3, <1>4 DEF Next

LEMMA ProducerNextInv ==
  ASSUME PInv, [Next]_vars
  PROVE  PInv'
<1>1. CASE Produces  BY <1>1, ProducerSteps DEF Produces
<1>2. CASE Route
  <2>1. outbox' \in Seq(Published)
    BY <1>2, HeadTailProperties DEF Route, PInv, ProducerTypes
  <2>2. UNCHANGED <<producer, todo, metricVars, ticking, stopped>>  BY <1>2 DEF Route
  <2>3. /\ stopped' \in {"no", "requested", "yes"} /\ ticking' \in BOOLEAN
        /\ (ticking' => stopped' # "yes")
    BY <2>2 DEF PInv, ProducerTypes
  <2>4. QED  BY <2>1, <2>2, <2>3, ProducesNothing
<1>3. CASE UNCHANGED producerVars
  <2>1. /\ UNCHANGED <<producer, todo, metricVars>> /\ outbox' \in Seq(Published)
        /\ stopped' \in {"no", "requested", "yes"} /\ ticking' \in BOOLEAN
        /\ (ticking' => stopped' # "yes")
    BY <1>3 DEF producerVars, PInv, ProducerTypes
  <2>2. QED  BY <2>1, ProducesNothing
<1>4. Produces \/ Route \/ UNCHANGED producerVars  BY OthersLeaveProducer DEF vars
<1>5. QED  BY <1>1, <1>2, <1>3, <1>4

-----------------------------------------------------------------------------
(***************************************************************************)
(* Messages                                                                *)
(***************************************************************************)
LEMMA EndIsNoData == \A d \in Published : d # End
<1>1. SUFFICES ASSUME NEW d \in Published PROVE d # End  OBVIOUS
<1>2. d \in [metric : Metrics, chunk : Seq(Delta), rows : Seq(Row)]  BY DEF Published
<1>3. "metric" \in DOMAIN d  BY <1>2
<1>4. "metric" \notin DOMAIN End  BY DEF End
<1>5. QED  BY <1>3, <1>4

LEMMA DeliveredTyped ==
  ASSUME NEW msg \in Message, NEW rows \in [Metrics -> Seq(Row)]
  PROVE  /\ Delivered(rows, msg) \in [Metrics -> Seq(Row)]
         /\ \A m \in Metrics : \E t \in Seq(Row) : Delivered(rows, msg)[m] = rows[m] \o t
<1>1. <<>> \in Seq(Row)  BY EmptySeq
<1>2. CASE msg = End
  <2>1. \A m \in Metrics : rows[m] = rows[m] \o <<>>  BY ConcatEmptySeq
  <2>2. QED  BY <1>1, <1>2, <2>1 DEF Delivered
<1>3. CASE msg # End
  <2>1. msg.metric \in Metrics /\ msg.rows \in Seq(Row)  BY <1>3 DEF Message, Published
  <2>2. rows[msg.metric] \o msg.rows \in Seq(Row)  BY <2>1, ConcatProperties
  <2>3. Delivered(rows, msg) = [rows EXCEPT ![msg.metric] = rows[msg.metric] \o msg.rows]
    BY <1>3 DEF Delivered
  <2>4. ASSUME NEW m \in Metrics
        PROVE  \E t \in Seq(Row) : Delivered(rows, msg)[m] = rows[m] \o t
    <3>1. CASE m = msg.metric  BY <2>1, <2>3, <3>1
    <3>2. CASE m # msg.metric
      <4>1. Delivered(rows, msg)[m] = rows[m]  BY <2>3, <3>2
      <4>2. rows[m] = rows[m] \o <<>>  BY ConcatEmptySeq
      <4>3. QED  BY <1>1, <4>1, <4>2
    <3>3. QED  BY <3>1, <3>2
  <2>5. QED  BY <2>2, <2>3, <2>4
<1>4. QED  BY <1>2, <1>3

\* An empty queue: everything was handed over.
LEMMA NothingWaits ==
  ASSUME SessionTypes, queue = <<>>
  PROVE  NothingMissing <=> routed = collected
<1>1. Len(queue) = 0  BY EmptySeq
<1>2. ASSUME NothingMissing PROVE routed = collected
  BY <1>1, <1>2 DEF NothingMissing, Leads
<1>3. ASSUME routed = collected PROVE NothingMissing
  <2>1. Leads([i \in 0..0 |-> collected])  BY <1>1, <1>3 DEF Leads, SessionTypes
  <2>2. QED  BY <2>1 DEF NothingMissing
<1>4. QED  BY <1>2, <1>3

\* A message joins the queue.
LEMMA MessageQueued ==
  ASSUME SessionTypes, NothingMissing, NEW msg \in Message, queue' = Append(queue, msg),
         UNCHANGED collected, routed' = Delivered(routed, msg)
  PROVE  NothingMissing'
<1> DEFINE n == Len(queue)
<1>1. PICK p : Leads(p)  BY DEF NothingMissing
<1>2. /\ p \in [0..n -> [Metrics -> Seq(Row)]] /\ p[0] = collected /\ p[n] = routed
      /\ \A i \in 1..n : p[i] = Delivered(p[i - 1], queue[i])
  BY <1>1 DEF Leads
<1>3. /\ n \in Nat /\ Len(queue') = n + 1 /\ queue'[n + 1] = msg
      /\ \A i \in 1..n : queue'[i] = queue[i]
  BY LenProperties, AppendProperties DEF SessionTypes
<1>4. routed' \in [Metrics -> Seq(Row)]  BY DeliveredTyped DEF SessionTypes
<1> DEFINE q == [i \in 0..(n + 1) |-> IF i <= n THEN p[i] ELSE routed']
<1>5. q \in [0..(n + 1) -> [Metrics -> Seq(Row)]]  BY <1>2, <1>3, <1>4
<1>6. q[0] = collected' /\ q[n + 1] = routed'  BY <1>2, <1>3
<1>7. ASSUME NEW i \in 1..(n + 1) PROVE q[i] = Delivered(q[i - 1], queue'[i])
  <2>1. CASE i <= n
    <3>1. q[i] = p[i] /\ q[i - 1] = p[i - 1] /\ i \in 1..n  BY <1>3, <2>1
    <3>2. QED  BY <1>2, <1>3, <3>1
  <2>2. CASE i = n + 1
    <3>1. q[i] = routed' /\ q[i - 1] = p[n]  BY <1>3, <2>2
    <3>2. QED  BY <1>2, <1>3, <2>2, <3>1
  <2>3. QED  BY <1>3, <2>1, <2>2
<1>8. QED
  <2> HIDE DEF q
  <2>1. QED  BY <1>3, <1>5, <1>6, <1>7 DEF NothingMissing, Leads

\* The first message is handed over.
LEMMA MessageDelivered ==
  ASSUME SessionTypes, NothingMissing, queue # <<>>, queue' = Tail(queue),
         collected' = Delivered(collected, Head(queue)), UNCHANGED routed
  PROVE  NothingMissing'
<1> DEFINE n == Len(queue)
<1>1. PICK p : Leads(p)  BY DEF NothingMissing
<1>2. /\ p \in [0..n -> [Metrics -> Seq(Row)]] /\ p[0] = collected /\ p[n] = routed
      /\ \A i \in 1..n : p[i] = Delivered(p[i - 1], queue[i])
  BY <1>1 DEF Leads
<1>3. /\ n \in Nat \ {0} /\ Len(queue') = n - 1 /\ Head(queue) = queue[1]
      /\ \A i \in 1..(n - 1) : queue'[i] = queue[i + 1]
  BY EmptySeq, HeadTailProperties DEF SessionTypes
<1> DEFINE q == [i \in 0..(n - 1) |-> p[i + 1]]
<1>4. q \in [0..(n - 1) -> [Metrics -> Seq(Row)]]  BY <1>2, <1>3
<1>5. q[0] = collected' /\ q[n - 1] = routed'
  <2>1. 1 \in 1..n /\ 1 - 1 = 0  BY <1>3
  <2>2. p[1] = Delivered(p[0], queue[1])  BY <1>2, <2>1
  <2>3. q[0] = p[1] /\ q[n - 1] = p[n]  BY <1>3
  <2>4. QED  BY <1>2, <1>3, <2>2, <2>3
<1>6. ASSUME NEW i \in 1..(n - 1) PROVE q[i] = Delivered(q[i - 1], queue'[i])
  <2>1. i + 1 \in 1..n /\ (i + 1) - 1 = i  BY <1>3
  <2>2. p[i + 1] = Delivered(p[i], queue[i + 1])  BY <1>2, <2>1
  <2>3. q[i] = p[i + 1] /\ q[i - 1] = p[i]  BY <1>3
  <2>4. QED  BY <1>3, <2>2, <2>3
<1>7. QED
  <2> HIDE DEF q
  <2>1. QED  BY <1>3, <1>4, <1>5, <1>6 DEF NothingMissing, Leads

\* What is handed over with the next message is a part of what was routed.
LEMMA DeliveredIsRouted ==
  ASSUME SessionTypes, NothingMissing, queue # <<>>
  PROVE  \A m \in Metrics :
           /\ IsPrefix(collected[m], Delivered(collected, Head(queue))[m])
           /\ IsPrefix(Delivered(collected, Head(queue))[m], routed[m])
<1> DEFINE n == Len(queue)
<1>1. PICK p : Leads(p)  BY DEF NothingMissing
<1>2. /\ p \in [0..n -> [Metrics -> Seq(Row)]] /\ p[0] = collected /\ p[n] = routed
      /\ \A i \in 1..n : p[i] = Delivered(p[i - 1], queue[i])
  BY <1>1 DEF Leads
<1>3. /\ n \in Nat \ {0} /\ Head(queue) = queue[1] /\ \A i \in 1..n : queue[i] \in Message
  BY EmptySeq, HeadTailProperties, ElementOfSeq DEF SessionTypes
<1>4. p[1] = Delivered(collected, Head(queue)) /\ p[1] \in [Metrics -> Seq(Row)]
  <2>1. 1 \in 1..n /\ 1 \in 0..n /\ 1 - 1 = 0  BY <1>3
  <2>2. QED  BY <1>2, <1>3, <2>1
<1>5. SUFFICES ASSUME NEW m \in Metrics
      PROVE  IsPrefix(collected[m], p[1][m]) /\ IsPrefix(p[1][m], routed[m])
  BY <1>4
<1> DEFINE Rest(i) == \E t \in Seq(Row) : routed[m] = p[i][m] \o t
           S == {k \in 0..n : Rest(n - k)}
<1>6. 0 \in S
  <2>1. <<>> \in Seq(Row) /\ routed[m] = routed[m] \o <<>>
    BY EmptySeq, ConcatEmptySeq DEF SessionTypes
  <2>2. n - 0 = n  BY <1>3
  <2>3. Rest(n)  BY <1>2, <2>1
  <2>4. QED  BY <1>3, <2>2, <2>3
<1>7. ASSUME NEW k \in 0..(n - 1), k \in S PROVE k + 1 \in S
  <2> DEFINE i == n - k
  <2>1. i \in 1..n /\ i - 1 \in 0..n /\ i - 1 = n - (k + 1) /\ k + 1 \in 0..n  BY <1>3
  <2>2. PICK t \in Seq(Row) : routed[m] = p[i][m] \o t  BY <1>7
  <2> HIDE DEF i
  <2>3. p[i - 1] \in [Metrics -> Seq(Row)] /\ p[i] = Delivered(p[i - 1], queue[i])
    BY <1>2, <2>1
  <2>4. PICK u \in Seq(Row) : p[i][m] = p[i - 1][m] \o u
    <3>1. queue[i] \in Message  BY <1>3, <2>1
    <3>2. \E u \in Seq(Row) : Delivered(p[i - 1], queue[i])[m] = p[i - 1][m] \o u
      BY <2>3, <3>1, DeliveredTyped
    <3>3. QED  BY <2>3, <3>2
  <2>5. routed[m] = p[i - 1][m] \o (u \o t) /\ u \o t \in Seq(Row)
    <3>1. p[i - 1][m] \in Seq(Row)  BY <2>3
    <3>2. \A s \in Seq(Row) : (s \o u) \o t = s \o (u \o t)  BY ConcatAssociative
    <3>3. u \o t \in Seq(Row)  BY ConcatProperties
    <3>4. QED  BY <2>2, <2>4, <3>1, <3>2, <3>3
  <2>6. Rest(i - 1)  BY <2>5
  <2>7. QED  BY <2>1, <2>6
<1>8. Rest(1)
  <2> HIDE DEF S
  <2>1. 0..n \subseteq S  BY <1>3, <1>6, <1>7, IntervalInduction
  <2>2. n - 1 \in S /\ n - (n - 1) = 1  BY <1>3, <2>1
  <2>3. QED  BY <2>2 DEF S
<1>9. IsPrefix(p[1][m], routed[m])  BY <1>4, <1>8, PrefixOfConcat
<1>10. IsPrefix(collected[m], p[1][m])
  <2>1. PICK t \in Seq(Row) : p[1][m] = collected[m] \o t
    <3>1. Head(queue) \in Message  BY HeadTailProperties DEF SessionTypes
    <3>2. \E t \in Seq(Row) : Delivered(collected, Head(queue))[m] = collected[m] \o t
      BY <3>1, DeliveredTyped DEF SessionTypes
    <3>3. QED  BY <1>4, <3>2
  <2>2. QED  BY <2>1, PrefixOfConcat DEF SessionTypes
<1>11. QED  BY <1>9, <1>10

\* The chunk of a message decodes to its rows.
LEMMA DataDelivered ==
  ASSUME SessionTypes, queue # <<>>, Head(queue) # End,
         Collect(Head(queue).metric, Head(queue).chunk)
  PROVE  collected' = Delivered(collected, Head(queue))
<1>1. Head(queue) \in Published
  <2>1. Head(queue) \in Message  BY HeadTailProperties DEF SessionTypes
  <2>2. QED  BY <2>1 DEF Message
<1>2. Decode(Head(queue).metric, Head(queue).chunk) = Head(queue).rows
  BY <1>1, PublishedDecodes
<1>3. QED  BY <1>2 DEF Collect, Delivered

LEMMA DataRouted ==
  ASSUME PInv, Route, bound
  PROVE  /\ Head(outbox) \in Published /\ Head(outbox) # End
         /\ queue' = Append(queue, Head(outbox))
         /\ routed' = Delivered(routed, Head(outbox))
<1>1. Head(outbox) \in Published  BY HeadTailProperties DEF Route, PInv, ProducerTypes
<1>2. Head(outbox) # End  BY <1>1, EndIsNoData
<1>3. QED  BY <1>1, <1>2 DEF Route, Delivered

-----------------------------------------------------------------------------
(***************************************************************************)
(* Types                                                                   *)
(***************************************************************************)
\* The steps that touch neither the queue nor what was routed or handed over.
Quiet ==
  \/ Produces \/ ServeQuery \/ Refuse \/ Start \/ OnAnswer
  \/ RunCommand \/ StartDrain \/ SinkReady \/ SinkSignalled \/ SinkTimeout
  \/ Consume \/ Fails \/ UNCHANGED vars

LEMMA QuietIsQuiet ==
  ASSUME Quiet
  PROVE  UNCHANGED <<brokerVars, collected>>
<1>1. CASE Produces \/ ServeQuery \/ Refuse
  BY <1>1 DEF Produces, ServeQuery, Refuse, programVars
<1>2. CASE Start
  BY <1>2 DEF Start, Usage, StartSummary, StartSink, StartQuery, Started
<1>3. CASE OnAnswer
  BY <1>3 DEF OnAnswer, SummarySubscribed, SinkSubscribed, UnsubscribeComplete,
     SinkUnsubscribed, Released, QueryAnswered, Refused, programVars
<1>4. CASE RunCommand \/ StartDrain \/ SinkReady \/ SinkSignalled \/ SinkTimeout
  BY <1>4 DEF RunCommand, StartDrain, SinkReady, SinkSignalled, SinkTimeout
<1>5. CASE Consume \/ Fails  BY <1>5 DEF Consume, Fails, programVars
<1>6. CASE UNCHANGED vars  BY <1>6 DEF vars, programVars
<1>7. QED  BY <1>1, <1>2, <1>3, <1>4, <1>5, <1>6 DEF Quiet

Noisy ==
  \/ ServeSubscribe \/ ServeUnsubscribe \/ ServeRelease \/ Route \/ Expire
  \/ SummaryData \/ SinkData \/ DataEnd

LEMMA QuietOrNoisy ==
  ASSUME [Next]_vars
  PROVE  Quiet \/ Noisy
  BY DEF Next, Quiet, Noisy, Manager, OnMessage

ProgramTypes ==
  /\ tool \in Tools /\ stage \in {"options", "subscribe", "query", "command", "drain"}
  /\ expected \in Nat /\ chunks \in Nat
  /\ calls \in [Functions -> CallStates]
  /\ named \in BOOLEAN /\ timing \in {"no", "on", "off"}
  /\ consumer \in {"no", "setup", "yes", "dead"}
  /\ result \in {"open", "abandoned", "complete"}

LEMMA TypesQuiet ==
  ASSUME SessionTypes, Quiet
  PROVE  SessionTypes'
<1>1. UNCHANGED <<bound, exists, queue, routed, collected>>
  BY QuietIsQuiet DEF brokerVars
<1>2. ProgramTypes'
  <2>1. ProgramTypes  BY DEF SessionTypes, ProgramTypes
  <2>2. CASE Produces \/ ServeQuery
    BY <2>1, <2>2 DEF Produces, ServeQuery, Serve, ProgramTypes, programVars, Functions, CallStates
  <2>3. CASE Refuse
    BY <2>1, <2>3 DEF Refuse, ProgramTypes, programVars, CallStates
  <2>4. CASE Start
    <3>1. CASE Usage  BY <2>1, <3>1 DEF Usage, ProgramTypes
    <3>2. CASE StartSummary
      BY <2>1, <3>2 DEF StartSummary, Started, Ask, ProgramTypes, CallStates
    <3>3. CASE StartSink
      <4>1. expected' \in Nat  BY <3>3, SessionAssumption DEF StartSink
      <4>2. QED  BY <2>1, <3>3, <4>1 DEF StartSink, Started, Ask, ProgramTypes, CallStates
    <3>4. CASE StartQuery
      BY <2>1, <3>4 DEF StartQuery, Started, Ask, ProgramTypes, CallStates
    <3>5. QED  BY <2>4, <3>1, <3>2, <3>3, <3>4 DEF Start
  <2>5. CASE OnAnswer
    <3>1. CASE SummarySubscribed
      BY <2>1, <3>1 DEF SummarySubscribed, Handled, ProgramTypes, CallStates
    <3>2. CASE SinkSubscribed
      BY <2>1, <3>2 DEF SinkSubscribed, Handled, ProgramTypes, CallStates
    <3>3. CASE UnsubscribeComplete \/ SinkUnsubscribed
      BY <2>1, <3>3 DEF UnsubscribeComplete, SinkUnsubscribed, Handled, ProgramTypes,
         programVars, CallStates
    <3>4. CASE Released \/ QueryAnswered
      BY <2>1, <3>4 DEF Released, QueryAnswered, Handled, ProgramTypes, CallStates
    <3>5. ASSUME NEW f \in Functions, Refused(f) PROVE ProgramTypes'
      BY <2>1, <3>5 DEF Refused, Handled, ProgramTypes, CallStates
    <3>6. QED  BY <2>5, <3>1, <3>2, <3>3, <3>4, <3>5 DEF OnAnswer
  <2>6. CASE RunCommand  BY <2>1, <2>6 DEF RunCommand, ProgramTypes
  <2>7. CASE StartDrain  BY <2>1, <2>7 DEF StartDrain, Ask, ProgramTypes, CallStates
  <2>8. CASE SinkReady  BY <2>1, <2>8 DEF SinkReady, ProgramTypes
  <2>9. CASE SinkSignalled  BY <2>1, <2>9 DEF SinkSignalled, ProgramTypes, CallStates
  <2>10. CASE SinkTimeout \/ Fails  BY <2>1, <2>10 DEF SinkTimeout, Fails, ProgramTypes
  <2>11. CASE Consume  BY <2>1, <2>11 DEF Consume, ProgramTypes, programVars
  <2>12. CASE UNCHANGED vars  BY <2>1, <2>12 DEF vars, ProgramTypes, programVars
  <2>13. QED
    BY <2>2, <2>3, <2>4, <2>5, <2>6, <2>7, <2>8, <2>9, <2>10, <2>11, <2>12 DEF Quiet
<1>3. QED  BY <1>1, <1>2 DEF SessionTypes, ProgramTypes

LEMMA TypesNoisy ==
  ASSUME PInv, SessionTypes, Noisy
  PROVE  SessionTypes'
<1>1. ProgramTypes /\ queue \in Seq(Message)  BY DEF SessionTypes, ProgramTypes
<1>2. End \in Message /\ <<>> \in Seq(Message)  BY EmptySeq DEF Message
<1>3. CASE ServeSubscribe
  <2>1. ProgramTypes'
    BY <1>1, <1>3 DEF ServeSubscribe, Serve, ProgramTypes, programVars, CallStates
  <2>2. QED
    BY <1>3, <2>1 DEF ServeSubscribe, SessionTypes, ProgramTypes, programVars
<1>4. CASE ServeUnsubscribe
  <2>1. ProgramTypes'
    BY <1>1, <1>4 DEF ServeUnsubscribe, Serve, ProgramTypes, programVars, CallStates
  <2>2. queue' \in Seq(Message)
    BY <1>1, <1>2, <1>4, AppendProperties DEF ServeUnsubscribe
  <2>3. QED
    BY <1>4, <2>1, <2>2 DEF ServeUnsubscribe, SessionTypes, ProgramTypes, programVars
<1>5. CASE ServeRelease
  <2>1. ProgramTypes'
    BY <1>1, <1>5 DEF ServeRelease, Serve, ProgramTypes, programVars, CallStates
  <2>2. QED
    BY <1>2, <1>5, <2>1 DEF ServeRelease, SessionTypes, ProgramTypes, programVars
<1>6. CASE Route
  <2>1. ProgramTypes'  BY <1>1, <1>6 DEF Route, ProgramTypes, programVars
  <2>2. queue' \in Seq(Message) /\ routed' \in [Metrics -> Seq(Row)]
    <3>1. CASE bound
      <4>1. /\ Head(outbox) \in Message /\ queue' = Append(queue, Head(outbox))
            /\ routed' = Delivered(routed, Head(outbox))
        BY <1>6, <3>1, DataRouted DEF Message
      <4>2. QED
        BY <1>1, <4>1, AppendProperties, DeliveredTyped DEF SessionTypes
    <3>2. CASE ~bound  BY <1>6, <3>2 DEF Route, SessionTypes
    <3>3. QED  BY <3>1, <3>2
  <2>3. QED  BY <1>6, <2>1, <2>2 DEF Route, SessionTypes, ProgramTypes, programVars
<1>7. CASE Expire
  BY <1>2, <1>7 DEF Expire, SessionTypes, programVars
<1>8. CASE SummaryData \/ SinkData \/ DataEnd
  <2>1. queue # <<>> /\ queue' = Tail(queue)
    BY <1>8 DEF SummaryData, SinkData, DataEnd, Delivers
  <2>2. queue' \in Seq(Message) /\ Head(queue) \in Message
    BY <1>1, <2>1, HeadTailProperties
  <2>3. collected' \in [Metrics -> Seq(Row)]
    <3>1. CASE SummaryData \/ SinkData
      <4>1. collected' = Delivered(collected, Head(queue))
        BY <2>1, <3>1, DataDelivered DEF SummaryData, SinkData
      <4>2. QED  BY <2>2, <4>1, DeliveredTyped DEF SessionTypes
    <3>2. CASE DataEnd  BY <3>2 DEF DataEnd, SessionTypes, programVars
    <3>3. QED  BY <1>8, <3>1, <3>2
  <2>4. ProgramTypes' /\ UNCHANGED <<bound, exists, routed>>
    <3>1. CASE SummaryData  BY <1>1, <3>1 DEF SummaryData, ProgramTypes
    <3>2. CASE SinkData  BY <1>1, <3>2 DEF SinkData, ProgramTypes
    <3>3. CASE DataEnd
      BY <1>1, <3>3 DEF DataEnd, Ask, ProgramTypes, programVars, CallStates
    <3>4. QED  BY <1>8, <3>1, <3>2, <3>3
  <2>5. QED  BY <2>2, <2>3, <2>4 DEF SessionTypes, ProgramTypes
<1>9. QED  BY <1>3, <1>4, <1>5, <1>6, <1>7, <1>8 DEF Noisy





-----------------------------------------------------------------------------
(***************************************************************************)
(* The order of the calls                                                  *)
(***************************************************************************)
LEMMA CallOrderKept ==
  ASSUME SessionTypes, CallOrder, EndIsLast, [Next]_vars
  PROVE  CallOrder'
<1>1. calls \in [Functions -> CallStates]  BY DEF SessionTypes
<1> USE <1>1 DEF Functions
<1>2. CASE Produces \/ Route \/ Expire \/ Consume \/ UNCHANGED vars
  <2>1. UNCHANGED <<calls, named, stage, result>>
    BY <1>2 DEF Produces, Route, Expire, Consume, vars, programVars
  <2>2. QED  BY <2>1 DEF CallOrder, Unsubscribed
<1>3. CASE Usage \/ RunCommand \/ SinkReady \/ SinkTimeout \/ Fails
  <2>1. UNCHANGED <<calls, named>> /\ result' # "complete" /\ (stage' = "options" => stage = "options")
    BY <1>3 DEF Usage, RunCommand, SinkReady, SinkTimeout, Fails, Running
  <2>2. QED  BY <2>1 DEF CallOrder, Unsubscribed
<1>4. ASSUME NEW f \in {"subscribe", "query"}, Started(f) PROVE CallOrder'
  <2>1. /\ \A g \in Functions : calls[g] = "no"
        /\ calls' = [calls EXCEPT ![f] = "asked"] /\ stage' # "options"
        /\ named' = named /\ ~named /\ result' # "complete"
    BY <1>4 DEF Started, Ask, CallOrder, Running
  <2>2. QED  BY <2>1 DEF CallOrder, Unsubscribed
<1>5. CASE ServeSubscribe
  BY <1>5 DEF ServeSubscribe, Serve, programVars, CallOrder, Unsubscribed
<1>6. CASE ServeUnsubscribe
  BY <1>6 DEF ServeUnsubscribe, Serve, programVars, CallOrder, Unsubscribed
<1>7. CASE ServeRelease
  BY <1>7 DEF ServeRelease, Serve, programVars, CallOrder, Unsubscribed
<1>8. CASE ServeQuery
  BY <1>8 DEF ServeQuery, Serve, programVars, CallOrder, Unsubscribed
<1>9. CASE Refuse
  BY <1>9 DEF Refuse, programVars, CallOrder, Unsubscribed
<1>10. CASE SummarySubscribed \/ SinkSubscribed
  BY <1>10 DEF SummarySubscribed, SinkSubscribed, Granted, Handled, CallOrder, Unsubscribed
<1>11. CASE UnsubscribeComplete \/ SinkUnsubscribed
  BY <1>11 DEF UnsubscribeComplete, SinkUnsubscribed, Granted, Handled, programVars,
     CallOrder, Unsubscribed
<1>12. CASE Released \/ QueryAnswered
  BY <1>12 DEF Released, QueryAnswered, Granted, Handled, CallOrder, Unsubscribed
<1>13. ASSUME NEW f \in Functions, Refused(f) PROVE CallOrder'
  BY <1>13 DEF Refused, Handled, Running, CallOrder, Unsubscribed
<1>14. CASE StartDrain
  BY <1>14 DEF StartDrain, Ask, CallOrder, Unsubscribed, Running
<1>15. CASE SinkSignalled
  BY <1>15 DEF SinkSignalled, CallOrder, Unsubscribed
<1>16. CASE SummaryData \/ SinkData
  <2>1. UNCHANGED <<calls, named, stage>> /\ (result' = "complete" => result = "complete")
    BY <1>16 DEF SummaryData, SinkData
  <2>2. QED  BY <2>1 DEF CallOrder, Unsubscribed
<1>17. CASE DataEnd
  <2>1. Unsubscribed
    <3>1. queue # <<>> /\ queue \in Seq(Message) /\ Head(queue) = End
      BY <1>17 DEF DataEnd, Delivers, SessionTypes
    <3>2. 1 \in 1..Len(queue) /\ queue[1] = End
      BY <3>1, EmptySeq, HeadTailProperties
    <3>3. QED  BY <3>2 DEF EndIsLast
  <2>2. QED  BY <1>17, <2>1 DEF DataEnd, Ask, programVars, CallOrder, Unsubscribed
<1>18. QED
  BY <1>2, <1>3, <1>4, <1>5, <1>6, <1>7, <1>8, <1>9, <1>10, <1>11, <1>12, <1>13, <1>14,
     <1>15, <1>16, <1>17
  DEF Next, Manager, Start, StartSummary, StartSink, StartQuery, OnAnswer, OnMessage

-----------------------------------------------------------------------------
(***************************************************************************)
(* The order of the queue                                                  *)
(***************************************************************************)
\* What the invariant of the queue needs of a step that leaves the queue alone.
LEMMA CallsMoveOn ==
  ASSUME SessionTypes, CallOrder, Quiet
  PROVE  /\ Before' => Before
         /\ calls'["release"] # "no" => calls["release"] # "no"
         /\ Unsubscribed => Unsubscribed'
         /\ result' = "complete" =>
              result = "complete" \/ calls["release"] # "no" \/ Before
<1>1. calls \in [Functions -> CallStates]  BY DEF SessionTypes
<1> USE <1>1 DEF Functions
<1>2. CASE Produces \/ Consume \/ UNCHANGED vars
  <2>1. UNCHANGED <<calls, named, result>>
    BY <1>2 DEF Produces, Consume, vars, programVars
  <2>2. QED  BY <2>1 DEF Before, Unsubscribed
<1>3. CASE Usage \/ RunCommand \/ SinkReady \/ SinkTimeout \/ Fails
  <2>1. UNCHANGED <<calls, named>> /\ result' # "complete"
    BY <1>3 DEF Usage, RunCommand, SinkReady, SinkTimeout, Fails, Running
  <2>2. QED  BY <2>1 DEF Before, Unsubscribed
<1>4. ASSUME NEW f \in {"subscribe", "query"}, Started(f)
      PROVE  Before /\ ~named /\ calls'["release"] = "no" /\ result' # "complete"
  BY <1>4 DEF Started, Ask, CallOrder, Running, Before
<1>5. CASE ServeQuery
  BY <1>5 DEF ServeQuery, Serve, programVars, Before, Unsubscribed
<1>6. CASE Refuse
  BY <1>6 DEF Refuse, programVars, Before, Unsubscribed
<1>7. CASE SummarySubscribed \/ SinkSubscribed
  BY <1>7 DEF SummarySubscribed, SinkSubscribed, Granted, Handled, Before, Unsubscribed
<1>8. CASE UnsubscribeComplete \/ SinkUnsubscribed
  BY <1>8 DEF UnsubscribeComplete, SinkUnsubscribed, Granted, Handled, programVars, Before,
     Unsubscribed
<1>9. CASE Released \/ QueryAnswered
  BY <1>9 DEF Released, QueryAnswered, Granted, Handled, CallOrder, Before, Unsubscribed
<1>10. ASSUME NEW f \in Functions, Refused(f)
       PROVE  /\ Before' => Before
              /\ calls'["release"] # "no" => calls["release"] # "no"
              /\ Unsubscribed => Unsubscribed'
              /\ result' # "complete"
  BY <1>10 DEF Refused, Handled, Running, Before, Unsubscribed
<1>11. CASE StartDrain
  BY <1>11 DEF StartDrain, Ask, Running, Before, Unsubscribed
<1>12. CASE SinkSignalled
  BY <1>12 DEF SinkSignalled, Before, Unsubscribed
<1>13. QED
  BY <1>2, <1>3, <1>4, <1>5, <1>6, <1>7, <1>8, <1>9, <1>10, <1>11, <1>12
  DEF Quiet, Start, StartSummary, StartSink, StartQuery, OnAnswer, Unsubscribed

LEMMA QueueOrderQuiet ==
  ASSUME SessionTypes, CallOrder, QueueOrder, Quiet
  PROVE  QueueOrder'
<1>1. UNCHANGED <<bound, exists, queue, routed, collected>>
  BY QuietIsQuiet DEF brokerVars
<1>2. NothingMissing' <=> NothingMissing  BY <1>1 DEF NothingMissing, Leads
<1>3. EndIsLast'  BY <1>1, CallsMoveOn DEF QueueOrder, EndIsLast
<1>4. result' = "complete" => ~bound'  BY <1>1, CallsMoveOn DEF QueueOrder
<1>5. QED  BY <1>1, <1>2, <1>3, <1>4, CallsMoveOn DEF QueueOrder

\* An end in the queue is not asked for again.
LEMMA NoEnd ==
  ASSUME SessionTypes, QueueOrder, bound \/ ~Unsubscribed
  PROVE  \A i \in 1..Len(queue) : queue[i] # End
  BY DEF QueueOrder, EndIsLast

LEMMA QueueOrderNoisy ==
  ASSUME PInv, SessionTypes, CallOrder, QueueOrder, Noisy
  PROVE  QueueOrder'
<1>1. /\ calls \in [Functions -> CallStates] /\ queue \in Seq(Message)
      /\ bound \in BOOLEAN /\ exists \in BOOLEAN
      /\ (queue = <<>> <=> Len(queue) = 0) /\ Len(queue) \in Nat
      /\ {"subscribe", "unsubscribe", "release", "query"} = Functions
  BY EmptySeq, LenProperties DEF SessionTypes, Functions
<1>2. End \in Message /\ Published \subseteq Message  BY DEF Message
<1>3. CASE ServeSubscribe
  <2>1. Before /\ ~exists /\ queue = <<>> /\ routed = collected
    BY <1>3 DEF ServeSubscribe, Serve, Before, QueueOrder
  <2>2. /\ UNCHANGED <<queue, routed, collected, result, named>> /\ exists' /\ bound'
        /\ calls' = [calls EXCEPT !["subscribe"] = "granted"]
    BY <1>3 DEF ServeSubscribe, Serve, programVars
  <2>3. NothingMissing'
    <3>1. NothingMissing  BY <2>1, NothingWaits
    <3>2. QED  BY <2>2, <3>1 DEF NothingMissing, Leads
  <2>4. ~named /\ calls["release"] = "no" /\ result # "complete"
    BY <2>1, <1>3 DEF CallOrder, ServeSubscribe, Serve, Unsubscribed
  <2>5. calls'["subscribe"] = "granted" /\ calls'["release"] = "no"  BY <1>1, <2>2, <2>4
  <2>6. EndIsLast'  BY <1>1, <2>1, <2>2 DEF EndIsLast
  <2>7. QED  BY <2>2, <2>3, <2>4, <2>5, <2>6 DEF QueueOrder, Before
<1>4. CASE ServeUnsubscribe
  <2>1. /\ UNCHANGED <<exists, routed, collected, result, named>> /\ exists /\ bound' = FALSE
        /\ calls["unsubscribe"] = "asked" /\ queue' = Append(queue, End)
        /\ calls' = [calls EXCEPT !["unsubscribe"] = "granted"]
    BY <1>4 DEF ServeUnsubscribe, Serve, programVars
  <2>2. NothingMissing'
    <3>1. NothingMissing  BY <2>1 DEF QueueOrder
    <3>2. routed' = Delivered(routed, End)  BY <2>1 DEF Delivered
    <3>3. QED  BY <1>2, <2>1, <3>1, <3>2, MessageQueued
  <2>3. named /\ calls["release"] = "no" /\ ~Before
    BY <2>1 DEF CallOrder, Unsubscribed, Before
  <2>4. ~Before' /\ calls'["release"] = "no" /\ Unsubscribed'
    BY <1>1, <2>1, <2>3 DEF Before, Unsubscribed
  <2>5. EndIsLast'
    <3>1. \A i \in 1..Len(queue) : queue[i] # End
      BY <2>1, NoEnd DEF Unsubscribed
    <3>2. Len(queue') = Len(queue) + 1 /\ \A i \in 1..Len(queue) : queue'[i] = queue[i]
      BY <1>1, <2>1, AppendProperties
    <3>3. \A i \in 1..Len(queue') : queue'[i] = End => i = Len(queue')
      BY <1>1, <3>1, <3>2
    <3>4. QED  BY <2>1, <2>4, <3>3 DEF EndIsLast
  <2>6. QED  BY <2>1, <2>2, <2>4, <2>5 DEF QueueOrder
<1>5. CASE ServeRelease
  <2>1. /\ UNCHANGED <<routed, collected, result, named>> /\ ~exists' /\ ~bound' /\ queue' = <<>>
        /\ calls["release"] # "no" /\ calls' = [calls EXCEPT !["release"] = "granted"]
    BY <1>5 DEF ServeRelease, Serve, programVars
  <2>2. routed = collected  BY <2>1 DEF QueueOrder
  <2>3. EndIsLast'
    <3>1. Len(queue') = 0  BY <2>1, EmptySeq
    <3>2. QED  BY <3>1 DEF EndIsLast
  <2>4. QED  BY <2>1, <2>2, <2>3 DEF QueueOrder
<1>6. CASE Route
  <2>1. UNCHANGED <<bound, exists, collected, result, named, calls>>
    BY <1>6 DEF Route, programVars
  <2>2. CASE ~bound
    <3>1. UNCHANGED <<queue, routed>>  BY <1>6, <2>2 DEF Route
    <3>2. NothingMissing' <=> NothingMissing  BY <2>1, <3>1 DEF NothingMissing, Leads
    <3>3. EndIsLast' <=> EndIsLast  BY <2>1, <3>1 DEF EndIsLast, Unsubscribed
    <3>4. QED  BY <2>1, <3>1, <3>2, <3>3 DEF QueueOrder, Before
  <2>3. CASE bound
    <3> DEFINE msg == Head(outbox)
    <3>1. /\ msg \in Published /\ msg # End /\ queue' = Append(queue, msg)
          /\ routed' = Delivered(routed, msg)
      BY <1>6, <2>3, DataRouted
    <3>2. exists /\ ~Before /\ calls["release"] = "no" /\ result # "complete"
      BY <2>3 DEF QueueOrder
    <3>3. NothingMissing'
      <4>1. NothingMissing  BY <3>2 DEF QueueOrder
      <4>2. QED  BY <1>2, <2>1, <3>1, <4>1, MessageQueued
    <3>4. EndIsLast'
      <4>1. \A i \in 1..Len(queue) : queue[i] # End  BY <2>3, NoEnd
      <4>2. /\ Len(queue') = Len(queue) + 1 /\ \A i \in 1..Len(queue) : queue'[i] = queue[i]
            /\ queue'[Len(queue) + 1] = msg
        BY <1>1, <1>2, <3>1, AppendProperties
      <4>3. \A i \in 1..Len(queue') : queue'[i] # End  BY <1>1, <3>1, <4>1, <4>2
      <4>4. QED  BY <4>3 DEF EndIsLast
    <3>5. QED  BY <2>1, <3>2, <3>3, <3>4 DEF QueueOrder, Before
  <2>4. QED  BY <2>2, <2>3
<1>7. CASE Expire
  <2>1. /\ UNCHANGED <<calls, routed, collected, result, named>> /\ exists
        /\ ~exists' /\ ~bound' /\ queue' = <<>>
    BY <1>7 DEF Expire, programVars
  <2>2. EndIsLast'
    <3>1. Len(queue') = 0  BY <2>1, EmptySeq
    <3>2. QED  BY <3>1 DEF EndIsLast
  <2>3. QED  BY <2>1, <2>2 DEF QueueOrder, Before
<1>8. CASE SummaryData \/ SinkData
  <2>1. /\ UNCHANGED <<bound, exists, calls, routed, named>> /\ queue # <<>>
        /\ queue' = Tail(queue) /\ Head(queue) # End
        /\ Collect(Head(queue).metric, Head(queue).chunk)
        /\ (result' = "complete" => result = "complete")
    BY <1>8 DEF SummaryData, SinkData, Delivers
  <2>2. collected' = Delivered(collected, Head(queue))  BY <2>1, DataDelivered
  <2>3. exists /\ ~Before /\ calls["release"] = "no"
    BY <2>1 DEF QueueOrder
  <2>4. NothingMissing'
    <3>1. NothingMissing  BY <2>3 DEF QueueOrder
    <3>2. QED  BY <2>1, <2>2, <3>1, MessageDelivered
  <2>5. EndIsLast'
    <3>1. Len(queue') = Len(queue) - 1 /\ \A i \in 1..Len(queue') : queue'[i] = queue[i + 1]
      BY <1>1, <2>1, HeadTailProperties
    <3>2. ASSUME NEW i \in 1..Len(queue'), queue'[i] = End
          PROVE  i = Len(queue') /\ ~bound /\ Unsubscribed
      <4>1. i + 1 \in 1..Len(queue) /\ queue[i + 1] = End  BY <1>1, <3>1, <3>2
      <4>2. i + 1 = Len(queue) /\ ~bound /\ Unsubscribed
        BY <4>1 DEF QueueOrder, EndIsLast
      <4>3. QED  BY <1>1, <3>1, <4>2
    <3>3. QED  BY <2>1, <3>2 DEF EndIsLast, Unsubscribed
  <2>6. QED  BY <2>1, <2>3, <2>4, <2>5 DEF QueueOrder, Before
<1>9. CASE DataEnd
  <2>1. /\ UNCHANGED <<bound, exists, routed, collected, named, result>> /\ queue # <<>>
        /\ queue' = Tail(queue) /\ Head(queue) = End
        /\ calls' = [calls EXCEPT !["release"] = "asked"]
    BY <1>9 DEF DataEnd, Delivers, Ask, programVars
  <2>2. Len(queue) = 1 /\ queue[1] = End /\ ~bound
    <3>1. 1 \in 1..Len(queue) /\ queue[1] = End  BY <1>1, <2>1, HeadTailProperties
    <3>2. QED  BY <3>1 DEF QueueOrder, EndIsLast
  <2>3. queue' = <<>>
    <3>1. queue' \in Seq(Message) /\ Len(queue') = 0
      BY <1>1, <2>1, <2>2, HeadTailProperties
    <3>2. QED  BY <3>1, EmptySeq
  <2>4. exists /\ ~Before  BY <2>1 DEF QueueOrder
  <2>5. NothingMissing'
    <3>1. NothingMissing  BY <2>4 DEF QueueOrder
    <3>2. collected' = Delivered(collected, Head(queue))  BY <2>1 DEF Delivered
    <3>3. QED  BY <2>1, <3>1, <3>2, MessageDelivered
  <2>6. routed = collected
    <3>1. PICK p : Leads(p)  BY <2>4 DEF QueueOrder, NothingMissing
    <3>2. p[0] = collected /\ p[1] = routed /\ p[1] = Delivered(p[1 - 1], queue[1])
      BY <2>2, <3>1 DEF Leads
    <3>3. QED  BY <2>2, <3>2 DEF Delivered
  <2>7. EndIsLast'
    <3>1. Len(queue') = 0  BY <2>3, EmptySeq
    <3>2. QED  BY <3>1 DEF EndIsLast
  <2>8. ~Before'  BY <1>1, <2>1, <2>4 DEF Before
  <2>9. QED  BY <2>1, <2>2, <2>3, <2>5, <2>6, <2>7, <2>8 DEF QueueOrder
<1>10. QED  BY <1>3, <1>4, <1>5, <1>6, <1>7, <1>8, <1>9 DEF Noisy

-----------------------------------------------------------------------------
(***************************************************************************)
(* The statistics of metricq-summary                                       *)
(***************************************************************************)
\* The rows of the window are rows.
LEMMA KeptRows ==
  ASSUME NEW tvs \in Seq(Row), NEW startDelta, NEW stopDelta
  PROVE  Kept(tvs, startDelta, stopDelta) \in Seq(Row)
<1> DEFINE n == Len(tvs)
           X == Seq(Row)
           Cut(i) == \/ tvs[i].time <= tvs[1].time + startDelta
                     \/ tvs[i].time >= tvs[n].time - stopDelta
           step == [i \in 1..n |-> [rows \in X |->
                     IF Cut(i) THEN rows ELSE Append(rows, tvs[i])]]
           Eq(f) == f = [i \in 0..n |-> IF i = 0 THEN <<>>
                           ELSE IF Cut(i) THEN f[i - 1] ELSE Append(f[i - 1], tvs[i])]
           kept == CHOOSE f : Eq(f)
<1>1. n \in Nat /\ \A i \in 1..n : tvs[i] \in Row  BY LenProperties, ElementOfSeq
<1>2. step \in [1..n -> [X -> X]]
  <2>1. \A i \in 1..n : \A rows \in X : Append(rows, tvs[i]) \in X  BY <1>1, AppendProperties
  <2> HIDE DEF X
  <2> HIDE DEF Cut
  <2>2. QED  BY <2>1
<1>3. \A i \in 1..n : \A rows \in X :
        step[i][rows] = IF Cut(i) THEN rows ELSE Append(rows, tvs[i])
  OBVIOUS
<1>4. <<>> \in X  OBVIOUS
<1>5. PICK f \in [0..n -> X] : f[0] = <<>> /\ \A i \in 1..n : f[i] = step[i][f[i - 1]]
  <2> DEFINE first == <<>>
  <2>1. first \in X /\ step \in Steps(n, X)  BY <1>2, <1>4 DEF Steps
  <2> HIDE DEF X, step, first
  <2>2. \E f : IsFold(f, n, X, first, step)  BY <1>1, <2>1, PrefixRecursion
  <2>3. QED  BY <2>2 DEF first, IsFold
<1> HIDE DEF X, step, Cut
<1>6. Eq(f)
  <2>1. \A i \in 1..n : f[i] = IF Cut(i) THEN f[i - 1] ELSE Append(f[i - 1], tvs[i])
    <3>1. \A i \in 1..n : i - 1 \in 0..n  BY <1>1
    <3>2. QED  BY <1>3, <1>5, <3>1
  <2>2. \A i \in 0..n : i = 0 \/ i \in 1..n  BY <1>1
  <2>3. \A i \in 0..n : f[i] = IF i = 0 THEN <<>>
                           ELSE IF Cut(i) THEN f[i - 1] ELSE Append(f[i - 1], tvs[i])
    BY <1>5, <2>1, <2>2
  <2>4. QED  BY <1>5, <2>3
<1>7. Eq(kept)  BY <1>6
<1>8. \A k \in 0..n : kept[k] = IF k = 0 THEN <<>>
                                ELSE IF Cut(k) THEN kept[k - 1] ELSE Append(kept[k - 1], tvs[k])
  <2> HIDE DEF kept
  <2>1. QED  BY <1>7
<1>9. n \in Nat /\ kept[n] \in X
  <2> DEFINE S == {k \in 0..n : kept[k] \in X}
  <2> HIDE DEF kept
  <2>1. 0 \in S  BY <1>1, <1>4, <1>8
  <2>2. ASSUME NEW k \in 0..(n - 1), k \in S PROVE k + 1 \in S
    <3>1. k + 1 \in 0..n /\ k + 1 # 0 /\ (k + 1) - 1 = k /\ kept[k] \in X /\ tvs[k + 1] \in Row
      BY <1>1, <2>2
    <3>2. Append(kept[k], tvs[k + 1]) \in X  BY <3>1, AppendProperties DEF X
    <3>3. kept[k + 1] = IF Cut(k + 1) THEN kept[k] ELSE Append(kept[k], tvs[k + 1])
      BY <1>8, <3>1
    <3>4. kept[k + 1] \in X  BY <3>1, <3>2, <3>3
    <3>5. QED  BY <3>1, <3>4
  <2> HIDE DEF S
  <2>3. 0..n \subseteq S  BY <1>1, <2>1, <2>2, IntervalInduction
  <2>4. n \in 0..n  BY <1>1
  <2>5. QED  BY <1>1, <2>3, <2>4 DEF S
<1>10. QED  BY <1>9 DEF Kept, X, Cut

\* A sum is between its number of terms times the smallest and the largest.
LEMMA SumBetween ==
  ASSUME NEW n \in Nat, NEW terms \in Seq(Int), Len(terms) = n, NEW lo \in Int, NEW hi \in Int,
         \A i \in 1..n : lo <= terms[i] /\ terms[i] <= hi
  PROVE  SumOverNths(terms) \in n * lo..n * hi
<1> DEFINE step == [i \in 1..n |-> [a \in Int |-> a + terms[i]]]
           Eq(f) == f = [i \in 0..n |-> IF i = 0 THEN 0 ELSE f[i - 1] + terms[i]]
           acc == CHOOSE f : Eq(f)
<1>1. \A i \in 1..n : terms[i] \in Int  BY ElementOfSeq
<1>2. step \in Steps(n, Int)  BY <1>1 DEF Steps
<1>3. \A i \in 1..n : \A a \in Int : step[i][a] = a + terms[i]  OBVIOUS
<1> HIDE DEF step
<1>4. PICK f : IsFold(f, n, Int, 0, step)
  <2> DEFINE X == Int
             first == 0
  <2>1. first \in X /\ step \in Steps(n, X)  BY <1>2
  <2> HIDE DEF X, first
  <2>2. \E f : IsFold(f, n, X, first, step)  BY <2>1, PrefixRecursion
  <2>3. QED  BY <2>2 DEF X, first
<1>5. Eq(f)
  <2>1. \A i \in 0..n : f[i] = IF i = 0 THEN 0 ELSE f[i - 1] + terms[i]
    <3>1. \A i \in 0..n : i = 0 \/ (i \in 1..n /\ i - 1 \in 0..n)  OBVIOUS
    <3>2. QED  BY <1>3, <1>4, <3>1 DEF IsFold
  <2>2. QED  BY <1>4, <2>1 DEF IsFold
<1>6. Eq(acc)  BY <1>5
<1>7. \A i \in 0..n : acc[i] = IF i = 0 THEN 0 ELSE acc[i - 1] + terms[i]
  <2> HIDE DEF acc
  <2>1. QED  BY <1>6
<1>8. acc[n] \in n * lo..n * hi
  <2> HIDE DEF acc
  <2> DEFINE S == {k \in 0..n : acc[k] \in Int /\ k * lo <= acc[k] /\ acc[k] <= k * hi}
  <2>1. 0 \in S
    <3>1. 0 \in 0..n /\ 0 * lo = 0 /\ 0 * hi = 0  OBVIOUS
    <3>2. acc[0] = 0  BY <1>7, <3>1
    <3>3. QED  BY <3>1, <3>2
  <2>2. ASSUME NEW k \in 0..(n - 1), k \in S PROVE k + 1 \in S
    <3>1. /\ k + 1 \in 0..n /\ k + 1 \in 1..n /\ k + 1 # 0 /\ (k + 1) - 1 = k
          /\ acc[k] \in Int /\ k * lo <= acc[k] /\ acc[k] <= k * hi
      BY <2>2
    <3>2. acc[k + 1] = acc[k] + terms[k + 1]  BY <1>7, <3>1
    <3>3. lo <= terms[k + 1] /\ terms[k + 1] <= hi /\ terms[k + 1] \in Int  BY <1>1, <3>1
    <3>4. (k + 1) * lo = k * lo + lo /\ (k + 1) * hi = k * hi + hi  OBVIOUS
    <3>5. k * lo \in Int /\ k * hi \in Int  OBVIOUS
    <3>6. k * lo + lo <= acc[k + 1] /\ acc[k + 1] <= k * hi + hi /\ acc[k + 1] \in Int
      BY <3>1, <3>2, <3>3, <3>5
    <3>7. QED  BY <3>1, <3>4, <3>6
  <2> HIDE DEF S
  <2>3. 0..n \subseteq S  BY <2>1, <2>2, IntervalInduction
  <2>4. n \in S  BY <2>3
  <2>5. /\ acc[n] \in Int /\ n * lo <= acc[n] /\ acc[n] <= n * hi
        /\ n * lo \in Int /\ n * hi \in Int
    BY <2>4 DEF S
  <2>6. QED  BY <2>5
<1>9. QED  BY <1>8 DEF SumOverNths

\* s is a permutation of the values and in order.
Orders(p, n, s, vs) ==
  /\ p \in Bijection(1..n, 1..n)
  /\ \A i \in 1..n : s[i] = vs[p[i]]
  /\ \A i, j \in 1..n : i < j => s[i] <= s[j]

LEMMA SortedSorts ==
  ASSUME NEW n \in Nat, NEW vs \in Seq(Int), Len(vs) = n
  PROVE  /\ Sorted(vs) \in Seq(Int) /\ Len(Sorted(vs)) = n
         /\ \E p : Orders(p, n, Sorted(vs), vs)
<1> DEFINE p == CHOOSE q \in Bijection(1..n, 1..n) : Sorts(q, vs)
           s == [i \in 1..n |-> vs[p[i]]]
<1>1. vs \in [1..n -> Int]  BY LenProperties
<1>2. p \in Bijection(1..n, 1..n) /\ Sorts(p, vs)
  <2>1. \E q \in Bijection(1..n, 1..n) : Sorts(q, vs)  BY <1>1, SortingExists DEF Sorts
  <2>2. QED  BY <2>1
<1> HIDE DEF p
<1>3. \A i \in 1..n : p[i] \in 1..n  BY <1>2 DEF Bijection, Injection
<1>4. s \in [1..n -> Int] /\ \A i \in 1..n : s[i] = vs[p[i]]  BY <1>1, <1>3
<1> HIDE DEF s
<1>5. \A i, j \in 1..n : i < j => s[i] <= s[j]  BY <1>2, <1>4 DEF Sorts
<1>6. s \in Seq(Int) /\ Len(s) = n  BY <1>4, SeqOfLength
<1>7. Sorted(vs) = s  BY DEF Sorted, s, p
<1>8. Orders(p, n, s, vs)  BY <1>2, <1>4, <1>5 DEF Orders
<1>9. QED  BY <1>6, <1>7, <1>8

\* Element k+1 of the sorted values is the k-th smallest.
LEMMA SortedIsNth ==
  ASSUME NEW n \in Nat, NEW vs \in Seq(Int), Len(vs) = n, NEW k \in 0..(n - 1)
  PROVE  IsNth(Sorted(vs)[k + 1], k, vs)
<1> DEFINE s == Sorted(vs)
           q == s[k + 1]
           Below == {i \in 1..n : vs[i] < q}
           UpTo == {i \in 1..n : vs[i] <= q}
<1>1. PICK p \in Bijection(1..n, 1..n) :
        /\ \A i \in 1..n : s[i] = vs[p[i]]
        /\ \A i, j \in 1..n : i < j => s[i] <= s[j]
  <2>1. PICK p : Orders(p, n, s, vs)  BY SortedSorts
  <2>2. QED  BY <2>1 DEF Orders
<1>2. s \in Seq(Int) /\ Len(s) = n  BY SortedSorts
<1> HIDE DEF s
<1>3. /\ p \in [1..n -> 1..n] /\ \A i, j \in 1..n : p[i] = p[j] => i = j
      /\ \A i \in 1..n : \E j \in 1..n : p[j] = i
  BY <1>1 DEF Bijection, Injection, Surjection, IsInjective
<1>4. \A i \in 1..n : vs[i] \in Int /\ s[i] \in Int  BY <1>2, ElementOfSeq
<1>5. k + 1 \in 1..n /\ q \in Int  BY <1>4
<1> HIDE DEF q
<1>6. IsFiniteSet(Below) /\ IsFiniteSet(UpTo)
  <2>1. IsFiniteSet(1..n)  BY FS_Interval
  <2>2. Below \in SUBSET (1..n) /\ UpTo \in SUBSET (1..n)  OBVIOUS
  <2>3. QED  BY <2>1, <2>2, FS_Subset
<1>7. Cardinality(Below) <= k
  <2> DEFINE place == [i \in Below |-> CHOOSE j \in 1..n : p[j] = i]
  <2>1. \A i \in Below : place[i] \in 1..n /\ p[place[i]] = i  BY <1>3
  <2>2. place \in [Below -> 1..n]  BY <2>1
  <2> HIDE DEF place
  <2>3. \A i \in Below : place[i] \in 1..k
    <3>1. SUFFICES ASSUME NEW i \in Below, ~(place[i] \in 1..k) PROVE FALSE  OBVIOUS
    <3>2. place[i] \in 1..n /\ p[place[i]] = i /\ s[place[i]] = vs[i]  BY <1>1, <2>1
    <3>3. place[i] = k + 1 \/ k + 1 < place[i]  BY <3>1, <3>2
    <3>4. q <= s[place[i]]  BY <1>1, <1>4, <1>5, <3>2, <3>3 DEF q
    <3>5. vs[i] < q /\ vs[i] \in Int  BY <1>4
    <3>6. QED  BY <1>5, <3>2, <3>4, <3>5
  <2>4. place \in [Below -> 1..k]  BY <2>2, <2>3
  <2>5. place \in Injection(Below, 1..k)  BY <2>1, <2>4 DEF Injection, IsInjective
  <2>6. IsFiniteSet(1..k) /\ Cardinality(1..k) = k  BY FS_Interval
  <2>7. Cardinality(Below) <= Cardinality(1..k)  BY <2>5, <2>6, FS_Injection
  <2>8. QED  BY <2>6, <2>7
<1>8. Cardinality(UpTo) > k
  <2> DEFINE head == [i \in 1..(k + 1) |-> p[i]]
  <2>1. \A i \in 1..(k + 1) : p[i] \in UpTo
    <3>1. SUFFICES ASSUME NEW i \in 1..(k + 1) PROVE p[i] \in UpTo  OBVIOUS
    <3>2. i \in 1..n /\ (i = k + 1 \/ i < k + 1)  OBVIOUS
    <3>3. s[i] <= q  BY <1>1, <1>4, <1>5, <3>2 DEF q
    <3>4. QED  BY <1>1, <1>3, <3>2, <3>3
  <2>2. head \in [1..(k + 1) -> UpTo]  BY <2>1
  <2>3. head \in Injection(1..(k + 1), UpTo)
    <3>1. \A i \in 1..(k + 1) : i \in 1..n /\ head[i] = p[i]  OBVIOUS
    <3> HIDE DEF head
    <3>2. QED  BY <1>3, <2>2, <3>1 DEF Injection, IsInjective
  <2>4. Cardinality(1..(k + 1)) = k + 1  BY FS_Interval
  <2>5. Cardinality(1..(k + 1)) <= Cardinality(UpTo)  BY <1>6, <2>3, FS_Injection
  <2>6. Cardinality(UpTo) \in Nat  BY <1>6, FS_CardinalityType
  <2>7. QED  BY <2>4, <2>5, <2>6
<1>9. QED  BY <1>7, <1>8 DEF IsNth, q, s

\* The statistics of rows.
LEMMA StatisticsRight ==
  ASSUME NEW tvs \in Seq(Row), Kept(tvs, StartDelta, StopDelta) # <<>>
  PROVE  LET vs == ValuesOf(Kept(tvs, StartDelta, StopDelta))
             summary == Calculate(tvs, StartDelta, StopDelta)
         IN  /\ IsNth(summary.quart25, Len(vs) \div 4, vs)
             /\ IsNth(summary.quart75, (3 * Len(vs)) \div 4, vs)
             /\ \A v \in ToSet(vs) : v \in summary.minimum..summary.maximum
             /\ summary.average \in Len(vs) * summary.minimum..Len(vs) * summary.maximum
<1> DEFINE kept == Kept(tvs, StartDelta, StopDelta)
           vs == ValuesOf(kept)
           n == Len(kept)
           s == Sorted(vs)
           summary == Calculate(tvs, StartDelta, StopDelta)
<1>1. kept \in Seq(Row)  BY KeptRows
<1>2. n \in Nat \ {0} /\ \A i \in 1..n : kept[i] \in Row
  BY <1>1, LenProperties, EmptySeq, ElementOfSeq
<1>3. vs \in Seq(Int) /\ Len(vs) = n
  <2>1. vs \in [1..n -> Int]  BY <1>2 DEF ValuesOf, Row
  <2>2. QED  BY <1>2, <2>1, SeqOfLength
<1>4. /\ summary.quart25 = s[n \div 4 + 1] /\ summary.quart75 = s[(3 * n) \div 4 + 1]
      /\ summary.minimum = s[1] /\ summary.maximum = s[n] /\ summary.average = SumOverNths(s)
  BY DEF Calculate
<1> HIDE DEF kept, vs, n, s, summary
<1>5. n \div 4 \in 0..(n - 1) /\ (3 * n) \div 4 \in 0..(n - 1)  BY <1>2
<1>6. IsNth(summary.quart25, n \div 4, vs)
  <2> DEFINE k == n \div 4
  <2> HIDE DEF k
  <2>1. IsNth(Sorted(vs)[k + 1], k, vs)  BY <1>2, <1>3, <1>5, SortedIsNth DEF k
  <2>2. QED  BY <1>4, <2>1 DEF k, s
<1>7. IsNth(summary.quart75, (3 * n) \div 4, vs)
  <2> DEFINE k == (3 * n) \div 4
  <2> HIDE DEF k
  <2>1. IsNth(Sorted(vs)[k + 1], k, vs)  BY <1>2, <1>3, <1>5, SortedIsNth DEF k
  <2>2. QED  BY <1>4, <2>1 DEF k, s
<1>8. PICK p \in Bijection(1..n, 1..n) :
        /\ \A i \in 1..n : s[i] = vs[p[i]]
        /\ \A i, j \in 1..n : i < j => s[i] <= s[j]
  <2>1. \E p : Orders(p, n, Sorted(vs), vs)  BY <1>2, <1>3, SortedSorts
  <2>2. QED  BY <2>1 DEF s, Orders
<1>9. s \in Seq(Int) /\ Len(s) = n  BY <1>2, <1>3, SortedSorts DEF s
<1>10. \A i \in 1..n : s[i] \in Int /\ s[1] <= s[i] /\ s[i] <= s[n]
  <2>1. \A i \in 1..n : s[i] \in Int  BY <1>9, ElementOfSeq
  <2>2. 1 \in 1..n /\ n \in 1..n /\ \A i \in 1..n : (i = 1 \/ 1 < i) /\ (i = n \/ i < n)
    BY <1>2
  <2>3. QED  BY <1>8, <2>1, <2>2
<1>11. \A v \in ToSet(vs) : v \in summary.minimum..summary.maximum
  <2>1. SUFFICES ASSUME NEW v \in ToSet(vs) PROVE v \in s[1]..s[n]  BY <1>4
  <2>2. PICK i \in 1..n : v = vs[i]
    <3>1. DOMAIN vs = 1..n  BY <1>3, LenProperties
    <3>2. QED  BY <3>1 DEF ToSet
  <2>3. PICK j \in 1..n : p[j] = i  BY <1>8 DEF Bijection, Surjection
  <2>4. v = s[j]  BY <1>8, <2>2, <2>3
  <2>5. 1 \in 1..n /\ n \in 1..n  BY <1>2
  <2>6. QED  BY <1>10, <2>4, <2>5
<1>12. summary.average \in n * summary.minimum..n * summary.maximum
  <2>1. 1 \in 1..n /\ n \in 1..n  BY <1>2
  <2>2. s[1] \in Int /\ s[n] \in Int  BY <1>10, <2>1
  <2>3. SumOverNths(s) \in n * s[1]..n * s[n]  BY <1>2, <1>9, <1>10, <2>2, SumBetween
  <2>4. QED  BY <1>4, <2>3
<1>13. /\ IsNth(summary.quart25, Len(vs) \div 4, vs)
       /\ IsNth(summary.quart75, (3 * Len(vs)) \div 4, vs)
       /\ \A v \in ToSet(vs) : v \in summary.minimum..summary.maximum
       /\ summary.average \in Len(vs) * summary.minimum..Len(vs) * summary.maximum
  BY <1>3, <1>6, <1>7, <1>11, <1>12
<1>14. QED  BY <1>13 DEF vs, summary, kept

-----------------------------------------------------------------------------
(***************************************************************************)
(* The invariant                                                           *)
(***************************************************************************)
LEMMA InitSession == Init => IInv
<1>1. SUFFICES ASSUME Init PROVE IInv  OBVIOUS
<1>2. PInv  BY <1>1, InitProducer DEF Init
<1>3. SessionTypes  BY <1>1, EmptySeq DEF Init, SessionTypes, CallStates
<1>4. CallOrder  BY <1>1 DEF Init, CallOrder, Functions
<1>5. QueueOrder
  <2>1. Len(queue) = 0  BY <1>1, EmptySeq DEF Init
  <2>2. EndIsLast  BY <2>1 DEF EndIsLast
  <2>3. QED  BY <1>1, <2>2 DEF Init, QueueOrder, Functions
<1>6. QED  BY <1>2, <1>3, <1>4, <1>5 DEF IInv

LEMMA SessionNext ==
  ASSUME IInv, [Next]_vars
  PROVE  IInv'
<1>1. PInv /\ SessionTypes /\ CallOrder /\ QueueOrder /\ EndIsLast  BY DEF IInv, QueueOrder
<1>2. PInv' /\ CallOrder'  BY <1>1, ProducerNextInv, CallOrderKept
<1>3. CASE Quiet  BY <1>1, <1>2, <1>3, TypesQuiet, QueueOrderQuiet DEF IInv
<1>4. CASE Noisy  BY <1>1, <1>2, <1>4, TypesNoisy, QueueOrderNoisy DEF IInv
<1>5. QED  BY <1>3, <1>4, QuietOrNoisy

LEMMA SessionInvariance == Spec => []IInv
  BY InitSession, SessionNext, PTL DEF Spec

\* The types of producer, broker, manager and programs; a queue that does not exist has
\* no messages and no bindings.
THEOREM SessionTypeCorrect == Spec => []TypeOK
<1>1. IInv => TypeOK
  BY ProducerTypesHold DEF IInv, SessionTypes, QueueOrder, TypeOK, CallStates
<1>2. QED  BY <1>1, SessionInvariance, PTL

\* A consumer decodes from a chunk what the application gave to send(), whatever is sent,
\* flushed and resized in between (Metric::send, DataChunkIter).
THEOREM SessionChunksDecode == Spec => []ChunksDecode
<1>1. IInv => ChunksDecode  BY ProducerDecodes DEF IInv
<1>2. QED  BY <1>1, SessionInvariance, PTL

\* A metric is flushed when its chunk reaches the size asked for (Metric::send), unless
\* the size was changed meanwhile; a dummy source leaves nothing behind.
THEOREM SessionFlushesInTime == Spec => []FlushedInTime
<1>1. IInv => FlushedInTime  BY DEF IInv, PInv
<1>2. QED  BY <1>1, SessionInvariance, PTL

\* What metricq-summary prints of the rows it collected, however many there are: the
\* quartiles split them, and no value is outside minimum and maximum, nor the average.
THEOREM SessionQuartilesSplit == Spec => []QuartilesSplit
<1>1. IInv => QuartilesSplit
  <2>1. SUFFICES ASSUME IInv, tool = "summary", NEW m \in Metrics, Printed(m)
                 PROVE  LET vs == ValuesOf(Kept(collected[m], StartDelta, StopDelta))
                            summary == Calculate(collected[m], StartDelta, StopDelta)
                        IN  /\ IsNth(summary.quart25, Len(vs) \div 4, vs)
                            /\ IsNth(summary.quart75, (3 * Len(vs)) \div 4, vs)
                            /\ \A v \in ToSet(vs) : v \in summary.minimum..summary.maximum
                            /\ summary.average \in
                                 Len(vs) * summary.minimum..Len(vs) * summary.maximum
    BY DEF QuartilesSplit
  <2>2. collected[m] \in Seq(Row)  BY <2>1 DEF IInv, SessionTypes
  <2>3. Kept(collected[m], StartDelta, StopDelta) # <<>>  BY <2>1 DEF Printed
  <2>4. QED  BY <2>2, <2>3, StatisticsRight
<1>2. QED  BY <1>1, SessionInvariance, PTL

-----------------------------------------------------------------------------
(***************************************************************************)
(* The contract                                                            *)
(***************************************************************************)
\* A session completes when the release was granted, and then all has been handed over;
\* a query never had a queue.
LEMMA ResultQuiet ==
  ASSUME IInv, Quiet
  PROVE  \/ UNCHANGED result
         \/ result = "open" /\ result' = "abandoned"
         \/ result = "open" /\ result' = "complete" /\ collected = routed
<1>1. CASE Produces \/ ServeQuery \/ Refuse \/ Consume \/ UNCHANGED vars
  BY <1>1 DEF Produces, ServeQuery, Refuse, Consume, vars, programVars
<1>2. CASE Start
  BY <1>2 DEF Start, Usage, StartSummary, StartSink, StartQuery, Started, Running
<1>3. CASE RunCommand \/ StartDrain \/ SinkReady \/ SinkSignalled \/ SinkTimeout \/ Fails
  BY <1>3 DEF RunCommand, StartDrain, SinkReady, SinkSignalled, SinkTimeout, Fails, Running
<1>4. CASE SummarySubscribed \/ SinkSubscribed \/ UnsubscribeComplete \/ SinkUnsubscribed
  BY <1>4 DEF SummarySubscribed, SinkSubscribed, UnsubscribeComplete, SinkUnsubscribed,
     programVars
<1>5. CASE Released
  BY <1>5 DEF Released, Granted, Running, IInv, QueueOrder
<1>6. CASE QueryAnswered
  BY <1>6 DEF QueryAnswered, Granted, Running, IInv, CallOrder, QueueOrder, Before
<1>7. ASSUME NEW f \in Functions, Refused(f)
      PROVE  result' = result \/ (result = "open" /\ result' = "abandoned")
  BY <1>7 DEF Refused, Running
<1>8. QED
  BY <1>1, <1>2, <1>3, <1>4, <1>5, <1>6, <1>7 DEF Quiet, OnAnswer

LEMMA SessionStep ==
  ASSUME IInv, [Next]_vars
  PROVE  [Contract!ContractNext]_(Contract!contractVars)
<1>1. SessionTypes /\ QueueOrder /\ PInv  BY DEF IInv
<1>2. CASE Quiet
  <2>1. UNCHANGED <<routed, collected>>  BY <1>2, QuietIsQuiet DEF brokerVars
  <2>2. QED
    BY <1>2, <2>1, ResultQuiet DEF Contract!ContractNext, Contract!contractVars,
       Contract!Abandon, Contract!Complete
<1>3. CASE ServeSubscribe \/ ServeUnsubscribe \/ ServeRelease \/ Expire \/ DataEnd
  BY <1>3 DEF ServeSubscribe, ServeUnsubscribe, ServeRelease, Expire, DataEnd, programVars,
     Contract!contractVars
<1>4. CASE Route
  <2>1. UNCHANGED <<collected, result>>  BY <1>4 DEF Route, programVars
  <2>2. CASE ~bound  BY <1>4, <2>1, <2>2 DEF Route, Contract!contractVars
  <2>3. CASE bound
    <3>1. result # "complete"  BY <1>1, <2>3 DEF QueueOrder
    <3>2. /\ Head(outbox) \in Message /\ routed' = Delivered(routed, Head(outbox))
      BY <1>1, <1>4, <2>3, DataRouted DEF Message
    <3>3. ASSUME NEW m \in Metrics PROVE Contract!IsPrefix(routed[m], routed'[m])
      <4>1. PICK t \in Seq(Row) : routed'[m] = routed[m] \o t
        BY <1>1, <3>2, DeliveredTyped DEF SessionTypes
      <4>2. routed[m] \in Seq(Row)  BY <1>1 DEF SessionTypes
      <4>3. QED  BY <4>1, <4>2, PrefixOfConcat DEF IsPrefix, Contract!IsPrefix
    <3>4. QED  BY <2>1, <3>1, <3>3 DEF Contract!ContractNext, Contract!RouteRows
  <2>4. QED  BY <2>2, <2>3
<1>5. CASE SummaryData \/ SinkData
  <2>1. /\ UNCHANGED routed /\ queue # <<>> /\ Head(queue) # End /\ result = "open"
        /\ Collect(Head(queue).metric, Head(queue).chunk) /\ result' \in {"open", "abandoned"}
    BY <1>5 DEF SummaryData, SinkData, Delivers, Running
  <2>2. collected' = Delivered(collected, Head(queue))  BY <1>1, <2>1, DataDelivered
  <2>3. NothingMissing  BY <1>1, <2>1 DEF QueueOrder
  <2>4. \A m \in Metrics : /\ Contract!IsPrefix(collected[m], collected'[m])
                           /\ Contract!IsPrefix(collected'[m], routed[m])
    BY <1>1, <2>1, <2>2, <2>3, DeliveredIsRouted DEF IsPrefix, Contract!IsPrefix
  <2>5. QED  BY <2>1, <2>4 DEF Contract!ContractNext, Contract!HandOver
<1>6. QED
  BY <1>2, <1>3, <1>4, <1>5, QuietOrNoisy DEF Noisy

\* What a sink is handed is what was routed to its queue, in order and each once, and a
\* session that completes has handed over all of it (Drain, DummySink, SimpleDrain).
THEOREM SessionKeepsContract == Spec => ContractSpec
<1>1. Init => Contract!ContractInit  BY DEF Init, Contract!ContractInit
<1>2. IInv /\ [Next]_vars => [Contract!ContractNext]_(Contract!contractVars)
  BY SessionStep
<1>3. QED
  BY <1>1, <1>2, SessionInvariance, PTL DEF Spec, ContractSpec, Contract!ContractSpec
=============================================================================
