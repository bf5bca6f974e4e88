---------------------------------- MODULE History ----------------------------------
(***************************************************************************)
(* Requests for historic data: class HistoryClient                         *)
(* (src/src/history_client.cpp), the history side of class Db              *)
(* (src/src/db.cpp), and the views in which a client reads a response      *)
(* (include/metricq/types.hpp).                                            *)
(*                                                                         *)
(* A client sends requests to an exchange, from where they get into the    *)
(* queue of a database; the database publishes the response to the queue   *)
(* the request names, and then acknowledges the request.  Both messages    *)
(* wait in its send queue, and are lost with it when it crashes; what was  *)
(* not acknowledged is then delivered again.  There is no timeout.         *)
(***************************************************************************)
EXTENDS Integers, Sequences, SequencesExt, FiniteSets

CONSTANTS
  Metrics,      \* metrics of the history exchange
  Stored,       \* the metrics a database serves
  Rows,         \* for each stored metric, times and values
  Aggregates,   \* for each stored metric, aggregates over intervals
  MaxRequests,  \* bound on the requests
  MaxCrashes    \* bound on the crashes of the database

Aggregate == [time : Nat, min : Int, max : Int, sum : Int, count : Nat \ {0},
              integral : Int, activeTime : Nat]

ASSUME HistoryAssumption ==
  /\ Stored \subseteq Metrics
  /\ Rows \in [Stored -> Seq([time : Nat, value : Int])]
  /\ Aggregates \in [Stored -> Seq(Aggregate)]
  /\ MaxRequests \in Nat /\ MaxCrashes \in Nat

\* What a database stores as the aggregate of some values: their sum, and their integral
\* over the time they were valid, are between those of their minimum and maximum.
ASSUME AggregateAssumption ==
  \A m \in Stored : \A i \in 1..Len(Aggregates[m]) : LET a == Aggregates[m][i] IN
    /\ a.min * a.count <= a.sum /\ a.sum <= a.max * a.count
    /\ a.min * a.activeTime <= a.integral /\ a.integral <= a.max * a.activeTime

VARIABLES
  channel,      \* history_channel_, and its connection
  ops,          \* what the client sent on it and the broker has not taken
  consuming,    \* the history queue is consumed
  asked,        \* the metric of each request, by its number: correlation ids are fresh
  requests,     \* queue of the database: the number of a request, and if it is unacknowledged
  dbUp,         \* the database runs
  dbSends,      \* what the database sent and the broker has not received
  crashes,      \* crashes of the database
  responses,    \* history_queue_
  handed        \* the responses handed to the application

clientVars == <<channel, ops, consuming, asked, handed>>
dbVars == <<dbUp, dbSends, crashes>>
vars == <<clientVars, dbVars, requests, responses>>

Init ==
  /\ channel = "none" /\ ops = <<>> /\ consuming = FALSE /\ asked = <<>>
  /\ requests = <<>> /\ dbUp = TRUE /\ dbSends = <<>> /\ crashes = 0
  /\ responses = <<>> /\ handed = <<>>

Alive == channel \in {"opening", "up"}

-----------------------------------------------------------------------------
(***************************************************************************)
(* Responses on the wire, and the views of them                            *)
(***************************************************************************)
Deltas(rows) == [i \in 1..Len(rows) |-> rows[i].time - (IF i = 1 THEN 0 ELSE rows[i - 1].time)]

\* Mutant of Times: the deltas are taken for times.
DeltasAsTimes(deltas) == deltas

\* The iterators: the timestamp of an element is the sum of the deltas up to it.
Times(deltas) ==
  LET timestamp[i \in 0..Len(deltas)] == IF i = 0 THEN 0 ELSE timestamp[i - 1] + deltas[i]
  IN  [i \in 1..Len(deltas) |-> timestamp[i]]

\* Mutant of Mean: the mean of the values even if the time they were valid is known.
MeanOfTime(a) == <<a.integral, a.count>>

\* Aggregate::mean() as a fraction.
Mean(a) == IF a.activeTime # 0 THEN <<a.integral, a.activeTime>> ELSE <<a.sum, a.count>>

\* HistoryResponseValueView and its iterator; the number of elements is that of deltas.
ValueView(r) ==
  [i \in 1..Len(r.timeDelta) |-> [time |-> Times(r.timeDelta)[i], value |-> r.value[i]]]

\* HistoryResponseAggregateView, and the element of its iterator.
AggregateAt(r, i) == [r.aggregate[i] EXCEPT !.time = Times(r.timeDelta)[i]]
AggregateView(r) == [i \in 1..Len(r.timeDelta) |-> AggregateAt(r, i)]

\* What the application of a database answers: an error, rows or aggregates.
ErrorFor(m) == [metric |-> m, error |-> TRUE, timeDelta |-> <<>>, value |-> <<>>,
                aggregate |-> <<>>]
ValuesFor(m) ==
  [metric |-> m, error |-> FALSE, timeDelta |-> Deltas(Rows[m]),
   value |-> [i \in 1..Len(Rows[m]) |-> Rows[m][i].value], aggregate |-> <<>>]
AggregatesFor(m) ==
  [metric |-> m, error |-> FALSE, timeDelta |-> Deltas(Aggregates[m]), value |-> <<>>,
   aggregate |-> [i \in 1..Len(Aggregates[m]) |-> [Aggregates[m][i] EXCEPT !.time = 0]]]
Responses(m) == {ErrorFor(m), ValuesFor(m), AggregatesFor(m)}

-----------------------------------------------------------------------------
(***************************************************************************)
(* HistoryClient                                                           *)
(***************************************************************************)
\* Mutant of Publish: the correlation id is that of the next request.
PublishNext(ms) ==
  /\ asked' = asked \o ms
  /\ ops' = IF Alive THEN ops \o [i \in 1..Len(ms) |-> [op |-> "publish", id |-> Len(asked) + i + 1]]
            ELSE ops

\* history_request(): publishes, and returns the correlation id.  A broken or closing
\* channel ignores it.
Publish(ms) ==
  /\ asked' = asked \o ms
  /\ ops' = IF Alive
            THEN ops \o [i \in 1..Len(ms) |-> [op |-> "publish", id |-> Len(asked) + i]]
            ELSE ops

\* on_history_ready() of the dummy client: a request for each of its metrics.
Asks(ms) == [i \in 1..Len(ms) |-> [op |-> "publish", id |-> i]]

\* The response of history.register: config(), history_config(), the declaration in
\* setup_history_queue(), and on_history_ready().
Config ==
  /\ channel = "none" /\ channel' = "opening"
  /\ \E ms \in BoundedSeq(Metrics, MaxRequests) :
       /\ asked' = ms
       /\ ops' = <<[op |-> "declare"]>> \o Asks(ms)
  /\ UNCHANGED <<consuming, handed, dbVars, requests, responses>>

\* Later requests of the application.
Request ==
  /\ channel # "none" /\ Len(asked) < MaxRequests
  /\ \E m \in Metrics : Publish(<<m>>)
  /\ UNCHANGED <<channel, consuming, handed, dbVars, requests, responses>>

ChannelReady ==
  /\ channel = "opening" /\ channel' = "up"
  /\ UNCHANGED <<ops, consuming, asked, handed, dbVars, requests, responses>>

\* Mutant of DeclareOk: consumes only if nothing else is under way.
DeclareOnly ==
  /\ channel = "up" /\ ops # <<>> /\ Head(ops).op = "declare"
  /\ ops' = IF Len(ops) > 1 THEN Tail(ops) ELSE <<[op |-> "consume"]>>
  /\ UNCHANGED <<channel, consuming, asked, handed, dbVars, requests, responses>>

\* setup_history_consumer(), behind what was published meanwhile.
DeclareOk ==
  /\ channel = "up" /\ ops # <<>> /\ Head(ops).op = "declare"
  /\ ops' = Append(Tail(ops), [op |-> "consume"])
  /\ UNCHANGED <<channel, consuming, asked, handed, dbVars, requests, responses>>

ConsumeOk ==
  /\ channel = "up" /\ ops # <<>> /\ Head(ops).op = "consume"
  /\ ops' = Tail(ops) /\ consuming' = TRUE
  /\ UNCHANGED <<channel, asked, handed, dbVars, requests, responses>>

\* The exchange drops a request for a metric that nobody serves.
RequestSent ==
  /\ channel \in {"up", "closing"} /\ ops # <<>> /\ Head(ops).op = "publish"
  /\ ops' = Tail(ops)
  /\ requests' = IF asked[Head(ops).id] \in Stored
                 THEN Append(requests, [id |-> Head(ops).id, unacked |-> FALSE]) ELSE requests
  /\ UNCHANGED <<channel, consuming, asked, handed, dbVars, responses>>

\* on_history_response(id, response): which of the application's three functions is
\* called.  A response with neither values nor an error is taken for aggregates.
Handed(r) ==
  [id |-> r.id, metric |-> r.body.metric,
   kind |-> IF r.body.error THEN "error"
            ELSE IF Len(r.body.value) > 0 THEN "values" ELSE "aggregates",
   rows |-> IF r.body.error THEN <<>>
            ELSE IF Len(r.body.value) > 0 THEN ValueView(r.body) ELSE AggregateView(r.body)]

\* The consumer of the history queue: on_history_response(), then the acknowledgement.
\* What was on its way is still handled while the connection closes.
Response ==
  /\ channel \in {"up", "closing"} /\ consuming /\ responses # <<>>
  /\ handed' = Append(handed, Handed(Head(responses)))
  /\ responses' = Tail(responses)
  /\ UNCHANGED <<channel, ops, consuming, asked, dbVars, requests>>

\* close(): the history connection first, if there is one.
Closing == IF channel = "none" THEN "closed" ELSE "closing"

\* stop(), which the dummy client posts in each of its on_history_response(), and on a
\* signal.  What was sent before may still get through.
Close ==
  /\ channel \in {"none", "opening", "up", "dead"}
  /\ channel' = Closing
  /\ UNCHANGED <<ops, consuming, asked, handed, dbVars, requests, responses>>

Closed ==
  /\ channel = "closing" /\ channel' = "closed" /\ ops' = <<>>
  /\ UNCHANGED <<consuming, asked, handed, dbVars, requests, responses>>

\* The broker closes the channel, for instance because the queue does not exist.
ChannelFails ==
  /\ Alive /\ channel' = "dead" /\ ops' = <<>> /\ consuming' = FALSE
  /\ UNCHANGED <<asked, handed, dbVars, requests, responses>>

-----------------------------------------------------------------------------
(***************************************************************************)
(* Db                                                                      *)
(***************************************************************************)
Reply(id, body) == [type |-> "reply", id |-> id, body |-> body]
Ack(id) == [type |-> "ack", id |-> id]

\* The requests the broker may deliver, the oldest first.
Waiting == {i \in 1..Len(requests) : ~requests[i].unacked}
First(i) == \A j \in Waiting : i <= j

\* Mutant of Sends: the request is acknowledged first.
AckFirst(id, body) == <<Ack(id), Reply(id, body)>>

\* Mutant of Sends: an error is published, and then the response once more.
ErrorTwice(id, body) ==
  (IF body.error THEN <<Reply(id, body)>> ELSE <<>>) \o <<Reply(id, body), Ack(id)>>

\* The consumer of the history queue of a database: on_history() publishes the
\* response with the correlation id of the request, then it is acknowledged.
Sends(id, body) == <<Reply(id, body), Ack(id)>>

OnHistory ==
  /\ dbUp
  /\ \E i \in Waiting :
       /\ First(i)
       /\ \E body \in Responses(asked[requests[i].id]) :
            dbSends' = dbSends \o Sends(requests[i].id, body)
       /\ requests' = [requests EXCEPT ![i].unacked = TRUE]
  /\ UNCHANGED <<clientVars, dbUp, crashes, responses>>

\* The broker receives what the database sent.
ReplyRouted ==
  /\ dbSends # <<>> /\ Head(dbSends).type = "reply"
  /\ dbSends' = Tail(dbSends)
  /\ responses' = Append(responses, [id |-> Head(dbSends).id, body |-> Head(dbSends).body])
  /\ UNCHANGED <<clientVars, dbUp, crashes, requests>>

AckReceived ==
  /\ dbSends # <<>> /\ Head(dbSends).type = "ack"
  /\ dbSends' = Tail(dbSends)
  /\ \E i \in 1..Len(requests) :
       requests[i].id = Head(dbSends).id /\ requests' = RemoveAt(requests, i)
  /\ UNCHANGED <<clientVars, dbUp, crashes, responses>>

\* The database ends, also by an exception of its application in on_history(); the
\* broker offers again what was not acknowledged.
Crash ==
  /\ dbUp /\ crashes < MaxCrashes
  /\ dbUp' = FALSE /\ dbSends' = <<>> /\ crashes' = crashes + 1
  /\ requests' = [i \in 1..Len(requests) |-> [requests[i] EXCEPT !.unacked = FALSE]]
  /\ UNCHANGED <<clientVars, responses>>

\* It registers and consumes its history queue again (DataSetup).
Restart ==
  /\ ~dbUp /\ dbUp' = TRUE
  /\ UNCHANGED <<clientVars, dbSends, crashes, requests, responses>>

-----------------------------------------------------------------------------
ClientNext ==
  \/ Config \/ Request \/ ChannelReady \/ DeclareOk \/ ConsumeOk \/ RequestSent
  \/ Response \/ Close \/ Closed \/ ChannelFails
DbNext == OnHistory \/ ReplyRouted \/ AckReceived \/ Crash \/ Restart

Next == ClientNext \/ DbNext

Spec == Init /\ [][Next]_vars

\* Messages get through, the broker confirms what it does not refuse, the database is
\* started again.
FairSpec ==
  /\ Spec
  /\ WF_vars(ChannelReady) /\ WF_vars(DeclareOk) /\ WF_vars(ConsumeOk)
  /\ WF_vars(RequestSent) /\ WF_vars(Response) /\ WF_vars(Closed)
  /\ WF_vars(OnHistory) /\ WF_vars(ReplyRouted) /\ WF_vars(AckReceived) /\ WF_vars(Restart)

-----------------------------------------------------------------------------
Ids == 1..Len(asked)
Kinds == {"error", "values", "aggregates"}

\* The type invariant.
TypeOK ==
  /\ channel \in {"none", "opening", "up", "dead", "closing", "closed"}
  /\ \A i \in 1..Len(ops) :
       /\ ops[i].op \in {"declare", "consume", "publish"}
       /\ ops[i].op = "publish" => ops[i].id \in Ids
  /\ consuming \in BOOLEAN /\ dbUp \in BOOLEAN /\ crashes \in 0..MaxCrashes
  /\ asked \in Seq(Metrics) /\ Len(asked) <= MaxRequests
  /\ requests \in Seq([id : Ids, unacked : BOOLEAN])
  /\ \A i \in 1..Len(dbSends) : dbSends[i].type \in {"reply", "ack"} /\ dbSends[i].id \in Ids
  /\ \A i \in 1..Len(responses) : responses[i].id \in Ids
  /\ \A i \in 1..Len(handed) : handed[i].id \in Ids /\ handed[i].kind \in Kinds
  /\ ~dbUp => dbSends = <<>> /\ \A i \in 1..Len(requests) : ~requests[i].unacked

InOps(id) == \E i \in 1..Len(ops) : ops[i].op = "publish" /\ ops[i].id = id
InRequests(id) == \E i \in 1..Len(requests) : requests[i].id = id
InResponses(id) == \E i \in 1..Len(responses) : responses[i].id = id
WasHanded(id) == \E i \in 1..Len(handed) : handed[i].id = id

\* A request for a stored metric is never lost while the client's channel works: until
\* it was handed to the application, its response is in the client's queue, or the
\* request is still with the client or with the database's queue, whatever crashes.
NoRequestLost ==
  Alive => \A id \in Ids :
    asked[id] \in Stored => InOps(id) \/ InRequests(id) \/ InResponses(id) \/ WasHanded(id)

\* The response handed over for a request is one to that request, and reads as what is
\* stored: rows with their times, or aggregates with theirs, whose mean is between
\* their minimum and maximum.
TrueAnswers ==
  \A i \in 1..Len(handed) : LET h == handed[i] IN
    /\ h.metric = asked[h.id]
    /\ h.kind = "values" => h.rows = Rows[h.metric]
    /\ h.kind = "aggregates" /\ h.rows # <<>> =>
         /\ h.rows = Aggregates[h.metric]
         /\ \A j \in 1..Len(h.rows) : LET mean == Mean(h.rows[j]) IN
              h.rows[j].min * mean[2] <= mean[1] /\ mean[1] <= h.rows[j].max * mean[2]

\* A request is answered once, and once more for each crash of the database at most.
DuplicatesNeedCrash ==
  \A id \in Ids : Cardinality({i \in 1..Len(handed) : handed[i].id = id}) <= 1 + crashes

\* A request for a stored metric is answered in the end, although the client has no
\* timeout, unless its channel breaks or is closed.
Answered ==
  \A id \in 1..MaxRequests :
    (id \in Ids /\ asked[id] \in Stored /\ Alive) ~> (~Alive \/ WasHanded(id))
=============================================================================
