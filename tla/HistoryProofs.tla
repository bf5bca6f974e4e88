------------------------------- MODULE HistoryProofs -------------------------------
(***************************************************************************)
(* Proofs about History, for every set of metrics, whatever is stored, and *)
(* for any number of requests and crashes: the types, that no request is   *)
(* lost, that what is handed over is true, and that a second answer to a   *)
(* request takes a crash.                                                  *)
(***************************************************************************)
EXTENDS History, SequenceFacts

\* The messages on the ways between client and database, while n requests were made.
Bodies == UNION {Responses(m) : m \in Metrics}
ClientOp(n) == [op : {"declare", "consume"}] \cup [op : {"publish"}, id : 1..n]
Entry(n) == [id : 1..n, unacked : BOOLEAN]
Message(n) == [type : {"reply"}, id : 1..n, body : Bodies] \cup [type : {"ack"}, id : 1..n]
Answer(n) == [id : 1..n, body : Bodies]
Given(n) == {Handed(r) : r \in Answer(n)}

ClientTypes ==
  /\ channel \in {"none", "opening", "up", "dead", "closing", "closed"}
  /\ consuming \in BOOLEAN
  /\ asked \in Seq(Metrics) /\ Len(asked) \in 0..MaxRequests
  /\ ops \in Seq(ClientOp(Len(asked)))
  /\ handed \in Seq(Given(Len(asked)))
BrokerTypes ==
  /\ dbUp \in BOOLEAN /\ crashes \in 0..MaxCrashes
  /\ requests \in Seq(Entry(Len(asked)))
  /\ dbSends \in Seq(Message(Len(asked)))
  /\ responses \in Seq(Answer(Len(asked)))

\* Nothing before the channel is there; nothing unacknowledged without a database.
Idle ==
  /\ channel = "none" => asked = <<>>
  /\ ~dbUp => dbSends = <<>> /\ \A i \in 1..Len(requests) : ~requests[i].unacked

Arrived(id) == InResponses(id) \/ WasHanded(id)

\* An acknowledgement has its response before it, or the client has it.
AckBehindReply ==
  \A i \in 1..Len(dbSends) : dbSends[i].type = "ack" =>
    \/ Arrived(dbSends[i].id)
    \/ \E j \in 1..(i - 1) : dbSends[j].type = "reply" /\ dbSends[j].id = dbSends[i].id

\* The inductive invariant.

-----------------------------------------------------------------------------
(***************************************************************************)
(* Sequences                                                               *)
(***************************************************************************)
In(x, s) == \E i \in 1..Len(s) : s[i] = x

LEMMA InAppend ==
  ASSUME NEW S, NEW s \in Seq(S), NEW e \in S
  PROVE  /\ Append(s, e) \in Seq(S)
         /\ \A x : In(x, Append(s, e)) <=> In(x, s) \/ x = e
<1>1. /\ Append(s, e) \in Seq(S) /\ Len(Append(s, e)) = Len(s) + 1 /\ Len(s) \in Nat
      /\ \A i \in 1..Len(s) : Append(s, e)[i] = s[i]
      /\ Append(s, e)[Len(s) + 1] = e
  BY AppendProperties, LenProperties
<1>2. \A i \in 1..Len(Append(s, e)) : i \in 1..Len(s) \/ i = Len(s) + 1  BY <1>1
<1>3. \A i \in 1..Len(s) : i \in 1..Len(Append(s, e))  BY <1>1
<1>4. Len(s) + 1 \in 1..Len(Append(s, e))  BY <1>1
<1>5. QED  BY <1>1, <1>2, <1>3, <1>4 DEF In

LEMMA InConcat ==
  ASSUME NEW S, NEW s \in Seq(S), NEW t \in Seq(S)
  PROVE  /\ s \o t \in Seq(S)
         /\ \A x : In(x, s) \/ In(x, t) => In(x, s \o t)
<1>1. /\ s \o t \in Seq(S) /\ Len(s \o t) = Len(s) + Len(t)
      /\ \A i \in 1..(Len(s) + Len(t)) :
           (s \o t)[i] = IF i <= Len(s) THEN s[i] ELSE t[i - Len(s)]
      /\ Len(s) \in Nat /\ Len(t) \in Nat
  BY ConcatProperties, LenProperties
<1>2. \A i \in 1..Len(s) : i \in 1..Len(s \o t) /\ (s \o t)[i] = s[i]  BY <1>1
<1>3. \A i \in 1..Len(t) : i + Len(s) \in 1..Len(s \o t) /\ (s \o t)[i + Len(s)] = t[i]
  BY <1>1
<1>4. QED  BY <1>1, <1>2, <1>3 DEF In

LEMMA InTail ==
  ASSUME NEW S, NEW s \in Seq(S), s # <<>>
  PROVE  /\ Tail(s) \in Seq(S) /\ Head(s) \in S /\ Head(s) = s[1]
         /\ Len(s) \in Nat \ {0} /\ Len(Tail(s)) = Len(s) - 1
         /\ \A i \in 1..Len(Tail(s)) : Tail(s)[i] = s[i + 1]
         /\ \A x : In(x, s) => In(x, Tail(s)) \/ x = Head(s)
<1>1. /\ Tail(s) \in Seq(S) /\ Head(s) \in S /\ Head(s) = s[1]
      /\ Len(s) \in Nat \ {0} /\ Len(Tail(s)) = Len(s) - 1
      /\ \A i \in 1..Len(Tail(s)) : Tail(s)[i] = s[i + 1]
  BY HeadTailProperties, EmptySeq
<1>2. \A i \in 1..Len(s) : i = 1 \/ (i - 1 \in 1..Len(Tail(s)) /\ Tail(s)[i - 1] = s[i])
  BY <1>1
<1>3. QED  BY <1>1, <1>2 DEF In

LEMMA InRemoveAt ==
  ASSUME NEW S, NEW s \in Seq(S), NEW k \in 1..Len(s)
  PROVE  /\ RemoveAt(s, k) \in Seq(S)
         /\ \A x : In(x, s) => In(x, RemoveAt(s, k)) \/ x = s[k]
<1> DEFINE l == SubSeq(s, 1, k - 1)
           r == SubSeq(s, k + 1, Len(s))
<1>1. Len(s) \in Nat /\ \A i \in 1..Len(s) : s[i] \in S  BY LenProperties, ElementOfSeq
<1>2. l \in Seq(S) /\ Len(l) = k - 1 /\ \A i \in 1..(k - 1) : l[i] = s[i]
  <2>1. k - 1 \in Int /\ \A i \in 1..(k - 1) : s[i] \in S  BY <1>1
  <2>2. /\ l \in Seq(S) /\ Len(l) = IF 1 <= k - 1 THEN (k - 1) - 1 + 1 ELSE 0
        /\ \A i \in 1..((k - 1) - 1 + 1) : l[i] = s[1 + i - 1]
    BY <2>1, SubSeqProperties
  <2>3. QED  BY <1>1, <2>2
<1>3. /\ r \in Seq(S) /\ Len(r) = Len(s) - k
      /\ \A i \in 1..(Len(s) - k) : r[i] = s[k + i]
  <2>1. k + 1 \in Int /\ Len(s) \in Int /\ \A i \in (k + 1)..Len(s) : s[i] \in S  BY <1>1
  <2>2. /\ r \in Seq(S) /\ Len(r) = IF k + 1 <= Len(s) THEN Len(s) - (k + 1) + 1 ELSE 0
        /\ \A i \in 1..(Len(s) - (k + 1) + 1) : r[i] = s[(k + 1) + i - 1]
    BY <2>1, SubSeqProperties
  <2>3. QED  BY <1>1, <2>2
<1>4. RemoveAt(s, k) = l \o r  BY DEF RemoveAt
<1>5. /\ l \o r \in Seq(S)
      /\ \A x : In(x, l) \/ In(x, r) => In(x, l \o r)
  BY <1>2, <1>3, InConcat
<1>6. ASSUME NEW i \in 1..Len(s), i # k
      PROVE  In(s[i], l) \/ In(s[i], r)
  <2>1. CASE i < k  BY <1>1, <1>2, <2>1 DEF In
  <2>2. CASE i > k
    <3>1. i - k \in 1..Len(r) /\ r[i - k] = s[i]  BY <1>1, <1>3, <2>2
    <3>2. QED  BY <3>1 DEF In
  <2>3. QED  BY <1>1, <1>6, <2>1, <2>2
<1>7. QED  BY <1>4, <1>5, <1>6 DEF In

\* The sets of messages grow with the number of requests.
LEMMA Grow ==
  ASSUME NEW n \in Nat, NEW m \in Nat, n <= m
  PROVE  /\ ClientOp(n) \subseteq ClientOp(m) /\ Entry(n) \subseteq Entry(m)
         /\ Message(n) \subseteq Message(m) /\ Answer(n) \subseteq Answer(m)
         /\ Given(n) \subseteq Given(m)
<1>1. 1..n \subseteq 1..m  OBVIOUS
<1>2. ClientOp(n) \subseteq ClientOp(m)  BY <1>1 DEF ClientOp
<1>3. Entry(n) \subseteq Entry(m)  BY <1>1 DEF Entry
<1>4. Message(n) \subseteq Message(m)  BY <1>1 DEF Message
<1>5. Answer(n) \subseteq Answer(m)  BY <1>1 DEF Answer
<1>6. QED  BY <1>2, <1>3, <1>4, <1>5 DEF Given

-----------------------------------------------------------------------------
(***************************************************************************)
(* Requests                                                                *)
(***************************************************************************)
PublishOp(id) == [op |-> "publish", id |-> id]

LEMMA BoundedIsSeq ==
  ASSUME NEW ms \in BoundedSeq(Metrics, MaxRequests)
  PROVE  ms \in Seq(Metrics) /\ Len(ms) \in 0..MaxRequests
<1>1. PICK n \in 0..MaxRequests : ms \in [1..n -> Metrics]  BY DEF BoundedSeq, SeqOf
<1>2. n \in Nat  BY <1>1, HistoryAssumption
<1>3. ms \in Seq(Metrics)  BY <1>1, <1>2, SeqDef
<1>4. Len(ms) = n
  <2>1. Len(ms) \in Nat /\ DOMAIN ms = 1..Len(ms)  BY <1>3, LenProperties
  <2>2. DOMAIN ms = 1..n  BY <1>1
  <2>3. 1..Len(ms) = 1..n  BY <2>1, <2>2
  <2>4. QED  BY <1>2, <2>1, <2>3, SameEnd
<1>5. QED  BY <1>1, <1>3, <1>4

\* The first requests are all under way.
LEMMA AsksAll ==
  ASSUME NEW ms \in Seq(Metrics)
  PROVE  LET all == <<[op |-> "declare"]>> \o Asks(ms)
         IN  /\ all \in Seq(ClientOp(Len(ms)))
             /\ \A id \in 1..Len(ms) : In(PublishOp(id), all)
<1> DEFINE n == Len(ms)
<1>1. n \in Nat  BY LenProperties
<1>2. \A i \in 1..n : PublishOp(i) \in ClientOp(n)  BY DEF PublishOp, ClientOp
<1>3. Asks(ms) \in [1..n -> ClientOp(n)] /\ \A i \in 1..n : Asks(ms)[i] = PublishOp(i)
  BY <1>2 DEF Asks, PublishOp
<1>4. Asks(ms) \in Seq(ClientOp(n))  BY <1>1, <1>3, SeqDef
<1>5. Len(Asks(ms)) = n
  <2>1. Len(Asks(ms)) \in Nat /\ DOMAIN Asks(ms) = 1..Len(Asks(ms))  BY <1>4, LenProperties
  <2>2. DOMAIN Asks(ms) = 1..n  BY <1>3
  <2>3. QED  BY <1>1, <2>1, <2>2, SameEnd
<1>6. \A id \in 1..n : In(PublishOp(id), Asks(ms))  BY <1>3, <1>5 DEF In
<1>7. <<[op |-> "declare"]>> \in Seq(ClientOp(n))
  <2>1. [op |-> "declare"] \in ClientOp(n)  BY DEF ClientOp
  <2>2. QED  BY <2>1
<1>8. QED  BY <1>4, <1>6, <1>7, InConcat

\* A later request gets the next number.
LEMMA PublishesNext ==
  ASSUME ClientTypes, NEW m \in Metrics, Publish(<<m>>)
  PROVE  /\ asked' \in Seq(Metrics) /\ Len(asked') = Len(asked) + 1 /\ Len(asked) \in Nat
         /\ \A id \in Ids : asked'[id] = asked[id]
         /\ ops' \in Seq(ClientOp(Len(asked')))
         /\ \A x : In(x, ops) => In(x, ops')
         /\ Alive => In(PublishOp(Len(asked')), ops')
<1> DEFINE n == Len(asked)
           new == [i \in 1..Len(<<m>>) |-> [op |-> "publish", id |-> Len(asked) + i]]
<1>1. asked \in Seq(Metrics) /\ n \in Nat /\ ops \in Seq(ClientOp(n))
  BY LenProperties DEF ClientTypes
<1>2. /\ asked' \in Seq(Metrics) /\ Len(asked') = n + 1
      /\ \A id \in 1..n : asked'[id] = asked[id]
  <2>1. asked' = asked \o <<m>>  BY DEF Publish
  <2>2. <<m>> \in Seq(Metrics) /\ Len(<<m>>) = 1  OBVIOUS
  <2>3. QED  BY <1>1, <2>1, <2>2, ConcatProperties
<1>3. new \in Seq(ClientOp(n + 1)) /\ In(PublishOp(n + 1), new)
  <2>1. Len(<<m>>) = 1 /\ PublishOp(n + 1) \in ClientOp(n + 1)
    BY <1>1 DEF PublishOp, ClientOp
  <2>2. new \in [1..1 -> ClientOp(n + 1)] /\ new[1] = PublishOp(n + 1)
    BY <1>1, <2>1 DEF PublishOp
  <2>3. new \in Seq(ClientOp(n + 1))  BY <2>2, SeqDef
  <2>4. Len(new) = 1
    <3>1. Len(new) \in Nat /\ DOMAIN new = 1..Len(new)  BY <2>3, LenProperties
    <3>2. DOMAIN new = 1..1  BY <2>2
    <3>3. QED  BY <3>1, <3>2, SameEnd
  <2>5. QED  BY <2>2, <2>3, <2>4 DEF In
<1>4. ops \in Seq(ClientOp(n + 1))
  <2>1. ClientOp(n) \subseteq ClientOp(n + 1)  BY <1>1, Grow
  <2>2. QED  BY <1>1, <2>1, SeqMonotonic
<1>5. ops' = IF Alive THEN ops \o new ELSE ops  BY DEF Publish
<1>6. QED  BY <1>1, <1>2, <1>3, <1>4, <1>5, InConcat DEF Ids

-----------------------------------------------------------------------------
(***************************************************************************)
(* Types                                                                   *)
(***************************************************************************)
Types == ClientTypes /\ BrokerTypes /\ Idle

LEMMA InitTypes == Init => Types
<1>1. SUFFICES ASSUME Init PROVE Types  OBVIOUS
<1>2. /\ <<>> \in Seq(Metrics) /\ <<>> \in Seq(ClientOp(Len(asked)))
      /\ <<>> \in Seq(Given(Len(asked))) /\ <<>> \in Seq(Entry(Len(asked)))
      /\ <<>> \in Seq(Message(Len(asked))) /\ <<>> \in Seq(Answer(Len(asked)))
  BY EmptySeq
<1>3. asked = <<>> /\ Len(asked) = 0  BY <1>1, EmptySeq DEF Init
<1>4. Len(asked) \in 0..MaxRequests /\ 0 \in 0..MaxCrashes  BY <1>3, HistoryAssumption
<1>5. ClientTypes /\ BrokerTypes
  <2>1. /\ channel = "none" /\ consuming = FALSE /\ ops = <<>> /\ handed = <<>>
        /\ dbUp = TRUE /\ crashes = 0 /\ requests = <<>> /\ dbSends = <<>>
        /\ responses = <<>>
    BY <1>1 DEF Init
  <2>2. ClientTypes  BY <1>2, <1>3, <1>4, <2>1 DEF ClientTypes
  <2>3. BrokerTypes  BY <1>2, <1>4, <2>1 DEF BrokerTypes
  <2>4. QED  BY <2>2, <2>3
<1>6. Idle  BY <1>1 DEF Init, Idle
<1>7. QED  BY <1>5, <1>6 DEF Types

\* What the broker and the database hold is still right after another request.
LEMMA MoreAsked ==
  ASSUME Types, Len(asked) \in Nat, Len(asked') \in Nat, Len(asked) <= Len(asked'),
         UNCHANGED <<handed, dbVars, requests, responses>>
  PROVE  /\ handed' \in Seq(Given(Len(asked'))) /\ BrokerTypes'
         /\ ~dbUp' => dbSends' = <<>> /\ \A i \in 1..Len(requests') : ~requests'[i].unacked
<1> DEFINE n == Len(asked)
           m == Len(asked')
<1>1. /\ Entry(n) \subseteq Entry(m) /\ Message(n) \subseteq Message(m)
      /\ Answer(n) \subseteq Answer(m) /\ Given(n) \subseteq Given(m)
  BY Grow
<1>2. handed \in Seq(Given(m))  BY <1>1, SeqMonotonic DEF Types, ClientTypes
<1>3. /\ requests \in Seq(Entry(m)) /\ dbSends \in Seq(Message(m))
      /\ responses \in Seq(Answer(m))
  BY <1>1, SeqMonotonic DEF Types, BrokerTypes
<1>4. BrokerTypes'  BY <1>3 DEF Types, BrokerTypes, dbVars
<1>5. QED  BY <1>2, <1>4 DEF Types, Idle, dbVars

LEMMA TypesConfig ==
  ASSUME Types, Config
  PROVE  Types'
<1>1. PICK ms \in BoundedSeq(Metrics, MaxRequests) :
        asked' = ms /\ ops' = <<[op |-> "declare"]>> \o Asks(ms)
  BY DEF Config
<1>2. ms \in Seq(Metrics) /\ Len(ms) \in 0..MaxRequests  BY BoundedIsSeq
<1>3. ops' \in Seq(ClientOp(Len(asked')))  BY <1>1, <1>2, AsksAll
<1>4. Len(asked) = 0 /\ Len(asked') \in Nat
  BY <1>1, <1>2, EmptySeq, HistoryAssumption DEF Config, Types, Idle
<1>5. /\ handed' \in Seq(Given(Len(asked'))) /\ BrokerTypes'
      /\ ~dbUp' => dbSends' = <<>> /\ \A i \in 1..Len(requests') : ~requests'[i].unacked
  BY <1>4, MoreAsked DEF Config
<1>6. ClientTypes'  BY <1>1, <1>2, <1>3, <1>5 DEF Config, Types, ClientTypes
<1>7. QED  BY <1>5, <1>6 DEF Config, Types, Idle

LEMMA TypesRequest ==
  ASSUME Types, Request
  PROVE  Types'
<1>1. PICK m \in Metrics : Publish(<<m>>)  BY DEF Request
<1>2. /\ asked' \in Seq(Metrics) /\ Len(asked') = Len(asked) + 1 /\ Len(asked) \in Nat
      /\ ops' \in Seq(ClientOp(Len(asked')))
  BY <1>1, PublishesNext DEF Types
<1>3. Len(asked') \in 0..MaxRequests  BY <1>2, HistoryAssumption DEF Request
<1>4. /\ handed' \in Seq(Given(Len(asked'))) /\ BrokerTypes'
      /\ ~dbUp' => dbSends' = <<>> /\ \A i \in 1..Len(requests') : ~requests'[i].unacked
  BY <1>2, MoreAsked DEF Request
<1>5. ClientTypes'  BY <1>2, <1>3, <1>4 DEF Request, Types, ClientTypes
<1>6. QED  BY <1>4, <1>5 DEF Request, Types, Idle

\* The broker takes what the client sent first.
LEMMA TypesClientOps ==
  ASSUME Types, DeclareOk \/ ConsumeOk \/ RequestSent
  PROVE  Types'
<1> DEFINE n == Len(asked)
<1>1. ops \in Seq(ClientOp(n)) /\ ops # <<>>
  BY DEF Types, ClientTypes, DeclareOk, ConsumeOk, RequestSent
<1>2. Tail(ops) \in Seq(ClientOp(n)) /\ Head(ops) \in ClientOp(n)  BY <1>1, InTail
<1>3. CASE DeclareOk
  <2>1. [op |-> "consume"] \in ClientOp(n)  BY DEF ClientOp
  <2>2. ops' \in Seq(ClientOp(n))  BY <1>2, <1>3, <2>1, InAppend DEF DeclareOk
  <2>3. QED
    BY <1>3, <2>2 DEF DeclareOk, Types, ClientTypes, BrokerTypes, Idle, dbVars
<1>4. CASE ConsumeOk
  BY <1>2, <1>4 DEF ConsumeOk, Types, ClientTypes, BrokerTypes, Idle, dbVars
<1>5. CASE RequestSent
  <2> DEFINE e == [id |-> Head(ops).id, unacked |-> FALSE]
  <2>1. requests \in Seq(Entry(n)) /\ e \in Entry(n)
    BY <1>2, <1>5 DEF RequestSent, Types, BrokerTypes, ClientOp, Entry
  <2>2. requests' = Append(requests, e) \/ requests' = requests
    BY <1>5 DEF RequestSent
  <2>3. requests' \in Seq(Entry(n)) /\ \A x : In(x, requests') => In(x, requests) \/ x = e
    <3>1. CASE requests' = requests  BY <2>1, <3>1
    <3>2. CASE requests' = Append(requests, e)
      <4> HIDE DEF e
      <4>1. /\ Append(requests, e) \in Seq(Entry(n))
            /\ \A x : In(x, Append(requests, e)) <=> In(x, requests) \/ x = e
        BY <2>1, InAppend
      <4>2. QED  BY <3>2, <4>1
    <3>3. QED  BY <2>2, <3>1, <3>2
  <2>4. ~dbUp => \A i \in 1..Len(requests') : ~requests'[i].unacked
    BY <2>3 DEF In, Types, Idle
  <2>5. QED
    BY <1>2, <1>5, <2>3, <2>4
       DEF RequestSent, Types, ClientTypes, BrokerTypes, Idle, dbVars
<1>6. QED  BY <1>3, <1>4, <1>5

LEMMA TypesResponse ==
  ASSUME Types, Response
  PROVE  Types'
<1> DEFINE n == Len(asked)
<1>1. responses \in Seq(Answer(n)) /\ responses # <<>> /\ handed \in Seq(Given(n))
  BY DEF Types, ClientTypes, BrokerTypes, Response
<1>2. Tail(responses) \in Seq(Answer(n)) /\ Handed(Head(responses)) \in Given(n)
  BY <1>1, InTail DEF Given
<1>3. Append(handed, Handed(Head(responses))) \in Seq(Given(n))  BY <1>1, <1>2, InAppend
<1>4. QED
  BY <1>2, <1>3 DEF Response, Types, ClientTypes, BrokerTypes, Idle, dbVars

\* The life of the connection.
LEMMA TypesConnection ==
  ASSUME Types, ChannelReady \/ Close \/ Closed \/ ChannelFails
  PROVE  Types'
<1>1. <<>> \in Seq(ClientOp(Len(asked)))  BY EmptySeq
<1>2. /\ UNCHANGED <<asked, handed, dbVars, requests, responses>>
      /\ ops' \in Seq(ClientOp(Len(asked))) /\ consuming' \in BOOLEAN
      /\ channel' \in {"up", "closing", "closed", "dead"}
  BY <1>1 DEF ChannelReady, Close, Closing, Closed, ChannelFails, Types, ClientTypes
<1>3. QED  BY <1>2 DEF Types, ClientTypes, BrokerTypes, Idle, dbVars

\* A request with a number has a metric, whose responses are known.
LEMMA RequestHasBodies ==
  ASSUME Types, NEW i \in 1..Len(requests), NEW body \in Responses(asked[requests[i].id])
  PROVE  /\ requests[i].id \in Ids /\ body \in Bodies
         /\ Reply(requests[i].id, body) \in Message(Len(asked))
         /\ Ack(requests[i].id) \in Message(Len(asked))
<1>1. requests[i] \in Entry(Len(asked))  BY ElementOfSeq DEF Types, BrokerTypes
<1>2. requests[i].id \in Ids  BY <1>1 DEF Entry, Ids
<1>3. asked[requests[i].id] \in Metrics  BY <1>2, ElementOfSeq DEF Types, ClientTypes, Ids
<1>4. body \in Bodies  BY <1>3 DEF Bodies
<1>5. QED  BY <1>2, <1>4 DEF Reply, Ack, Message, Ids

LEMMA TypesOnHistory ==
  ASSUME Types, OnHistory
  PROVE  Types'
<1> DEFINE n == Len(asked)
<1>1. PICK i \in Waiting :
        /\ \E body \in Responses(asked[requests[i].id]) :
             dbSends' = dbSends \o Sends(requests[i].id, body)
        /\ requests' = [requests EXCEPT ![i].unacked = TRUE]
  BY DEF OnHistory
<1>2. PICK body \in Responses(asked[requests[i].id]) :
        dbSends' = dbSends \o Sends(requests[i].id, body)
  BY <1>1
<1>3. i \in 1..Len(requests)  BY DEF Waiting
<1>4. dbSends' \in Seq(Message(n))
  <2>1. \A x, y \in Message(n) : <<x, y>> \in Seq(Message(n))  OBVIOUS
  <2>2. Sends(requests[i].id, body) \in Seq(Message(n))
    BY <1>3, <2>1, RequestHasBodies DEF Sends
  <2>3. QED  BY <1>2, <2>2, InConcat DEF Types, BrokerTypes
<1>5. requests' \in Seq(Entry(n))
  <2>1. requests \in Seq(Entry(n)) /\ requests[i] \in Entry(n)
    BY <1>3, ElementOfSeq DEF Types, BrokerTypes
  <2>2. [requests[i] EXCEPT !.unacked = TRUE] \in Entry(n)  BY <2>1 DEF Entry
  <2>3. requests' = [requests EXCEPT ![i] = [requests[i] EXCEPT !.unacked = TRUE]]
    BY <1>1
  <2>4. QED  BY <1>3, <2>1, <2>2, <2>3, ExceptSeq
<1>6. UNCHANGED <<clientVars, dbUp, crashes, responses>> /\ dbUp  BY DEF OnHistory
<1>7. QED
  BY <1>4, <1>5, <1>6 DEF Types, ClientTypes, BrokerTypes, Idle, clientVars

LEMMA TypesRouted ==
  ASSUME Types, ReplyRouted \/ AckReceived
  PROVE  Types'
<1> DEFINE n == Len(asked)
<1>1. dbSends \in Seq(Message(n)) /\ dbSends # <<>>
  BY DEF Types, BrokerTypes, ReplyRouted, AckReceived
<1>2. Tail(dbSends) \in Seq(Message(n)) /\ Head(dbSends) \in Message(n)  BY <1>1, InTail
<1>3. dbUp  BY <1>1 DEF Types, BrokerTypes, Idle
<1>4. CASE ReplyRouted
  <2> DEFINE e == [id |-> Head(dbSends).id, body |-> Head(dbSends).body]
  <2>1. e \in Answer(n)  BY <1>2, <1>4 DEF ReplyRouted, Message, Answer
  <2>2. responses' \in Seq(Answer(n))
    BY <1>4, <2>1, InAppend DEF ReplyRouted, Types, BrokerTypes
  <2>3. QED
    BY <1>2, <1>3, <1>4, <2>2
       DEF ReplyRouted, Types, ClientTypes, BrokerTypes, Idle, clientVars
<1>5. CASE AckReceived
  <2>1. PICK i \in 1..Len(requests) : requests' = RemoveAt(requests, i)
    BY <1>5 DEF AckReceived
  <2>2. requests' \in Seq(Entry(n))  BY <2>1, InRemoveAt DEF Types, BrokerTypes
  <2>3. QED
    BY <1>2, <1>3, <1>5, <2>2
       DEF AckReceived, Types, ClientTypes, BrokerTypes, Idle, clientVars
<1>6. QED  BY <1>4, <1>5

\* What was not acknowledged is offered again.
LEMMA Reoffered ==
  ASSUME Types, Crash
  PROVE  /\ requests' \in Seq(Entry(Len(asked))) /\ Len(requests') = Len(requests)
         /\ \A i \in 1..Len(requests) :
              requests'[i].id = requests[i].id /\ ~requests'[i].unacked
<1> DEFINE S == Entry(Len(asked))
           again == [i \in 1..Len(requests) |-> [requests[i] EXCEPT !.unacked = FALSE]]
<1>1. /\ requests \in Seq(S) /\ Len(requests) \in Nat
      /\ \A i \in 1..Len(requests) : requests[i] \in S
  BY LenProperties, ElementOfSeq DEF Types, BrokerTypes
<1>2. \A i \in 1..Len(requests) :
        /\ again[i] \in S
        /\ again[i].id = requests[i].id /\ again[i].unacked = FALSE
  BY <1>1 DEF Entry
<1>3. again \in [1..Len(requests) -> S]  BY <1>2
<1>4. again \in Seq(S)  BY <1>1, <1>3, SeqDef
<1>5. Len(again) = Len(requests)
  <2>1. Len(again) \in Nat /\ DOMAIN again = 1..Len(again)  BY <1>4, LenProperties
  <2>2. DOMAIN again = 1..Len(requests)  OBVIOUS
  <2>3. QED  BY <1>1, <2>1, <2>2, SameEnd
<1>6. requests' = again  BY DEF Crash
<1>7. QED  BY <1>2, <1>4, <1>5, <1>6

LEMMA TypesCrash ==
  ASSUME Types, Crash \/ Restart
  PROVE  Types'
<1>1. CASE Crash
  <2>1. <<>> \in Seq(Message(Len(asked)))  BY EmptySeq
  <2>2. crashes' \in 0..MaxCrashes
    BY <1>1, HistoryAssumption DEF Crash, Types, BrokerTypes
  <2>3. QED
    BY <1>1, <2>1, <2>2, Reoffered
       DEF Crash, Types, ClientTypes, BrokerTypes, Idle, clientVars
<1>2. CASE Restart
  BY <1>2 DEF Restart, Types, ClientTypes, BrokerTypes, Idle, clientVars
<1>3. QED  BY <1>1, <1>2

LEMMA NextTypes ==
  ASSUME Types, [Next]_vars
  PROVE  Types'
<1>1. CASE UNCHANGED vars
  BY <1>1 DEF vars, clientVars, dbVars, Types, ClientTypes, BrokerTypes, Idle
<1>2. CASE Next
  BY <1>2, TypesConfig, TypesRequest, TypesClientOps, TypesResponse, TypesConnection,
     TypesOnHistory, TypesRouted, TypesCrash
     DEF Next, ClientNext, DbNext
<1>3. QED  BY <1>1, <1>2

-----------------------------------------------------------------------------
(***************************************************************************)
(* Responses                                                               *)
(***************************************************************************)
LEMMA ArrivedStays ==
  ASSUME Types, [Next]_vars, NEW id, Arrived(id)
  PROVE  Arrived(id)'
<1>1. CASE Response
  <2>1. /\ responses \in Seq(Answer(Len(asked))) /\ responses # <<>>
        /\ handed \in Seq(Given(Len(asked)))
    BY <1>1 DEF Types, ClientTypes, BrokerTypes, Response
  <2>2. /\ Head(responses) \in Answer(Len(asked))
        /\ \A x : In(x, responses) => In(x, Tail(responses)) \/ x = Head(responses)
    BY <2>1, InTail
  <2>3. Handed(Head(responses)) \in Given(Len(asked))  BY <2>2 DEF Given
  <2>4. \A x : In(x, handed') <=> In(x, handed) \/ x = Handed(Head(responses))
    <3> DEFINE e == Handed(Head(responses))
    <3>1. handed' = Append(handed, e)  BY <1>1 DEF Response
    <3>2. e \in Given(Len(asked))  BY <2>3
    <3> HIDE DEF e
    <3>3. \A x : In(x, handed') <=> In(x, handed) \/ x = e  BY <2>1, <3>1, <3>2, InAppend
    <3>4. QED  BY <3>3 DEF e
  <2>5. responses' = Tail(responses)  BY <1>1 DEF Response
  <2>6. CASE WasHanded(id)
    <3>1. PICK x \in {handed[i] : i \in 1..Len(handed)} : In(x, handed) /\ x.id = id
      BY <2>6 DEF WasHanded, In
    <3>2. In(x, handed')  BY <2>4, <3>1
    <3>3. QED  BY <3>1, <3>2 DEF In, Arrived, WasHanded
  <2>7. CASE InResponses(id)
    <3>1. PICK x \in {responses[i] : i \in 1..Len(responses)} : In(x, responses) /\ x.id = id
      BY <2>7 DEF InResponses, In
    <3>2. CASE In(x, Tail(responses))
      BY <2>5, <3>1, <3>2 DEF In, Arrived, InResponses
    <3>3. CASE x = Head(responses)
      <4>1. Handed(x).id = id  BY <3>1 DEF Handed
      <4>2. In(Handed(x), handed')  BY <2>4, <3>3
      <4>3. QED  BY <4>1, <4>2 DEF In, Arrived, WasHanded
    <3>4. QED  BY <2>2, <3>1, <3>2, <3>3
  <2>8. QED  BY <2>6, <2>7 DEF Arrived
<1>2. CASE ReplyRouted
  <2> DEFINE e == [id |-> Head(dbSends).id, body |-> Head(dbSends).body]
  <2>1. /\ responses \in Seq(Answer(Len(asked))) /\ dbSends # <<>>
        /\ dbSends \in Seq(Message(Len(asked)))
    BY <1>2 DEF Types, BrokerTypes, ReplyRouted
  <2>2. Head(dbSends) \in Message(Len(asked))  BY <2>1, InTail
  <2>3. e \in Answer(Len(asked))  BY <1>2, <2>2 DEF ReplyRouted, Message, Answer
  <2>4. responses' = Append(responses, e) /\ handed' = handed
    BY <1>2 DEF ReplyRouted, clientVars
  <2> HIDE DEF e
  <2>5. \A x : In(x, responses) => In(x, responses')  BY <2>1, <2>3, <2>4, InAppend
  <2>6. QED  BY <2>4, <2>5 DEF In, Arrived, InResponses, WasHanded
<1>3. CASE UNCHANGED <<responses, handed>>
  BY <1>3 DEF Arrived, InResponses, WasHanded
<1>4. Response \/ ReplyRouted \/ UNCHANGED <<responses, handed>>
  BY DEF Next, ClientNext, DbNext, Config, Request, ChannelReady, DeclareOk, ConsumeOk,
     RequestSent, Close, Closed, ChannelFails, OnHistory, AckReceived, Crash, Restart,
     vars, clientVars
<1>5. QED  BY <1>1, <1>2, <1>3, <1>4

\* The reply the broker has routed is in the client's queue.
LEMMA ReplyArrives ==
  ASSUME Types, ReplyRouted, NEW id, id = Head(dbSends).id
  PROVE  Arrived(id)'
<1> DEFINE e == [id |-> Head(dbSends).id, body |-> Head(dbSends).body]
<1>1. /\ responses \in Seq(Answer(Len(asked))) /\ dbSends # <<>>
      /\ dbSends \in Seq(Message(Len(asked)))
  BY DEF Types, BrokerTypes, ReplyRouted
<1>2. Head(dbSends) \in Message(Len(asked))  BY <1>1, InTail
<1>3. e \in Answer(Len(asked)) /\ e.id = id
  BY <1>2 DEF ReplyRouted, Message, Answer
<1>4. responses' = Append(responses, e)  BY DEF ReplyRouted
<1>5. In(e, responses')
  <2> HIDE DEF e
  <2>1. QED  BY <1>1, <1>3, <1>4, InAppend
<1>6. QED  BY <1>3, <1>5 DEF In, Arrived, InResponses

\* Positions move by one, and the first message has gone.
LEMMA AckRouted ==
  ASSUME Types, AckBehindReply, ReplyRouted \/ AckReceived
  PROVE  AckBehindReply'
<1>1. dbSends \in Seq(Message(Len(asked))) /\ dbSends # <<>> /\ dbSends' = Tail(dbSends)
  BY DEF Types, BrokerTypes, ReplyRouted, AckReceived
<1>2. /\ Head(dbSends) = dbSends[1] /\ Len(dbSends) \in Nat \ {0}
      /\ Len(dbSends') = Len(dbSends) - 1
      /\ \A i \in 1..Len(dbSends') : dbSends'[i] = dbSends[i + 1]
  BY <1>1, InTail
<1>3. SUFFICES ASSUME NEW i \in 1..Len(dbSends'), dbSends'[i].type = "ack",
                      NEW id, id = dbSends'[i].id, ~Arrived(id)'
      PROVE  \E j \in 1..(i - 1) : dbSends'[j].type = "reply" /\ dbSends'[j].id = id
  BY DEF AckBehindReply, Arrived, InResponses, WasHanded
<1>4. /\ i + 1 \in 1..Len(dbSends) /\ dbSends[i + 1].type = "ack"
      /\ dbSends[i + 1].id = id
  BY <1>2, <1>3
<1>5. ~Arrived(id)
  <2>1. Next  BY DEF Next, DbNext
  <2>2. QED  BY <1>3, <2>1, ArrivedStays
<1>6. PICK j \in 1..i : dbSends[j].type = "reply" /\ dbSends[j].id = id
  <2>1. (i + 1) - 1 = i  BY <1>2
  <2>2. QED  BY <1>4, <1>5, <2>1 DEF AckBehindReply
<1>7. j # 1
  <2>1. CASE ReplyRouted  BY <1>2, <1>3, <1>6, <2>1, ReplyArrives
  <2>2. CASE AckReceived  BY <1>2, <1>6, <2>2 DEF AckReceived
  <2>3. QED  BY <2>1, <2>2
<1>8. j - 1 \in 1..(i - 1) /\ dbSends'[j - 1] = dbSends[j]  BY <1>2, <1>6, <1>7
<1>9. QED  BY <1>6, <1>8

\* The database replies before it acknowledges.
LEMMA AckOnHistory ==
  ASSUME Types, AckBehindReply, OnHistory
  PROVE  AckBehindReply'
<1> DEFINE n == Len(dbSends)
<1>1. PICK i \in Waiting :
        \E body \in Responses(asked[requests[i].id]) :
          dbSends' = dbSends \o Sends(requests[i].id, body)
  BY DEF OnHistory
<1> PICK body \in Responses(asked[requests[i].id]) :
        dbSends' = dbSends \o Sends(requests[i].id, body)
  BY <1>1
<1>2. i \in 1..Len(requests)  BY DEF Waiting
<1> DEFINE r == Reply(requests[i].id, body)
           a == Ack(requests[i].id)
<1>3. r \in Message(Len(asked)) /\ a \in Message(Len(asked))  BY <1>2, RequestHasBodies
<1>4. r.type = "reply" /\ r.id = a.id /\ a.type = "ack"  BY DEF Reply, Ack
<1>5. dbSends' = dbSends \o <<r, a>>  BY DEF Sends
<1>6. dbSends \in Seq(Message(Len(asked))) /\ n \in Nat
  BY LenProperties DEF Types, BrokerTypes
<1> HIDE DEF r, a
<1>7. /\ Len(dbSends') = n + 2 /\ \A k \in 1..n : dbSends'[k] = dbSends[k]
      /\ dbSends'[n + 1] = r /\ dbSends'[n + 2] = a
  <2>1. /\ <<r, a>> \in Seq(Message(Len(asked))) /\ Len(<<r, a>>) = 2
        /\ <<r, a>>[1] = r /\ <<r, a>>[2] = a
    BY <1>3
  <2>2. /\ Len(dbSends') = n + 2
        /\ \A k \in 1..(n + 2) :
             dbSends'[k] = IF k <= n THEN dbSends[k] ELSE <<r, a>>[k - n]
    BY <1>5, <1>6, <2>1, ConcatProperties
  <2>3. (n + 1) - n = 1 /\ (n + 2) - n = 2  BY <1>6
  <2>4. QED  BY <1>6, <2>1, <2>2, <2>3
<1>8. UNCHANGED <<responses, handed>>  BY DEF OnHistory, clientVars
<1>9. SUFFICES ASSUME NEW k \in 1..(n + 2), dbSends'[k].type = "ack",
                      ~Arrived(dbSends'[k].id)
      PROVE  \E j \in 1..(k - 1) :
               dbSends'[j].type = "reply" /\ dbSends'[j].id = dbSends'[k].id
  BY <1>7, <1>8 DEF AckBehindReply, Arrived, InResponses, WasHanded
<1>10. CASE k \in 1..n
  <2>1. dbSends'[k] = dbSends[k]  BY <1>7, <1>10
  <2>2. PICK j \in 1..(k - 1) : dbSends[j].type = "reply" /\ dbSends[j].id = dbSends[k].id
    BY <1>9, <1>10, <2>1 DEF AckBehindReply
  <2>3. dbSends'[j] = dbSends[j]  BY <1>6, <1>7, <1>10
  <2>4. QED  BY <2>1, <2>2, <2>3
<1>11. CASE k = n + 2
  <2>1. n + 1 \in 1..(k - 1)  BY <1>6, <1>11
  <2>2. QED  BY <1>4, <1>7, <1>11, <2>1
<1>12. k # n + 1  BY <1>4, <1>7, <1>9
<1>13. k \in 1..n \/ k = n + 1 \/ k = n + 2  BY <1>6, <1>9
<1>14. QED  BY <1>10, <1>11, <1>12, <1>13

LEMMA AckNext ==
  ASSUME Types, AckBehindReply, [Next]_vars
  PROVE  AckBehindReply'
<1>1. CASE OnHistory  BY <1>1, AckOnHistory
<1>2. CASE ReplyRouted \/ AckReceived  BY <1>2, AckRouted
<1>3. CASE Crash
  <2>1. Len(dbSends') = 0  BY <1>3, EmptySeq DEF Crash
  <2>2. QED  BY <2>1 DEF AckBehindReply
<1>4. CASE dbSends' = dbSends
  <2>1. \A id : Arrived(id) => Arrived(id)'  BY ArrivedStays
  <2>2. QED  BY <1>4, <2>1 DEF AckBehindReply, Arrived, InResponses, WasHanded
<1>5. QED
  BY <1>1, <1>2, <1>3, <1>4
     DEF Next, ClientNext, DbNext, Config, Request, ChannelReady, DeclareOk, ConsumeOk,
         RequestSent, Response, Close, Closed, ChannelFails, Restart, vars, dbVars

-----------------------------------------------------------------------------
(***************************************************************************)
(* Where a request is                                                      *)
(***************************************************************************)
Somewhere(id) == InOps(id) \/ InRequests(id) \/ Arrived(id)

\* A request the client has published is found by its operation.
LEMMA PublishFound ==
  ASSUME Types, NEW id, InOps(id)
  PROVE  In(PublishOp(id), ops)
<1>1. PICK i \in 1..Len(ops) : ops[i].op = "publish" /\ ops[i].id = id  BY DEF InOps
<1>2. ops[i] \in ClientOp(Len(asked))  BY <1>1, ElementOfSeq DEF Types, ClientTypes
<1>3. ops[i] = PublishOp(id)  BY <1>1, <1>2 DEF ClientOp, PublishOp
<1>4. QED  BY <1>3 DEF In

\* The broker takes an operation of the client.
LEMMA StaysInOps ==
  ASSUME Types, DeclareOk \/ ConsumeOk \/ RequestSent, NEW id, InOps(id),
         asked[id] \in Stored
  PROVE  Somewhere(id)'
<1> DEFINE n == Len(asked)
<1>1. ops \in Seq(ClientOp(n)) /\ ops # <<>>
  BY DEF Types, ClientTypes, DeclareOk, ConsumeOk, RequestSent
<1>2. In(PublishOp(id), ops)  BY PublishFound
<1>3. In(PublishOp(id), Tail(ops)) \/ PublishOp(id) = Head(ops)  BY <1>1, <1>2, InTail
<1>4. PublishOp(id).op = "publish" /\ PublishOp(id).id = id  BY DEF PublishOp
<1>5. CASE In(PublishOp(id), Tail(ops))
  <2>1. In(PublishOp(id), ops')
    <3>1. CASE ops' = Tail(ops)  BY <1>5, <3>1
    <3>2. CASE ops' = Append(Tail(ops), [op |-> "consume"])
      <4>1. [op |-> "consume"] \in ClientOp(n)  BY DEF ClientOp
      <4>2. Tail(ops) \in Seq(ClientOp(n))  BY <1>1, InTail
      <4>3. QED  BY <1>5, <3>2, <4>1, <4>2, InAppend
    <3>3. QED  BY <3>1, <3>2 DEF DeclareOk, ConsumeOk, RequestSent
  <2>2. QED  BY <1>4, <2>1 DEF In, Somewhere, InOps
<1>6. CASE PublishOp(id) = Head(ops)
  <2> DEFINE e == [id |-> Head(ops).id, unacked |-> FALSE]
  <2>1. Head(ops).op = "publish" /\ Head(ops).id = id  BY <1>4, <1>6
  <2>2. requests' = Append(requests, e)  BY <2>1 DEF DeclareOk, ConsumeOk, RequestSent
  <2>3. e \in Entry(n) /\ e.id = id
    <3>1. Head(ops) \in ClientOp(n)  BY <1>1, InTail
    <3>2. QED  BY <2>1, <3>1 DEF ClientOp, Entry
  <2>4. requests \in Seq(Entry(n))  BY DEF Types, BrokerTypes
  <2>5. In(e, requests')
    <3> HIDE DEF e
    <3>1. QED  BY <2>2, <2>3, <2>4, InAppend
  <2>6. QED  BY <2>3, <2>5 DEF In, Somewhere, InRequests
<1>7. QED  BY <1>3, <1>5, <1>6

\* A request leaves the database's queue only when its response has arrived.
LEMMA StaysInRequests ==
  ASSUME Types, AckBehindReply, [Next]_vars, NEW id, InRequests(id)
  PROVE  InRequests(id)' \/ Arrived(id)'
<1> DEFINE n == Len(asked)
<1>1. PICK k \in 1..Len(requests) : requests[k].id = id  BY DEF InRequests
<1>2. requests \in Seq(Entry(n)) /\ Len(requests) \in Nat
  BY LenProperties DEF Types, BrokerTypes
<1>3. CASE requests' = requests  BY <1>3 DEF InRequests
<1>4. CASE RequestSent /\ requests' # requests
  <2> DEFINE e == [id |-> Head(ops).id, unacked |-> FALSE]
  <2>1. /\ ops \in Seq(ClientOp(n)) /\ ops # <<>> /\ Head(ops).op = "publish"
        /\ requests' = Append(requests, e)
    BY <1>4 DEF RequestSent, Types, ClientTypes
  <2>2. Head(ops) \in ClientOp(n)  BY <2>1, InTail
  <2>3. e \in Entry(n)  BY <2>1, <2>2 DEF ClientOp, Entry
  <2>4. In(requests[k], requests')
    <3> HIDE DEF e
    <3>1. In(requests[k], requests)  BY <1>1 DEF In
    <3>2. QED  BY <1>2, <2>1, <2>3, <3>1, InAppend
  <2>5. QED  BY <1>1, <2>4 DEF In, InRequests
<1>5. CASE OnHistory
  <2>1. PICK i \in Waiting : requests' = [requests EXCEPT ![i].unacked = TRUE]
    BY <1>5 DEF OnHistory
  <2>2. i \in 1..Len(requests) /\ requests[i] \in Entry(n)
    BY <1>2, ElementOfSeq DEF Waiting
  <2>3. [requests[i] EXCEPT !.unacked = TRUE] \in Entry(n)  BY <2>2 DEF Entry
  <2>4. Len(requests') = Len(requests)  BY <1>2, <2>1, <2>2, <2>3, ExceptSeq
  <2>5. requests'[k].id = requests[k].id
    <3>1. k \in DOMAIN requests  BY <1>2, LenProperties
    <3>2. requests'[k] = IF k = i THEN [requests[i] EXCEPT !.unacked = TRUE] ELSE requests[k]
      BY <2>1, <3>1
    <3>3. QED  BY <2>2, <3>2 DEF Entry
  <2>6. QED  BY <1>1, <2>4, <2>5 DEF InRequests
<1>6. CASE AckReceived
  <2>1. PICK i \in 1..Len(requests) :
          requests[i].id = Head(dbSends).id /\ requests' = RemoveAt(requests, i)
    BY <1>6 DEF AckReceived
  <2>2. In(requests[k], requests') \/ requests[k] = requests[i]
    <3>1. In(requests[k], requests)  BY <1>1 DEF In
    <3>2. QED  BY <1>2, <2>1, <3>1, InRemoveAt
  <2>3. CASE In(requests[k], requests')
    BY <1>1, <2>3 DEF In, InRequests
  <2>4. CASE requests[k] = requests[i]
    <3>1. dbSends \in Seq(Message(n)) /\ dbSends # <<>> /\ Head(dbSends).type = "ack"
      BY <1>6 DEF AckReceived, Types, BrokerTypes
    <3>2. Head(dbSends) = dbSends[1] /\ 1 \in 1..Len(dbSends)  BY <3>1, InTail
    <3>3. dbSends[1].id = id /\ dbSends[1].type = "ack"
      BY <1>1, <2>1, <2>4, <3>1, <3>2
    <3>4. Arrived(id)  BY <3>2, <3>3 DEF AckBehindReply
    <3>5. QED  BY <3>4, ArrivedStays
  <2>5. QED  BY <2>2, <2>3, <2>4
<1>7. CASE Crash  BY <1>1, <1>7, Reoffered DEF InRequests
<1>8. RequestSent \/ OnHistory \/ AckReceived \/ Crash \/ requests' = requests
  BY DEF Next, ClientNext, DbNext, Config, Request, ChannelReady, DeclareOk, ConsumeOk,
     Response, Close, Closed, ChannelFails, ReplyRouted, Restart, vars
<1>9. QED  BY <1>3, <1>4, <1>5, <1>6, <1>7, <1>8

\* While the channel works, a request that is somewhere stays so.
LEMMA StaysSomewhere ==
  ASSUME Types, AckBehindReply, [Next]_vars, ~Config, NEW id, Somewhere(id),
         asked[id] \in Stored, Alive'
  PROVE  Somewhere(id)'
<1>1. CASE Arrived(id)  BY <1>1, ArrivedStays DEF Somewhere
<1>2. CASE InRequests(id)  BY <1>2, StaysInRequests DEF Somewhere
<1>3. CASE InOps(id)
  <2>1. CASE DeclareOk \/ ConsumeOk \/ RequestSent  BY <1>3, <2>1, StaysInOps
  <2>2. CASE Request
    <3>1. PICK m \in Metrics : Publish(<<m>>)  BY <2>2 DEF Request
    <3>2. In(PublishOp(id), ops)  BY <1>3, PublishFound
    <3>3. In(PublishOp(id), ops')  BY <3>1, <3>2, PublishesNext DEF Types
    <3>4. QED  BY <3>3 DEF In, PublishOp, Somewhere, InOps
  <2>3. CASE ops' = ops  BY <1>3, <2>3 DEF Somewhere, InOps
  <2>4. DeclareOk \/ ConsumeOk \/ RequestSent \/ Request \/ ops' = ops
    BY DEF Next, ClientNext, DbNext, ChannelReady, Response, Close, Closing, Closed,
       ChannelFails, OnHistory, ReplyRouted, AckReceived, Crash, Restart, Alive, vars,
       clientVars
  <2>5. QED  BY <2>1, <2>2, <2>3, <2>4
<1>4. QED  BY <1>1, <1>2, <1>3 DEF Somewhere

LEMMA LostNext ==
  ASSUME Types, AckBehindReply, NoRequestLost, [Next]_vars
  PROVE  NoRequestLost'
<1>1. SUFFICES ASSUME Alive', NEW id \in Ids', asked'[id] \in Stored
      PROVE  Somewhere(id)'
  BY DEF NoRequestLost, Somewhere, Arrived, InOps, InRequests, InResponses, WasHanded
<1>2. CASE Config
  <2>1. PICK ms \in BoundedSeq(Metrics, MaxRequests) :
          asked' = ms /\ ops' = <<[op |-> "declare"]>> \o Asks(ms)
    BY <1>2 DEF Config
  <2>2. ms \in Seq(Metrics) /\ id \in 1..Len(ms)  BY <1>1, <2>1, BoundedIsSeq DEF Ids
  <2>3. In(PublishOp(id), ops')  BY <2>1, <2>2, AsksAll
  <2>4. QED  BY <2>3 DEF In, PublishOp, Somewhere, InOps
<1>3. CASE Request
  <2>1. PICK m \in Metrics : Publish(<<m>>)  BY <1>3 DEF Request
  <2>2. Alive  BY <1>1, <1>3 DEF Request, Alive
  <2>3. /\ Len(asked) \in Nat /\ Len(asked') = Len(asked) + 1
        /\ \A i \in Ids : asked'[i] = asked[i]
        /\ In(PublishOp(Len(asked')), ops')
    BY <2>1, <2>2, PublishesNext DEF Types
  <2>4. CASE id \in Ids
    <3>1. Somewhere(id) /\ asked[id] \in Stored
      BY <1>1, <2>2, <2>3, <2>4 DEF NoRequestLost, Somewhere, Arrived
    <3>2. ~Config  BY <2>2 DEF Config, Alive
    <3>3. QED  BY <1>1, <3>1, <3>2, StaysSomewhere
  <2>5. CASE id = Len(asked')
    BY <2>3, <2>5 DEF In, PublishOp, Somewhere, InOps
  <2>6. QED  BY <1>1, <2>3, <2>4, <2>5 DEF Ids
<1>4. CASE ~Config /\ ~Request
  <2>1. asked' = asked /\ Alive
    BY <1>1, <1>4 DEF Next, ClientNext, DbNext, ChannelReady, DeclareOk, ConsumeOk,
       RequestSent, Response, Close, Closing, Closed, ChannelFails, OnHistory, ReplyRouted,
       AckReceived, Crash, Restart, Alive, vars, clientVars
  <2>2. Somewhere(id) /\ asked[id] \in Stored
    BY <1>1, <2>1 DEF NoRequestLost, Somewhere, Arrived, Ids
  <2>3. QED  BY <1>1, <1>4, <2>2, StaysSomewhere
<1>5. QED  BY <1>2, <1>3, <1>4

-----------------------------------------------------------------------------
(***************************************************************************)
(* What responses say                                                      *)
(***************************************************************************)
\* The times are read back from the deltas.
LEMMA TimesOfDeltas ==
  ASSUME NEW S, \A r \in S : r.time \in Nat, NEW rows \in Seq(S)
  PROVE  /\ Len(Deltas(rows)) = Len(rows) /\ Len(rows) \in Nat
         /\ Times(Deltas(rows)) = [i \in 1..Len(rows) |-> rows[i].time]
<1> DEFINE n == Len(rows)
           deltas == Deltas(rows)
           time == [i \in 0..n |-> IF i = 0 THEN 0 ELSE rows[i].time]
           timestamp == CHOOSE timestamp : timestamp =
             [i \in 0..Len(deltas) |-> IF i = 0 THEN 0 ELSE timestamp[i - 1] + deltas[i]]
<1>1. n \in Nat /\ \A i \in 1..n : rows[i].time \in Nat  BY LenProperties, ElementOfSeq
<1>2. \A i \in 1..n : deltas[i] = rows[i].time - (IF i = 1 THEN 0 ELSE rows[i - 1].time)
  BY DEF Deltas
<1>3. Len(deltas) = n
  <2>1. \A i \in 1..n : rows[i].time - (IF i = 1 THEN 0 ELSE rows[i - 1].time) \in Int
    BY <1>1
  <2>2. deltas \in [1..n -> Int]  BY <2>1 DEF Deltas
  <2>3. QED  BY <1>1, <2>2, SeqOfLength
<1>4. ASSUME NEW i \in 1..n
      PROVE  time[i - 1] + deltas[i] = rows[i].time
  <2>1. i - 1 \in 0..n /\ (i # 1 => i - 1 \in 1..n /\ i - 1 # 0)  BY <1>1
  <2>2. time[i - 1] = IF i = 1 THEN 0 ELSE rows[i - 1].time  BY <2>1
  <2>3. time[i - 1] \in Int /\ rows[i].time \in Int  BY <1>1, <2>1, <2>2
  <2>4. deltas[i] = rows[i].time - time[i - 1]  BY <1>2, <2>2
  <2> HIDE DEF time, deltas
  <2>5. QED  BY <2>3, <2>4
<1>5. time = [i \in 0..Len(deltas) |-> IF i = 0 THEN 0 ELSE time[i - 1] + deltas[i]]
  BY <1>1, <1>3, <1>4
<1>6. timestamp = [i \in 0..Len(deltas) |-> IF i = 0 THEN 0 ELSE timestamp[i - 1] + deltas[i]]
  <2> HIDE DEF deltas, time
  <2>1. QED  BY <1>5
<1>7. Times(deltas) = [i \in 1..Len(deltas) |-> timestamp[i]]  BY DEF Times
<1> HIDE DEF timestamp
<1>8. \A i \in 0..n : timestamp[i] = time[i]
  <2> DEFINE T == {i \in 0..n : timestamp[i] = time[i]}
  <2>1. 0 \in T  BY <1>1, <1>3, <1>6
  <2>2. ASSUME NEW i \in 0..(n - 1), i \in T PROVE i + 1 \in T
    <3>1. i + 1 \in 1..n /\ (i + 1) - 1 = i  BY <1>1
    <3>2. timestamp[i + 1] = timestamp[i] + deltas[i + 1]
      <4> HIDE DEF deltas
      <4>1. QED  BY <1>1, <1>3, <1>6, <3>1
    <3>3. time[i] + deltas[i + 1] = time[i + 1]  BY <1>4, <3>1
    <3>4. QED  BY <2>2, <3>1, <3>2, <3>3
  <2> HIDE DEF T
  <2>3. 0..n \subseteq T  BY <1>1, <2>1, <2>2, IntervalInduction
  <2>4. QED  BY <2>3 DEF T
<1>9. \A i \in 1..n : timestamp[i] = rows[i].time  BY <1>1, <1>8
<1>10. QED
  <2> HIDE DEF deltas
  <2>1. Times(deltas) = [i \in 1..n |-> rows[i].time]  BY <1>3, <1>7, <1>9
  <2>2. QED  BY <1>1, <1>3, <2>1 DEF deltas

\* A sequence is the function of its elements.
LEMMA SameSeq ==
  ASSUME NEW S, NEW s \in Seq(S), NEW f, f = [i \in 1..Len(s) |-> s[i]]
  PROVE  f = s
  BY LenProperties

LEMMA ValuesRead ==
  ASSUME NEW m \in Stored
  PROVE  ValueView(ValuesFor(m)) = Rows[m]
<1> DEFINE rows == Rows[m]
           d == Deltas(rows)
<1>1. rows \in Seq([time : Nat, value : Int])  BY HistoryAssumption
<1>2. /\ Len(d) = Len(rows) /\ Len(rows) \in Nat
      /\ Times(d) = [i \in 1..Len(rows) |-> rows[i].time]
  BY <1>1, TimesOfDeltas
<1>3. ValuesFor(m).timeDelta = d /\ ValuesFor(m).value = [i \in 1..Len(rows) |-> rows[i].value]
  BY DEF ValuesFor
<1> HIDE DEF d
<1>4. ValueView(ValuesFor(m)) =
        [i \in 1..Len(rows) |-> [time |-> rows[i].time, value |-> rows[i].value]]
  BY <1>2, <1>3 DEF ValueView
<1>5. \A i \in 1..Len(rows) : [time |-> rows[i].time, value |-> rows[i].value] = rows[i]
  <2>1. \A i \in 1..Len(rows) : rows[i] \in [time : Nat, value : Int]  BY <1>1, ElementOfSeq
  <2>2. QED  BY <2>1
<1> HIDE DEF rows
<1>6. ValueView(ValuesFor(m)) = [i \in 1..Len(rows) |-> rows[i]]  BY <1>4, <1>5
<1>7. QED  BY <1>1, <1>6, SameSeq DEF rows

LEMMA AggregatesRead ==
  ASSUME NEW m \in Stored
  PROVE  AggregateView(AggregatesFor(m)) = Aggregates[m]
<1> DEFINE rows == Aggregates[m]
           d == Deltas(rows)
           body == AggregatesFor(m)
<1>1. rows \in Seq(Aggregate) /\ \A r \in Aggregate : r.time \in Nat
  BY HistoryAssumption DEF Aggregate
<1>2. /\ Len(d) = Len(rows) /\ Len(rows) \in Nat
      /\ Times(d) = [i \in 1..Len(rows) |-> rows[i].time]
  BY <1>1, TimesOfDeltas
<1>3. /\ body.timeDelta = d
      /\ body.aggregate = [i \in 1..Len(rows) |-> [rows[i] EXCEPT !.time = 0]]
  BY DEF AggregatesFor
<1>4. \A i \in 1..Len(rows) : rows[i] \in Aggregate  BY <1>1, ElementOfSeq
<1> HIDE DEF d, body, rows
<1>5. ASSUME NEW i \in 1..Len(rows) PROVE AggregateAt(body, i) = rows[i]
  <2>1. AggregateAt(body, i) = [[rows[i] EXCEPT !.time = 0] EXCEPT !.time = rows[i].time]
    BY <1>2, <1>3 DEF AggregateAt
  <2>2. QED  BY <1>4, <2>1 DEF Aggregate
<1>6. AggregateView(body) = [i \in 1..Len(rows) |-> rows[i]]
  BY <1>2, <1>3, <1>5 DEF AggregateView
<1>7. QED  BY <1>1, <1>6, SameSeq DEF rows, body

\* An aggregate's mean is between its minimum and its maximum.
LEMMA MeanBetween ==
  ASSUME NEW m \in Stored, NEW j \in 1..Len(Aggregates[m])
  PROVE  LET a == Aggregates[m][j]
             mean == Mean(a)
         IN  a.min * mean[2] <= mean[1] /\ mean[1] <= a.max * mean[2]
  BY AggregateAssumption DEF Mean

\* The response to a request is one for its metric, which is stored.
TrueBody(as, id, body) == as[id] \in Stored /\ body \in Responses(as[id])

\* What was made of it for the application is true.
TrueRows(h, m) ==
  /\ h.metric = m
  /\ h.kind = "values" => h.rows = Rows[m]
  /\ h.kind = "aggregates" => h.rows = Aggregates[m] \/ h.rows = <<>>

LEMMA BodyIsTrue ==
  ASSUME NEW m \in Stored, NEW body \in Responses(m), NEW r, r.body = body
  PROVE  TrueRows(Handed(r), m)
<1>1. CASE body = ErrorFor(m)
  BY <1>1 DEF ErrorFor, Handed, TrueRows
<1>2. CASE body = ValuesFor(m)
  <2>1. body.metric = m /\ body.error = FALSE  BY <1>2 DEF ValuesFor
  <2>2. CASE Len(body.value) > 0
    <3>1. Handed(r).kind = "values" /\ Handed(r).rows = ValueView(body)
      BY <2>1, <2>2 DEF Handed
    <3>2. QED  BY <1>2, <2>1, <3>1, ValuesRead DEF TrueRows, Handed
  <2>3. CASE ~(Len(body.value) > 0)
    <3>1. Handed(r).kind = "aggregates" /\ Handed(r).rows = AggregateView(body)
      BY <2>1, <2>3 DEF Handed
    <3>2. Rows[m] \in Seq([time : Nat, value : Int])  BY HistoryAssumption
    <3>3. Len(body.value) = Len(Rows[m]) /\ Len(Rows[m]) \in Nat
      <4> DEFINE vs == [i \in 1..Len(Rows[m]) |-> Rows[m][i].value]
      <4>1. Len(Rows[m]) \in Nat /\ \A i \in 1..Len(Rows[m]) : Rows[m][i].value \in Int
        <5>1. \A i \in 1..Len(Rows[m]) : Rows[m][i] \in [time : Nat, value : Int]
          BY <3>2, ElementOfSeq
        <5>2. \A x \in [time : Nat, value : Int] : x.value \in Int  OBVIOUS
        <5>3. Len(Rows[m]) \in Nat  BY <3>2, LenProperties
        <5>4. QED  BY <5>1, <5>2, <5>3
      <4>2. vs \in [1..Len(Rows[m]) -> Int]  BY <4>1
      <4>3. Len(vs) = Len(Rows[m])  BY <4>1, <4>2, SeqOfLength
      <4>4. body.value = vs  BY <1>2 DEF ValuesFor
      <4>5. QED  BY <4>1, <4>3, <4>4
    <3>4. Len(body.timeDelta) = 0
      <4>1. Len(Deltas(Rows[m])) = Len(Rows[m])  BY <3>2, TimesOfDeltas
      <4>2. body.timeDelta = Deltas(Rows[m])  BY <1>2 DEF ValuesFor
      <4>3. QED  BY <2>3, <3>3, <4>1, <4>2
    <3>5. AggregateView(body) = <<>>
      <4>1. AggregateView(body) \in [1..0 -> Int]  BY <3>4 DEF AggregateView
      <4>2. AggregateView(body) \in Seq(Int) /\ Len(AggregateView(body)) = 0
        BY <4>1, SeqOfLength
      <4>3. QED  BY <4>2, EmptySeq
    <3>6. QED  BY <2>1, <3>1, <3>5 DEF TrueRows, Handed
  <2>4. QED  BY <2>2, <2>3
<1>3. CASE body = AggregatesFor(m)
  <2>1. body.metric = m /\ body.error = FALSE /\ ~(Len(body.value) > 0)
    BY <1>3, EmptySeq DEF AggregatesFor
  <2>2. Handed(r).kind = "aggregates" /\ Handed(r).rows = AggregateView(body)
    BY <2>1 DEF Handed
  <2>3. QED  BY <1>3, <2>1, <2>2, AggregatesRead DEF TrueRows, Handed
<1>4. QED  BY <1>1, <1>2, <1>3 DEF Responses

\* The messages that are true when the requests are for the metrics in as.
TrueEntry(as) == {e \in Entry(Len(as)) : as[e.id] \in Stored}
TrueMessage(as) ==
  {x \in Message(Len(as)) : x.type = "reply" => TrueBody(as, x.id, x.body)}
TrueAnswer(as) == {x \in Answer(Len(as)) : TrueBody(as, x.id, x.body)}
TrueGiven(as) ==
  {h \in Given(Len(as)) : as[h.id] \in Stored /\ TrueRows(h, as[h.id])}

Truth ==
  /\ requests \in Seq(TrueEntry(asked)) /\ dbSends \in Seq(TrueMessage(asked))
  /\ responses \in Seq(TrueAnswer(asked)) /\ handed \in Seq(TrueGiven(asked))

\* They stay true when more is asked.
LEMMA TruthGrows ==
  ASSUME Truth, UNCHANGED <<requests, dbSends, responses, handed>>,
         Len(asked) \in Nat, Len(asked') \in Nat, Len(asked) <= Len(asked'),
         \A id \in 1..Len(asked) : asked'[id] = asked[id]
  PROVE  Truth'
<1> DEFINE n == Len(asked)
           m == Len(asked')
<1>1. /\ Entry(n) \subseteq Entry(m) /\ Message(n) \subseteq Message(m)
      /\ Answer(n) \subseteq Answer(m) /\ Given(n) \subseteq Given(m)
  BY Grow
<1>2. TrueEntry(asked) \subseteq TrueEntry(asked')
  <2>1. \A e \in Entry(n) : e.id \in 1..n  BY DEF Entry
  <2>2. QED  BY <1>1, <2>1 DEF TrueEntry
<1>3. TrueMessage(asked) \subseteq TrueMessage(asked')
  <2>1. \A x \in Message(n) : x.id \in 1..n  BY DEF Message
  <2>2. QED  BY <1>1, <2>1 DEF TrueMessage, TrueBody
<1>4. TrueAnswer(asked) \subseteq TrueAnswer(asked')
  <2>1. \A x \in Answer(n) : x.id \in 1..n  BY DEF Answer
  <2>2. QED  BY <1>1, <2>1 DEF TrueAnswer, TrueBody
<1>5. TrueGiven(asked) \subseteq TrueGiven(asked')
  <2>1. \A h \in Given(n) : h.id \in 1..n  BY DEF Given, Handed, Answer
  <2>2. QED  BY <1>1, <2>1 DEF TrueGiven
<1>6. QED  BY <1>2, <1>3, <1>4, <1>5, SeqMonotonic DEF Truth

LEMMA InitTruth == Init => Truth
  BY EmptySeq DEF Init, Truth

LEMMA TruthAsked ==
  ASSUME Types, Truth, Config \/ Request
  PROVE  Truth'
<1>1. UNCHANGED <<requests, dbSends, responses, handed>>
  BY DEF Config, Request, dbVars
<1>2. CASE Config
  <2>1. PICK ms \in BoundedSeq(Metrics, MaxRequests) : asked' = ms  BY <1>2 DEF Config
  <2>2. Len(asked') \in Nat  BY <2>1, BoundedIsSeq, HistoryAssumption
  <2>3. Len(asked) = 0  BY <1>2, EmptySeq DEF Config, Types, Idle
  <2>4. QED  BY <1>1, <2>2, <2>3, TruthGrows
<1>3. CASE Request
  <2>1. PICK m \in Metrics : Publish(<<m>>)  BY <1>3 DEF Request
  <2>2. /\ Len(asked') = Len(asked) + 1 /\ Len(asked) \in Nat
        /\ \A id \in 1..Len(asked) : asked'[id] = asked[id]
    BY <2>1, PublishesNext DEF Types, Ids
  <2>3. QED  BY <1>1, <2>2, TruthGrows
<1>4. QED  BY <1>2, <1>3

LEMMA TruthSent ==
  ASSUME Types, Truth, RequestSent
  PROVE  Truth'
<1> DEFINE e == [id |-> Head(ops).id, unacked |-> FALSE]
<1>1. UNCHANGED <<asked, dbSends, responses, handed>>  BY DEF RequestSent, dbVars
<1>2. CASE asked[Head(ops).id] \in Stored
  <2>1. Head(ops) \in ClientOp(Len(asked))
    BY InTail DEF RequestSent, Types, ClientTypes
  <2>2. e \in TrueEntry(asked)
    BY <1>2, <2>1 DEF RequestSent, ClientOp, TrueEntry, Entry
  <2>3. requests' = Append(requests, e)  BY <1>2 DEF RequestSent
  <2> HIDE DEF e
  <2>4. requests' \in Seq(TrueEntry(asked))  BY <2>2, <2>3, InAppend DEF Truth
  <2>5. QED  BY <1>1, <2>4 DEF Truth
<1>3. CASE asked[Head(ops).id] \notin Stored
  BY <1>1, <1>3 DEF RequestSent, Truth
<1>4. QED  BY <1>2, <1>3

LEMMA TruthOnHistory ==
  ASSUME Types, Truth, OnHistory
  PROVE  Truth'
<1>1. UNCHANGED <<asked, responses, handed>>  BY DEF OnHistory, clientVars
<1>2. PICK i \in Waiting :
        /\ \E body \in Responses(asked[requests[i].id]) :
             dbSends' = dbSends \o Sends(requests[i].id, body)
        /\ requests' = [requests EXCEPT ![i].unacked = TRUE]
  BY DEF OnHistory
<1>3. PICK body \in Responses(asked[requests[i].id]) :
        dbSends' = dbSends \o Sends(requests[i].id, body)
  BY <1>2
<1>4. i \in 1..Len(requests) /\ requests[i] \in TrueEntry(asked)
  BY ElementOfSeq DEF Waiting, Truth
<1> DEFINE r == Reply(requests[i].id, body)
           a == Ack(requests[i].id)
<1>5. r \in TrueMessage(asked) /\ a \in TrueMessage(asked)
  <2>1. r \in Message(Len(asked)) /\ a \in Message(Len(asked))  BY <1>4, RequestHasBodies
  <2>2. TrueBody(asked, requests[i].id, body)  BY <1>3, <1>4 DEF TrueEntry, TrueBody
  <2>3. /\ r.id = requests[i].id /\ r.body = body /\ a.type = "ack"  BY DEF Reply, Ack
  <2> HIDE DEF r, a
  <2>4. QED  BY <2>1, <2>2, <2>3 DEF TrueMessage
<1>6. dbSends' \in Seq(TrueMessage(asked))
  <2>1. dbSends' = dbSends \o <<r, a>>  BY <1>3 DEF Sends
  <2> HIDE DEF r, a
  <2>2. <<r, a>> \in Seq(TrueMessage(asked))  BY <1>5
  <2>3. QED  BY <2>1, <2>2, InConcat DEF Truth
<1>7. requests' \in Seq(TrueEntry(asked))
  <2>1. [requests[i] EXCEPT !.unacked = TRUE] \in TrueEntry(asked)
    BY <1>4 DEF TrueEntry, Entry
  <2>2. requests' = [requests EXCEPT ![i] = [requests[i] EXCEPT !.unacked = TRUE]]
    BY <1>2
  <2>3. QED  BY <1>4, <2>1, <2>2, ExceptSeq DEF Truth
<1>8. QED  BY <1>1, <1>6, <1>7 DEF Truth

LEMMA TruthRouted ==
  ASSUME Types, Truth, ReplyRouted \/ AckReceived
  PROVE  Truth'
<1>1. UNCHANGED <<asked, handed>> /\ dbSends # <<>> /\ dbSends' = Tail(dbSends)
  BY DEF ReplyRouted, AckReceived, clientVars
<1>2. dbSends' \in Seq(TrueMessage(asked)) /\ Head(dbSends) \in TrueMessage(asked)
  BY <1>1, InTail DEF Truth
<1>3. CASE ReplyRouted
  <2> DEFINE e == [id |-> Head(dbSends).id, body |-> Head(dbSends).body]
  <2>1. e \in TrueAnswer(asked)
    BY <1>2, <1>3 DEF ReplyRouted, TrueMessage, Message, TrueAnswer, Answer
  <2>2. responses' = Append(responses, e) /\ requests' = requests
    BY <1>3 DEF ReplyRouted
  <2> HIDE DEF e
  <2>3. responses' \in Seq(TrueAnswer(asked))  BY <2>1, <2>2, InAppend DEF Truth
  <2>4. QED  BY <1>1, <1>2, <2>2, <2>3 DEF Truth
<1>4. CASE AckReceived
  <2>1. PICK i \in 1..Len(requests) : requests' = RemoveAt(requests, i)
    BY <1>4 DEF AckReceived
  <2>2. requests' \in Seq(TrueEntry(asked))  BY <2>1, InRemoveAt DEF Truth
  <2>3. QED  BY <1>1, <1>2, <1>4, <2>2 DEF AckReceived, Truth
<1>5. QED  BY <1>3, <1>4

LEMMA TruthHanded ==
  ASSUME Types, Truth, Response
  PROVE  Truth'
<1> DEFINE r == Head(responses)
           h == Handed(r)
<1>1. /\ UNCHANGED <<asked, requests, dbSends>> /\ responses # <<>>
      /\ responses' = Tail(responses) /\ handed' = Append(handed, h)
  BY DEF Response, dbVars
<1>2. responses' \in Seq(TrueAnswer(asked)) /\ r \in TrueAnswer(asked)
  BY <1>1, InTail DEF Truth
<1>3. h \in TrueGiven(asked)
  <2> HIDE DEF r
  <2>1. r \in Answer(Len(asked)) /\ TrueBody(asked, r.id, r.body)  BY <1>2 DEF TrueAnswer
  <2>2. h \in Given(Len(asked)) /\ h.id = r.id  BY <2>1 DEF Given, Handed
  <2>3. asked[r.id] \in Stored /\ TrueRows(h, asked[r.id])  BY <2>1, BodyIsTrue DEF TrueBody
  <2> HIDE DEF h
  <2>4. QED  BY <2>2, <2>3 DEF TrueGiven
<1> HIDE DEF h
<1>4. handed' \in Seq(TrueGiven(asked))  BY <1>1, <1>3, InAppend DEF Truth
<1>5. QED  BY <1>1, <1>2, <1>4 DEF Truth

LEMMA TruthCrash ==
  ASSUME Types, Truth, Crash
  PROVE  Truth'
<1> DEFINE again == [i \in 1..Len(requests) |-> [requests[i] EXCEPT !.unacked = FALSE]]
<1>1. requests' = again /\ dbSends' = <<>> /\ UNCHANGED <<asked, responses, handed>>
  BY DEF Crash, clientVars
<1>2. \A i \in 1..Len(requests) : again[i] \in TrueEntry(asked)
  <2>1. \A i \in 1..Len(requests) : requests[i] \in TrueEntry(asked)
    BY ElementOfSeq DEF Truth
  <2>2. QED  BY <2>1 DEF TrueEntry, Entry
<1>3. again \in [1..Len(requests) -> TrueEntry(asked)]  BY <1>2
<1>4. again \in Seq(TrueEntry(asked))
  <2>1. Len(requests) \in Nat  BY LenProperties DEF Truth
  <2> HIDE DEF again
  <2>2. QED  BY <1>3, <2>1, SeqOfLength
<1>5. QED  BY <1>1, <1>4, EmptySeq DEF Truth

LEMMA TruthNext ==
  ASSUME Types, Truth, [Next]_vars
  PROVE  Truth'
<1>1. CASE UNCHANGED <<asked, requests, dbSends, responses, handed>>
  BY <1>1 DEF Truth
<1>2. \/ Config \/ Request \/ RequestSent \/ OnHistory \/ ReplyRouted \/ AckReceived
      \/ Response \/ Crash \/ UNCHANGED <<asked, requests, dbSends, responses, handed>>
  BY DEF Next, ClientNext, DbNext, ChannelReady, DeclareOk, ConsumeOk, Close, Closed,
     ChannelFails, Restart, vars, clientVars, dbVars
<1>3. QED
  BY <1>1, <1>2, TruthAsked, TruthSent, TruthOnHistory, TruthRouted, TruthHanded, TruthCrash

LEMMA TruthIsTrue == Truth => TrueAnswers
<1>1. SUFFICES ASSUME Truth, NEW i \in 1..Len(handed)
      PROVE  LET h == handed[i] IN
             /\ h.metric = asked[h.id]
             /\ h.kind = "values" => h.rows = Rows[h.metric]
             /\ h.kind = "aggregates" /\ h.rows # <<>> =>
                  /\ h.rows = Aggregates[h.metric]
                  /\ \A j \in 1..Len(h.rows) : LET mean == Mean(h.rows[j]) IN
                       h.rows[j].min * mean[2] <= mean[1] /\ mean[1] <= h.rows[j].max * mean[2]
  BY DEF TrueAnswers
<1>2. handed[i] \in TrueGiven(asked)  BY <1>1, ElementOfSeq DEF Truth
<1> DEFINE h == handed[i]
           m == asked[h.id]
<1>3. m \in Stored /\ TrueRows(h, m)  BY <1>2 DEF TrueGiven
<1> HIDE DEF h, m
<1>4. /\ h.metric = m
      /\ h.kind = "values" => h.rows = Rows[h.metric]
      /\ h.kind = "aggregates" /\ h.rows # <<>> => h.rows = Aggregates[h.metric]
  BY <1>3 DEF TrueRows
<1>5. ASSUME h.kind = "aggregates", h.rows # <<>>, NEW j \in 1..Len(h.rows)
      PROVE  LET mean == Mean(h.rows[j]) IN
             h.rows[j].min * mean[2] <= mean[1] /\ mean[1] <= h.rows[j].max * mean[2]
  <2>1. h.rows = Aggregates[m]  BY <1>4, <1>5
  <2>2. j \in 1..Len(Aggregates[m])  BY <1>5, <2>1
  <2>3. QED  BY <1>3, <2>1, <2>2, MeanBetween
<1>6. QED  BY <1>4, <1>5 DEF h, m

-----------------------------------------------------------------------------
(***************************************************************************)
(* How often a request is answered                                         *)
(***************************************************************************)
\* What is about a request in each of the queues.
Entries(id) == [id : {id}, unacked : BOOLEAN]
Open(id) == [id : {id}, unacked : {FALSE}]
Replies(id) == [type : {"reply"}, id : {id}, body : Bodies]
Answers(id) == [id : {id}, body : Bodies]
AnswersGiven(id) == {Handed(r) : r \in Answers(id)}

\* A request is in one place, until it is acknowledged.
Asked(id) == Count(ops, {PublishOp(id)}) + Count(requests, Entries(id))

\* The answers it has had, or may still get if nothing crashes.
AnswersTo(id) ==
  Count(ops, {PublishOp(id)}) + Count(requests, Open(id)) + Count(dbSends, Replies(id))
    + Count(responses, Answers(id)) + Count(handed, AnswersGiven(id))

AnsweredOnce == \A id \in Nat : Asked(id) <= 1 /\ AnswersTo(id) <= 1 + crashes

LEMMA CountTypes ==
  ASSUME Types, NEW id
  PROVE  /\ Count(ops, {PublishOp(id)}) \in Nat /\ Count(requests, Entries(id)) \in Nat
         /\ Count(requests, Open(id)) \in Nat /\ Count(dbSends, Replies(id)) \in Nat
         /\ Count(responses, Answers(id)) \in Nat /\ Count(handed, AnswersGiven(id)) \in Nat
         /\ crashes \in Nat
<1>1. Count(ops, {PublishOp(id)}) \in Nat  BY CountIsNat DEF Types, ClientTypes
<1>2. Count(requests, Entries(id)) \in Nat /\ Count(requests, Open(id)) \in Nat
  BY CountIsNat DEF Types, BrokerTypes
<1>3. Count(dbSends, Replies(id)) \in Nat  BY CountIsNat DEF Types, BrokerTypes
<1>4. Count(responses, Answers(id)) \in Nat  BY CountIsNat DEF Types, BrokerTypes
<1>5. Count(handed, AnswersGiven(id)) \in Nat  BY CountIsNat DEF Types, ClientTypes
<1>6. crashes \in Nat  BY HistoryAssumption DEF Types, BrokerTypes
<1>7. QED  BY <1>1, <1>2, <1>3, <1>4, <1>5, <1>6

\* A number that is not given yet is nowhere.
LEMMA NotAsked ==
  ASSUME Types, NEW id, id \notin Ids
  PROVE  /\ Count(ops, {PublishOp(id)}) = 0 /\ Count(requests, Entries(id)) = 0
         /\ Count(requests, Open(id)) = 0 /\ Count(dbSends, Replies(id)) = 0
         /\ Count(responses, Answers(id)) = 0 /\ Count(handed, AnswersGiven(id)) = 0
<1> DEFINE n == Len(asked)
<1>1. Count(ops, {PublishOp(id)}) = 0
  <2>1. \A e \in ClientOp(n) : e \notin {PublishOp(id)}
    <3>1. PublishOp(id).op = "publish" /\ PublishOp(id).id = id  BY DEF PublishOp
    <3>2. ASSUME NEW e \in ClientOp(n), e = PublishOp(id) PROVE FALSE
      <4>1. e.op = "publish" /\ e.id = id  BY <3>1, <3>2
      <4>2. e \in [op : {"publish"}, id : 1..n]  BY <4>1 DEF ClientOp
      <4>3. QED  BY <4>1, <4>2 DEF Ids
    <3>3. QED  BY <3>2
  <2>2. QED  BY <2>1, CountEmpty DEF Types, ClientTypes
<1>2. Count(requests, Entries(id)) = 0 /\ Count(requests, Open(id)) = 0
  <2>1. \A e \in Entry(n) : e \notin Entries(id) /\ e \notin Open(id)
    BY DEF Entry, Entries, Open, Ids
  <2>2. QED  BY <2>1, CountEmpty DEF Types, BrokerTypes
<1>3. Count(dbSends, Replies(id)) = 0
  <2>1. \A e \in Message(n) : e.id \in 1..n  BY DEF Message
  <2>2. \A e \in Replies(id) : e.id = id  BY DEF Replies
  <2>3. \A e \in Message(n) : e \notin Replies(id)  BY <2>1, <2>2 DEF Ids
  <2>4. QED  BY <2>3, CountEmpty DEF Types, BrokerTypes
<1>4. Count(responses, Answers(id)) = 0
  <2>1. \A e \in Answer(n) : e \notin Answers(id)  BY DEF Answer, Answers, Ids
  <2>2. QED  BY <2>1, CountEmpty DEF Types, BrokerTypes
<1>5. Count(handed, AnswersGiven(id)) = 0
  <2>1. \A e \in Given(n) : e.id \in 1..n  BY DEF Given, Handed, Answer
  <2>2. \A e \in AnswersGiven(id) : e.id = id  BY DEF AnswersGiven, Handed, Answers
  <2>3. \A e \in Given(n) : e \notin AnswersGiven(id)  BY <2>1, <2>2 DEF Ids
  <2>4. QED  BY <2>3, CountEmpty DEF Types, ClientTypes
<1>6. QED  BY <1>1, <1>2, <1>3, <1>4, <1>5

\* The first requests have different numbers.
LEMMA AsksOnce ==
  ASSUME NEW ms \in Seq(Metrics), NEW id
  PROVE  LET all == <<[op |-> "declare"]>> \o Asks(ms)
         IN  Count(all, {PublishOp(id)}) <= 1
<1> DEFINE n == Len(ms)
           T == ClientOp(n)
           first == <<[op |-> "declare"]>>
           asks == Asks(ms)
           A == {PublishOp(id)}
<1>1. n \in Nat /\ \A i \in 1..n : PublishOp(i) \in T
  BY LenProperties DEF PublishOp, ClientOp
<1>2. asks \in [1..n -> T] /\ \A i \in 1..n : asks[i] = PublishOp(i)
  BY <1>1 DEF Asks, PublishOp
<1>3. asks \in Seq(T) /\ Len(asks) = n
  <2> HIDE DEF asks
  <2>1. QED  BY <1>1, <1>2, SeqOfLength
<1>4. Count(asks, A) <= 1 /\ Count(asks, A) \in Nat
  <2>1. \A i \in 1..n : PublishOp(i) \in A => i = id  BY DEF PublishOp
  <2> HIDE DEF asks
  <2>2. Places(asks, A) \in SUBSET {id}  BY <1>2, <1>3, <2>1 DEF Places
  <2>3. IsFiniteSet({id}) /\ Cardinality({id}) = 1  BY FS_Singleton
  <2>4. Cardinality(Places(asks, A)) <= 1  BY <2>2, <2>3, FS_Subset
  <2>5. QED  BY <1>3, <2>4, CountIsNat DEF Count
<1>5. first \in Seq(T) /\ Count(first, A) = 0
  <2> DEFINE e == [op |-> "declare"]
  <2>1. e \in T  BY DEF ClientOp
  <2>2. e \notin A
    <3>1. PublishOp(id).op = "publish"  BY DEF PublishOp
    <3>2. e.op = "declare"  OBVIOUS
    <3>3. QED  BY <3>1, <3>2
  <2> HIDE DEF e
  <2>3. QED  BY <2>1, <2>2, CountOne DEF e
<1>6. Count(first \o asks, A) = Count(first, A) + Count(asks, A)
  <2> HIDE DEF first, asks, A, T
  <2>1. QED  BY <1>3, <1>5, CountConcat
<1>7. QED  BY <1>4, <1>5, <1>6

\* A later request is published once.
LEMMA PublishOnce ==
  ASSUME ClientTypes, NEW m \in Metrics, Publish(<<m>>), NEW id
  PROVE  Count(ops', {PublishOp(id)}) <=
           Count(ops, {PublishOp(id)}) + (IF id = Len(asked) + 1 THEN 1 ELSE 0)
<1> DEFINE n == Len(asked)
           T == ClientOp(n + 1)
           A == {PublishOp(id)}
           new == [i \in 1..Len(<<m>>) |-> [op |-> "publish", id |-> Len(asked) + i]]
           one == <<PublishOp(n + 1)>>
<1>1. n \in Nat /\ ops \in Seq(ClientOp(n))  BY LenProperties DEF ClientTypes
<1>2. ops \in Seq(T)
  <2>1. ClientOp(n) \subseteq T  BY <1>1, Grow
  <2>2. QED  BY <1>1, <2>1, SeqMonotonic
<1>3. PublishOp(n + 1) \in T  BY <1>1 DEF PublishOp, ClientOp
<1>4. new = one
  <2>1. Len(<<m>>) = 1  OBVIOUS
  <2>2. new = [i \in 1..1 |-> PublishOp(n + i)]  BY <2>1 DEF PublishOp
  <2>3. QED  BY <2>2
<1>5. PublishOp(n + 1) \in A <=> id = n + 1  BY DEF PublishOp
<1>6. ops' = IF Alive THEN ops \o one ELSE ops  BY <1>4 DEF Publish
<1>7. one \in Seq(T) /\ Count(one, A) = IF id = n + 1 THEN 1 ELSE 0
  <2> DEFINE e == PublishOp(n + 1)
  <2>1. e \in T /\ (e \in A <=> id = n + 1)  BY <1>3, <1>5
  <2> HIDE DEF e, A, T
  <2>2. <<e>> \in Seq(T) /\ Count(<<e>>, A) = IF e \in A THEN 1 ELSE 0  BY <2>1, CountOne
  <2>3. QED  BY <2>1, <2>2 DEF e
<1> HIDE DEF one, A, T, n
<1>8. Count(ops, A) \in Nat /\ Count(ops \o one, A) = Count(ops, A) + Count(one, A)
  BY <1>2, <1>7, CountConcat, CountIsNat
<1>9. Count(ops', A) <= Count(ops, A) + (IF id = n + 1 THEN 1 ELSE 0)
  BY <1>6, <1>7, <1>8
<1>10. QED  BY <1>9 DEF A, n

LEMMA NoMore ==
  ASSUME Types, AnsweredOnce, NEW id \in Nat, UNCHANGED crashes,
         Asked(id)' <= Asked(id), AnswersTo(id)' <= AnswersTo(id),
         Asked(id)' \in Int, AnswersTo(id)' \in Int
  PROVE  Asked(id)' <= 1 /\ AnswersTo(id)' <= 1 + crashes'
<1>1. Asked(id) <= 1 /\ AnswersTo(id) <= 1 + crashes  BY DEF AnsweredOnce
<1>2. Asked(id) \in Int /\ AnswersTo(id) \in Int /\ crashes \in Nat
  BY CountTypes DEF Asked, AnswersTo
<1>3. QED  BY <1>1, <1>2

LEMMA OnceAsked ==
  ASSUME Types, AnsweredOnce, Config \/ Request, NEW id \in Nat
  PROVE  Asked(id)' <= 1 /\ AnswersTo(id)' <= 1 + crashes'
<1>1. UNCHANGED <<requests, dbSends, responses, handed, crashes>>
  BY DEF Config, Request, dbVars
<1>2. CASE Config
  <2>1. PICK ms \in BoundedSeq(Metrics, MaxRequests) :
          ops' = <<[op |-> "declare"]>> \o Asks(ms)
    BY <1>2 DEF Config
  <2>2. Count(ops', {PublishOp(id)}) <= 1  BY <2>1, BoundedIsSeq, AsksOnce
  <2>3. Count(ops', {PublishOp(id)}) \in Nat
    <3>1. ms \in Seq(Metrics)  BY BoundedIsSeq
    <3>2. ops' \in Seq(ClientOp(Len(ms)))  BY <2>1, <3>1, AsksAll
    <3>3. QED  BY <3>2, CountIsNat
  <2>4. id \notin Ids  BY <1>2, EmptySeq DEF Config, Types, Idle, Ids
  <2>5. QED  BY <1>1, <2>2, <2>3, <2>4, NotAsked, CountTypes DEF Asked, AnswersTo
<1>3. CASE Request
  <2>1. PICK m \in Metrics : Publish(<<m>>)  BY <1>3 DEF Request
  <2>2. Count(ops', {PublishOp(id)}) <=
          Count(ops, {PublishOp(id)}) + (IF id = Len(asked) + 1 THEN 1 ELSE 0)
    BY <2>1, PublishOnce DEF Types
  <2>3. Len(asked) \in Nat /\ ops' \in Seq(ClientOp(Len(asked')))
    BY <2>1, PublishesNext DEF Types
  <2>4. Count(ops', {PublishOp(id)}) \in Nat  BY <2>3, CountIsNat
  <2>5. CASE id = Len(asked) + 1
    <3>1. id \notin Ids  BY <2>3, <2>5 DEF Ids
    <3>2. Count(ops', {PublishOp(id)}) <= 1  BY <2>2, <2>5, <3>1, NotAsked
    <3>3. /\ Count(requests, Entries(id)) = 0 /\ Count(requests, Open(id)) = 0
          /\ Count(dbSends, Replies(id)) = 0 /\ Count(responses, Answers(id)) = 0
          /\ Count(handed, AnswersGiven(id)) = 0 /\ crashes \in Nat
      BY <3>1, NotAsked, CountTypes
    <3>4. QED  BY <1>1, <2>4, <3>2, <3>3 DEF Asked, AnswersTo
  <2>6. CASE id # Len(asked) + 1
    <3>1. Count(ops', {PublishOp(id)}) <= Count(ops, {PublishOp(id)})
      BY <2>2, <2>6, CountTypes
    <3>2. /\ Asked(id)' <= Asked(id) /\ AnswersTo(id)' <= AnswersTo(id)
          /\ Asked(id)' \in Int /\ AnswersTo(id)' \in Int
      BY <1>1, <2>4, <3>1, CountTypes DEF Asked, AnswersTo
    <3>3. QED  BY <1>1, <3>2, NoMore
  <2>7. QED  BY <2>5, <2>6
<1>4. QED  BY <1>2, <1>3

\* The broker takes an operation of the client, or they go with the channel.
LEMMA OnceSent ==
  ASSUME Types, AnsweredOnce, DeclareOk \/ ConsumeOk \/ RequestSent, NEW id \in Nat
  PROVE  Asked(id)' <= 1 /\ AnswersTo(id)' <= 1 + crashes'
<1> DEFINE T == ClientOp(Len(asked))
           A == {PublishOp(id)}
<1>1. UNCHANGED <<dbSends, responses, handed, crashes>>
  BY DEF DeclareOk, ConsumeOk, RequestSent, dbVars
<1>2. ops \in Seq(T) /\ ops # <<>>
  BY DEF Types, ClientTypes, DeclareOk, ConsumeOk, RequestSent
<1>3. Tail(ops) \in Seq(T) /\ Head(ops) \in T  BY <1>2, HeadTailProperties
<1>4. /\ Count(ops, A) = Count(Tail(ops), A) + (IF Head(ops) \in A THEN 1 ELSE 0)
      /\ Count(Tail(ops), A) \in Nat
  <2> HIDE DEF T, A
  <2>1. QED  BY <1>2, <1>3, CountTail, CountIsNat
<1>5. CASE DeclareOk \/ ConsumeOk
  <2>1. Count(ops', A) = Count(Tail(ops), A)
    <3>1. CASE ops' = Tail(ops)  BY <3>1
    <3>2. CASE ops' = Append(Tail(ops), [op |-> "consume"])
      <4> DEFINE e == [op |-> "consume"]
      <4>1. e \in T  BY DEF ClientOp
      <4>2. e \notin A
        <5>1. PublishOp(id).op = "publish" /\ e.op = "consume"  BY DEF PublishOp
        <5>2. QED  BY <5>1
      <4> HIDE DEF e, A, T
      <4>3. Count(Append(Tail(ops), e), A) = Count(Tail(ops), A) + 0
        BY <1>3, <4>1, <4>2, CountAppend
      <4>4. QED  BY <1>4, <3>2, <4>3 DEF e
    <3>3. QED  BY <1>5, <3>1, <3>2 DEF DeclareOk, ConsumeOk
  <2>2. requests' = requests  BY <1>5 DEF DeclareOk, ConsumeOk
  <2> HIDE DEF A
  <2>3. Count(ops', A) <= Count(ops, A) /\ Count(ops', A) \in Nat  BY <1>4, <2>1
  <2>4. /\ Asked(id)' <= Asked(id) /\ AnswersTo(id)' <= AnswersTo(id)
        /\ Asked(id)' \in Int /\ AnswersTo(id)' \in Int
    BY <1>1, <2>2, <2>3, CountTypes DEF A, Asked, AnswersTo
  <2>5. QED  BY <1>1, <2>4, NoMore
<1>6. CASE RequestSent
  <2> DEFINE e == [id |-> Head(ops).id, unacked |-> FALSE]
             given == IF Head(ops).id = id THEN 1 ELSE 0
  <2>1. ops' = Tail(ops) /\ Head(ops).op = "publish"  BY <1>6 DEF RequestSent
  <2>2. Head(ops) \in A <=> Head(ops).id = id
    BY <1>3, <2>1 DEF ClientOp, PublishOp
  <2>3. Count(ops, A) = Count(ops', A) + given /\ Count(ops', A) \in Nat
    <3> HIDE DEF A
    <3>1. QED  BY <1>4, <2>1, <2>2
  <2>4. e \in Entry(Len(asked))  BY <1>3, <2>1 DEF ClientOp, Entry
  <2>5. (e \in Entries(id) <=> Head(ops).id = id) /\ (e \in Open(id) <=> Head(ops).id = id)
    BY DEF Entries, Open
  <2>6. requests' = Append(requests, e) \/ requests' = requests  BY <1>6 DEF RequestSent
  <2>7. requests \in Seq(Entry(Len(asked)))  BY DEF Types, BrokerTypes
  <2>8. \/ /\ Count(requests', Entries(id)) = Count(requests, Entries(id)) + given
           /\ Count(requests', Open(id)) = Count(requests, Open(id)) + given
        \/ requests' = requests
    <3> HIDE DEF e
    <3>1. /\ Count(Append(requests, e), Entries(id)) = Count(requests, Entries(id)) + given
          /\ Count(Append(requests, e), Open(id)) = Count(requests, Open(id)) + given
      BY <2>4, <2>5, <2>7, CountAppend
    <3>2. QED  BY <2>6, <3>1
  <2> HIDE DEF A
  <2>9. given \in Nat  OBVIOUS
  <2> HIDE DEF given
  <2>10. Asked(id)' <= Asked(id) /\ AnswersTo(id)' <= AnswersTo(id)
    <3>1. CASE requests' = requests
      BY <1>1, <2>3, <2>9, <3>1, CountTypes DEF A, Asked, AnswersTo
    <3>2. CASE /\ Count(requests', Entries(id)) = Count(requests, Entries(id)) + given
               /\ Count(requests', Open(id)) = Count(requests, Open(id)) + given
      BY <1>1, <2>3, <2>9, <3>2, CountTypes DEF A, Asked, AnswersTo
    <3>3. QED  BY <2>8, <3>1, <3>2
  <2>11. Asked(id)' \in Int /\ AnswersTo(id)' \in Int
    <3>1. /\ Count(ops, {PublishOp(id)}) \in Nat /\ Count(requests, Entries(id)) \in Nat
          /\ Count(requests, Open(id)) \in Nat /\ Count(dbSends, Replies(id)) \in Nat
          /\ Count(responses, Answers(id)) \in Nat /\ Count(handed, AnswersGiven(id)) \in Nat
      BY CountTypes
    <3>2. Count(requests', Entries(id)) \in Int /\ Count(requests', Open(id)) \in Int
      BY <2>8, <2>9, <3>1
    <3>3. QED  BY <1>1, <2>3, <3>1, <3>2 DEF A, Asked, AnswersTo
  <2>12. QED  BY <1>1, <2>10, <2>11, NoMore
<1>7. QED  BY <1>5, <1>6

LEMMA OnceClosed ==
  ASSUME Types, AnsweredOnce, NEW id \in Nat, ops' = <<>> \/ ops' = ops,
         UNCHANGED <<requests, dbSends, responses, handed, crashes>>
  PROVE  Asked(id)' <= 1 /\ AnswersTo(id)' <= 1 + crashes'
<1>1. Count(ops', {PublishOp(id)}) \in {0, Count(ops, {PublishOp(id)})}
  <2>1. CASE ops' = <<>>
    <3>1. Places(ops', {PublishOp(id)}) = {}  BY <2>1, EmptySeq DEF Places
    <3>2. QED  BY <3>1, FS_EmptySet DEF Count
  <2>2. QED  BY <2>1
<1>2. /\ Count(ops', {PublishOp(id)}) <= Count(ops, {PublishOp(id)})
      /\ Count(ops', {PublishOp(id)}) \in Nat
  BY <1>1, CountTypes
<1>3. /\ Count(ops, {PublishOp(id)}) \in Nat /\ Count(requests, Entries(id)) \in Nat
      /\ Count(requests, Open(id)) \in Nat /\ Count(dbSends, Replies(id)) \in Nat
      /\ Count(responses, Answers(id)) \in Nat /\ Count(handed, AnswersGiven(id)) \in Nat
  BY CountTypes
<1>4. /\ Asked(id)' <= Asked(id) /\ AnswersTo(id)' <= AnswersTo(id)
      /\ Asked(id)' \in Int /\ AnswersTo(id)' \in Int
  BY <1>2, <1>3 DEF Asked, AnswersTo
<1>5. QED  BY <1>4, NoMore

\* A response is handed over.
LEMMA OnceHanded ==
  ASSUME Types, AnsweredOnce, Response, NEW id \in Nat
  PROVE  Asked(id)' <= 1 /\ AnswersTo(id)' <= 1 + crashes'
<1> DEFINE r == Head(responses)
           h == Handed(r)
           A == Answers(id)
           G == AnswersGiven(id)
           n == Len(asked)
           given == IF r \in A THEN 1 ELSE 0
<1>1. UNCHANGED <<ops, requests, dbSends, crashes>>  BY DEF Response, dbVars
<1>2. /\ responses \in Seq(Answer(n)) /\ responses # <<>> /\ handed \in Seq(Given(n))
      /\ responses' = Tail(responses) /\ handed' = Append(handed, h)
  BY DEF Response, Types, ClientTypes, BrokerTypes
<1>3. r \in Answer(n) /\ Tail(responses) \in Seq(Answer(n))  BY <1>2, HeadTailProperties
<1>4. h \in Given(n) /\ (h \in G => r \in A)
  <2> HIDE DEF r
  <2>1. h.id = r.id  BY DEF Handed
  <2>2. \A g \in G : g.id = id  BY DEF AnswersGiven, Answers, Handed
  <2>3. r.id = id => r \in A  BY <1>3 DEF Answer, Answers
  <2>4. QED  BY <1>3, <2>1, <2>2, <2>3 DEF Given
<1>5. /\ Count(responses, A) = Count(responses', A) + given
      /\ Count(responses', A) \in Nat /\ given \in Nat
  <2> HIDE DEF A, r
  <2>1. Count(responses, A) = Count(Tail(responses), A) + (IF Head(responses) \in A THEN 1 ELSE 0)
    BY <1>2, CountTail
  <2>2. QED  BY <1>2, <1>3, <2>1, CountIsNat DEF r
<1>6. Count(handed', G) <= Count(handed, G) + given /\ Count(handed', G) \in Nat
  <2> HIDE DEF h, G, A, r
  <2>1. Count(Append(handed, h), G) = Count(handed, G) + (IF h \in G THEN 1 ELSE 0)
    BY <1>2, <1>4, CountAppend
  <2>2. Count(handed, G) \in Nat  BY <1>2, CountIsNat
  <2>3. QED  BY <1>2, <1>4, <2>1, <2>2
<1> HIDE DEF given
<1>7. /\ Count(ops, {PublishOp(id)}) \in Nat /\ Count(requests, Entries(id)) \in Nat
      /\ Count(requests, Open(id)) \in Nat /\ Count(dbSends, Replies(id)) \in Nat
      /\ Count(responses, Answers(id)) \in Nat /\ Count(handed, AnswersGiven(id)) \in Nat
  BY CountTypes
<1>8. /\ Asked(id)' <= Asked(id) /\ AnswersTo(id)' <= AnswersTo(id)
      /\ Asked(id)' \in Int /\ AnswersTo(id)' \in Int
  BY <1>1, <1>5, <1>6, <1>7 DEF Asked, AnswersTo
<1>9. QED  BY <1>1, <1>8, NoMore

\* The database answers a request that waits.
LEMMA OnceOnHistory ==
  ASSUME Types, AnsweredOnce, OnHistory, NEW id \in Nat
  PROVE  Asked(id)' <= 1 /\ AnswersTo(id)' <= 1 + crashes'
<1>1. UNCHANGED <<ops, responses, handed, crashes>>  BY DEF OnHistory, clientVars
<1>2. PICK i \in Waiting :
        /\ \E body \in Responses(asked[requests[i].id]) :
             dbSends' = dbSends \o Sends(requests[i].id, body)
        /\ requests' = [requests EXCEPT ![i].unacked = TRUE]
  BY DEF OnHistory
<1>3. PICK body \in Responses(asked[requests[i].id]) :
        dbSends' = dbSends \o Sends(requests[i].id, body)
  BY <1>2
<1> DEFINE n == Len(asked)
           T == Message(n)
           r == Reply(requests[i].id, body)
           a == Ack(requests[i].id)
           given == IF requests[i].id = id THEN 1 ELSE 0
           P == Replies(id)
<1>4. /\ i \in 1..Len(requests) /\ requests[i] \in Entry(n) /\ requests[i].unacked = FALSE
      /\ requests \in Seq(Entry(n)) /\ Len(requests) \in Nat
      /\ DOMAIN requests = 1..Len(requests)
      /\ \A k \in 1..Len(requests) : requests[k] \in Entry(n)
  <2>1. requests \in Seq(Entry(n)) /\ i \in 1..Len(requests) /\ ~requests[i].unacked
    BY DEF Waiting, Types, BrokerTypes
  <2>2. /\ Len(requests) \in Nat /\ DOMAIN requests = 1..Len(requests)
        /\ \A k \in 1..Len(requests) : requests[k] \in Entry(n)
    BY <2>1, ElementOfSeq, LenProperties
  <2>3. requests[i].unacked = FALSE  BY <2>1, <2>2 DEF Entry
  <2>4. QED  BY <2>1, <2>2, <2>3
<1>5. Count(dbSends', P) = Count(dbSends, P) + given
  <2>1. r \in T /\ a \in T  BY <1>4, RequestHasBodies
  <2>2. (r \in P => requests[i].id = id) /\ (requests[i].id = id => r \in P) /\ a \notin P
    <3>1. body \in Bodies  BY <1>4, RequestHasBodies
    <3>2. a.type = "ack" /\ \A x \in P : x.type = "reply"  BY DEF Ack, Replies
    <3>3. QED  BY <3>1, <3>2 DEF Reply, Replies
  <2>3. dbSends' = (dbSends \o <<r>>) \o <<a>> /\ dbSends \in Seq(T)
    <3>1. dbSends' = dbSends \o <<r, a>> /\ dbSends \in Seq(T)
      BY <1>3 DEF Sends, Types, BrokerTypes
    <3> HIDE DEF r, a, T
    <3>2. <<r, a>> = <<r>> \o <<a>> /\ <<r>> \in Seq(T) /\ <<a>> \in Seq(T)
      <4>1. <<r>> \in Seq(T) /\ <<a>> \in Seq(T)  BY <2>1
      <4>2. QED  BY <2>1, <4>1, PairIsConcat
    <3>3. dbSends \o (<<r>> \o <<a>>) = (dbSends \o <<r>>) \o <<a>>
      BY <3>1, <3>2, ConcatAssociative
    <3>4. QED  BY <3>1, <3>2, <3>3
  <2> HIDE DEF r, a, T, P
  <2>4. dbSends' = Append(Append(dbSends, r), a)
    <3>1. Append(dbSends, r) = dbSends \o <<r>> /\ Append(dbSends, r) \in Seq(T)
      BY <2>1, <2>3, AppendIsConcat, AppendProperties
    <3>2. Append(Append(dbSends, r), a) = Append(dbSends, r) \o <<a>>
      BY <2>1, <3>1, AppendIsConcat
    <3>3. QED  BY <2>3, <3>1, <3>2
  <2>5. /\ Append(dbSends, r) \in Seq(T)
        /\ Count(Append(dbSends, r), P) = Count(dbSends, P) + given
    BY <2>1, <2>2, <2>3, AppendProperties, CountAppend
  <2> DEFINE half == Append(dbSends, r)
  <2>6. half \in Seq(T) /\ Count(half, P) = Count(dbSends, P) + given  BY <2>5
  <2>7. dbSends' = Append(half, a)  BY <2>4
  <2> HIDE DEF half
  <2>8. Count(Append(half, a), P) = Count(half, P) + 0  BY <2>1, <2>2, <2>6, CountAppend
  <2>9. Count(half, P) \in Nat  BY <2>6, CountIsNat
  <2>10. QED  BY <2>6, <2>7, <2>8, <2>9
<1>6. /\ Len(requests') = Len(requests)
      /\ \A k \in 1..Len(requests) :
           requests'[k] = IF k = i THEN [requests[i] EXCEPT !.unacked = TRUE] ELSE requests[k]
  <2>1. [requests[i] EXCEPT !.unacked = TRUE] \in Entry(n)  BY <1>4 DEF Entry
  <2>2. Len(requests') = Len(requests)  BY <1>2, <1>4, <2>1, ExceptSeq
  <2>3. QED  BY <1>2, <1>4, <2>2
<1>7. Count(requests', Entries(id)) = Count(requests, Entries(id))
  <2>1. \A k \in 1..Len(requests) : requests'[k] \in Entries(id) <=> requests[k] \in Entries(id)
    BY <1>4, <1>6 DEF Entry, Entries
  <2>2. Places(requests', Entries(id)) = Places(requests, Entries(id))
    BY <1>6, <2>1 DEF Places
  <2>3. QED  BY <2>2 DEF Count
<1>8. /\ Count(requests, Open(id)) = Count(requests', Open(id)) + given
      /\ Count(requests', Open(id)) \in Nat
  <2>1. \A k \in 1..Len(requests) :
          requests'[k] \in Open(id) <=> requests[k] \in Open(id) /\ k # i
    BY <1>4, <1>6 DEF Entry, Open
  <2>2. i \in Places(requests, Open(id)) <=> requests[i].id = id
    BY <1>4 DEF Places, Entry, Open
  <2>3. Places(requests', Open(id)) = Places(requests, Open(id)) \ {i}
    BY <1>6, <2>1 DEF Places
  <2>4. IsFiniteSet(Places(requests, Open(id))) /\ Count(requests, Open(id)) \in Nat
    BY <1>4, CountIsNat
  <2>5. Count(requests', Open(id)) =
          IF requests[i].id = id THEN Count(requests, Open(id)) - 1 ELSE Count(requests, Open(id))
    BY <2>2, <2>3, <2>4, FS_RemoveElement DEF Count
  <2>6. Count(requests', Open(id)) \in Nat
    <3>1. IsFiniteSet(Places(requests', Open(id)))  BY <2>3, <2>4, FS_RemoveElement
    <3>2. QED  BY <3>1, FS_CardinalityType DEF Count
  <2>7. QED  BY <2>4, <2>5, <2>6
<1>9. given \in Nat  OBVIOUS
<1> HIDE DEF given
<1>10. /\ Count(ops, {PublishOp(id)}) \in Nat /\ Count(requests, Entries(id)) \in Nat
       /\ Count(requests, Open(id)) \in Nat /\ Count(dbSends, Replies(id)) \in Nat
       /\ Count(responses, Answers(id)) \in Nat /\ Count(handed, AnswersGiven(id)) \in Nat
  BY CountTypes
<1>11. /\ Asked(id)' <= Asked(id) /\ AnswersTo(id)' <= AnswersTo(id)
       /\ Asked(id)' \in Int /\ AnswersTo(id)' \in Int
  BY <1>1, <1>5, <1>7, <1>8, <1>9, <1>10 DEF Asked, AnswersTo
<1>12. QED  BY <1>1, <1>11, NoMore

\* The broker receives a reply or an acknowledgement.
LEMMA OnceRouted ==
  ASSUME Types, AnsweredOnce, ReplyRouted \/ AckReceived, NEW id \in Nat
  PROVE  Asked(id)' <= 1 /\ AnswersTo(id)' <= 1 + crashes'
<1> DEFINE n == Len(asked)
           x == Head(dbSends)
           P == Replies(id)
           A == Answers(id)
           given == IF x \in P THEN 1 ELSE 0
<1>1. UNCHANGED <<ops, handed, crashes>> /\ dbSends # <<>> /\ dbSends' = Tail(dbSends)
  BY DEF ReplyRouted, AckReceived, clientVars
<1>2. dbSends \in Seq(Message(n)) /\ x \in Message(n) /\ dbSends' \in Seq(Message(n))
  BY <1>1, HeadTailProperties DEF Types, BrokerTypes
<1>3. /\ Count(dbSends, P) = Count(dbSends', P) + given
      /\ Count(dbSends', P) \in Nat /\ given \in Nat
  <2> HIDE DEF P, x
  <2>1. Count(dbSends, P) = Count(Tail(dbSends), P) + (IF Head(dbSends) \in P THEN 1 ELSE 0)
    BY <1>1, <1>2, CountTail
  <2>2. QED  BY <1>1, <1>2, <2>1, CountIsNat DEF x
<1>4. /\ Count(ops, {PublishOp(id)}) \in Nat /\ Count(requests, Entries(id)) \in Nat
      /\ Count(requests, Open(id)) \in Nat /\ Count(dbSends, Replies(id)) \in Nat
      /\ Count(responses, Answers(id)) \in Nat /\ Count(handed, AnswersGiven(id)) \in Nat
  BY CountTypes
<1>5. CASE ReplyRouted
  <2> DEFINE e == [id |-> x.id, body |-> x.body]
  <2>1. e \in Answer(n) /\ (e \in A => x \in P)
    BY <1>2, <1>5 DEF ReplyRouted, Message, Answer, Answers, Replies
  <2>2. /\ responses' = Append(responses, e) /\ requests' = requests
        /\ responses \in Seq(Answer(n))
    BY <1>5 DEF ReplyRouted, Types, BrokerTypes
  <2>3. Count(responses', A) <= Count(responses, A) + given /\ Count(responses', A) \in Nat
    <3> HIDE DEF e, A, P, x
    <3>1. Count(Append(responses, e), A) = Count(responses, A) + (IF e \in A THEN 1 ELSE 0)
      BY <2>1, <2>2, CountAppend
    <3>2. Count(responses, A) \in Nat  BY <2>2, CountIsNat
    <3>3. QED  BY <2>1, <2>2, <3>1, <3>2
  <2>4. /\ Asked(id)' <= Asked(id) /\ AnswersTo(id)' <= AnswersTo(id)
        /\ Asked(id)' \in Int /\ AnswersTo(id)' \in Int
    <3>1. UNCHANGED <<ops, handed, requests>>  BY <1>1, <2>2
    <3>2. /\ Count(dbSends, Replies(id)) = Count(dbSends', Replies(id)) + given
          /\ Count(dbSends', Replies(id)) \in Nat /\ given \in Nat
          /\ Count(responses', Answers(id)) <= Count(responses, Answers(id)) + given
          /\ Count(responses', Answers(id)) \in Nat
      BY <1>3, <2>3
    <3> HIDE DEF given
    <3>3. QED  BY <3>1, <3>2, <1>4 DEF Asked, AnswersTo
  <2>5. QED  BY <1>1, <2>4, NoMore
<1>6. CASE AckReceived
  <2>1. PICK i \in 1..Len(requests) : requests' = RemoveAt(requests, i)
    BY <1>6 DEF AckReceived
  <2>2. responses' = responses /\ requests \in Seq(Entry(n)) /\ requests' \in Seq(Entry(n))
    BY <1>6, <2>1, InRemoveAt DEF AckReceived, Types, BrokerTypes
  <2>3. /\ Count(requests', Entries(id)) <= Count(requests, Entries(id))
        /\ Count(requests', Open(id)) <= Count(requests, Open(id))
    BY <2>1, <2>2, CountRemoveAt
  <2>4. Count(requests', Entries(id)) \in Nat /\ Count(requests', Open(id)) \in Nat
    BY <2>2, CountIsNat
  <2>5. /\ Asked(id)' <= Asked(id) /\ AnswersTo(id)' <= AnswersTo(id)
        /\ Asked(id)' \in Int /\ AnswersTo(id)' \in Int
    <3>1. UNCHANGED <<ops, handed, responses>>  BY <1>1, <2>2
    <3>2. /\ Count(dbSends, Replies(id)) = Count(dbSends', Replies(id)) + given
          /\ Count(dbSends', Replies(id)) \in Nat /\ given \in Nat
      BY <1>3
    <3> HIDE DEF given
    <3>3. Asked(id)' <= Asked(id) /\ Asked(id)' \in Int  BY <3>1, <1>4, <2>3, <2>4 DEF Asked
    <3>4. AnswersTo(id)' <= AnswersTo(id) /\ AnswersTo(id)' \in Int
      <4> DEFINE a == Count(ops, {PublishOp(id)})
                 b == Count(requests, Open(id))
                 c == Count(dbSends, Replies(id))
                 d == Count(responses, Answers(id))
                 e == Count(handed, AnswersGiven(id))
                 b1 == Count(requests', Open(id))
                 c1 == Count(dbSends', Replies(id))
      <4>1. AnswersTo(id) = a + b + c + d + e  BY DEF AnswersTo
      <4>2. AnswersTo(id)' = a + b1 + c1 + d + e  BY <3>1 DEF AnswersTo
      <4>3. /\ a \in Nat /\ b \in Nat /\ c \in Nat /\ d \in Nat /\ e \in Nat
            /\ b1 \in Nat /\ c1 \in Nat /\ b1 <= b /\ c1 <= c
        <5>1. c = c1 + given /\ c1 \in Nat /\ given \in Nat  BY <3>2
        <5> HIDE DEF c, c1
        <5>2. c \in Nat /\ c1 <= c  BY <5>1
        <5>3. QED  BY <1>4, <2>3, <2>4, <5>1, <5>2
      <4> HIDE DEF a, b, c, d, e, b1, c1
      <4>4. QED  BY <4>1, <4>2, <4>3
    <3>5. QED  BY <3>3, <3>4
  <2>6. QED  BY <1>1, <2>5, NoMore
<1>7. QED  BY <1>5, <1>6

\* A crash may make a request that was answered wait again, but it is one request.
LEMMA OnceCrash ==
  ASSUME Types, AnsweredOnce, Crash, NEW id \in Nat
  PROVE  Asked(id)' <= 1 /\ AnswersTo(id)' <= 1 + crashes'
<1>1. UNCHANGED <<ops, responses, handed>> /\ crashes' = crashes + 1 /\ dbSends' = <<>>
  BY DEF Crash, clientVars
<1>2. Asked(id) <= 1 /\ AnswersTo(id) <= 1 + crashes  BY DEF AnsweredOnce
<1>3. /\ Count(ops, {PublishOp(id)}) \in Nat /\ Count(requests, Entries(id)) \in Nat
      /\ Count(requests, Open(id)) \in Nat /\ Count(dbSends, Replies(id)) \in Nat
      /\ Count(responses, Answers(id)) \in Nat /\ Count(handed, AnswersGiven(id)) \in Nat
      /\ crashes \in Nat
  BY CountTypes
<1>4. Count(dbSends', Replies(id)) = 0
  <2>1. Places(dbSends', Replies(id)) = {}  BY <1>1, EmptySeq DEF Places
  <2>2. QED  BY <2>1, FS_EmptySet DEF Count
<1>5. /\ Count(requests', Entries(id)) = Count(requests, Entries(id))
      /\ Count(requests', Open(id)) = Count(requests, Entries(id))
  <2>1. /\ Len(requests') = Len(requests)
        /\ \A i \in 1..Len(requests) :
             /\ requests[i] \in Entry(Len(asked)) /\ requests'[i] \in Entry(Len(asked))
             /\ requests'[i].id = requests[i].id /\ ~requests'[i].unacked
    BY Reoffered, ElementOfSeq DEF Types, BrokerTypes
  <2>2. \A i \in 1..Len(requests) :
          /\ requests'[i] \in Entries(id) <=> requests[i] \in Entries(id)
          /\ requests'[i] \in Open(id) <=> requests[i] \in Entries(id)
    BY <2>1 DEF Entry, Entries, Open
  <2>3. /\ Places(requests', Entries(id)) = Places(requests, Entries(id))
        /\ Places(requests', Open(id)) = Places(requests, Entries(id))
    BY <2>1, <2>2 DEF Places
  <2>4. QED  BY <2>3 DEF Count
<1>6. Asked(id)' <= 1  BY <1>1, <1>2, <1>5 DEF Asked
<1>7. AnswersTo(id)' <= AnswersTo(id) + 1
  <2>1. Count(requests, Entries(id)) <= 1  BY <1>2, <1>3 DEF Asked
  <2>2. QED  BY <1>1, <1>3, <1>4, <1>5, <2>1 DEF AnswersTo
<1>8. AnswersTo(id) \in Int /\ AnswersTo(id)' \in Int
  BY <1>1, <1>3, <1>4, <1>5 DEF AnswersTo
<1>9. QED  BY <1>1, <1>2, <1>3, <1>6, <1>7, <1>8

LEMMA OnceNext ==
  ASSUME Types, AnsweredOnce, [Next]_vars
  PROVE  AnsweredOnce'
<1>1. SUFFICES ASSUME NEW id \in Nat
               PROVE  Asked(id)' <= 1 /\ AnswersTo(id)' <= 1 + crashes'
  BY DEF AnsweredOnce, Asked, AnswersTo
<1>2. CASE /\ UNCHANGED <<requests, dbSends, responses, handed, crashes>>
           /\ ops' = <<>> \/ ops' = ops
  BY <1>2, OnceClosed
<1>3. \/ Config \/ Request \/ DeclareOk \/ ConsumeOk \/ RequestSent \/ Response \/ OnHistory
      \/ ReplyRouted \/ AckReceived \/ Crash
      \/ /\ UNCHANGED <<requests, dbSends, responses, handed, crashes>>
         /\ ops' = <<>> \/ ops' = ops
  BY DEF Next, ClientNext, DbNext, ChannelReady, Close, Closed, ChannelFails, Restart, vars,
     clientVars, dbVars
<1>4. QED
  BY <1>2, <1>3, OnceAsked, OnceSent, OnceHanded, OnceOnHistory, OnceRouted, OnceCrash

LEMMA InitOnce == Init => AnsweredOnce
<1>1. SUFFICES ASSUME Init, NEW id \in Nat
      PROVE  Asked(id) <= 1 /\ AnswersTo(id) <= 1 + crashes
  BY DEF AnsweredOnce
<1>2. Types  BY <1>1, InitTypes
<1>3. id \notin Ids  BY <1>1, EmptySeq DEF Init, Ids
<1>4. QED  BY <1>1, <1>2, <1>3, NotAsked DEF Init, Asked, AnswersTo

LEMMA OnceIsOnce ==
  ASSUME Types, AnsweredOnce
  PROVE  DuplicatesNeedCrash
<1>1. SUFFICES ASSUME NEW id \in Ids
      PROVE  Cardinality({i \in 1..Len(handed) : handed[i].id = id}) <= 1 + crashes
  BY DEF DuplicatesNeedCrash
<1>2. id \in Nat  BY DEF Ids
<1>3. \A i \in 1..Len(handed) : handed[i].id = id <=> handed[i] \in AnswersGiven(id)
  <2>1. \A i \in 1..Len(handed) : handed[i] \in Given(Len(asked))
    BY ElementOfSeq DEF Types, ClientTypes
  <2>2. \A h \in AnswersGiven(id) : h.id = id  BY DEF AnswersGiven, Answers, Handed
  <2>3. ASSUME NEW h \in Given(Len(asked)), h.id = id PROVE h \in AnswersGiven(id)
    <3>1. PICK r \in Answer(Len(asked)) : h = Handed(r)  BY <2>3 DEF Given
    <3>2. r.id = id  BY <2>3, <3>1 DEF Handed
    <3>3. r \in Answers(id)  BY <3>1, <3>2 DEF Answer, Answers
    <3>4. QED  BY <3>1, <3>3 DEF AnswersGiven
  <2>4. QED  BY <2>1, <2>2, <2>3
<1>4. {i \in 1..Len(handed) : handed[i].id = id} = Places(handed, AnswersGiven(id))
  BY <1>3 DEF Places
<1>5. Count(handed, AnswersGiven(id)) <= 1 + crashes
  <2>1. AnswersTo(id) <= 1 + crashes  BY <1>2 DEF AnsweredOnce
  <2>2. /\ Count(ops, {PublishOp(id)}) \in Nat
        /\ Count(requests, Open(id)) \in Nat /\ Count(dbSends, Replies(id)) \in Nat
        /\ Count(responses, Answers(id)) \in Nat /\ Count(handed, AnswersGiven(id)) \in Nat
        /\ crashes \in Nat
    BY CountTypes
  <2>3. QED  BY <2>1, <2>2 DEF AnswersTo
<1>6. QED  BY <1>4, <1>5 DEF Count

-----------------------------------------------------------------------------
(***************************************************************************)
(* The theorems                                                            *)
(***************************************************************************)
IInv ==
  /\ ClientTypes /\ BrokerTypes /\ Idle
  /\ AckBehindReply /\ NoRequestLost /\ Truth /\ AnsweredOnce

LEMMA HistoryInvariant == Spec => []IInv
<1>1. Init => IInv
  <2>1. SUFFICES ASSUME Init PROVE IInv  OBVIOUS
  <2>2. AckBehindReply  BY <2>1, EmptySeq DEF Init, AckBehindReply
  <2>3. NoRequestLost  BY <2>1 DEF Init, NoRequestLost, Alive
  <2>4. QED  BY <2>1, <2>2, <2>3, InitTypes, InitTruth, InitOnce DEF IInv, Types
<1>2. IInv /\ [Next]_vars => IInv'
  <2>1. SUFFICES ASSUME IInv, [Next]_vars PROVE IInv'  OBVIOUS
  <2>2. Types /\ AckBehindReply /\ NoRequestLost /\ Truth /\ AnsweredOnce
    BY <2>1 DEF IInv, Types
  <2>3. Types'  BY <2>1, <2>2, NextTypes
  <2>4. AckBehindReply' /\ NoRequestLost'  BY <2>1, <2>2, AckNext, LostNext
  <2>5. Truth' /\ AnsweredOnce'  BY <2>1, <2>2, TruthNext, OnceNext
  <2>6. QED  BY <2>3, <2>4, <2>5 DEF IInv, Types
<1>3. QED  BY <1>1, <1>2, PTL DEF Spec

\* Type correctness of the client, the broker's queues and the database: all that is
\* on its way belongs to a request that was made.
THEOREM HistoryTypeCorrect == Spec => []TypeOK
<1>1. IInv => TypeOK
  <2>1. SUFFICES ASSUME IInv PROVE TypeOK  OBVIOUS
  <2> DEFINE n == Len(asked)
  <2>2. \A i \in 1..Len(ops) : ops[i] \in ClientOp(n)
    BY <2>1, ElementOfSeq DEF IInv, ClientTypes
  <2>3. \A i \in 1..Len(dbSends) : dbSends[i] \in Message(n)
    BY <2>1, ElementOfSeq DEF IInv, BrokerTypes
  <2>4. \A i \in 1..Len(responses) : responses[i] \in Answer(n)
    BY <2>1, ElementOfSeq DEF IInv, BrokerTypes
  <2>5. \A i \in 1..Len(handed) : handed[i] \in Given(n)
    BY <2>1, ElementOfSeq DEF IInv, ClientTypes
  <2>6. \A r \in Answer(n) : Handed(r).id \in Ids /\ Handed(r).kind \in Kinds
    BY DEF Handed, Answer, Ids, Kinds
  <2>7. /\ \A i \in 1..Len(ops) :
             /\ ops[i].op \in {"declare", "consume", "publish"}
             /\ ops[i].op = "publish" => ops[i].id \in Ids
        /\ \A i \in 1..Len(dbSends) :
             dbSends[i].type \in {"reply", "ack"} /\ dbSends[i].id \in Ids
        /\ \A i \in 1..Len(responses) : responses[i].id \in Ids
    BY <2>2, <2>3, <2>4 DEF ClientOp, Message, Answer, Ids
  <2>8. \A i \in 1..Len(handed) : handed[i].id \in Ids /\ handed[i].kind \in Kinds
    BY <2>5, <2>6 DEF Given
  <2>9. requests \in Seq([id : Ids, unacked : BOOLEAN])
    BY <2>1 DEF IInv, BrokerTypes, Entry, Ids
  <2>10. Len(asked) <= MaxRequests
    BY <2>1, HistoryAssumption DEF IInv, ClientTypes
  <2>11. QED
    BY <2>1, <2>7, <2>8, <2>9, <2>10
       DEF IInv, ClientTypes, BrokerTypes, Idle, TypeOK
<1>2. QED  BY <1>1, HistoryInvariant, PTL

\* A request for a stored metric is not lost while the client's channel works, however
\* often the database crashes: Db::on_history acknowledges behind its response, and
\* HistoryClient consumes its queue with all that came meanwhile.
THEOREM HistoryNothingLost == Spec => []NoRequestLost
<1>1. IInv => NoRequestLost  BY DEF IInv
<1>2. QED  BY <1>1, HistoryInvariant, PTL

\* What HistoryClient hands over answers the request it is handed for: the callback's
\* metric is the one asked for, the times are those Db's deltas were made from, the
\* values are the stored ones, and a mean is between its minimum and its maximum.
THEOREM HistoryTrueAnswers == Spec => []TrueAnswers
<1>1. IInv => TrueAnswers  BY TruthIsTrue DEF IInv
<1>2. QED  BY <1>1, HistoryInvariant, PTL

\* A second answer to a request takes a crash of the database between its response and
\* its acknowledgement: without one, Db::on_history and HistoryClient::on_history_response
\* handle each message once.
THEOREM HistoryAnswersOnce == Spec => []DuplicatesNeedCrash
<1>1. IInv => DuplicatesNeedCrash  BY OnceIsOnce DEF IInv, Types
<1>2. QED  BY <1>1, HistoryInvariant, PTL
=============================================================================
