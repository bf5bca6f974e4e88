--------------------------------- MODULE Producer ---------------------------------
(***************************************************************************)
(* What a source or transformer does to publish data: class Metric         *)
(* (include/metricq/metric.hpp), which collects values into a chunk with   *)
(* delta-encoded timestamps, and send() of Source and Transformer.  An     *)
(* "app" calls these in any order; a "dummy" sends a chunk each time its   *)
(* timer fires, as DummySource and StressTestSource do.                    *)
(*                                                                         *)
(* A row is a time and a value of a metric.  The rows that will be sent    *)
(* are fixed at the beginning; outbox is what was published and has not    *)
(* reached the exchange.                                                   *)
(***************************************************************************)
EXTENDS Integers, Sequences, SequencesExt

CONSTANTS
  Metrics,        \* names of metrics
  AppRows,        \* what an application may have to send: sequences of rows
  DummyRows,      \* what a dummy source may have to send
  PerChunk,       \* rows the dummy source sends in a tick
  ChunkSizes      \* arguments of chunk_size()

Row == [metric : Metrics, time : Nat, value : Int]

ASSUME ProducerAssumption ==
  /\ AppRows \subseteq Seq(Row)
  /\ \A rows \in DummyRows :
       /\ rows \in Seq(Row) /\ Len(rows) % PerChunk = 0
       /\ \A i, j \in 1..Len(rows) : rows[i].metric = rows[j].metric
  /\ ChunkSizes \subseteq Nat /\ PerChunk \in Nat \ {0}

VARIABLES
  producer,   \* "app" or "dummy"
  todo,       \* the rows not sent yet
  chunk,      \* chunk_ of each metric
  previous,   \* previous_timestamp_
  chunkSize,  \* chunk_size_
  buffered,   \* history: the rows given to send() since the last flush
  resized,    \* history: chunk_size() was called while the chunk was not empty
  ticking,    \* the timer of a dummy source runs
  stopped,    \* stop() of a dummy source: "no", "requested", "yes"
  outbox      \* published: records of a metric, a chunk and, as history, its rows

metricVars == <<chunk, previous, chunkSize, buffered, resized>>
producerVars == <<producer, todo, metricVars, ticking, stopped, outbox>>

ProducerInit ==
  /\ \/ producer = "app" /\ todo \in AppRows
     \/ producer = "dummy" /\ todo \in DummyRows
  /\ chunk = [m \in Metrics |-> <<>>] /\ previous = [m \in Metrics |-> 0]
  /\ chunkSize = [m \in Metrics |-> 1]
  /\ buffered = [m \in Metrics |-> <<>>] /\ resized = [m \in Metrics |-> FALSE]
  /\ ticking = FALSE /\ stopped = "no" /\ outbox = <<>>

-----------------------------------------------------------------------------
(***************************************************************************)
(* Chunks                                                                  *)
(***************************************************************************)
\* Mutant of Encode: every delta is a time.
EncodeTimes(rows, before) ==
  [i \in 1..Len(rows) |-> [delta |-> rows[i].time, value |-> rows[i].value]]

\* The loop of sends in a tick: deltas to the time of the row before.
Encode(rows, before) ==
  [i \in 1..Len(rows) |->
     [delta |-> rows[i].time - (IF i = 1 THEN before ELSE rows[i - 1].time),
      value |-> rows[i].value]]

\* DataChunkIter: the timestamp is the sum of the deltas, from 0.
Decode(m, dc) ==
  LET timestamp[i \in 0..Len(dc)] == IF i = 0 THEN 0 ELSE timestamp[i - 1] + dc[i].delta
  IN  [i \in 1..Len(dc) |-> [metric |-> m, time |-> timestamp[i], value |-> dc[i].value]]

\* TimeValue::operator DataChunk(): a chunk of one row.
OneRow(row) == <<[delta |-> row.time, value |-> row.value]>>

-----------------------------------------------------------------------------
(***************************************************************************)
(* Metric                                                                  *)
(***************************************************************************)
\* Source::send() and Transformer::send(): publish to the exchange.
Publish(m, dc, rows) ==
  outbox' = Append(outbox, [metric |-> m, chunk |-> dc, rows |-> rows])

\* Mutant of Reset: the time of the last row is kept.
ResetChunk(m) ==
  /\ chunk' = [chunk EXCEPT ![m] = <<>>]
  /\ buffered' = [buffered EXCEPT ![m] = <<>>]
  /\ resized' = [resized EXCEPT ![m] = FALSE]
  /\ UNCHANGED previous

\* Metric::flush(), after it has sent the chunk.
Reset(m) ==
  /\ chunk' = [chunk EXCEPT ![m] = <<>>] /\ previous' = [previous EXCEPT ![m] = 0]
  /\ buffered' = [buffered EXCEPT ![m] = <<>>]
  /\ resized' = [resized EXCEPT ![m] = FALSE]

\* Mutant of Full: flushes one row late.
TooFull(m, dc) == chunkSize[m] # 0 /\ Len(dc) > chunkSize[m]

\* The chunk has reached its size.
Full(m, dc) == chunkSize[m] # 0 /\ Len(dc) = chunkSize[m]

\* Metric::send()
Send ==
  /\ producer = "app" /\ todo # <<>>
  /\ LET row == Head(todo)
         m == row.metric
         dc == chunk[m] \o Encode(<<row>>, previous[m])
     IN  IF Full(m, dc)
         THEN Publish(m, dc, Append(buffered[m], row)) /\ Reset(m)
         ELSE /\ chunk' = [chunk EXCEPT ![m] = dc]
              /\ previous' = [previous EXCEPT ![m] = row.time]
              /\ buffered' = [buffered EXCEPT ![m] = Append(@, row)]
              /\ UNCHANGED <<resized, outbox>>
  /\ todo' = Tail(todo)
  /\ UNCHANGED <<producer, chunkSize, ticking, stopped>>

\* Mutant of Flush: flushes empty metrics.
FlushEmpty ==
  /\ producer = "app"
  /\ \E m \in Metrics : Publish(m, chunk[m], buffered[m]) /\ Reset(m)
  /\ Len(outbox) < 2
  /\ UNCHANGED <<producer, todo, chunkSize, ticking, stopped>>

\* Metric::flush(), called by the application: nothing happens to an empty chunk.
Flush ==
  /\ producer = "app"
  /\ \E m \in Metrics :
       /\ chunk[m] # <<>>
       /\ Publish(m, chunk[m], buffered[m]) /\ Reset(m)
  /\ UNCHANGED <<producer, todo, chunkSize, ticking, stopped>>

\* Metric::chunk_size(), which does not flush.
SetChunkSize ==
  /\ producer = "app" /\ todo # <<>>
  /\ \E m \in Metrics, n \in ChunkSizes :
       /\ n # chunkSize[m]
       /\ chunkSize' = [chunkSize EXCEPT ![m] = n]
       /\ resized' = [resized EXCEPT ![m] = @ \/ chunk[m] # <<>>]
  /\ UNCHANGED <<producer, todo, chunk, previous, buffered, ticking, stopped, outbox>>

\* send() of one value, which passes by the chunk.
SendDirect ==
  /\ producer = "app" /\ todo # <<>>
  /\ Publish(Head(todo).metric, OneRow(Head(todo)), <<Head(todo)>>)
  /\ todo' = Tail(todo)
  /\ UNCHANGED <<producer, metricVars, ticking, stopped>>

-----------------------------------------------------------------------------
(***************************************************************************)
(* DummySource and StressTestSource                                        *)
(***************************************************************************)
\* on_source_ready(), once the data channel is there (DataSetup): the timer starts.
StartTicks ==
  /\ producer = "dummy" /\ stopped = "no" /\ ~ticking
  /\ ticking' = TRUE
  /\ UNCHANGED <<producer, todo, metricVars, stopped, outbox>>

\* timeout_cb(): chunk_size(0), some sends, and a flush, so nothing is left behind.
\* The dummy source may have been told to stop after so many chunks.
Tick ==
  /\ producer = "dummy" /\ ticking /\ stopped = "no" /\ todo # <<>>
  /\ LET m == Head(todo).metric
         rows == SubSeq(todo, 1, PerChunk)
     IN  /\ Publish(m, chunk[m] \o Encode(rows, previous[m]), buffered[m] \o rows)
         /\ Reset(m)
         /\ chunkSize' = [chunkSize EXCEPT ![m] = 0]
  /\ todo' = SubSeq(todo, PerChunk + 1, Len(todo))
  /\ stopped' \in IF todo' = <<>> THEN {"no", "yes"} ELSE {"no"}
  /\ ticking' = (stopped' = "no")
  /\ UNCHANGED producer

\* timeout_cb() after a signal.
TickStops ==
  /\ producer = "dummy" /\ ticking /\ stopped = "requested"
  /\ stopped' = "yes" /\ ticking' = FALSE
  /\ UNCHANGED <<producer, todo, metricVars, outbox>>

\* SIGINT or SIGTERM: if the timer runs, it is left to the next tick to stop the source.
Interrupted ==
  /\ producer = "dummy" /\ stopped = "no"
  /\ stopped' = IF ticking THEN "requested" ELSE "yes"
  /\ UNCHANGED <<producer, todo, metricVars, ticking, outbox>>

\* on_closed() and on_error(): the timer is cancelled.
ProducerCloses ==
  /\ producer = "dummy" /\ (ticking \/ stopped # "yes")
  /\ ticking' = FALSE /\ stopped' = "yes"
  /\ UNCHANGED <<producer, todo, metricVars, outbox>>

ProducerNext ==
  \/ Send \/ Flush \/ SetChunkSize \/ SendDirect
  \/ StartTicks \/ Tick \/ TickStops \/ Interrupted \/ ProducerCloses

-----------------------------------------------------------------------------
ProducerTypeOK ==
  /\ producer \in {"app", "dummy"} /\ stopped \in {"no", "requested", "yes"}
  /\ ticking \in BOOLEAN /\ (ticking => stopped # "yes")
  /\ todo \in Seq(Row)
  /\ chunk \in [Metrics -> Seq([delta : Int, value : Int])]
  /\ previous \in [Metrics -> Nat] /\ chunkSize \in [Metrics -> Nat]
  /\ buffered \in [Metrics -> Seq(Row)] /\ resized \in [Metrics -> BOOLEAN]
  /\ \A i \in 1..Len(outbox) :
       /\ outbox[i].metric \in Metrics
       /\ outbox[i].chunk \in Seq([delta : Int, value : Int]) \ {<<>>}
       /\ outbox[i].rows \in Seq(Row)

\* What the chunk of a metric decodes to is what the application sent: since the
\* last flush, and in each chunk on its way.
ChunksDecode ==
  /\ \A m \in Metrics : Decode(m, chunk[m]) = buffered[m]
  /\ \A i \in 1..Len(outbox) : Decode(outbox[i].metric, outbox[i].chunk) = outbox[i].rows

\* A chunk is flushed when it reaches the size asked for ("size of the chunk for
\* automatic flushing", metric.hpp:58), unless the size was changed while rows were
\* in it: if it is lowered below what is there, send() never meets it.  A dummy
\* source leaves nothing behind between ticks.
FlushedInTime ==
  \A m \in Metrics :
    /\ chunkSize[m] # 0 /\ ~resized[m] => Len(chunk[m]) < chunkSize[m]
    /\ producer = "dummy" => chunk[m] = <<>>
=============================================================================
