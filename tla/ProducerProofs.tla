------------------------------- MODULE ProducerProofs -------------------------------
(***************************************************************************)
(* Proofs about Producer, for all rows, metrics and chunk sizes: what a    *)
(* chunk decodes to is what was sent, and no chunk outgrows its size.  The *)
(* invariant is about the steps of a producer and of the exchange that     *)
(* takes what it published; DrainSessionProofs puts them into a system.    *)
(***************************************************************************)
EXTENDS Producer, SequenceFacts

Delta == [delta : Int, value : Int]

OfMetric(m, rows) == \A i \in 1..Len(rows) : rows[i].metric = m

LastTime(rows) == IF rows = <<>> THEN 0 ELSE rows[Len(rows)].time

\* A chunk on its way is the encoding of its rows.
Published ==
  {d \in [metric : Metrics, chunk : Seq(Delta), rows : Seq(Row)] :
     d.rows # <<>> /\ OfMetric(d.metric, d.rows) /\ d.chunk = Encode(d.rows, 0)}

ProducerTypes ==
  /\ producer \in {"app", "dummy"} /\ stopped \in {"no", "requested", "yes"}
  /\ ticking \in BOOLEAN /\ (ticking => stopped # "yes")
  /\ todo \in Seq(Row) /\ outbox \in Seq(Published)
  /\ chunk \in [Metrics -> Seq(Delta)] /\ buffered \in [Metrics -> Seq(Row)]
  /\ previous \in [Metrics -> Nat]
  /\ chunkSize \in [Metrics -> Nat] /\ resized \in [Metrics -> BOOLEAN]

\* The members of a metric belong together.
Encodes(m) ==
  /\ OfMetric(m, buffered[m])
  /\ chunk[m] = Encode(buffered[m], 0) /\ previous[m] = LastTime(buffered[m])
MetricsEncode == \A m \in Metrics : Encodes(m)

\* A dummy source has whole chunks of one metric to send.
WholeTicks(rows) ==
  /\ \E k \in Nat : Len(rows) = k * PerChunk
  /\ \A i, j \in 1..Len(rows) : rows[i].metric = rows[j].metric
DummyTicks == producer = "dummy" => WholeTicks(todo)

\* The inductive invariant.
PInv == ProducerTypes /\ MetricsEncode /\ DummyTicks /\ FlushedInTime

-----------------------------------------------------------------------------
(***************************************************************************)
(* Chunks                                                                  *)
(***************************************************************************)
LEMMA RowsTyped ==
  ASSUME NEW rows \in Seq(Row)
  PROVE  /\ Len(rows) \in Nat /\ DOMAIN rows = 1..Len(rows)
         /\ \A i \in 1..Len(rows) :
              /\ rows[i] \in Row
              /\ rows[i].metric \in Metrics /\ rows[i].time \in Nat /\ rows[i].value \in Int
<1>1. \A i \in 1..Len(rows) : rows[i] \in Row  BY ElementOfSeq
<1>2. Len(rows) \in Nat /\ DOMAIN rows = 1..Len(rows)  BY LenProperties
<1>3. \A r \in Row : r.metric \in Metrics /\ r.time \in Nat /\ r.value \in Int  BY DEF Row
<1>4. QED  BY <1>1, <1>2, <1>3

LEMMA EncodeTyped ==
  ASSUME NEW rows \in Seq(Row), NEW before \in Nat
  PROVE  Encode(rows, before) \in Seq(Delta) /\ Len(Encode(rows, before)) = Len(rows)
<1>1. /\ Len(rows) \in Nat
      /\ \A i \in 1..Len(rows) : rows[i].time \in Nat /\ rows[i].value \in Int
  BY RowsTyped
<1>2. \A i \in 1..Len(rows) :
        rows[i].time - (IF i = 1 THEN before ELSE rows[i - 1].time) \in Int
  BY <1>1
<1>3. Encode(rows, before) \in [1..Len(rows) -> Delta]  BY <1>1, <1>2 DEF Encode, Delta
<1>4. QED  BY <1>1, <1>3, SeqOfLength

LEMMA LastTimeTyped ==
  ASSUME NEW rows \in Seq(Row)
  PROVE  LastTime(rows) \in Nat
<1>1. CASE rows = <<>>  BY <1>1 DEF LastTime
<1>2. CASE rows # <<>>
  <2>1. Len(rows) \in 1..Len(rows)  BY <1>2, EmptySeq
  <2>2. QED  BY <1>2, <2>1, RowsTyped DEF LastTime
<1>3. QED  BY <1>1, <1>2

\* A chunk goes on where the last row left it.
LEMMA EncodeConcat ==
  ASSUME NEW a \in Seq(Row), NEW b \in Seq(Row)
  PROVE  Encode(a, 0) \o Encode(b, LastTime(a)) = Encode(a \o b, 0)
<1> DEFINE n == Len(a)
           k == Len(b)
           ea == Encode(a, 0)
           eb == Encode(b, LastTime(a))
           eab == Encode(a \o b, 0)
<1>1. /\ n \in Nat /\ k \in Nat /\ a \o b \in Seq(Row) /\ Len(a \o b) = n + k
      /\ \A i \in 1..(n + k) : (a \o b)[i] = IF i <= n THEN a[i] ELSE b[i - n]
  BY LenProperties, ConcatProperties
<1>2. /\ ea \in Seq(Delta) /\ Len(ea) = n /\ eb \in Seq(Delta) /\ Len(eb) = k
      /\ eab \in Seq(Delta) /\ Len(eab) = n + k
  BY <1>1, EncodeTyped, LastTimeTyped
<1>3. /\ ea \o eb \in Seq(Delta) /\ Len(ea \o eb) = n + k
      /\ \A i \in 1..(n + k) : (ea \o eb)[i] = IF i <= n THEN ea[i] ELSE eb[i - n]
  <2> HIDE DEF ea, eb
  <2>1. QED  BY <1>2, ConcatProperties
<1>4. ASSUME NEW i \in 1..(n + k)
      PROVE  (ea \o eb)[i] = eab[i]
  <2>1. eab[i] = [delta |-> (a \o b)[i].time - (IF i = 1 THEN 0 ELSE (a \o b)[i - 1].time),
                  value |-> (a \o b)[i].value]
    BY <1>1 DEF Encode
  <2>2. CASE i <= n
    <3>1. i \in 1..n  BY <2>2
    <3>2. ea[i] = [delta |-> a[i].time - (IF i = 1 THEN 0 ELSE a[i - 1].time),
                   value |-> a[i].value]
      BY <3>1 DEF Encode
    <3>3. (a \o b)[i] = a[i] /\ (i # 1 => (a \o b)[i - 1] = a[i - 1])  BY <1>1, <2>2
    <3>4. (ea \o eb)[i] = ea[i]  BY <1>3, <2>2
    <3>5. QED  BY <2>1, <3>2, <3>3, <3>4
  <2>3. CASE i = n + 1
    <3>1. 1 \in 1..k  BY <1>1, <2>3
    <3>2. eb[1] = [delta |-> b[1].time - LastTime(a), value |-> b[1].value]
      BY <3>1 DEF Encode
    <3>3. (a \o b)[i] = b[1] /\ (i # 1 => (a \o b)[i - 1] = a[n])  BY <1>1, <2>3
    <3>4. (ea \o eb)[i] = eb[1]  BY <1>1, <1>3, <2>3
    <3>5. LastTime(a) = IF i = 1 THEN 0 ELSE a[n].time  BY <1>1, <2>3, EmptySeq DEF LastTime
    <3>6. QED  BY <2>1, <3>2, <3>3, <3>4, <3>5
  <2>4. CASE i > n + 1
    <3>1. i - n \in 1..k /\ i - n # 1 /\ i # 1 /\ (i - n) - 1 = (i - 1) - n
      BY <1>1, <2>4
    <3>2. eb[i - n] = [delta |-> b[i - n].time - b[(i - n) - 1].time, value |-> b[i - n].value]
      BY <3>1 DEF Encode
    <3>3. (a \o b)[i] = b[i - n] /\ (a \o b)[i - 1] = b[(i - 1) - n]  BY <1>1, <2>4
    <3>4. (ea \o eb)[i] = eb[i - n]  BY <1>1, <1>3, <2>4
    <3>5. QED  BY <2>1, <3>1, <3>2, <3>3, <3>4
  <2>5. i <= n \/ i = n + 1 \/ i > n + 1  BY <1>1
  <2>6. QED  BY <2>2, <2>3, <2>4, <2>5
<1>5. QED
  <2> HIDE DEF ea, eb, eab, n, k
  <2>1. ea \o eb = eab  BY <1>2, <1>3, <1>4, SeqEqual
  <2>2. QED  BY <2>1 DEF ea, eb, eab

\* The iterator finds the rows in a chunk: the sum of the deltas is the time.
LEMMA DecodeEncode ==
  ASSUME NEW m \in Metrics, NEW rows \in Seq(Row), OfMetric(m, rows)
  PROVE  Decode(m, Encode(rows, 0)) = rows
<1> DEFINE n == Len(rows)
           dc == Encode(rows, 0)
           time == [i \in 0..n |-> IF i = 0 THEN 0 ELSE rows[i].time]
           timestamp == CHOOSE timestamp : timestamp =
             [i \in 0..Len(dc) |-> IF i = 0 THEN 0 ELSE timestamp[i - 1] + dc[i].delta]
<1>1. n \in Nat /\ Len(dc) = n  BY RowsTyped, EncodeTyped
<1>2. \A i \in 1..n : rows[i].time \in Nat /\ rows[i].value \in Int  BY RowsTyped
<1>3. \A i \in 1..n : /\ dc[i].delta = rows[i].time - (IF i = 1 THEN 0 ELSE rows[i - 1].time)
                      /\ dc[i].value = rows[i].value
  BY DEF Encode
<1>4. ASSUME NEW i \in 1..n
      PROVE  time[i - 1] + dc[i].delta = rows[i].time
  <2>1. i - 1 \in 0..n /\ (i # 1 => i - 1 \in 1..n /\ i - 1 # 0)  BY <1>1
  <2>2. time[i - 1] = IF i = 1 THEN 0 ELSE rows[i - 1].time  BY <2>1
  <2>3. time[i - 1] \in Int /\ rows[i].time \in Int  BY <1>2, <2>1, <2>2
  <2>4. dc[i].delta = rows[i].time - time[i - 1]  BY <1>3, <2>2
  <2> HIDE DEF time, dc
  <2>5. QED  BY <2>3, <2>4
<1>5. time = [i \in 0..Len(dc) |-> IF i = 0 THEN 0 ELSE time[i - 1] + dc[i].delta]
  BY <1>1, <1>4
<1>6. timestamp = [i \in 0..Len(dc) |-> IF i = 0 THEN 0 ELSE timestamp[i - 1] + dc[i].delta]
  <2> HIDE DEF dc, time
  <2>1. QED  BY <1>5
<1>7. Decode(m, dc) = [i \in 1..Len(dc) |->
                         [metric |-> m, time |-> timestamp[i], value |-> dc[i].value]]
  BY DEF Decode
<1> HIDE DEF timestamp
<1>8. \A i \in 0..n : timestamp[i] = time[i]
  <2> DEFINE S == {i \in 0..n : timestamp[i] = time[i]}
  <2>1. 0 \in S  BY <1>1, <1>6
  <2>2. ASSUME NEW i \in 0..(n - 1), i \in S PROVE i + 1 \in S
    <3>1. i + 1 \in 1..n /\ (i + 1) - 1 = i  BY <1>1
    <3>2. timestamp[i + 1] = timestamp[i] + dc[i + 1].delta
      <4> HIDE DEF dc
      <4>1. QED  BY <1>1, <1>6, <3>1
    <3>3. time[i] + dc[i + 1].delta = time[i + 1]  BY <1>4, <3>1
    <3>4. QED  BY <2>2, <3>1, <3>2, <3>3
  <2> HIDE DEF S
  <2>3. 0..n \subseteq S  BY <1>1, <2>1, <2>2, IntervalInduction
  <2>4. QED  BY <2>3 DEF S
<1>9. \A i \in 1..n : [metric |-> m, time |-> timestamp[i], value |-> dc[i].value] = rows[i]
  <2>1. \A i \in 1..n : timestamp[i] = rows[i].time  BY <1>1, <1>8
  <2>2. \A i \in 1..n : rows[i] \in Row /\ rows[i].metric = m
    BY RowsTyped DEF OfMetric
  <2>3. QED  BY <1>3, <2>1, <2>2 DEF Row
<1>10. Decode(m, dc) = [i \in 1..n |-> rows[i]]
  <2> HIDE DEF dc
  <2>1. QED  BY <1>1, <1>7, <1>9
<1>11. QED  BY <1>1, <1>10, LenProperties

-----------------------------------------------------------------------------
(***************************************************************************)
(* The steps                                                               *)
(***************************************************************************)
LEMMA InitProducer == ProducerInit => PInv
<1>1. SUFFICES ASSUME ProducerInit PROVE PInv  OBVIOUS
<1>2. <<>> \in Seq(Delta) /\ <<>> \in Seq(Row) /\ <<>> \in Seq(Published) /\ Len(<<>>) = 0
  BY EmptySeq
<1>3. todo \in Seq(Row) /\ producer \in {"app", "dummy"}
  BY <1>1, ProducerAssumption DEF ProducerInit
<1>4. /\ chunk = [m \in Metrics |-> <<>>] /\ previous = [m \in Metrics |-> 0]
      /\ chunkSize = [m \in Metrics |-> 1] /\ resized = [m \in Metrics |-> FALSE]
      /\ buffered = [m \in Metrics |-> <<>>] /\ ticking = FALSE /\ stopped = "no"
      /\ outbox = <<>>
  BY <1>1 DEF ProducerInit
<1>5. ProducerTypes  BY <1>2, <1>3, <1>4 DEF ProducerTypes
<1>6. MetricsEncode
  <2>1. Encode(<<>>, 0) = <<>>
    <3>1. Encode(<<>>, 0) \in Seq(Delta) /\ Len(Encode(<<>>, 0)) = 0  BY <1>2, EncodeTyped
    <3>2. QED  BY <3>1, EmptySeq
  <2>2. LastTime(<<>>) = 0 /\ \A m \in Metrics : OfMetric(m, <<>>)
    BY <1>2 DEF OfMetric, LastTime
  <2>3. QED  BY <1>4, <2>1, <2>2 DEF MetricsEncode, Encodes
<1>7. DummyTicks
  <2>1. SUFFICES ASSUME producer = "dummy" PROVE WholeTicks(todo)  BY DEF DummyTicks
  <2>2. todo \in DummyRows  BY <1>1, <2>1 DEF ProducerInit
  <2>3. /\ Len(todo) % PerChunk = 0 /\ Len(todo) \in Nat /\ PerChunk \in Nat \ {0}
        /\ \A i, j \in 1..Len(todo) : todo[i].metric = todo[j].metric
    BY <1>3, <2>2, ProducerAssumption, LenProperties
  <2>4. \E k \in Nat : Len(todo) = k * PerChunk
    <3>1. Len(todo) \div PerChunk \in Nat  BY <2>3
    <3>2. Len(todo) = (Len(todo) \div PerChunk) * PerChunk + (Len(todo) % PerChunk)  BY <2>3
    <3>3. (Len(todo) \div PerChunk) * PerChunk \in Nat  BY <2>3, <3>1
    <3>4. Len(todo) = (Len(todo) \div PerChunk) * PerChunk  BY <2>3, <3>2, <3>3
    <3>5. QED  BY <3>1, <3>4
  <2>5. QED  BY <2>3, <2>4 DEF WholeTicks
<1>8. FlushedInTime  BY <1>2, <1>4 DEF FlushedInTime
<1>9. QED  BY <1>5, <1>6, <1>7, <1>8 DEF PInv

\* Rows and their encoding, as they are published.
LEMMA PublishedTyped ==
  ASSUME ProducerTypes, NEW m \in Metrics, NEW rows \in Seq(Row), rows # <<>>,
         OfMetric(m, rows), Publish(m, Encode(rows, 0), rows)
  PROVE  outbox' \in Seq(Published)
<1> DEFINE d == [metric |-> m, chunk |-> Encode(rows, 0), rows |-> rows]
<1>1. d \in Published  BY EncodeTyped DEF Published
<1>2. outbox' = Append(outbox, d)  BY DEF Publish
<1>3. QED
  <2> HIDE DEF d
  <2>1. QED  BY <1>1, <1>2, AppendProperties DEF ProducerTypes

\* The rows of a metric with some more: what its chunk becomes.
LEMMA MoreRows ==
  ASSUME ProducerTypes, NEW m \in Metrics, Encodes(m), NEW rows \in Seq(Row), rows # <<>>,
         OfMetric(m, rows)
  PROVE  LET all == buffered[m] \o rows IN
         /\ all \in Seq(Row) /\ all # <<>> /\ OfMetric(m, all)
         /\ Len(all) = Len(buffered[m]) + Len(rows)
         /\ chunk[m] \o Encode(rows, previous[m]) = Encode(all, 0)
         /\ LastTime(all) = rows[Len(rows)].time
<1> DEFINE all == buffered[m] \o rows
<1>1. buffered[m] \in Seq(Row) /\ Len(buffered[m]) \in Nat /\ Len(rows) \in Nat \ {0}
  BY LenProperties, EmptySeq DEF ProducerTypes
<1>2. /\ all \in Seq(Row) /\ Len(all) = Len(buffered[m]) + Len(rows)
      /\ \A i \in 1..(Len(buffered[m]) + Len(rows)) :
           all[i] = IF i <= Len(buffered[m]) THEN buffered[m][i] ELSE rows[i - Len(buffered[m])]
  BY <1>1, ConcatProperties
<1>3. all # <<>>  BY <1>1, <1>2, EmptySeq
<1>4. OfMetric(m, all)
  <2>1. SUFFICES ASSUME NEW i \in 1..Len(all) PROVE all[i].metric = m  BY DEF OfMetric
  <2>2. CASE i <= Len(buffered[m])
    <3>1. i \in 1..Len(buffered[m]) /\ all[i] = buffered[m][i]  BY <1>1, <1>2, <2>2
    <3>2. QED  BY <3>1 DEF Encodes, OfMetric
  <2>3. CASE i > Len(buffered[m])
    <3>1. /\ i - Len(buffered[m]) \in 1..Len(rows)
          /\ all[i] = rows[i - Len(buffered[m])]
      BY <1>1, <1>2, <2>3
    <3>2. QED  BY <3>1 DEF OfMetric
  <2>4. QED  BY <1>1, <1>2, <2>2, <2>3
<1>5. chunk[m] \o Encode(rows, previous[m]) = Encode(all, 0)
  BY <1>1, EncodeConcat DEF Encodes
<1>6. LastTime(all) = rows[Len(rows)].time
  <2>1. all[Len(all)] = rows[Len(rows)]  BY <1>1, <1>2
  <2>2. QED  BY <1>3, <2>1 DEF LastTime
<1>7. QED  BY <1>2, <1>3, <1>4, <1>5, <1>6

\* A chunk is published and the metric is empty again.
LEMMA AfterReset ==
  ASSUME PInv, NEW m \in Metrics, Reset(m), UNCHANGED producer,
         stopped' \in {"no", "requested", "yes"}, ticking' \in BOOLEAN,
         ticking' => stopped' # "yes",
         NEW rows \in Seq(Row), rows # <<>>, OfMetric(m, rows),
         Publish(m, Encode(rows, 0), rows),
         todo' \in Seq(Row), producer = "dummy" => WholeTicks(todo'),
         chunkSize' \in [Metrics -> Nat],
         \A k \in Metrics \ {m} : chunkSize'[k] = chunkSize[k]
  PROVE  PInv'
<1>1. /\ <<>> \in Seq(Delta) /\ <<>> \in Seq(Row) /\ Len(<<>>) = 0
      /\ Encode(<<>>, 0) = <<>>
  <2>1. <<>> \in Seq(Delta) /\ <<>> \in Seq(Row) /\ Len(<<>>) = 0  BY EmptySeq
  <2>2. Encode(<<>>, 0) \in Seq(Delta) /\ Len(Encode(<<>>, 0)) = 0  BY <2>1, EncodeTyped
  <2>3. QED  BY <2>1, <2>2, EmptySeq
<1>2. /\ chunk' = [chunk EXCEPT ![m] = <<>>] /\ previous' = [previous EXCEPT ![m] = 0]
      /\ resized' = [resized EXCEPT ![m] = FALSE]
      /\ buffered' = [buffered EXCEPT ![m] = <<>>]
  BY DEF Reset
<1>3. ProducerTypes'
  <2>1. outbox' \in Seq(Published)  BY PublishedTyped DEF PInv
  <2>2. QED  BY <1>1, <1>2, <2>1 DEF PInv, ProducerTypes
<1>4. /\ chunk'[m] = <<>> /\ buffered'[m] = <<>> /\ previous'[m] = 0
      /\ \A k \in Metrics \ {m} :
           /\ chunk'[k] = chunk[k] /\ (resized'[k] <=> resized[k])
           /\ buffered'[k] = buffered[k] /\ previous'[k] = previous[k]
  BY <1>2 DEF PInv, ProducerTypes
<1>5. MetricsEncode'
  <2>1. OfMetric(m, <<>>) /\ LastTime(<<>>) = 0  BY <1>1 DEF OfMetric, LastTime
  <2>2. ASSUME NEW k \in Metrics PROVE Encodes(k)'
    <3>1. CASE k = m  BY <1>1, <1>4, <2>1, <3>1 DEF Encodes
    <3>2. CASE k # m  BY <1>4, <3>2 DEF Encodes, PInv, MetricsEncode
    <3>3. QED  BY <3>1, <3>2
  <2>3. QED  BY <2>2 DEF MetricsEncode
<1>6. ASSUME NEW k \in Metrics
      PROVE  /\ chunkSize'[k] # 0 /\ ~resized'[k] => Len(chunk'[k]) < chunkSize'[k]
             /\ producer' = "dummy" => chunk'[k] = <<>>
  <2>1. CASE k = m
    <3>1. chunkSize'[k] \in Nat  OBVIOUS
    <3>2. QED  BY <1>1, <1>4, <2>1, <3>1
  <2>2. CASE k # m  BY <1>4, <2>2 DEF PInv, FlushedInTime
  <2>3. QED  BY <2>1, <2>2
<1>7. DummyTicks'  BY DEF DummyTicks
<1>8. QED  BY <1>3, <1>5, <1>6, <1>7 DEF PInv, FlushedInTime

LEMMA ProducesSend ==
  ASSUME PInv, Send
  PROVE  PInv'
<1> DEFINE row == Head(todo)
           m == row.metric
           rows == Append(buffered[m], row)
           dc == chunk[m] \o Encode(<<row>>, previous[m])
<1>1. todo' \in Seq(Row) /\ row \in Row
  BY HeadTailProperties DEF Send, PInv, ProducerTypes
<1>2. m \in Metrics /\ row.time \in Nat  BY <1>1 DEF Row
<1>3. /\ UNCHANGED <<producer, chunkSize, ticking, stopped>> /\ producer = "app"
  BY DEF Send
<1>4. <<row>> \in Seq(Row) /\ <<row>> # <<>> /\ Len(<<row>>) = 1 /\ <<row>>[1] = row
  BY <1>1
<1>5. OfMetric(m, <<row>>)  BY <1>4 DEF OfMetric
<1>6. buffered[m] \in Seq(Row) /\ Encodes(m)
  BY <1>2 DEF PInv, ProducerTypes, MetricsEncode
<1>7. rows = buffered[m] \o <<row>>  BY <1>1, <1>6, AppendIsConcat
<1>8. /\ rows \in Seq(Row) /\ rows # <<>> /\ OfMetric(m, rows)
      /\ Len(rows) = Len(buffered[m]) + 1
      /\ dc = Encode(rows, 0) /\ LastTime(rows) = row.time
  <2> HIDE DEF rows, row
  <2>1. QED  BY <1>2, <1>4, <1>5, <1>6, <1>7, MoreRows DEF PInv
<1>9. /\ dc \in Seq(Delta) /\ Len(dc) = Len(chunk[m]) + 1 /\ Len(chunk[m]) \in Nat
  <2>1. Len(chunk[m]) = Len(buffered[m]) /\ Len(buffered[m]) \in Nat
    BY <1>6, EncodeTyped, LenProperties DEF Encodes
  <2>2. QED  BY <1>8, <2>1, EncodeTyped
<1>10. CASE Full(m, dc)
  <2>1. Reset(m) /\ Publish(m, Encode(rows, 0), rows)  BY <1>8, <1>10 DEF Send
  <2>2. /\ chunkSize' \in [Metrics -> Nat] /\ stopped' \in {"no", "requested", "yes"}
        /\ ticking' \in BOOLEAN /\ (ticking' => stopped' # "yes")
    BY <1>3 DEF PInv, ProducerTypes
  <2> HIDE DEF row, rows, dc, m
  <2>3. QED  BY <1>1, <1>2, <1>3, <1>8, <2>1, <2>2, AfterReset
<1>11. CASE ~Full(m, dc)
  <2>1. /\ chunk' = [chunk EXCEPT ![m] = dc] /\ resized' = resized
        /\ previous' = [previous EXCEPT ![m] = row.time] /\ outbox' = outbox
        /\ buffered' = [buffered EXCEPT ![m] = rows]
    BY <1>11 DEF Send
  <2> HIDE DEF dc, m, row, rows
  <2>2. ProducerTypes'
    BY <1>1, <1>2, <1>3, <1>8, <1>9, <2>1 DEF PInv, ProducerTypes
  <2>3. /\ chunk'[m] = dc /\ buffered'[m] = rows /\ previous'[m] = row.time
        /\ \A k \in Metrics \ {m} :
             chunk'[k] = chunk[k] /\ buffered'[k] = buffered[k] /\ previous'[k] = previous[k]
    BY <1>2, <2>1 DEF PInv, ProducerTypes
  <2>4. MetricsEncode'
    <3>1. ASSUME NEW k \in Metrics PROVE Encodes(k)'
      <4>1. CASE k = m  BY <1>8, <2>3, <4>1 DEF Encodes
      <4>2. CASE k # m  BY <2>3, <4>2 DEF Encodes, PInv, MetricsEncode
      <4>3. QED  BY <4>1, <4>2
    <3>2. QED  BY <3>1 DEF MetricsEncode
  <2>5. chunkSize[m] \in Nat /\ (chunkSize[m] # 0 => Len(dc) # chunkSize[m])
    BY <1>2, <1>11 DEF Full, PInv, ProducerTypes
  <2>6. chunkSize[m] # 0 /\ ~resized[m] => Len(chunk[m]) < chunkSize[m]
    BY <1>2 DEF PInv, FlushedInTime
  <2>7. chunkSize[m] # 0 /\ ~resized[m] => Len(dc) < chunkSize[m]
    BY <1>9, <2>5, <2>6
  <2>8. \A k \in Metrics :
          chunkSize[k] # 0 /\ ~resized[k] => Len(chunk'[k]) < chunkSize[k]
    BY <2>3, <2>7 DEF PInv, FlushedInTime
  <2>9. QED  BY <1>3, <2>1, <2>2, <2>4, <2>8 DEF PInv, FlushedInTime, DummyTicks
<1>12. QED  BY <1>10, <1>11

LEMMA ProducesFlush ==
  ASSUME PInv, Flush
  PROVE  PInv'
<1>1. PICK m \in Metrics :
        chunk[m] # <<>> /\ Publish(m, chunk[m], buffered[m]) /\ Reset(m)
  BY DEF Flush
<1>2. UNCHANGED <<producer, todo, chunkSize, ticking, stopped>> /\ producer = "app"
  BY DEF Flush
<1>3. /\ todo' \in Seq(Row) /\ chunkSize' \in [Metrics -> Nat] /\ ticking' \in BOOLEAN
      /\ stopped' \in {"no", "requested", "yes"} /\ (ticking' => stopped' # "yes")
      /\ buffered[m] \in Seq(Row)
  BY <1>2 DEF PInv, ProducerTypes
<1>4. OfMetric(m, buffered[m]) /\ chunk[m] = Encode(buffered[m], 0)
  BY DEF PInv, MetricsEncode, Encodes
<1>5. buffered[m] # <<>>
  <2>1. Encode(buffered[m], 0) \in Seq(Delta) /\ Len(Encode(buffered[m], 0)) = Len(buffered[m])
    BY <1>3, EncodeTyped
  <2>2. QED  BY <1>1, <1>4, <2>1, EmptySeq
<1>6. QED  BY <1>1, <1>2, <1>3, <1>4, <1>5, AfterReset

LEMMA ProducesSetSize ==
  ASSUME PInv, SetChunkSize
  PROVE  PInv'
<1>1. PICK m \in Metrics, n \in ChunkSizes :
        /\ chunkSize' = [chunkSize EXCEPT ![m] = n]
        /\ resized' = [resized EXCEPT ![m] = @ \/ chunk[m] # <<>>]
  BY DEF SetChunkSize
<1>2. /\ UNCHANGED <<producer, todo, chunk, previous, buffered, ticking, stopped, outbox>>
      /\ producer = "app"
  BY DEF SetChunkSize
<1>3. n \in Nat  BY ProducerAssumption
<1>4. chunkSize' \in [Metrics -> Nat]  BY <1>1, <1>3 DEF PInv, ProducerTypes
<1>5. (resized[m] \/ chunk[m] # <<>>) \in BOOLEAN  OBVIOUS
<1>6. resized' \in [Metrics -> BOOLEAN]  BY <1>1, <1>5 DEF PInv, ProducerTypes
<1>7. ProducerTypes'  BY <1>2, <1>4, <1>6 DEF PInv, ProducerTypes
<1>8. ASSUME NEW k \in Metrics, chunkSize'[k] # 0, ~resized'[k]
      PROVE  Len(chunk[k]) < chunkSize'[k]
  <2>1. CASE k = m
    <3>1. chunk[k] = <<>>  BY <1>1, <1>8, <2>1 DEF PInv, ProducerTypes
    <3>2. Len(chunk[k]) = 0 /\ chunkSize'[k] \in Nat  BY <1>4, <3>1, EmptySeq
    <3>3. QED  BY <1>8, <3>2
  <2>2. CASE k # m
    <3>1. chunkSize'[k] = chunkSize[k] /\ resized'[k] = resized[k]
      BY <1>1, <2>2 DEF PInv, ProducerTypes
    <3>2. QED  BY <1>8, <3>1 DEF PInv, FlushedInTime
  <2>3. QED  BY <2>1, <2>2
<1>9. MetricsEncode'  BY <1>2 DEF PInv, MetricsEncode, Encodes
<1>10. QED  BY <1>2, <1>7, <1>8, <1>9 DEF PInv, FlushedInTime, DummyTicks

\* What a tick takes is a whole chunk, and whole chunks are left.
LEMMA TickTakes ==
  ASSUME PInv, producer = "dummy", todo # <<>>
  PROVE  LET m == Head(todo).metric
             rows == SubSeq(todo, 1, PerChunk)
             left == SubSeq(todo, PerChunk + 1, Len(todo))
         IN  /\ m \in Metrics
             /\ rows \in Seq(Row) /\ rows # <<>> /\ OfMetric(m, rows)
             /\ left \in Seq(Row) /\ WholeTicks(left)
<1> DEFINE n == Len(todo)
           m == Head(todo).metric
           rows == SubSeq(todo, 1, PerChunk)
           left == SubSeq(todo, PerChunk + 1, n)
<1>1. /\ todo \in Seq(Row) /\ n \in Nat \ {0} /\ \A i \in 1..n : todo[i] \in Row
      /\ Head(todo) = todo[1]
  BY EmptySeq, ElementOfSeq, HeadTailProperties DEF PInv, ProducerTypes
<1>2. m \in Metrics  BY <1>1 DEF Row
<1>3. PerChunk \in Nat \ {0}  BY ProducerAssumption
<1>4. PICK k \in Nat : n = k * PerChunk  BY DEF PInv, DummyTicks, WholeTicks
<1>5. /\ k - 1 \in Nat /\ n - PerChunk = (k - 1) * PerChunk /\ PerChunk <= n
  <2>1. k # 0  BY <1>1, <1>3, <1>4
  <2>2. k - 1 \in Nat  BY <2>1
  <2>3. n = (k - 1) * PerChunk + PerChunk  BY <1>3, <1>4, <2>2
  <2>4. (k - 1) * PerChunk \in Nat  BY <1>3, <2>2
  <2>5. QED  BY <1>1, <1>3, <2>2, <2>3, <2>4
<1>6. \A i, j \in 1..n : todo[i].metric = todo[j].metric
  BY DEF PInv, DummyTicks, WholeTicks
<1>7. /\ rows \in Seq(Row) /\ Len(rows) = PerChunk
      /\ \A i \in 1..PerChunk : rows[i] = todo[i]
  <2>1. 1 \in Int /\ PerChunk \in Int /\ \A i \in 1..PerChunk : todo[i] \in Row
    BY <1>1, <1>3, <1>5
  <2>2. /\ rows \in Seq(Row) /\ Len(rows) = IF 1 <= PerChunk THEN PerChunk - 1 + 1 ELSE 0
        /\ \A i \in 1..(PerChunk - 1 + 1) : rows[i] = todo[1 + i - 1]
    BY <2>1, SubSeqProperties
  <2>3. QED  BY <1>3, <2>2
<1>8. rows # <<>>  BY <1>3, <1>7, EmptySeq
<1>9. OfMetric(m, rows)
  <2>1. \A i \in 1..PerChunk : i \in 1..n /\ 1 \in 1..n  BY <1>1, <1>3, <1>5
  <2>2. QED  BY <1>1, <1>6, <1>7, <2>1 DEF OfMetric
<1>10. /\ left \in Seq(Row) /\ Len(left) = n - PerChunk
       /\ \A i \in 1..(n - PerChunk) : left[i] = todo[PerChunk + i]
  <2>1. /\ PerChunk + 1 \in Int /\ n \in Int
        /\ \A i \in (PerChunk + 1)..n : todo[i] \in Row
    BY <1>1, <1>3
  <2>2. /\ left \in Seq(Row)
        /\ Len(left) = IF PerChunk + 1 <= n THEN n - (PerChunk + 1) + 1 ELSE 0
        /\ \A i \in 1..(n - (PerChunk + 1) + 1) : left[i] = todo[(PerChunk + 1) + i - 1]
    BY <2>1, SubSeqProperties
  <2>3. QED  BY <1>1, <1>3, <1>5, <2>2
<1>11. WholeTicks(left)
  <2>1. \A i \in 1..(n - PerChunk) : PerChunk + i \in 1..n  BY <1>1, <1>3
  <2> HIDE DEF left
  <2>2. QED  BY <1>5, <1>6, <1>10, <2>1 DEF WholeTicks
<1>12. QED  BY <1>2, <1>7, <1>8, <1>9, <1>10, <1>11

LEMMA ProducesTick ==
  ASSUME PInv, Tick
  PROVE  PInv'
<1> DEFINE m == Head(todo).metric
           rows == SubSeq(todo, 1, PerChunk)
           left == SubSeq(todo, PerChunk + 1, Len(todo))
           all == buffered[m] \o rows
<1>1. /\ m \in Metrics /\ rows \in Seq(Row) /\ rows # <<>> /\ OfMetric(m, rows)
      /\ left \in Seq(Row) /\ WholeTicks(left)
  BY TickTakes DEF Tick
<1>2. /\ Publish(m, chunk[m] \o Encode(rows, previous[m]), all) /\ Reset(m)
      /\ chunkSize' = [chunkSize EXCEPT ![m] = 0] /\ todo' = left
      /\ producer' = producer
  BY DEF Tick
<1>3. /\ stopped' \in {"no", "requested", "yes"} /\ ticking' \in BOOLEAN
      /\ (ticking' => stopped' # "yes")
  BY DEF Tick
<1> HIDE DEF m, rows, left
<1>4. Encodes(m)  BY <1>1 DEF PInv, MetricsEncode
<1>5. /\ all \in Seq(Row) /\ all # <<>> /\ OfMetric(m, all)
      /\ chunk[m] \o Encode(rows, previous[m]) = Encode(all, 0)
  BY <1>1, <1>4, MoreRows DEF PInv
<1>6. /\ chunkSize' \in [Metrics -> Nat]
      /\ \A k \in Metrics \ {m} : chunkSize'[k] = chunkSize[k]
  BY <1>1, <1>2 DEF PInv, ProducerTypes
<1> HIDE DEF all
<1>7. QED  BY <1>1, <1>2, <1>3, <1>5, <1>6, AfterReset

LEMMA ProducesDirect ==
  ASSUME PInv, SendDirect
  PROVE  PInv'
<1> DEFINE row == Head(todo)
           m == row.metric
<1>1. todo' \in Seq(Row) /\ row \in Row
  BY HeadTailProperties DEF SendDirect, PInv, ProducerTypes
<1>2. m \in Metrics /\ row.time \in Nat /\ row.value \in Int  BY <1>1 DEF Row
<1>3. <<row>> \in Seq(Row) /\ <<row>> # <<>> /\ Len(<<row>>) = 1 /\ <<row>>[1] = row
  BY <1>1
<1>4. OneRow(row) = Encode(<<row>>, 0)
  <2> DEFINE delta == [delta |-> row.time, value |-> row.value]
  <2>1. Encode(<<row>>, 0) = [i \in 1..1 |-> delta]
    <3>1. row.time - 0 = row.time  BY <1>2
    <3> HIDE DEF row
    <3>2. QED  BY <1>3, <3>1 DEF Encode
  <2>2. <<delta>> = [i \in 1..1 |-> delta]
    <3> HIDE DEF delta
    <3>1. QED  OBVIOUS
  <2>3. QED  BY <2>1, <2>2 DEF OneRow
<1>5. OfMetric(m, <<row>>)  BY <1>3 DEF OfMetric
<1>6. Publish(m, Encode(<<row>>, 0), <<row>>)  BY <1>4 DEF SendDirect
<1>7. outbox' \in Seq(Published)
  <2> HIDE DEF row, m
  <2>1. QED  BY <1>2, <1>3, <1>5, <1>6, PublishedTyped DEF PInv
<1>8. UNCHANGED <<producer, metricVars, ticking, stopped>> /\ producer = "app"
  BY DEF SendDirect
<1>9. ProducerTypes'  BY <1>1, <1>7, <1>8 DEF PInv, ProducerTypes, metricVars
<1>10. QED
  BY <1>8, <1>9 DEF PInv, metricVars, MetricsEncode, Encodes, FlushedInTime, DummyTicks

\* A step that publishes nothing and sends nothing; the exchange may take something.
LEMMA ProducesNothing ==
  ASSUME PInv, UNCHANGED <<producer, todo, metricVars>>, outbox' \in Seq(Published),
         stopped' \in {"no", "requested", "yes"}, ticking' \in BOOLEAN,
         ticking' => stopped' # "yes"
  PROVE  PInv'
<1>1. ProducerTypes'  BY DEF PInv, ProducerTypes, metricVars
<1>2. QED  BY <1>1 DEF PInv, metricVars, MetricsEncode, Encodes, FlushedInTime, DummyTicks

LEMMA ProducerSteps ==
  ASSUME PInv, ProducerNext
  PROVE  PInv'
<1>1. CASE StartTicks \/ TickStops \/ Interrupted \/ ProducerCloses
  <2>1. /\ UNCHANGED <<producer, todo, metricVars, outbox>>
        /\ stopped' \in {"no", "requested", "yes"} /\ ticking' \in BOOLEAN
        /\ (ticking' => stopped' # "yes")
    <3>1. /\ stopped \in {"no", "requested", "yes"} /\ ticking \in BOOLEAN
          /\ (ticking => stopped # "yes")
      BY DEF PInv, ProducerTypes
    <3>2. CASE StartTicks  BY <3>1, <3>2 DEF StartTicks
    <3>3. CASE TickStops  BY <3>1, <3>3 DEF TickStops
    <3>4. CASE Interrupted  BY <3>1, <3>4 DEF Interrupted
    <3>5. CASE ProducerCloses  BY <3>1, <3>5 DEF ProducerCloses
    <3>6. QED  BY <1>1, <3>2, <3>3, <3>4, <3>5
  <2>2. outbox' \in Seq(Published)  BY <2>1 DEF PInv, ProducerTypes
  <2>3. QED  BY <2>1, <2>2, ProducesNothing
<1>2. QED
  BY <1>1, ProducesSend, ProducesFlush, ProducesSetSize, ProducesDirect, ProducesTick
     DEF ProducerNext

-----------------------------------------------------------------------------
(***************************************************************************)
(* What the invariant says                                                 *)
(***************************************************************************)
LEMMA PublishedDecodes ==
  ASSUME NEW d \in Published
  PROVE  /\ d.metric \in Metrics /\ d.rows \in Seq(Row)
         /\ d.chunk \in Seq(Delta) \ {<<>>} /\ Decode(d.metric, d.chunk) = d.rows
<1>1. /\ d.metric \in Metrics /\ d.rows \in Seq(Row) /\ d.chunk \in Seq(Delta)
      /\ d.rows # <<>> /\ OfMetric(d.metric, d.rows) /\ d.chunk = Encode(d.rows, 0)
  BY DEF Published
<1>2. d.chunk # <<>>
  <2>1. Len(d.chunk) = Len(d.rows) /\ Len(d.rows) # 0  BY <1>1, EncodeTyped, EmptySeq
  <2>2. QED  BY <2>1, EmptySeq
<1>3. QED  BY <1>1, <1>2, DecodeEncode

LEMMA ProducerTypesHold == PInv => ProducerTypeOK
<1>1. SUFFICES ASSUME PInv PROVE ProducerTypeOK  OBVIOUS
<1>2. \A i \in 1..Len(outbox) : outbox[i] \in Published
  BY <1>1, ElementOfSeq DEF PInv, ProducerTypes
<1>3. \A i \in 1..Len(outbox) :
        /\ outbox[i].metric \in Metrics /\ outbox[i].chunk \in Seq(Delta) \ {<<>>}
        /\ outbox[i].rows \in Seq(Row)
  BY <1>2, PublishedDecodes
<1>4. QED  BY <1>1, <1>3 DEF PInv, ProducerTypes, ProducerTypeOK, Delta

LEMMA ProducerDecodes == PInv => ChunksDecode
<1>1. SUFFICES ASSUME PInv PROVE ChunksDecode  OBVIOUS
<1>2. ASSUME NEW m \in Metrics PROVE Decode(m, chunk[m]) = buffered[m]
  <2>1. /\ buffered[m] \in Seq(Row) /\ OfMetric(m, buffered[m])
        /\ chunk[m] = Encode(buffered[m], 0)
    BY <1>1 DEF PInv, ProducerTypes, MetricsEncode, Encodes
  <2>2. QED  BY <2>1, DecodeEncode
<1>3. ASSUME NEW i \in 1..Len(outbox)
      PROVE  Decode(outbox[i].metric, outbox[i].chunk) = outbox[i].rows
  <2>1. outbox[i] \in Published  BY <1>1, ElementOfSeq DEF PInv, ProducerTypes
  <2>2. QED  BY <2>1, PublishedDecodes
<1>4. QED  BY <1>2, <1>3 DEF ChunksDecode
=============================================================================
