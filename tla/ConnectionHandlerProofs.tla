------------------------ MODULE ConnectionHandlerProofs ------------------------
(***************************************************************************)
(* Proofs about ConnectionHandler, for every value of its constants.       *)
(***************************************************************************)
EXTENDS ConnectionHandler, SequenceTheorems, TLAPS

(***************************************************************************)
(* The send queue                                                          *)
(***************************************************************************)
LEMMA ContiguousAppend ==
  ASSUME NEW bufs \in Seq(Block), NEW last \in Nat, NEW n \in Nat \ {0},
         Contiguous(bufs, last)
  PROVE  /\ Append(bufs, [lo |-> last + 1, len |-> n]) \in Seq(Block)
         /\ Contiguous(Append(bufs, [lo |-> last + 1, len |-> n]), last + n)
  <1> DEFINE new == [lo |-> last + 1, len |-> n]
             all == Append(bufs, new)
  <1>1. new \in Block /\ new.lo = last + 1 /\ new.len = n
    BY DEF Block
  <1>2. /\ all \in Seq(Block) /\ Len(all) = Len(bufs) + 1 /\ Len(bufs) \in Nat
        /\ \A i \in 1..Len(bufs) : all[i] = bufs[i] /\ bufs[i] \in Block
        /\ all[Len(bufs) + 1] = new
    BY <1>1
  <1>3. Contiguous(all, last + n)
    <2> SUFFICES ASSUME NEW i \in 1..Len(all)
                 PROVE  /\ all[i].lo + all[i].len <= last + n + 1
                        /\ i = Len(all) => all[i].lo + all[i].len = last + n + 1
                        /\ i < Len(all) => all[i].lo + all[i].len = all[i + 1].lo
      BY DEF Contiguous
    <2> HIDE DEF new, all
    <2>1. CASE i = Len(bufs) + 1
      BY <1>1, <1>2, <2>1
    <2>2. CASE i \in 1..Len(bufs)
      <3>1. all[i] = bufs[i] /\ bufs[i].lo \in Nat /\ bufs[i].len \in Nat
        BY <1>2, <2>2 DEF Block
      <3>2. bufs[i].lo + bufs[i].len <= last + 1
        BY <2>2 DEF Contiguous
      <3>3. CASE i = Len(bufs)
        BY <1>1, <1>2, <2>2, <3>1, <3>2, <3>3 DEF Contiguous
      <3>4. CASE i < Len(bufs)
        <4>1. i + 1 \in 1..Len(bufs) /\ all[i + 1] = bufs[i + 1] /\ i # Len(all)
          BY <1>2, <2>2, <3>4
        <4>2. bufs[i].lo + bufs[i].len = bufs[i + 1].lo
          BY <2>2, <3>4 DEF Contiguous
        <4> QED
          BY <3>1, <3>2, <4>1, <4>2
      <3> QED
        BY <1>2, <2>2, <3>3, <3>4
    <2> QED
      BY <1>2, <2>1, <2>2
  <1> QED
    BY <1>2, <1>3

LEMMA ContiguousTail ==
  ASSUME NEW bufs \in Seq(Block), bufs # <<>>, NEW last \in Nat, Contiguous(bufs, last)
  PROVE  /\ Tail(bufs) \in Seq(Block)
         /\ Contiguous(Tail(bufs), last)
         /\ Tail(bufs) = <<>> => Head(bufs).lo + Head(bufs).len = last + 1
         /\ Tail(bufs) # <<>> => Head(Tail(bufs)).lo = Head(bufs).lo + Head(bufs).len
  <1> DEFINE rest == Tail(bufs)
  <1>1. /\ rest \in Seq(Block) /\ Len(rest) = Len(bufs) - 1 /\ Len(bufs) \in Nat \ {0}
        /\ \A i \in 1..Len(rest) : rest[i] = bufs[i + 1]
        /\ Head(bufs) = bufs[1]
    OBVIOUS
  <1> HIDE DEF rest
  <1>5. /\ rest # <<>> => Head(rest) = rest[1]
        /\ rest = <<>> <=> Len(rest) = 0
    BY <1>1
  <1>2. Contiguous(rest, last)
    <2> SUFFICES ASSUME NEW i \in 1..Len(rest)
                 PROVE  /\ rest[i].lo + rest[i].len <= last + 1
                        /\ i = Len(rest) => rest[i].lo + rest[i].len = last + 1
                        /\ i < Len(rest) => rest[i].lo + rest[i].len = rest[i + 1].lo
      BY DEF Contiguous
    <2>1. i + 1 \in 1..Len(bufs) /\ rest[i] = bufs[i + 1]
      BY <1>1
    <2>2. i < Len(rest) => rest[i + 1] = bufs[i + 1 + 1] /\ i + 1 < Len(bufs)
      BY <1>1
    <2> QED
      BY <1>1, <2>1, <2>2 DEF Contiguous
  <1>3. rest = <<>> => Head(bufs).lo + Head(bufs).len = last + 1
    BY <1>1, <1>5 DEF Contiguous
  <1>4. rest # <<>> => Head(rest).lo = Head(bufs).lo + Head(bufs).len
    BY <1>1, <1>5 DEF Contiguous
  <1> QED
    BY <1>1, <1>2, <1>3, <1>4 DEF rest

\* The front buffer ends within the stream, after the consumed bytes.
LEMMA FrontFacts ==
  ASSUME TypeOK, QueueOK
  PROVE  /\ Consumed \in Nat /\ Consumed <= submitted
         /\ buffers = <<>> => Consumed = submitted
         /\ buffers # <<>> => /\ Head(buffers) \in Block
                              /\ Consumed = Head(buffers).lo + offset - 1
                              /\ Consumed < submitted
                              /\ Consumed + Head(buffers).len - offset <= submitted
  <1>1. CASE buffers = <<>>
    BY <1>1 DEF TypeOK, Consumed
  <1>2. CASE buffers # <<>>
    <2>1. Head(buffers) = buffers[1] /\ 1 \in 1..Len(buffers) /\ Head(buffers) \in Block
      BY <1>2 DEF TypeOK
    <2>2. Head(buffers).lo + Head(buffers).len <= submitted + 1
      BY <2>1 DEF QueueOK, Contiguous
    <2> QED
      BY <1>2, <2>1, <2>2 DEF TypeOK, QueueOK, Consumed, Block
  <1> QED
    BY <1>1, <1>2
-----------------------------------------------------------------------------
(***************************************************************************)
(* flush() and onData()                                                    *)
(***************************************************************************)
\* flush() without a write in progress starts one, exactly if it can.
LEMMA FlushIdle ==
  ASSUME NEW isOpen \in BOOLEAN, NEW bufs \in Seq(Block), NEW off \in Nat,
         bufs # <<>> => off < Head(bufs).len,
         Flush(isOpen, bufs, off, FALSE, <<>>)
  PROVE  /\ flushInProgress' \in BOOLEAN
         /\ flushInProgress' <=> writes' # <<>>
         /\ writes' # <<>> <=> isOpen /\ bufs # <<>>
         /\ writes' \in Seq(Write)
         /\ writes' # <<>> => /\ Len(writes') = 1
                              /\ Head(writes').lo = Head(bufs).lo + off
                              /\ Head(writes').len = Head(bufs).len - off
                              /\ Head(writes').st = "pending"
  <1>1. CASE isOpen /\ bufs # <<>>
    <2> DEFINE op == Front(bufs, off)
    <2>1. writes' = Append(<<>>, op) /\ flushInProgress' = TRUE
      BY <1>1 DEF Flush, StartWrite
    <2>2. Head(bufs) \in Block
      BY <1>1
    <2>3. /\ op \in Write
          /\ op.lo = Head(bufs).lo + off /\ op.len = Head(bufs).len - off
          /\ op.st = "pending"
      BY <1>1, <2>2 DEF Front, Block, Write
    <2> HIDE DEF op
    <2>4. writes' \in Seq(Write) /\ Len(writes') = 1 /\ Head(writes') = op /\ writes' # <<>>
      BY <2>1, <2>3
    <2> QED
      BY <1>1, <2>1, <2>3, <2>4
  <1>2. CASE ~(isOpen /\ bufs # <<>>)
    <2>1. writes' = <<>> /\ flushInProgress' = FALSE
      BY <1>2 DEF Flush, StartWrite
    <2>2. <<>> \in Seq(Write)
      OBVIOUS
    <2> QED
      BY <1>2, <2>1, <2>2
  <1> QED
    BY <1>1, <1>2

\* What holds of the queue and of the write after flush() was called by a step
\* that leaves nothing outstanding but what flush() started.
LEMMA FlushStep ==
  ASSUME NEW bufs \in Seq(Block), NEW off \in Nat, NEW isOpen \in BOOLEAN,
         submitted' \in Nat, wire' \in Seq(Nat),
         Contiguous(bufs, submitted'),
         IF bufs = <<>> THEN off = 0 ELSE off < Head(bufs).len,
         Len(wire') = IF bufs = <<>> THEN submitted' ELSE Head(bufs).lo + off - 1,
         \A i \in 1..Len(wire') : wire'[i] = i,
         Flush(isOpen, bufs, off, FALSE, <<>>)
  PROVE  /\ QueueOK' /\ WriteOK'
         /\ buffers' \in Seq(Block) /\ offset' \in Nat
         /\ flushInProgress' \in BOOLEAN /\ writes' \in Seq(Write)
         /\ flushInProgress' <=> writes' # <<>>
         /\ writes' # <<>> <=> isOpen /\ buffers' # <<>>
  <1>1. buffers' = bufs /\ offset' = off
    BY DEF Flush, StartWrite
  <1>2. QueueOK'
    BY <1>1 DEF QueueOK
  <1>3. /\ flushInProgress' \in BOOLEAN
        /\ flushInProgress' <=> writes' # <<>>
        /\ writes' # <<>> <=> isOpen /\ bufs # <<>>
        /\ writes' \in Seq(Write)
        /\ writes' # <<>> => /\ Len(writes') = 1
                             /\ Head(writes').lo = Head(bufs).lo + off
                             /\ Head(writes').len = Head(bufs).len - off
                             /\ Head(writes').st = "pending"
    BY FlushIdle
  <1>4. Len(wire') = Consumed'
    BY <1>1 DEF Consumed
  <1>5. WriteOK'
    <2>1. CASE writes' = <<>>
      BY <1>4, <2>1 DEF WriteOK
    <2>2. CASE writes' # <<>>
      <3>1. Head(bufs) \in Block
        BY <1>3, <2>2
      <3>2. Head(writes').lo = Consumed' + 1
        BY <1>1, <1>3, <2>2, <3>1 DEF Consumed, Block
      <3> QED
        BY <1>1, <1>3, <1>4, <2>2, <3>2 DEF WriteOK
    <2> QED
      BY <2>1, <2>2
  <1> QED
    BY <1>1, <1>2, <1>3, <1>5

\* onData() keeps the queue and the write consistent, and on an open socket
\* leaves a write outstanding.
LEMMA OnDataStep ==
  ASSUME Inv, Running, NEW n \in BlockSizes, OnData(n), UNCHANGED <<open, wire>>
  PROVE  /\ QueueOK' /\ WriteOK'
         /\ submitted' \in Nat /\ buffers' \in Seq(Block) /\ offset' \in Nat
         /\ flushInProgress' \in BOOLEAN /\ writes' \in Seq(Write)
         /\ flushInProgress' <=> writes' # <<>>
         /\ open => writes' # <<>>
         /\ ~open => writes' = writes
         /\ Consumed' = Consumed
  <1>1. n \in Nat \ {0}
    BY HandlerAssumption
  <1> DEFINE all == Emplace(n)
  <1>2. submitted' = submitted + n /\ Flush(open, all, offset, flushInProgress, writes)
    BY DEF OnData
  <1>3. all \in Seq(Block) /\ Contiguous(all, submitted') /\ submitted' \in Nat
    BY <1>1, <1>2, ContiguousAppend DEF Emplace, Inv, TypeOK, QueueOK
  <1>4. /\ all # <<>>
        /\ buffers # <<>> => Head(all) = Head(buffers)
        /\ buffers = <<>> => Head(all).lo = submitted + 1 /\ Head(all).len = n
    <2> DEFINE new == [lo |-> submitted + 1, len |-> n]
    <2>1. new \in Block /\ new.lo = submitted + 1 /\ new.len = n /\ all = Append(buffers, new)
      BY <1>1 DEF Emplace, Inv, TypeOK, Block
    <2>2. buffers \in Seq(Block)
      BY DEF Inv, TypeOK
    <2> HIDE DEF new, all
    <2>3. /\ all # <<>>
          /\ buffers # <<>> => Head(all) = Head(buffers)
          /\ buffers = <<>> => Head(all) = new
      BY <2>1, <2>2
    <2> QED
      BY <2>1, <2>3
  <1> HIDE DEF all
  <1>5. buffers' = all /\ offset' = offset /\ offset \in Nat
    BY <1>2 DEF Flush, StartWrite, Inv, TypeOK
  <1>6. offset < Head(all).len /\ Consumed = Head(all).lo + offset - 1
    <2>1. CASE buffers = <<>>
      <3>1. offset = 0 /\ submitted \in Nat /\ Consumed = submitted
        BY <2>1 DEF Inv, TypeOK, QueueOK, Consumed
      <3> QED
        BY <1>1, <1>4, <2>1, <3>1
    <2>2. CASE buffers # <<>>
      BY <1>4, <2>2 DEF Inv, QueueOK, Consumed
    <2> QED
      BY <2>1, <2>2
  <1>7. Consumed' = Consumed
    BY <1>4, <1>5, <1>6 DEF Consumed
  <1>8. CASE writes = <<>>
    <2>1. Flush(open, all, offset, FALSE, <<>>)
      BY <1>2, <1>8 DEF Flush, StartWrite, Inv, PhaseOK, TypeOK
    <2>2. Len(wire') = Head(all).lo + offset - 1 /\ wire' \in Seq(Nat)
          /\ \A i \in 1..Len(wire') : wire'[i] = i
      BY <1>6, <1>8 DEF Inv, WriteOK, TypeOK
    <2>3. open \in BOOLEAN
      BY DEF Inv, TypeOK
    <2> QED
      BY <1>3, <1>4, <1>5, <1>6, <1>7, <1>8, <2>1, <2>2, <2>3, FlushStep
  <1>9. CASE writes # <<>>
    <2>1. flushInProgress = TRUE /\ writes' = writes /\ flushInProgress' = TRUE
      BY <1>2, <1>9 DEF Flush, StartWrite, Inv, PhaseOK, TypeOK
    <2>2. QueueOK'
      BY <1>3, <1>4, <1>5, <1>6 DEF QueueOK
    <2>3. buffers # <<>> /\ Head(buffers') = Head(buffers)
      BY <1>4, <1>5, <1>9 DEF Inv, WriteOK
    <2>4. WriteOK'
      BY <1>4, <1>5, <1>7, <1>9, <2>1, <2>3 DEF Inv, WriteOK
    <2> QED
      BY <1>3, <1>5, <1>7, <1>9, <2>1, <2>2, <2>4 DEF Inv, TypeOK
  <1> QED
    BY <1>8, <1>9

-----------------------------------------------------------------------------
(***************************************************************************)
(* The invariant                                                           *)
(***************************************************************************)
LEMMA InitInv == Init => Inv
  <1> SUFFICES ASSUME Init PROVE Inv
    OBVIOUS
  <1>1. TypeOK
    <2>1. <<>> \in Seq(Block) /\ <<>> \in Seq(Write) /\ <<>> \in Seq(Nat)
      OBVIOUS
    <2> QED
      BY <2>1 DEF Init, TypeOK
  <1>2. QueueOK /\ WriteOK
    BY DEF Init, QueueOK, WriteOK, Contiguous, Consumed
  <1>3. PhaseOK
    BY DEF Init, PhaseOK, Up, Running
  <1> QED
    BY <1>1, <1>2, <1>3 DEF Inv

\* A step that leaves the queue alone.
LEMMA QueueKept ==
  ASSUME QueueOK, UNCHANGED <<submitted, buffers, offset>>
  PROVE  QueueOK' /\ Consumed' = Consumed
  BY DEF QueueOK, Consumed

\* A step that leaves the queue, the writes and the wire alone.
LEMMA WriteKept ==
  ASSUME QueueOK, WriteOK, UNCHANGED <<submitted, buffers, offset, writes, wire>>
  PROVE  QueueOK' /\ WriteOK'
  BY QueueKept DEF WriteOK

LEMMA HandshakeInv ==
  ASSUME Inv, Handshake
  PROVE  Inv'
  <1>1. ASSUME NEW n \in BlockSizes, Connect(n)
        PROVE  Inv'
    <2>1. Running /\ OnData(n) /\ UNCHANGED <<open, wire>>
      BY <1>1 DEF Connect
    <2>2. TypeOK'
      BY <1>1, <2>1, OnDataStep DEF Connect, Inv, TypeOK, heartbeat, callbacks
    <2>3. PhaseOK'
      BY <1>1, <2>1, OnDataStep
      DEF Connect, Inv, TypeOK, PhaseOK, Up, Running, heartbeat, callbacks
    <2> QED
      BY <2>1, <2>2, <2>3, OnDataStep DEF Inv
  <1>2. ASSUME ResolveHandler
        PROVE  Inv'
    <2>1. QueueOK' /\ WriteOK'
      BY <1>2, WriteKept DEF ResolveHandler, Inv, sendQueue
    <2>2. TypeOK'
      BY <1>2 DEF ResolveHandler, OnError, Inv, TypeOK, library, sendQueue, heartbeat
    <2>3. PhaseOK'
      <3>1. ~Up /\ ~Up' /\ UNCHANGED <<amqp, asked, writes, reading, flushInProgress,
                                       closeCallbacks, submitted, wire, armed>>
        BY <1>2 DEF ResolveHandler, Up, library, sendQueue, heartbeat
      <3>2. CASE setup' = "connecting" /\ open' = TRUE /\ UNCHANGED loop
        BY <1>2, <3>1, <3>2 DEF ResolveHandler, Inv, PhaseOK, Running
      <3>3. CASE OnError /\ UNCHANGED setup
        BY <1>2, <3>1, <3>3 DEF ResolveHandler, OnError, Inv, PhaseOK, Running
      <3> QED
        BY <1>2, <3>2, <3>3 DEF ResolveHandler
    <2> QED
      BY <2>1, <2>2, <2>3 DEF Inv
  <1>3. ASSUME StartTransfer, Running, ~Up, setup \notin {"new", "resolving"},
               UNCHANGED <<library, wire, heartbeat, closeCallbacks>>
        PROVE  Inv'
    <2>1. /\ buffers \in Seq(Block) /\ offset \in Nat /\ open \in BOOLEAN
          /\ writes = <<>> /\ flushInProgress = FALSE /\ submitted' = submitted
          /\ submitted \in Nat /\ wire' \in Seq(Nat)
          /\ Len(wire') = IF buffers = <<>> THEN submitted' ELSE Head(buffers).lo + offset - 1
          /\ \A i \in 1..Len(wire') : wire'[i] = i
      BY <1>3 DEF StartTransfer, Inv, TypeOK, PhaseOK, WriteOK, Consumed
    <2>2. Flush(open, buffers, offset, FALSE, <<>>)
      BY <1>3, <2>1 DEF StartTransfer, Flush, StartWrite
    <2>3. /\ Contiguous(buffers, submitted')
          /\ IF buffers = <<>> THEN offset = 0 ELSE offset < Head(buffers).len
      BY <2>1 DEF Inv, QueueOK
    <2>4. /\ QueueOK' /\ WriteOK'
          /\ buffers' \in Seq(Block) /\ offset' \in Nat
          /\ flushInProgress' \in BOOLEAN /\ writes' \in Seq(Write)
          /\ flushInProgress' <=> writes' # <<>>
          /\ writes' # <<>> <=> open /\ buffers' # <<>>
      BY <2>1, <2>2, <2>3, FlushStep
    <2>5. TypeOK'
      BY <1>3, <2>1, <2>4 DEF StartTransfer, Inv, TypeOK, library, heartbeat
    <2>6. PhaseOK'
      BY <1>3, <2>4
      DEF StartTransfer, Inv, TypeOK, PhaseOK, Up, Running, library, heartbeat
    <2> QED
      BY <2>4, <2>5, <2>6 DEF Inv
  <1>4. ASSUME SetupFails, Running, ~Up, setup \notin {"new", "resolving"},
               UNCHANGED <<library, wire, heartbeat, closeCallbacks>>
        PROVE  Inv'
    <2>1. QueueOK' /\ WriteOK'
      BY <1>4, WriteKept DEF SetupFails, Inv, sendQueue
    <2>2. TypeOK'
      BY <1>4 DEF SetupFails, OnError, Inv, TypeOK, library, sendQueue, heartbeat
    <2>3. PhaseOK'
      BY <1>4
      DEF SetupFails, OnError, Inv, TypeOK, PhaseOK, Up, Running, library, sendQueue, heartbeat
    <2> QED
      BY <2>1, <2>2, <2>3 DEF Inv
  <1>5. ASSUME ConnectHandler
        PROVE  Inv'
    <2>1. CASE Secure /\ setup' = "handshaking"
               /\ UNCHANGED <<open, sendQueue, reading, errorReported, loop>>
      <3>1. QueueOK' /\ WriteOK'
        BY <1>5, <2>1, WriteKept DEF ConnectHandler, Inv, sendQueue
      <3>2. TypeOK' /\ PhaseOK'
        BY <1>5, <2>1
        DEF ConnectHandler, Inv, TypeOK, PhaseOK, Up, Running, library, sendQueue, heartbeat
      <3> QED
        BY <3>1, <3>2 DEF Inv
    <2>2. Running /\ ~Up /\ setup \notin {"new", "resolving"}
          /\ UNCHANGED <<library, wire, heartbeat, closeCallbacks>>
      BY <1>5 DEF ConnectHandler, Up
    <2> QED
      BY <1>3, <1>4, <1>5, <2>1, <2>2 DEF ConnectHandler
  <1>6. ASSUME HandshakeHandler
        PROVE  Inv'
    <2>1. Running /\ ~Up /\ setup \notin {"new", "resolving"}
          /\ UNCHANGED <<library, wire, heartbeat, closeCallbacks>>
      BY <1>6 DEF HandshakeHandler, Up
    <2> QED
      BY <1>3, <1>4, <1>6, <2>1 DEF HandshakeHandler
  <1> QED
    BY <1>1, <1>2, <1>5, <1>6 DEF Handshake

LEMMA TailOfOne ==
  ASSUME NEW S, NEW seq \in Seq(S), Len(seq) = 1
  PROVE  Tail(seq) = <<>>
  <1>1. seq # <<>>
    BY EmptySeq
  <1>2. Tail(seq) \in Seq(S) /\ Len(Tail(seq)) = 0
    BY <1>1, HeadTailProperties
  <1> QED
    BY <1>2, EmptySeq

\* consume() advances the queue by the bytes the write reported.
LEMMA ConsumeFacts ==
  ASSUME Inv, writes # <<>>, Head(writes).st = "done",
         NEW left, left = Consume(Head(writes).n)
  PROVE  /\ left.bufs \in Seq(Block) /\ left.off \in Nat
         /\ Contiguous(left.bufs, submitted)
         /\ IF left.bufs = <<>> THEN left.off = 0 ELSE left.off < Head(left.bufs).len
         /\ Len(wire) = IF left.bufs = <<>> THEN submitted
                        ELSE Head(left.bufs).lo + left.off - 1
  <1> DEFINE n == Head(writes).n
  <1>0. left = Consume(n)
    OBVIOUS
  <1>1. /\ buffers # <<>> /\ buffers \in Seq(Block) /\ submitted \in Nat /\ offset \in Nat
        /\ Contiguous(buffers, submitted) /\ offset < Head(buffers).len
        /\ Head(buffers).lo \in Nat /\ Head(buffers).len \in Nat /\ n \in Nat
        /\ n <= Head(buffers).len - offset
        /\ Len(wire) = Head(buffers).lo + offset - 1 + n
    <2>1. /\ buffers # <<>> /\ n \in 1..Head(writes).len /\ Len(wire) = Consumed + n
          /\ Head(writes).len = Head(buffers).len - offset
      BY DEF Inv, WriteOK
    <2>2. /\ Contiguous(buffers, submitted) /\ offset < Head(buffers).len
          /\ buffers \in Seq(Block) /\ submitted \in Nat /\ offset \in Nat
          /\ Consumed = Head(buffers).lo + offset - 1
      BY <2>1 DEF Inv, TypeOK, QueueOK, Consumed
    <2>3. Head(buffers) \in Block
      BY <2>1, <2>2, HeadTailProperties
    <2>4. Head(buffers).lo \in Nat /\ Head(buffers).len \in Nat
      BY <2>3 DEF Block
    <2> HIDE DEF n
    <2> QED
      BY <2>1, <2>2, <2>4
  <1> HIDE DEF n
  <1>2. CASE Head(buffers).len = offset + n
    <2>1. left.bufs = Tail(buffers) /\ left.off = 0
      BY <1>0, <1>2 DEF Consume
    <2> DEFINE rest == Tail(buffers)
    <2>2. /\ rest \in Seq(Block) /\ Contiguous(rest, submitted)
          /\ rest = <<>> => Head(buffers).lo + Head(buffers).len = submitted + 1
          /\ rest # <<>> => Head(rest).lo = Head(buffers).lo + Head(buffers).len
      BY <1>1, ContiguousTail
    <2>3. rest # <<>> => Head(rest).len > 0
      <3>1. rest # <<>> => Head(rest) \in Block
        BY <2>2, HeadTailProperties
      <3> QED
        BY <3>1 DEF Block
    <2> DEFINE lo == Head(buffers).lo
               len == Head(buffers).len
    <2>4. lo \in Nat /\ len \in Nat /\ Len(wire) = lo + len - 1 /\ submitted \in Nat
      BY <1>1, <1>2
    <2>5. rest = <<>> => lo + len = submitted + 1
      BY <2>2
    <2>6. rest # <<>> => Head(rest).lo = lo + len
      BY <2>2
    <2> HIDE DEF lo, len, rest
    <2>7. rest = <<>> => Len(wire) = submitted
      BY <2>4, <2>5
    <2>8. rest # <<>> => Len(wire) = Head(rest).lo + 0 - 1
      BY <2>4, <2>6
    <2>9. rest \in Seq(Block) /\ Contiguous(rest, submitted)
      BY <2>2
    <2>10. left.bufs = rest /\ left.off = 0
      BY <2>1 DEF rest
    <2> QED
      BY <2>3, <2>7, <2>8, <2>9, <2>10
  <1>3. CASE Head(buffers).len # offset + n
    <2>1. left.bufs = buffers /\ left.off = offset + n
      BY <1>0, <1>3 DEF Consume
    <2>2. offset + n < Head(buffers).len /\ offset + n \in Nat
          /\ Len(wire) = Head(buffers).lo + (offset + n) - 1
      BY <1>1, <1>3
    <2> QED
      BY <1>1, <2>1, <2>2
  <1> QED
    BY <1>2, <1>3

\* What the socket has after it took n more bytes.
LEMMA WireGrows ==
  ASSUME Inv, NEW n \in Nat, writes # <<>>, Head(writes).st = "pending", WriteCompletes(n)
  PROVE  /\ n \in 1..Head(writes).len
         /\ wire' = [b \in 1..(Len(wire) + n) |-> b]
         /\ wire' \in Seq(Nat)
         /\ Len(wire') = Len(wire) + n
         /\ \A i \in 1..Len(wire') : wire'[i] = i
  <1>1. /\ n \in 1..Head(writes).len /\ wire \in Seq(Nat) /\ Len(wire) \in Nat
        /\ Head(writes).lo = Len(wire) + 1
        /\ \A i \in 1..Len(wire) : wire[i] = i
    BY DEF WriteCompletes, Inv, TypeOK, WriteOK
  <1> DEFINE new == [i \in 1..n |-> Head(writes).lo + i - 1]
  <1>2. new \in Seq(Nat) /\ Len(new) = n /\ \A i \in 1..n : new[i] = Len(wire) + i
    BY <1>1
  <1>3. wire' = wire \o new
    BY DEF WriteCompletes
  <1> HIDE DEF new
  <1>4. /\ wire' \in Seq(Nat) /\ Len(wire') = Len(wire) + n
        /\ \A i \in 1..(Len(wire) + n) :
             wire'[i] = IF i <= Len(wire) THEN wire[i] ELSE new[i - Len(wire)]
    BY <1>1, <1>2, <1>3, ConcatProperties
  <1>5. \A i \in 1..(Len(wire) + n) : wire'[i] = i
    <2> SUFFICES ASSUME NEW i \in 1..(Len(wire) + n) PROVE wire'[i] = i
      OBVIOUS
    <2>1. CASE i <= Len(wire)
      BY <1>1, <1>4, <2>1
    <2>2. CASE i > Len(wire)
      <3>1. i - Len(wire) \in 1..n /\ wire'[i] = new[i - Len(wire)]
        BY <1>1, <1>4, <2>2
      <3> QED
        BY <1>1, <1>2, <3>1
    <2> QED
      BY <1>1, <2>1, <2>2
  <1>6. wire' = [b \in 1..(Len(wire) + n) |-> b]
    BY <1>4, <1>5
  <1> QED
    BY <1>1, <1>4, <1>5, <1>6

LEMMA TransmitInv ==
  ASSUME Inv, Transmit
  PROVE  Inv'
  <1>1. ASSUME NEW n \in Nat, WriteCompletes(n)
        PROVE  Inv'
    <2> DEFINE op == [writes[1] EXCEPT !.st = "done", !.n = n]
    <2>1. /\ Running /\ writes # <<>> /\ Head(writes).st = "pending"
          /\ writes' = [writes EXCEPT ![1].st = "done", ![1].n = n]
          /\ UNCHANGED <<setup, open, library, submitted, buffers, offset, flushInProgress,
                         reading, heartbeat, callbacks, loop>>
      BY <1>1 DEF WriteCompletes
    <2>2. writes \in Seq(Write) /\ Len(writes) = 1 /\ Head(writes) = writes[1]
          /\ writes[1] \in Write
      BY <2>1 DEF Inv, TypeOK, WriteOK
    <2>3. writes' \in Seq(Write) /\ Len(writes') = 1 /\ writes' # <<>>
          /\ Head(writes').lo = Head(writes).lo /\ Head(writes').len = Head(writes).len
          /\ Head(writes').st = "done" /\ Head(writes').n = n
      <3>1. op \in Write /\ op.lo = writes[1].lo /\ op.len = writes[1].len
            /\ op.st = "done" /\ op.n = n
        BY <2>1, <2>2 DEF Write
      <3>2. writes' = [writes EXCEPT ![1] = op]
        BY <2>1, <2>2 DEF Write
      <3> HIDE DEF op
      <3>3. writes' \in Seq(Write) /\ Len(writes') = 1 /\ writes'[1] = op
        <4>1. 1 \in 1..Len(writes) /\ op \in Write /\ writes \in Seq(Write)
          BY <2>2, <3>1
        <4>2. /\ [writes EXCEPT ![1] = op] \in Seq(Write)
              /\ Len([writes EXCEPT ![1] = op]) = Len(writes)
              /\ [writes EXCEPT ![1] = op][1] = op
          BY <4>1
        <4> QED
          BY <2>2, <3>2, <4>2
      <3>4. writes' # <<>> /\ Head(writes') = op
        <4>1. writes' # <<>>
          BY <3>3
        <4>2. Head(writes') = writes'[1]
          BY <3>3, <4>1
        <4> QED
          BY <3>3, <4>1, <4>2
      <3> QED
        BY <2>2, <3>1, <3>4, <3>3
    <2>4. /\ wire' \in Seq(Nat) /\ Len(wire') = Len(wire) + n
          /\ n \in 1..Head(writes).len
          /\ \A i \in 1..Len(wire') : wire'[i] = i
      BY <1>1, <2>1, WireGrows
    <2>5. QueueOK' /\ Consumed' = Consumed
      BY <2>1, QueueKept DEF Inv
    <2>6. WriteOK'
      <3>1. /\ buffers # <<>> /\ Len(wire) = Consumed
            /\ Head(writes).lo = Consumed + 1
            /\ Head(writes).len = Head(buffers).len - offset
        BY <2>1 DEF Inv, WriteOK
      <3>2. /\ buffers' # <<>>
            /\ Head(writes').lo = Consumed' + 1
            /\ Head(writes').len = Head(buffers').len - offset'
            /\ n \in 1..Head(writes').len
            /\ Len(wire') = Consumed' + n
        BY <2>1, <2>3, <2>4, <2>5, <3>1
      <3> QED
        BY <2>3, <2>4, <3>2 DEF WriteOK
    <2>7. TypeOK'
      BY <2>1, <2>3, <2>4 DEF Inv, TypeOK, library, heartbeat, callbacks
    <2>8. Up /\ closeCallbacks = 0
      <3>1. Up
        BY <2>1 DEF Inv, PhaseOK
      <3>2. Head(writes).st # "done"
        BY <2>1
      <3> QED
        BY <1>1, <2>1, <3>1, <3>2 DEF Inv, PhaseOK, TypeOK, Up
    <2>9. PhaseOK'
      BY <1>1, <2>1, <2>3, <2>8 DEF Inv, PhaseOK, Up, Running, library, heartbeat, callbacks
    <2> QED
      BY <2>5, <2>6, <2>7, <2>9 DEF Inv
  <1>2. ASSUME WriteFails
        PROVE  Inv'
    <2> DEFINE op == [writes[1] EXCEPT !.st = "failed"]
    <2>1. /\ Running /\ writes # <<>> /\ Head(writes).st = "pending"
          /\ writes' = [writes EXCEPT ![1].st = "failed"]
          /\ UNCHANGED <<setup, open, library, submitted, buffers, offset, flushInProgress,
                         wire, reading, heartbeat, callbacks, loop>>
      BY <1>2 DEF WriteFails
    <2>2. writes \in Seq(Write) /\ Len(writes) = 1 /\ Head(writes) = writes[1]
          /\ writes[1] \in Write
      BY <2>1 DEF Inv, TypeOK, WriteOK
    <2>3. writes' \in Seq(Write) /\ Len(writes') = 1 /\ writes' # <<>>
          /\ Head(writes').lo = Head(writes).lo /\ Head(writes').len = Head(writes).len
          /\ Head(writes').st = "failed"
      <3>1. op \in Write /\ op.lo = writes[1].lo /\ op.len = writes[1].len
            /\ op.st = "failed"
        BY <2>2 DEF Write
      <3>2. writes' = [writes EXCEPT ![1] = op]
        BY <2>1, <2>2 DEF Write
      <3> HIDE DEF op
      <3>3. writes' \in Seq(Write) /\ Len(writes') = 1 /\ writes'[1] = op
        <4>1. 1 \in 1..Len(writes) /\ op \in Write /\ writes \in Seq(Write)
          BY <2>2, <3>1
        <4>2. /\ [writes EXCEPT ![1] = op] \in Seq(Write)
              /\ Len([writes EXCEPT ![1] = op]) = Len(writes)
              /\ [writes EXCEPT ![1] = op][1] = op
          BY <4>1
        <4> QED
          BY <2>2, <3>2, <4>2
      <3>4. writes' # <<>> /\ Head(writes') = op
        <4>1. writes' # <<>>
          BY <3>3
        <4>2. Head(writes') = writes'[1]
          BY <3>3, <4>1
        <4> QED
          BY <3>3, <4>1, <4>2
      <3> QED
        BY <2>2, <3>1, <3>3, <3>4
    <2>4. QueueOK' /\ Consumed' = Consumed
      BY <2>1, QueueKept DEF Inv
    <2>5. WriteOK'
      BY <2>1, <2>3, <2>4 DEF Inv, WriteOK
    <2>6. TypeOK'
      BY <2>1, <2>3 DEF Inv, TypeOK, library, heartbeat, callbacks
    <2>7. Up /\ open /\ closeCallbacks = 0
      BY <2>1 DEF Inv, PhaseOK, TypeOK, Up
    <2>8. PhaseOK'
      BY <2>1, <2>3, <2>7 DEF Inv, PhaseOK, Up, Running, library, heartbeat, callbacks
    <2> QED
      BY <2>4, <2>5, <2>6, <2>8 DEF Inv
  <1>3. ASSUME WriteHandler
        PROVE  Inv'
    <2> DEFINE left == Consume(Head(writes).n)
    <2>1. /\ Running /\ writes # <<>> /\ Head(writes).st = "done"
          /\ Flush(open, left.bufs, left.off, FALSE, Tail(writes))
          /\ armed' = (armed \/ (interval # 0 /\ open))
          /\ UNCHANGED <<setup, open, library, submitted, wire, reading, timeout, interval,
                         beats, callbacks, loop>>
      BY <1>3 DEF WriteHandler
    <2>2. /\ left.bufs \in Seq(Block) /\ left.off \in Nat
          /\ Contiguous(left.bufs, submitted)
          /\ IF left.bufs = <<>> THEN left.off = 0 ELSE left.off < Head(left.bufs).len
          /\ Len(wire) = IF left.bufs = <<>> THEN submitted
                         ELSE Head(left.bufs).lo + left.off - 1
      BY <2>1, ConsumeFacts
    <2>3. Tail(writes) = <<>>
      <3>1. writes \in Seq(Write) /\ Len(writes) = 1
        BY <2>1 DEF Inv, TypeOK, WriteOK
      <3> QED
        BY <3>1, TailOfOne
    <2>4. /\ open \in BOOLEAN /\ submitted' \in Nat /\ wire' \in Seq(Nat)
          /\ \A i \in 1..Len(wire') : wire'[i] = i
      BY <2>1 DEF Inv, TypeOK, WriteOK
    <2> HIDE DEF left
    <2>5. Flush(open, left.bufs, left.off, FALSE, <<>>)
      BY <2>1, <2>3 DEF Flush, StartWrite
    <2>6. /\ QueueOK' /\ WriteOK'
          /\ buffers' \in Seq(Block) /\ offset' \in Nat
          /\ flushInProgress' \in BOOLEAN /\ writes' \in Seq(Write)
          /\ flushInProgress' <=> writes' # <<>>
          /\ writes' # <<>> <=> open /\ buffers' # <<>>
      BY <2>1, <2>2, <2>4, <2>5, FlushStep
    <2>7. TypeOK'
      BY <2>1, <2>6 DEF Inv, TypeOK, library, callbacks
    <2>8. Up
      BY <2>1 DEF Inv, PhaseOK
    <2>9. PhaseOK'
      BY <2>1, <2>6, <2>8 DEF Inv, TypeOK, PhaseOK, Up, Running, library, callbacks
    <2> QED
      BY <2>6, <2>7, <2>9 DEF Inv
  <1>4. ASSUME WriteErrorHandler
        PROVE  Inv'
    <2>1. /\ Running /\ writes # <<>> /\ Head(writes).st = "failed" /\ writes' = Tail(writes)
          /\ loop' = "threw" /\ open' \in BOOLEAN /\ errorReported' \in BOOLEAN
          /\ UNCHANGED <<setup, library, submitted, buffers, offset, flushInProgress, wire,
                         reading, heartbeat, closeCallbacks>>
      BY <1>4 DEF WriteErrorHandler, FailThenOnError, OnError, Inv, TypeOK
    <2>2. writes' = <<>> /\ <<>> \in Seq(Write)
      BY <2>1 DEF Inv, TypeOK, WriteOK
    <2>3. QueueOK' /\ Consumed' = Consumed
      BY <2>1, QueueKept DEF Inv
    <2>4. WriteOK'
      BY <2>1, <2>2, <2>3 DEF Inv, WriteOK
    <2>5. TypeOK'
      BY <2>1, <2>2 DEF Inv, TypeOK, library, heartbeat
    <2>6. Up /\ open
      BY <2>1 DEF Inv, PhaseOK, TypeOK
    <2>7. PhaseOK'
      BY <2>1, <2>2, <2>6 DEF Inv, PhaseOK, Up, Running, library, heartbeat
    <2> QED
      BY <2>3, <2>4, <2>5, <2>7 DEF Inv
  <1>5. ASSUME writes # <<>>, NEW n \in 1..Head(writes).len, WriteCompletes(n)
        PROVE  Inv'
    <2>1. Head(writes) \in Write
      BY <1>5, HeadTailProperties DEF Inv, TypeOK
    <2>2. Head(writes).len \in Nat
      BY <2>1 DEF Write
    <2>3. n \in Nat
      BY <2>2
    <2> QED
      BY <1>1, <1>5, <2>3
  <1> QED
    BY <1>2, <1>3, <1>4, <1>5 DEF Transmit

\* A step that hands a block to onData() and otherwise stays within the phase.
LEMMA SendInv ==
  ASSUME Inv, Running, Up, NEW n \in BlockSizes, OnData(n),
         UNCHANGED <<setup, open, wire, errorReported, closeCallbacks, loop>>,
         amqp' \in {"handshake", "opening", "connected", "closing"},
         amqp # "none", closeWanted' \in BOOLEAN,
         asked' = asked \/ asked' = submitted',
         amqp' = "closing" => asked' = submitted',
         reading' = reading,
         timeout' \in Nat, interval' \in Nat, armed' \in BOOLEAN, beats' \in Nat
  PROVE  Inv'
  <1>1. /\ QueueOK' /\ WriteOK'
        /\ submitted' \in Nat /\ buffers' \in Seq(Block) /\ offset' \in Nat
        /\ flushInProgress' \in BOOLEAN /\ writes' \in Seq(Write)
        /\ flushInProgress' <=> writes' # <<>>
        /\ open => writes' # <<>>
    BY OnDataStep
  <1>2. wire' \in Seq(Nat) /\ asked' \in Nat
    BY <1>1 DEF Inv, TypeOK
  <1>3. TypeOK'
    BY <1>1, <1>2 DEF Inv, TypeOK
  <1>4. open /\ closeCallbacks = 0
    BY DEF Inv, PhaseOK, TypeOK, Up
  <1>5. PhaseOK'
    BY <1>1, <1>4 DEF Inv, PhaseOK, Up, Running
  <1> QED
    BY <1>1, <1>3, <1>5 DEF Inv

\* The socket is open while a read is outstanding, so read() is called again.
LEMMA ReadingOpen ==
  ASSUME Inv, Receives
  PROVE  open = TRUE /\ reading = TRUE /\ amqp # "none" /\ closeCallbacks = 0
  BY DEF Inv, TypeOK, PhaseOK, Receives, Up

LEMMA ReceiveInv ==
  ASSUME Inv, Receive
  PROVE  Inv'
  <1>1. ASSUME NEW n \in BlockSizes, FrameStart(n)
        PROVE  Inv'
    BY <1>1, SendInv, ReadingOpen
    DEF FrameStart, Receives, ReadAgain, Inv, TypeOK, callbacks, heartbeat
  <1>2. ASSUME NEW n \in BlockSizes, NEW t \in Timeouts, FrameTune(t, n)
        PROVE  Inv'
    <2>1. t \in Nat /\ t \div 2 \in Nat
      BY HandlerAssumption
    <2> QED
      BY <1>2, <2>1, SendInv, ReadingOpen
      DEF FrameTune, HeartbeatInterval, Receives, ReadAgain, Inv, TypeOK, callbacks
  <1>3. ASSUME NEW n \in BlockSizes, FrameOpenOk(n)
        PROVE  Inv'
    BY <1>3, SendInv, ReadingOpen
    DEF FrameOpenOk, Receives, ReadAgain, Inv, TypeOK, callbacks, heartbeat
  <1>4. ASSUME NEW n \in BlockSizes, FrameAnswered(n)
        PROVE  Inv'
    BY <1>4, SendInv, ReadingOpen
    DEF FrameAnswered, Receives, ReadAgain, Inv, TypeOK, callbacks, heartbeat, library
  <1>5. ASSUME NEW n \in BlockSizes, FrameDrained(n)
        PROVE  Inv'
    BY <1>5, SendInv, ReadingOpen
    DEF FrameDrained, SendClose, Receives, ReadAgain, Inv, TypeOK, callbacks, heartbeat
  <1>6. ASSUME FrameCloseOk
        PROVE  Inv'
    <2>1. /\ Running /\ Up /\ open /\ closeCallbacks = 0 /\ amqp = "closing"
          /\ Len(wire) >= asked /\ asked = submitted
          /\ open' = FALSE /\ reading' = FALSE /\ armed' = FALSE /\ amqp' = "none"
          /\ writes' = Aborted(writes) /\ closeCallbacks' = 1
          /\ UNCHANGED <<setup, closeWanted, asked, submitted, buffers, offset,
                         flushInProgress, wire, timeout, interval, beats, errorReported, loop>>
      <3>1. open /\ closeCallbacks = 0 /\ reading
        BY <1>6, ReadingOpen DEF FrameCloseOk
      <3>2. amqp = "closing" /\ asked = submitted
        BY <1>6 DEF FrameCloseOk, Inv, PhaseOK
      <3> QED
        BY <1>6, <3>1, <3>2 DEF FrameCloseOk, Receives, ReadAgain, BrokerMayAnswer
    <2>2. /\ Consumed \in Nat /\ Consumed <= submitted
          /\ buffers # <<>> => Consumed + Head(buffers).len - offset <= submitted
          /\ buffers # <<>> => Consumed < submitted
          /\ submitted \in Nat /\ wire \in Seq(Nat) /\ Len(wire) \in Nat
      BY FrontFacts DEF Inv, TypeOK
    <2>3. /\ Len(wire) = submitted
          /\ writes # <<>> => Head(writes).st = "done"
      <3>1. writes = <<>> => Len(wire) = Consumed
        BY DEF Inv, WriteOK
      <3>2. writes # <<>> => /\ buffers # <<>>
                             /\ Head(writes).len = Head(buffers).len - offset
                             /\ Head(writes).st # "done" => Len(wire) = Consumed
                             /\ Head(writes).st = "done" =>
                                  /\ Head(writes).n \in 1..Head(writes).len
                                  /\ Len(wire) = Consumed + Head(writes).n
        BY DEF Inv, WriteOK
      <3>3. Len(wire) <= submitted
        <4>1. CASE writes # <<>> /\ Head(writes).st = "done"
          <5> DEFINE rest == Head(buffers).len - offset
          <5>1. Head(writes).n \in 1..rest /\ Len(wire) = Consumed + Head(writes).n
            BY <3>2, <4>1
          <5>2. buffers # <<>>
            BY <3>2, <4>1
          <5>3. Head(buffers) \in Block
            BY <5>2, FrontFacts DEF Inv
          <5>4. rest \in Int /\ Consumed + rest <= submitted
            BY <2>2, <5>2, <5>3 DEF Inv, TypeOK, Block
          <5> HIDE DEF rest
          <5> QED
            BY <2>2, <5>1, <5>4
        <4> QED
          BY <2>2, <3>1, <3>2, <4>1
      <3>4. Len(wire) = submitted
        BY <2>1, <2>2, <3>3
      <3> QED
        BY <2>2, <3>2, <3>4
    <2>4. writes' = writes
      <3>1. writes \in Seq(Write) /\ (writes # <<>> => Len(writes) = 1)
        BY DEF Inv, TypeOK, WriteOK
      <3>2. \A i \in 1..Len(writes) : writes[i].st # "pending"
        BY <2>3, <3>1
      <3>3. writes' = [i \in 1..Len(writes) |-> writes[i]]
        BY <2>1, <3>2 DEF Aborted
      <3> QED
        BY <3>1, <3>3
    <2>5. QueueOK' /\ WriteOK'
      BY <2>1, <2>4, WriteKept DEF Inv
    <2>6. TypeOK'
      BY <2>1, <2>4 DEF Inv, TypeOK
    <2>7. PhaseOK'
      BY <2>1, <2>3, <2>4 DEF Inv, TypeOK, PhaseOK, Up, Running
    <2> QED
      BY <2>5, <2>6, <2>7 DEF Inv
  <1>7. ASSUME ReadErrorHandler
        PROVE  Inv'
    <2>1. /\ Running /\ Up /\ closeCallbacks = 0 /\ reading' = FALSE /\ loop' = "threw"
          /\ open' \in BOOLEAN /\ errorReported' \in BOOLEAN
          /\ UNCHANGED <<setup, library, sendQueue, wire, heartbeat, closeCallbacks>>
      BY <1>7, ReadingOpen
      DEF ReadErrorHandler, Receives, FailThenOnError, OnError, Inv, TypeOK
    <2>2. QueueOK' /\ WriteOK'
      BY <2>1, WriteKept DEF Inv, sendQueue
    <2>3. TypeOK'
      BY <2>1 DEF Inv, TypeOK, library, sendQueue, heartbeat
    <2>4. PhaseOK'
      BY <2>1 DEF Inv, PhaseOK, Up, Running, library, sendQueue, heartbeat
    <2> QED
      BY <2>2, <2>3, <2>4 DEF Inv
  <1> QED
    BY <1>1, <1>2, <1>3, <1>4, <1>5, <1>6, <1>7 DEF Receive

\* Only a connection that is up has a library in a state after the handshake's
\* first answer.
LEMMA UpWhenStarted ==
  ASSUME Inv, amqp \in {"handshake", "opening", "connected", "closing"}
  PROVE  Up /\ closeCallbacks = 0 /\ (Running => open)
  BY DEF Inv, TypeOK, PhaseOK, Up

LEMMA HeartbeatInv ==
  ASSUME Inv, Heartbeat
  PROVE  Inv'
  <1>1. ASSUME Expire
        PROVE  Inv'
    <2>1. QueueOK' /\ WriteOK'
      BY <1>1, WriteKept DEF Expire, Inv, sendQueue
    <2>2. TypeOK'
      <3>1. beats \in Nat /\ beats' = beats + 1 /\ armed' = FALSE
        BY <1>1 DEF Expire, Inv, TypeOK
      <3>2. beats' \in Nat
        BY <3>1
      <3>3. UNCHANGED <<setup, open, library, sendQueue, wire, reading, timeout, interval,
                        callbacks, loop>>
        BY <1>1 DEF Expire
      <3> QED
        BY <3>1, <3>2, <3>3 DEF Inv, TypeOK, library, sendQueue, callbacks
    <2>3. PhaseOK'
      <3>1. armed' = FALSE /\ UNCHANGED <<setup, open, library, sendQueue, wire, reading,
                                        callbacks, loop>>
        BY <1>1 DEF Expire
      <3> QED
        BY <3>1 DEF Inv, PhaseOK, Up, Running, library, sendQueue, callbacks
    <2> QED
      BY <2>1, <2>2, <2>3 DEF Inv
  <1>2. ASSUME NEW n \in BlockSizes, Beat(n)
        PROVE  Inv'
    <2>1. /\ Running /\ beats' \in Nat
          /\ UNCHANGED <<setup, open, library, wire, reading, timeout, interval, callbacks>>
      BY <1>2 DEF Beat, RetryBeat, Inv, TypeOK
    <2>2. CASE amqp = "connected" /\ OnData(n) /\ UNCHANGED <<armed, loop>>
      <3>1. Up
        BY <2>2, UpWhenStarted
      <3> QED
        BY <2>1, <2>2, <3>1, SendInv DEF Inv, TypeOK, PhaseOK, library, callbacks
    <2>3. CASE /\ UNCHANGED sendQueue
               /\ armed' \in BOOLEAN /\ (closeCallbacks = 1 => armed' = armed)
               /\ loop' \in {loop, "assert"}
      <3>1. QueueOK' /\ WriteOK'
        BY <2>1, <2>3, WriteKept DEF Inv, sendQueue
      <3>2. TypeOK'
        BY <2>1, <2>3 DEF Inv, TypeOK, library, sendQueue, callbacks
      <3>3. PhaseOK'
        BY <2>1, <2>3 DEF Inv, PhaseOK, Up, Running, library, sendQueue, callbacks
      <3> QED
        BY <3>1, <3>2, <3>3 DEF Inv
    <2>4. amqp = "closing" => closeCallbacks # 1
      BY UpWhenStarted
    <2> QED
      BY <1>2, <2>2, <2>3, <2>4 DEF Beat, RetryBeat, Inv, TypeOK
  <1>3. ASSUME BeatError
        PROVE  Inv'
    <2>1. /\ Running /\ closeCallbacks # 1 /\ armed' = FALSE /\ loop' = "threw"
          /\ open' \in BOOLEAN /\ errorReported' \in BOOLEAN
          /\ (setup \in {"new", "resolving"} => ~open')
          /\ UNCHANGED <<setup, library, sendQueue, wire, reading, timeout, interval, beats,
                         closeCallbacks>>
      BY <1>3 DEF BeatError, FailThenOnError, OnError, Inv, TypeOK, PhaseOK
    <2>2. QueueOK' /\ WriteOK'
      BY <2>1, WriteKept DEF Inv, sendQueue
    <2>3. TypeOK'
      BY <2>1 DEF Inv, TypeOK, library, sendQueue
    <2>4. PhaseOK'
      BY <2>1 DEF Inv, TypeOK, PhaseOK, Up, Running, library, sendQueue
    <2> QED
      BY <2>2, <2>3, <2>4 DEF Inv
  <1> QED
    BY <1>1, <1>2, <1>3 DEF Heartbeat

LEMMA ApplicationInv ==
  ASSUME Inv, Application
  PROVE  Inv'
  <1>1. ASSUME NEW n \in BlockSizes, Publish(n)
        PROVE  Inv'
    <2>1. Up
      BY <1>1, UpWhenStarted DEF Publish
    <2> QED
      BY <1>1, <2>1, SendInv
      DEF Publish, Inv, TypeOK, library, heartbeat, callbacks
  <1>2. ASSUME NEW n \in BlockSizes, Close(n)
        PROVE  Inv'
    <2>1. /\ Running /\ closeWanted' = TRUE
          /\ UNCHANGED <<setup, open, wire, reading, heartbeat, callbacks, loop>>
      BY <1>2 DEF Close
    <2>2. CASE amqp = "connected" /\ SendClose(n)
      <3>1. Up
        BY <2>2, UpWhenStarted
      <3> QED
        BY <2>1, <2>2, <3>1, SendInv DEF SendClose, Inv, TypeOK, heartbeat, callbacks
    <2>3. CASE UNCHANGED <<amqp, asked, sendQueue>>
      <3>1. QueueOK' /\ WriteOK'
        BY <2>1, <2>3, WriteKept DEF Inv, sendQueue
      <3>2. TypeOK' /\ PhaseOK'
        BY <2>1, <2>3
        DEF Inv, TypeOK, PhaseOK, Up, Running, sendQueue, heartbeat, callbacks
      <3> QED
        BY <3>1, <3>2 DEF Inv
    <2> QED
      BY <1>2, <2>2, <2>3 DEF Close
  <1> QED
    BY <1>1, <1>2 DEF Application

LEMMA NextInv ==
  ASSUME Inv, [Next]_vars
  PROVE  Inv'
  <1>1. CASE UNCHANGED vars
    <2>1. QueueOK' /\ WriteOK'
      BY <1>1, WriteKept DEF Inv, vars, sendQueue
    <2>2. TypeOK' /\ PhaseOK'
      BY <1>1
      DEF Inv, TypeOK, PhaseOK, Up, Running, vars, library, sendQueue, heartbeat, callbacks
    <2> QED
      BY <2>1, <2>2 DEF Inv
  <1> QED
    BY <1>1, HandshakeInv, TransmitInv, ReceiveInv, HeartbeatInv, ApplicationInv DEF Next

\* The inductive invariant holds in every reachable state.
THEOREM Invariance == Spec => []Inv
  <1> QED
    BY InitInv, NextInv, PTL DEF Spec

-----------------------------------------------------------------------------
(***************************************************************************)
(* The properties                                                          *)
(***************************************************************************)
\* Type correctness of the connection handler.
THEOREM TypeCorrect == Spec => []TypeOK
  <1>1. Inv => TypeOK
    BY DEF Inv
  <1> QED
    BY <1>1, Invariance, PTL

LEMMA InvWire ==
  ASSUME Inv
  PROVE  WireInOrder /\ Len(wire) <= submitted
  <1>1. Consumed <= submitted /\ Consumed \in Nat /\ submitted \in Nat
    BY FrontFacts DEF Inv, TypeOK
  <1>2. CASE writes # <<>> /\ Head(writes).st = "done"
    <2> DEFINE rest == Head(buffers).len - offset
    <2>1. /\ buffers # <<>> /\ Head(writes).n \in 1..rest
          /\ Len(wire) = Consumed + Head(writes).n
      BY <1>2 DEF Inv, WriteOK
    <2>2. Head(buffers) \in Block /\ Consumed + Head(buffers).len - offset <= submitted
      BY <2>1, FrontFacts DEF Inv
    <2>3. rest \in Int /\ Consumed + rest <= submitted
      BY <1>1, <2>2 DEF Inv, TypeOK, Block
    <2> HIDE DEF rest
    <2>4. Len(wire) <= submitted
      BY <1>1, <2>1, <2>3
    <2> QED
      BY <2>4 DEF Inv, WriteOK, WireInOrder
  <1> QED
    BY <1>1, <1>2 DEF Inv, WriteOK, WireInOrder

\* The bytes on the wire are the bytes handed to onData(), once and in order.
THEOREM WireIsInOrder == Spec => []WireInOrder
  <1>1. Inv => WireInOrder
    BY InvWire
  <1> QED
    BY <1>1, Invariance, PTL

\* At most one write is outstanding, and flush_in_progress_ is accurate.
THEOREM OnlyOneWriter == Spec => []SingleWriter
  <1>1. Inv => SingleWriter
    <2> SUFFICES ASSUME Inv PROVE SingleWriter
      OBVIOUS
    <2>1. CASE writes = <<>>
      <3>1. Len(writes) = 0
        BY <2>1
      <3> QED
        BY <3>1 DEF Inv, PhaseOK, SingleWriter
    <2>2. CASE Len(writes) = 1
      BY <2>2 DEF Inv, PhaseOK, SingleWriter
    <2> QED
      BY <2>1, <2>2 DEF Inv, WriteOK
  <1> QED
    BY <1>1, Invariance, PTL

\* A non-empty queue of an open connection has a write in progress.
THEOREM FlushNeverLost == Spec => []NoLostFlush
  <1>1. Inv => NoLostFlush
    BY DEF Inv, PhaseOK, NoLostFlush
  <1> QED
    BY <1>1, Invariance, PTL

\* No write starts before the connection, and TLS, are established.
THEOREM WritesWaitForSetup == Spec => []WriteOnlyWhenUp
  <1>1. Inv => WriteOnlyWhenUp
    BY DEF Inv, PhaseOK, WriteOnlyWhenUp
  <1> QED
    BY <1>1, Invariance, PTL

\* The assertions of the queue and of the read path cannot fail.
THEOREM AssertsHold == Spec => []QueueAndReadAsserts
  <1>1. Inv => QueueAndReadAsserts
    <2> SUFFICES ASSUME Inv, Running PROVE QueueAndReadAsserts
      BY DEF QueueAndReadAsserts
    <2>1. writes # <<>> => buffers # <<>>
      BY DEF Inv, WriteOK
    <2>2. reading => amqp # "none"
      BY DEF Inv, PhaseOK, TypeOK, Up
    <2> QED
      BY <2>1, <2>2 DEF QueueAndReadAsserts
  <1> QED
    BY <1>1, Invariance, PTL

\* The close callback comes once, after every byte reached the socket.
THEOREM CloseIsGraceful == Spec => []GracefulClose
  <1>1. Inv => GracefulClose
    BY DEF Inv, PhaseOK, GracefulClose
  <1> QED
    BY <1>1, Invariance, PTL

\* After an orderly close no handler throws out of the event loop.
THEOREM CloseDoesNotBlowUp == Spec => NoBlowUp
  <1>1. ASSUME Inv, Inv', Next, closeCallbacks = 1
        PROVE  loop' # "threw"
    <2>1. closeCallbacks' = closeCallbacks
      <3>1. Handshake => closeCallbacks' = closeCallbacks
        BY DEF Handshake, Connect, ResolveHandler, ConnectHandler, HandshakeHandler, callbacks
      <3>2. Transmit => closeCallbacks' = closeCallbacks
        BY DEF Transmit, WriteCompletes, WriteFails, WriteHandler, WriteErrorHandler, callbacks
      <3>3. ~Receive
        <4>1. ~Receives
          BY <1>1, ReadingOpen
        <4> QED
          BY <4>1
          DEF Receive, FrameStart, FrameTune, FrameOpenOk, FrameAnswered, FrameDrained,
              FrameCloseOk, ReadErrorHandler
      <3>4. Heartbeat => closeCallbacks' = closeCallbacks
        BY DEF Heartbeat, Expire, Beat, BeatError, callbacks
      <3>5. Application => closeCallbacks' = closeCallbacks
        BY DEF Application, Publish, Close, callbacks
      <3> QED
        BY <1>1, <3>1, <3>2, <3>3, <3>4, <3>5 DEF Next
    <2> QED
      BY <1>1, <2>1 DEF Inv, PhaseOK
  <1>2. Inv /\ Inv' /\ [Next]_vars => [closeCallbacks = 1 => loop' # "threw"]_vars
    BY <1>1
  <1> QED
    BY <1>2, Invariance, PTL DEF Spec, NoBlowUp

\* The invariant behind HeartbeatChain, one step.
LEMMA HeartbeatStep ==
  ASSUME Inv, Inv', HeartbeatChain, [Next]_vars
  PROVE  HeartbeatChain'
  <1> SUFFICES ASSUME Running', open', interval' # 0, amqp' \in {"connected", "closing"},
                      writes' = <<>>
               PROVE  armed' \/ beats' > 0
    BY DEF HeartbeatChain, Running
  <1>1. CASE UNCHANGED vars
    BY <1>1 DEF HeartbeatChain, Running, vars, heartbeat, sendQueue, library
  <1>2. ASSUME NEW n \in BlockSizes, OnData(n), UNCHANGED <<open, wire>>, Running
        PROVE  FALSE
    BY <1>2, OnDataStep
  <1>3. CASE Handshake
    <2>1. amqp' \in {"none", "protocol"}
      BY <1>3
      DEF Handshake, Connect, ResolveHandler, ConnectHandler, HandshakeHandler, Inv, PhaseOK,
          Up, library
    <2> QED
      BY <2>1
  <1>4. CASE Transmit
    <2>1. CASE WriteHandler
      BY <2>1 DEF WriteHandler
    <2>2. CASE WriteErrorHandler
      BY <2>2 DEF WriteErrorHandler, FailThenOnError, OnError, Running
    <2>3. CASE WriteFails \/ \E n \in 1..Head(writes).len : WriteCompletes(n)
      <3>1. writes # <<>> /\ UNCHANGED <<buffers, setup, open>>
        BY <2>3 DEF WriteFails, WriteCompletes
      <3>2. buffers' # <<>> /\ Up'
        BY <3>1 DEF Inv, WriteOK, PhaseOK, Up
      <3> QED
        BY <3>2 DEF Inv, PhaseOK
    <2> QED
      BY <1>4, <2>1, <2>2, <2>3 DEF Transmit
  <1>5. CASE Receive
    <2>1. CASE FrameCloseOk \/ ReadErrorHandler
      BY <2>1 DEF FrameCloseOk, ReadErrorHandler, FailThenOnError, OnError, Running
    <2>2. ~(\E n \in BlockSizes : \/ FrameStart(n)
                                  \/ \E t \in Timeouts : FrameTune(t, n)
                                  \/ FrameOpenOk(n)
                                  \/ FrameAnswered(n)
                                  \/ FrameDrained(n))
      BY <1>2 DEF FrameStart, FrameTune, FrameOpenOk, FrameAnswered, FrameDrained, SendClose,
                  Receives
    <2> QED
      BY <1>5, <2>1, <2>2 DEF Receive
  <1>6. CASE Heartbeat
    <2>1. CASE Expire
      BY <2>1 DEF Expire, Inv, TypeOK
    <2>2. CASE BeatError
      BY <2>2 DEF BeatError, FailThenOnError, OnError, Running
    <2>3. ASSUME NEW n \in BlockSizes, Beat(n)
          PROVE  armed'
      BY <1>2, <2>3 DEF Beat, RetryBeat, library, Running
    <2> QED
      BY <1>6, <2>1, <2>2, <2>3 DEF Heartbeat
  <1>7. CASE Application
    <2>1. ASSUME NEW n \in BlockSizes, Publish(n)
          PROVE  FALSE
      BY <1>2, <2>1 DEF Publish
    <2>2. ASSUME NEW n \in BlockSizes, Close(n)
          PROVE  armed' \/ beats' > 0
      <3>1. CASE SendClose(n)
        BY <1>2, <2>2, <3>1 DEF Close, SendClose
      <3>2. CASE UNCHANGED <<amqp, asked, sendQueue>>
        BY <2>2, <3>2 DEF Close, HeartbeatChain, Running, sendQueue, heartbeat
      <3> QED
        BY <2>2, <3>1, <3>2 DEF Close
    <2> QED
      BY <1>7, <2>1, <2>2 DEF Application
  <1> QED
    BY <1>1, <1>3, <1>4, <1>5, <1>6, <1>7 DEF Next

\* After a heartbeat interval was negotiated the next heartbeat is never forgotten.
THEOREM HeartbeatNeverForgotten == Spec => []HeartbeatChain
  <1>1. Init => HeartbeatChain
    BY DEF Init, HeartbeatChain
  <1> QED
    BY <1>1, HeartbeatStep, Invariance, PTL DEF Spec

-----------------------------------------------------------------------------
(***************************************************************************)
(* The connection handler implements the byte stream                       *)
(***************************************************************************)
Closed == setup \notin {"new", "resolving"} /\ ~open

LEMMA SubmitStep ==
  ASSUME NEW n \in BlockSizes, OnData(n), wire' = wire, Closed' = Closed
  PROVE  [Stream!Next]_(Stream!streamVars)
  <1>1. submitted' = submitted + n
    BY DEF OnData
  <1>2. Stream!Submit
    BY <1>1 DEF Stream!Submit, Closed
  <1> QED
    BY <1>2 DEF Stream!Next

LEMMA CloseOrStutter ==
  ASSUME submitted' = submitted, wire' = wire, Closed => Closed'
  PROVE  [Stream!Next]_(Stream!streamVars)
  <1>1. CASE Closed' = Closed
    BY <1>1 DEF Stream!streamVars, Closed
  <1>2. CASE ~Closed /\ Closed'
    <2>1. Stream!Close
      BY <1>2 DEF Stream!Close, Closed
    <2> QED
      BY <2>1 DEF Stream!Next
  <1> QED
    BY <1>1, <1>2 DEF Closed

\* A step that leaves setup and, unless it closes the socket, open alone.
LEMMA ErrorStep ==
  ASSUME Inv, submitted' = submitted, wire' = wire, setup' = setup,
         open' = open \/ open' = FALSE
  PROVE  [Stream!Next]_(Stream!streamVars)
  BY CloseOrStutter DEF Closed

LEMMA StreamStep ==
  ASSUME Inv, [Next]_vars
  PROVE  [Stream!Next]_(Stream!streamVars)
  <1>1. CASE UNCHANGED vars
    BY <1>1, ErrorStep DEF vars, sendQueue
  <1>2. CASE Handshake
    <2>1. ASSUME NEW n \in BlockSizes, Connect(n)
          PROVE  Closed' = Closed /\ OnData(n) /\ wire' = wire
      BY <2>1 DEF Connect, Closed
    <2>2. CASE ResolveHandler \/ ConnectHandler \/ HandshakeHandler
      <3>1. submitted' = submitted /\ wire' = wire
        BY <2>2
        DEF ResolveHandler, ConnectHandler, HandshakeHandler, StartTransfer, SetupFails,
            sendQueue
      <3>2. Closed => Closed'
        BY <2>2
        DEF ResolveHandler, ConnectHandler, HandshakeHandler, StartTransfer, SetupFails,
            OnError, Closed
      <3> QED
        BY <3>1, <3>2, CloseOrStutter
    <2> QED
      BY <1>2, <2>1, <2>2, SubmitStep DEF Handshake
  <1>3. CASE Transmit
    <2>1. ASSUME NEW n \in 1..Head(writes).len, WriteCompletes(n), writes # <<>>
          PROVE  Stream!Deliver
      <3>1. n \in Nat /\ n >= 1
        <4>1. Head(writes) \in Write
          BY <2>1, HeadTailProperties DEF Inv, TypeOK
        <4>2. Head(writes).len \in Nat
          BY <4>1 DEF Write
        <4> QED
          BY <4>2
      <3>2. Head(writes).st = "pending" /\ Running /\ UNCHANGED <<setup, open, submitted>>
        BY <2>1 DEF WriteCompletes
      <3>3. wire' = [b \in 1..(Len(wire) + n) |-> b] /\ Len(wire') = Len(wire) + n
        BY <2>1, <3>1, <3>2, WireGrows
      <3>4. /\ buffers # <<>> /\ Len(wire) = Consumed
            /\ Head(writes).len = Head(buffers).len - offset
        BY <2>1, <3>2 DEF Inv, WriteOK
      <3>5. Len(wire) + n <= submitted
        <4> DEFINE rest == Head(buffers).len - offset
        <4>1. Head(buffers) \in Block /\ Consumed + Head(buffers).len - offset <= submitted
              /\ Consumed \in Nat
          BY <3>4, FrontFacts DEF Inv
        <4>2. rest \in Int /\ Consumed + rest <= submitted /\ submitted \in Nat
          BY <4>1 DEF Inv, TypeOK, Block
        <4>3. n \in 1..rest
          BY <2>1, <3>4
        <4> HIDE DEF rest
        <4> QED
          BY <3>4, <4>1, <4>2, <4>3
      <3>6. open
        BY <2>1, <3>2 DEF Inv, PhaseOK, TypeOK
      <3>7. Len(wire) + n \in (Len(wire) + 1)..submitted
        BY <3>1, <3>2, <3>3, <3>5 DEF Inv, TypeOK
      <3> QED
        BY <3>2, <3>3, <3>6, <3>7 DEF Stream!Deliver
    <2>2. CASE WriteFails \/ WriteHandler \/ WriteErrorHandler
      BY <2>2, ErrorStep
      DEF WriteFails, WriteHandler, WriteErrorHandler, FailThenOnError, OnError
    <2> QED
      BY <1>3, <2>1, <2>2 DEF Transmit, Stream!Next
  <1>4. CASE Receive
    <2>1. CASE FrameCloseOk \/ ReadErrorHandler
      BY <2>1, ErrorStep DEF FrameCloseOk, ReadErrorHandler, FailThenOnError, OnError, sendQueue
    <2>2. ASSUME NEW n \in BlockSizes,
                 \/ FrameStart(n)
                 \/ \E t \in Timeouts : FrameTune(t, n)
                 \/ FrameOpenOk(n)
                 \/ FrameAnswered(n)
                 \/ FrameDrained(n)
          PROVE  OnData(n) /\ wire' = wire /\ Closed' = Closed
      BY <2>2
      DEF FrameStart, FrameTune, FrameOpenOk, FrameAnswered, FrameDrained, SendClose, Closed
    <2> QED
      BY <1>4, <2>1, <2>2, SubmitStep DEF Receive
  <1>5. CASE Heartbeat
    <2>1. CASE Expire \/ BeatError
      BY <2>1, ErrorStep DEF Expire, BeatError, FailThenOnError, OnError, sendQueue
    <2>2. ASSUME NEW n \in BlockSizes, Beat(n)
          PROVE  [Stream!Next]_(Stream!streamVars)
      <3>1. wire' = wire /\ setup' = setup /\ open' = open
        BY <2>2 DEF Beat
      <3>2. OnData(n) \/ submitted' = submitted
        BY <2>2 DEF Beat, sendQueue
      <3> QED
        BY <3>1, <3>2, SubmitStep, ErrorStep DEF Closed
    <2> QED
      BY <1>5, <2>1, <2>2 DEF Heartbeat
  <1>6. CASE Application
    <2>1. ASSUME NEW n \in BlockSizes, Publish(n) \/ Close(n)
          PROVE  /\ wire' = wire /\ setup' = setup /\ open' = open
                 /\ OnData(n) \/ submitted' = submitted
      BY <2>1 DEF Publish, Close, SendClose, sendQueue
    <2>2. ASSUME NEW n \in BlockSizes, Publish(n) \/ Close(n)
          PROVE  [Stream!Next]_(Stream!streamVars)
      <3>1. Closed' = Closed
        BY <2>1, <2>2 DEF Closed
      <3>2. CASE OnData(n)
        BY <2>1, <2>2, <3>1, <3>2, SubmitStep
      <3>3. CASE submitted' = submitted
        BY <2>1, <2>2, <3>3, ErrorStep
      <3> QED
        BY <2>1, <2>2, <3>2, <3>3
    <2> QED
      BY <1>6, <2>2 DEF Application
  <1> QED
    BY <1>1, <1>2, <1>3, <1>4, <1>5, <1>6 DEF Next

\* Every behaviour of the connection handler is one of the byte stream.
THEOREM ImplementsByteStream == Spec => StreamSpec
  <1>1. Init => Stream!Init
    BY DEF Init, Stream!Init
  <1> QED
    BY <1>1, StreamStep, Invariance, PTL DEF Spec, StreamSpec, Stream!Spec

=============================================================================
