------------------------------ MODULE ByteStream ------------------------------
(***************************************************************************)
(* What a connection promises the AMQP library above it: the bytes given   *)
(* to it come out of the socket once and in order until it is closed.      *)
(* Byte number b is represented by b.                                      *)
(***************************************************************************)
EXTENDS Naturals, Sequences

CONSTANT BlockSizes    \* sizes of the blocks that are submitted

VARIABLES
  submitted,   \* number of bytes given to the connection
  wire,        \* the bytes that came out
  closed       \* nothing comes out any more

streamVars == <<submitted, wire, closed>>

Init == submitted = 0 /\ wire = <<>> /\ closed = FALSE

Submit ==
  /\ \E n \in BlockSizes : submitted' = submitted + n
  /\ UNCHANGED <<wire, closed>>

\* The next bytes come out, up to any byte that was submitted.
Deliver ==
  /\ ~closed
  /\ \E last \in (Len(wire) + 1)..submitted : wire' = [b \in 1..last |-> b]
  /\ UNCHANGED <<submitted, closed>>

Close ==
  /\ ~closed /\ closed' = TRUE
  /\ UNCHANGED <<submitted, wire>>

Next == Submit \/ Deliver \/ Close

Spec == Init /\ [][Next]_streamVars
=============================================================================
