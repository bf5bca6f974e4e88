------------------------------ MODULE MCDrainSession ------------------------------
(***************************************************************************)
(* Bounds for TLC; the other constants are in the .cfg files.              *)
(***************************************************************************)
EXTENDS DrainSession

RowOf(m, t, v) == [metric |-> m, time |-> t, value |-> v]

\* Two metrics, times that go back, and enough rows of one metric for a chunk of two,
\* lowered to one, and a row after the flush.
MCAppRows ==
  {<<RowOf("a", 5, 1), RowOf("a", 3, 2), RowOf("a", 7, 4)>>,
   <<RowOf("a", 5, 1), RowOf("b", 4, 3)>>}

\* Six rows, so that four are inside the window, in several orders and with ties.
MCDummyRows ==
  {[i \in 1..6 |-> RowOf("a", i, IF i \in 2..4 THEN vs[i] ELSE 2)] :
     vs \in [2..4 -> {1, 2, 4}]}
=============================================================================
