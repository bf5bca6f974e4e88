------------------------------ MODULE SessionContract ------------------------------
(***************************************************************************)
(* What a recorded session promises, in terms of the rows of each metric   *)
(* that reached its queue and those handed to the consumer: the consumer   *)
(* gets them in order, each once, and a session that completes has handed  *)
(* over every one.  A session may be abandoned at any time.                *)
(***************************************************************************)
EXTENDS Sequences, SequencesExt

CONSTANTS Metrics

VARIABLES routed, handed, result

contractVars == <<routed, handed, result>>

ContractInit ==
  /\ routed = [m \in Metrics |-> <<>>] /\ handed = [m \in Metrics |-> <<>>]
  /\ result = "open"

\* Rows reach the queue; also when the consumer has given up, but not when it is done.
RouteRows ==
  /\ result # "complete"
  /\ \A m \in Metrics : IsPrefix(routed[m], routed'[m])
  /\ UNCHANGED <<handed, result>>

HandOver ==
  /\ result = "open"
  /\ \A m \in Metrics : IsPrefix(handed[m], handed'[m]) /\ IsPrefix(handed'[m], routed[m])
  /\ result' \in {"open", "abandoned"}
  /\ UNCHANGED routed

Complete ==
  /\ result = "open" /\ result' = "complete"
  /\ handed = routed
  /\ UNCHANGED <<routed, handed>>

Abandon ==
  /\ result = "open" /\ result' = "abandoned"
  /\ UNCHANGED <<routed, handed>>

ContractNext == RouteRows \/ HandOver \/ Complete \/ Abandon

ContractSpec == ContractInit /\ [][ContractNext]_contractVars
=============================================================================
