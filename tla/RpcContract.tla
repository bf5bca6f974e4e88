------------------------------ MODULE RpcContract ------------------------------
(***************************************************************************)
(* What Connection::rpc() promises its caller: the response callback of a  *)
(* call is called at most once, and only while the call is outstanding; an *)
(* outstanding call is otherwise only dropped together with all others.    *)
(* Calls are numbered in the order they are made.                          *)
(***************************************************************************)
EXTENDS Naturals, Sequences

VARIABLES
  made,         \* number of calls made
  outstanding,  \* calls whose response the caller may still get
  answered      \* calls whose response callback ran, in that order

contractVars == <<made, outstanding, answered>>

Init == made = 0 /\ outstanding = {} /\ answered = <<>>

Call ==
  /\ made' = made + 1
  /\ outstanding' = outstanding \cup {made + 1}
  /\ UNCHANGED answered

\* The callback may make one more call before it returns.
Answer ==
  \E id \in outstanding :
    /\ answered' = Append(answered, id)
    /\ \/ made' = made /\ outstanding' = outstanding \ {id}
       \/ made' = made + 1 /\ outstanding' = (outstanding \ {id}) \cup {made + 1}

DropAll ==
  /\ outstanding' = {}
  /\ UNCHANGED <<made, answered>>

Next == Call \/ Answer \/ DropAll

Spec == Init /\ [][Next]_contractVars
=============================================================================
