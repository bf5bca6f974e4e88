--------------------------------- MODULE Client ---------------------------------
(***************************************************************************)
(* A metricq client: class Connection (src/src/connection.cpp) with its    *)
(* RPC layer, and class DataClient (src/src/data_client.cpp) derived from  *)
(* it, which owns a second, the data connection.                           *)
(*                                                                         *)
(* Everything runs on one event loop.  An action is one callback of the    *)
(* AMQP library or of a timer, or one call of the application.  Each       *)
(* connection is reduced to the life ConnectionHandler gives it: "up" (or  *)
(* coming up), "closing" after close(), "closed" after onClosed().  The    *)
(* manager that answers the RPCs and the broker are external.              *)
(*                                                                         *)
(* RPCs are numbered in the order they are made: correlation ids are       *)
(* fresh uuids.                                                            *)
(***************************************************************************)
EXTENDS Naturals, Sequences

CONSTANTS
  Addresses,    \* data server addresses the manager may configure; {} for a class
                \* derived from Connection itself
  MaxRpcs,      \* bound on the RPCs made
  MaxMessages   \* bound on the messages the manager sends

ASSUME ClientAssumption == MaxRpcs \in Nat /\ MaxMessages \in Nat

VARIABLES
  setup,        \* how far connect() got on the management channel
  mgmt,         \* management_connection_
  data,         \* data_connection_
  dataAddress,  \* the member of Addresses data_server_address_ holds, if any: a set
  sent,         \* number of RPCs made
  entries,      \* keys of rpc_response_callbacks_
  armed,        \* RPCs whose guard has a timer that has not expired
  expired,      \* RPCs whose guard's timer expired and whose handler is queued
  called,       \* RPCs whose response callback was called, in that order
  requests,     \* RPCs the manager has received
  messages,     \* number of messages the manager sent
  inbox,        \* management_client_queue_, as the broker delivers it
  delivered,    \* number of messages delivered
  acked,        \* number of acknowledgements the broker will see
  stopping,     \* stop() was called
  loop          \* what became of io_service::run()

links   == <<mgmt, data, dataAddress>>
rpcs    == <<sent, entries, armed, expired, called>>
manager == <<requests, messages, inbox>>
acks    == <<delivered, acked>>
vars    == <<setup, links, rpcs, manager, acks, stopping, loop>>

Links == {"none", "up", "closing", "closed"}

Init ==
  /\ setup = "new" /\ mgmt = "none" /\ data = "none" /\ dataAddress = {}
  /\ sent = 0 /\ entries = {} /\ armed = {} /\ expired = {} /\ called = <<>>
  /\ requests = {} /\ messages = 0 /\ inbox = <<>>
  /\ delivered = 0 /\ acked = 0
  /\ stopping = FALSE /\ loop = "running"

Running == loop = "running"

-----------------------------------------------------------------------------
(***************************************************************************)
(* Closing                                                                 *)
(***************************************************************************)
\* AsioConnectionHandler::close(): without effect once it has closed.
Closing(link) == IF link = "up" THEN "closing" ELSE link

\* Connection::close(): without a connection it only calls on_closed().
CloseManagement == mgmt' = Closing(mgmt) /\ UNCHANGED data

\* Mutant of Close: closes both connections at once.
CloseBoth == mgmt' = Closing(mgmt) /\ data' = Closing(data)

\* close(), virtual; the management connection follows when data has closed.
Close ==
  IF data = "none" THEN CloseManagement ELSE data' = Closing(data) /\ UNCHANGED mgmt

\* stop(); before connect() there is nothing to close.
Stop ==
  /\ Close
  /\ stopping' = (stopping \/ mgmt # "none")
  /\ UNCHANGED dataAddress

-----------------------------------------------------------------------------
(***************************************************************************)
(* RPC calls and their guards                                              *)
(***************************************************************************)
\* Mutant of Register: the guard's timer is never started.
RegisterUnguarded(done) ==
  /\ sent' = sent + 1
  /\ entries' = (entries \ done) \cup {sent + 1}
  /\ armed' = armed \ done
  /\ requests' = IF mgmt = "up" THEN requests \cup {sent + 1} ELSE requests

\* rpc(): the guard's constructor starts its timer.  The guards of done are
\* destroyed in the same step, which cancels their timers; a handler that is
\* already queued stays queued.  A channel being closed sends nothing.
Register(done) ==
  /\ sent' = sent + 1
  /\ entries' = (entries \ done) \cup {sent + 1}
  /\ armed' = (armed \ done) \cup {sent + 1}
  /\ requests' = IF mgmt = "up" THEN requests \cup {sent + 1} ELSE requests

\* Mutant of Erase: the entry stays after its callback returned.
CancelOnly(done) ==
  /\ entries' = entries
  /\ armed' = armed \ done
  /\ UNCHANGED <<sent, requests>>

\* Destroying a guard cancels its timer.
Erase(done) ==
  /\ entries' = entries \ done
  /\ armed' = armed \ done
  /\ UNCHANGED <<sent, requests>>

\* data_config(): the first one opens the data connection, the address cannot
\* change later.
DataConfig(a) ==
  IF data = "none"
  THEN /\ data' = "up" /\ dataAddress' = {a}
       /\ UNCHANGED <<mgmt, loop>>
  ELSE /\ loop' = IF dataAddress = {a} THEN loop ELSE "aborted"
       /\ UNCHANGED links

\* What a callback of a derived class does: it may make an RPC, and may stop or
\* apply a data configuration, which only a response carries.
Callback(done) ==
  /\ \/ sent < MaxRpcs /\ Register(done)
     \/ Erase(done)
  /\ \/ UNCHANGED <<links, stopping, loop>>
     \/ done # {} /\ (\E a \in Addresses : DataConfig(a)) /\ UNCHANGED stopping
     \/ Stop /\ UNCHANGED loop

\* It throws, which ends the loop; the timer in done was cancelled before.
CallbackThrows(done) ==
  /\ loop' = "threw"
  /\ armed' = armed \ done
  /\ UNCHANGED <<links, sent, entries, requests, stopping>>

-----------------------------------------------------------------------------
(***************************************************************************)
(* connect()                                                               *)
(***************************************************************************)
Connect ==
  /\ Running /\ setup = "new" /\ mgmt = "none"
  /\ mgmt' = "up"
  /\ setup' = "declaring"
  /\ UNCHANGED <<data, dataAddress, rpcs, manager, acks, stopping, loop>>

\* The next operation on the channel, which a channel being closed never sends.
NextOperation(s) == setup' = IF mgmt = "up" THEN s ELSE "abandoned"

QueueDeclared ==
  /\ Running /\ setup = "declaring" /\ mgmt \in {"up", "closing"}
  /\ NextOperation("binding")
  /\ UNCHANGED <<links, rpcs, manager, acks, stopping, loop>>

QueueBound ==
  /\ Running /\ setup = "binding" /\ mgmt \in {"up", "closing"}
  /\ NextOperation("consuming")
  /\ UNCHANGED <<links, rpcs, manager, acks, stopping, loop>>

\* on_connected()
Consuming ==
  /\ Running /\ setup = "consuming" /\ mgmt \in {"up", "closing"}
  /\ setup' = "connected"
  /\ Callback({}) \/ CallbackThrows({})
  /\ UNCHANGED <<expired, called, messages, inbox, acks>>

-----------------------------------------------------------------------------
(***************************************************************************)
(* handle_management_message()                                             *)
(***************************************************************************)
\* A message is delivered, also while the channel is being closed.
Receives(kinds) ==
  /\ Running /\ setup = "connected" /\ mgmt \in {"up", "closing"}
  /\ inbox # <<>> /\ Head(inbox).kind \in kinds
  /\ inbox' = Tail(inbox)
  /\ delivered' = delivered + 1
  /\ UNCHANGED <<setup, expired, messages>>

\* ack() on a channel being closed sends nothing.
Ack(link) == acked' = IF link = "up" THEN acked + 1 ELSE acked

\* The response callback; acknowledge runs at the end of the scope, also when the
\* callback throws.  Its entry is erased last.
HandleResponse ==
  /\ Receives({"ok"})
  /\ LET id == Head(inbox).id IN
       /\ id \in entries
       /\ Callback({id}) \/ CallbackThrows({id})
       /\ called' = Append(called, id)
  /\ Ack(mgmt')

\* Mutant of AckOnError: invoke() leaves the destructor armed.
AckTwice == acked' = acked + (IF mgmt = "up" THEN 1 ELSE 0) + (IF mgmt' = "up" THEN 1 ELSE 0)

\* acknowledge.invoke(), before stop()
AckOnError == Ack(mgmt)

\* An error response: every outstanding RPC is dropped and the client stops.
HandleError ==
  /\ Receives({"error"})
  /\ Head(inbox).id \in entries
  /\ Erase(entries)
  /\ Stop
  /\ AckOnError
  /\ UNCHANGED <<called, loop>>

\* A second response, or a message without a known function: only acknowledged.
HandleUnexpected ==
  /\ Receives({"ok", "error", "unknown"})
  /\ Head(inbox).id \notin entries
  /\ Ack(mgmt)
  /\ UNCHANGED <<links, sent, entries, armed, called, requests, stopping, loop>>

\* A request for a registered function; the reply goes out if the channel is up.
HandleRequest ==
  /\ Receives({"request"})
  /\ Callback({}) \/ CallbackThrows({})
  /\ Ack(mgmt')
  /\ UNCHANGED called

-----------------------------------------------------------------------------
(***************************************************************************)
(* Timers of the guards                                                    *)
(***************************************************************************)
Expire(id) ==
  /\ Running /\ id \in armed
  /\ armed' = armed \ {id}
  /\ expired' = expired \cup {id}
  /\ UNCHANGED <<setup, links, sent, entries, called, manager, acks, stopping, loop>>

\* on_timeout() throws.  The handler of a guard that was destroyed after its
\* timer expired uses a Timer that is gone, which has no defined outcome.
TimeoutHandler(id) ==
  /\ Running /\ id \in expired
  /\ expired' = expired \ {id}
  /\ \/ loop' = "threw"
     \/ id \notin entries /\ loop' = "crashed"
     \/ id \notin entries /\ UNCHANGED loop
  /\ UNCHANGED <<setup, links, sent, entries, armed, called, manager, acks, stopping>>

-----------------------------------------------------------------------------
(***************************************************************************)
(* The application, the manager and the broker                             *)
(***************************************************************************)
\* rpc() from elsewhere, once the channel exists.
ApplicationRpc ==
  /\ Running /\ mgmt # "none" /\ sent < MaxRpcs
  /\ Register({})
  /\ UNCHANGED <<setup, links, expired, called, messages, inbox, acks, stopping, loop>>

ApplicationStop ==
  /\ Running
  /\ Stop
  /\ UNCHANGED <<setup, rpcs, manager, acks, loop>>

\* The manager answers an RPC, perhaps again, or calls a function of the client.
ManagerSends(m) ==
  /\ Running /\ setup # "new" /\ mgmt # "closed" /\ messages < MaxMessages
  /\ m.kind \in {"ok", "error"} => m.id \in requests
  /\ inbox' = Append(inbox, m)
  /\ messages' = messages + 1
  /\ UNCHANGED <<setup, links, rpcs, requests, acks, stopping, loop>>

\* Mutant of DataClosed: DataClient::close() without its callback.
DataClosedAlone ==
  /\ Running /\ data = "closing"
  /\ data' = "closed"
  /\ UNCHANGED <<setup, mgmt, dataAddress, rpcs, manager, acks, stopping, loop>>

\* onClosed() of the data connection runs the callback of DataClient::close().
DataClosed ==
  /\ Running /\ data = "closing"
  /\ data' = "closed"
  /\ mgmt' = Closing(mgmt)
  /\ UNCHANGED <<setup, dataAddress, rpcs, manager, acks, stopping, loop>>

ManagementClosed ==
  /\ Running /\ mgmt = "closing"
  /\ mgmt' = "closed"
  /\ UNCHANGED <<setup, data, dataAddress, rpcs, manager, acks, stopping, loop>>

\* A failing connection or channel, or a message that is no JSON, throws out of
\* the loop.
LinkFails ==
  /\ Running /\ {mgmt, data} \cap {"up", "closing"} # {}
  /\ loop' = "threw"
  /\ UNCHANGED <<setup, links, rpcs, manager, acks, stopping>>

\* io_service::run() returns when nothing is left to wait for.
Ends ==
  /\ Running /\ mgmt = "closed" /\ data \in {"none", "closed"}
  /\ armed = {} /\ expired = {}
  /\ loop' = "ended"
  /\ UNCHANGED <<setup, links, rpcs, manager, acks, stopping>>

-----------------------------------------------------------------------------
Message == [kind : {"ok", "error"}, id : 1..MaxRpcs]
             \cup [kind : {"request", "unknown"}, id : {0}]

Setup == Connect \/ QueueDeclared \/ QueueBound \/ Consuming

HandleMessage ==
  HandleResponse \/ HandleError \/ HandleUnexpected \/ HandleRequest

Timers == \E id \in 1..MaxRpcs : Expire(id) \/ TimeoutHandler(id)

Environment ==
  \/ ApplicationRpc
  \/ ApplicationStop
  \/ \E m \in Message : ManagerSends(m)
  \/ LinkFails

Next ==
  Setup \/ HandleMessage \/ Timers \/ Environment \/ DataClosed \/ ManagementClosed \/ Ends

Spec == Init /\ [][Next]_vars

\* Time passes, queued handlers run, and the broker confirms a close.
Fairness ==
  /\ \A id \in 1..MaxRpcs : WF_vars(Expire(id)) /\ WF_vars(TimeoutHandler(id))
  /\ WF_vars(DataClosed) /\ WF_vars(ManagementClosed) /\ WF_vars(Ends)

FairSpec == Spec /\ Fairness

-----------------------------------------------------------------------------
(***************************************************************************)
(* Properties                                                              *)
(***************************************************************************)
\* Types and ranges of the members of Connection and DataClient; no more messages
\* are acknowledged than were delivered.
TypeOK ==
  /\ setup \in {"new", "declaring", "binding", "consuming", "connected", "abandoned"}
  /\ mgmt \in Links /\ data \in Links /\ dataAddress \subseteq Addresses
  /\ sent \in Nat /\ entries \subseteq 1..sent
  /\ armed \subseteq 1..sent /\ expired \subseteq 1..sent
  /\ called \in Seq(1..sent)
  /\ requests \subseteq 1..sent
  /\ messages \in Nat /\ delivered \in 0..messages /\ acked \in 0..delivered
  /\ inbox \in Seq(Message)
  /\ stopping \in BOOLEAN
  /\ loop \in {"running", "threw", "aborted", "crashed", "ended"}

\* Every management message is acknowledged exactly once, whichever of the early
\* returns of handle_management_message() ends its handling, as long as the
\* channel can still send.
AckedOnce == (Running /\ mgmt = "up") => acked = delivered

\* An RPC without an answer always has a timeout that is still to come, also when
\* it was made by the callback of another one; and only such RPCs have a timer
\* that keeps the loop alive.
Guarded == Running => armed \subseteq entries /\ entries \subseteq armed \cup expired

\* "Close data connection first, then close the management connection"
\* (data_client.cpp:97): the close of the management connection never starts
\* while there is a data connection that has not closed.
CloseOrder ==
  [][mgmt = "up" /\ mgmt' = "closing" => data' \in {"none", "closed"}]_vars

\* What is true of that comment at the end, too: the data connection does not
\* outlive the management connection.
ManagementLast == mgmt = "closed" => data \in {"none", "closed"}

\* "the io_service will stop itself once all connections are closed"
\* (connection.cpp:340): then no exception leaves the loop.
QuietClose ==
  (mgmt = "closed" /\ data \in {"none", "closed"}) => loop \notin {"threw", "crashed"}

\* An RPC does not stay outstanding: its callback is called, it is dropped, or its
\* timeout ends the loop, whatever the manager does.
RpcSettles ==
  \A id \in 1..MaxRpcs : id \in entries ~> (id \notin entries \/ ~Running)

\* After stop() the loop ends, unless a configuration that arrives late opens a
\* data connection that nobody closes.
StopEnds == stopping ~> (~Running \/ (data = "up" /\ mgmt # "up"))

\* The response callbacks as RpcContract.tla describes them: called once, only for
\* an outstanding RPC, with duplicate answers, errors and nested RPCs.
Answered == {called[i] : i \in 1..Len(called)}

Contract == INSTANCE RpcContract
              WITH made <- sent, outstanding <- entries \ Answered, answered <- called

ContractSpec == Contract!Spec

-----------------------------------------------------------------------------
(***************************************************************************)
(* The inductive invariant behind the safety properties                    *)
(***************************************************************************)
\* What was sent is either delivered or waiting; with the channel up, or never
\* used, nothing delivered is unacknowledged.
MessagesOK ==
  /\ delivered + Len(inbox) = messages
  /\ (Running /\ mgmt \in {"none", "up"}) => acked = delivered

\* Entry, guard and call go together.
EntriesOK ==
  /\ armed \subseteq entries
  /\ Running => entries \subseteq armed \cup expired
  /\ Running => entries \cap Answered = {}

Inv == TypeOK /\ MessagesOK /\ EntriesOK
=============================================================================
