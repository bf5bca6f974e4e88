------------------------------ MODULE ClientProofs ------------------------------
(***************************************************************************)
(* Proofs about Client.tla, for every number of RPCs and messages and every *)
(* set of addresses.                                                       *)
(***************************************************************************)
EXTENDS Client, SequenceTheorems, TLAPS

\* TypeOK, by the actions that disturb its parts.
TypeLinks ==
  /\ setup \in {"new", "declaring", "binding", "consuming", "connected", "abandoned"}
  /\ mgmt \in Links /\ data \in Links /\ dataAddress \subseteq Addresses
  /\ stopping \in BOOLEAN
  /\ loop \in {"running", "threw", "aborted", "crashed", "ended"}

TypeRpcs ==
  /\ sent \in Nat /\ entries \subseteq 1..sent
  /\ armed \subseteq 1..sent /\ expired \subseteq 1..sent
  /\ called \in Seq(1..sent)
  /\ requests \subseteq 1..sent

TypeMessages ==
  /\ messages \in Nat /\ delivered \in 0..messages /\ acked \in 0..delivered
  /\ inbox \in Seq(Message)

\* TypeOK falls apart into the three.
LEMMA TypeParts == TypeOK <=> TypeLinks /\ TypeRpcs /\ TypeMessages
  BY DEF TypeOK, TypeLinks, TypeRpcs, TypeMessages

\* Closing a connection never brings it up or makes it appear.
LEMMA ClosingLink ==
  ASSUME NEW link \in Links
  PROVE  Closing(link) \in Links /\ Closing(link) # "up"
  BY DEF Closing, Links

\* What Close() does to the two connections.
LEMMA CloseEffect ==
  ASSUME TypeLinks, Close
  PROVE  /\ mgmt' \in Links /\ data' \in Links
         /\ mgmt' = "up" => mgmt = "up"
         /\ mgmt' = "none" => mgmt = "none"
         /\ mgmt = "up" /\ mgmt' = "closing" => data' \in {"none", "closed"}
  BY DEF Close, CloseManagement, Closing, Links, TypeLinks

\* What a callback does to connections and loop, whether it returns or throws.
LEMMA CallbackLinks ==
  ASSUME TypeLinks, Running, NEW done, Callback(done) \/ CallbackThrows(done)
  PROVE  /\ mgmt' \in Links /\ data' \in Links /\ dataAddress' \subseteq Addresses
         /\ stopping' \in BOOLEAN
         /\ loop' \in {"running", "threw", "aborted", "crashed", "ended"}
         /\ mgmt' = "up" => mgmt = "up"
         /\ mgmt = "up" /\ mgmt' = "closing" => data' \in {"none", "closed"}
<1>1. CASE UNCHANGED <<links, stopping>> /\ loop' \in {loop, "threw"}
  BY <1>1 DEF TypeLinks, links
<1>2. CASE UNCHANGED stopping /\ \E a \in Addresses : DataConfig(a)
  BY <1>2 DEF TypeLinks, links, DataConfig, Links
<1>3. CASE Stop /\ UNCHANGED loop
  BY <1>3, CloseEffect DEF TypeLinks, Stop
<1>4. QED  BY <1>1, <1>2, <1>3 DEF Callback, CallbackThrows

\* What a callback does to the table of RPCs.
LEMMA CallbackEntries ==
  ASSUME TypeRpcs, NEW done \in SUBSET entries, Callback(done) \/ CallbackThrows(done)
  PROVE  \/ Register(done)
         \/ Erase(done)
         \/ /\ loop' = "threw" /\ armed' = armed \ done
            /\ UNCHANGED <<sent, entries, requests>>
  BY DEF Callback, CallbackThrows

\* Answered follows called.
LEMMA AnsweredGrows ==
  ASSUME TypeRpcs, NEW id \in 1..sent, called' = Append(called, id)
  PROVE  Answered' = Answered \cup {id}
<1>1. called \in Seq(1..sent)  BY DEF TypeRpcs
<1>2. /\ Len(called') = Len(called) + 1
      /\ \A i \in 1..Len(called) : called'[i] = called[i]
      /\ called'[Len(called) + 1] = id
  BY <1>1, AppendProperties
<1>3. Len(called) \in Nat  BY <1>1, LenProperties
<1>4. 1..Len(called') = 1..Len(called) \cup {Len(called) + 1}  BY <1>2, <1>3
<1>5. QED  BY <1>2, <1>4 DEF Answered

LEMMA AnsweredTyped == TypeRpcs => Answered \subseteq 1..sent
<1>1. SUFFICES ASSUME TypeRpcs, NEW i \in 1..Len(called) PROVE called[i] \in 1..sent
  BY DEF Answered
<1>2. called \in Seq(1..sent)  BY <1>1 DEF TypeRpcs
<1>3. QED  BY <1>1, <1>2, ElementOfSeq

\* A table that grows stays well typed.
LEMMA CalledGrows ==
  ASSUME TypeRpcs, sent' \in {sent, sent + 1},
         called' = called \/ \E id \in 1..sent : called' = Append(called, id)
  PROVE  called' \in Seq(1..sent')
<1>1. 1..sent \subseteq 1..sent'  BY DEF TypeRpcs
<1>2. called' \in Seq(1..sent)  BY AppendProperties DEF TypeRpcs
<1>3. QED  BY <1>1, <1>2, SeqMonotonic

\* The table after an RPC was made, and guards in done were destroyed whose
\* callbacks ran.
LEMMA TableStep ==
  ASSUME TypeRpcs, EntriesOK, Running, NEW done \in SUBSET entries,
         Register(done) \/ Erase(done),
         UNCHANGED expired,
         Answered' \subseteq Answered \cup done,
         called' \in Seq(1..sent')
  PROVE  TypeRpcs' /\ EntriesOK'
<1>1. sent' \in {sent, sent + 1} /\ sent \in Nat  BY DEF TypeRpcs, Register, Erase
<1>2. 1..sent \subseteq 1..sent' /\ sent + 1 \notin 1..sent  BY <1>1
<1>3. CASE Register(done)
  <2>1. sent + 1 \in 1..sent' /\ sent' \in Nat  BY <1>3, <1>1 DEF Register
  <2>2. TypeRpcs'  BY <1>3, <1>2, <2>1 DEF TypeRpcs, Register
  <2>3. sent + 1 \notin Answered'  BY <1>2, AnsweredTyped DEF TypeRpcs
  <2>4. EntriesOK'  BY <1>3, <2>3 DEF EntriesOK, Register
  <2>5. QED  BY <2>2, <2>4
<1>4. CASE Erase(done)
  <2>1. TypeRpcs'  BY <1>4 DEF TypeRpcs, Erase
  <2>2. EntriesOK'  BY <1>4 DEF EntriesOK, Erase
  <2>3. QED  BY <2>1, <2>2
<1>5. QED  BY <1>3, <1>4

\* A callback keeps the table in order, also when it throws.
LEMMA CallbackTable ==
  ASSUME TypeRpcs, EntriesOK, Running, NEW done \in SUBSET entries,
         Callback(done) \/ CallbackThrows(done),
         UNCHANGED expired,
         \/ done = {} /\ called' = called
         \/ \E id \in entries : done = {id} /\ called' = Append(called, id)
  PROVE  TypeRpcs' /\ EntriesOK'
<1>1. entries \subseteq 1..sent  BY DEF TypeRpcs
<1>2. \/ Register(done) \/ Erase(done)
      \/ /\ loop' = "threw" /\ armed' = armed \ done
         /\ UNCHANGED <<sent, entries, requests>>
  BY CallbackEntries
<1>3. sent' \in {sent, sent + 1}  BY <1>2 DEF Register, Erase
<1>4. called' \in Seq(1..sent')  BY <1>1, <1>3, CalledGrows
<1>5. Answered' \subseteq Answered \cup done
  <2>1. CASE called' = called  BY <2>1 DEF Answered
  <2>2. ASSUME NEW id \in entries, done = {id}, called' = Append(called, id)
        PROVE  Answered' \subseteq Answered \cup done
    BY <2>2, <1>1, AnsweredGrows
  <2>3. QED  BY <2>1, <2>2
<1>6. CASE Register(done) \/ Erase(done)  BY <1>4, <1>5, <1>6, TableStep
<1>7. CASE /\ loop' = "threw" /\ armed' = armed \ done
           /\ UNCHANGED <<sent, entries, requests>>
  BY <1>7, <1>4 DEF TypeRpcs, EntriesOK, Running
<1>8. QED  BY <1>2, <1>6, <1>7

\* The state of connections and loop, through every step.
LEMMA LinksStep ==
  ASSUME TypeLinks, [Next]_vars
  PROVE  TypeLinks'
<1>2. CASE Connect
  BY <1>2 DEF TypeLinks, Connect, Links
<1>3. CASE QueueDeclared \/ QueueBound
  BY <1>3 DEF TypeLinks, QueueDeclared, QueueBound, NextOperation, links
<1>4. CASE Consuming
  BY <1>4, CallbackLinks DEF TypeLinks, Consuming
<1>5. CASE HandleResponse
  BY <1>5, CallbackLinks DEF TypeLinks, HandleResponse, Receives
<1>6. CASE HandleError \/ ApplicationStop
  BY <1>6, CloseEffect DEF TypeLinks, HandleError, ApplicationStop, Receives, Stop
<1>7. CASE HandleUnexpected
  BY <1>7 DEF TypeLinks, HandleUnexpected, Receives, links
<1>8. CASE HandleRequest
  BY <1>8, CallbackLinks DEF TypeLinks, HandleRequest, Receives
<1>9. ASSUME NEW id \in 1..MaxRpcs, Expire(id) \/ TimeoutHandler(id) PROVE TypeLinks'
  BY <1>9 DEF TypeLinks, Expire, TimeoutHandler, links
<1>10. CASE ApplicationRpc \/ (\E m \in Message : ManagerSends(m)) \/ LinkFails \/ Ends
  BY <1>10 DEF TypeLinks, ApplicationRpc, ManagerSends, LinkFails, Ends, links
<1>11. CASE DataClosed \/ ManagementClosed
  BY <1>11, ClosingLink DEF TypeLinks, DataClosed, ManagementClosed, Links
<1>12. CASE UNCHANGED vars
  BY <1>12 DEF TypeLinks, vars, links
<1>13. QED
  BY <1>2, <1>3, <1>4, <1>5, <1>6, <1>7, <1>8, <1>9, <1>10, <1>11, <1>12
  DEF Next, Setup, HandleMessage, Timers, Environment

\* The table of RPCs, through every step.
LEMMA RpcsStep ==
  ASSUME TypeRpcs, EntriesOK, [Next]_vars
  PROVE  TypeRpcs' /\ EntriesOK'
<1>2. ASSUME UNCHANGED <<rpcs, requests>>, Running' => Running
      PROVE  TypeRpcs' /\ EntriesOK'
  <2>1. Answered' = Answered  BY <1>2 DEF Answered, rpcs
  <2>2. QED  BY <1>2, <2>1 DEF TypeRpcs, EntriesOK, rpcs
<1>3. CASE Connect \/ QueueDeclared \/ QueueBound \/ ApplicationStop \/ LinkFails
           \/ DataClosed \/ ManagementClosed \/ Ends
  BY <1>3, <1>2 DEF Connect, QueueDeclared, QueueBound, ApplicationStop, LinkFails,
    DataClosed, ManagementClosed, Ends, Running, manager
<1>4. CASE Consuming
  BY <1>4, CallbackTable DEF Consuming
<1>5. CASE HandleResponse
  BY <1>5, CallbackTable DEF HandleResponse, Receives
<1>6. CASE HandleRequest
  BY <1>6, CallbackTable DEF HandleRequest, Receives
<1>7. CASE HandleError
  <2>1. called' = called /\ Answered' = Answered  BY <1>7 DEF HandleError, Answered
  <2>2. called' \in Seq(1..sent')
    BY <2>1, <1>7, CalledGrows DEF HandleError, Erase
  <2>3. QED  BY <1>7, <2>1, <2>2, TableStep DEF HandleError, Receives
<1>8. CASE ApplicationRpc
  <2>1. called' = called /\ Answered' = Answered  BY <1>8 DEF ApplicationRpc, Answered
  <2>2. called' \in Seq(1..sent')
    BY <2>1, <1>8, CalledGrows DEF ApplicationRpc, Register
  <2>3. QED  BY <1>8, <2>1, <2>2, TableStep DEF ApplicationRpc
<1>9. CASE HandleUnexpected
  BY <1>9, <1>2 DEF HandleUnexpected, Receives, Running, rpcs
<1>10. ASSUME NEW m \in Message, ManagerSends(m) PROVE TypeRpcs' /\ EntriesOK'
  BY <1>10, <1>2 DEF ManagerSends, Running
<1>11. ASSUME NEW id \in 1..MaxRpcs, Expire(id) PROVE TypeRpcs' /\ EntriesOK'
  <2>1. Answered' = Answered  BY <1>11 DEF Expire, Answered
  <2>2. QED  BY <1>11, <2>1 DEF Expire, TypeRpcs, EntriesOK, Running, manager
<1>12. ASSUME NEW id \in 1..MaxRpcs, TimeoutHandler(id) PROVE TypeRpcs' /\ EntriesOK'
  <2>1. Answered' = Answered  BY <1>12 DEF TimeoutHandler, Answered
  <2>2. QED  BY <1>12, <2>1 DEF TimeoutHandler, TypeRpcs, EntriesOK, Running, manager
<1>13. CASE UNCHANGED vars
  BY <1>13, <1>2 DEF vars, manager, Running
<1>14. QED
  BY <1>3, <1>4, <1>5, <1>6, <1>7, <1>8, <1>9, <1>10, <1>11, <1>12, <1>13
  DEF Next, Setup, HandleMessage, Timers, Environment

\* The counters after a message was handled.
LEMMA HandledStep ==
  ASSUME TypeMessages, MessagesOK, Running,
         inbox # <<>>, inbox' = Tail(inbox), delivered' = delivered + 1, messages' = messages,
         acked' \in {acked, acked + 1},
         mgmt' # "none", mgmt' = "up" => mgmt = "up" /\ acked' = acked + 1
  PROVE  TypeMessages' /\ MessagesOK'
<1>1. inbox \in Seq(Message)  BY DEF TypeMessages
<1>2. /\ Tail(inbox) \in Seq(Message) /\ Len(Tail(inbox)) = Len(inbox) - 1
      /\ Len(inbox) \in Nat \ {0}
  BY <1>1, HeadTailProperties, EmptySeq
<1>3. /\ messages \in Nat /\ delivered \in Nat /\ acked \in Nat /\ acked <= delivered
      /\ delivered + Len(inbox) = messages
  BY DEF TypeMessages, MessagesOK
<1>4. delivered' + Len(inbox') = messages'  BY <1>2, <1>3
<1>5. delivered' \in 0..messages' /\ acked' \in 0..delivered'  BY <1>2, <1>3
<1>6. (Running' /\ mgmt' \in {"none", "up"}) => acked' = delivered'
  BY DEF MessagesOK
<1>7. TypeMessages'  BY <1>2, <1>3, <1>5 DEF TypeMessages
<1>8. QED  BY <1>4, <1>6, <1>7 DEF MessagesOK

\* The other steps leave the counters alone.
LEMMA UnhandledStep ==
  ASSUME TypeMessages, MessagesOK,
         UNCHANGED <<messages, inbox, acks>>,
         Running' => Running, mgmt' \in {"none", "up"} => mgmt \in {"none", "up"}
  PROVE  TypeMessages' /\ MessagesOK'
  BY DEF TypeMessages, MessagesOK, acks

\* A callback never brings the management connection up.
LEMMA CallbackLink ==
  ASSUME TypeLinks, Running, NEW done, Callback(done) \/ CallbackThrows(done),
         mgmt \in {"up", "closing"}
  PROVE  mgmt' # "none" /\ (mgmt' = "up" => mgmt = "up")
<1>1. CASE UNCHANGED mgmt  BY <1>1
<1>2. CASE Stop  BY <1>2 DEF Stop, Close, CloseManagement, Closing
<1>3. QED  BY <1>1, <1>2 DEF Callback, CallbackThrows, links, DataConfig

\* The messages, through every step.
LEMMA MessagesStep ==
  ASSUME TypeLinks, TypeMessages, MessagesOK, [Next]_vars
  PROVE  TypeMessages' /\ MessagesOK'
<1>0. acked \in Nat /\ delivered \in Nat  BY DEF TypeMessages
<1>1. CASE Connect \/ QueueDeclared \/ QueueBound \/ LinkFails \/ Ends
  BY <1>1, UnhandledStep DEF Connect, QueueDeclared, QueueBound, LinkFails, Ends, Running,
    links, manager
<1>2. CASE Consuming
  <2>1. Running /\ mgmt \in {"up", "closing"} /\ (Callback({}) \/ CallbackThrows({}))
    BY <1>2 DEF Consuming
  <2>2. mgmt' # "none" /\ (mgmt' = "up" => mgmt = "up")  BY <2>1, CallbackLink
  <2>3. QED  BY <1>2, <2>1, <2>2, UnhandledStep DEF Consuming
<1>3. CASE HandleResponse
  <2>1. PICK id \in entries : Callback({id}) \/ CallbackThrows({id})
    BY <1>3 DEF HandleResponse
  <2>2. Running /\ mgmt \in {"up", "closing"}  BY <1>3 DEF HandleResponse, Receives
  <2>3. mgmt' # "none" /\ (mgmt' = "up" => mgmt = "up")  BY <2>1, <2>2, CallbackLink
  <2>4. acked' = IF mgmt' = "up" THEN acked + 1 ELSE acked
    BY <1>3 DEF HandleResponse, Ack
  <2>5. QED  BY <1>3, <2>2, <2>3, <2>4, HandledStep DEF HandleResponse, Receives
<1>4. CASE HandleRequest
  <2>1. Callback({}) \/ CallbackThrows({})  BY <1>4 DEF HandleRequest
  <2>2. Running /\ mgmt \in {"up", "closing"}  BY <1>4 DEF HandleRequest, Receives
  <2>3. mgmt' # "none" /\ (mgmt' = "up" => mgmt = "up")  BY <2>1, <2>2, CallbackLink
  <2>4. acked' = IF mgmt' = "up" THEN acked + 1 ELSE acked
    BY <1>4 DEF HandleRequest, Ack
  <2>5. QED  BY <1>4, <2>2, <2>3, <2>4, HandledStep DEF HandleRequest, Receives
<1>5. CASE HandleError
  <2>1. Running /\ mgmt \in {"up", "closing"} /\ Stop
    BY <1>5 DEF HandleError, Receives
  <2>2. mgmt' # "none" /\ (mgmt' = "up" => mgmt = "up")
    BY <2>1 DEF Stop, Close, CloseManagement, Closing
  <2>3. acked' = IF mgmt = "up" THEN acked + 1 ELSE acked
    BY <1>5 DEF HandleError, AckOnError, Ack
  <2>4. QED  BY <1>5, <2>1, <2>2, <2>3, HandledStep DEF HandleError, Receives
<1>6. CASE HandleUnexpected
  <2>1. Running /\ mgmt \in {"up", "closing"} /\ mgmt' = mgmt
    BY <1>6 DEF HandleUnexpected, Receives, links
  <2>2. acked' = IF mgmt = "up" THEN acked + 1 ELSE acked
    BY <1>6 DEF HandleUnexpected, Ack
  <2>3. QED  BY <1>6, <2>1, <2>2, HandledStep DEF HandleUnexpected, Receives
<1>7. ASSUME NEW id \in 1..MaxRpcs, Expire(id) \/ TimeoutHandler(id)
      PROVE  TypeMessages' /\ MessagesOK'
  BY <1>7, UnhandledStep DEF Expire, TimeoutHandler, Running, links, manager
<1>8. CASE ApplicationRpc
  BY <1>8, UnhandledStep DEF ApplicationRpc, Running, links
<1>9. CASE ApplicationStop
  <2>1. mgmt' \in {"none", "up"} => mgmt \in {"none", "up"}
    BY <1>9, CloseEffect DEF ApplicationStop, Stop
  <2>2. QED  BY <1>9, <2>1, UnhandledStep DEF ApplicationStop, Running, manager
<1>10. ASSUME NEW m \in Message, ManagerSends(m)
       PROVE  TypeMessages' /\ MessagesOK'
  <2>1. /\ Append(inbox, m) \in Seq(Message) /\ Len(Append(inbox, m)) = Len(inbox) + 1
        /\ Len(inbox) \in Nat
    BY <1>10, AppendProperties, LenProperties DEF TypeMessages
  <2>2. /\ messages \in Nat /\ delivered \in 0..messages /\ delivered + Len(inbox) = messages
    BY DEF TypeMessages, MessagesOK
  <2>3. inbox' = Append(inbox, m) /\ messages' = messages + 1 /\ UNCHANGED <<acks, mgmt, loop>>
    BY <1>10 DEF ManagerSends, links
  <2>4. delivered' + Len(inbox') = messages' /\ delivered' \in 0..messages'
    BY <2>1, <2>2, <2>3 DEF acks
  <2>5. TypeMessages'  BY <2>1, <2>2, <2>3, <2>4 DEF TypeMessages, acks
  <2>6. QED  BY <2>3, <2>4, <2>5 DEF MessagesOK, Running, acks
<1>11. CASE DataClosed \/ ManagementClosed
  BY <1>11, UnhandledStep DEF DataClosed, ManagementClosed, Closing, Running, manager
<1>12. CASE UNCHANGED vars
  BY <1>12, UnhandledStep DEF vars, Running, links, manager
<1>13. QED
  BY <1>1, <1>2, <1>3, <1>4, <1>5, <1>6, <1>7, <1>8, <1>9, <1>10, <1>11, <1>12
  DEF Next, Setup, HandleMessage, Timers, Environment

-----------------------------------------------------------------------------
\* Inv holds in the initial state ...
LEMMA InvInit == Init => Inv
<1>1. SUFFICES ASSUME Init PROVE Inv  OBVIOUS
<1>2. Len(<<>>) = 0 /\ <<>> \in Seq(1..sent) /\ <<>> \in Seq(Message)
  OBVIOUS
<1>3. called \in Seq(1..sent) /\ inbox \in Seq(Message)  BY <1>1, <1>2 DEF Init
<1>4. TypeOK
  <2>1. TypeLinks  BY <1>1 DEF Init, TypeLinks, Links
  <2>2. TypeRpcs  BY <1>1, <1>3 DEF Init, TypeRpcs
  <2>3. TypeMessages  BY <1>1, <1>3 DEF Init, TypeMessages
  <2>4. QED  BY <2>1, <2>2, <2>3, TypeParts
<1>5. MessagesOK /\ EntriesOK  BY <1>1, <1>2 DEF Init, MessagesOK, EntriesOK
<1>6. QED  BY <1>4, <1>5 DEF Inv

\* ... and every step preserves it.
LEMMA InvStep == Inv /\ [Next]_vars => Inv'
<1>1. SUFFICES ASSUME Inv, [Next]_vars PROVE Inv'  OBVIOUS
<1>2. TypeLinks /\ TypeRpcs /\ TypeMessages /\ MessagesOK /\ EntriesOK
  BY <1>1, TypeParts DEF Inv
<1>3. TypeLinks'  BY <1>1, <1>2, LinksStep
<1>4. TypeRpcs' /\ EntriesOK'  BY <1>1, <1>2, RpcsStep
<1>5. TypeMessages' /\ MessagesOK'  BY <1>1, <1>2, MessagesStep
<1>6. TypeOK'  BY <1>3, <1>4, <1>5 DEF TypeOK, TypeLinks, TypeRpcs, TypeMessages
<1>7. QED  BY <1>4, <1>5, <1>6 DEF Inv

\* Inv is an invariant of the client.
THEOREM ClientInvariance == Spec => []Inv
  BY InvInit, InvStep, PTL DEF Spec

\* The members keep their types and ranges.
THEOREM ClientTypeCorrect == Spec => []TypeOK
<1>1. Inv => TypeOK  BY DEF Inv
<1>2. QED  BY <1>1, ClientInvariance, PTL

\* No message is acknowledged twice, or forgotten by an early return.
THEOREM MessagesAckedOnce == Spec => []AckedOnce
<1>1. Inv => AckedOnce  BY DEF Inv, MessagesOK, AckedOnce
<1>2. QED  BY <1>1, ClientInvariance, PTL

\* No RPC is without its timeout, and no timer without its RPC.
THEOREM RpcsGuarded == Spec => []Guarded
<1>1. Inv => Guarded  BY DEF Inv, EntriesOK, Guarded
<1>2. QED  BY <1>1, ClientInvariance, PTL

-----------------------------------------------------------------------------
\* The data connection is closed before the management connection.
THEOREM DataClosesFirst == Spec => CloseOrder
<1> DEFINE Order == mgmt = "up" /\ mgmt' = "closing" => data' \in {"none", "closed"}
<1>1. ASSUME Inv, [Next]_vars PROVE Order
  <2>0. TypeLinks  BY <1>1, TypeParts DEF Inv
  <2>1. CASE mgmt' = mgmt  BY <2>1
  <2>2. CASE Connect \/ ManagementClosed  BY <2>2 DEF Connect, ManagementClosed
  <2>3. CASE Consuming  BY <2>0, <2>3, CallbackLinks DEF Consuming
  <2>4. CASE HandleResponse
    BY <2>0, <2>4, CallbackLinks DEF HandleResponse, Receives
  <2>5. CASE HandleRequest
    BY <2>0, <2>5, CallbackLinks DEF HandleRequest, Receives
  <2>6. CASE HandleError \/ ApplicationStop
    BY <2>0, <2>6, CloseEffect DEF HandleError, ApplicationStop, Stop
  <2>7. CASE DataClosed  BY <2>7 DEF DataClosed
  <2>8. CASE QueueDeclared \/ QueueBound \/ HandleUnexpected \/ ApplicationRpc \/ LinkFails
             \/ Ends \/ (\E m \in Message : ManagerSends(m))
             \/ (\E id \in 1..MaxRpcs : Expire(id) \/ TimeoutHandler(id))
    BY <2>1, <2>8 DEF QueueDeclared, QueueBound, HandleUnexpected, ApplicationRpc,
      LinkFails, Ends, ManagerSends, Expire, TimeoutHandler, links
  <2>9. CASE UNCHANGED vars  BY <2>1, <2>9 DEF vars, links
  <2>10. QED
    BY <1>1, <2>2, <2>3, <2>4, <2>5, <2>6, <2>7, <2>8, <2>9
    DEF Next, Setup, HandleMessage, Timers, Environment
<1>2. Inv /\ [Next]_vars => [Order]_vars  BY <1>1
<1>3. QED  BY <1>2, ClientInvariance, PTL DEF Spec, CloseOrder

-----------------------------------------------------------------------------
Outstanding == entries \ Answered

contract == <<sent, Outstanding, called>>

\* A new RPC from elsewhere is a call of the contract.
LEMMA NewCall ==
  ASSUME TypeRpcs, Register({}), called' = called
  PROVE  Contract!Call
<1>1. Answered' = Answered  BY DEF Answered
<1>2. sent + 1 \notin Answered  BY AnsweredTyped DEF TypeRpcs
<1>3. QED  BY <1>1, <1>2 DEF Register, Contract!Call

\* Steps outside HandleResponse and HandleError call or do nothing.
LEMMA CallOrStutter ==
  ASSUME TypeRpcs, Callback({}) \/ CallbackThrows({}), called' = called
  PROVE  Contract!Call \/ UNCHANGED contract
<1>1. Answered' = Answered  BY DEF Answered
<1>2. Register({}) \/ Erase({}) \/ UNCHANGED <<sent, entries>>
  BY DEF Callback, CallbackThrows
<1>3. CASE Register({})  BY <1>3, NewCall
<1>4. CASE Erase({}) \/ UNCHANGED <<sent, entries>>
  BY <1>1, <1>4 DEF Erase, contract, Outstanding
<1>5. QED  BY <1>2, <1>3, <1>4

\* A response that is handled is an answer of the contract.
LEMMA ResponseAnswers ==
  ASSUME TypeRpcs, EntriesOK, Running, NEW id \in entries,
         Callback({id}) \/ CallbackThrows({id}), called' = Append(called, id)
  PROVE  Contract!Answer
<1>1. id \in 1..sent  BY DEF TypeRpcs
<1>2. Answered' = Answered \cup {id}  BY <1>1, AnsweredGrows
<1>3. id \in Outstanding  BY DEF EntriesOK, Outstanding
<1>4. sent + 1 \notin Answered /\ sent + 1 # id  BY <1>1, AnsweredTyped DEF TypeRpcs
<1>5. Register({id}) \/ Erase({id}) \/ UNCHANGED <<sent, entries>>
  BY DEF Callback, CallbackThrows
<1>6. \/ sent' = sent /\ Outstanding' = Outstanding \ {id}
      \/ sent' = sent + 1 /\ Outstanding' = (Outstanding \ {id}) \cup {sent + 1}
  BY <1>2, <1>4, <1>5 DEF Register, Erase, Outstanding
<1>7. QED  BY <1>3, <1>6 DEF Contract!Answer, Outstanding

\* Every step of the client is a step of the contract.
LEMMA ContractStep == Inv /\ [Next]_vars => [Contract!Next]_contract
<1>1. SUFFICES ASSUME Inv, [Next]_vars PROVE Contract!Next \/ UNCHANGED contract
  OBVIOUS
<1>2. TypeRpcs /\ EntriesOK  BY <1>1, TypeParts DEF Inv
<1>3. ASSUME UNCHANGED <<sent, entries, called>> PROVE UNCHANGED contract
  BY <1>3 DEF contract, Outstanding, Answered
<1>4. CASE HandleResponse
  <2>1. Running /\ \E id \in entries : /\ Callback({id}) \/ CallbackThrows({id})
                                       /\ called' = Append(called, id)
    BY <1>4 DEF HandleResponse, Receives
  <2>2. QED  BY <1>2, <2>1, ResponseAnswers DEF Contract!Next
<1>5. CASE HandleError
  <2>1. entries' = {} /\ UNCHANGED <<sent, called>>  BY <1>5 DEF HandleError, Erase
  <2>2. QED  BY <2>1 DEF Contract!Next, Contract!DropAll
<1>6. CASE Consuming \/ HandleRequest
  BY <1>2, <1>6, CallOrStutter DEF Consuming, HandleRequest, Contract!Next
<1>7. CASE ApplicationRpc
  BY <1>2, <1>7, NewCall DEF ApplicationRpc, Contract!Next
<1>8. CASE \/ Connect \/ QueueDeclared \/ QueueBound \/ HandleUnexpected \/ ApplicationStop
           \/ LinkFails \/ DataClosed \/ ManagementClosed \/ Ends
           \/ (\E m \in Message : ManagerSends(m))
           \/ (\E id \in 1..MaxRpcs : Expire(id) \/ TimeoutHandler(id))
  BY <1>3, <1>8 DEF Connect, QueueDeclared, QueueBound, HandleUnexpected, ApplicationStop,
    LinkFails, DataClosed, ManagementClosed, Ends, ManagerSends, Expire, TimeoutHandler, rpcs
<1>9. CASE UNCHANGED vars  BY <1>3, <1>9 DEF vars, rpcs
<1>10. QED
  BY <1>1, <1>4, <1>5, <1>6, <1>7, <1>8, <1>9
  DEF Next, Setup, HandleMessage, Timers, Environment

\* The RPC layer implements its contract: a response callback runs at most once,
\* and only while its call is outstanding.
THEOREM ImplementsContract == Spec => ContractSpec
<1>1. Init => Contract!Init
  BY DEF Init, Contract!Init, Answered
<1>2. [Contract!Next]_contract => [Contract!Next]_(Contract!contractVars)
  BY DEF contract, Outstanding, Contract!contractVars
<1>3. Inv /\ [Next]_vars => [Contract!Next]_(Contract!contractVars)
  BY <1>2, ContractStep
<1>4. QED  BY <1>1, <1>3, ClientInvariance, PTL DEF Spec, ContractSpec, Contract!Spec
=============================================================================
