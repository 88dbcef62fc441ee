-------------------------- MODULE ChatServerProofs --------------------------
(***************************************************************************)
(* Proofs about ChatServer, for any sets of receivers, senders and room    *)
(* names and any number of requests: types, the uniqueness of rooms, and   *)
(* that no broadcast touches a deleted User; then what receivers are given: *)
(* the semaphore of a User counts its queue, the stream of a receiver is   *)
(* its room's log since it joined, nobody is dropped without cause, and the *)
(* server implements one conversation per name.                            *)
(***************************************************************************)
EXTENDS ChatServer, SequenceTheorems, FiniteSetTheorems, TLAPS

\* The labels of a receiver's worker, and of a sender's.
LoginLabels == {"accept", "login", "greet", "leaked", "find", "create", "close", "done"}
ReceiverLabels == LoginLabels \cup {"join", "add", "welcome", "wait", "pop", "deliver",
                                    "remove", "delete"}
SenderLabels == LoginLabels \cup {"request", "broadcast", "iterate", "post", "reply"}

\* A null pointer is no Room, no thread is the owner of a free mutex, and the
\* two kinds of client are apart.
LEMMA Distinct ==
  /\ NoRoom \notin Rooms
  /\ Free \notin Clients
  /\ Receivers \cap Senders = {}
  /\ NoName \notin RoomNames
  /\ NoUser \notin Receivers
<1>1. NoRoom \notin Rooms
  BY DEF NoRoom, Rooms
<1> QED
  BY <1>1, ClientsAssumption, NamesAssumption

-----------------------------------------------------------------------------
(* Types *)

\* What a worker relies on at each label: its locals have been set.
Located ==
  /\ \A r \in Receivers : pc[r] \in ReceiverLabels
  /\ \A s \in Senders : pc[s] \in SenderLabels
  /\ \A c \in Clients : pc[c] \in {"find", "create"} => wanted[c] \in RoomNames
  /\ \A r \in Receivers :
       pc[r] \in {"add", "welcome", "wait", "pop", "deliver", "remove"} => room[r] \in Rooms
  /\ \A s \in Senders :
       pc[s] \in {"broadcast", "iterate", "post"} => room[s] \in Rooms /\ served[s] # 0
  /\ \A s \in Senders : pc[s] = "post" => curr_user[s] \in Receivers

\* The types alone: for all they say, a worker may write out no message.
WeakHistory ==
  /\ delivered \in [Receivers -> Seq(Messages \cup {NoMessage})]
  /\ log \in [Rooms -> Seq(Messages)]
  /\ start \in [Receivers -> Nat]

WeakTypes == LocalTypes /\ TableTypes /\ RoomTypes /\ UserTypes /\ WeakHistory

TypeInv == WeakTypes /\ Located

\* Reading a request counts it within the bound, and touches nothing else that
\* has a type.
LEMMA ReadRequestCounts ==
  ASSUME LocalTypes, NEW s \in Senders, ReadRequest(s)
  PROVE  /\ served' \in [Senders -> 0..MaxRequests]
         /\ served'[s] # 0
         /\ \A t \in Senders : served[t] # 0 => served'[t] # 0
         /\ last_result' \in [Senders -> {"SUCCESS", "EOF_OR_ERROR"}]
         /\ pc[s] = "request"
<1>1. served[s] + 1 \in 0..MaxRequests /\ served[s] + 1 # 0
  BY ClientsAssumption DEF ReadRequest, LocalTypes
<1> QED
  BY <1>1 DEF ReadRequest, LocalTypes

\* What CreateRoom makes is a Room.
LEMMA NewRoomInRooms ==
  ASSUME Located, NEW c \in Clients, pc[c] = "create"
  PROVE  wanted[c] \in RoomNames /\ <<wanted[c], c>> \in Rooms
BY DEF Located, Rooms

\* A connection changes when its client goes or stops reading, or with a write.
LEMMA ConnFrame ==
  ASSUME [Next]_vars
  PROVE  UNCHANGED conn \/ \E c \in Clients : Disconnect(c) \/ Stall(c) \/ WriteTo(c)
<1>1. CASE UNCHANGED vars
  BY <1>1 DEF vars
<1>2. CASE \E c \in Clients : ClientStep(c) \/ WorkerStep(c)
  BY <1>2 DEF ClientStep, WorkerStep, Accept, AcceptFails, Login, LoginRefused, Greet,
     FindRoom, CreateRoom, CloseConnection
<1>3. CASE \E r \in Receivers : ReceiverInput(r) \/ ReceiverStep(r)
  BY <1>3 DEF ReceiverInput, ReceiverStep, JoinRequest, JoinRefused, AddMember, Welcome,
     Wait, Pop, Deliver, RemoveMember, DeleteUser, Clients
<1>4. CASE \E s \in Senders : SenderInput(s) \/ SenderStep(s)
  BY <1>4 DEF SenderInput, SenderStep, RequestJoin, RequestLeave, RequestSendall,
     RequestQuit, RequestOther, ReceiveFails, BeginBroadcast, Push, Post, EndBroadcast,
     Reply, Clients
<1> QED
  BY <1>1, <1>2, <1>3, <1>4 DEF Next

\* A connection is in one of its four states.
LEMMA ConnStep ==
  TypeInv /\ [Next]_vars => conn' \in [Clients -> {"up", "stalled", "gone", "down"}]
BY ConnFrame DEF TypeInv, WeakTypes, LocalTypes, Disconnect, Stall, WriteTo

\* Every step keeps the locals of the workers in their types.
LEMMA LocalTypesStep == TypeInv /\ [Next]_vars => LocalTypes'
<1> SUFFICES ASSUME TypeInv, [Next]_vars PROVE LocalTypes'
  OBVIOUS
<1> USE DEF TypeInv, WeakTypes, LocalTypes, TableTypes, Labels, Texts, Clients
<1>0. conn' \in [Clients -> {"up", "stalled", "gone", "down"}]
  BY ConnStep
<1> USE <1>0
<1>1. CASE UNCHANGED vars
  BY <1>1 DEF vars, locals, table, rooms, user, history
<1>2. ASSUME NEW c \in Clients, ClientStep(c) \/ WorkerStep(c) PROVE LocalTypes'
  <2> USE DEF locals, table, rooms, user, history
  <2>1. CASE Disconnect(c)
    BY <2>1 DEF Disconnect, Goto
  <2>2. CASE Accept(c)
    BY <2>2 DEF Accept, Goto
  <2>3. CASE AcceptFails(c)
    BY <2>3 DEF AcceptFails, Goto
  <2>4. CASE Login(c)
    BY <2>4 DEF Login, Goto
  <2>5. CASE LoginRefused(c)
    BY <2>5 DEF LoginRefused, Goto
  <2>6. CASE Greet(c)
    BY <2>6 DEF Greet, Goto
  <2>7. CASE FindRoom(c)
    BY <2>7 DEF FindRoom, Goto, WithRoom, Located
  <2>8. CASE CreateRoom(c)
    <3>1. wanted[c] \in RoomNames /\ <<wanted[c], c>> \in Rooms
      BY <2>8, NewRoomInRooms DEF CreateRoom
    <3>2. room' = [room EXCEPT ![c] = <<wanted[c], c>>]
      BY <2>8 DEF CreateRoom
    <3>3. room' \in [Clients -> Rooms \cup {NoRoom}] /\ room'[c] \in Rooms
      BY <3>1, <3>2
    <3>4. UNCHANGED <<wanted, served, last_result, curr_user>>
      BY <2>8 DEF CreateRoom
    <3>5. \/ /\ c \in Receivers
             /\ pc' = [pc EXCEPT ![c] = "add"]
             /\ answer' = answer
          \/ /\ c \in Senders
             /\ pc' = [pc EXCEPT ![c] = "reply"]
             /\ answer' = [answer EXCEPT ![c] = "welcome"]
      BY <2>8 DEF CreateRoom, Goto, WithRoom
    <3>6. pc' \in [Clients -> Labels] /\ answer' \in [Senders -> Texts]
      BY <3>5
    <3>7. /\ wanted' \in [Clients -> RoomNames \cup {NoName}]
          /\ served' \in [Senders -> 0..MaxRequests]
          /\ last_result' \in [Senders -> {"SUCCESS", "EOF_OR_ERROR"}]
      BY <3>4
    <3> QED
      BY <3>3, <3>6, <3>7
  <2>9. CASE CloseConnection(c)
    BY <2>9 DEF CloseConnection, Goto
  <2>10. CASE Stall(c)
    BY <2>10 DEF Stall, Goto
  <2> QED
    BY <1>2, <2>1, <2>2, <2>3, <2>4, <2>5, <2>6, <2>7, <2>8, <2>9, <2>10
       DEF ClientStep, WorkerStep
<1>3. ASSUME NEW r \in Receivers, ReceiverInput(r) \/ ReceiverStep(r) PROVE LocalTypes'
  <2> USE DEF locals, table, rooms, user, history
  <2>1. ASSUME NEW n \in RoomNames, JoinRequest(r, n) PROVE LocalTypes'
    BY <2>1 DEF JoinRequest, Goto
  <2>2. CASE JoinRefused(r)
    BY <2>2 DEF JoinRefused, Goto
  <2>3. CASE AddMember(r)
    BY <2>3 DEF AddMember, Goto
  <2>4. CASE Welcome(r)
    BY <2>4 DEF Welcome, Goto
  <2>5. CASE Wait(r)
    BY <2>5 DEF Wait, Goto
  <2>6. CASE Pop(r)
    BY <2>6 DEF Pop, Goto
  <2>7. CASE Deliver(r)
    <3>1. pc' = [pc EXCEPT ![r] = "wait"] \/ pc' = [pc EXCEPT ![r] = "remove"]
      BY <2>7 DEF Deliver, Goto
    <3>2. UNCHANGED <<wanted, room, served, answer, last_result,
       curr_user>> /\ pc[r] = "deliver"
      BY <2>7 DEF Deliver
    <3> QED
      BY <3>1, <3>2
  <2>8. CASE RemoveMember(r)
    BY <2>8 DEF RemoveMember, Goto
  <2>9. CASE DeleteUser(r)
    BY <2>9 DEF DeleteUser, Goto
  <2> QED
    BY <1>3, <2>1, <2>2, <2>3, <2>4, <2>5, <2>6, <2>7, <2>8, <2>9
       DEF ReceiverInput, ReceiverStep
<1>4. ASSUME NEW s \in Senders, SenderInput(s) \/ SenderStep(s) PROVE LocalTypes'
  <2> USE DEF locals, table, rooms, user, history
  <2>1. ASSUME NEW n \in RoomNames, RequestJoin(s, n) PROVE LocalTypes'
    <3>1. /\ served' \in [Senders -> 0..MaxRequests] /\ served'[s] # 0
          /\ \A t \in Senders : served[t] # 0 => served'[t] # 0
          /\ last_result' \in [Senders -> {"SUCCESS", "EOF_OR_ERROR"}]
          /\ pc[s] = "request"
      BY <2>1, ReadRequestCounts DEF RequestJoin
    <3> QED
      BY <2>1, <3>1 DEF RequestJoin, Goto, Answer
  <2>2. ASSUME NEW n \in RoomNames, RequestLeave(s, n) PROVE LocalTypes'
    <3>1. /\ served' \in [Senders -> 0..MaxRequests] /\ served'[s] # 0
          /\ \A t \in Senders : served[t] # 0 => served'[t] # 0
          /\ last_result' \in [Senders -> {"SUCCESS", "EOF_OR_ERROR"}]
          /\ pc[s] = "request"
      BY <2>2, ReadRequestCounts DEF RequestLeave
    <3>2. /\ pc' = [pc EXCEPT ![s] = "reply"]
          /\ \/ answer' = [answer EXCEPT ![s] = "left room"]
             \/ answer' = [answer EXCEPT ![s] = "not in the room"]
          /\ room' = room \/ room' = [room EXCEPT ![s] = NoRoom]
          /\ UNCHANGED <<wanted, curr_user>>
      BY <2>2 DEF RequestLeave, Goto, Answer
    <3> QED
      BY <3>1, <3>2
  <2>3. CASE RequestSendall(s)
    <3>1. /\ served' \in [Senders -> 0..MaxRequests] /\ served'[s] # 0
          /\ \A t \in Senders : served[t] # 0 => served'[t] # 0
          /\ last_result' \in [Senders -> {"SUCCESS", "EOF_OR_ERROR"}]
          /\ pc[s] = "request"
      BY <2>3, ReadRequestCounts DEF RequestSendall
    <3>2. \/ /\ room[s] # NoRoom
             /\ pc' = [pc EXCEPT ![s] = "broadcast"]
             /\ answer' = answer
          \/ /\ pc' = [pc EXCEPT ![s] = "reply"]
             /\ answer' = [answer EXCEPT ![s] = "not in a room"]
      BY <2>3 DEF RequestSendall, Goto, Answer
    <3>3. UNCHANGED <<wanted, room, curr_user>>
      BY <2>3 DEF RequestSendall
    <3>4. room[s] # NoRoom => room[s] \in Rooms
      OBVIOUS
    <3>5. CASE answer' = answer /\ room[s] # NoRoom /\ pc' = [pc EXCEPT ![s] = "broadcast"]
      BY <3>1, <3>3, <3>4, <3>5
    <3>6. CASE pc' = [pc EXCEPT ![s] = "reply"] /\ answer' = [answer EXCEPT ![s] = "not in a room"]
      BY <3>1, <3>3, <3>6
    <3> QED
      BY <3>2, <3>5, <3>6
  <2>4. CASE RequestQuit(s)
    <3>1. /\ served' \in [Senders -> 0..MaxRequests] /\ served'[s] # 0
          /\ \A t \in Senders : served[t] # 0 => served'[t] # 0
          /\ last_result' \in [Senders -> {"SUCCESS", "EOF_OR_ERROR"}]
          /\ pc[s] = "request"
      BY <2>4, ReadRequestCounts DEF RequestQuit
    <3> QED
      BY <2>4, <3>1 DEF RequestQuit, Goto, Answer
  <2>5. CASE RequestOther(s)
    <3>1. /\ served' \in [Senders -> 0..MaxRequests] /\ served'[s] # 0
          /\ \A t \in Senders : served[t] # 0 => served'[t] # 0
          /\ last_result' \in [Senders -> {"SUCCESS", "EOF_OR_ERROR"}]
          /\ pc[s] = "request"
      BY <2>5, ReadRequestCounts DEF RequestOther
    <3> QED
      BY <2>5, <3>1 DEF RequestOther, Goto, Answer
  <2>6. CASE ReceiveFails(s)
    BY <2>6 DEF ReceiveFails, Goto
  <2>7. CASE BeginBroadcast(s)
    BY <2>7 DEF BeginBroadcast, Goto
  <2>8. ASSUME NEW u \in Receivers, Push(s, u) PROVE LocalTypes'
    BY <2>8 DEF Push, Goto
  <2>9. CASE Post(s)
    BY <2>9 DEF Post, Goto
  <2>10. CASE EndBroadcast(s)
    BY <2>10 DEF EndBroadcast, Goto, Answer
  <2>11. CASE Reply(s)
    BY <2>11 DEF Reply, Goto
  <2> QED
    BY <1>4, <2>1, <2>2, <2>3, <2>4, <2>5, <2>6, <2>7, <2>8, <2>9, <2>10, <2>11
       DEF SenderInput, SenderStep
<1> QED
  BY <1>1, <1>2, <1>3, <1>4 DEF Next

\* Every step leaves a worker with what its next label relies on.
LEMMA LocatedStep == TypeInv /\ [Next]_vars => Located'
<1> SUFFICES ASSUME TypeInv, [Next]_vars PROVE Located'
  OBVIOUS
<1> USE Distinct DEF TypeInv, WeakTypes, LocalTypes, TableTypes, Located, LoginLabels,
   ReceiverLabels, SenderLabels, Clients
<1>1. CASE UNCHANGED vars
  BY <1>1 DEF vars, locals, table, rooms, user, history
<1>2. ASSUME NEW c \in Clients, ClientStep(c) \/ WorkerStep(c) PROVE Located'
  <2> USE DEF locals, table, rooms, user, history
  <2>1. CASE Disconnect(c)
    BY <2>1 DEF Disconnect, Goto
  <2>2. CASE Accept(c)
    BY <2>2 DEF Accept, Goto
  <2>3. CASE AcceptFails(c)
    BY <2>3 DEF AcceptFails, Goto
  <2>4. CASE Login(c)
    BY <2>4 DEF Login, Goto
  <2>5. CASE LoginRefused(c)
    BY <2>5 DEF LoginRefused, Goto
  <2>6. CASE Greet(c)
    BY <2>6 DEF Greet, Goto
  <2>7. CASE FindRoom(c)
    BY <2>7 DEF FindRoom, Goto, WithRoom
  <2>8. CASE CreateRoom(c)
    <3>1. wanted[c] \in RoomNames /\ <<wanted[c], c>> \in Rooms
      BY <2>8, NewRoomInRooms DEF CreateRoom
    <3>2. room' = [room EXCEPT ![c] = <<wanted[c], c>>]
      BY <2>8 DEF CreateRoom
    <3>3. room' \in [Clients -> Rooms \cup {NoRoom}] /\ room'[c] \in Rooms
      BY <3>1, <3>2
    <3>4. UNCHANGED <<wanted, served, last_result, curr_user>>
      BY <2>8 DEF CreateRoom
    <3>5. \/ /\ c \in Receivers
             /\ pc' = [pc EXCEPT ![c] = "add"]
             /\ answer' = answer
          \/ /\ c \in Senders
             /\ pc' = [pc EXCEPT ![c] = "reply"]
             /\ answer' = [answer EXCEPT ![c] = "welcome"]
      BY <2>8 DEF CreateRoom, Goto, WithRoom
    <3> QED
      BY <3>1, <3>2, <3>3, <3>4, <3>5
  <2>9. CASE CloseConnection(c)
    BY <2>9 DEF CloseConnection, Goto
  <2>10. CASE Stall(c)
    BY <2>10 DEF Stall, Goto
  <2> QED
    BY <1>2, <2>1, <2>2, <2>3, <2>4, <2>5, <2>6, <2>7, <2>8, <2>9, <2>10
       DEF ClientStep, WorkerStep
<1>3. ASSUME NEW r \in Receivers, ReceiverInput(r) \/ ReceiverStep(r) PROVE Located'
  <2> USE DEF locals, table, rooms, user, history
  <2>1. ASSUME NEW n \in RoomNames, JoinRequest(r, n) PROVE Located'
    BY <2>1 DEF JoinRequest, Goto
  <2>2. CASE JoinRefused(r)
    BY <2>2 DEF JoinRefused, Goto
  <2>3. CASE AddMember(r)
    BY <2>3 DEF AddMember, Goto
  <2>4. CASE Welcome(r)
    BY <2>4 DEF Welcome, Goto
  <2>5. CASE Wait(r)
    BY <2>5 DEF Wait, Goto
  <2>6. CASE Pop(r)
    BY <2>6 DEF Pop, Goto
  <2>7. CASE Deliver(r)
    <3>1. pc' = [pc EXCEPT ![r] = "wait"] \/ pc' = [pc EXCEPT ![r] = "remove"]
      BY <2>7 DEF Deliver, Goto
    <3>2. UNCHANGED <<wanted, room, served, answer, last_result,
       curr_user>> /\ pc[r] = "deliver"
      BY <2>7 DEF Deliver
    <3> QED
      BY <3>1, <3>2
  <2>8. CASE RemoveMember(r)
    BY <2>8 DEF RemoveMember, Goto
  <2>9. CASE DeleteUser(r)
    BY <2>9 DEF DeleteUser, Goto
  <2> QED
    BY <1>3, <2>1, <2>2, <2>3, <2>4, <2>5, <2>6, <2>7, <2>8, <2>9
       DEF ReceiverInput, ReceiverStep
<1>4. ASSUME NEW s \in Senders, SenderInput(s) \/ SenderStep(s) PROVE Located'
  <2> USE DEF locals, table, rooms, user, history
  <2>1. ASSUME NEW n \in RoomNames, RequestJoin(s, n) PROVE Located'
    <3>1. /\ served' \in [Senders -> 0..MaxRequests] /\ served'[s] # 0
          /\ \A t \in Senders : served[t] # 0 => served'[t] # 0
          /\ last_result' \in [Senders -> {"SUCCESS", "EOF_OR_ERROR"}]
          /\ pc[s] = "request"
      BY <2>1, ReadRequestCounts DEF RequestJoin
    <3> QED
      BY <2>1, <3>1 DEF RequestJoin, Goto, Answer
  <2>2. ASSUME NEW n \in RoomNames, RequestLeave(s, n) PROVE Located'
    <3>1. /\ served' \in [Senders -> 0..MaxRequests] /\ served'[s] # 0
          /\ \A t \in Senders : served[t] # 0 => served'[t] # 0
          /\ last_result' \in [Senders -> {"SUCCESS", "EOF_OR_ERROR"}]
          /\ pc[s] = "request"
      BY <2>2, ReadRequestCounts DEF RequestLeave
    <3>2. /\ pc' = [pc EXCEPT ![s] = "reply"]
          /\ \/ answer' = [answer EXCEPT ![s] = "left room"]
             \/ answer' = [answer EXCEPT ![s] = "not in the room"]
          /\ room' = room \/ room' = [room EXCEPT ![s] = NoRoom]
          /\ UNCHANGED <<wanted, curr_user>>
      BY <2>2 DEF RequestLeave, Goto, Answer
    <3> QED
      BY <3>1, <3>2
  <2>3. CASE RequestSendall(s)
    <3>1. /\ served' \in [Senders -> 0..MaxRequests] /\ served'[s] # 0
          /\ \A t \in Senders : served[t] # 0 => served'[t] # 0
          /\ last_result' \in [Senders -> {"SUCCESS", "EOF_OR_ERROR"}]
          /\ pc[s] = "request"
      BY <2>3, ReadRequestCounts DEF RequestSendall
    <3>2. \/ /\ room[s] # NoRoom
             /\ pc' = [pc EXCEPT ![s] = "broadcast"]
             /\ answer' = answer
          \/ /\ pc' = [pc EXCEPT ![s] = "reply"]
             /\ answer' = [answer EXCEPT ![s] = "not in a room"]
      BY <2>3 DEF RequestSendall, Goto, Answer
    <3>3. UNCHANGED <<wanted, room, curr_user>>
      BY <2>3 DEF RequestSendall
    <3>4. room[s] # NoRoom => room[s] \in Rooms
      OBVIOUS
    <3>5. CASE answer' = answer /\ room[s] # NoRoom /\ pc' = [pc EXCEPT ![s] = "broadcast"]
      BY <3>1, <3>3, <3>4, <3>5
    <3>6. CASE pc' = [pc EXCEPT ![s] = "reply"] /\ answer' = [answer EXCEPT ![s] = "not in a room"]
      BY <3>1, <3>3, <3>6
    <3> QED
      BY <3>2, <3>5, <3>6
  <2>4. CASE RequestQuit(s)
    <3>1. /\ served' \in [Senders -> 0..MaxRequests] /\ served'[s] # 0
          /\ \A t \in Senders : served[t] # 0 => served'[t] # 0
          /\ last_result' \in [Senders -> {"SUCCESS", "EOF_OR_ERROR"}]
          /\ pc[s] = "request"
      BY <2>4, ReadRequestCounts DEF RequestQuit
    <3> QED
      BY <2>4, <3>1 DEF RequestQuit, Goto, Answer
  <2>5. CASE RequestOther(s)
    <3>1. /\ served' \in [Senders -> 0..MaxRequests] /\ served'[s] # 0
          /\ \A t \in Senders : served[t] # 0 => served'[t] # 0
          /\ last_result' \in [Senders -> {"SUCCESS", "EOF_OR_ERROR"}]
          /\ pc[s] = "request"
      BY <2>5, ReadRequestCounts DEF RequestOther
    <3> QED
      BY <2>5, <3>1 DEF RequestOther, Goto, Answer
  <2>6. CASE ReceiveFails(s)
    BY <2>6 DEF ReceiveFails, Goto
  <2>7. CASE BeginBroadcast(s)
    BY <2>7 DEF BeginBroadcast, Goto
  <2>8. ASSUME NEW u \in Receivers, Push(s, u) PROVE Located'
    BY <2>8 DEF Push, Goto, RoomTypes
  <2>9. CASE Post(s)
    BY <2>9 DEF Post, Goto
  <2>10. CASE EndBroadcast(s)
    BY <2>10 DEF EndBroadcast, Goto, Answer
  <2>11. CASE Reply(s)
    BY <2>11 DEF Reply, Goto
  <2> QED
    BY <1>4, <2>1, <2>2, <2>3, <2>4, <2>5, <2>6, <2>7, <2>8, <2>9, <2>10, <2>11
       DEF SenderInput, SenderStep
<1> QED
  BY <1>1, <1>2, <1>3, <1>4 DEF Next

-----------------------------------------------------------------------------
(* Which steps change which part of the state *)

\* Only find_or_create_room touches the table of rooms.
LEMMA TableFrame ==
  ASSUME [Next]_vars
  PROVE  \/ UNCHANGED table
         \/ \E c \in Clients : FindRoom(c)
         \/ \E c \in Clients : CreateRoom(c)
<1>1. CASE UNCHANGED vars
  BY <1>1 DEF vars, locals, table, rooms, user, history
<1>2. CASE \E c \in Clients : ClientStep(c) \/ WorkerStep(c)
  BY <1>2 DEF ClientStep, WorkerStep, Disconnect, Stall, Accept, AcceptFails, Login,
     LoginRefused, Greet, CloseConnection, table
<1>3. CASE \E r \in Receivers : ReceiverInput(r) \/ ReceiverStep(r)
  BY <1>3 DEF ReceiverInput, ReceiverStep, JoinRequest, JoinRefused, AddMember,
     Welcome, Wait, Pop, Deliver, RemoveMember, DeleteUser, table
<1>4. CASE \E s \in Senders : SenderInput(s) \/ SenderStep(s)
  BY <1>4 DEF SenderInput, SenderStep, RequestJoin, RequestLeave, RequestSendall,
     RequestQuit, RequestOther, ReceiveFails, BeginBroadcast, Push, Post, EndBroadcast,
        Reply, table
<1> QED
  BY <1>1, <1>2, <1>3, <1>4 DEF Next

\* The rooms change when a member comes or goes and during a broadcast.
LEMMA RoomsFrame ==
  ASSUME [Next]_vars
  PROVE  \/ UNCHANGED rooms
         \/ \E r \in Receivers : AddMember(r)
         \/ \E r \in Receivers : RemoveMember(r)
         \/ \E s \in Senders : BeginBroadcast(s)
         \/ \E s \in Senders, u \in Receivers : Push(s, u)
         \/ \E s \in Senders : Post(s)
         \/ \E s \in Senders : EndBroadcast(s)
<1>1. CASE UNCHANGED vars
  BY <1>1 DEF vars, locals, table, rooms, user, history
<1>2. CASE \E c \in Clients : ClientStep(c) \/ WorkerStep(c)
  BY <1>2 DEF ClientStep, WorkerStep, Disconnect, Stall, Accept, AcceptFails, Login,
     LoginRefused, Greet, FindRoom, CreateRoom, CloseConnection, rooms
<1>3. CASE \E r \in Receivers : ReceiverInput(r) \/ ReceiverStep(r)
  BY <1>3 DEF ReceiverInput, ReceiverStep, JoinRequest, JoinRefused, Welcome,
     Wait, Pop, Deliver, DeleteUser, rooms
<1>4. CASE \E s \in Senders : SenderInput(s) \/ SenderStep(s)
  BY <1>4 DEF SenderInput, SenderStep, RequestJoin, RequestLeave, RequestSendall,
     RequestQuit, RequestOther, ReceiveFails, Reply, rooms
<1> QED
  BY <1>1, <1>2, <1>3, <1>4 DEF Next

\* A User is changed by its own worker and by a broadcast, by nobody else.
LEMMA UserFrame ==
  ASSUME [Next]_vars
  PROVE  \/ UNCHANGED user
         \/ \E r \in Receivers, n \in RoomNames : JoinRequest(r, n)
         \/ \E r \in Receivers : Wait(r)
         \/ \E r \in Receivers : Pop(r)
         \/ \E r \in Receivers : Deliver(r)
         \/ \E r \in Receivers : DeleteUser(r)
         \/ \E s \in Senders, u \in Receivers : Push(s, u)
         \/ \E s \in Senders : Post(s)
<1>1. CASE UNCHANGED vars
  BY <1>1 DEF vars, locals, table, rooms, user, history
<1>2. CASE \E c \in Clients : ClientStep(c) \/ WorkerStep(c)
  BY <1>2 DEF ClientStep, WorkerStep, Disconnect, Stall, Accept, AcceptFails, Login,
     LoginRefused, Greet, FindRoom, CreateRoom, CloseConnection, user
<1>3. CASE \E r \in Receivers : ReceiverInput(r) \/ ReceiverStep(r)
  BY <1>3 DEF ReceiverInput, ReceiverStep, JoinRefused, AddMember, Welcome,
     RemoveMember, user
<1>4. CASE \E s \in Senders : SenderInput(s) \/ SenderStep(s)
  BY <1>4 DEF SenderInput, SenderStep, RequestJoin, RequestLeave, RequestSendall,
     RequestQuit, RequestOther, ReceiveFails, BeginBroadcast, EndBroadcast, Reply, user
<1> QED
  BY <1>1, <1>2, <1>3, <1>4 DEF Next

\* What was said and delivered changes when it is said or delivered.
LEMMA HistoryFrame ==
  ASSUME [Next]_vars
  PROVE  \/ UNCHANGED history
         \/ \E r \in Receivers : AddMember(r)
         \/ \E r \in Receivers : Deliver(r)
         \/ \E s \in Senders : BeginBroadcast(s)
<1>1. CASE UNCHANGED vars
  BY <1>1 DEF vars, locals, table, rooms, user, history
<1>2. CASE \E c \in Clients : ClientStep(c) \/ WorkerStep(c)
  BY <1>2 DEF ClientStep, WorkerStep, Disconnect, Stall, Accept, AcceptFails, Login,
     LoginRefused, Greet, FindRoom, CreateRoom, CloseConnection, history
<1>3. CASE \E r \in Receivers : ReceiverInput(r) \/ ReceiverStep(r)
  BY <1>3 DEF ReceiverInput, ReceiverStep, JoinRequest, JoinRefused, Welcome,
     Wait, Pop, RemoveMember, DeleteUser, history
<1>4. CASE \E s \in Senders : SenderInput(s) \/ SenderStep(s)
  BY <1>4 DEF SenderInput, SenderStep, RequestJoin, RequestLeave, RequestSendall,
     RequestQuit, RequestOther, ReceiveFails, Push, Post, EndBroadcast, Reply, history
<1> QED
  BY <1>1, <1>2, <1>3, <1>4 DEF Next

-----------------------------------------------------------------------------
\* The table only ever holds Rooms.
LEMMA TableTypesStep == TypeInv /\ [Next]_vars => TableTypes'
<1> SUFFICES ASSUME TypeInv, [Next]_vars PROVE TableTypes'
  OBVIOUS
<1> USE DEF TypeInv, WeakTypes, LocalTypes, TableTypes, Clients
<1>1. CASE UNCHANGED table
  BY <1>1 DEF table
<1>2. ASSUME NEW c \in Clients, FindRoom(c) PROVE TableTypes'
  BY <1>2 DEF FindRoom
<1>3. ASSUME NEW c \in Clients, CreateRoom(c) PROVE TableTypes'
  <2>1. <<wanted[c], c>> \in Rooms
    BY <1>3, NewRoomInRooms DEF CreateRoom
  <2> QED
    BY <1>3, <2>1 DEF CreateRoom
<1> QED
  BY <1>1, <1>2, <1>3, TableFrame

\* Rooms are locked by senders only, and have receivers for members.
LEMMA RoomTypesStep == TypeInv /\ [Next]_vars => RoomTypes'
<1> SUFFICES ASSUME TypeInv, [Next]_vars PROVE RoomTypes'
  OBVIOUS
<1> USE DEF TypeInv, WeakTypes, RoomTypes
<1>1. CASE UNCHANGED rooms
  BY <1>1 DEF rooms
<1>2. ASSUME NEW r \in Receivers, AddMember(r) \/ RemoveMember(r) PROVE RoomTypes'
  BY <1>2 DEF AddMember, RemoveMember
<1>3. ASSUME NEW s \in Senders, BeginBroadcast(s) PROVE RoomTypes'
  BY <1>3 DEF BeginBroadcast
<1>4. ASSUME NEW s \in Senders, NEW u \in Receivers, Push(s, u) PROVE RoomTypes'
  BY <1>4 DEF Push
<1>5. ASSUME NEW s \in Senders, Post(s) \/ EndBroadcast(s) PROVE RoomTypes'
  BY <1>5 DEF Post, EndBroadcast
<1> QED
  BY <1>1, <1>2, <1>3, <1>4, <1>5, RoomsFrame

\* The message of a broadcast is one of the sender's requests.
LEMMA BroadcastIsMessage ==
  ASSUME TypeInv, NEW s \in Senders, pc[s] \in {"broadcast", "iterate"}
  PROVE  <<s, served[s]>> \in Messages
<1>1. served[s] \in 0..MaxRequests /\ served[s] # 0
  BY DEF TypeInv, WeakTypes, LocalTypes, Located
<1>2. served[s] \in 1..MaxRequests
  BY <1>1, ClientsAssumption
<1> QED
  BY <1>2 DEF Messages

\* A semaphore is counted down only when it is positive, and queues hold
\* messages.
LEMMA UserTypesStep == TypeInv /\ [Next]_vars => UserTypes'
<1> SUFFICES ASSUME TypeInv, [Next]_vars PROVE UserTypes'
  OBVIOUS
<1> USE DEF TypeInv, WeakTypes, UserTypes
<1>1. CASE UNCHANGED user
  BY <1>1 DEF user
<1>2. ASSUME NEW r \in Receivers, NEW n \in RoomNames, JoinRequest(r, n) PROVE UserTypes'
  BY <1>2 DEF JoinRequest
<1>3. ASSUME NEW r \in Receivers, Wait(r) PROVE UserTypes'
  <2>1. avail[r] - 1 \in Nat
    BY <1>3 DEF Wait
  <2> QED
    BY <1>3, <2>1 DEF Wait
<1>4. ASSUME NEW r \in Receivers, Pop(r) PROVE UserTypes'
  <2>1. CASE queue[r] = <<>>
    BY <1>4, <2>1 DEF Pop
  <2>2. CASE queue[r] # <<>>
    <3>1. Head(queue[r]) \in Messages /\ Tail(queue[r]) \in Seq(Messages)
      BY <2>2, HeadTailProperties
    <3>2. /\ mq' = [mq EXCEPT ![r] = Head(queue[r])]
          /\ queue' = [queue EXCEPT ![r] = Tail(queue[r])]
          /\ UNCHANGED <<heap, avail>>
      BY <1>4, <2>2 DEF Pop
    <3> QED
      BY <3>1, <3>2
  <2> QED
    BY <2>1, <2>2
<1>5. ASSUME NEW r \in Receivers, Deliver(r) \/ DeleteUser(r) PROVE UserTypes'
  <2>1. CASE Deliver(r)
    BY <2>1 DEF Deliver
  <2>2. CASE DeleteUser(r)
    <3>1. <<>> \in Seq(Messages)
      BY EmptySeq
    <3> QED
      BY <2>2, <3>1 DEF DeleteUser
  <2> QED
    BY <1>5, <2>1, <2>2
<1>6. ASSUME NEW s \in Senders, NEW u \in Receivers, Push(s, u) PROVE UserTypes'
  <2>1. Append(queue[u], <<s, served[s]>>) \in Seq(Messages)
    BY <1>6, BroadcastIsMessage, AppendProperties DEF Push
  <2>2. /\ queue' = [queue EXCEPT ![u] = Append(queue[u], <<s, served[s]>>)]
        /\ UNCHANGED <<heap, avail, mq>>
    BY <1>6 DEF Push
  <2> QED
    BY <2>1, <2>2
<1>7. ASSUME NEW s \in Senders, Post(s) PROVE UserTypes'
  <2>1. curr_user[s] \in Receivers
    BY <1>7 DEF Post, Located
  <2> QED
    BY <1>7, <2>1 DEF Post
<1> QED
  BY <1>1, <1>2, <1>3, <1>4, <1>5, <1>6, <1>7, UserFrame

\* Logs and deliveries are sequences of messages.
LEMMA WeakHistoryStep == TypeInv /\ [Next]_vars => WeakHistory'
<1> SUFFICES ASSUME TypeInv, [Next]_vars PROVE WeakHistory'
  OBVIOUS
<1> USE DEF TypeInv, WeakTypes, WeakHistory
<1>1. CASE UNCHANGED history
  BY <1>1 DEF history
<1>2. ASSUME NEW r \in Receivers, AddMember(r) PROVE WeakHistory'
  <2>1. room[r] \in Rooms
    BY <1>2 DEF AddMember, Located
  <2>2. Len(log[room[r]]) \in Nat
    BY <2>1, LenProperties
  <2> QED
    BY <1>2, <2>2 DEF AddMember
<1>3. ASSUME NEW r \in Receivers, Deliver(r) PROVE WeakHistory'
  <2>1. mq[r] \in Messages \cup {NoMessage}
    BY DEF UserTypes
  <2>2. Append(delivered[r], mq[r]) \in Seq(Messages \cup {NoMessage})
    BY <2>1, AppendProperties
  <2>3. /\ \/ delivered' = delivered
           \/ delivered' = [delivered EXCEPT ![r] = Append(delivered[r], mq[r])]
        /\ UNCHANGED <<log, start>>
    BY <1>3 DEF Deliver
  <2> QED
    BY <2>2, <2>3
<1>4. ASSUME NEW s \in Senders, BeginBroadcast(s) PROVE WeakHistory'
  <2>1. room[s] \in Rooms
    BY <1>4 DEF BeginBroadcast, Located
  <2>2. Append(log[room[s]], <<s, served[s]>>) \in Seq(Messages)
    BY <1>4, <2>1, BroadcastIsMessage, AppendProperties DEF BeginBroadcast
  <2>3. /\ log' = [log EXCEPT ![room[s]] = Append(log[room[s]], <<s, served[s]>>)]
        /\ UNCHANGED <<delivered, start>>
    BY <1>4 DEF BeginBroadcast
  <2> QED
    BY <2>1, <2>2, <2>3
<1> QED
  BY <1>1, <1>2, <1>3, <1>4, HistoryFrame

\* At the start no worker is anywhere and nothing is set.
LEMMA TypeInit == Init => TypeInv
<1> SUFFICES ASSUME Init PROVE TypeInv
  OBVIOUS
<1> USE Distinct, ClientsAssumption DEF Init, Clients
<1>1. LocalTypes
  BY DEF LocalTypes, Labels, Texts
<1>2. TableTypes /\ RoomTypes
  BY DEF TableTypes, RoomTypes
<1>3. UserTypes /\ WeakHistory
  BY EmptySeq DEF UserTypes, WeakHistory
<1>4. Located
  BY DEF Located, LoginLabels, ReceiverLabels, SenderLabels
<1> QED
  BY <1>1, <1>2, <1>3, <1>4 DEF TypeInv, WeakTypes

\* The types, with what every label relies on, hold in every state.
THEOREM TypesAlways == Spec => []TypeInv
<1>1. TypeInv /\ [Next]_vars => TypeInv'
  BY LocalTypesStep, TableTypesStep, RoomTypesStep, UserTypesStep, WeakHistoryStep,
     LocatedStep DEF TypeInv, WeakTypes
<1> QED
  BY TypeInit, <1>1, PTL DEF Spec

-----------------------------------------------------------------------------
(* One room per name *)

\* The table lists each room under its name, everybody's room is the one in the
\* table, and whoever is about to create one is alone: it holds the lock, and
\* the name is still missing.  The last part is what the lock is for.
TableInv ==
  /\ \A n \in RoomNames : m_rooms[n] # NoRoom => m_rooms[n][1] = n
  /\ OneRoomPerName
  /\ \A c \in Clients : pc[c] = "create" => m_lock = c /\ m_rooms[wanted[c]] = NoRoom

\* Looking up and creating are one step for the other threads.
LEMMA TableInvStep == TypeInv /\ TableInv /\ [Next]_vars => TableInv'
<1> SUFFICES ASSUME TypeInv /\ TableInv, [Next]_vars PROVE TableInv'
  OBVIOUS
<1> USE Distinct DEF TypeInv, WeakTypes, LocalTypes, TableTypes, TableInv, OneRoomPerName,
   Clients
<1>1. CASE UNCHANGED vars
  BY <1>1 DEF vars, locals, table, rooms, user, history
<1>2. ASSUME NEW c \in Clients, ClientStep(c) \/ WorkerStep(c) PROVE TableInv'
  <2> USE DEF locals, table, rooms, user, history
  <2>1. CASE Disconnect(c)
    BY <2>1 DEF Disconnect, Goto
  <2>2. CASE Accept(c)
    BY <2>2 DEF Accept, Goto
  <2>3. CASE AcceptFails(c)
    BY <2>3 DEF AcceptFails, Goto
  <2>4. CASE Login(c)
    BY <2>4 DEF Login, Goto
  <2>5. CASE LoginRefused(c)
    BY <2>5 DEF LoginRefused, Goto
  <2>6. CASE Greet(c)
    BY <2>6 DEF Greet, Goto
  <2>7. CASE FindRoom(c)
    <3>1. wanted[c] \in RoomNames
      BY <2>7 DEF FindRoom, Located
    <3>2. CASE m_rooms[wanted[c]] # NoRoom
      <4>1. /\ room' = [room EXCEPT ![c] = m_rooms[wanted[c]]]
            /\ pc' = [pc EXCEPT ![c] = "add"] \/ pc' = [pc EXCEPT ![c] = "reply"]
            /\ UNCHANGED <<wanted, m_lock, m_rooms>>
        BY <2>7, <3>2 DEF FindRoom, Goto, WithRoom
      <4> QED
        BY <3>1, <3>2, <4>1
    <3>3. CASE m_rooms[wanted[c]] = NoRoom
      <4>1. /\ pc' = [pc EXCEPT ![c] = "create"]
            /\ m_lock = Free /\ m_lock' = c
            /\ UNCHANGED <<wanted, room, m_rooms>>
        BY <2>7, <3>3 DEF FindRoom, Goto
      <4> QED
        BY <3>1, <3>3, <4>1
    <3> QED
      BY <3>2, <3>3
  <2>8. CASE CreateRoom(c)
    <3>1. wanted[c] \in RoomNames /\ <<wanted[c], c>> \in Rooms
      BY <2>8, NewRoomInRooms DEF CreateRoom
    <3>2. /\ room' = [room EXCEPT ![c] = <<wanted[c], c>>]
          /\ m_rooms' = [m_rooms EXCEPT ![wanted[c]] = <<wanted[c], c>>]
          /\ pc' = [pc EXCEPT ![c] = "add"] \/ pc' = [pc EXCEPT ![c] = "reply"]
          /\ UNCHANGED wanted
          /\ pc[c] = "create"
      BY <2>8 DEF CreateRoom, Goto, WithRoom
    <3>3. m_rooms[wanted[c]] = NoRoom /\ m_lock = c
      BY <3>2
    <3>4. \A n \in RoomNames : m_rooms'[n] # NoRoom => m_rooms'[n][1] = n
      BY <3>1, <3>2
    <3>5. \A d \in Clients : room'[d] # NoRoom => m_rooms'[room'[d][1]] = room'[d]
      <4> SUFFICES ASSUME NEW d \in Clients, room'[d] # NoRoom
                   PROVE  m_rooms'[room'[d][1]] = room'[d]
        OBVIOUS
      <4>1. CASE d = c
        BY <3>1, <3>2, <4>1
      <4>2. CASE d # c
        <5>1. room'[d] = room[d] /\ room[d] \in Rooms
          BY <3>2, <4>2
        <5>2. room[d][1] \in RoomNames /\ m_rooms[room[d][1]] = room[d]
          BY <5>1 DEF Rooms
        <5>3. room[d][1] # wanted[c]
          BY <3>3, <5>1, <5>2
        <5> QED
          BY <3>2, <5>1, <5>2, <5>3
      <4> QED
        BY <4>1, <4>2
    <3>6. \A d \in Clients : pc'[d] # "create"
      BY <3>2, <3>3
    <3> QED
      BY <3>4, <3>5, <3>6
  <2>9. CASE CloseConnection(c)
    BY <2>9 DEF CloseConnection, Goto
  <2>10. CASE Stall(c)
    BY <2>10 DEF Stall, Goto
  <2> QED
    BY <1>2, <2>1, <2>2, <2>3, <2>4, <2>5, <2>6, <2>7, <2>8, <2>9, <2>10
       DEF ClientStep, WorkerStep
<1>3. ASSUME NEW r \in Receivers, ReceiverInput(r) \/ ReceiverStep(r) PROVE TableInv'
  <2> USE DEF locals, table, rooms, user, history
  <2>1. ASSUME NEW n \in RoomNames, JoinRequest(r, n) PROVE TableInv'
    BY <2>1 DEF JoinRequest, Goto
  <2>2. CASE JoinRefused(r)
    BY <2>2 DEF JoinRefused, Goto
  <2>3. CASE AddMember(r)
    BY <2>3 DEF AddMember, Goto
  <2>4. CASE Welcome(r)
    BY <2>4 DEF Welcome, Goto
  <2>5. CASE Wait(r)
    BY <2>5 DEF Wait, Goto
  <2>6. CASE Pop(r)
    BY <2>6 DEF Pop, Goto
  <2>7. CASE Deliver(r)
    BY <2>7 DEF Deliver, Goto
  <2>8. CASE RemoveMember(r)
    BY <2>8 DEF RemoveMember, Goto
  <2>9. CASE DeleteUser(r)
    BY <2>9 DEF DeleteUser, Goto
  <2> QED
    BY <1>3, <2>1, <2>2, <2>3, <2>4, <2>5, <2>6, <2>7, <2>8, <2>9
       DEF ReceiverInput, ReceiverStep
<1>4. ASSUME NEW s \in Senders, SenderInput(s) \/ SenderStep(s) PROVE TableInv'
  <2> USE DEF locals, table, rooms, user, history
  <2>1. ASSUME NEW n \in RoomNames, RequestJoin(s, n) PROVE TableInv'
    BY <2>1 DEF RequestJoin, Goto, ReadRequest
  <2>2. ASSUME NEW n \in RoomNames, RequestLeave(s, n) PROVE TableInv'
    <3>1. /\ pc[s] = "request"
          /\ pc' = [pc EXCEPT ![s] = "reply"]
          /\ room' = room \/ room' = [room EXCEPT ![s] = NoRoom]
          /\ UNCHANGED <<wanted, m_lock, m_rooms>>
      BY <2>2 DEF RequestLeave, Goto, ReadRequest, Answer
    <3> QED
      BY <3>1
  <2>3. CASE RequestSendall(s)
    <3>1. /\ pc[s] = "request"
          /\ pc' = [pc EXCEPT ![s] = "broadcast"] \/ pc' = [pc EXCEPT ![s] = "reply"]
          /\ UNCHANGED <<wanted, room, m_lock, m_rooms>>
      BY <2>3 DEF RequestSendall, Goto, ReadRequest, Answer
    <3> QED
      BY <3>1
  <2>4. CASE RequestQuit(s)
    BY <2>4 DEF RequestQuit, Goto, ReadRequest, Answer
  <2>5. CASE RequestOther(s)
    BY <2>5 DEF RequestOther, Goto, ReadRequest
  <2>6. CASE ReceiveFails(s)
    BY <2>6 DEF ReceiveFails, Goto
  <2>7. CASE BeginBroadcast(s)
    BY <2>7 DEF BeginBroadcast, Goto
  <2>8. ASSUME NEW u \in Receivers, Push(s, u) PROVE TableInv'
    BY <2>8 DEF Push, Goto
  <2>9. CASE Post(s)
    BY <2>9 DEF Post, Goto
  <2>10. CASE EndBroadcast(s)
    BY <2>10 DEF EndBroadcast, Goto, Answer
  <2>11. CASE Reply(s)
    BY <2>11 DEF Reply, Goto
  <2> QED
    BY <1>4, <2>1, <2>2, <2>3, <2>4, <2>5, <2>6, <2>7, <2>8, <2>9, <2>10, <2>11
       DEF SenderInput, SenderStep
<1> QED
  BY <1>1, <1>2, <1>3, <1>4 DEF Next

\* Two threads that ask for one room at the same time get the same object.
THEOREM OneRoomAlways == Spec => []OneRoomPerName
<1>1. Init => TableInv
  BY DEF Init, TableInv, OneRoomPerName
<1>2. TypeInv /\ TableInv /\ [Next]_vars => TableInv'
  BY TableInvStep
<1>3. TableInv => OneRoomPerName
  BY DEF TableInv
<1> QED
  BY <1>1, <1>2, <1>3, TypesAlways, PTL DEF Spec

-----------------------------------------------------------------------------
(* No use after free *)

\* A member is a live User whose worker has been added and is not past its
\* removal; a broadcast holds the lock of the room it goes through, so the
\* member it is at cannot be removed, nor deleted, under it.
RoomInv ==
  /\ \A m \in Rooms : \A u \in members[m] :
       /\ heap[u] = "live"
       /\ room[u] = m
       /\ pc[u] \in {"welcome", "wait", "pop", "deliver", "remove", "close", "done"}
  /\ \A r \in Receivers : pc[r] \in {"find", "create", "add"} => heap[r] = "live"
  /\ \A s \in Senders : pc[s] \in {"iterate", "post"} => lock[room[s]] = s
  /\ \A s \in Senders : pc[s] = "post" => curr_user[s] \in members[room[s]]

\* A step of one worker that leaves rooms and Users alone disturbs RoomInv
\* only if it takes a member away from its room or its labels.
LEMMA LocalMove ==
  ASSUME TypeInv, RoomInv, NEW c \in Clients, NEW label,
         pc' = [pc EXCEPT ![c] = label],
         pc[c] \notin {"iterate", "post"}, label \notin {"iterate", "post"},
         \A d \in Clients : d # c => room'[d] = room[d],
         \A m \in Rooms : c \in members[m] =>
           room'[c] = room[c] /\ label \in {"welcome", "wait", "pop", "deliver",
              "remove", "close", "done"},
         c \in Receivers /\ label \in {"find", "create", "add"} => heap[c] = "live",
         UNCHANGED <<lock, members, curr_user, heap>>
  PROVE  RoomInv'
<1>0. /\ pc \in [Clients -> Labels]
      /\ members \in [Rooms -> SUBSET Receivers]
      /\ Receivers \subseteq Clients /\ Senders \subseteq Clients
  BY DEF TypeInv, WeakTypes, LocalTypes, RoomTypes, Clients
<1>1. \A d \in Clients : d # c => pc'[d] = pc[d] /\ room'[d] = room[d]
  BY <1>0
<1>2. pc'[c] = label
  BY <1>0
<1>3. ASSUME NEW m \in Rooms, NEW u \in members'[m]
      PROVE  heap'[u] = "live" /\ room'[u] = m /\ pc'[u] \in {"welcome", "wait", "pop",
         "deliver", "remove", "close", "done"}
  <2>1. u \in members[m] /\ u \in Clients
    BY <1>0, <1>3
  <2>2. heap[u] = "live" /\ room[u] = m /\ pc[u] \in {"welcome", "wait", "pop",
     "deliver", "remove", "close", "done"}
    BY <2>1 DEF RoomInv
  <2> QED
    BY <1>1, <1>2, <2>1, <2>2
<1>4. ASSUME NEW r \in Receivers, pc'[r] \in {"find", "create", "add"}
      PROVE  heap'[r] = "live"
  BY <1>0, <1>1, <1>2, <1>4 DEF RoomInv
<1>5. ASSUME NEW s \in Senders, pc'[s] \in {"iterate", "post"}
      PROVE  s # c /\ pc[s] = pc'[s] /\ room'[s] = room[s]
  BY <1>0, <1>1, <1>2, <1>5
<1>6. ASSUME NEW s \in Senders, pc'[s] \in {"iterate", "post"} PROVE lock'[room'[s]] = s
  BY <1>5, <1>6 DEF RoomInv
<1>7. ASSUME NEW s \in Senders, pc'[s] = "post" PROVE curr_user'[s] \in members'[room'[s]]
  BY <1>5, <1>7 DEF RoomInv
<1> QED
  BY <1>3, <1>4, <1>6, <1>7 DEF RoomInv

\* Nobody is removed or deleted under a broadcast.
LEMMA RoomInvStep == TypeInv /\ RoomInv /\ [Next]_vars => RoomInv'
<1> SUFFICES ASSUME TypeInv /\ RoomInv, [Next]_vars PROVE RoomInv'
  OBVIOUS
<1> USE Distinct DEF TypeInv, WeakTypes, LocalTypes, RoomTypes, UserTypes, Located, RoomInv,
   Clients
<1>1. CASE UNCHANGED vars
  BY <1>1 DEF vars, locals, table, rooms, user, history
<1>2. ASSUME NEW c \in Clients, ClientStep(c) \/ WorkerStep(c) PROVE RoomInv'
  <2> USE DEF locals, table, rooms, user, history
  <2>1. CASE Disconnect(c)
    BY <2>1 DEF Disconnect, Goto
  <2>2. CASE Accept(c)
    BY <2>2 DEF Accept, Goto
  <2>3. CASE AcceptFails(c)
    BY <2>3 DEF AcceptFails, Goto
  <2>4. CASE Login(c)
    BY <2>4 DEF Login, Goto
  <2>5. CASE LoginRefused(c)
    BY <2>5 DEF LoginRefused, Goto
  <2>6. CASE Greet(c)
    BY <2>6 DEF Greet, Goto
  <2>7. CASE FindRoom(c)
    <3>1. /\ pc[c] = "find"
          /\ \A d \in Clients : d # c => room'[d] = room[d]
          /\ UNCHANGED <<lock, members, curr_user, heap>>
      BY <2>7 DEF FindRoom
    <3>2. \A m \in Rooms : c \notin members[m]
      BY <3>1
    <3>3. c \in Receivers => heap[c] = "live"
      BY <3>1
    <3>4. PICK label \in {"add", "reply", "create"} : pc' = [pc EXCEPT ![c] = label]
      BY <2>7 DEF FindRoom, Goto, WithRoom
    <3> QED
      BY <3>1, <3>2, <3>3, <3>4, LocalMove
  <2>8. CASE CreateRoom(c)
    <3>1. /\ pc[c] = "create"
          /\ \A d \in Clients : d # c => room'[d] = room[d]
          /\ UNCHANGED <<lock, members, curr_user, heap>>
      BY <2>8 DEF CreateRoom
    <3>2. \A m \in Rooms : c \notin members[m]
      BY <3>1
    <3>3. c \in Receivers => heap[c] = "live"
      BY <3>1
    <3>4. PICK label \in {"add", "reply"} : pc' = [pc EXCEPT ![c] = label]
      BY <2>8 DEF CreateRoom, Goto, WithRoom
    <3> QED
      BY <3>1, <3>2, <3>3, <3>4, LocalMove
  <2>9. CASE CloseConnection(c)
    BY <2>9 DEF CloseConnection, Goto
  <2>10. CASE Stall(c)
    BY <2>10 DEF Stall, Goto
  <2> QED
    BY <1>2, <2>1, <2>2, <2>3, <2>4, <2>5, <2>6, <2>7, <2>8, <2>9, <2>10
       DEF ClientStep, WorkerStep
<1>3. ASSUME NEW r \in Receivers, ReceiverInput(r) \/ ReceiverStep(r) PROVE RoomInv'
  <2> USE DEF locals, table, rooms, user, history
  <2>1. ASSUME NEW n \in RoomNames, JoinRequest(r, n) PROVE RoomInv'
    BY <2>1 DEF JoinRequest, Goto
  <2>2. CASE JoinRefused(r)
    BY <2>2 DEF JoinRefused, Goto
  <2>3. CASE AddMember(r)
    BY <2>3 DEF AddMember, Goto
  <2>4. CASE Welcome(r)
    BY <2>4 DEF Welcome, Goto
  <2>5. CASE Wait(r)
    BY <2>5 DEF Wait, Goto
  <2>6. CASE Pop(r)
    BY <2>6 DEF Pop, Goto
  <2>7. CASE Deliver(r)
    <3>1. /\ pc[r] = "deliver"
          /\ UNCHANGED <<room, lock, members, curr_user, heap>>
      BY <2>7 DEF Deliver
    <3>2. PICK label \in {"wait", "remove"} : pc' = [pc EXCEPT ![r] = label]
      BY <2>7 DEF Deliver, Goto
    <3> QED
      BY <3>1, <3>2, LocalMove
  <2>8. CASE RemoveMember(r)
    BY <2>8 DEF RemoveMember, Goto
  <2>9. CASE DeleteUser(r)
    BY <2>9 DEF DeleteUser, Goto
  <2> QED
    BY <1>3, <2>1, <2>2, <2>3, <2>4, <2>5, <2>6, <2>7, <2>8, <2>9
       DEF ReceiverInput, ReceiverStep
<1>4. ASSUME NEW s \in Senders, SenderInput(s) \/ SenderStep(s) PROVE RoomInv'
  <2> USE DEF locals, table, rooms, user, history
  <2>1. ASSUME NEW n \in RoomNames, RequestJoin(s, n) PROVE RoomInv'
    BY <2>1 DEF RequestJoin, Goto, ReadRequest
  <2>2. ASSUME NEW n \in RoomNames, RequestLeave(s, n) PROVE RoomInv'
    <3>1. /\ pc[s] = "request"
          /\ pc' = [pc EXCEPT ![s] = "reply"]
          /\ room' = room \/ room' = [room EXCEPT ![s] = NoRoom]
          /\ UNCHANGED <<lock, members, curr_user, heap>>
      BY <2>2 DEF RequestLeave, Goto, ReadRequest, Answer
    <3>2. \A m \in Rooms : s \notin members[m]
      BY <3>1
    <3>3. \A d \in Clients : d # s => room'[d] = room[d]
      BY <3>1
    <3> QED
      BY <3>1, <3>2, <3>3, LocalMove
  <2>3. CASE RequestSendall(s)
    <3>1. /\ pc[s] = "request"
          /\ UNCHANGED <<room, lock, members, curr_user, heap>>
      BY <2>3 DEF RequestSendall, ReadRequest
    <3>2. \A m \in Rooms : s \notin members[m]
      BY <3>1
    <3>3. PICK label \in {"broadcast", "reply"} : pc' = [pc EXCEPT ![s] = label]
      BY <2>3 DEF RequestSendall, Goto, Answer
    <3> QED
      BY <3>1, <3>2, <3>3, LocalMove
  <2>4. CASE RequestQuit(s)
    BY <2>4 DEF RequestQuit, Goto, ReadRequest, Answer
  <2>5. CASE RequestOther(s)
    BY <2>5 DEF RequestOther, Goto, ReadRequest
  <2>6. CASE ReceiveFails(s)
    BY <2>6 DEF ReceiveFails, Goto
  <2>7. CASE BeginBroadcast(s)
    BY <2>7 DEF BeginBroadcast, Goto
  <2>8. ASSUME NEW u \in Receivers, Push(s, u) PROVE RoomInv'
    BY <2>8 DEF Push, Goto
  <2>9. CASE Post(s)
    BY <2>9 DEF Post, Goto
  <2>10. CASE EndBroadcast(s)
    <3>1. /\ pc[s] = "iterate"
          /\ pc' = [pc EXCEPT ![s] = "reply"]
          /\ lock' = [lock EXCEPT ![room[s]] = Free]
          /\ UNCHANGED <<room, members, curr_user, heap>>
      BY <2>10 DEF EndBroadcast, Goto, Answer
    <3>2. \A t \in Senders :
            pc'[t] \in {"iterate", "post"} => t # s /\ pc[t] = pc'[t] /\ room[t] # room[s]
      BY <3>1
    <3> QED
      BY <3>1, <3>2
  <2>11. CASE Reply(s)
    BY <2>11 DEF Reply, Goto
  <2> QED
    BY <1>4, <2>1, <2>2, <2>3, <2>4, <2>5, <2>6, <2>7, <2>8, <2>9, <2>10, <2>11
       DEF SenderInput, SenderStep
<1> QED
  BY <1>1, <1>2, <1>3, <1>4 DEF Next

\* No broadcast ever pushes to, or posts, a User that has been freed, with any
\* number of receivers coming and going.
THEOREM NoUseAfterFreeAlways == Spec => []NoUseAfterFree
<1>1. Init => RoomInv
  BY DEF Init, RoomInv, Clients
<1>2. TypeInv /\ RoomInv /\ [Next]_vars => RoomInv'
  BY RoomInvStep
<1>3. TypeInv /\ RoomInv => NoUseAfterFree
  BY DEF RoomInv, NoUseAfterFree, TypeInv, Located
<1> QED
  BY <1>1, <1>2, <1>3, TypesAlways, PTL DEF Spec

-----------------------------------------------------------------------------
\* What queues hold and what has been delivered, as one type.
Items == Messages \cup {NoMessage}

\* Where the worker of a receiver is until it has been added to its room.
BeforeAdd == {"accept", "login", "greet", "join", "find", "create", "add"}

\* Where the worker of a sender is while it holds the lock of its room.
Broadcasting == {"iterate", "post"}

\* Some broadcast has pushed to r's queue and not posted its semaphore yet.
Posting(r) == \E s \in Senders : pc[s] = "post" /\ curr_user[s] = r

\* A receiver that has not been added has been given nothing, and has no room
\* until it has looked one up; one that is served is a member.
MemberInv ==
  /\ \A r \in Receivers : pc[r] \in BeforeAdd =>
       queue[r] = <<>> /\ avail[r] = 0 /\ delivered[r] = <<>>
  /\ \A r \in Receivers : pc[r] \in BeforeAdd \ {"add"} => room[r] = NoRoom
  /\ \A r \in Receivers : Served(r) \/ pc[r] = "remove" => r \in members[room[r]]

\* A locked room is in the hands of a sender that broadcasts in it; the last
\* entry of its log is that sender's message; outside a broadcast a sender has
\* visited nobody.
BroadcastInv ==
  /\ \A m \in Rooms : lock[m] # Free =>
       room[lock[m]] = m /\ pc[lock[m]] \in Broadcasting
  /\ \A s \in Senders : pc[s] \notin Broadcasting => visited[s] = {}
  /\ \A s \in Senders : pc[s] \in Broadcasting =>
       /\ log[room[s]] # <<>>
       /\ log[room[s]][Len(log[room[s]])] = <<s, served[s]>>

\* The semaphore of a User and its queue, with at most one broadcast between
\* the two.
PermitInv ==
  \A r \in Receivers : heap[r] = "live" =>
    avail[r] + (IF pc[r] = "pop" THEN 1 ELSE 0) + (IF Posting(r) THEN 1 ELSE 0) = Len(queue[r])

\* What a receiver has been given, and will be, ends where the broadcasts in
\* its room have reached it, and that is not before it joined.
StreamInv ==
  /\ \A r \in Receivers : Served(r) => start[r] <= Reached(r)
  /\ StreamIsRoomLog

\* Whoever is about to be removed has gone or cannot be given its next message.
CauseInv ==
  \A r \in Receivers : pc[r] = "remove" => conn[r] = "down" \/ NextTooLong(r)

\* Nothing is said in a room that is not in the table.
LogInv ==
  \A m \in Rooms : m_rooms[m[1]] # m => log[m] = <<>>

-----------------------------------------------------------------------------
(* Whose step it is *)

StepOf(c) ==
  \/ ClientStep(c) \/ WorkerStep(c)
  \/ c \in Receivers /\ (ReceiverInput(c) \/ ReceiverStep(c))
  \/ c \in Senders /\ (SenderInput(c) \/ SenderStep(c))

\* Every step is a client's or its worker's.
LEMMA SomebodySteps ==
  ASSUME [Next]_vars
  PROVE  UNCHANGED vars \/ \E c \in Clients : StepOf(c)
BY DEF Next, StepOf, Clients

\* A step of one client moves no other.
LEMMA OthersStay ==
  ASSUME TypeInv, NEW c \in Clients, StepOf(c), NEW d \in Clients, d # c
  PROVE  /\ pc'[d] = pc[d] /\ room'[d] = room[d]
         /\ d \in Senders => served'[d] = served[d] /\ answer'[d] = answer[d]
<1> USE DEF Goto
<1>0. /\ pc \in [Clients -> Labels] /\ room \in [Clients -> Rooms \cup {NoRoom}]
      /\ answer \in [Senders -> Texts] /\ served \in [Senders -> 0..MaxRequests]
  BY DEF TypeInv, WeakTypes, LocalTypes
<1>1. CASE ClientStep(c)
  BY <1>0, <1>1 DEF ClientStep, Disconnect, Stall, Accept, AcceptFails, Login, LoginRefused,
     locals
<1>2. CASE WorkerStep(c)
  BY <1>0, <1>2 DEF WorkerStep, Greet, FindRoom, CreateRoom, WithRoom, CloseConnection, locals
<1>3. CASE ReceiverInput(c)
  BY <1>0, <1>3 DEF ReceiverInput, JoinRequest, JoinRefused, locals
<1>4. CASE ReceiverStep(c)
  <2>1. CASE Deliver(c)
    BY <1>0, <2>1 DEF Deliver, locals
  <2> QED
    BY <1>0, <1>4, <2>1 DEF ReceiverStep, AddMember, Welcome, Wait, Pop, RemoveMember,
       DeleteUser, locals
<1>5. CASE SenderInput(c)
  BY <1>0, <1>5 DEF SenderInput, RequestJoin, RequestSendall, RequestLeave, RequestQuit,
     RequestOther, ReadRequest, Answer, locals
<1>6. CASE SenderStep(c)
  BY <1>0, <1>6 DEF SenderStep, ReceiveFails, BeginBroadcast, Push, Post, EndBroadcast,
     Reply, Answer, locals
<1> QED
  BY <1>1, <1>2, <1>3, <1>4, <1>5, <1>6 DEF StepOf

\* A receiver moves by its own steps only.
LEMMA ReceiverMoves ==
  ASSUME TypeInv, [Next]_vars, NEW r \in Receivers
  PROVE  \/ pc'[r] = pc[r] /\ room'[r] = room[r]
         \/ ClientStep(r) \/ WorkerStep(r) \/ ReceiverInput(r) \/ ReceiverStep(r)
<1>1. CASE UNCHANGED vars
  BY <1>1 DEF vars, locals
<1>2. CASE \E c \in Clients : StepOf(c)
  <2>1. PICK c \in Clients : StepOf(c)
    BY <1>2
  <2>2. CASE c = r
    BY <2>1, <2>2, Distinct DEF StepOf
  <2>3. CASE c # r
    BY <2>1, <2>3, OthersStay DEF Clients
  <2> QED
    BY <2>2, <2>3
<1> QED
  BY <1>1, <1>2, SomebodySteps

\* And so does a sender.
LEMMA SenderMoves ==
  ASSUME TypeInv, [Next]_vars, NEW s \in Senders
  PROVE  \/ /\ pc'[s] = pc[s] /\ room'[s] = room[s]
            /\ served'[s] = served[s] /\ answer'[s] = answer[s]
         \/ ClientStep(s) \/ WorkerStep(s) \/ SenderInput(s) \/ SenderStep(s)
<1>1. CASE UNCHANGED vars
  BY <1>1 DEF vars, locals
<1>2. CASE \E c \in Clients : StepOf(c)
  <2>1. PICK c \in Clients : StepOf(c)
    BY <1>2
  <2>2. CASE c = s
    BY <2>1, <2>2, Distinct DEF StepOf
  <2>3. CASE c # s
    BY <2>1, <2>3, OthersStay DEF Clients
  <2> QED
    BY <2>2, <2>3
<1> QED
  BY <1>1, <1>2, SomebodySteps

-----------------------------------------------------------------------------
(* Members *)

InRoom == {"welcome", "wait", "pop", "deliver", "remove"}

\* A receiver that has still to be added was so before, and gets a room just
\* before it is.
LEMMA BeforeAddBefore ==
  ASSUME TypeInv, MemberInv, [Next]_vars, NEW r \in Receivers, pc'[r] \in BeforeAdd
  PROVE  pc[r] \in BeforeAdd /\ (pc'[r] # "add" => room'[r] = NoRoom)
<1>0. /\ pc \in [Clients -> Labels] /\ room \in [Clients -> Rooms \cup {NoRoom}]
      /\ r \in Clients /\ r \notin Senders
      /\ pc[r] \in BeforeAdd /\ pc[r] # "add" => room[r] = NoRoom
  BY Distinct DEF TypeInv, WeakTypes, LocalTypes, MemberInv, Clients
<1> USE <1>0 DEF BeforeAdd, Goto, locals
<1>1. CASE pc'[r] = pc[r] /\ room'[r] = room[r]
  BY <1>1
<1>2. CASE ClientStep(r)
  BY <1>2 DEF ClientStep, Disconnect, Stall, Accept, AcceptFails, Login, LoginRefused
<1>3. CASE WorkerStep(r)
  <2>1. CASE FindRoom(r)
    BY <2>1 DEF FindRoom, WithRoom
  <2>2. CASE CreateRoom(r)
    BY <2>2 DEF CreateRoom, WithRoom
  <2> QED
    BY <1>3, <2>1, <2>2 DEF WorkerStep, Greet, CloseConnection
<1>4. CASE ReceiverInput(r)
  BY <1>4 DEF ReceiverInput, JoinRequest, JoinRefused
<1>5. CASE ReceiverStep(r)
  <2>1. CASE Deliver(r)
    BY <2>1 DEF Deliver
  <2> QED
    BY <1>5, <2>1 DEF ReceiverStep, AddMember, Welcome, Wait, Pop, RemoveMember, DeleteUser
<1> QED
  BY <1>1, <1>2, <1>3, <1>4, <1>5, ReceiverMoves

\* Nobody gives anything to a receiver that has not been added.
LEMMA BeforeAddUntouched ==
  ASSUME TypeInv, RoomInv, [Next]_vars, NEW r \in Receivers, pc[r] \in BeforeAdd
  PROVE  queue'[r] = queue[r] /\ avail'[r] = avail[r] /\ delivered'[r] = delivered[r]
<1>0. /\ queue \in [Receivers -> Seq(Messages)] /\ avail \in [Receivers -> Nat]
      /\ delivered \in [Receivers -> Seq(Messages \cup {NoMessage})]
      /\ \A m \in Rooms : r \notin members[m]
      /\ \A s \in Senders : pc[s] \in {"iterate", "post"} => room[s] \in Rooms
  BY DEF TypeInv, WeakTypes, UserTypes, WeakHistory, RoomInv, BeforeAdd, Located
<1> USE <1>0 DEF BeforeAdd
<1>1. queue'[r] = queue[r] /\ avail'[r] = avail[r]
  <2>1. CASE UNCHANGED user
    BY <2>1 DEF user
  <2>2. ASSUME NEW q \in Receivers, NEW n \in RoomNames, JoinRequest(q, n)
        PROVE  queue'[r] = queue[r] /\ avail'[r] = avail[r]
    BY <2>2 DEF JoinRequest
  <2>3. ASSUME NEW q \in Receivers, Wait(q) \/ Pop(q) \/ Deliver(q) \/ DeleteUser(q)
        PROVE  queue'[r] = queue[r] /\ avail'[r] = avail[r]
    <3>1. q # r
      BY <2>3 DEF Wait, Pop, Deliver, DeleteUser
    <3> QED
      BY <2>3, <3>1 DEF Wait, Pop, Deliver, DeleteUser
  <2>4. ASSUME NEW s \in Senders, NEW u \in Receivers, Push(s, u)
        PROVE  queue'[r] = queue[r] /\ avail'[r] = avail[r]
    <3>1. u # r
      BY <2>4 DEF Push
    <3> QED
      BY <2>4, <3>1 DEF Push
  <2>5. ASSUME NEW s \in Senders, Post(s)
        PROVE  queue'[r] = queue[r] /\ avail'[r] = avail[r]
    <3>1. pc[s] = "post"
      BY <2>5 DEF Post
    <3>2. room[s] \in Rooms /\ curr_user[s] \in members[room[s]]
      BY <3>1 DEF RoomInv
    <3>3. curr_user[s] # r
      BY <3>2
    <3> QED
      BY <2>5, <3>3 DEF Post
  <2> QED
    BY <2>1, <2>2, <2>3, <2>4, <2>5, UserFrame
<1>2. delivered'[r] = delivered[r]
  <2>1. ASSUME NEW q \in Receivers, Deliver(q) PROVE delivered'[r] = delivered[r]
    <3>1. q # r
      BY <2>1 DEF Deliver
    <3> QED
      BY <2>1, <3>1 DEF Deliver
  <2> QED
    BY <2>1, HistoryFrame DEF history, AddMember, BeginBroadcast
<1> QED
  BY <1>1, <1>2

\* A worker in its room's loop has been added just now or was there before.
LEMMA InRoomBefore ==
  ASSUME TypeInv, [Next]_vars, NEW r \in Receivers, pc'[r] \in InRoom
  PROVE  /\ room'[r] = room[r]
         /\ AddMember(r) \/ pc[r] \in InRoom
<1>0. /\ pc \in [Clients -> Labels] /\ room \in [Clients -> Rooms \cup {NoRoom}]
      /\ r \in Clients /\ r \notin Senders
  BY Distinct DEF TypeInv, WeakTypes, LocalTypes, Clients
<1> USE <1>0 DEF InRoom, Goto, locals
<1>1. CASE pc'[r] = pc[r] /\ room'[r] = room[r]
  BY <1>1
<1>2. CASE ClientStep(r)
  BY <1>2 DEF ClientStep, Disconnect, Stall, Accept, AcceptFails, Login, LoginRefused
<1>3. CASE WorkerStep(r)
  <2>1. CASE FindRoom(r)
    BY <2>1 DEF FindRoom, WithRoom
  <2>2. CASE CreateRoom(r)
    BY <2>2 DEF CreateRoom, WithRoom
  <2> QED
    BY <1>3, <2>1, <2>2 DEF WorkerStep, Greet, CloseConnection
<1>4. CASE ReceiverInput(r)
  BY <1>4 DEF ReceiverInput, JoinRequest, JoinRefused
<1>5. CASE ReceiverStep(r)
  BY <1>5 DEF ReceiverStep, AddMember, Welcome, Wait, Pop, Deliver, RemoveMember, DeleteUser
<1> QED
  BY <1>1, <1>2, <1>3, <1>4, <1>5, ReceiverMoves

\* A member leaves the room by its own removal only.
LEMMA MembersStay ==
  ASSUME TypeInv, [Next]_vars, NEW m \in Rooms, NEW r \in members[m]
  PROVE  r \in members'[m] \/ (RemoveMember(r) /\ room[r] = m)
<1>0. members \in [Rooms -> SUBSET Receivers] /\ r \in Receivers
  BY DEF TypeInv, WeakTypes, RoomTypes
<1>1. ASSUME NEW q \in Receivers, AddMember(q) PROVE r \in members'[m]
  BY <1>0, <1>1 DEF AddMember
<1>2. ASSUME NEW q \in Receivers, RemoveMember(q)
      PROVE  r \in members'[m] \/ (RemoveMember(r) /\ room[r] = m)
  <2>1. members' = [members EXCEPT ![room[q]] = members[room[q]] \ {q}]
    BY <1>2 DEF RemoveMember
  <2> QED
    BY <1>0, <1>2, <2>1
<1> QED
  BY <1>1, <1>2, RoomsFrame DEF rooms, BeginBroadcast, Push, Post, EndBroadcast

\* Users are given nothing before they are added, and stay members while served.
LEMMA MemberInvStep ==
  TypeInv /\ RoomInv /\ MemberInv /\ [Next]_vars => MemberInv'
<1> SUFFICES ASSUME TypeInv, RoomInv, MemberInv, [Next]_vars PROVE MemberInv'
  OBVIOUS
<1>1. ASSUME NEW r \in Receivers, pc'[r] \in BeforeAdd
      PROVE  /\ queue'[r] = <<>> /\ avail'[r] = 0 /\ delivered'[r] = <<>>
             /\ pc'[r] # "add" => room'[r] = NoRoom
  BY <1>1, BeforeAddBefore, BeforeAddUntouched DEF MemberInv
<1>2. ASSUME NEW r \in Receivers, pc'[r] \in InRoom PROVE r \in members'[room'[r]]
  <2>1. CASE AddMember(r)
    <3>1. room[r] \in Rooms /\ members \in [Rooms -> SUBSET Receivers]
      BY <2>1 DEF AddMember, TypeInv, WeakTypes, Located, RoomTypes
    <3> QED
      BY <2>1, <3>1 DEF AddMember, locals
  <2>2. CASE pc[r] \in InRoom
    <3>1. room[r] \in Rooms
      BY <2>2 DEF InRoom, TypeInv, Located
    <3>2. r \in members[room[r]]
      BY <2>2 DEF InRoom, MemberInv, Served
    <3>3. ~RemoveMember(r)
      <4>1. pc \in [Clients -> Labels] /\ r \in Clients
        BY DEF TypeInv, WeakTypes, LocalTypes, Clients
      <4> QED
        BY <1>2, <4>1 DEF RemoveMember, Goto, InRoom
    <3> QED
      BY <1>2, <3>1, <3>2, <3>3, MembersStay, InRoomBefore
  <2> QED
    BY <1>2, <2>1, <2>2, InRoomBefore
<1> QED
  BY <1>1, <1>2 DEF MemberInv, Served, InRoom

-----------------------------------------------------------------------------
(* Broadcasts *)

\* A sender in its broadcast has begun it just now or was in it before, in the
\* same room and with the same message.
LEMMA BroadcastingBefore ==
  ASSUME TypeInv, [Next]_vars, NEW s \in Senders, pc'[s] \in Broadcasting
  PROVE  /\ room'[s] = room[s] /\ served'[s] = served[s]
         /\ BeginBroadcast(s) \/ pc[s] \in Broadcasting
<1>0. /\ pc \in [Clients -> Labels] /\ room \in [Clients -> Rooms \cup {NoRoom}]
      /\ s \in Clients /\ s \notin Receivers
  BY Distinct DEF TypeInv, WeakTypes, LocalTypes, Clients
<1> USE <1>0 DEF Broadcasting, Goto, locals
<1>1. CASE pc'[s] = pc[s] /\ room'[s] = room[s] /\ served'[s] = served[s]
  BY <1>1
<1>2. CASE ClientStep(s)
  BY <1>2 DEF ClientStep, Disconnect, Stall, Accept, AcceptFails, Login, LoginRefused
<1>3. CASE WorkerStep(s)
  <2>1. CASE FindRoom(s)
    BY <2>1 DEF FindRoom, WithRoom
  <2>2. CASE CreateRoom(s)
    BY <2>2 DEF CreateRoom, WithRoom
  <2> QED
    BY <1>3, <2>1, <2>2 DEF WorkerStep, Greet, CloseConnection
<1>4. CASE SenderInput(s)
  BY <1>4 DEF SenderInput, RequestJoin, RequestSendall, RequestLeave, RequestQuit,
     RequestOther, ReadRequest, Answer
<1>5. CASE SenderStep(s)
  BY <1>5 DEF SenderStep, ReceiveFails, BeginBroadcast, Push, Post, EndBroadcast, Reply, Answer
<1> QED
  BY <1>1, <1>2, <1>3, <1>4, <1>5, SenderMoves

\* It leaves its broadcast by ending it.
LEMMA BroadcastingLeft ==
  ASSUME TypeInv, [Next]_vars, NEW s \in Senders, pc[s] \in Broadcasting
  PROVE  EndBroadcast(s) \/ pc'[s] \in Broadcasting
<1>0. pc \in [Clients -> Labels] /\ s \in Clients /\ s \notin Receivers
  BY Distinct DEF TypeInv, WeakTypes, LocalTypes, Clients
<1> USE <1>0 DEF Broadcasting, Goto
<1>1. CASE ClientStep(s)
  BY <1>1 DEF ClientStep, Disconnect, Stall, Accept, AcceptFails, Login, LoginRefused
<1>2. CASE WorkerStep(s)
  BY <1>2 DEF WorkerStep, Greet, FindRoom, CreateRoom, CloseConnection
<1>3. CASE SenderInput(s)
  BY <1>3 DEF SenderInput, RequestJoin, RequestSendall, RequestLeave, RequestQuit,
     RequestOther, ReadRequest
<1>4. CASE SenderStep(s)
  BY <1>4 DEF SenderStep, ReceiveFails, BeginBroadcast, Push, Post, Reply
<1> QED
  BY <1>1, <1>2, <1>3, <1>4, SenderMoves

\* A room is locked by the broadcast that begins in it, and by no other step.
LEMMA LockTaken ==
  ASSUME TypeInv, [Next]_vars, NEW m \in Rooms, lock'[m] # Free
  PROVE  lock'[m] = lock[m] \/ (BeginBroadcast(lock'[m]) /\ lock'[m] \in Senders
                                  /\ room[lock'[m]] = m)
<1>0. lock \in [Rooms -> Senders \cup {Free}]
  BY DEF TypeInv, WeakTypes, RoomTypes
<1>1. ASSUME NEW s \in Senders, BeginBroadcast(s)
      PROVE  lock'[m] = lock[m] \/ (BeginBroadcast(lock'[m]) /\ lock'[m] \in Senders
                                      /\ room[lock'[m]] = m)
  <2>1. lock' = [lock EXCEPT ![room[s]] = s]
    BY <1>1 DEF BeginBroadcast
  <2>2. CASE m = room[s]
    BY <1>0, <1>1, <2>1, <2>2
  <2>3. CASE m # room[s]
    BY <1>0, <2>1, <2>3
  <2> QED
    BY <2>2, <2>3
<1>2. ASSUME NEW s \in Senders, EndBroadcast(s) PROVE lock'[m] = lock[m]
  BY <1>0, <1>2 DEF EndBroadcast
<1> QED
  BY <1>1, <1>2, RoomsFrame DEF rooms, AddMember, RemoveMember, Push, Post

\* A locked room's log grows by nobody else's broadcast.
LEMMA LogOfLocked ==
  ASSUME TypeInv, [Next]_vars, NEW m \in Rooms, lock[m] # Free
  PROVE  log'[m] = log[m]
<1>1. ASSUME NEW s \in Senders, BeginBroadcast(s) PROVE log'[m] = log[m]
  <2>1. room[s] # m
    BY <1>1 DEF BeginBroadcast
  <2> QED
    BY <1>1, <2>1 DEF BeginBroadcast, TypeInv, WeakTypes, WeakHistory
<1> QED
  BY <1>1, HistoryFrame DEF history, AddMember, Deliver

\* A lock is held by its broadcast, from the entry in the log to the last member.
LEMMA BroadcastInvStep ==
  TypeInv /\ RoomInv /\ BroadcastInv /\ [Next]_vars => BroadcastInv'
<1> SUFFICES ASSUME TypeInv, RoomInv, BroadcastInv, [Next]_vars PROVE BroadcastInv'
  OBVIOUS
<1>0. /\ lock \in [Rooms -> Senders \cup {Free}] /\ Free \notin Senders
      /\ visited \in [Senders -> SUBSET Receivers]
      /\ pc \in [Clients -> Labels]
  BY Distinct DEF TypeInv, WeakTypes, RoomTypes, LocalTypes, Clients
<1>1. ASSUME NEW m \in Rooms, lock'[m] # Free
      PROVE  room'[lock'[m]] = m /\ pc'[lock'[m]] \in Broadcasting
  <2>1. CASE BeginBroadcast(lock'[m]) /\ lock'[m] \in Senders /\ room[lock'[m]] = m
    <3> DEFINE s == lock'[m]
    <3>1. pc'[s] = "iterate" /\ room' = room
      BY <1>0, <2>1 DEF BeginBroadcast, Goto, locals, Clients
    <3> QED
      BY <2>1, <3>1 DEF Broadcasting
  <2>2. CASE lock'[m] = lock[m]
    <3>1. PICK s \in Senders : lock[m] = s /\ room[s] = m /\ pc[s] \in Broadcasting
      BY <1>0, <1>1, <2>2 DEF BroadcastInv
    <3>2. ~EndBroadcast(s)
      BY <1>0, <1>1, <2>2, <3>1 DEF EndBroadcast
    <3>3. pc'[s] \in Broadcasting
      BY <3>1, <3>2, BroadcastingLeft
    <3> QED
      BY <2>2, <3>1, <3>3, BroadcastingBefore
  <2> QED
    BY <1>1, <2>1, <2>2, LockTaken
<1>2. ASSUME NEW s \in Senders, pc'[s] \notin Broadcasting PROVE visited'[s] = {}
  <2>1. CASE pc[s] \in Broadcasting
    <3>1. EndBroadcast(s)
      BY <1>2, <2>1, BroadcastingLeft
    <3> QED
      BY <1>0, <3>1 DEF EndBroadcast
  <2>2. CASE pc[s] \notin Broadcasting
    <3>1. visited[s] = {}
      BY <2>2 DEF BroadcastInv
    <3>2. ASSUME NEW t \in Senders, NEW u \in Receivers, Push(t, u) PROVE visited'[s] = {}
      <4>1. t # s
        BY <2>2, <3>2 DEF Push, Broadcasting
      <4> QED
        BY <1>0, <3>1, <3>2, <4>1 DEF Push
    <3>3. ASSUME NEW t \in Senders, EndBroadcast(t) PROVE visited'[s] = {}
      BY <1>0, <3>1, <3>3 DEF EndBroadcast
    <3> QED
      BY <3>1, <3>2, <3>3, RoomsFrame DEF rooms, AddMember, RemoveMember, BeginBroadcast, Post
  <2> QED
    BY <2>1, <2>2
<1>3. ASSUME NEW s \in Senders, pc'[s] \in Broadcasting
      PROVE  /\ log'[room'[s]] # <<>>
             /\ log'[room'[s]][Len(log'[room'[s]])] = <<s, served'[s]>>
  <2>1. room'[s] = room[s] /\ served'[s] = served[s]
    BY <1>3, BroadcastingBefore
  <2>2. CASE BeginBroadcast(s)
    <3> DEFINE l == log[room[s]]
               x == <<s, served[s]>>
    <3>1. pc[s] = "broadcast"
      BY <2>2 DEF BeginBroadcast
    <3>2. room[s] \in Rooms /\ x \in Messages
      BY <3>1, BroadcastIsMessage DEF TypeInv, Located
    <3>3. log \in [Rooms -> Seq(Messages)] /\ l \in Seq(Messages)
      BY <3>2 DEF TypeInv, WeakTypes, WeakHistory
    <3>4. log'[room[s]] = Append(l, x)
      BY <2>2, <3>2, <3>3 DEF BeginBroadcast
    <3>5. /\ Append(l, x) # <<>> /\ Len(Append(l, x)) = Len(l) + 1
          /\ Append(l, x)[Len(l) + 1] = x
      BY <3>2, <3>3, AppendProperties
    <3> QED
      BY <2>1, <3>4, <3>5
  <2>3. CASE pc[s] \in Broadcasting
    <3>1. room[s] \in Rooms /\ lock[room[s]] = s
      BY <2>3 DEF TypeInv, Located, RoomInv, Broadcasting
    <3>2. log'[room[s]] = log[room[s]]
      BY <1>0, <3>1, LogOfLocked
    <3>3. /\ log[room[s]] # <<>>
          /\ log[room[s]][Len(log[room[s]])] = <<s, served[s]>>
      BY <2>3 DEF BroadcastInv
    <3> QED
      BY <2>1, <3>2, <3>3
  <2> QED
    BY <1>3, <2>2, <2>3, BroadcastingBefore
<1> QED
  BY <1>1, <1>2, <1>3 DEF BroadcastInv

-----------------------------------------------------------------------------
(* Semaphores and queues *)

\* Only one broadcast at a time goes through the room a member is in.
LEMMA OneBroadcast ==
  ASSUME TypeInv, RoomInv, NEW s \in Senders, NEW t \in Senders, NEW r,
         pc[s] \in Broadcasting, r \in members[room[s]],
         pc[t] \in Broadcasting, r \in members[room[t]]
  PROVE  s = t
<1>1. room[s] \in Rooms /\ room[t] \in Rooms
  BY DEF TypeInv, Located, Broadcasting
<1>2. room[r] = room[s] /\ room[r] = room[t]
  BY <1>1 DEF RoomInv
<1>3. lock[room[s]] = s /\ lock[room[t]] = t
  BY DEF RoomInv, Broadcasting
<1> QED
  BY <1>2, <1>3

\* The member a broadcast is at is in the broadcast's room.
LEMMA PosterIsAtMember ==
  ASSUME TypeInv, RoomInv, NEW s \in Senders, pc[s] = "post"
  PROVE  room[s] \in Rooms /\ curr_user[s] \in members[room[s]] /\ curr_user[s] \in Receivers
<1>1. curr_user[s] \in members[room[s]]
  BY DEF RoomInv
<1> QED
  BY <1>1 DEF TypeInv, Located

\* A sender that is about to post has pushed just now or was there before.
LEMMA PostBegun ==
  ASSUME TypeInv, [Next]_vars, NEW s \in Senders, pc'[s] = "post"
  PROVE  \/ pc[s] = "post" /\ curr_user'[s] = curr_user[s]
         \/ \E u \in Receivers : Push(s, u) /\ curr_user'[s] = u
<1>0. /\ pc \in [Clients -> Labels] /\ s \in Clients /\ s \notin Receivers
      /\ curr_user \in [Senders -> Receivers \cup {NoUser}]
  BY Distinct DEF TypeInv, WeakTypes, LocalTypes, RoomTypes, Clients
<1>1. pc[s] = "post" \/ \E u \in Receivers : Push(s, u)
  <2> USE <1>0 DEF Goto
  <2>1. CASE pc'[s] = pc[s]
    BY <2>1
  <2>2. CASE ClientStep(s)
    BY <2>2 DEF ClientStep, Disconnect, Stall, Accept, AcceptFails, Login, LoginRefused
  <2>3. CASE WorkerStep(s)
    <3>1. CASE FindRoom(s)
      BY <3>1 DEF FindRoom, WithRoom
    <3>2. CASE CreateRoom(s)
      BY <3>2 DEF CreateRoom, WithRoom
    <3> QED
      BY <2>3, <3>1, <3>2 DEF WorkerStep, Greet, CloseConnection
  <2>4. CASE SenderInput(s)
    BY <2>4 DEF SenderInput, RequestJoin, RequestSendall, RequestLeave, RequestQuit,
       RequestOther, ReadRequest, Answer
  <2>5. CASE SenderStep(s)
    BY <2>5 DEF SenderStep, ReceiveFails, BeginBroadcast, Post, EndBroadcast, Reply, Answer
  <2> QED
    BY <2>1, <2>2, <2>3, <2>4, <2>5, SenderMoves
<1>2. ASSUME NEW u \in Receivers, Push(s, u) PROVE curr_user'[s] = u
  BY <1>0, <1>2 DEF Push
<1>3. ASSUME pc[s] = "post" PROVE curr_user'[s] = curr_user[s]
  <2>1. ASSUME NEW t \in Senders, NEW u \in Receivers, Push(t, u)
        PROVE  curr_user'[s] = curr_user[s]
    <3>1. t # s
      BY <1>3, <2>1 DEF Push
    <3> QED
      BY <1>0, <2>1, <3>1 DEF Push
  <2>2. ASSUME NEW t \in Senders, Post(t) PROVE curr_user'[s] = curr_user[s]
    <3>1. t # s
      BY <1>0, <2>2 DEF Post, Goto
    <3> QED
      BY <1>0, <2>2, <3>1 DEF Post
  <2> QED
    BY <2>1, <2>2, RoomsFrame DEF rooms, AddMember, RemoveMember, BeginBroadcast, EndBroadcast
<1> QED
  BY <1>1, <1>2, <1>3

\* It stays there until it posts.
LEMMA PostStays ==
  ASSUME TypeInv, [Next]_vars, NEW s \in Senders, pc[s] = "post"
  PROVE  \/ pc'[s] = "post" /\ curr_user'[s] = curr_user[s]
         \/ Post(s)
<1>0. /\ pc \in [Clients -> Labels] /\ s \in Clients /\ s \notin Receivers
  BY Distinct DEF TypeInv, WeakTypes, LocalTypes, Clients
<1>1. pc'[s] = "post" \/ Post(s)
  <2> USE <1>0 DEF Goto
  <2>1. CASE pc'[s] = pc[s]
    BY <2>1
  <2>2. CASE ClientStep(s)
    BY <2>2 DEF ClientStep, Disconnect, Stall, Accept, AcceptFails, Login, LoginRefused
  <2>3. CASE WorkerStep(s)
    BY <2>3 DEF WorkerStep, Greet, FindRoom, CreateRoom, CloseConnection
  <2>4. CASE SenderInput(s)
    BY <2>4 DEF SenderInput, RequestJoin, RequestSendall, RequestLeave, RequestQuit,
       RequestOther, ReadRequest
  <2>5. CASE SenderStep(s)
    BY <2>5 DEF SenderStep, ReceiveFails, BeginBroadcast, EndBroadcast, Push, Reply
  <2> QED
    BY <2>1, <2>2, <2>3, <2>4, <2>5, SenderMoves
<1>2. ASSUME NEW u \in Receivers PROVE ~Push(s, u)
  BY DEF Push
<1> QED
  BY <1>1, <1>2, PostBegun

\* A receiver begins to pop when it has waited, and is done when it has popped.
LEMMA PopBegun ==
  ASSUME TypeInv, [Next]_vars, NEW r \in Receivers
  PROVE  (pc'[r] = "pop" <=> pc[r] = "pop") \/ Wait(r) \/ Pop(r)
<1>0. /\ pc \in [Clients -> Labels] /\ r \in Clients /\ r \notin Senders
  BY Distinct DEF TypeInv, WeakTypes, LocalTypes, Clients
<1> USE <1>0 DEF Goto
<1>1. CASE ClientStep(r)
  BY <1>1 DEF ClientStep, Disconnect, Stall, Accept, AcceptFails, Login, LoginRefused
<1>2. CASE WorkerStep(r)
  <2>1. CASE FindRoom(r)
    BY <2>1 DEF FindRoom, WithRoom
  <2>2. CASE CreateRoom(r)
    BY <2>2 DEF CreateRoom, WithRoom
  <2> QED
    BY <1>2, <2>1, <2>2 DEF WorkerStep, Greet, CloseConnection
<1>3. CASE ReceiverInput(r)
  BY <1>3 DEF ReceiverInput, JoinRequest, JoinRefused
<1>4. CASE ReceiverStep(r)
  <2>1. CASE Deliver(r)
    BY <2>1 DEF Deliver
  <2> QED
    BY <1>4, <2>1 DEF ReceiverStep, AddMember, Welcome, RemoveMember, DeleteUser
<1> QED
  BY <1>1, <1>2, <1>3, <1>4, ReceiverMoves

\* Who changes what PermitInv says of a User.
LEMMA PermitFrame ==
  ASSUME TypeInv, [Next]_vars, NEW r \in Receivers
  PROVE  \/ \E n \in RoomNames : JoinRequest(r, n)
         \/ Wait(r)
         \/ Pop(r)
         \/ DeleteUser(r)
         \/ \E s \in Senders : Push(s, r)
         \/ \E s \in Senders : Post(s) /\ curr_user[s] = r
         \/ /\ heap'[r] = heap[r] /\ queue'[r] = queue[r] /\ avail'[r] = avail[r]
            /\ pc'[r] = "pop" <=> pc[r] = "pop"
            /\ Posting(r)' <=> Posting(r)
<1> SUFFICES ASSUME \A n \in RoomNames : ~JoinRequest(r, n),
                    ~Wait(r), ~Pop(r), ~DeleteUser(r),
                    \A s \in Senders : ~Push(s, r),
                    \A s \in Senders : Post(s) => curr_user[s] # r
             PROVE  /\ heap'[r] = heap[r] /\ queue'[r] = queue[r] /\ avail'[r] = avail[r]
                    /\ pc'[r] = "pop" <=> pc[r] = "pop"
                    /\ Posting(r)' <=> Posting(r)
  OBVIOUS
<1>1. heap'[r] = heap[r] /\ queue'[r] = queue[r] /\ avail'[r] = avail[r]
  <2>0. /\ heap \in [Receivers -> {"none", "live", "freed"}]
        /\ queue \in [Receivers -> Seq(Messages)]
        /\ avail \in [Receivers -> Nat]
    BY DEF TypeInv, WeakTypes, UserTypes
  <2>1. ASSUME NEW q \in Receivers, NEW n \in RoomNames, JoinRequest(q, n)
        PROVE  heap'[r] = heap[r] /\ queue'[r] = queue[r] /\ avail'[r] = avail[r]
    <3>1. q # r
      BY <2>1
    <3> QED
      BY <2>0, <2>1, <3>1 DEF JoinRequest
  <2>2. ASSUME NEW q \in Receivers, Wait(q) \/ Pop(q) \/ DeleteUser(q)
        PROVE  heap'[r] = heap[r] /\ queue'[r] = queue[r] /\ avail'[r] = avail[r]
    <3>1. q # r
      BY <2>2
    <3> QED
      BY <2>0, <2>2, <3>1 DEF Wait, Pop, DeleteUser
  <2>3. ASSUME NEW q \in Receivers, Deliver(q)
        PROVE  heap'[r] = heap[r] /\ queue'[r] = queue[r] /\ avail'[r] = avail[r]
    BY <2>3 DEF Deliver
  <2>4. ASSUME NEW s \in Senders, NEW u \in Receivers, Push(s, u)
        PROVE  heap'[r] = heap[r] /\ queue'[r] = queue[r] /\ avail'[r] = avail[r]
    <3>1. u # r
      BY <2>4
    <3> QED
      BY <2>0, <2>4, <3>1 DEF Push
  <2>5. ASSUME NEW s \in Senders, Post(s)
        PROVE  heap'[r] = heap[r] /\ queue'[r] = queue[r] /\ avail'[r] = avail[r]
    <3>1. curr_user[s] # r
      BY <2>5
    <3> QED
      BY <2>0, <2>5, <3>1 DEF Post
  <2> QED
    BY <2>1, <2>2, <2>3, <2>4, <2>5, UserFrame DEF user
<1>2. pc'[r] = "pop" <=> pc[r] = "pop"
  BY PopBegun
<1>3. ASSUME NEW s \in Senders
      PROVE  pc'[s] = "post" /\ curr_user'[s] = r <=> pc[s] = "post" /\ curr_user[s] = r
  BY PostBegun, PostStays
<1> QED
  BY <1>1, <1>2, <1>3 DEF Posting

\* Waiting, popping, pushing and posting keep the balance of permits and queue.
LEMMA PermitInvStep ==
  TypeInv /\ RoomInv /\ MemberInv /\ PermitInv /\ [Next]_vars => PermitInv'
<1> SUFFICES ASSUME TypeInv, RoomInv, MemberInv, PermitInv, [Next]_vars,
                    NEW r \in Receivers, heap'[r] = "live"
             PROVE  avail'[r] + (IF pc'[r] = "pop" THEN 1 ELSE 0)
                      + (IF Posting(r)' THEN 1 ELSE 0) = Len(queue'[r])
  BY DEF PermitInv
<1>0. /\ pc \in [Clients -> Labels] /\ r \in Clients /\ r \notin Senders
      /\ \A s \in Senders : s \in Clients /\ s # r
      /\ heap \in [Receivers -> {"none", "live", "freed"}]
      /\ queue \in [Receivers -> Seq(Messages)]
      /\ avail \in [Receivers -> Nat]
      /\ curr_user \in [Senders -> Receivers \cup {NoUser}]
      /\ NoUser # r
  BY Distinct DEF TypeInv, WeakTypes, UserTypes, RoomTypes, LocalTypes, Clients
<1>1. heap[r] = "live" => avail[r] + (IF pc[r] = "pop" THEN 1 ELSE 0)
                            + (IF Posting(r) THEN 1 ELSE 0) = Len(queue[r])
  BY DEF PermitInv
<1>2. Len(queue[r]) \in Nat /\ avail[r] \in Nat
  BY <1>0, LenProperties
<1>3. ASSUME NEW n \in RoomNames, JoinRequest(r, n)
      PROVE  avail'[r] + (IF pc'[r] = "pop" THEN 1 ELSE 0)
               + (IF Posting(r)' THEN 1 ELSE 0) = Len(queue'[r])
  <2>1. queue[r] = <<>> /\ avail[r] = 0
    BY <1>3 DEF JoinRequest, MemberInv, BeforeAdd
  <2>2. pc'[r] = "find" /\ queue'[r] = <<>> /\ avail'[r] = 0
    BY <1>0, <1>3, <2>1 DEF JoinRequest, Goto
  <2>3. ~Posting(r)'
    <3> SUFFICES ASSUME NEW s \in Senders, pc'[s] = "post", curr_user'[s] = r PROVE FALSE
      BY DEF Posting
    <3>1. pc[s] = "post" /\ curr_user[s] = r
      BY <1>0, <1>3 DEF JoinRequest, Goto, rooms
    <3>2. room[s] \in Rooms /\ r \in members[room[s]]
      BY <3>1, PosterIsAtMember
    <3>3. pc[r] = "join"
      BY <1>3 DEF JoinRequest
    <3> QED
      BY <3>2, <3>3 DEF RoomInv
  <2> QED
    BY <2>2, <2>3, EmptySeq
<1>4. CASE Wait(r)
  <2>1. /\ pc[r] # "pop" /\ pc'[r] = "pop" /\ heap[r] = "live"
        /\ avail'[r] = avail[r] - 1 /\ queue'[r] = queue[r]
    BY <1>0, <1>4 DEF Wait, Goto
  <2>2. Posting(r)' <=> Posting(r)
    BY <1>0, <1>4 DEF Wait, Goto, rooms, Posting
  <2> QED
    BY <1>1, <1>2, <2>1, <2>2
<1>5. CASE Pop(r)
  <2>1. pc[r] = "pop" /\ pc'[r] = "deliver" /\ heap[r] = "live" /\ avail'[r] = avail[r]
    BY <1>0, <1>5 DEF Pop, Goto
  <2>2. Len(queue[r]) # 0
    BY <1>1, <1>2, <2>1
  <2>3. queue[r] # <<>>
    BY <2>2, EmptySeq
  <2>4. queue'[r] = Tail(queue[r])
    BY <1>0, <1>5, <2>3 DEF Pop
  <2>5. Len(Tail(queue[r])) = Len(queue[r]) - 1
    BY <1>0, <2>3, HeadTailProperties
  <2>6. Posting(r)' <=> Posting(r)
    BY <1>0, <1>5 DEF Pop, Goto, rooms, Posting
  <2> QED
    BY <1>1, <1>2, <2>1, <2>4, <2>5, <2>6
<1>6. CASE DeleteUser(r)
  BY <1>0, <1>6 DEF DeleteUser
<1>7. ASSUME NEW s \in Senders, Push(s, r)
      PROVE  avail'[r] + (IF pc'[r] = "pop" THEN 1 ELSE 0)
               + (IF Posting(r)' THEN 1 ELSE 0) = Len(queue'[r])
  <2>1. pc[s] = "iterate" /\ r \in members[room[s]]
    BY <1>7 DEF Push
  <2>2. ~Posting(r)
    <3> SUFFICES ASSUME NEW t \in Senders, pc[t] = "post", curr_user[t] = r PROVE FALSE
      BY DEF Posting
    <3>1. r \in members[room[t]]
      BY PosterIsAtMember
    <3>2. s = t
      BY <2>1, <3>1, OneBroadcast DEF Broadcasting
    <3> QED
      BY <2>1, <3>2
  <2>3. Posting(r)'
    BY <1>0, <1>7 DEF Push, Goto, Posting
  <2>4. /\ pc'[r] = pc[r] /\ heap[r] = "live" /\ avail'[r] = avail[r]
        /\ queue'[r] = Append(queue[r], <<s, served[s]>>)
    BY <1>0, <1>7 DEF Push, Goto
  <2>5. Len(queue'[r]) = Len(queue[r]) + 1
    BY <1>0, <2>1, <2>4, BroadcastIsMessage, AppendProperties
  <2> QED
    BY <1>1, <1>2, <2>2, <2>3, <2>4, <2>5
<1>8. ASSUME NEW s \in Senders, Post(s), curr_user[s] = r
      PROVE  avail'[r] + (IF pc'[r] = "pop" THEN 1 ELSE 0)
               + (IF Posting(r)' THEN 1 ELSE 0) = Len(queue'[r])
  <2>1. pc[s] = "post" /\ Posting(r)
    BY <1>8 DEF Post, Posting
  <2>2. ~Posting(r)'
    <3> SUFFICES ASSUME NEW t \in Senders, pc'[t] = "post", curr_user'[t] = r PROVE FALSE
      BY DEF Posting
    <3>1. t # s
      BY <1>0, <1>8 DEF Post, Goto
    <3>2. pc[t] = "post" /\ curr_user[t] = r
      BY <1>0, <1>8, <3>1 DEF Post, Goto
    <3>3. r \in members[room[t]] /\ r \in members[room[s]]
      BY <1>8, <2>1, <3>2, PosterIsAtMember
    <3> QED
      BY <2>1, <3>1, <3>2, <3>3, OneBroadcast DEF Broadcasting
  <2>3. pc'[r] = pc[r] /\ heap[r] = "live" /\ avail'[r] = avail[r] + 1 /\ queue'[r] = queue[r]
    BY <1>0, <1>8 DEF Post, Goto
  <2> QED
    BY <1>1, <1>2, <2>1, <2>2, <2>3
<1>9. CASE /\ heap'[r] = heap[r] /\ queue'[r] = queue[r] /\ avail'[r] = avail[r]
           /\ pc'[r] = "pop" <=> pc[r] = "pop"
           /\ Posting(r)' <=> Posting(r)
  BY <1>1, <1>9
<1> QED
  BY <1>3, <1>4, <1>5, <1>6, <1>7, <1>8, <1>9, PermitFrame

-----------------------------------------------------------------------------
(* Streams *)

\* What a receiver has been given and what waits for it.
Stream(r) == delivered[r] \o Pending(r)

\* Taking the front of a queue and putting it before what is left.
LEMMA HeadThenTail ==
  ASSUME NEW S, NEW q \in Seq(S), q # <<>>
  PROVE  <<Head(q)>> \o Tail(q) = q
<1>1. Len(q) \in Nat /\ Len(q) # 0
  BY EmptySeq
<1>2. 1 \in 1..Len(q) /\ Len(q) \in 1..Len(q)
  BY <1>1
<1>3. SubSeq(q, 1, Len(q)) = <<q[1]>> \o SubSeq(q, 1 + 1, Len(q))
  BY <1>2, SubSeqRecursiveFirst
<1>4. Head(q) = q[1] /\ Tail(q) = SubSeq(q, 2, Len(q))
  BY TailIsSubSeq
<1> QED
  BY <1>3, <1>4, SubSeqFull

\* What is pushed comes last in the stream.
LEMMA PushedIsLast ==
  ASSUME NEW S, NEW d \in Seq(S), NEW p \in Seq(S), NEW q \in Seq(S), NEW x \in S
  PROVE  d \o (p \o Append(q, x)) = (d \o (p \o q)) \o <<x>>
<1>1. <<x>> \in Seq(S)
  OBVIOUS
<1>2. Append(q, x) = q \o <<x>>
  BY AppendIsConcat
<1>3. p \o (q \o <<x>>) = (p \o q) \o <<x>>
  BY <1>1, ConcatAssociative
<1>4. p \o q \in Seq(S)
  BY ConcatProperties
<1>5. d \o ((p \o q) \o <<x>>) = (d \o (p \o q)) \o <<x>>
  BY <1>1, <1>4, ConcatAssociative
<1> QED
  BY <1>2, <1>3, <1>5

\* What is said next does not change what was said.
LEMMA SaidBefore ==
  ASSUME NEW S, NEW l \in Seq(S), NEW x \in S, NEW a \in Nat
  PROVE  SubSeq(Append(l, x), a + 1, Len(l)) = SubSeq(l, a + 1, Len(l))
<1> DEFINE L == Append(l, x)
           n == Len(l)
           s == SubSeq(L, a + 1, n)
           t == SubSeq(l, a + 1, n)
<1>1. n \in Nat /\ L \in Seq(S) /\ Len(L) = n + 1 /\ \A i \in 1..n : L[i] = l[i]
  BY AppendProperties, LenProperties
<1>2. \A i \in a + 1 .. n : L[i] \in S /\ l[i] \in S /\ L[i] = l[i]
  <2> SUFFICES ASSUME NEW i \in a + 1 .. n PROVE L[i] \in S /\ l[i] \in S /\ L[i] = l[i]
    OBVIOUS
  <2>1. i \in 1..Len(L) /\ i \in 1..Len(l)
    BY <1>1
  <2> QED
    BY <1>1, <2>1, ElementOfSeq
<1>3. a + 1 \in Int /\ n \in Int
  BY <1>1
<1>4. /\ s \in Seq(S) /\ Len(s) = IF a + 1 <= n THEN n - (a + 1) + 1 ELSE 0
      /\ \A i \in 1 .. n - (a + 1) + 1 : s[i] = L[a + 1 + i - 1]
  <2> HIDE DEF L, n
  <2> QED
    BY <1>2, <1>3, SubSeqProperties
<1>5. /\ t \in Seq(S) /\ Len(t) = IF a + 1 <= n THEN n - (a + 1) + 1 ELSE 0
      /\ \A i \in 1 .. n - (a + 1) + 1 : t[i] = l[a + 1 + i - 1]
  <2> HIDE DEF L, n
  <2> QED
    BY <1>2, <1>3, SubSeqProperties
<1>6. ASSUME NEW i \in 1..Len(s) PROVE s[i] = t[i]
  <2> HIDE DEF L, n, s, t
  <2>1. i \in 1 .. n - (a + 1) + 1 /\ a + 1 + i - 1 \in a + 1 .. n
    BY <1>1, <1>4
  <2> QED
    BY <1>2, <1>4, <1>5, <2>1
<1>7. s = t
  <2> HIDE DEF L, n, s, t
  <2> QED
    BY <1>4, <1>5, <1>6, SeqEqual
<1> QED
  BY <1>7

\* The parts of a stream are sequences.
LEMMA StreamTypes ==
  ASSUME TypeInv, NEW r \in Receivers
  PROVE  /\ delivered[r] \in Seq(Items)
         /\ mq[r] \in Items
         /\ (IF pc[r] = "deliver" THEN <<mq[r]>> ELSE <<>>) \in Seq(Items)
         /\ queue[r] \in Seq(Items)
         /\ Stream(r) \in Seq(Items)
<1>1. /\ delivered[r] \in Seq(Items) /\ mq[r] \in Items
      /\ queue[r] \in Seq(Messages)
  BY DEF TypeInv, WeakTypes, WeakHistory, UserTypes, Items
<1>2. queue[r] \in Seq(Items)
  BY <1>1, SeqMonotonic DEF Items
<1>3. <<mq[r]>> \in Seq(Items) /\ <<>> \in Seq(Items)
  BY <1>1, EmptySeq
<1>4. (IF pc[r] = "deliver" THEN <<mq[r]>> ELSE <<>>) \in Seq(Items)
  BY <1>3
<1>5. Pending(r) \in Seq(Items)
  BY <1>2, <1>4, ConcatProperties DEF Pending
<1> QED
  BY <1>1, <1>2, <1>4, <1>5, ConcatProperties DEF Stream

\* Only its own worker gives a receiver anything.
LEMMA DeliverFrame ==
  ASSUME TypeInv, [Next]_vars, NEW r \in Receivers
  PROVE  \/ /\ mq'[r] = mq[r] /\ delivered'[r] = delivered[r]
            /\ pc'[r] = "deliver" <=> pc[r] = "deliver"
         \/ Pop(r)
         \/ Deliver(r)
<1> SUFFICES ASSUME ~Pop(r), ~Deliver(r)
             PROVE  /\ mq'[r] = mq[r] /\ delivered'[r] = delivered[r]
                    /\ pc'[r] = "deliver" <=> pc[r] = "deliver"
  OBVIOUS
<1>0. /\ pc \in [Clients -> Labels] /\ r \in Clients /\ r \notin Senders
      /\ mq \in [Receivers -> Messages \cup {NoMessage}]
      /\ delivered \in [Receivers -> Seq(Messages \cup {NoMessage})]
  BY Distinct DEF TypeInv, WeakTypes, LocalTypes, UserTypes, WeakHistory, Clients
<1>1. mq'[r] = mq[r]
  <2>1. ASSUME NEW q \in Receivers, Pop(q) PROVE mq'[r] = mq[r]
    BY <1>0, <2>1 DEF Pop
  <2>2. ASSUME NEW q \in Receivers, Deliver(q) PROVE mq'[r] = mq[r]
    <3>1. q # r
      BY <2>2
    <3> QED
      BY <1>0, <2>2, <3>1 DEF Deliver
  <2> QED
    BY <2>1, <2>2, UserFrame DEF user, JoinRequest, Wait, DeleteUser, Push, Post
<1>2. delivered'[r] = delivered[r]
  <2>1. ASSUME NEW q \in Receivers, Deliver(q) PROVE delivered'[r] = delivered[r]
    <3>1. q # r
      BY <2>1
    <3> QED
      BY <1>0, <2>1, <3>1 DEF Deliver
  <2> QED
    BY <2>1, HistoryFrame DEF history, AddMember, BeginBroadcast
<1>3. pc'[r] = "deliver" <=> pc[r] = "deliver"
  <2> USE <1>0 DEF Goto
  <2>1. CASE ClientStep(r)
    BY <2>1 DEF ClientStep, Disconnect, Stall, Accept, AcceptFails, Login, LoginRefused
  <2>2. CASE WorkerStep(r)
    <3>1. CASE FindRoom(r)
      BY <3>1 DEF FindRoom, WithRoom
    <3>2. CASE CreateRoom(r)
      BY <3>2 DEF CreateRoom, WithRoom
    <3> QED
      BY <2>2, <3>1, <3>2 DEF WorkerStep, Greet, CloseConnection
  <2>3. CASE ReceiverInput(r)
    BY <2>3 DEF ReceiverInput, JoinRequest, JoinRefused
  <2>4. CASE ReceiverStep(r)
    BY <2>4 DEF ReceiverStep, AddMember, Welcome, Wait, RemoveMember, DeleteUser
  <2> QED
    BY <2>1, <2>2, <2>3, <2>4, ReceiverMoves
<1> QED
  BY <1>1, <1>2, <1>3

\* The worker of a receiver finds a message when it pops.
LEMMA PopFinds ==
  ASSUME TypeInv, RoomInv, MemberInv, PermitInv, NEW r \in Receivers, pc[r] = "pop"
  PROVE  queue[r] # <<>>
<1>1. room[r] \in Rooms /\ r \in members[room[r]]
  BY DEF TypeInv, Located, MemberInv, Served
<1>2. heap[r] = "live"
  BY <1>1 DEF RoomInv
<1>3. avail[r] + 1 + (IF Posting(r) THEN 1 ELSE 0) = Len(queue[r]) /\ avail[r] \in Nat
  BY <1>2 DEF PermitInv, TypeInv, WeakTypes, UserTypes
<1>4. Len(queue[r]) # 0
  BY <1>3
<1> QED
  BY <1>4, EmptySeq

\* Popping and delivering leave the stream of a served receiver as it is, and
\* only a push makes it longer.
LEMMA StreamFrame ==
  ASSUME TypeInv, RoomInv, MemberInv, PermitInv, [Next]_vars, NEW r \in Receivers,
         Served(r), Served(r)'
  PROVE  \/ Stream(r)' = Stream(r) /\ \A s \in Senders : ~Push(s, r)
         \/ \E s \in Senders : Push(s, r) /\ Stream(r)' = Stream(r) \o <<<<s, served[s]>>>>
<1> DEFINE d == delivered[r]
           q == queue[r]
<1>0. /\ pc \in [Clients -> Labels] /\ r \in Clients /\ r \notin Senders
      /\ mq \in [Receivers -> Messages \cup {NoMessage}]
      /\ delivered \in [Receivers -> Seq(Messages \cup {NoMessage})]
      /\ queue \in [Receivers -> Seq(Messages)]
  BY Distinct DEF TypeInv, WeakTypes, LocalTypes, UserTypes, WeakHistory, Clients
<1>1. d \in Seq(Items) /\ q \in Seq(Items) /\ mq[r] \in Items /\ <<>> \in Seq(Items)
  BY StreamTypes, EmptySeq
<1>2. CASE Pop(r)
  <2>1. pc[r] = "pop" /\ pc'[r] = "deliver" /\ delivered'[r] = d
    BY <1>0, <1>2 DEF Pop, Goto, history
  <2>2. q # <<>>
    BY <2>1, PopFinds
  <2>3. mq'[r] = Head(q) /\ queue'[r] = Tail(q)
    BY <1>0, <1>2, <2>2 DEF Pop
  <2>4. <<Head(q)>> \o Tail(q) = q
    BY <1>1, <2>2, HeadThenTail
  <2>5. Stream(r)' = d \o q
    BY <2>1, <2>3, <2>4 DEF Stream, Pending
  <2>6. Stream(r) = d \o (<<>> \o q)
    BY <2>1 DEF Stream, Pending
  <2>7. \A s \in Senders : ~Push(s, r)
    BY <1>0, <1>2 DEF Pop, Push, Goto, Clients
  <2> QED
    BY <1>1, <2>5, <2>6, <2>7, ConcatEmptySeq
<1>3. CASE Deliver(r)
  <2>1. pc[r] = "deliver" /\ queue'[r] = q
    BY <1>3 DEF Deliver
  <2>2. pc'[r] = "wait" /\ delivered'[r] = Append(d, mq[r])
    <3>1. pc'[r] # "remove"
      BY DEF Served
    <3> QED
      BY <1>0, <1>3, <3>1 DEF Deliver, Goto
  <2>3. Stream(r)' = Append(d, mq[r]) \o (<<>> \o q)
    BY <2>1, <2>2 DEF Stream, Pending
  <2>4. Stream(r) = d \o (<<mq[r]>> \o q)
    BY <2>1 DEF Stream, Pending
  <2>5. <<>> \o q = q /\ Append(d, mq[r]) = d \o <<mq[r]>>
    BY <1>1, ConcatEmptySeq, AppendIsConcat
  <2>6. <<mq[r]>> \in Seq(Items)
    BY <1>1
  <2>7. (d \o <<mq[r]>>) \o q = d \o (<<mq[r]>> \o q)
    <3> HIDE DEF d, q
    <3> QED
      BY <1>1, <2>6, ConcatAssociative
  <2>8. \A s \in Senders : ~Push(s, r)
    BY <1>0, <2>2, <2>1 DEF Push, Goto, Clients
  <2> QED
    BY <2>3, <2>4, <2>5, <2>7, <2>8
<1>4. ASSUME NEW s \in Senders, Push(s, r)
      PROVE  Stream(r)' = Stream(r) \o <<<<s, served[s]>>>>
  <2> DEFINE p == IF pc[r] = "deliver" THEN <<mq[r]>> ELSE <<>>
             x == <<s, served[s]>>
  <2>1. x \in Items
    BY <1>4, BroadcastIsMessage DEF Push, Items
  <2>2. /\ pc'[r] = pc[r] /\ mq'[r] = mq[r] /\ delivered'[r] = d
        /\ queue'[r] = Append(q, x)
    BY <1>0, <1>4 DEF Push, Goto, history, Clients
  <2>3. Stream(r)' = d \o (p \o Append(q, x))
    BY <2>2 DEF Stream, Pending
  <2>4. Stream(r) = d \o (p \o q)
    BY DEF Stream, Pending
  <2>5. p \in Seq(Items)
    BY StreamTypes
  <2>6. d \o (p \o Append(q, x)) = (d \o (p \o q)) \o <<x>>
    <3> HIDE DEF d, p, q, x
    <3> QED
      BY <1>1, <2>1, <2>5, PushedIsLast
  <2> QED
    BY <2>3, <2>4, <2>6
<1>5. CASE ~Pop(r) /\ ~Deliver(r) /\ \A s \in Senders : ~Push(s, r)
  <2>1. /\ mq'[r] = mq[r] /\ delivered'[r] = delivered[r]
        /\ pc'[r] = "deliver" <=> pc[r] = "deliver"
    BY <1>5, DeliverFrame
  <2>2. queue'[r] = queue[r]
    <3>1. \A n \in RoomNames : ~JoinRequest(r, n)
      BY DEF JoinRequest, Served
    <3>2. ~DeleteUser(r)
      BY DEF DeleteUser, Served
    <3>3. Wait(r) => queue'[r] = queue[r]
      BY DEF Wait
    <3>4. \A s \in Senders : Post(s) => queue'[r] = queue[r]
      BY DEF Post
    <3> QED
      BY <1>5, <3>1, <3>2, <3>3, <3>4, PermitFrame
  <2>3. Stream(r)' = Stream(r)
    BY <2>1, <2>2 DEF Stream, Pending
  <2> QED
    BY <1>5, <2>3
<1> QED
  BY <1>2, <1>3, <1>4, <1>5

\* A receiver that is served has been added just now, or was served before.
LEMMA ServedBefore ==
  ASSUME TypeInv, [Next]_vars, NEW r \in Receivers, Served(r)'
  PROVE  room'[r] = room[r] /\ room[r] \in Rooms /\ (AddMember(r) \/ Served(r))
<1>1. pc'[r] \in InRoom /\ pc'[r] # "remove"
  BY DEF Served, InRoom
<1>2. room'[r] = room[r] /\ (AddMember(r) \/ pc[r] \in InRoom)
  BY <1>1, InRoomBefore
<1>3. room[r] \in Rooms
  BY <1>2 DEF AddMember, TypeInv, Located, InRoom
<1>4. pc[r] # "remove"
  <2> SUFFICES ASSUME pc[r] = "remove" PROVE FALSE
    OBVIOUS
  <2>0. pc \in [Clients -> Labels] /\ r \in Clients /\ r \notin Senders
    BY Distinct DEF TypeInv, WeakTypes, LocalTypes, Clients
  <2> USE <2>0 DEF Goto
  <2>1. CASE ClientStep(r)
    BY <1>1, <2>1 DEF ClientStep, Disconnect, Stall, Accept, AcceptFails, Login, LoginRefused
  <2>2. CASE WorkerStep(r)
    BY <1>1, <2>2 DEF WorkerStep, Greet, FindRoom, CreateRoom, CloseConnection
  <2>3. CASE ReceiverInput(r)
    BY <1>1, <2>3 DEF ReceiverInput, JoinRequest, JoinRefused
  <2>4. CASE ReceiverStep(r)
    BY <1>1, <2>4 DEF ReceiverStep, AddMember, Welcome, Wait, Pop, Deliver, RemoveMember,
       DeleteUser, InRoom
  <2> QED
    BY <1>1, <2>1, <2>2, <2>3, <2>4, ReceiverMoves
<1> QED
  BY <1>2, <1>3, <1>4 DEF InRoom, Served

\* What of a room's log has reached a served receiver changes when a broadcast
\* comes to it, and not when one begins or ends.
LEMMA ReachedFrame ==
  ASSUME TypeInv, RoomInv, MemberInv, BroadcastInv, [Next]_vars, NEW r \in Receivers,
         Served(r), Served(r)', \A s \in Senders : ~Push(s, r)
  PROVE  /\ Reached(r)' = Reached(r)
         /\ \/ log'[room'[r]] = log[room[r]]
            \/ /\ Reached(r) = Len(log[room[r]])
               /\ \E x \in Messages : log'[room'[r]] = Append(log[room[r]], x)
<1> DEFINE m == room[r]
<1>0. /\ lock \in [Rooms -> Senders \cup {Free}] /\ Free \notin Senders
      /\ visited \in [Senders -> SUBSET Receivers]
      /\ log \in [Rooms -> Seq(Messages)]
      /\ r \notin Senders
  BY Distinct DEF TypeInv, WeakTypes, RoomTypes, WeakHistory, Clients
<1>1. room'[r] = m /\ m \in Rooms
  BY ServedBefore
<1>2. ASSUME NEW s \in Senders, BeginBroadcast(s), room[s] = m
      PROVE  /\ Reached(r)' = Reached(r) /\ Reached(r) = Len(log[m])
             /\ \E x \in Messages : log'[m] = Append(log[m], x)
  <2>1. pc[s] = "broadcast" /\ <<s, served[s]>> \in Messages
    BY <1>2, BroadcastIsMessage DEF BeginBroadcast
  <2>2. visited[s] = {}
    BY <2>1 DEF BroadcastInv, Broadcasting
  <2>3. /\ lock[m] = Free /\ lock'[m] = s /\ visited' = visited
        /\ log'[m] = Append(log[m], <<s, served[s]>>)
    BY <1>0, <1>1, <1>2 DEF BeginBroadcast
  <2>4. Len(Append(log[m], <<s, served[s]>>)) = Len(log[m]) + 1 /\ Len(log[m]) \in Nat
    BY <1>0, <1>1, <2>1, AppendProperties, LenProperties
  <2>5. Reached(r) = Len(log[m])
    BY <2>3 DEF Reached
  <2>6. Reached(r)' = Len(log'[m]) - 1
    BY <1>0, <1>1, <2>2, <2>3 DEF Reached
  <2> QED
    BY <2>1, <2>3, <2>4, <2>5, <2>6
<1>3. ASSUME NEW s \in Senders, EndBroadcast(s), room[s] = m
      PROVE  Reached(r)' = Reached(r) /\ log'[m] = log[m]
  <2>1. pc[s] = "iterate" /\ members[m] \subseteq visited[s]
    BY <1>3 DEF EndBroadcast
  <2>2. lock[m] = s
    BY <1>3, <2>1 DEF RoomInv
  <2>3. r \in members[m]
    BY DEF MemberInv
  <2>4. lock'[m] = Free /\ log' = log
    BY <1>0, <1>1, <1>3 DEF EndBroadcast, history
  <2>5. Reached(r) = Len(log[m])
    BY <2>1, <2>2, <2>3 DEF Reached
  <2>6. Reached(r)' = Len(log[m])
    BY <1>1, <2>4 DEF Reached
  <2> QED
    BY <2>4, <2>5, <2>6
<1>4. CASE \A s \in Senders : BeginBroadcast(s) \/ EndBroadcast(s) => room[s] # m
  <2>1. log'[m] = log[m]
    <3>1. ASSUME NEW s \in Senders, BeginBroadcast(s) PROVE log'[m] = log[m]
      BY <1>0, <1>1, <1>4, <3>1 DEF BeginBroadcast
    <3> QED
      BY <3>1, HistoryFrame DEF history, AddMember, Deliver
  <2>2. /\ lock'[m] = lock[m]
        /\ lock[m] # Free => (r \in visited'[lock[m]] <=> r \in visited[lock[m]])
    <3>1. ASSUME NEW s \in Senders, BeginBroadcast(s)
          PROVE  lock'[m] = lock[m] /\ visited' = visited
      BY <1>0, <1>1, <1>4, <3>1 DEF BeginBroadcast
    <3>2. ASSUME NEW s \in Senders, NEW u \in Receivers, Push(s, u)
          PROVE  /\ lock' = lock
                 /\ lock[m] # Free => (r \in visited'[lock[m]] <=> r \in visited[lock[m]])
      <4>1. u # r
        BY <3>2
      <4>2. visited' = [visited EXCEPT ![s] = visited[s] \cup {u}] /\ lock' = lock
        BY <3>2 DEF Push
      <4>3. lock[m] # Free => lock[m] \in Senders
        BY <1>0, <1>1
      <4> QED
        BY <1>0, <4>1, <4>2, <4>3
    <3>3. ASSUME NEW s \in Senders, EndBroadcast(s)
          PROVE  /\ lock'[m] = lock[m]
                 /\ lock[m] # Free => (r \in visited'[lock[m]] <=> r \in visited[lock[m]])
      <4>1. room[s] # m /\ pc[s] = "iterate"
        BY <1>4, <3>3 DEF EndBroadcast
      <4>2. lock[m] # s
        BY <1>0, <1>1, <4>1 DEF BroadcastInv
      <4>3. lock' = [lock EXCEPT ![room[s]] = Free] /\ visited' = [visited EXCEPT ![s] = {}]
        BY <3>3 DEF EndBroadcast
      <4> QED
        BY <1>0, <1>1, <4>1, <4>2, <4>3
    <3> QED
      BY <3>1, <3>2, <3>3, RoomsFrame DEF rooms, AddMember, RemoveMember, Post
  <2>3. Reached(r)' = Reached(r)
    BY <1>1, <2>1, <2>2 DEF Reached
  <2> QED
    BY <1>1, <2>1, <2>3
<1> QED
  BY <1>1, <1>2, <1>3, <1>4

\* A push is the broadcast coming to the receiver.
LEMMA ReachedByPush ==
  ASSUME TypeInv, RoomInv, MemberInv, BroadcastInv, [Next]_vars, NEW r \in Receivers,
         Served(r), Served(r)', NEW s \in Senders, Push(s, r)
  PROVE  /\ log'[room'[r]] = log[room[r]]
         /\ Len(log[room[r]]) \in Nat \ {0}
         /\ Reached(r) = Len(log[room[r]]) - 1
         /\ Reached(r)' = Len(log[room[r]])
         /\ log[room[r]][Len(log[room[r]])] = <<s, served[s]>>
<1> DEFINE m == room[r]
<1>0. /\ lock \in [Rooms -> Senders \cup {Free}] /\ Free \notin Senders
      /\ visited \in [Senders -> SUBSET Receivers]
      /\ log \in [Rooms -> Seq(Messages)]
  BY Distinct DEF TypeInv, WeakTypes, RoomTypes, WeakHistory, Clients
<1>1. room'[r] = m /\ m \in Rooms
  BY ServedBefore
<1>2. pc[s] = "iterate" /\ r \in members[room[s]] /\ r \notin visited[s]
  BY DEF Push
<1>3. room[s] \in Rooms /\ room[s] = m
  BY <1>2 DEF TypeInv, Located, RoomInv
<1>4. lock[m] = s
  BY <1>2, <1>3 DEF RoomInv
<1>5. lock' = lock /\ log' = log /\ r \in visited'[s]
  BY <1>0 DEF Push, history
<1>6. log[m] # <<>> /\ log[m][Len(log[m])] = <<s, served[s]>>
  BY <1>2, <1>3 DEF BroadcastInv, Broadcasting
<1>7. Reached(r) = Len(log[m]) - 1
  BY <1>0, <1>2, <1>4 DEF Reached
<1>8. Reached(r)' = Len(log[m])
  BY <1>1, <1>4, <1>5 DEF Reached
<1> QED
  BY <1>0, <1>1, <1>5, <1>6, <1>7, <1>8, EmptySeq

\* Where a receiver came in is fixed when it is added.
LEMMA StartFixed ==
  ASSUME TypeInv, [Next]_vars, NEW r \in Receivers, ~AddMember(r)
  PROVE  start'[r] = start[r]
<1>0. start \in [Receivers -> Nat]
  BY DEF TypeInv, WeakTypes, WeakHistory
<1>1. ASSUME NEW q \in Receivers, AddMember(q) PROVE start'[r] = start[r]
  <2>1. q # r
    BY <1>1
  <2> QED
    BY <1>0, <1>1, <2>1 DEF AddMember
<1> QED
  BY <1>1, HistoryFrame DEF history, Deliver, BeginBroadcast

\* A stream grows with its room's log and is never cut, repeated or reordered.
LEMMA StreamInvStep ==
  TypeInv /\ RoomInv /\ MemberInv /\ BroadcastInv /\ PermitInv /\ StreamInv /\ [Next]_vars
    => StreamInv'
<1> SUFFICES ASSUME TypeInv, RoomInv, MemberInv, BroadcastInv, PermitInv, StreamInv,
                    [Next]_vars,
                    NEW r \in Receivers, Served(r)'
             PROVE  /\ start'[r] <= Reached(r)'
                    /\ Stream(r)' = SubSeq(log'[room'[r]], start'[r] + 1, Reached(r)')
  BY DEF StreamInv, StreamIsRoomLog, Stream
<1> DEFINE m == room[r]
           l == log[m]
<1>1. room'[r] = m /\ m \in Rooms /\ (AddMember(r) \/ Served(r))
  BY ServedBefore
<1>2. l \in Seq(Messages) /\ Len(l) \in Nat /\ start[r] \in Nat
  BY <1>1, LenProperties DEF TypeInv, WeakTypes, WeakHistory
<1>3. CASE AddMember(r)
  <2>0. /\ pc \in [Clients -> Labels] /\ r \in Clients
        /\ start \in [Receivers -> Nat]
    BY DEF TypeInv, WeakTypes, LocalTypes, WeakHistory, Clients
  <2>1. pc[r] = "add" /\ lock[m] = Free
    BY <1>3 DEF AddMember
  <2>2. queue[r] = <<>> /\ delivered[r] = <<>>
    BY <2>1 DEF MemberInv, BeforeAdd
  <2>3. /\ pc'[r] = "welcome" /\ start'[r] = Len(l)
        /\ queue'[r] = <<>> /\ delivered'[r] = <<>> /\ log' = log /\ lock' = lock
    BY <2>0, <1>3, <2>2 DEF AddMember, Goto, user
  <2>4. Reached(r)' = Len(l)
    BY <1>1, <2>1, <2>3 DEF Reached
  <2>5. <<>> \o <<>> = <<>>
    BY <1>2, EmptySeq, ConcatEmptySeq
  <2>6. Stream(r)' = <<>>
    BY <2>3, <2>5 DEF Stream, Pending
  <2>7. SubSeq(l, Len(l) + 1, Len(l)) = <<>>
    BY <1>2, SubSeqEmpty
  <2>8. log'[room'[r]] = l
    BY <1>1, <2>3
  <2>9. start'[r] <= Reached(r)'
    BY <1>2, <2>3, <2>4
  <2> HIDE DEF l
  <2> QED
    BY <2>3, <2>4, <2>6, <2>7, <2>8, <2>9
<1>4. CASE Served(r) /\ ~AddMember(r)
  <2>1. start'[r] = start[r]
    BY <1>4, StartFixed
  <2>2. start[r] <= Reached(r) /\ Stream(r) = SubSeq(l, start[r] + 1, Reached(r))
    BY <1>4 DEF StreamInv, StreamIsRoomLog, Stream
  <2>3. ASSUME NEW s \in Senders, Push(s, r), Stream(r)' = Stream(r) \o <<<<s, served[s]>>>>
        PROVE  /\ start'[r] <= Reached(r)'
               /\ Stream(r)' = SubSeq(log'[room'[r]], start'[r] + 1, Reached(r)')
    <3>1. /\ log'[room'[r]] = l /\ Len(l) \in Nat \ {0}
          /\ Reached(r) = Len(l) - 1 /\ Reached(r)' = Len(l)
          /\ l[Len(l)] = <<s, served[s]>>
      BY <1>4, <2>3, ReachedByPush
    <3>2. start[r] + 1 \in 1..Len(l) /\ Len(l) \in start[r] + 1 .. Len(l)
      BY <1>2, <2>2, <3>1
    <3>3. SubSeq(l, start[r] + 1, Len(l))
            = SubSeq(l, start[r] + 1, Len(l) - 1) \o <<l[Len(l)]>>
      BY <1>2, <3>2, SubSeqRecursiveSecond
    <3>4. start[r] <= Len(l)
      BY <1>2, <3>2
    <3> QED
      BY <2>1, <2>2, <2>3, <3>1, <3>3, <3>4
  <2>4. CASE Stream(r)' = Stream(r) /\ \A s \in Senders : ~Push(s, r)
    <3>1. /\ Reached(r)' = Reached(r)
          /\ \/ log'[room'[r]] = l
             \/ /\ Reached(r) = Len(l)
                /\ \E x \in Messages : log'[room'[r]] = Append(l, x)
      BY <1>4, <2>4, ReachedFrame
    <3>2. ASSUME Reached(r) = Len(l), NEW x \in Messages
          PROVE  SubSeq(Append(l, x), start[r] + 1, Reached(r))
                   = SubSeq(l, start[r] + 1, Reached(r))
      <4> DEFINE a == start[r]
      <4>1. a \in Nat
        BY <1>2
      <4>2. SubSeq(Append(l, x), a + 1, Len(l)) = SubSeq(l, a + 1, Len(l))
        <5> HIDE DEF l, a
        <5> QED
          BY <1>2, <4>1, <3>2, SaidBefore
      <4> QED
        BY <3>2, <4>2
    <3> QED
      BY <2>1, <2>2, <2>4, <3>1, <3>2
  <2> QED
    BY <1>4, <2>3, <2>4, StreamFrame
<1> QED
  BY <1>1, <1>3, <1>4

-----------------------------------------------------------------------------
(* Who is removed *)

\* The message a worker is about to write is the next one of its room.
LEMMA NextInStream ==
  ASSUME TypeInv, StreamInv, NEW r \in Receivers, pc[r] = "deliver"
  PROVE  LET said == log[room[r]]
             next == start[r] + Len(delivered[r]) + 1
         IN next \in 1..Len(said) /\ mq[r] = said[next]
<1> DEFINE said == log[room[r]]
           d == delivered[r]
           q == queue[r]
           a == start[r]
           n == Reached(r)
<1>1. room[r] \in Rooms /\ Served(r)
  BY DEF TypeInv, Located, Served
<1>2. /\ said \in Seq(Messages) /\ Len(said) \in Nat /\ a \in Nat
      /\ d \in Seq(Items) /\ q \in Seq(Items) /\ mq[r] \in Items
  BY <1>1, StreamTypes, LenProperties DEF TypeInv, WeakTypes, WeakHistory
<1>3. a <= n /\ d \o (<<mq[r]>> \o q) = SubSeq(said, a + 1, n)
  BY <1>1 DEF StreamInv, StreamIsRoomLog, Pending
<1>4. n \in {Len(said) - 1, Len(said)}
  BY DEF Reached
<1> HIDE DEF said, d, q, a, n
<1>5. /\ <<mq[r]>> \in Seq(Items) /\ Len(<<mq[r]>>) = 1 /\ <<mq[r]>>[1] = mq[r]
  BY <1>2
<1>6. /\ <<mq[r]>> \o q \in Seq(Items)
      /\ Len(<<mq[r]>> \o q) = 1 + Len(q)
      /\ (<<mq[r]>> \o q)[1] = mq[r]
      /\ Len(q) \in Nat /\ Len(d) \in Nat
  <2>1. Len(q) \in Nat /\ Len(d) \in Nat
    BY <1>2, LenProperties
  <2>2. 1 \in 1 .. Len(<<mq[r]>>) + Len(q)
    BY <1>5, <2>1
  <2> QED
    BY <1>2, <1>5, <2>1, <2>2, ConcatProperties
<1>7. /\ Len(d \o (<<mq[r]>> \o q)) = Len(d) + (1 + Len(q))
      /\ (d \o (<<mq[r]>> \o q))[Len(d) + 1] = mq[r]
  <2> DEFINE t == <<mq[r]>> \o q
  <2>1. t \in Seq(Items) /\ Len(t) = 1 + Len(q) /\ t[1] = mq[r]
    BY <1>6
  <2> HIDE DEF t
  <2>2. Len(d) + 1 \in 1 .. Len(d) + Len(t)
    BY <1>6, <2>1
  <2>3. /\ Len(d \o t) = Len(d) + Len(t)
        /\ (d \o t)[Len(d) + 1] = IF Len(d) + 1 <= Len(d) THEN d[Len(d) + 1]
                                    ELSE t[Len(d) + 1 - Len(d)]
    <3>1. /\ Len(d \o t) = Len(d) + Len(t)
          /\ \A i \in 1 .. Len(d) + Len(t) :
               (d \o t)[i] = IF i <= Len(d) THEN d[i] ELSE t[i - Len(d)]
      <4>1. d \in Seq(Items) /\ t \in Seq(Items)
        BY <1>2, <2>1
      <4> QED
        BY <4>1, ConcatProperties, Zenon
    <3> QED
      BY <2>2, <3>1
  <2>4. Len(d) + 1 - Len(d) = 1 /\ ~(Len(d) + 1 <= Len(d))
    BY <1>6
  <2>5. Len(d \o t) = Len(d) + (1 + Len(q)) /\ (d \o t)[Len(d) + 1] = mq[r]
    BY <2>1, <2>3, <2>4
  <2> QED
    BY <2>5 DEF t
<1>8. \A i \in a + 1 .. n : said[i] \in Messages
  BY <1>2, <1>4, ElementOfSeq
<1>9. /\ Len(SubSeq(said, a + 1, n)) = IF a + 1 <= n THEN n - (a + 1) + 1 ELSE 0
      /\ \A i \in 1 .. n - (a + 1) + 1 : SubSeq(said, a + 1, n)[i] = said[a + 1 + i - 1]
  BY <1>2, <1>4, <1>8, SubSeqProperties
<1>10. Len(d) + 1 \in 1 .. n - (a + 1) + 1
  BY <1>2, <1>3, <1>4, <1>6, <1>7, <1>9
<1>11. mq[r] = said[a + 1 + (Len(d) + 1) - 1]
  BY <1>3, <1>7, <1>9, <1>10
<1>12. a + 1 + (Len(d) + 1) - 1 = a + Len(d) + 1 /\ a + Len(d) + 1 \in 1..Len(said)
  BY <1>2, <1>4, <1>6, <1>10
<1> QED
  BY <1>11, <1>12 DEF said, d, a

\* A connection that is reset stays so.
LEMMA GoneForGood ==
  ASSUME TypeInv, [Next]_vars, NEW c \in Clients, conn[c] = "down"
  PROVE  conn'[c] = "down"
BY ConnFrame DEF TypeInv, WeakTypes, LocalTypes, Disconnect, Stall, WriteTo, Present

\* A room's log only grows, and at its end.
LEMMA LogGrows ==
  ASSUME TypeInv, [Next]_vars, NEW m \in Rooms
  PROVE  log'[m] = log[m] \/ \E x \in Messages : log'[m] = Append(log[m], x)
<1>0. log \in [Rooms -> Seq(Messages)]
  BY DEF TypeInv, WeakTypes, WeakHistory
<1>1. ASSUME NEW s \in Senders, BeginBroadcast(s)
      PROVE  log'[m] = log[m] \/ \E x \in Messages : log'[m] = Append(log[m], x)
  <2>1. <<s, served[s]>> \in Messages
    BY <1>1, BroadcastIsMessage DEF BeginBroadcast
  <2> QED
    BY <1>0, <1>1, <2>1 DEF BeginBroadcast
<1> QED
  BY <1>1, HistoryFrame DEF history, AddMember, Deliver

\* A message that could not be delivered stays the next one while the worker
\* waits for the room's lock.
LEMMA NextStays ==
  ASSUME TypeInv, [Next]_vars, NEW r \in Receivers, room[r] \in Rooms, room'[r] = room[r],
         start'[r] = start[r], delivered'[r] = delivered[r], NextTooLong(r)
  PROVE  NextTooLong(r)'
<1> DEFINE said == log[room[r]]
           next == start[r] + Len(delivered[r]) + 1
<1>1. next \in 1..Len(said) /\ said[next] \in TooLong /\ said \in Seq(Messages)
  <2>1. /\ said \in Seq(Messages) /\ start[r] \in Nat
        /\ delivered[r] \in Seq(Items)
    BY DEF TypeInv, WeakTypes, WeakHistory, Items
  <2>2. Len(delivered[r]) \in Nat /\ Len(said) \in Nat
    BY <2>1, LenProperties
  <2> QED
    BY <2>1, <2>2 DEF NextTooLong
<1>2. ASSUME NEW x \in Messages
      PROVE  next <= Len(Append(said, x)) /\ Append(said, x)[next] \in TooLong
  <2> HIDE DEF said, next
  <2> QED
    BY <1>1, AppendProperties
<1>3. log'[room'[r]] = said \/ \E x \in Messages : log'[room'[r]] = Append(said, x)
  BY LogGrows
<1> QED
  BY <1>1, <1>2, <1>3 DEF NextTooLong

\* A worker sets out to remove its User only when it cannot deliver.
LEMMA CauseInvStep ==
  TypeInv /\ StreamInv /\ CauseInv /\ [Next]_vars => CauseInv'
<1> SUFFICES ASSUME TypeInv, StreamInv, CauseInv, [Next]_vars,
                    NEW r \in Receivers, pc'[r] = "remove"
             PROVE  conn'[r] = "down" \/ NextTooLong(r)'
  BY DEF CauseInv
<1>0. /\ pc \in [Clients -> Labels] /\ r \in Clients /\ r \notin Senders
      /\ conn \in [Clients -> {"up", "stalled", "gone", "down"}]
      /\ room'[r] = room[r]
  BY Distinct, InRoomBefore DEF TypeInv, WeakTypes, LocalTypes, Clients, InRoom
<1>1. pc[r] = "remove" \/ Deliver(r)
  <2> USE <1>0 DEF Goto
  <2>1. CASE ClientStep(r)
    BY <2>1 DEF ClientStep, Disconnect, Stall, Accept, AcceptFails, Login, LoginRefused
  <2>2. CASE WorkerStep(r)
    <3>1. CASE FindRoom(r)
      BY <3>1 DEF FindRoom, WithRoom
    <3>2. CASE CreateRoom(r)
      BY <3>2 DEF CreateRoom, WithRoom
    <3> QED
      BY <2>2, <3>1, <3>2 DEF WorkerStep, Greet, CloseConnection
  <2>3. CASE ReceiverInput(r)
    BY <2>3 DEF ReceiverInput, JoinRequest, JoinRefused
  <2>4. CASE ReceiverStep(r)
    BY <2>4 DEF ReceiverStep, AddMember, Welcome, Wait, Pop, RemoveMember, DeleteUser
  <2> QED
    BY <2>1, <2>2, <2>3, <2>4, ReceiverMoves
<1>2. CASE pc[r] = "remove"
  <2>1. room[r] \in Rooms
    BY <1>2 DEF TypeInv, Located
  <2>2. start'[r] = start[r] /\ delivered'[r] = delivered[r]
    BY <1>2, StartFixed, DeliverFrame DEF AddMember, Pop, Deliver
  <2>3. conn[r] = "down" \/ NextTooLong(r)
    BY <1>2 DEF CauseInv
  <2> QED
    BY <1>0, <2>1, <2>2, <2>3, GoneForGood, NextStays
<1>3. CASE Deliver(r)
  <2>1. pc[r] = "deliver" /\ UNCHANGED <<log, start, room>>
    BY <1>3 DEF Deliver, locals
  <2>2. (mq[r] \in TooLong \/ conn[r] = "down") /\ delivered' = delivered
    BY <1>0, <1>3 DEF Deliver, Goto, WriteFails
  <2>3. CASE conn[r] = "down"
    BY <2>3, GoneForGood, <1>0
  <2>4. CASE conn[r] # "down"
    <3>1. mq[r] \in TooLong
      BY <1>0, <1>3, <2>2, <2>4 DEF Deliver
    <3>2. /\ start[r] + Len(delivered[r]) + 1 \in 1..Len(log[room[r]])
          /\ log[room[r]][start[r] + Len(delivered[r]) + 1] \in TooLong
      BY <2>1, <3>1, NextInStream
    <3> QED
      BY <2>1, <2>2, <3>2 DEF NextTooLong
  <2> QED
    BY <2>3, <2>4
<1> QED
  BY <1>1, <1>2, <1>3

-----------------------------------------------------------------------------
(* Rooms that are not in the table *)

\* A room is made once, by a thread that finds the name missing in the table;
\* nothing has been said in it, nor is while it is not in the table.
LEMMA LogInvStep ==
  TypeInv /\ TableInv /\ LogInv /\ [Next]_vars => LogInv'
<1> SUFFICES ASSUME TypeInv, TableInv, LogInv, [Next]_vars,
                    NEW m \in Rooms, m_rooms'[m[1]] # m
             PROVE  log'[m] = <<>>
  BY DEF LogInv
<1>0. /\ m_rooms \in [RoomNames -> Rooms \cup {NoRoom}] /\ m[1] \in RoomNames
      /\ m # NoRoom
  BY Distinct DEF TypeInv, WeakTypes, TableTypes, Rooms
<1>1. m_rooms[m[1]] # m
  <2>1. CASE UNCHANGED m_rooms
    BY <2>1
  <2>2. ASSUME NEW c \in Clients, CreateRoom(c) PROVE m_rooms[m[1]] # m
    <3>1. m_rooms[wanted[c]] = NoRoom /\ wanted[c] \in RoomNames
      BY <2>2, NewRoomInRooms DEF CreateRoom, TableInv, TypeInv
    <3>2. m_rooms' = [m_rooms EXCEPT ![wanted[c]] = <<wanted[c], c>>]
      BY <2>2 DEF CreateRoom
    <3> QED
      BY <1>0, <3>1, <3>2
  <2> QED
    BY <2>1, <2>2, TableFrame DEF table, FindRoom
<1>2. log[m] = <<>>
  BY <1>1 DEF LogInv
<1>3. ASSUME NEW s \in Senders, BeginBroadcast(s) PROVE log'[m] = log[m]
  <2>1. room[s] \in Rooms /\ s \in Clients
    BY <1>3 DEF BeginBroadcast, TypeInv, Located, Clients
  <2>2. m_rooms[room[s][1]] = room[s]
    BY <2>1, Distinct DEF TableInv, OneRoomPerName
  <2>3. room[s] # m
    BY <1>1, <2>2
  <2> QED
    BY <1>3, <2>3 DEF BeginBroadcast, TypeInv, WeakTypes, WeakHistory
<1> QED
  BY <1>2, <1>3, HistoryFrame DEF history, AddMember, Deliver

-----------------------------------------------------------------------------
(* One conversation per name *)

\* The conversation under each name, and the one each receiver has joined, as
\* ChatServer instantiates RoomBroadcast with them.
Conversation == [n \in RoomNames |-> IF m_rooms[n] = NoRoom THEN <<>> ELSE log[m_rooms[n]]]
JoinedRoom(r) == IF room[r] = NoRoom \/ pc[r] = "add" THEN NoName ELSE room[r][1]
Joined == [r \in Receivers |-> JoinedRoom(r)]

\* Whoever has a room finds its log under the room's name.
LEMMA ConversationIsLog ==
  ASSUME TypeInv, TableInv, NEW c \in Clients, room[c] # NoRoom
  PROVE  room[c][1] \in RoomNames /\ Conversation[room[c][1]] = log[room[c]]
<1>1. room[c] \in Rooms
  BY DEF TypeInv, WeakTypes, LocalTypes
<1>2. room[c][1] \in RoomNames /\ m_rooms[room[c][1]] = room[c]
  BY <1>1 DEF Rooms, TableInv, OneRoomPerName
<1> QED
  BY <1>2 DEF Conversation

\* Making a room says nothing.
LEMMA ConversationStays ==
  ASSUME TypeInv, TableInv, LogInv, [Next]_vars, log' = log
  PROVE  Conversation' = Conversation
<1>0. m_rooms \in [RoomNames -> Rooms \cup {NoRoom}]
  BY DEF TypeInv, WeakTypes, TableTypes
<1>1. CASE UNCHANGED m_rooms
  BY <1>1 DEF Conversation
<1>2. ASSUME NEW c \in Clients, CreateRoom(c) PROVE Conversation' = Conversation
  <2> DEFINE n == wanted[c]
             new == <<wanted[c], c>>
  <2>1. n \in RoomNames /\ new \in Rooms /\ m_rooms[n] = NoRoom
    BY <1>2, NewRoomInRooms DEF CreateRoom, TypeInv, TableInv
  <2>2. m_rooms' = [m_rooms EXCEPT ![n] = new]
    BY <1>2 DEF CreateRoom
  <2>3. new[1] = n /\ new # NoRoom
    BY <2>1, Distinct
  <2>4. log[new] = <<>>
    BY <2>1, <2>3, Distinct DEF LogInv
  <2> HIDE DEF n, new
  <2>5. ASSUME NEW k \in RoomNames
        PROVE  (IF m_rooms'[k] = NoRoom THEN <<>> ELSE log'[m_rooms'[k]])
                 = (IF m_rooms[k] = NoRoom THEN <<>> ELSE log[m_rooms[k]])
    BY <1>0, <2>1, <2>2, <2>3, <2>4
  <2> QED
    BY <2>5 DEF Conversation
<1> QED
  BY <1>1, <1>2, TableFrame DEF table, FindRoom

\* A receiver has joined its room when it has been added, and stays in it.
LEMMA JoinedStays ==
  ASSUME TypeInv, MemberInv, [Next]_vars, NEW r \in Receivers, ~AddMember(r)
  PROVE  JoinedRoom(r)' = JoinedRoom(r)
<1>0. /\ pc \in [Clients -> Labels] /\ room \in [Clients -> Rooms \cup {NoRoom}]
      /\ r \in Clients /\ r \notin Senders
      /\ pc[r] \in {"find", "create"} => room[r] = NoRoom
  BY Distinct DEF TypeInv, WeakTypes, LocalTypes, MemberInv, BeforeAdd, Clients
<1> USE <1>0 DEF Goto, locals, JoinedRoom
<1>1. CASE pc'[r] = pc[r] /\ room'[r] = room[r]
  BY <1>1
<1>2. CASE ClientStep(r)
  BY <1>2 DEF ClientStep, Disconnect, Stall, Accept, AcceptFails, Login, LoginRefused
<1>3. CASE WorkerStep(r)
  <2>1. CASE FindRoom(r)
    BY <2>1 DEF FindRoom, WithRoom
  <2>2. CASE CreateRoom(r)
    BY <2>2 DEF CreateRoom, WithRoom
  <2> QED
    BY <1>3, <2>1, <2>2 DEF WorkerStep, Greet, CloseConnection
<1>4. CASE ReceiverInput(r)
  BY <1>4 DEF ReceiverInput, JoinRequest, JoinRefused
<1>5. CASE ReceiverStep(r)
  <2>1. CASE Deliver(r)
    BY <2>1 DEF Deliver
  <2> QED
    BY <1>5, <2>1 DEF ReceiverStep, Welcome, Wait, Pop, RemoveMember, DeleteUser
<1> QED
  BY <1>1, <1>2, <1>3, <1>4, <1>5, ReceiverMoves

\* An addition, a broadcast and a delivery are steps of the conversations.
LEMMA AbstractJoin ==
  ASSUME NEW r \in Receivers, NEW n \in RoomNames,
         Joined[r] = NoName,
         Joined' = [Joined EXCEPT ![r] = n],
         start' = [start EXCEPT ![r] = Len(Conversation[n])],
         Conversation' = Conversation, delivered' = delivered
  PROVE  Broadcast!Next
<1>1. Broadcast!Join(r, n)
  BY DEF Broadcast!Join, Conversation, Joined, JoinedRoom
<1> QED
  BY <1>1 DEF Broadcast!Next

\* A broadcast that begins is a message said.
LEMMA AbstractSay ==
  ASSUME NEW n \in RoomNames, NEW x \in Messages,
         Conversation' = [Conversation EXCEPT ![n] = Append(Conversation[n], x)],
         Joined' = Joined, start' = start, delivered' = delivered
  PROVE  Broadcast!Next
<1>1. Broadcast!Say(n, x)
  BY DEF Broadcast!Say, Conversation, Joined, JoinedRoom
<1> QED
  BY <1>1 DEF Broadcast!Next

\* A write to a receiver is the delivery of its next message.
LEMMA AbstractDeliver ==
  ASSUME NEW r \in Receivers,
         Joined[r] # NoName,
         start[r] + Len(delivered[r]) + 1 <= Len(Conversation[Joined[r]]),
         delivered' = [delivered EXCEPT ![r] = Append(delivered[r],
            Conversation[Joined[r]][start[r] + Len(delivered[r]) + 1])],
         Conversation' = Conversation, Joined' = Joined, start' = start
  PROVE  Broadcast!Next
<1>1. Broadcast!Deliver(r)
  BY DEF Broadcast!Deliver, Conversation, Joined, JoinedRoom
<1> QED
  BY <1>1 DEF Broadcast!Next

\* Every other step leaves the conversations as they are.
LEMMA AbstractStutter ==
  ASSUME Conversation' = Conversation, Joined' = Joined, UNCHANGED <<start, delivered>>
  PROVE  UNCHANGED Broadcast!vars
BY DEF Broadcast!vars, Conversation, Joined, JoinedRoom

\* Every step of the server is a step of the conversations or none.
LEMMA BroadcastStep ==
  TypeInv /\ TableInv /\ MemberInv /\ StreamInv /\ LogInv /\ [Next]_vars
    => [Broadcast!Next]_(Broadcast!vars)
<1> SUFFICES ASSUME TypeInv, TableInv, MemberInv, StreamInv, LogInv, [Next]_vars
             PROVE  Broadcast!Next \/ UNCHANGED Broadcast!vars
  OBVIOUS
<1>0. /\ pc \in [Clients -> Labels] /\ room \in [Clients -> Rooms \cup {NoRoom}]
      /\ log \in [Rooms -> Seq(Messages)]
      /\ start \in [Receivers -> Nat]
      /\ \A r \in Receivers : r \in Clients
      /\ \A s \in Senders : s \in Clients
      /\ \A r \in Receivers : pc[r] \in {"add", "deliver"} => room[r] \in Rooms
      /\ \A s \in Senders : pc[s] = "broadcast" => room[s] \in Rooms
      /\ NoRoom \notin Rooms
  BY Distinct DEF TypeInv, WeakTypes, LocalTypes, WeakHistory, Located, Clients
<1>1. ASSUME NEW r \in Receivers, AddMember(r) PROVE Broadcast!Next
  <2> DEFINE n == room[r][1]
  <2>1. pc[r] = "add" /\ room[r] \in Rooms /\ room[r] # NoRoom
    BY <1>0, <1>1 DEF AddMember
  <2>2. n \in RoomNames /\ Conversation[n] = log[room[r]]
    BY <1>0, <2>1, ConversationIsLog
  <2>3. /\ start' = [start EXCEPT ![r] = Len(log[room[r]])]
        /\ delivered' = delivered /\ log' = log /\ m_rooms' = m_rooms
        /\ room' = room /\ pc' = [pc EXCEPT ![r] = "welcome"]
    BY <1>1 DEF AddMember, Goto, locals, table
  <2>4. Conversation' = Conversation
    BY <2>3 DEF Conversation
  <2>5. Joined[r] = NoName
    BY <2>1 DEF Joined, JoinedRoom
  <2>6. ASSUME NEW q \in Receivers
        PROVE  JoinedRoom(q)' = IF q = r THEN n ELSE JoinedRoom(q)
    <3>1. CASE q = r
      BY <1>0, <2>1, <2>3, <3>1 DEF JoinedRoom
    <3>2. CASE q # r
      BY <1>0, <2>3, <3>2 DEF JoinedRoom
    <3> QED
      BY <3>1, <3>2
  <2>7. Joined' = [Joined EXCEPT ![r] = n]
    BY <2>6 DEF Joined
  <2>8. start' = [start EXCEPT ![r] = Len(Conversation[n])]
    BY <2>2, <2>3
  <2> HIDE DEF n
  <2> QED
    BY <2>2, <2>3, <2>4, <2>5, <2>7, <2>8, AbstractJoin
<1>2. ASSUME \A r \in Receivers : ~AddMember(r) PROVE Joined' = Joined
  BY <1>2, JoinedStays DEF Joined
<1>3. ASSUME NEW s \in Senders, BeginBroadcast(s) PROVE Broadcast!Next
  <2> DEFINE n == room[s][1]
             x == <<s, served[s]>>
  <2>1. pc[s] = "broadcast" /\ room[s] \in Rooms /\ room[s] # NoRoom /\ x \in Messages
    BY <1>0, <1>3, BroadcastIsMessage DEF BeginBroadcast
  <2>2. n \in RoomNames /\ Conversation[n] = log[room[s]] /\ m_rooms[n] = room[s]
    BY <1>0, <2>1, ConversationIsLog DEF TableInv, OneRoomPerName
  <2>3. /\ log' = [log EXCEPT ![room[s]] = Append(log[room[s]], x)]
        /\ start' = start /\ delivered' = delivered /\ m_rooms' = m_rooms
        /\ pc' = [pc EXCEPT ![s] = "iterate"]
    BY <1>3 DEF BeginBroadcast, Goto, table
  <2>4. ASSUME NEW k \in RoomNames
        PROVE  (IF m_rooms'[k] = NoRoom THEN <<>> ELSE log'[m_rooms'[k]])
                 = IF k = n THEN Append(Conversation[n], x)
                   ELSE IF m_rooms[k] = NoRoom THEN <<>> ELSE log[m_rooms[k]]
    <3>1. CASE k = n
      BY <1>0, <2>1, <2>2, <2>3, <3>1
    <3>2. CASE k # n
      <4>1. CASE m_rooms[k] = NoRoom
        BY <2>3, <3>2, <4>1
      <4>2. CASE m_rooms[k] # NoRoom
        <5>1. m_rooms[k] \in Rooms /\ m_rooms[k][1] = k
          BY <4>2 DEF TypeInv, WeakTypes, TableTypes, TableInv
        <5>2. m_rooms[k] # room[s]
          BY <3>2, <5>1
        <5> QED
          BY <1>0, <2>3, <3>2, <4>2, <5>1, <5>2
      <4> QED
        BY <4>1, <4>2
    <3> QED
      BY <3>1, <3>2
  <2>5. Conversation' = [Conversation EXCEPT ![n] = Append(Conversation[n], x)]
    BY <2>4 DEF Conversation
  <2>6. \A r \in Receivers : ~AddMember(r)
    BY <1>0, <2>1, <2>3, Distinct DEF AddMember, Goto
  <2> HIDE DEF n, x
  <2> QED
    BY <1>2, <2>1, <2>2, <2>3, <2>5, <2>6, AbstractSay
<1>4. ASSUME NEW r \in Receivers, Deliver(r) PROVE Broadcast!Next \/ UNCHANGED Broadcast!vars
  <2> DEFINE said == log[room[r]]
             next == start[r] + Len(delivered[r]) + 1
  <2>1. /\ pc[r] = "deliver" /\ UNCHANGED <<log, start, m_rooms>>
        /\ \/ delivered' = delivered
           \/ delivered' = [delivered EXCEPT ![r] = Append(delivered[r], mq[r])]
    BY <1>4 DEF Deliver, table
  <2>2. next \in 1..Len(said) /\ mq[r] = said[next]
    BY <2>1, NextInStream
  <2>3. room[r] \in Rooms /\ room[r] # NoRoom
    BY <1>0, <2>1
  <2>4. room[r][1] \in RoomNames /\ Conversation[room[r][1]] = said
    BY <1>0, <2>3, ConversationIsLog
  <2>5. Joined[r] = room[r][1]
    BY <2>1, <2>3 DEF Joined, JoinedRoom
  <2>6. Joined[r] # NoName
    BY <2>4, <2>5, Distinct
  <2>7. \A q \in Receivers : ~AddMember(q)
    <3>1. pc'[r] \in {"wait", "remove"}
      BY <1>0, <1>4 DEF Deliver, Goto
    <3> QED
      BY <1>0, <2>1, <3>1 DEF AddMember, Goto
  <2>8. Conversation' = Conversation /\ Joined' = Joined
    BY <1>2, <2>1, <2>7, ConversationStays
  <2>9. next <= Len(Conversation[Joined[r]]) /\ mq[r] = Conversation[Joined[r]][next]
    BY <2>2, <2>4, <2>5
  <2>10. CASE delivered' = delivered
    BY <2>1, <2>8, <2>10, AbstractStutter
  <2>11. CASE delivered' = [delivered EXCEPT ![r] = Append(delivered[r], mq[r])]
    BY <2>1, <2>6, <2>8, <2>9, <2>11, AbstractDeliver
  <2> QED
    BY <2>1, <2>10, <2>11
<1>5. CASE UNCHANGED history /\ \A r \in Receivers : ~AddMember(r)
  BY <1>2, <1>5, ConversationStays, AbstractStutter DEF history
<1> QED
  BY <1>1, <1>3, <1>4, <1>5, HistoryFrame

-----------------------------------------------------------------------------
(* In every state *)

ServerInv ==
  TypeInv /\ TableInv /\ RoomInv /\ MemberInv /\ BroadcastInv /\ PermitInv /\ StreamInv
    /\ CauseInv /\ LogInv

\* Nobody has connected, nothing is locked or said.
LEMMA ServerInit == Init => ServerInv
<1> SUFFICES ASSUME Init PROVE ServerInv
  OBVIOUS
<1>1. TypeInv
  BY TypeInit
<1>2. TableInv /\ RoomInv
  BY DEF Init, TableInv, OneRoomPerName, RoomInv, Clients
<1>3. MemberInv /\ CauseInv /\ LogInv
  BY DEF Init, MemberInv, CauseInv, LogInv, BeforeAdd, Served, Clients
<1>4. BroadcastInv
  BY DEF Init, BroadcastInv, Broadcasting, Clients
<1>5. PermitInv /\ StreamInv
  BY DEF Init, PermitInv, StreamInv, StreamIsRoomLog, Served, Clients
<1> QED
  BY <1>1, <1>2, <1>3, <1>4, <1>5 DEF ServerInv

\* The parts of ServerInv, each with those it needs, are kept by every step.
THEOREM ServerAlways == Spec => []ServerInv
<1>1. ServerInv /\ [Next]_vars => TypeInv'
  BY LocalTypesStep, TableTypesStep, RoomTypesStep, UserTypesStep, WeakHistoryStep,
     LocatedStep DEF ServerInv, TypeInv, WeakTypes
<1>2. ServerInv /\ [Next]_vars => TableInv' /\ RoomInv' /\ MemberInv' /\ BroadcastInv'
  BY TableInvStep, RoomInvStep, MemberInvStep, BroadcastInvStep DEF ServerInv
<1>3. ServerInv /\ [Next]_vars => PermitInv' /\ StreamInv' /\ CauseInv' /\ LogInv'
  BY PermitInvStep, StreamInvStep, CauseInvStep, LogInvStep DEF ServerInv
<1>4. ServerInv /\ [Next]_vars => ServerInv'
  BY <1>1, <1>2, <1>3 DEF ServerInv
<1> QED
  BY ServerInit, <1>4, PTL DEF Spec

\* Only messages are written to a receiver, since its worker finds one when it pops.
GivenInv ==
  /\ \A r \in Receivers : pc[r] = "deliver" => mq[r] \in Messages
  /\ delivered \in [Receivers -> Seq(Messages)]

\* A worker that delivers has popped a message, and what it writes out is that.
LEMMA GivenInvStep == ServerInv /\ GivenInv /\ [Next]_vars => GivenInv'
<1> SUFFICES ASSUME ServerInv, GivenInv, [Next]_vars PROVE GivenInv'
  OBVIOUS
<1>0. /\ TypeInv
      /\ pc \in [Clients -> Labels]
      /\ mq \in [Receivers -> Messages \cup {NoMessage}]
      /\ queue \in [Receivers -> Seq(Messages)]
  BY DEF ServerInv, TypeInv, WeakTypes, LocalTypes, UserTypes
<1>1. ASSUME NEW r \in Receivers, pc'[r] = "deliver" PROVE mq'[r] \in Messages
  <2>1. CASE mq'[r] = mq[r] /\ (pc'[r] = "deliver" <=> pc[r] = "deliver")
    BY <1>1, <2>1 DEF GivenInv
  <2>2. CASE Pop(r)
    <3>1. queue[r] \in Seq(Messages) /\ queue[r] # <<>>
      BY <1>0, <2>2, PopFinds DEF Pop, ServerInv
    <3>2. mq'[r] = Head(queue[r])
      BY <1>0, <2>2, <3>1 DEF Pop
    <3> QED
      BY <3>1, <3>2
  <2>3. CASE Deliver(r)
    BY <1>0, <1>1, <2>3 DEF Deliver, Goto, Clients
  <2> QED
    BY <1>0, <2>1, <2>2, <2>3, DeliverFrame
<1>2. delivered' \in [Receivers -> Seq(Messages)]
  <2>1. ASSUME NEW r \in Receivers, Deliver(r) PROVE delivered' \in [Receivers -> Seq(Messages)]
    <3>1. Append(delivered[r], mq[r]) \in Seq(Messages)
      BY <2>1, AppendProperties DEF Deliver, GivenInv
    <3>2. \/ delivered' = delivered
          \/ delivered' = [delivered EXCEPT ![r] = Append(delivered[r], mq[r])]
      BY <2>1 DEF Deliver
    <3> QED
      BY <3>1, <3>2 DEF GivenInv
  <2> QED
    BY <2>1, HistoryFrame DEF history, AddMember, BeginBroadcast, GivenInv
<1> QED
  BY <1>1, <1>2 DEF GivenInv

\* The type invariant of the server, for any number of clients and requests.  That
\* only messages are written rests on the semaphore, which counts the queue.
THEOREM TypeCorrect == Spec => []TypeOK
<1>1. Init => GivenInv
  BY EmptySeq DEF Init, GivenInv, Clients
<1>2. ServerInv /\ GivenInv => TypeOK
  BY DEF ServerInv, GivenInv, TypeInv, WeakTypes, WeakHistory, TypeOK, HistoryTypes
<1> QED
  BY <1>1, <1>2, GivenInvStep, ServerAlways, PTL DEF Spec

\* The semaphore of a User counts its queue, whatever senders push and post
\* while its worker waits and pops.
THEOREM PermitsMatchQueueAlways == Spec => []PermitsMatchQueue
<1>1. ServerInv => PermitsMatchQueue
  <2> SUFFICES ASSUME ServerInv, NEW r \in Receivers, heap[r] = "live"
               PROVE  avail[r] + (IF pc[r] = "pop" THEN 1 ELSE 0)
                        + Cardinality({s \in Senders : pc[s] = "post" /\ curr_user[s] = r})
                      = Len(queue[r])
    BY DEF PermitsMatchQueue
  <2> DEFINE posters == {s \in Senders : pc[s] = "post" /\ curr_user[s] = r}
  <2>1. avail[r] + (IF pc[r] = "pop" THEN 1 ELSE 0) + (IF Posting(r) THEN 1 ELSE 0)
          = Len(queue[r])
    BY DEF ServerInv, PermitInv
  <2>2. CASE Posting(r)
    <3>1. PICK s \in Senders : pc[s] = "post" /\ curr_user[s] = r
      BY <2>2 DEF Posting
    <3>2. ASSUME NEW t \in posters PROVE t = s
      <4>1. r \in members[room[s]] /\ r \in members[room[t]]
        BY <3>1, PosterIsAtMember DEF ServerInv
      <4> QED
        BY <3>1, <4>1, OneBroadcast DEF ServerInv, Broadcasting
    <3>3. posters = {s}
      BY <3>1, <3>2
    <3>4. Cardinality(posters) = 1
      BY <3>3, FS_Singleton
    <3> QED
      BY <2>1, <2>2, <3>4
  <2>3. CASE ~Posting(r)
    <3>1. posters = {}
      BY <2>3 DEF Posting
    <3>2. Cardinality(posters) = 0
      BY <3>1, FS_EmptySet
    <3> QED
      BY <2>1, <2>3, <3>2
  <2> QED
    BY <2>2, <2>3
<1> QED
  BY <1>1, ServerAlways, PTL

\* What a receiver has been given and what waits for it is its room's log since
\* it joined, in order, without a gap and without a repetition.
THEOREM StreamIsRoomLogAlways == Spec => []StreamIsRoomLog
<1>1. ServerInv => StreamIsRoomLog
  BY DEF ServerInv, StreamInv
<1> QED
  BY <1>1, ServerAlways, PTL

\* When a sender is told "message sent", every receiver of the room that was in
\* it has the message or will find it on its queue: the only message that may
\* not have come to everybody is that of the thread that holds the lock.
THEOREM SentMeansQueuedAlways == Spec => []SentMeansQueued
<1>1. ServerInv => SentMeansQueued
  <2> SUFFICES ASSUME ServerInv, NEW s \in Senders, NEW r \in Receivers,
                      pc[s] = "reply", Served(r), room[r] = room[s],
                      NEW i \in start[r] + 1 .. Len(log[room[s]]),
                      log[room[s]][i] = <<s, served[s]>>
               PROVE  \E j \in 1..Len(Stream(r)) : Stream(r)[j] = log[room[s]][i]
    BY DEF SentMeansQueued, Stream
  <2> DEFINE m == room[r]
             said == log[m]
             n == Reached(r)
             a == start[r]
  <2>1. m \in Rooms /\ s \in Clients
    BY DEF ServerInv, TypeInv, Located, Served, Clients
  <2>2. /\ said \in Seq(Messages) /\ Len(said) \in Nat /\ a \in Nat
        /\ i \in a + 1 .. Len(said) /\ said[i] = <<s, served[s]>>
    BY <2>1, LenProperties DEF ServerInv, TypeInv, WeakTypes, WeakHistory
  <2>3. a <= n /\ Stream(r) = SubSeq(said, a + 1, n)
    BY DEF ServerInv, StreamInv, StreamIsRoomLog, Stream
  <2>4. n = Len(said) \/ (n = Len(said) - 1 /\ lock[m] # Free)
    BY DEF Reached
  <2>5. i <= n
    <3> SUFFICES ASSUME n = Len(said) - 1, lock[m] # Free, i = Len(said) PROVE FALSE
      BY <2>2, <2>4
    <3>1. PICK t \in Senders : lock[m] = t /\ room[t] = m /\ pc[t] \in Broadcasting
      BY <2>1 DEF ServerInv, TypeInv, WeakTypes, RoomTypes, BroadcastInv
    <3>2. said[Len(said)] = <<t, served[t]>>
      BY <3>1 DEF ServerInv, BroadcastInv
    <3>3. t = s
      BY <2>2, <3>2
    <3> QED
      BY <3>1, <3>3 DEF Broadcasting
  <2> HIDE DEF m, said, n, a
  <2>6. \A k \in a + 1 .. n : said[k] \in Messages
    BY <2>2, <2>4, ElementOfSeq
  <2>7. /\ Len(SubSeq(said, a + 1, n)) = IF a + 1 <= n THEN n - (a + 1) + 1 ELSE 0
        /\ \A k \in 1 .. n - (a + 1) + 1 : SubSeq(said, a + 1, n)[k] = said[a + 1 + k - 1]
    BY <2>2, <2>4, <2>6, SubSeqProperties
  <2>8. i - a \in 1 .. n - (a + 1) + 1 /\ i - a \in 1..Len(SubSeq(said, a + 1, n))
    BY <2>2, <2>4, <2>5, <2>7
  <2>9. SubSeq(said, a + 1, n)[i - a] = said[i]
    <3>1. a + 1 + (i - a) - 1 = i
      BY <2>2
    <3> QED
      BY <2>7, <2>8, <3>1
  <2>10. i - a \in 1..Len(Stream(r)) /\ Stream(r)[i - a] = said[i]
    BY <2>3, <2>8, <2>9
  <2> QED
    BY <2>10 DEF said, m
<1> QED
  BY <1>1, ServerAlways, PTL

\* No receiver is dropped for what another client does, or for being slow: its
\* connection is reset, or its next message cannot be delivered.
THEOREM OnlyTheLostAreRemovedAlways == Spec => OnlyTheLostAreRemoved
<1>1. ServerInv /\ [Next]_vars =>
        [\A m \in Rooms : \A r \in members[m] \ members'[m] :
           conn[r] = "down" \/ NextTooLong(r)]_vars
  <2> SUFFICES ASSUME ServerInv, [Next]_vars,
                      NEW m \in Rooms, NEW r \in members[m] \ members'[m]
               PROVE  conn[r] = "down" \/ NextTooLong(r)
    OBVIOUS
  <2>1. RemoveMember(r) /\ r \in Receivers
    BY MembersStay DEF ServerInv, TypeInv, WeakTypes, RoomTypes
  <2> QED
    BY <2>1 DEF RemoveMember, ServerInv, CauseInv
<1> QED
  BY <1>1, ServerAlways, PTL DEF Spec, OnlyTheLostAreRemoved

\* Threads, locks and queues are one conversation per name: being added is
\* joining it, taking the room's lock to broadcast is saying the next message,
\* writing to a receiver is delivering its next one, and no other step is seen.
THEOREM ServerImplementsRoomBroadcast == Spec => ImplementsRoomBroadcast
<1>1. Init => Broadcast!Init
  BY DEF Init, Broadcast!Init, Clients
<1>2. ServerInv /\ [Next]_vars => [Broadcast!Next]_(Broadcast!vars)
  BY BroadcastStep DEF ServerInv
<1> QED
  BY <1>1, <1>2, ServerAlways, PTL DEF Spec, ImplementsRoomBroadcast, Broadcast!Spec

-----------------------------------------------------------------------------
(* No deadlock *)

\* Whoever owns a mutex is in the one critical section that goes with it, where
\* no step waits for a mutex, a semaphore or a client, and owns no other.
OwnersGoOn ==
  /\ m_lock # Free => pc[m_lock] = "create"
  /\ \A m \in Rooms : lock[m] # Free => pc[lock[m]] \in Broadcasting
  /\ \A m \in Rooms : lock[m] # Free => m_lock # lock[m]
  /\ \A m, n \in Rooms : lock[m] # Free /\ lock[m] = lock[n] => m = n

\* The table is locked by a thread that looks a name up in vain, until it has
\* put the room in.
OwnerCreates == m_lock # Free => pc[m_lock] = "create"

\* A thread that creates a room does so in its next step.
LEMMA CreatorStays ==
  ASSUME TypeInv, NEW c \in Clients, StepOf(c), pc[c] = "create"
  PROVE  CreateRoom(c) \/ pc'[c] = "create"
<1> USE DEF Goto, locals
<1>1. CASE ClientStep(c)
  BY <1>1 DEF ClientStep, Disconnect, Stall, Accept, AcceptFails, Login, LoginRefused
<1>2. CASE WorkerStep(c)
  BY <1>2 DEF WorkerStep, Greet, FindRoom, CloseConnection
<1>3. CASE ReceiverInput(c)
  BY <1>3 DEF ReceiverInput, JoinRequest, JoinRefused
<1>4. CASE ReceiverStep(c)
  BY <1>4 DEF ReceiverStep, AddMember, Welcome, Wait, Pop, Deliver, RemoveMember, DeleteUser
<1>5. CASE SenderInput(c)
  <2>1. pc[c] = "request"
    BY <1>5, Zenon DEF SenderInput, RequestJoin, RequestSendall, RequestLeave, RequestQuit,
       RequestOther, ReadRequest
  <2> QED
    BY <2>1
<1>6. CASE SenderStep(c)
  <2>1. pc[c] \in {"request", "broadcast", "iterate", "post", "reply"}
    BY <1>6 DEF SenderStep, ReceiveFails, BeginBroadcast, Push, Post, EndBroadcast, Reply
  <2> QED
    BY <2>1
<1> QED
  BY <1>1, <1>2, <1>3, <1>4, <1>5, <1>6 DEF StepOf

\* The table changes hands only when it is free.
LEMMA OwnerCreatesStep == TypeInv /\ OwnerCreates /\ [Next]_vars => OwnerCreates'
<1> SUFFICES ASSUME TypeInv, OwnerCreates, [Next]_vars, m_lock' # Free
             PROVE  pc'[m_lock'] = "create"
  BY DEF OwnerCreates
<1>0. pc \in [Clients -> Labels] /\ m_lock \in Clients \cup {Free} /\ Free \notin Clients
  BY Distinct DEF TypeInv, WeakTypes, LocalTypes, TableTypes
<1>1. CASE UNCHANGED vars
  BY <1>1 DEF vars, locals, table, OwnerCreates
<1>2. ASSUME NEW c \in Clients, FindRoom(c) PROVE pc'[m_lock'] = "create"
  <2>1. m_lock = Free /\ (m_lock' = m_lock \/ (m_lock' = c /\ pc' = [pc EXCEPT ![c] = "create"]))
    BY <1>2 DEF FindRoom, Goto
  <2> QED
    BY <1>0, <2>1
<1>3. ~(\E c \in Clients : CreateRoom(c))
  BY DEF CreateRoom
<1>4. ASSUME UNCHANGED table, NEW c \in Clients, StepOf(c) PROVE pc'[m_lock'] = "create"
  <2>1. m_lock' = m_lock /\ m_lock \in Clients /\ pc[m_lock] = "create"
    BY <1>0, <1>4 DEF table, OwnerCreates
  <2>2. CASE c # m_lock
    BY <1>4, <2>1, <2>2, OthersStay
  <2>3. CASE c = m_lock
    BY <1>3, <1>4, <2>1, <2>3, CreatorStays
  <2> QED
    BY <2>2, <2>3
<1> QED
  BY <1>1, <1>2, <1>3, <1>4, SomebodySteps, TableFrame

\* No deadlock among the threads of the server, whatever their clients do: the
\* owner of the table or of a room waits for nobody, so that every mutex that is
\* taken can be given back by its owner alone.
THEOREM OwnersGoOnAlways == Spec => []OwnersGoOn
<1>1. Init => OwnerCreates
  BY DEF Init, OwnerCreates
<1>2. ServerInv => TypeInv
  BY DEF ServerInv
<1>3. ServerInv /\ OwnerCreates => OwnersGoOn
  <2> SUFFICES ASSUME ServerInv, OwnerCreates PROVE OwnersGoOn
    OBVIOUS
  <2>1. m_lock # Free => pc[m_lock] = "create"
    BY DEF OwnerCreates
  <2>2. \A m \in Rooms : lock[m] # Free => room[lock[m]] = m /\ pc[lock[m]] \in Broadcasting
    BY DEF ServerInv, BroadcastInv
  <2>3. "create" \notin Broadcasting
    BY DEF Broadcasting
  <2> QED
    BY <2>1, <2>2, <2>3 DEF OwnersGoOn
<1> QED
  BY <1>1, <1>2, <1>3, OwnerCreatesStep, ServerAlways, PTL DEF Spec

=============================================================================
