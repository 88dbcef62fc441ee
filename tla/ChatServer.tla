----------------------------- MODULE ChatServer -----------------------------
(***************************************************************************)
(* The multi-threaded chat server (src/05ass/server.cpp, room.cpp,         *)
(* message_queue.cpp): one detached worker thread per connected client,    *)
(* the table of rooms under Server::m_lock, and in every Room the set of   *)
(* receiving Users under Room::lock.  A User carries the queue into which  *)
(* senders broadcast and from which its own worker delivers.               *)
(*                                                                         *)
(* A step is one critical section, or what a thread does between two       *)
(* points where another thread or the client can come in.  The mutex       *)
(* inside MessageQueue is the subject of module MessageQueue; here a push  *)
(* and a pop are one step each, the semaphore is separate.                 *)
(***************************************************************************)
EXTENDS Integers, Sequences, FiniteSets

CONSTANTS Receivers,    \* clients that log in with rlogin
          Senders,      \* clients that log in with slogin
          RoomNames,    \* the room names clients ask for
          MaxRequests,  \* bound: requests one sender makes
          Unsteady,     \* bound: the clients that may stop reading or go
          TooLong       \* messages that do not fit when sender and room are put before

ASSUME ClientsAssumption ==
  /\ Receivers \cap Senders = {}
  /\ MaxRequests \in Nat

Clients == Receivers \cup Senders

\* A Room object on the heap: its name and the client whose thread made it.
\* Two objects of one name would be two rooms.
Rooms == RoomNames \X Clients

\* The text of a message is the request it came in.
Messages == Senders \X (1..MaxRequests)

ASSUME LengthAssumption == TooLong \subseteq Messages

\* The null pointers, and the state of a mutex nobody owns.
NoRoom == <<>>
NoUser == "no user"
NoMessage == <<>>
NoName == "no name"
Free == "free"

ASSUME NamesAssumption ==
  /\ NoUser \notin Receivers
  /\ NoName \notin RoomNames
  /\ Free \notin Clients

VARIABLES
  conn,        \* the connection to each client as the server finds it
  pc,          \* where the worker of each client is
  wanted,      \* room name in the join request being served
  room,        \* room of a receiver, sender_room of a sender
  answer,      \* the reply a sender's worker is about to give
  served,      \* how many requests of each sender have been read
  last_result, \* m_last_result of a sender's connection
  m_lock,      \* owner of the server's mutex
  m_rooms,     \* the table of rooms by name
  lock,        \* owner of each room's mutex
  members,     \* the Users in each room
  visited,     \* members a broadcast has passed
  curr_user,   \* the member it is at
  heap,        \* the User of each receiver: not made yet, live or freed
  queue,       \* m_messages of each User
  avail,       \* m_avail of each User
  mq,          \* the message each receiver's worker is delivering
  delivered,   \* history: what has been written to each receiver
  log,         \* history: the broadcasts of each room, in order
  start        \* history: length of the log when a receiver was added

locals == <<wanted, room, answer, served, last_result>>
table == <<m_lock, m_rooms>>
rooms == <<lock, members, visited, curr_user>>
user == <<heap, queue, avail, mq>>
history == <<delivered, log, start>>
vars == <<conn, pc, locals, table, rooms, user, history>>

Init ==
  /\ conn = [c \in Clients |-> "up"]
  /\ pc = [c \in Clients |-> "accept"]
  /\ wanted = [c \in Clients |-> NoName]
  /\ room = [c \in Clients |-> NoRoom]
  /\ answer = [s \in Senders |-> "none"]
  /\ served = [s \in Senders |-> 0]
  /\ last_result = [s \in Senders |-> "SUCCESS"]
  /\ m_lock = Free
  /\ m_rooms = [n \in RoomNames |-> NoRoom]
  /\ lock = [m \in Rooms |-> Free]
  /\ members = [m \in Rooms |-> {}]
  /\ visited = [s \in Senders |-> {}]
  /\ curr_user = [s \in Senders |-> NoUser]
  /\ heap = [r \in Receivers |-> "none"]
  /\ queue = [r \in Receivers |-> <<>>]
  /\ avail = [r \in Receivers |-> 0]
  /\ mq = [r \in Receivers |-> NoMessage]
  /\ delivered = [r \in Receivers |-> <<>>]
  /\ log = [m \in Rooms |-> <<>>]
  /\ start = [r \in Receivers |-> 0]

Goto(c, label) == pc' = [pc EXCEPT ![c] = label]

-----------------------------------------------------------------------------
(* The clients.  "up": the server can read what the client sends and write   *)
(* to it; "stalled": it has stopped reading and its buffers are full, so     *)
(* that a write blocks; "gone": it has closed, reads give EOF, but the       *)
(* kernel still takes what is written; "down": the connection is reset,      *)
(* writes fail too.  Bytes that a client sent before it went belong to the   *)
(* time it was up.                                                           *)

Present(c) == conn[c] \in {"up", "stalled"}

\* A client that has not read all it was sent resets the connection when it closes.
Disconnect(c) ==
  /\ pc[c] # "accept"
  /\ c \in Unsteady /\ Present(c)
  /\ \E how \in {"gone", "down"} :
       /\ conn[c] = "stalled" => how = "down"
       /\ conn' = [conn EXCEPT ![c] = how]
  /\ UNCHANGED <<pc, locals, table, rooms, user, history>>

Stall(c) ==
  /\ pc[c] # "accept"
  /\ c \in Unsteady /\ conn[c] = "up"
  /\ conn' = [conn EXCEPT ![c] = "stalled"]
  /\ UNCHANGED <<pc, locals, table, rooms, user, history>>

\* A write to a client that has gone is answered by a reset, which may come in
\* before the next one.
WriteTo(c) ==
  /\ conn[c] # "stalled"
  /\ \/ UNCHANGED conn
     \/ conn[c] = "gone" /\ conn' = [conn EXCEPT ![c] = "down"]
WriteFails(c) == conn[c] = "down"

-----------------------------------------------------------------------------
(* Logging in *)

\* accept and pthread_create
Accept(c) ==
  /\ pc[c] = "accept"
  /\ Goto(c, "login")
  /\ UNCHANGED <<conn, locals, table, rooms, user, history>>

\* pthread_create fails: Client and Connection are never freed.
AcceptFails(c) ==
  /\ pc[c] = "accept"
  /\ Goto(c, "leaked")
  /\ UNCHANGED <<conn, locals, table, rooms, user, history>>

Login(c) ==
  /\ pc[c] = "login"
  /\ Present(c)
  /\ Goto(c, "greet")
  /\ UNCHANGED <<conn, locals, table, rooms, user, history>>

\* No login message, or one with another tag: the worker returns and frees
\* nothing, the connection stays open.
LoginRefused(c) ==
  /\ pc[c] = "login"
  /\ WriteTo(c)
  /\ Goto(c, "leaked")
  /\ UNCHANGED <<locals, table, rooms, user, history>>

Greet(c) ==
  /\ pc[c] = "greet"
  /\ WriteTo(c)
  /\ Goto(c, IF WriteFails(c) THEN "leaked" ELSE IF c \in Receivers THEN "join" ELSE "request")
  /\ UNCHANGED <<locals, table, rooms, user, history>>

-----------------------------------------------------------------------------
(* find_or_create_room, called by both kinds of worker *)

\* What the caller does once it has the room.
WithRoom(c) ==
  IF c \in Receivers
  THEN Goto(c, "add") /\ UNCHANGED answer
  ELSE Goto(c, "reply") /\ answer' = [answer EXCEPT ![c] = "welcome"]

\* Fault: the table is looked up before the lock is taken.
FindRoomUnlocked(c) ==
  /\ pc[c] = "find"
  /\ IF m_rooms[wanted[c]] # NoRoom
     THEN room' = [room EXCEPT ![c] = m_rooms[wanted[c]]] /\ WithRoom(c)
     ELSE Goto(c, "create") /\ UNCHANGED <<room, answer>>
  /\ UNCHANGED <<conn, wanted, served, last_result, table, rooms, user, history>>

\* The lock is only seen to be held if there is a room to create.
FindRoom(c) ==
  /\ pc[c] = "find"
  /\ m_lock = Free
  /\ IF m_rooms[wanted[c]] # NoRoom
     THEN /\ room' = [room EXCEPT ![c] = m_rooms[wanted[c]]]
          /\ WithRoom(c)
          /\ UNCHANGED m_lock
     ELSE /\ m_lock' = c
          /\ Goto(c, "create")
          /\ UNCHANGED <<room, answer>>
  /\ UNCHANGED <<conn, wanted, served, last_result, m_rooms, rooms, user, history>>

CreateRoom(c) ==
  /\ pc[c] = "create"
  /\ LET new == <<wanted[c], c>>
     IN /\ m_rooms' = [m_rooms EXCEPT ![wanted[c]] = new]
        /\ room' = [room EXCEPT ![c] = new]
  /\ m_lock' = Free
  /\ WithRoom(c)
  /\ UNCHANGED <<conn, wanted, served, last_result, rooms, user, history>>

-----------------------------------------------------------------------------
(* chat_with_receiver *)

\* The User is made before its room is looked up.
JoinRequest(r, n) ==
  /\ pc[r] = "join"
  /\ Present(r)
  /\ wanted' = [wanted EXCEPT ![r] = n]
  /\ heap' = [heap EXCEPT ![r] = "live"]
  /\ Goto(r, "find")
  /\ UNCHANGED <<conn, room, answer, served, last_result, table, rooms,
                 queue, avail, mq, history>>

\* EOF, or another tag than join
JoinRefused(r) ==
  /\ pc[r] = "join"
  /\ WriteTo(r)
  /\ Goto(r, "close")
  /\ UNCHANGED <<locals, table, rooms, user, history>>

\* Fault: add_member without its Guard.
AddMemberUnlocked(r) ==
  /\ pc[r] = "add"
  /\ members' = [members EXCEPT ![room[r]] = @ \cup {r}]
  /\ start' = [start EXCEPT ![r] = Len(log[room[r]])]
  /\ Goto(r, "welcome")
  /\ UNCHANGED <<conn, locals, table, lock, visited, curr_user, user, delivered, log>>

AddMember(r) ==
  /\ pc[r] = "add"
  /\ lock[room[r]] = Free
  /\ members' = [members EXCEPT ![room[r]] = @ \cup {r}]
  /\ start' = [start EXCEPT ![r] = Len(log[room[r]])]
  /\ Goto(r, "welcome")
  /\ UNCHANGED <<conn, locals, table, lock, visited, curr_user, user, delivered, log>>

\* If the ok cannot be written the worker returns at once: the User stays in
\* the room.
Welcome(r) ==
  /\ pc[r] = "welcome"
  /\ WriteTo(r)
  /\ Goto(r, IF WriteFails(r) THEN "close" ELSE "wait")
  /\ UNCHANGED <<locals, table, rooms, user, history>>

\* Fault: the result of sem_timedwait is not looked at.
WaitUnchecked(r) ==
  /\ pc[r] = "wait"
  /\ avail' = [avail EXCEPT ![r] = IF @ > 0 THEN @ - 1 ELSE @]
  /\ Goto(r, "pop")
  /\ UNCHANGED <<conn, locals, table, rooms, heap, queue, mq, history>>

\* sem_timedwait.  When it times out dequeue returns nullptr and the worker
\* calls it again, which changes nothing here.
Wait(r) ==
  /\ pc[r] = "wait"
  /\ avail[r] > 0
  /\ avail' = [avail EXCEPT ![r] = @ - 1]
  /\ Goto(r, "pop")
  /\ UNCHANGED <<conn, locals, table, rooms, heap, queue, mq, history>>

\* Fault: front without pop_front.
PopKeepsFront(r) ==
  /\ pc[r] = "pop"
  /\ queue[r] # <<>>
  /\ mq' = [mq EXCEPT ![r] = Head(queue[r])]
  /\ Goto(r, "deliver")
  /\ UNCHANGED <<conn, locals, table, rooms, heap, queue, avail, history>>

\* front and pop_front of an empty deque return no message.
Pop(r) ==
  /\ pc[r] = "pop"
  /\ IF queue[r] # <<>>
     THEN /\ mq' = [mq EXCEPT ![r] = Head(queue[r])]
          /\ queue' = [queue EXCEPT ![r] = Tail(@)]
     ELSE UNCHANGED <<mq, queue>>
  /\ Goto(r, "deliver")
  /\ UNCHANGED <<conn, locals, table, rooms, heap, avail, history>>

\* Fault: the result of send is inverted, the loop ends when it succeeds.
DeliverInverted(r) ==
  /\ pc[r] = "deliver"
  /\ WriteTo(r)
  /\ mq' = [mq EXCEPT ![r] = NoMessage]
  /\ IF WriteFails(r)
     THEN Goto(r, "wait") /\ UNCHANGED delivered
     ELSE Goto(r, "remove") /\ delivered' = [delivered EXCEPT ![r] = Append(@, mq[r])]
  /\ UNCHANGED <<locals, table, rooms, heap, queue, avail, log, start>>

\* Fault: the result of send is not looked at.
DeliverUnchecked(r) ==
  /\ pc[r] = "deliver"
  /\ WriteTo(r)
  /\ mq' = [mq EXCEPT ![r] = NoMessage]
  /\ Goto(r, "wait")
  /\ IF WriteFails(r)
     THEN UNCHANGED delivered
     ELSE delivered' = [delivered EXCEPT ![r] = Append(@, mq[r])]
  /\ UNCHANGED <<locals, table, rooms, heap, queue, avail, log, start>>

\* A message that cannot be written ends the loop.  One that is too long is
\* refused before anything is written.
Deliver(r) ==
  /\ pc[r] = "deliver"
  /\ IF mq[r] \in TooLong THEN UNCHANGED conn ELSE WriteTo(r)
  /\ mq' = [mq EXCEPT ![r] = NoMessage]
  /\ IF mq[r] \in TooLong \/ WriteFails(r)
     THEN Goto(r, "remove") /\ UNCHANGED delivered
     ELSE Goto(r, "wait") /\ delivered' = [delivered EXCEPT ![r] = Append(@, mq[r])]
  /\ UNCHANGED <<locals, table, rooms, heap, queue, avail, log, start>>

\* Fault: remove_member without its Guard.
RemoveMemberUnlocked(r) ==
  /\ pc[r] = "remove"
  /\ members' = [members EXCEPT ![room[r]] = @ \ {r}]
  /\ Goto(r, "delete")
  /\ UNCHANGED <<conn, locals, table, lock, visited, curr_user, user, history>>

RemoveMember(r) ==
  /\ pc[r] = "remove"
  /\ lock[room[r]] = Free
  /\ members' = [members EXCEPT ![room[r]] = @ \ {r}]
  /\ Goto(r, "delete")
  /\ UNCHANGED <<conn, locals, table, lock, visited, curr_user, user, history>>

\* ~User and ~MessageQueue: what is left on the queue is freed with it.
DeleteUser(r) ==
  /\ pc[r] = "delete"
  /\ heap' = [heap EXCEPT ![r] = "freed"]
  /\ queue' = [queue EXCEPT ![r] = <<>>]
  /\ avail' = [avail EXCEPT ![r] = 0]
  /\ Goto(r, "close")
  /\ UNCHANGED <<conn, locals, table, rooms, mq, history>>

-----------------------------------------------------------------------------
(* chat_with_sender *)

\* The worker has read a request of a sender that is still there.
ReadRequest(s) ==
  /\ pc[s] = "request"
  /\ Present(s)
  /\ served[s] < MaxRequests
  /\ served' = [served EXCEPT ![s] = @ + 1]
  /\ last_result' = [last_result EXCEPT ![s] = "SUCCESS"]

Answer(s, text) ==
  /\ Goto(s, "reply")
  /\ answer' = [answer EXCEPT ![s] = text]

\* A sender may join another room without having left the first.
RequestJoin(s, n) ==
  /\ ReadRequest(s)
  /\ wanted' = [wanted EXCEPT ![s] = n]
  /\ Goto(s, "find")
  /\ UNCHANGED <<conn, room, answer, table, rooms, user, history>>

RequestSendall(s) ==
  /\ ReadRequest(s)
  /\ IF room[s] # NoRoom
     THEN Goto(s, "broadcast") /\ UNCHANGED answer
     ELSE Answer(s, "not in a room")
  /\ UNCHANGED <<conn, wanted, room, table, rooms, user, history>>

RequestLeave(s, n) ==
  /\ ReadRequest(s)
  /\ IF room[s] # NoRoom /\ room[s][1] = n
     THEN room' = [room EXCEPT ![s] = NoRoom] /\ Answer(s, "left room")
     ELSE UNCHANGED room /\ Answer(s, "not in the room")
  /\ UNCHANGED <<conn, wanted, table, rooms, user, history>>

RequestQuit(s) ==
  /\ ReadRequest(s)
  /\ Answer(s, "bye")
  /\ UNCHANGED <<conn, wanted, room, table, rooms, user, history>>

\* A request with any other tag gets no reply: receive never sets INVALID_MSG.
RequestOther(s) ==
  /\ ReadRequest(s)
  /\ UNCHANGED <<conn, pc, wanted, room, answer, table, rooms, user, history>>

\* At EOF receive fails and the loop goes round: quitted is not set.
ReceiveFails(s) ==
  /\ pc[s] = "request"
  /\ ~Present(s)
  /\ last_result' = [last_result EXCEPT ![s] = "EOF_OR_ERROR"]
  /\ UNCHANGED <<conn, pc, wanted, room, answer, served, table, rooms, user, history>>

\* Fault: broadcast_message without its Guard.
BeginBroadcastUnlocked(s) ==
  /\ pc[s] = "broadcast"
  /\ log' = [log EXCEPT ![room[s]] = Append(@, <<s, served[s]>>)]
  /\ Goto(s, "iterate")
  /\ UNCHANGED <<conn, locals, table, lock, members, visited, curr_user, user, delivered, start>>

\* broadcast_message takes the room's lock ...
BeginBroadcast(s) ==
  /\ pc[s] = "broadcast"
  /\ lock[room[s]] = Free
  /\ lock' = [lock EXCEPT ![room[s]] = s]
  /\ log' = [log EXCEPT ![room[s]] = Append(@, <<s, served[s]>>)]
  /\ Goto(s, "iterate")
  /\ UNCHANGED <<conn, locals, table, members, visited, curr_user, user, delivered, start>>

\* ... goes through the members, in the order of their addresses, which is any
\* order, pushing a copy of the message ...
Push(s, u) ==
  /\ pc[s] = "iterate"
  /\ u \in members[room[s]] \ visited[s]
  /\ queue' = [queue EXCEPT ![u] = Append(@, <<s, served[s]>>)]
  /\ visited' = [visited EXCEPT ![s] = @ \cup {u}]
  /\ curr_user' = [curr_user EXCEPT ![s] = u]
  /\ Goto(s, "post")
  /\ UNCHANGED <<conn, locals, table, lock, members, heap, avail, mq, history>>

\* Fault: the message is queued and nobody is told.
PostForgotten(s) ==
  /\ pc[s] = "post"
  /\ curr_user' = [curr_user EXCEPT ![s] = NoUser]
  /\ Goto(s, "iterate")
  /\ UNCHANGED <<conn, locals, table, lock, members, visited, user, history>>

\* ... and posting the semaphore of each ...
Post(s) ==
  /\ pc[s] = "post"
  /\ avail' = [avail EXCEPT ![curr_user[s]] = @ + 1]
  /\ curr_user' = [curr_user EXCEPT ![s] = NoUser]
  /\ Goto(s, "iterate")
  /\ UNCHANGED <<conn, locals, table, lock, members, visited, heap, queue, mq, history>>

\* Fault: the loop over the members ends early.
EndBroadcastEarly(s) ==
  /\ pc[s] = "iterate"
  /\ lock' = [lock EXCEPT ![room[s]] = Free]
  /\ visited' = [visited EXCEPT ![s] = {}]
  /\ Answer(s, "message sent")
  /\ UNCHANGED <<conn, wanted, room, served, last_result, table, members,
                 curr_user, user, history>>

\* Fault: the lock is not released.
EndBroadcastLocked(s) ==
  /\ pc[s] = "iterate"
  /\ members[room[s]] \subseteq visited[s]
  /\ visited' = [visited EXCEPT ![s] = {}]
  /\ Answer(s, "message sent")
  /\ UNCHANGED <<conn, wanted, room, served, last_result, table, lock, members,
                 curr_user, user, history>>

\* ... and releases the lock after the last.
EndBroadcast(s) ==
  /\ pc[s] = "iterate"
  /\ members[room[s]] \subseteq visited[s]
  /\ lock' = [lock EXCEPT ![room[s]] = Free]
  /\ visited' = [visited EXCEPT ![s] = {}]
  /\ Answer(s, "message sent")
  /\ UNCHANGED <<conn, wanted, room, served, last_result, table, members,
                 curr_user, user, history>>

\* The worker goes on whether or not the reply can be written.
Reply(s) ==
  /\ pc[s] = "reply"
  /\ WriteTo(s)
  /\ answer' = [answer EXCEPT ![s] = "none"]
  /\ Goto(s, IF answer[s] = "bye" THEN "close" ELSE "request")
  /\ UNCHANGED <<wanted, room, served, last_result, table, rooms, user, history>>

-----------------------------------------------------------------------------
\* The end of worker: the connection and the Client are freed.
CloseConnection(c) ==
  /\ pc[c] = "close"
  /\ Goto(c, "done")
  /\ UNCHANGED <<conn, locals, table, rooms, user, history>>

\* What needs the client to send something, or the system to fail.
ClientStep(c) ==
  \/ Disconnect(c) \/ Stall(c)
  \/ Accept(c) \/ AcceptFails(c) \/ Login(c) \/ LoginRefused(c)

ReceiverInput(r) ==
  \/ \E n \in RoomNames : JoinRequest(r, n)
  \/ JoinRefused(r)

SenderInput(s) ==
  \/ \E n \in RoomNames : RequestJoin(s, n) \/ RequestLeave(s, n)
  \/ RequestSendall(s) \/ RequestQuit(s) \/ RequestOther(s)

\* What a worker does by itself.
WorkerStep(c) == Greet(c) \/ FindRoom(c) \/ CreateRoom(c) \/ CloseConnection(c)

ReceiverStep(r) ==
  \/ AddMember(r) \/ Welcome(r) \/ Wait(r) \/ Pop(r) \/ Deliver(r)
  \/ RemoveMember(r) \/ DeleteUser(r)

SenderStep(s) ==
  \/ ReceiveFails(s) \/ BeginBroadcast(s) \/ Post(s) \/ EndBroadcast(s) \/ Reply(s)
  \/ \E u \in Receivers : Push(s, u)

Next ==
  \/ \E c \in Clients : ClientStep(c) \/ WorkerStep(c)
  \/ \E r \in Receivers : ReceiverInput(r) \/ ReceiverStep(r)
  \/ \E s \in Senders : SenderInput(s) \/ SenderStep(s)

Spec == Init /\ [][Next]_vars

\* The operating system runs every worker that can go on.  No client is
\* assumed to send, to read or to stay.  Weak fairness is enough for the
\* mutexes, which are contended MaxRequests times per sender at most.
Fairness ==
  /\ \A r \in Receivers : WF_vars(WorkerStep(r) \/ ReceiverStep(r))
  /\ \A s \in Senders : WF_vars(WorkerStep(s) \/ SenderStep(s))

FairSpec == Spec /\ Fairness

-----------------------------------------------------------------------------
Labels == {"accept", "login", "greet", "leaked", "join", "find", "create", "add",
           "welcome", "wait", "pop", "deliver", "remove", "delete", "request",
           "broadcast", "iterate", "post", "reply", "close", "done"}

Texts == {"none", "welcome", "message sent", "not in a room", "left room",
          "not in the room", "bye"}

LocalTypes ==
  /\ conn \in [Clients -> {"up", "stalled", "gone", "down"}]
  /\ pc \in [Clients -> Labels]
  /\ wanted \in [Clients -> RoomNames \cup {NoName}]
  /\ room \in [Clients -> Rooms \cup {NoRoom}]
  /\ answer \in [Senders -> Texts]
  /\ served \in [Senders -> 0..MaxRequests]
  /\ last_result \in [Senders -> {"SUCCESS", "EOF_OR_ERROR"}]

TableTypes ==
  /\ m_lock \in Clients \cup {Free}
  /\ m_rooms \in [RoomNames -> Rooms \cup {NoRoom}]

RoomTypes ==
  /\ lock \in [Rooms -> Senders \cup {Free}]
  /\ members \in [Rooms -> SUBSET Receivers]
  /\ visited \in [Senders -> SUBSET Receivers]
  /\ curr_user \in [Senders -> Receivers \cup {NoUser}]

UserTypes ==
  /\ heap \in [Receivers -> {"none", "live", "freed"}]
  /\ queue \in [Receivers -> Seq(Messages)]
  /\ avail \in [Receivers -> Nat]
  /\ mq \in [Receivers -> Messages \cup {NoMessage}]

HistoryTypes ==
  /\ delivered \in [Receivers -> Seq(Messages)]
  /\ log \in [Rooms -> Seq(Messages)]
  /\ start \in [Receivers -> Nat]

\* Type invariant: locals, table, rooms, users and history.  What is written to a
\* receiver is always a message.
TypeOK == LocalTypes /\ TableTypes /\ RoomTypes /\ UserTypes /\ HistoryTypes

\* A broadcast never touches a User that its own worker has deleted: whoever
\* is in a room is live, and so is the User between the push to its queue and
\* the post of its semaphore.
NoUseAfterFree ==
  /\ \A m \in Rooms : \A u \in members[m] : heap[u] = "live"
  /\ \A s \in Senders : pc[s] = "post" => heap[curr_user[s]] = "live"

\* Threads that resolve one name at the same time get "the unique Room object
\* representing the named chat room", the one in the table.
OneRoomPerName ==
  \A c \in Clients : room[c] # NoRoom => m_rooms[room[c][1]] = room[c]

\* The semaphore of a User counts its queue, but for a message just pushed and
\* a permit just taken; so its worker never pops an empty queue, although
\* senders push and post while it waits and pops.
PermitsMatchQueue ==
  \A r \in Receivers :
    heap[r] = "live" =>
      avail[r] + (IF pc[r] = "pop" THEN 1 ELSE 0)
        + Cardinality({s \in Senders : pc[s] = "post" /\ curr_user[s] = r})
      = Len(queue[r])

\* A receiver in its loop, or about to enter it.
Served(r) == pc[r] \in {"welcome", "wait", "pop", "deliver"}

Pending(r) == (IF pc[r] = "deliver" THEN <<mq[r]>> ELSE <<>>) \o queue[r]

\* How much of its room's log has reached a receiver: all of it, but for a
\* broadcast that has not come to it yet.
Reached(r) ==
  LET m == room[r]
  IN IF lock[m] # Free /\ r \notin visited[lock[m]] THEN Len(log[m]) - 1 ELSE Len(log[m])

\* What a receiver has been given and what waits for it is the part of its
\* room's log since it joined: in the order of the room, nothing twice,
\* nothing left out, nothing from before it was a member.
StreamIsRoomLog ==
  \A r \in Receivers :
    Served(r) =>
      delivered[r] \o Pending(r) = SubSeq(log[room[r]], start[r] + 1, Reached(r))

\* When a sender is told "message sent", every receiver that was in the room
\* when it was sent and is still served has the message, or will find it on
\* its queue.
SentMeansQueued ==
  \A s \in Senders, r \in Receivers :
    (pc[s] = "reply" /\ answer[s] = "message sent" /\ Served(r) /\ room[r] = room[s]) =>
      LET said == log[room[s]]
          stream == delivered[r] \o Pending(r)
      IN \A i \in start[r] + 1 .. Len(said) :
           said[i] = <<s, served[s]>> => \E j \in 1..Len(stream) : stream[j] = said[i]

\* The next message for a receiver is one that cannot be delivered.
NextTooLong(r) ==
  LET said == log[room[r]]
      next == start[r] + Len(delivered[r]) + 1
  IN next <= Len(said) /\ said[next] \in TooLong

\* A receiver is taken out of its room only when its connection is reset, or just
\* before the first message of its room that is too long to be delivered: no
\* failure of another client, and no slowness of its own, drops it.
OnlyTheLostAreRemoved ==
  [][\A m \in Rooms : \A r \in members[m] \ members'[m] :
       conn[r] = "down" \/ NextTooLong(r)]_vars

\* Threads, locks and queues together are one conversation per name, read in
\* the same order by everyone who has joined it.
Broadcast == INSTANCE RoomBroadcast WITH
  Message <- Messages,
  Nowhere <- NoName,
  conversation <- [n \in RoomNames |-> IF m_rooms[n] = NoRoom THEN <<>> ELSE log[m_rooms[n]]],
  joined <- [r \in Receivers |-> IF room[r] = NoRoom \/ pc[r] = "add" THEN NoName ELSE room[r][1]]

ImplementsRoomBroadcast == Broadcast!Spec

\* Everything said in its room after it joined is written to a receiver whose
\* client keeps reading: while it is in its loop it is never left behind for
\* good.
EveryMessageDelivered ==
  \A r \in Receivers :
    []<>(Served(r) /\ conn[r] = "up" =>
           delivered[r] = SubSeq(log[room[r]], start[r] + 1, Len(log[room[r]])))

\* Whoever waits for a mutex gets it, and a broadcast comes to its end, even if
\* receivers stop reading for ever: nobody blocks on a client while it holds a
\* lock, and nobody waits in a circle ("This prevents deadlocks").
EveryLockGranted ==
  \A c \in Clients :
    LET waits == pc[c] \in {"find", "create", "add", "remove", "broadcast", "iterate", "post"}
    IN waits ~> ~waits

\* A receiver whose connection is reset, as it is by the first message written
\* after it has gone, is noticed when there is a message for it: its User leaves
\* the room and is freed.
LostReceiverReclaimed ==
  \A r \in Receivers :
    (conn[r] = "down" /\ Served(r) /\ pc[r] # "welcome" /\ Pending(r) # <<>>)
      ~> heap[r] = "freed"

\* README.txt of the server says the guards make the members "accurately
\* track all the receivers in the room": no member is without its worker.
RoomTracksReceivers ==
  \A m \in Rooms : \A r \in members[m] : pc[r] # "done"

\* "free everything in client": the worker of a sender that has gone ends.
LostSenderReclaimed ==
  \A s \in Senders : (~Present(s) /\ pc[s] = "request") ~> pc[s] = "done"
=============================================================================
