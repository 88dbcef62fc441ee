---------------------------- MODULE SessionProofs ----------------------------
(***************************************************************************)
(* What holds of sessions for any addresses, names, lengths and inputs:    *)
(* start-up, types and bytes first; then what client and worker know of    *)
(* each other: that replies are never taken for those of other requests,   *)
(* and that what a receiver shows is what was given to its worker.         *)
(***************************************************************************)
EXTENDS Session, ConnectionProofs, TLAPS

-----------------------------------------------------------------------------
(* Start-up                                                                  *)

Calls == {"getaddrinfo", "socket", "try", "close", "listen", "open", "failed", "close failed"}

\* The addresses and descriptors that go with a call.
Fits(call, a, n) ==
  /\ call \in Calls /\ a \in 0..MaxAddresses /\ n \in 0..1
  /\ call \in {"open", "listen", "try", "close"} => n = 1
  /\ call \in {"getaddrinfo", "socket", "failed"} => n = 0
  /\ call \in {"try", "close"} => a > 0

\* Not inductive without the addresses: whoever closes a socket goes on to the
\* next address, so there has to be one it has tried.
SocketsInv ==
  /\ at \in [Programs -> Calls]
  /\ addrs \in [Programs -> 0..MaxAddresses]
  /\ fds \in [Programs -> 0..1]
  /\ \A p \in Programs : Fits(at[p], addrs[p], fds[p])

\* At the start no program has a descriptor.
LEMMA SocketsInitially ==
  InitSockets => SocketsInv
BY AddressesAssumption DEF InitSockets, SocketsInv, Calls, Fits, Programs

\* The invariant gives the property.
LEMMA InvGivesDescriptors ==
  SocketsInv => SocketsOK /\ NoStrayDescriptors
BY DEF SocketsInv, SocketsOK, NoStrayDescriptors, Calls, Fits

\* Program p comes to a call, with so many addresses and descriptors.
Moves(p, call, a, n) ==
  /\ at' = [at EXCEPT ![p] = call]
  /\ addrs' = [addrs EXCEPT ![p] = a]
  /\ fds' = [fds EXCEPT ![p] = n]

\* A step of one program leaves the other's descriptors alone.
LEMMA OneProgramMoves ==
  ASSUME SocketsInv, NEW p \in Programs, NEW call, NEW a, NEW n,
         Fits(call, a, n), Moves(p, call, a, n)
  PROVE  SocketsInv'
<1>1. /\ at' \in [Programs -> Calls]
      /\ addrs' \in [Programs -> 0..MaxAddresses]
      /\ fds' \in [Programs -> 0..1]
  BY DEF SocketsInv, Moves, Fits
<1>2. ASSUME NEW q \in Programs PROVE Fits(at'[q], addrs'[q], fds'[q])
  <2>1. CASE q = p
    BY <2>1 DEF SocketsInv, Moves
  <2>2. CASE q # p
    <3>1. at'[q] = at[q] /\ addrs'[q] = addrs[q] /\ fds'[q] = fds[q]
      BY <2>2 DEF SocketsInv, Moves
    <3> QED
      BY <3>1 DEF SocketsInv
  <2> QED
    BY <2>1, <2>2
<1> QED
  BY <1>1, <1>2 DEF SocketsInv

\* Every call of open_clientfd and open_listenfd, of either program.
LEMMA OpenStepKeepsSocketsInv ==
  ASSUME SocketsInv, NEW p \in Programs, OpenStep(p)
  PROVE  SocketsInv'
<1>1. Fits(at[p], addrs[p], fds[p])
  BY DEF SocketsInv
<1>addrs. addrs[p] \in 0..MaxAddresses
  BY DEF SocketsInv
<1>2. /\ UNCHANGED at => at' = [at EXCEPT ![p] = at[p]]
      /\ UNCHANGED addrs => addrs' = [addrs EXCEPT ![p] = addrs[p]]
      /\ UNCHANGED fds => fds' = [fds EXCEPT ![p] = fds[p]]
  BY DEF SocketsInv
<1>3. MaxAddresses \in Nat /\ 0 \in 0..MaxAddresses
  BY AddressesAssumption
<1>4. CASE Lookup(p)
  <2>1. fds[p] = 0
    BY <1>1, <1>4 DEF Lookup, Fits
  <2>2. CASE Goto(p, "failed") /\ UNCHANGED addrs
    <3>1. Moves(p, "failed", addrs[p], 0)
      BY <1>2, <1>4, <2>1, <2>2 DEF Lookup, Goto, Moves
    <3>2. Fits("failed", addrs[p], 0)
      BY <1>addrs DEF Fits, Calls
    <3> QED
      BY <3>1, <3>2, OneProgramMoves
  <2>3. CASE Goto(p, "socket") /\ \E n \in 1..MaxAddresses : addrs' = [addrs EXCEPT ![p] = n]
    <3>1. PICK n \in 1..MaxAddresses : addrs' = [addrs EXCEPT ![p] = n]
      BY <2>3
    <3>2. Moves(p, "socket", n, 0)
      BY <1>2, <1>4, <2>1, <2>3, <3>1 DEF Lookup, Goto, Moves
    <3>3. Fits("socket", n, 0)
      BY <1>3 DEF Fits, Calls
    <3> QED
      BY <3>2, <3>3, OneProgramMoves
  <2> QED
    BY <1>4, <2>2, <2>3 DEF Lookup
<1>5. CASE OpenSocket(p)
  <2>1. fds[p] = 0
    BY <1>1, <1>5 DEF OpenSocket, Fits
  <2>2. CASE addrs[p] = 0 /\ Goto(p, "failed") /\ UNCHANGED <<addrs, fds>>
    <3>1. Moves(p, "failed", addrs[p], 0)
      BY <1>2, <2>1, <2>2 DEF Goto, Moves
    <3>2. Fits("failed", addrs[p], 0)
      BY <1>addrs DEF Fits, Calls
    <3> QED
      BY <3>1, <3>2, OneProgramMoves
  <2>3. CASE addrs[p] > 0 /\ NextAddress(p) /\ UNCHANGED <<at, fds>>
    <3>1. addrs[p] - 1 \in 0..MaxAddresses
      BY <1>addrs, <1>3, <2>3
    <3>2. Moves(p, "socket", addrs[p] - 1, 0)
      BY <1>1, <1>2, <1>5, <2>1, <2>3 DEF OpenSocket, NextAddress, Moves
    <3>3. Fits("socket", addrs[p] - 1, 0)
      BY <3>1, <1>3 DEF Fits, Calls
    <3> QED
      BY <3>2, <3>3, OneProgramMoves
  <2>4. CASE addrs[p] > 0 /\ Goto(p, "try") /\ Holding(p, fds[p] + 1) /\ UNCHANGED addrs
    <3>1. Moves(p, "try", addrs[p], 1)
      BY <1>2, <2>1, <2>4 DEF Goto, Holding, Moves
    <3>2. Fits("try", addrs[p], 1)
      BY <1>addrs, <2>4 DEF Fits, Calls
    <3> QED
      BY <3>1, <3>2, OneProgramMoves
  <2> QED
    BY <1>5, <2>2, <2>3, <2>4 DEF OpenSocket
<1>6. CASE Try(p)
  <2>1. fds[p] = 1 /\ addrs[p] > 0 /\ UNCHANGED fds
    BY <1>1, <1>6 DEF Try, Fits
  <2>2. CASE Goto(p, "open") /\ Free(p)
    <3>1. Moves(p, "open", 0, 1)
      BY <1>2, <2>1, <2>2 DEF Goto, Free, Moves
    <3>2. Fits("open", 0, 1)
      BY <1>3 DEF Fits, Calls
    <3> QED
      BY <3>1, <3>2, OneProgramMoves
  <2>3. CASE Goto(p, "listen") /\ Free(p)
    <3>1. Moves(p, "listen", 0, 1)
      BY <1>2, <2>1, <2>3 DEF Goto, Free, Moves
    <3>2. Fits("listen", 0, 1)
      BY <1>3 DEF Fits, Calls
    <3> QED
      BY <3>1, <3>2, OneProgramMoves
  <2>4. CASE Goto(p, "close") /\ UNCHANGED addrs
    <3>1. Moves(p, "close", addrs[p], 1)
      BY <1>2, <2>1, <2>4 DEF Goto, Moves
    <3>2. Fits("close", addrs[p], 1)
      BY <1>addrs, <2>1 DEF Fits, Calls
    <3> QED
      BY <3>1, <3>2, OneProgramMoves
  <2> QED
    BY <1>6, <2>2, <2>3, <2>4 DEF Try
<1>7. CASE CloseTried(p)
  <2>1. fds[p] = 1 /\ addrs[p] > 0
    BY <1>1, <1>7 DEF CloseTried, Fits
  <2>2. CASE Goto(p, "socket") /\ NextAddress(p) /\ Holding(p, fds[p] - 1)
    <3>1. addrs[p] - 1 \in 0..MaxAddresses
      BY <1>addrs, <1>3, <2>1
    <3>2. Moves(p, "socket", addrs[p] - 1, 0)
      BY <2>1, <2>2 DEF Goto, NextAddress, Holding, Moves, SocketsInv
    <3>3. Fits("socket", addrs[p] - 1, 0)
      BY <3>1, <1>3 DEF Fits, Calls
    <3> QED
      BY <3>2, <3>3, OneProgramMoves
  <2>3. CASE /\ Goto(p, "close failed") /\ UNCHANGED addrs
             /\ \E n \in {fds[p] - 1, fds[p]} : Holding(p, n)
    <3>0. fds[p] - 1 = 0
      BY <2>1
    <3>1. PICK n \in {0, 1} : Holding(p, n)
      BY <2>1, <2>3, <3>0, Zenon
    <3>2. Moves(p, "close failed", addrs[p], n)
      BY <1>2, <2>3, <3>1 DEF Goto, Holding, Moves
    <3>3. Fits("close failed", addrs[p], n)
      BY <1>addrs DEF Fits, Calls
    <3> QED
      BY <3>2, <3>3, OneProgramMoves
  <2> QED
    BY <1>7, <2>2, <2>3 DEF CloseTried
<1>8. CASE Listen(p)
  <2>1. fds[p] = 1 /\ UNCHANGED addrs
    BY <1>1, <1>8 DEF Listen, Fits
  <2>2. CASE Goto(p, "open") /\ UNCHANGED fds
    <3>1. Moves(p, "open", addrs[p], 1)
      BY <1>2, <2>1, <2>2 DEF Goto, Moves
    <3>2. Fits("open", addrs[p], 1)
      BY <1>addrs DEF Fits, Calls
    <3> QED
      BY <3>1, <3>2, OneProgramMoves
  <2>3. CASE Goto(p, "failed") /\ Holding(p, fds[p] - 1)
    <3>1. Moves(p, "failed", addrs[p], 0)
      BY <1>2, <2>1, <2>3 DEF Goto, Holding, Moves
    <3>2. Fits("failed", addrs[p], 0)
      BY <1>addrs DEF Fits, Calls
    <3> QED
      BY <3>1, <3>2, OneProgramMoves
  <2>4. CASE CloseFails(p)
    <3>0. fds[p] - 1 = 0
      BY <2>1
    <3>1. PICK n \in {0, 1} : Holding(p, n)
      BY <2>1, <2>4, <3>0, Zenon DEF CloseFails
    <3>2. Moves(p, "close failed", addrs[p], n)
      BY <1>2, <2>1, <2>4, <3>1 DEF CloseFails, Goto, Holding, Moves
    <3>3. Fits("close failed", addrs[p], n)
      BY <1>addrs DEF Fits, Calls
    <3> QED
      BY <3>2, <3>3, OneProgramMoves
  <2> QED
    BY <1>8, <2>2, <2>3, <2>4 DEF Listen
<1> QED
  BY <1>4, <1>5, <1>6, <1>7, <1>8 DEF OpenStep

-----------------------------------------------------------------------------
(* Nothing but start-up touches the sockets.                                 *)

\* What a client does after connecting opens and closes no descriptor.
LEMMA ClientLeavesSockets ==
  ASSUME ClientSteps \/ ClientEnds \/ \E input \in Inputs : Type(input)
  PROVE  UNCHANGED sockets
<1>1. CASE Connected \/ NotConnected
  BY <1>1 DEF Connected, NotConnected
<1>2. ASSUME NEW msg, Request(msg) PROVE UNCHANGED sockets
  BY <1>2 DEF Request
<1>3. CASE Login \/ Join
  BY <1>2, <1>3 DEF Login, Join
<1>4. CASE Sent \/ Reply \/ Chat
  BY <1>4 DEF Sent, Reply, Chat
<1>5. CASE NothingReceived \/ ClientEnds
  BY <1>5 DEF NothingReceived, ClientEnds
<1>6. CASE \E input \in Inputs : Type(input)
  BY <1>2, <1>6 DEF Type
<1> QED
  BY <1>1, <1>3, <1>4, <1>5, <1>6 DEF ClientSteps

\* What a worker does opens and closes no descriptor.
LEMMA WorkerLeavesSockets ==
  ASSUME WorkerSteps \/ WorkerEnds \/ \E u \in Names, t \in Texts : Broadcast(u, t)
  PROVE  UNCHANGED sockets
<1>1. CASE Accept \/ LoginRead \/ LoginFailed \/ Greeted
  BY <1>1 DEF Accept, LoginRead, LoginFailed, Greeted
<1>2. CASE JoinRead \/ Welcomed \/ Deliver \/ DeliverFailed
  BY <1>2 DEF JoinRead, Welcomed, Deliver, DeliverFailed
<1>3. CASE Serve
  BY <1>3 DEF Serve, ServeJoin, ServeSendall, ServeLeave, ServeQuit, ServeOther
<1>4. CASE NothingRead \/ GiveUp \/ WorkerEnds
  BY <1>4 DEF NothingRead, GiveUp, WorkerEnds
<1>5. CASE \E u \in Names, t \in Texts : Broadcast(u, t)
  BY <1>5 DEF Broadcast
<1> QED
  BY <1>1, <1>2, <1>3, <1>4, <1>5 DEF WorkerSteps

\* Along every session, descriptors and addresses go with the call.
THEOREM SocketsAlways ==
  Spec => []SocketsInv
<1>1. SessionInit => SocketsInv
  BY SocketsInitially DEF SessionInit
<1>2. ASSUME SocketsInv, [Next]_vars PROVE SocketsInv'
  <2>1. ASSUME UNCHANGED sockets PROVE SocketsInv'
    BY <1>2, <2>1 DEF sockets, SocketsInv
  <2>2. CASE Start
    BY <1>2, <2>2, OpenStepKeepsSocketsInv DEF Start, ListenStep, ConnectStep, Programs
  <2>3. CASE ClientSteps \/ ClientEnds \/ \E input \in Inputs : Type(input)
    BY <2>1, <2>3, ClientLeavesSockets
  <2>4. CASE WorkerSteps \/ WorkerEnds \/ \E u \in Names, t \in Texts : Broadcast(u, t)
    BY <2>1, <2>4, WorkerLeavesSockets
  <2>5. CASE \E d \in Links : Progress(d)
    BY <2>1, <2>5 DEF Progress
  <2>6. CASE UNCHANGED vars
    BY <2>1, <2>6 DEF vars
  <2> QED
    BY <1>2, <2>2, <2>3, <2>4, <2>5, <2>6 DEF Next
<1> QED
  BY <1>1, <1>2, PTL DEF Spec

\* A program that gets through holds one descriptor and one that gives up
\* holds none, for any number of addresses that refuse.
THEOREM NoStrayDescriptorsAlways ==
  Spec => []NoStrayDescriptors
BY SocketsAlways, InvGivesDescriptors, PTL

-----------------------------------------------------------------------------
(* What the client and the worker do to their connection                     *)

ArgumentsOK ==
  program \in {"sender", "receiver"} /\ name \in Seq(Chars) /\ room \in Seq(Chars)

PeersOK ==
  /\ client \in ClientStates /\ worker \in WorkerStates
  /\ user_room \in Seq(Chars)
  /\ mqueue \in Seq(Messages) /\ given \in Seq(Messages) /\ Len(mqueue) <= Len(given)

\* At most one line has been received and not yet been handled.
CountsOK ==
  /\ handled \in [Links -> Nat]
  /\ \A d \in Links : handled[d] <= Len(received[d]) /\ Len(received[d]) <= handled[d] + 1

\* As long as the client has not connected there is no worker, and no byte.
NotConnectedYet ==
  client = "connect" =>
    /\ worker = "none"
    /\ \A e \in Ends : ~open[e]
    /\ \A d \in Links :
         /\ sent[d] = <<>> /\ left[d] = <<>> /\ wire[d] = <<>>
         /\ rio_buf[d] = <<>> /\ usrbuf[d] = <<>> /\ received[d] = <<>>

SessionInv ==
  ConnectionInv /\ ArgumentsOK /\ PeersOK /\ CountsOK /\ NotConnectedYet

\* The two links, and their ends.
LEMMA TwoLinks ==
  /\ Up \in Links /\ Down \in Links /\ \A d \in Links : d = Up \/ d = Down
  /\ "client" \in Ends /\ "worker" \in Ends
  /\ Up[1] = "client" /\ Up[2] = "worker" /\ Down[1] = "worker" /\ Down[2] = "client"
BY SessionAssumption DEF Up, Down, Ends

\* Any word and any data make a message.
LEMMA MessageTyped ==
  ASSUME NEW word \in Words, NEW data \in Seq(Chars)
  PROVE  Message(word, data) \in Messages
BY SessionAssumption DEF Message, Messages

\* The replies.
LEMMA RepliesTyped ==
  OK \in Messages /\ ERR \in Messages /\ NoRoom \in Seq(Chars)
<1>1. "NULL" \in Chars /\ "ok" \in Words /\ "err" \in Words
  BY SessionAssumption DEF Words, Chars
<1>2. <<>> \in Seq(Chars) /\ <<"NULL">> \in Seq(Chars)
  BY <1>1, EmptySeq
<1> QED BY <1>1, <1>2, MessageTyped DEF OK, ERR, NoRoom

\* What the client makes of a command is a message.
LEMMA CommandTyped ==
  ASSUME NEW input \in Seq(Chars), ~Throws(input)
  PROVE  Command(input) \in Messages
<1>1. {"join", "leave", "quit", "sendall"} \subseteq Words /\ "ignored" \in Chars
  BY SessionAssumption DEF Words, Chars
<1>2. <<"ignored">> \in Seq(Chars) /\ <<>> \in Seq(Chars)
  BY <1>1, EmptySeq
<1>3. SubSeq(input, 4, Len(input)) \in Seq(Chars)
  <2>1. Len(input) \in 0..Len(input)
    BY LenProperties
  <2> QED BY <2>1, PieceTyped
<1>4. /\ Message("join", SubSeq(input, 4, Len(input))) \in Messages
      /\ Message("leave", <<"ignored">>) \in Messages
      /\ Message("quit", <<>>) \in Messages
      /\ Message("sendall", input) \in Messages
  BY <1>1, <1>2, <1>3, MessageTyped
<1> QED BY <1>4 DEF Command

\* The greatest of some positions is one of them.
LEMMA LastInside ==
  ASSUME NEW n \in Nat, NEW I \in SUBSET (1..n), I # {}
  PROVE  Max(I) \in I
<1>1. PICK k \in I : \A i \in I : i <= k
  <2> DEFINE T == {m \in Nat : \E i \in I : m = n - i}
  <2>1. PICK j \in I : TRUE
    OBVIOUS
  <2>2. n - j \in T
    BY <2>1
  <2>3. PICK m \in T : \A l \in T : m <= l
    <3> HIDE DEF T
    <3>1. T \in SUBSET Nat
      BY DEF T
    <3> QED BY <2>2, <3>1, LeastElement
  <2>4. PICK k \in I : m = n - k
    BY <2>3
  <2>5. ASSUME NEW i \in I PROVE i <= k
    <3>1. n - i \in T
      OBVIOUS
    <3>2. m <= n - i
      BY <2>3, <3>1
    <3> QED BY <2>4, <3>2
  <2> QED BY <2>5
<1> QED BY <1>1 DEF Max

\* rtrim gives a string.
LEMMA TrimTyped ==
  ASSUME NEW s \in Seq(Chars)
  PROVE  rtrim(s) \in Seq(Chars)
<1>1. PICK n \in Nat : n = Len(s)
  BY LenProperties
<1>2. PICK I \in SUBSET (1..n) : I = {i \in 1..n : s[i] \notin WHITESPACE}
  OBVIOUS
<1>3. PICK m : m = IF I # {} THEN Max(I) ELSE 0
  OBVIOUS
<1>4. rtrim(s) = SubSeq(s, 1, m)
  BY <1>1, <1>2, <1>3 DEF rtrim, SelectLastInSeq
<1>5. m \in 0..n
  <2>1. I # {} => Max(I) \in 1..n
    BY LastInside
  <2>2. m = 0 \/ m \in 1..n
    BY <1>3, <2>1
  <2> QED BY <2>2
<1> QED BY <1>1, <1>4, <1>5, PieceTyped

\* What is said in a room is a message for all its receivers.
LEMMA DeliveryTyped ==
  ASSUME NEW r \in Seq(Chars), NEW u \in Seq(Chars), NEW t \in Seq(Chars)
  PROVE  Message("delivery", rtrim(r) \o <<Colon>> \o rtrim(u) \o <<Colon>> \o rtrim(t)) \in Messages
<1>1. PICK a \in Seq(Chars), b \in Seq(Chars), c \in Seq(Chars), k \in Seq(Chars) :
        a = rtrim(r) /\ b = rtrim(u) /\ c = rtrim(t) /\ k = <<Colon>>
  <2>1. <<Colon>> \in Seq(Chars)
    BY DEF Chars
  <2> QED BY <2>1, TrimTyped
<1>2. PICK x \in Seq(Chars) : x = a \o k
  BY ConcatProperties
<1>3. PICK y \in Seq(Chars) : y = x \o b
  BY ConcatProperties
<1>4. PICK z \in Seq(Chars) : z = y \o k
  BY ConcatProperties
<1>5. z \o c \in Seq(Chars)
  BY ConcatProperties
<1>6. "delivery" \in Words
  BY DEF Words
<1> QED BY <1>1, <1>2, <1>3, <1>4, <1>5, <1>6, MessageTyped

-----------------------------------------------------------------------------
(* The steps of a session                                                    *)

\* Of a step: it is one of the connection or leaves it alone, and what the
\* client and the worker keep has its type and its number after it.
SessionStep ==
  /\ ConnectionStep \/ UNCHANGED connections
  /\ PeersOK' /\ CountsOK' /\ UNCHANGED arguments
  /\ client' # "connect"

\* Such a step keeps the invariant.
LEMMA SessionStepKeeps ==
  ASSUME SessionInv, SessionStep
  PROVE  SessionInv'
<1>1. ConnectionInv'
  <2>1. CASE ConnectionStep
    BY <2>1, ConnectionStepKeeps DEF SessionInv
  <2>2. CASE UNCHANGED connections
    <3>1. m_last_result' \in [Ends -> Results]
      BY <2>2 DEF connections, SessionInv, ConnectionInv, ConnectionTypes
    <3> QED BY <2>2, <3>1, NothingMoved DEF connections, SessionInv
  <2> QED BY <2>1, <2>2 DEF SessionStep
<1> QED BY <1>1 DEF SessionStep, SessionInv, ArgumentsOK, arguments, NotConnectedYet

\* The lines received, and how many of them were handled.
LEMMA CountsTyped ==
  ASSUME SessionInv, NEW d \in Links
  PROVE  /\ handled[d] \in Nat /\ Len(received[d]) \in Nat /\ received[d] \in Seq(Seq(Chars))
         /\ handled[d] <= Len(received[d]) /\ Len(received[d]) <= handled[d] + 1
<1>1. received[d] \in Seq(Seq(Chars))
  BY LinkTypes DEF SessionInv, ConnectionInv
<1> QED BY <1>1, LenProperties DEF SessionInv, CountsOK

\* Nothing is received or handled.
LEMMA CountsStay ==
  ASSUME SessionInv, UNCHANGED <<handled, received>>
  PROVE  CountsOK'
BY DEF SessionInv, CountsOK

\* What has been received is handled.
LEMMA CountsTake ==
  ASSUME SessionInv, NEW d \in Links, Waiting(d), Take(d), UNCHANGED received
  PROVE  CountsOK'
<1>1. handled \in [Links -> Nat] /\ handled' = [handled EXCEPT ![d] = @ + 1]
  BY DEF SessionInv, CountsOK, Take
<1>2. handled' \in [Links -> Nat]
  BY <1>1
<1>3. ASSUME NEW e \in Links
      PROVE  handled'[e] <= Len(received'[e]) /\ Len(received'[e]) <= handled'[e] + 1
  <2>1. CASE e = d
    BY <1>1, <2>1, CountsTyped DEF Waiting
  <2>2. CASE e # d
    BY <1>1, <2>2, CountsTyped
  <2> QED BY <2>1, <2>2
<1> QED BY <1>2, <1>3 DEF CountsOK

\* receive has returned a line to who waits for one.
LEMMA CountsReceive ==
  ASSUME SessionInv, NEW d \in Links, ~Waiting(d), UNCHANGED handled,
         NEW line \in Seq(Chars), received' = [received EXCEPT ![d] = Append(@, line)]
  PROVE  CountsOK'
<1>1. received \in [Links -> Seq(Seq(Chars))]
  BY DEF SessionInv, ConnectionInv, ConnectionTypes
<1>2. ASSUME NEW e \in Links
      PROVE  handled'[e] <= Len(received'[e]) /\ Len(received'[e]) <= handled'[e] + 1
  <2>1. CASE e = d
    <3>1. received'[e] = Append(received[d], line)
      BY <1>1, <2>1
    <3>2. Len(received'[e]) = Len(received[d]) + 1
      BY <3>1, CountsTyped, OneMoreLine
    <3> QED BY <2>1, <3>2, CountsTyped DEF Waiting
  <2>2. CASE e # d
    BY <1>1, <2>2, CountsTyped
  <2> QED BY <2>1, <2>2
<1> QED BY <1>2 DEF SessionInv, CountsOK

\* The data of the message that is being handled.
LEMMA NextTyped ==
  ASSUME SessionInv, NEW d \in Links, Waiting(d)
  PROVE  NextMessage(d).data \in Seq(Chars)
<1>1. received[d][handled[d] + 1] \in Seq(Chars)
  <2>1. handled[d] + 1 \in 1..Len(received[d])
    BY CountsTyped DEF Waiting
  <2> QED BY <2>1, CountsTyped, ElementOfSeq
<1> QED BY <1>1, ParseTyped DEF NextMessage

\* A call of send is a step of the connection that receives nothing.
LEMMA SendIsStep ==
  ASSUME NEW d \in Links, NEW msg \in Messages, Send(d, msg) \/ SendRefused(d, msg)
  PROVE  ConnectionStep /\ UNCHANGED received
BY DEF ConnectionStep, LinkStep, Send, SendRefused, reading

\* The program goes on somewhere, and not at its beginning.
LEMMA ProceedTyped ==
  ASSUME NEW tag, NEW ok
  PROVE  Proceed(tag, ok) \in ClientStates /\ Proceed(tag, ok) # "connect"
<1>1. Proceed(tag, ok) \in {"prompt", "close", "join", "chat"}
  <2>1. CASE tag = <<"slogin">>
    BY <2>1 DEF Proceed
  <2>2. CASE tag # <<"slogin">> /\ tag = <<"rlogin">>
    BY <2>2 DEF Proceed
  <2>3. CASE tag # <<"slogin">> /\ tag # <<"rlogin">>
    BY <2>3 DEF Proceed
  <2> QED BY <2>1, <2>2, <2>3
<1> QED BY <1>1 DEF ClientStates

\* A request.
LEMMA RequestIsStep ==
  ASSUME SessionInv, NEW msg \in Messages, Request(msg)
  PROVE  SessionStep
<1>1. ConnectionStep /\ UNCHANGED received
  BY SendIsStep, TwoLinks DEF Request
<1>2. client' \in ClientStates /\ client' # "connect"
  BY ProceedTyped DEF Request, ClientStates
<1>3. UNCHANGED <<arguments, worker, user_room, mqueue, handled, given>>
  BY DEF Request, histories
<1>4. PeersOK'
  BY <1>2, <1>3 DEF SessionInv, PeersOK
<1>5. CountsOK'
  BY <1>1, <1>3, CountsStay
<1> QED BY <1>1, <1>2, <1>3, <1>4, <1>5 DEF SessionStep

\* What the client does, once it has connected.
LEMMA ClientIsStep ==
  ASSUME SessionInv, ClientSteps \/ ClientEnds \/ \E input \in Inputs : Type(input)
  PROVE  SessionStep
<1>0. /\ ArgumentsOK /\ PeersOK /\ CountsOK
  BY DEF SessionInv
<1>1. CASE Connected
  <2>1. ConnectionStep /\ UNCHANGED received
    BY <1>1 DEF Connected, SessionInv, NotConnectedYet, ConnectionStep, Opened, reading
  <2>2. PeersOK' /\ UNCHANGED <<arguments, handled>> /\ client' # "connect"
    BY <1>0, <1>1 DEF Connected, PeersOK, ClientStates, WorkerStates, histories
  <2> QED BY <2>1, <2>2, CountsStay DEF SessionStep
<1>2. CASE NotConnected
  <2>1. UNCHANGED <<connections, received, arguments, handled>>
    BY <1>2 DEF NotConnected, connections, reading
  <2>2. PeersOK' /\ client' # "connect"
    BY <1>0, <1>2 DEF NotConnected, PeersOK, ClientStates, WorkerStates, histories
  <2> QED BY <2>1, <2>2, CountsStay DEF SessionStep
<1>3. CASE Login
  <2>1. Message(IF program = "sender" THEN "slogin" ELSE "rlogin", name) \in Messages
    BY <1>0, MessageTyped DEF ArgumentsOK, Words
  <2> QED BY <1>3, <2>1, RequestIsStep DEF Login
<1>4. CASE Join
  <2>1. Message("join", room) \in Messages
    BY <1>0, MessageTyped DEF ArgumentsOK, Words
  <2> QED BY <1>4, <2>1, RequestIsStep DEF Join
<1>5. CASE Sent
  <2>1. UNCHANGED <<connections, received, arguments, worker, user_room, mqueue, handled, given>>
    BY <1>5 DEF Sent, connections, reading, histories
  <2>2. client' \in ClientStates /\ client' # "connect"
    BY <1>5, ProceedTyped DEF Sent, ClientStates
  <2> QED BY <1>0, <2>1, <2>2, CountsStay DEF SessionStep, PeersOK
<1>6. CASE Reply
  <2>1. UNCHANGED <<connections, received, arguments, worker, user_room, mqueue, given>>
    BY <1>6 DEF Reply, connections, reading
  <2>2. client' \in ClientStates /\ client' # "connect"
    BY <1>6, ProceedTyped DEF Reply
  <2>3. CountsOK'
    BY <1>6, <2>1, CountsTake, TwoLinks DEF Reply
  <2> QED BY <1>0, <2>1, <2>2, <2>3 DEF SessionStep, PeersOK
<1>7. CASE Chat
  <2>1. UNCHANGED <<connections, received, arguments, worker, user_room, mqueue, given>>
    BY <1>7 DEF Chat, connections, reading
  <2>2. client' \in ClientStates /\ client' # "connect"
    BY <1>7 DEF Chat, ClientStates
  <2>3. CountsOK'
    BY <1>7, <2>1, CountsTake, TwoLinks DEF Chat
  <2> QED BY <1>0, <2>1, <2>2, <2>3 DEF SessionStep, PeersOK
<1>8. CASE NothingReceived
  <2>1. ConnectionStep /\ UNCHANGED received
    BY <1>8, TwoLinks DEF NothingReceived, ConnectionStep, LinkStep, Transfer, ReceiveFails
  <2>2. client' \in ClientStates /\ client' # "connect"
    BY <1>8, ProceedTyped DEF NothingReceived, ClientStates
  <2>3. UNCHANGED <<arguments, worker, user_room, mqueue, handled, given>>
    BY <1>8 DEF NothingReceived, histories
  <2> QED BY <1>0, <2>1, <2>2, <2>3, CountsStay DEF SessionStep, PeersOK
<1>9. CASE ClientEnds
  <2>1. ConnectionStep /\ UNCHANGED received
    BY <1>9, TwoLinks DEF ClientEnds, ConnectionStep, Close, reading
  <2>2. PeersOK' /\ UNCHANGED <<arguments, handled>> /\ client' # "connect"
    BY <1>0, <1>9 DEF ClientEnds, PeersOK, ClientStates, histories
  <2> QED BY <2>1, <2>2, CountsStay DEF SessionStep
<1>10. ASSUME NEW input \in Inputs, Type(input) PROVE SessionStep
  <2>1. input \in Seq(Chars)
    BY SessionAssumption
  <2>2. CASE Throws(input)
    <3>1. UNCHANGED <<connections, received, arguments, handled>>
      BY <1>10, <2>2 DEF Type, connections, reading
    <3>2. PeersOK' /\ client' # "connect"
      BY <1>0, <1>10, <2>2 DEF Type, PeersOK, ClientStates, histories
    <3> QED BY <3>1, <3>2, CountsStay DEF SessionStep
  <2>3. CASE ~Throws(input)
    BY <1>10, <2>1, <2>3, CommandTyped, RequestIsStep DEF Type
  <2> QED BY <2>2, <2>3
<1> QED BY <1>1, <1>2, <1>3, <1>4, <1>5, <1>6, <1>7, <1>8, <1>9, <1>10 DEF ClientSteps

\* Before the client has connected nothing but start-up happens.
LEMMA WorkerComesLater ==
  ASSUME SessionInv, worker # "none" \/ (\E d \in Links : left[d] # <<>>) \/ \E e \in Ends : open[e]
  PROVE  client # "connect"
BY DEF SessionInv, NotConnectedYet

\* A reply, or a delivery, is a step of the connection.
LEMMA AnswerIsStep ==
  ASSUME NEW msg \in Messages, Answer(msg)
  PROVE  ConnectionStep /\ UNCHANGED received
BY SendIsStep, TwoLinks DEF Answer

\* What the worker does before it serves.
LEMMA WorkerStartsIsStep ==
  ASSUME SessionInv,
         Accept \/ LoginRead \/ LoginFailed \/ Greeted \/ JoinRead \/ Welcomed \/ NothingRead \/ GiveUp
  PROVE  SessionStep
<1>0. PeersOK
  BY DEF SessionInv
<1>1. CASE Accept
  <2>1. UNCHANGED <<connections, received, arguments, handled>>
    BY <1>1 DEF Accept, connections, reading
  <2>2. PeersOK' /\ client' # "connect"
    BY <1>0, <1>1, WorkerComesLater DEF Accept, PeersOK, WorkerStates, histories
  <2> QED BY <2>1, <2>2, CountsStay DEF SessionStep
<1>2. CASE LoginRead
  <2>1. ConnectionStep /\ UNCHANGED received
    BY <1>2, AnswerIsStep, RepliesTyped DEF LoginRead
  <2>2. PeersOK' /\ client' # "connect" /\ UNCHANGED arguments
    BY <1>0, <1>2, WorkerComesLater DEF LoginRead, Idle, PeersOK, WorkerStates, histories
  <2>3. CountsOK'
    BY <1>2, <2>1, CountsTake, TwoLinks DEF LoginRead
  <2> QED BY <2>1, <2>2, <2>3 DEF SessionStep
<1>3. CASE LoginFailed
  <2>1. ConnectionStep /\ UNCHANGED received
    BY <1>3, AnswerIsStep, RepliesTyped DEF LoginFailed
  <2>2. PeersOK' /\ client' # "connect" /\ UNCHANGED <<arguments, handled>>
    BY <1>0, <1>3, WorkerComesLater DEF LoginFailed, Idle, PeersOK, WorkerStates, histories
  <2> QED BY <2>1, <2>2, CountsStay DEF SessionStep
<1>4. CASE Greeted
  <2>1. UNCHANGED <<connections, received, arguments, handled>>
    BY <1>4 DEF Greeted, connections, reading
  <2>2. PeersOK' /\ client' # "connect"
    BY <1>0, <1>4, WorkerComesLater DEF Greeted, Idle, PeersOK, WorkerStates, histories
  <2> QED BY <2>1, <2>2, CountsStay DEF SessionStep
<1>5. CASE JoinRead
  <2>1. ConnectionStep /\ UNCHANGED received
    BY <1>5, AnswerIsStep, RepliesTyped DEF JoinRead
  <2>2. NextMessage(Up).data \in Seq(Chars)
    BY <1>5, NextTyped, TwoLinks DEF JoinRead
  <2>3. PeersOK' /\ client' # "connect" /\ UNCHANGED arguments
    BY <1>0, <1>5, <2>2, WorkerComesLater DEF JoinRead, Idle, PeersOK, WorkerStates, histories
  <2>4. CountsOK'
    BY <1>5, <2>1, CountsTake, TwoLinks DEF JoinRead
  <2> QED BY <2>1, <2>3, <2>4 DEF SessionStep
<1>6. CASE Welcomed
  <2>1. UNCHANGED <<connections, received, arguments, handled>>
    BY <1>6 DEF Welcomed, connections, reading
  <2>2. PeersOK' /\ client' # "connect"
    BY <1>0, <1>6, WorkerComesLater DEF Welcomed, Idle, PeersOK, WorkerStates, histories
  <2> QED BY <2>1, <2>2, CountsStay DEF SessionStep
<1>7. CASE NothingRead
  <2>1. ConnectionStep /\ UNCHANGED received
    BY <1>7, TwoLinks DEF NothingRead, ConnectionStep, LinkStep, Transfer, ReceiveFails
  <2>2. worker # "none"
    BY <1>7, TwoLinks DEF NothingRead, Receiving, Up, Down
  <2>3. PeersOK' /\ client' # "connect" /\ UNCHANGED <<arguments, handled>>
    BY <1>0, <1>7, <2>2, WorkerComesLater DEF NothingRead, PeersOK, WorkerStates, histories
  <2> QED BY <2>1, <2>3, CountsStay DEF SessionStep
<1>8. CASE GiveUp
  <2>1. ConnectionStep /\ UNCHANGED received
    BY <1>8, AnswerIsStep, RepliesTyped DEF GiveUp
  <2>2. PeersOK' /\ client' # "connect" /\ UNCHANGED <<arguments, handled>>
    BY <1>0, <1>8, WorkerComesLater DEF GiveUp, PeersOK, WorkerStates, histories
  <2> QED BY <2>1, <2>2, CountsStay DEF SessionStep
<1> QED BY <1>1, <1>2, <1>3, <1>4, <1>5, <1>6, <1>7, <1>8

\* What the worker of a sender does with a request.
LEMMA ServeIsStep ==
  ASSUME SessionInv, Serve
  PROVE  SessionStep
<1>0. PeersOK
  BY DEF SessionInv
<1>1. /\ worker = "serve" /\ Waiting(Up) /\ Take(Up)
      /\ UNCHANGED <<arguments, client, mqueue, given>>
  BY DEF Serve, ServeJoin, ServeSendall, ServeLeave, ServeQuit, ServeOther, Serving, Idle, histories
<1>2. /\ ConnectionStep \/ UNCHANGED connections
      /\ UNCHANGED received
  <2>1. CASE ServeOther
    BY <2>1, AnswerIsStep, RepliesTyped DEF ServeOther, connections, reading
  <2>2. CASE ServeJoin \/ ServeQuit
    BY <2>2, AnswerIsStep, RepliesTyped DEF ServeJoin, ServeQuit
  <2>3. CASE ServeSendall
    BY <2>3, AnswerIsStep, RepliesTyped DEF ServeSendall
  <2>4. CASE ServeLeave
    BY <2>4, AnswerIsStep, RepliesTyped DEF ServeLeave
  <2> QED BY <2>1, <2>2, <2>3, <2>4 DEF Serve
<1>3. worker' \in WorkerStates
  BY <1>0, <1>1 DEF Serve, ServeJoin, ServeSendall, ServeLeave, ServeQuit, ServeOther,
                    PeersOK, WorkerStates
<1>4. user_room' \in Seq(Chars)
  BY <1>0, <1>1, NextTyped, RepliesTyped, TwoLinks
     DEF Serve, ServeJoin, ServeSendall, ServeLeave, ServeQuit, ServeOther, PeersOK
<1>5. client' # "connect"
  BY <1>1, WorkerComesLater
<1>6. PeersOK'
  BY <1>0, <1>1, <1>3, <1>4 DEF PeersOK
<1>7. CountsOK'
  BY <1>1, <1>2, CountsTake, TwoLinks
<1> QED BY <1>1, <1>2, <1>5, <1>6, <1>7 DEF SessionStep

\* What the worker of a receiver does, and what others say in its room.
LEMMA DeliverIsStep ==
  ASSUME SessionInv,
         Deliver \/ DeliverFailed \/ \E u \in Names, t \in Texts : Broadcast(u, t)
  PROVE  SessionStep
<1>0. PeersOK
  BY DEF SessionInv
<1>1. CASE Deliver
  <2>1. /\ Head(mqueue) \in Messages /\ Tail(mqueue) \in Seq(Messages)
        /\ Len(Tail(mqueue)) = Len(mqueue) - 1 /\ Len(mqueue) \in Nat
    BY <1>0, <1>1, FirstAndRest DEF Deliver, PeersOK
  <2>2. ConnectionStep /\ UNCHANGED received
    BY <1>1, <2>1, SendIsStep, TwoLinks DEF Deliver
  <2>3. /\ mqueue' = Tail(mqueue) /\ worker # "none"
        /\ worker' \in WorkerStates /\ UNCHANGED <<client, user_room, given, arguments, handled>>
    BY <1>0, <1>1 DEF Deliver, Idle, PeersOK, WorkerStates, histories
  <2>4. Len(Tail(mqueue)) <= Len(given)
    BY <1>0, <2>1, LenProperties DEF PeersOK
  <2>5. PeersOK' /\ client' # "connect"
    BY <1>0, <2>1, <2>3, <2>4, WorkerComesLater DEF PeersOK
  <2> QED BY <2>2, <2>3, <2>5, CountsStay DEF SessionStep
<1>2. CASE DeliverFailed
  <2>1. UNCHANGED <<connections, received, arguments, handled>>
    BY <1>2 DEF DeliverFailed, connections, reading
  <2>2. PeersOK' /\ client' # "connect"
    BY <1>0, <1>2, WorkerComesLater DEF DeliverFailed, Idle, PeersOK, WorkerStates, histories
  <2> QED BY <2>1, <2>2, CountsStay DEF SessionStep
<1>3. ASSUME NEW u \in Names, NEW t \in Texts, Broadcast(u, t) PROVE SessionStep
  <2>1. UNCHANGED <<connections, received, arguments, handled, client, worker, user_room>>
    BY <1>3 DEF Broadcast, connections, reading
  <2>2. client' # "connect"
    BY <1>3, <2>1, WorkerComesLater DEF Broadcast
  <2>3. PICK msg \in Messages : mqueue' = Append(mqueue, msg) /\ given' = Append(given, msg)
    <3>1. u \in Seq(Chars) /\ t \in Seq(Chars) /\ user_room \in Seq(Chars)
      BY <1>0, SessionAssumption DEF PeersOK
    <3>2. Message("delivery", rtrim(user_room) \o <<Colon>> \o rtrim(u) \o <<Colon>> \o rtrim(t))
            \in Messages
      BY <3>1, DeliveryTyped
    <3> QED BY <1>3, <3>2 DEF Broadcast
  <2>4. mqueue \in Seq(Messages) /\ given \in Seq(Messages) /\ Len(mqueue) <= Len(given)
    BY <1>0 DEF PeersOK
  <2>5. /\ mqueue' \in Seq(Messages) /\ given' \in Seq(Messages)
        /\ Len(mqueue') = Len(mqueue) + 1 /\ Len(given') = Len(given) + 1
    BY <2>3, <2>4, AppendProperties
  <2>6. Len(mqueue') <= Len(given')
    BY <2>4, <2>5, LenProperties
  <2>7. PeersOK'
    BY <1>0, <2>1, <2>5, <2>6 DEF PeersOK
  <2> QED BY <2>1, <2>2, <2>7, CountsStay DEF SessionStep
<1> QED BY <1>1, <1>2, <1>3

\* The worker goes.
LEMMA WorkerEndsIsStep ==
  ASSUME SessionInv, WorkerEnds
  PROVE  SessionStep
<1>0. PeersOK
  BY DEF SessionInv
<1>1. ConnectionStep /\ UNCHANGED received
  BY TwoLinks DEF WorkerEnds, ConnectionStep, Close, reading
<1>2. client # "connect"
  BY WorkerComesLater, TwoLinks DEF WorkerEnds, Close
<1>3. <<>> \in Seq(Messages) /\ Len(<<>>) = 0 /\ Len(given) \in Nat
  BY <1>0, EmptySeq, LenProperties DEF PeersOK
<1>4. /\ worker' = "ended" /\ mqueue' = <<>>
      /\ UNCHANGED <<arguments, client, user_room, handled, given>>
  BY DEF WorkerEnds, histories
<1>5. PeersOK'
  <2>1. mqueue' \in Seq(Messages) /\ Len(mqueue') <= Len(given')
    BY <1>3, <1>4
  <2>2. worker' \in WorkerStates
    BY <1>4 DEF WorkerStates
  <2> QED BY <1>0, <1>4, <2>1, <2>2 DEF PeersOK
<1> QED BY <1>1, <1>2, <1>4, <1>5, CountsStay DEF SessionStep

\* Bytes go on; a line is received by who waits for one.
LEMMA ProgressIsStep ==
  ASSUME SessionInv, NEW d \in Links, Progress(d)
  PROVE  SessionStep
<1>0. PeersOK
  BY DEF SessionInv
<1>1. UNCHANGED <<arguments, client, worker, user_room, mqueue, handled, given>>
  BY DEF Progress, peers, histories
<1>2. ConnectionStep
  BY DEF Progress, ConnectionStep, LinkStep, Transfer
<1>3. client # "connect"
  <2>1. CASE Write(d) \/ WriteLost(d)
    BY <2>1, WorkerComesLater DEF Write, WriteLost
  <2>2. CASE Refill(d) \/ NextChar(d) \/ LastLine(d)
    BY <2>2, WorkerComesLater, LinksHaveEnds DEF Refill, NextChar, LastLine, AtEndOfFile
  <2> QED BY <2>1, <2>2 DEF Progress
<1>4. CountsOK'
  <2>1. ASSUME UNCHANGED received PROVE CountsOK'
    BY <1>1, <2>1, CountsStay
  <2>2. ASSUME NEW line, Received(d, line), Receiving(d), line \in Seq(Chars) PROVE CountsOK'
    BY <1>1, <2>2, CountsReceive DEF Received, Receiving
  <2>3. CASE Write(d) \/ WriteLost(d)
    BY <2>1, <2>3 DEF Write, WriteLost, reading
  <2>4. CASE Refill(d)
    BY <2>1, <2>4 DEF Refill
  <2>5. usrbuf[d] \in Seq(Chars) /\ rio_buf[d] \in Seq(Chars)
    BY LinkTypes DEF SessionInv, ConnectionInv
  <2>6. CASE Receiving(d) /\ NextChar(d)
    <3>1. Append(usrbuf[d], Head(rio_buf[d])) \in Seq(Chars)
      <4>1. Head(rio_buf[d]) \in Chars
        BY <2>5, <2>6, FirstAndRest DEF NextChar
      <4> QED BY <2>5, <4>1, AppendProperties
    <3> QED BY <2>1, <2>2, <2>6, <3>1 DEF NextChar
  <2>7. CASE Receiving(d) /\ LastLine(d)
    BY <2>2, <2>5, <2>7 DEF LastLine
  <2> QED BY <2>3, <2>4, <2>6, <2>7 DEF Progress
<1>5. PeersOK'
  BY <1>0, <1>1 DEF PeersOK
<1> QED BY <1>1, <1>2, <1>3, <1>4, <1>5 DEF SessionStep

\* At the start.
LEMMA SessionStarts ==
  ASSUME SessionInit
  PROVE  SessionInv
<1>1. ConnectionInv
  BY StreamsStart DEF SessionInit
<1>2. ArgumentsOK
  BY SessionAssumption, RepliesTyped DEF SessionInit, ArgumentsOK
<1>3. PeersOK
  BY EmptySeq, RepliesTyped DEF SessionInit, PeersOK, ClientStates, WorkerStates
<1>4. CountsOK
  <2>1. Len(<<>>) = 0
    BY EmptySeq
  <2> QED BY <2>1 DEF SessionInit, InitStreams, CountsOK
<1>5. NotConnectedYet
  BY DEF SessionInit, InitStreams, NotConnectedYet
<1> QED BY <1>1, <1>2, <1>3, <1>4, <1>5 DEF SessionInv

\* Every step of a session keeps the invariant.
LEMMA SessionInvKept ==
  ASSUME SessionInv, [Next]_vars
  PROVE  SessionInv'
<1>1. CASE Start
  BY <1>1 DEF Start, SessionInv, ConnectionInv, ConnectionTypes, ArgumentsOK, PeersOK, CountsOK,
              NotConnectedYet, connections, writing, reading, arguments, peers, histories
<1>2. CASE ClientSteps \/ ClientEnds \/ \E input \in Inputs : Type(input)
  BY <1>2, ClientIsStep, SessionStepKeeps
<1>3. CASE WorkerSteps \/ WorkerEnds \/ \E u \in Names, t \in Texts : Broadcast(u, t)
  BY <1>3, WorkerStartsIsStep, ServeIsStep, DeliverIsStep, WorkerEndsIsStep, SessionStepKeeps
     DEF WorkerSteps
<1>4. CASE \E d \in Links : Progress(d)
  BY <1>4, ProgressIsStep, SessionStepKeeps
<1>5. CASE UNCHANGED vars
  BY <1>5 DEF vars, SessionInv, ConnectionInv, ConnectionTypes, ArgumentsOK, PeersOK, CountsOK,
              NotConnectedYet, connections, writing, reading, arguments, peers, histories
<1> QED BY <1>1, <1>2, <1>3, <1>4, <1>5 DEF Next

\* Along every session the invariant holds.
THEOREM SessionAlways ==
  Spec => []SessionInv
<1>1. SessionInit => SessionInv
  BY SessionStarts
<1>2. SessionInv /\ [Next]_vars => SessionInv'
  BY SessionInvKept
<1> QED BY <1>1, <1>2, PTL DEF Spec

\* Bytes come out of either direction of a connection in the order in which
\* they were sent, none twice and none left out, however the kernel cuts the
\* stream, whatever is typed and said, and whoever ends in the middle of it.
THEOREM BytesInOrderAlways ==
  Spec => []BytesInOrder
<1>1. SessionInv => BytesInOrder
  BY InvOrders DEF SessionInv
<1> QED BY <1>1, SessionAlways, PTL

\* As long as no message fills the buffer of receive, the n-th one received is
\* the n-th one sent.
THEOREM MessagesArriveWholeAlways ==
  Spec => []MessagesArriveWhole
<1>1. SessionInv => MessagesArriveWhole
  BY InvArrives DEF SessionInv
<1> QED BY <1>1, SessionAlways, PTL

\* Everything has its type along every session; a client or a worker has at
\* most one line it has not handled.
THEOREM SessionTypes ==
  Spec => []TypeOK
<1>1. ASSUME SessionInv, SocketsOK PROVE TypeOK
  <2>1. StreamsOK
    BY <1>1, InvTypes DEF SessionInv
  <2>2. \A d \in Links : handled[d] \in 0..Len(received[d]) /\ Len(received[d]) <= handled[d] + 1
    BY <1>1, CountsTyped
  <2> QED BY <1>1, <2>1, <2>2 DEF TypeOK, SessionInv, ArgumentsOK, PeersOK
<1> QED BY <1>1, InvGivesDescriptors, SessionAlways, SocketsAlways, PTL

-----------------------------------------------------------------------------
(* The two ends of a connection                                              *)

\* Before the client has connected nothing has been said.
Fresh ==
  client = "connect" =>
    /\ \A e \in Ends : m_last_result[e] = "SUCCESS"
    /\ \A d \in Links : handled[d] = 0
    /\ user_room = NoRoom /\ mqueue = <<>>
    /\ acked = {} /\ shown = <<>> /\ given = <<>>

\* An end finds its connection broken because the other one has gone.
BrokenByTheOther ==
  \A d \in Links :
    /\ m_last_result[d[1]] = "EOF_OR_ERROR" => ~open[d[2]]
    /\ m_last_result[d[2]] = "EOF_OR_ERROR" => ~open[d[1]]

\* Who is at work has the connection open.
OpenAtWork ==
  /\ client \notin {"connect", "ended"} => open["client"]
  /\ worker \notin {"none", "ended"} => open["worker"]
  /\ open["worker"] => worker \notin {"none", "ended"}

\* receive returns at least one character.
NoEmptyLine ==
  \A d \in Links : \A k \in 1..Len(received[d]) : received[d][k] # <<>>

EndsInv == SessionInv /\ Fresh /\ BrokenByTheOther /\ OpenAtWork /\ NoEmptyLine

-----------------------------------------------------------------------------
(* What any step does                                                        *)

\* A step is of the sockets, or a step of the session, or nothing.
LEMMA KindsOfSteps ==
  ASSUME SessionInv, [Next]_vars
  PROVE  \/ UNCHANGED <<connections, arguments, peers, histories>>
         \/ SessionStep
<1>1. CASE Start
  BY <1>1 DEF Start
<1>2. CASE ClientSteps \/ ClientEnds \/ \E input \in Inputs : Type(input)
  BY <1>2, ClientIsStep
<1>3. CASE WorkerSteps \/ WorkerEnds \/ \E u \in Names, t \in Texts : Broadcast(u, t)
  BY <1>3, WorkerStartsIsStep, ServeIsStep, DeliverIsStep, WorkerEndsIsStep DEF WorkerSteps
<1>4. CASE \E d \in Links : Progress(d)
  BY <1>4, ProgressIsStep
<1>5. CASE UNCHANGED vars
  BY <1>5 DEF vars
<1> QED BY <1>1, <1>2, <1>3, <1>4, <1>5 DEF Next

\* The connection is opened once, and then only closed.
LEMMA OpenOnce ==
  ASSUME [Next]_vars
  PROVE  \/ Connected \/ ClientEnds \/ WorkerEnds
         \/ UNCHANGED open
<1>1. CASE Start \/ NotConnected \/ Sent \/ Reply \/ Chat \/ Accept \/ Greeted \/ Welcomed
           \/ DeliverFailed \/ UNCHANGED vars
  BY <1>1 DEF Start, NotConnected, Sent, Reply, Chat, Accept, Greeted, Welcomed, DeliverFailed,
              vars, connections
<1>2. CASE NothingReceived \/ NothingRead \/ \E d \in Links : Progress(d)
  BY <1>2 DEF NothingReceived, NothingRead, Progress, ReceiveFails, Write, WriteLost, Refill,
              NextChar, LastLine
<1>3. ASSUME NEW msg, Request(msg) PROVE UNCHANGED open
  BY <1>3 DEF Request, Send, SendRefused
<1>4. CASE Login \/ Join
  BY <1>3, <1>4 DEF Login, Join
<1>5. ASSUME NEW input \in Inputs, Type(input) PROVE UNCHANGED open
  BY <1>3, <1>5 DEF Type, connections
<1>6. ASSUME NEW msg, Answer(msg) PROVE UNCHANGED open
  BY <1>6 DEF Answer, Send
<1>7. CASE LoginRead \/ LoginFailed \/ JoinRead \/ GiveUp
  BY <1>6, <1>7 DEF LoginRead, LoginFailed, JoinRead, GiveUp
<1>8. CASE Serve
  BY <1>6, <1>8 DEF Serve, ServeJoin, ServeSendall, ServeLeave, ServeQuit, ServeOther, connections
<1>9. CASE Deliver \/ \E u \in Names, t \in Texts : Broadcast(u, t)
  BY <1>9 DEF Deliver, Broadcast, Send, SendRefused, connections
<1> QED BY <1>1, <1>2, <1>4, <1>5, <1>7, <1>8, <1>9 DEF Next, ClientSteps, WorkerSteps

\* Nobody comes back who has ended.
LEMMA WhoMoves ==
  ASSUME [Next]_vars, ~Connected, ~NotConnected, ~ClientEnds, ~WorkerEnds
  PROVE  /\ client' = client \/ client \notin {"connect", "ended"}
         /\ worker' = worker \/ (worker \notin {"none", "ended"} /\ worker' \notin {"none", "ended"})
<1>1. CASE Start \/ UNCHANGED vars \/ (\E d \in Links : Progress(d))
           \/ \E u \in Names, t \in Texts : Broadcast(u, t)
  BY <1>1 DEF Start, vars, Progress, Broadcast, peers
<1>2. CASE Sent \/ Reply \/ Chat \/ Login \/ Join \/ \E input \in Inputs : Type(input)
  BY <1>2 DEF Sent, Reply, Chat, Login, Join, Type, Request
<1>3. CASE NothingReceived
  BY <1>3 DEF NothingReceived, Receiving, Up, Down
<1>4. CASE NothingRead
  BY <1>4 DEF NothingRead, Receiving, Up, Down
<1>5. CASE Accept \/ LoginRead \/ LoginFailed \/ Greeted \/ JoinRead \/ Welcomed \/ GiveUp
  BY <1>5 DEF Accept, LoginRead, LoginFailed, Greeted, JoinRead, Welcomed, GiveUp, Idle
<1>6. CASE Deliver \/ DeliverFailed
  BY <1>6 DEF Deliver, DeliverFailed, Idle
<1>7. CASE Serve
  BY <1>7 DEF Serve, ServeJoin, ServeSendall, ServeLeave, ServeQuit, ServeOther, Serving, Idle
<1> QED BY <1>1, <1>2, <1>3, <1>4, <1>5, <1>6, <1>7 DEF Next, ClientSteps, WorkerSteps

\* What has been sent, and the lines received, only grow.
LEMMA StreamsGrow ==
  ASSUME SessionInv, [Next]_vars, NEW d \in Links
  PROVE  /\ sent'[d] = sent[d] \/ \E msg \in Messages : sent'[d] = Append(sent[d], msg)
         /\ received'[d] = received[d]
            \/ \E line \in Seq(Chars) : line # <<>> /\ received'[d] = Append(received[d], line)
<1>1. ConnectionTypes
  BY DEF SessionInv, ConnectionInv
<1>2. CASE UNCHANGED connections
  BY <1>2 DEF connections, writing, reading
<1>3. ASSUME NEW e \in Links, NEW msg \in Messages, Send(e, msg) \/ SendRefused(e, msg)
      PROVE  /\ sent'[d] = sent[d] \/ sent'[d] = Append(sent[d], msg)
             /\ received'[d] = received[d]
  BY <1>1, <1>3 DEF Send, SendRefused, ConnectionTypes, writing, reading
<1>4. ASSUME NEW e \in Links, NEW line \in Seq(Chars), line # <<>>, Received(e, line)
      PROVE  received'[d] = received[d] \/ received'[d] = Append(received[d], line)
  BY <1>1, <1>4 DEF Received, ConnectionTypes
<1>5. ASSUME NEW e \in Links, Transfer(e)
      PROVE  /\ sent'[d] = sent[d]
             /\ received'[d] = received[d]
                \/ \E line \in Seq(Chars) : line # <<>> /\ received'[d] = Append(received[d], line)
  <2>1. CASE Write(e) \/ WriteLost(e) \/ Refill(e) \/ ReceiveFails(e)
    BY <2>1 DEF Write, WriteLost, Refill, ReceiveFails, writing, reading
  <2>2. usrbuf[e] \in Seq(Chars) /\ rio_buf[e] \in Seq(Chars)
    BY LinkTypes DEF SessionInv, ConnectionInv
  <2>3. CASE NextChar(e)
    <3>1. Head(rio_buf[e]) \in Chars
      BY <2>2, <2>3, FirstAndRest DEF NextChar
    <3>2. PICK line \in Seq(Chars) : line = Append(usrbuf[e], Head(rio_buf[e])) /\ line # <<>>
      BY <2>2, <3>1, AppendProperties
    <3> QED BY <1>4, <2>3, <3>2 DEF NextChar, writing
  <2>4. CASE LastLine(e)
    BY <1>4, <2>2, <2>4 DEF LastLine, writing
  <2> QED BY <1>5, <2>1, <2>3, <2>4 DEF Transfer
<1>6. CASE (\E e \in Ends : Close(e)) \/ Opened
  BY <1>6 DEF Close, Opened, writing, reading
<1> QED BY <1>2, <1>3, <1>5, <1>6, KindsOfSteps DEF SessionStep, ConnectionStep, LinkStep

-----------------------------------------------------------------------------
(* The ends in every step                                                    *)

\* A call that fails because the other end has gone leaves it gone.
LEMMA BrokenKept ==
  ASSUME SessionInv, BrokenByTheOther, ConnectionStep \/ UNCHANGED connections,
         \/ \A e \in Ends : open'[e] => open[e]
         \/ UNCHANGED m_last_result /\ \A e \in Ends : m_last_result[e] = "SUCCESS"
  PROVE  BrokenByTheOther'
<1>1. m_last_result \in [Ends -> Results]
  BY DEF SessionInv, ConnectionInv, ConnectionTypes
<1>2. ASSUME NEW e \in Ends, NEW r, Result(e, r), r # "EOF_OR_ERROR", UNCHANGED open
      PROVE  BrokenByTheOther'
  BY <1>1, <1>2 DEF Result, BrokenByTheOther
<1>3. CASE UNCHANGED m_last_result
  BY <1>3, LinksHaveEnds DEF BrokenByTheOther
<1>4. ASSUME NEW d \in Links, WriteLost(d) PROVE BrokenByTheOther'
  <2>1. PICK r : Result(d[1], r)
    BY <1>4 DEF WriteLost
  <2>2. UNCHANGED open /\ ~open[d[2]]
    BY <1>4 DEF WriteLost
  <2>3. m_last_result' = [m_last_result EXCEPT ![d[1]] = r]
    BY <2>1 DEF Result
  <2>4. ASSUME NEW c \in Links
        PROVE  /\ m_last_result'[c[1]] = "EOF_OR_ERROR" => ~open[c[2]]
               /\ m_last_result'[c[2]] = "EOF_OR_ERROR" => ~open[c[1]]
    BY <1>1, <2>2, <2>3, TwoLinks, LinksHaveEnds DEF BrokenByTheOther
  <2> QED BY <2>2, <2>4 DEF BrokenByTheOther
<1>5. ASSUME NEW d \in Links, ReceiveFails(d) PROVE BrokenByTheOther'
  <2>1. UNCHANGED open /\ ~open[d[1]]
    BY <1>5 DEF ReceiveFails
  <2>2. m_last_result' = [m_last_result EXCEPT ![d[2]] = "EOF_OR_ERROR"]
    BY <1>5 DEF ReceiveFails, Result
  <2>3. ASSUME NEW c \in Links
        PROVE  /\ m_last_result'[c[1]] = "EOF_OR_ERROR" => ~open[c[2]]
               /\ m_last_result'[c[2]] = "EOF_OR_ERROR" => ~open[c[1]]
    BY <1>1, <2>1, <2>2, TwoLinks, LinksHaveEnds DEF BrokenByTheOther
  <2> QED BY <2>1, <2>3 DEF BrokenByTheOther
<1>6. ASSUME NEW d \in Links, NEW msg, Send(d, msg) \/ SendRefused(d, msg) PROVE BrokenByTheOther'
  BY <1>2, <1>3, <1>6, LinksHaveEnds DEF Send, SendRefused
<1>7. ASSUME NEW d \in Links, Write(d) \/ Refill(d) \/ NextChar(d) \/ LastLine(d)
      PROVE  BrokenByTheOther'
  BY <1>2, <1>3, <1>7, LinksHaveEnds DEF Write, Refill, NextChar, LastLine, Received
<1>8. CASE (\E e \in Ends : Close(e)) \/ Opened \/ UNCHANGED connections
  BY <1>3, <1>8 DEF Close, Opened, connections
<1> QED BY <1>4, <1>5, <1>6, <1>7, <1>8 DEF ConnectionStep, LinkStep, Transfer

\* Every step keeps what is said of the ends.
LEMMA EndsKept ==
  ASSUME EndsInv, [Next]_vars
  PROVE  EndsInv'
<1>1. SessionInv /\ Fresh /\ BrokenByTheOther /\ OpenAtWork /\ NoEmptyLine
  BY DEF EndsInv
<1>2. SessionInv'
  BY <1>1, SessionInvKept
<1>3. open \in [Ends -> BOOLEAN] /\ "client" \in Ends /\ "worker" \in Ends
  BY <1>1, TwoLinks DEF SessionInv, ConnectionInv, ConnectionTypes
<1>4. Fresh'
  <2>1. CASE UNCHANGED <<connections, arguments, peers, histories>>
    BY <1>1, <2>1 DEF Fresh, connections, peers, histories
  <2>2. CASE SessionStep
    BY <2>2 DEF SessionStep, Fresh
  <2> QED BY <1>1, <2>1, <2>2, KindsOfSteps
<1>5. OpenAtWork'
  <2>1. CASE Connected
    BY <1>3, <2>1 DEF Connected, OpenAtWork
  <2>2. CASE NotConnected
    BY <1>1, <2>2 DEF NotConnected, OpenAtWork, connections
  <2>3. CASE ClientEnds
    BY <1>1, <1>3, <2>3 DEF ClientEnds, Close, OpenAtWork
  <2>4. CASE WorkerEnds
    BY <1>1, <1>3, <2>4 DEF WorkerEnds, Close, OpenAtWork
  <2>5. CASE ~Connected /\ ~NotConnected /\ ~ClientEnds /\ ~WorkerEnds
    BY <1>1, <2>5, OpenOnce, WhoMoves DEF OpenAtWork
  <2> QED BY <2>1, <2>2, <2>3, <2>4, <2>5
<1>6. BrokenByTheOther'
  <2>1. \/ \A e \in Ends : open'[e] => open[e]
        \/ UNCHANGED m_last_result /\ \A e \in Ends : m_last_result[e] = "SUCCESS"
    <3>1. CASE Connected
      BY <1>1, <3>1 DEF Connected, Fresh
    <3>2. CASE ClientEnds \/ WorkerEnds
      BY <1>3, <3>2 DEF ClientEnds, WorkerEnds, Close
    <3> QED BY <3>1, <3>2, OpenOnce
  <2>2. ConnectionStep \/ UNCHANGED connections
    BY <1>1, KindsOfSteps DEF SessionStep
  <2> QED BY <1>1, <2>1, <2>2, BrokenKept
<1>7. NoEmptyLine'
  <2>1. SUFFICES ASSUME NEW d \in Links, NEW k \in 1..Len(received'[d])
                 PROVE  received'[d][k] # <<>>
    BY DEF NoEmptyLine
  <2>2. received[d] \in Seq(Seq(Chars)) /\ \A i \in 1..Len(received[d]) : received[d][i] # <<>>
    BY <1>1, CountsTyped DEF NoEmptyLine
  <2>3. CASE received'[d] = received[d]
    BY <2>2, <2>3
  <2>4. ASSUME NEW line \in Seq(Chars), line # <<>>, received'[d] = Append(received[d], line)
        PROVE  received'[d][k] # <<>>
    <3>1. PICK c \in Seq(Seq(Chars)) : c = received[d]
      BY <2>2
    <3>2. /\ Len(c) \in Nat /\ Len(Append(c, line)) = Len(c) + 1
          /\ \A i \in 1..Len(c) : Append(c, line)[i] = c[i]
          /\ Append(c, line)[Len(c) + 1] = line
      BY OneMoreLine
    <3>3. k = Len(c) + 1 \/ k \in 1..Len(c)
      BY <2>4, <3>1, <3>2
    <3> QED BY <2>2, <2>4, <3>1, <3>2, <3>3
  <2> QED BY <1>1, <2>3, <2>4, StreamsGrow
<1> QED BY <1>2, <1>4, <1>5, <1>6, <1>7 DEF EndsInv

\* At the start.
LEMMA EndsStart ==
  ASSUME SessionInit
  PROVE  EndsInv
<1>1. Fresh /\ BrokenByTheOther /\ OpenAtWork /\ NoEmptyLine
  BY TwoLinks, LinksHaveEnds DEF SessionInit, InitStreams, Fresh, BrokenByTheOther, OpenAtWork,
                                  NoEmptyLine
<1> QED BY <1>1, SessionStarts DEF EndsInv

\* Along every session they hold.
THEOREM EndsAlways ==
  Spec => []EndsInv
<1>1. SessionInit => EndsInv
  BY EndsStart
<1>2. EndsInv /\ [Next]_vars => EndsInv'
  BY EndsKept
<1> QED BY <1>1, <1>2, PTL DEF Spec

-----------------------------------------------------------------------------
(* What can be said of what has been received                                *)

\* What is short after a message was sent was short before.
LEMMA ShortBefore ==
  ASSUME NEW s \in Seq(Messages), NEW t, Short(t),
         t = s \/ \E msg \in Messages : t = Append(s, msg)
  PROVE  Short(s)
<1>1. CASE t = s
  BY <1>1
<1>2. ASSUME NEW msg \in Messages, t = Append(s, msg) PROVE Short(s)
  <2>1. Len(t) = Len(s) + 1 /\ Len(s) \in Nat /\ \A k \in 1..Len(s) : t[k] = s[k]
    BY <1>2, AppendProperties, LenProperties
  <2> QED BY <2>1 DEF Short
<1> QED BY <1>1, <1>2

\* As long as the messages are short a line that has been received is that of
\* its message, but for the last one of an end that has gone.
LEMMA ReadWhole ==
  ASSUME SessionInv, NEW d \in Links, Short(sent[d])
  PROVE  /\ Len(received[d]) <= Len(sent[d])
         /\ \A k \in 1..Len(received[d]) :
              open[d[1]] \/ k < Len(received[d]) => received[d][k] = Encode(sent[d][k])
<1>1. PICK x : Whole(sent[d], received[d], x, open[d[1]])
  BY LinkFacts DEF SessionInv, LinkOK
<1>2. Len(received[d]) \in Nat
  BY CountsTyped
<1> QED BY <1>1, <1>2 DEF Whole

\* What is sent has its type.
LEMMA SentTyped ==
  ASSUME SessionInv, NEW d \in Links
  PROVE  /\ sent[d] \in Seq(Messages) /\ Len(sent[d]) \in Nat
         /\ \A k \in 1..Len(sent[d]) : sent[d][k] \in Messages
<1>1. sent[d] \in Seq(Messages)
  BY LinkTypes DEF SessionInv, ConnectionInv
<1> QED BY <1>1, LenProperties, ElementOfSeq

\* The message that is handled next is the next one sent.
LEMMA NextIs ==
  ASSUME SessionInv, NEW d \in Links, Short(sent[d]), Waiting(d), open[d[1]]
  PROVE  /\ handled[d] + 1 \in 1..Len(sent[d])
         /\ sent[d][handled[d] + 1] \in Messages
         /\ NextMessage(d) = [tag |-> sent[d][handled[d] + 1].tag,
                              data |-> sent[d][handled[d] + 1].data \o <<Newline>>]
<1>1. handled[d] + 1 \in 1..Len(received[d])
  BY CountsTyped DEF Waiting
<1>2. handled[d] + 1 \in 1..Len(sent[d]) /\ sent[d][handled[d] + 1] \in Messages
  BY <1>1, ReadWhole, SentTyped, CountsTyped
<1>3. received[d][handled[d] + 1] = Encode(sent[d][handled[d] + 1])
  BY <1>1, ReadWhole
<1> QED BY <1>2, <1>3, ParseEncoded DEF NextMessage

\* When everything has arrived nothing is on its way.
LEMMA NothingOnItsWay ==
  ASSUME SessionInv, NEW d \in Links, Short(sent[d]), open[d[1]], open[d[2]],
         Len(received[d]) = Len(sent[d])
  PROVE  left[d] = <<>> /\ wire[d] = <<>> /\ rio_buf[d] = <<>> /\ usrbuf[d] = <<>>
<1>1. received[d] = Encoded(sent[d])
  <2>1. PICK c \in Seq(Seq(Chars)), s \in Seq(Messages) : c = received[d] /\ s = sent[d]
    BY CountsTyped, SentTyped
  <2>2. \A k \in 1..Len(c) : c[k] = Encode(s[k])
    BY <2>1, ReadWhole
  <2>3. PICK e \in Seq(Seq(Chars)) :
          e = Encoded(s) /\ Len(e) = Len(s) /\ \A k \in 1..Len(s) : e[k] = Encode(s[k])
    BY EncodedTyped
  <2>4. Len(c) = Len(e) /\ \A k \in 1..Len(c) : c[k] = e[k]
    BY <2>1, <2>2, <2>3
  <2>5. c = e
    BY <2>4, SeqEqual
  <2> QED BY <2>1, <2>3, <2>5
<1>2. PICK f \in Seq(Chars), u \in Seq(Chars), r \in Seq(Chars), w \in Seq(Chars),
           l \in Seq(Chars) :
        /\ f = FlattenSeq(received[d]) /\ u = usrbuf[d] /\ r = rio_buf[d] /\ w = wire[d]
        /\ l = left[d]
  <2>1. received[d] \in Seq(Seq(Chars))
    BY CountsTyped
  <2>2. FlattenSeq(received[d]) \in Seq(Chars)
    BY <2>1, FlattenTyped
  <2> QED BY <2>2, LinkTypes DEF SessionInv, ConnectionInv
<1>3. Ordered(sent[d], received[d], OnItsWay(u, r, w), l, open[d[1]], open[d[2]])
  BY <1>2, LinkFacts DEF SessionInv, LinkOK
<1>4. f = f \o (OnItsWay(u, r, w) \o l)
  BY <1>1, <1>2, <1>3 DEF Ordered
<1>5. PICK rw \in Seq(Chars), x \in Seq(Chars), y \in Seq(Chars) :
        Joined(r, w, rw) /\ Joined(u, rw, x) /\ Joined(x, l, y)
  <2>1. PICK rw \in Seq(Chars) : Joined(r, w, rw)
    BY JoinExists
  <2>2. PICK x \in Seq(Chars) : Joined(u, rw, x)
    BY JoinExists
  <2>3. PICK y \in Seq(Chars) : Joined(x, l, y)
    BY JoinExists
  <2> QED BY <2>1, <2>2, <2>3
<1>6. Joined(f, y, f)
  BY <1>4, <1>5 DEF Joined, OnItsWay
<1>7. /\ Len(f) \in Nat /\ Len(r) \in Nat /\ Len(w) \in Nat /\ Len(u) \in Nat /\ Len(l) \in Nat
      /\ Len(rw) = Len(r) + Len(w) /\ Len(x) = Len(u) + Len(rw)
      /\ Len(y) = Len(x) + Len(l) /\ Len(f) = Len(f) + Len(y)
  BY <1>5, <1>6, JoinedAt
<1>8. Len(r) = 0 /\ Len(w) = 0 /\ Len(u) = 0 /\ Len(l) = 0
  BY <1>7
<1>9. r = <<>> /\ w = <<>> /\ u = <<>> /\ l = <<>>
  BY <1>8, EmptySeq
<1> QED BY <1>2, <1>9

\* A string of one letter.
LEMMA OneLetter ==
  ASSUME NEW s \in Seq(Chars), Len(s) = 1
  PROVE  s = <<s[1]>>
<1>0. 1 \in 1..Len(s)
  OBVIOUS
<1>1. s[1] \in Chars
  BY <1>0, ElementOfSeq
<1>2. PICK one \in Seq(Chars) : one = <<s[1]>> /\ Len(one) = 1 /\ one[1] = s[1]
  BY <1>1
<1>3. \A i \in 1..Len(s) : s[i] = one[i]
  BY <1>2
<1>4. s = one
  BY <1>2, <1>3, SeqEqual
<1> QED BY <1>2, <1>4

\* A string of several starts with the first of them.
LEMMA FlattenFirst ==
  ASSUME NEW s \in Seq(Seq(Chars)), s # <<>>
  PROVE  \E u \in Seq(Chars) : Joined(s[1], u, FlattenSeq(s))
<1>1. Len(s) \in Nat \ {0} /\ 1 \in 0..Len(s) /\ 1 \in 1..Len(s)
  BY LenProperties, EmptySeq
<1>2. s[1] \in Seq(Chars)
  BY <1>1, ElementOfSeq
<1>3. PICK u \in Seq(Chars) : FlattenSeq(s) = FlattenSeq(SubSeq(s, 1, 1)) \o u
  BY <1>1, FlattenStarts
<1>4. FlattenSeq(SubSeq(s, 1, 1)) = FlattenSeq(SubSeq(s, 1, 1 - 1)) \o s[1]
  BY <1>1, FlattenOneMore, Zenon
<1>5. FlattenSeq(SubSeq(s, 1, 1 - 1)) = <<>>
  <2>1. SubSeq(s, 1, 1 - 1) = <<>>
    BY SubSeqEmpty
  <2> QED BY <2>1, FlattenEmpty
<1>6. <<>> \o s[1] = s[1]
  BY <1>2, ConcatEmptySeq
<1> QED BY <1>2, <1>3, <1>4, <1>5, <1>6 DEF Joined

\* Of the first message at least its tag arrives, in a line of its own: the one
\* letter, and if the line goes on, the colon.
LEMMA FirstTagArrives ==
  ASSUME EndsInv, NEW d \in Links, NEW letter \in Letters,
         sent[d] # <<>>, sent[d][1].tag = <<letter>>, received[d] # <<>>
  PROVE  Parse(received[d][1]).tag = <<letter>>
<1>0. SessionInv /\ NoEmptyLine
  BY DEF EndsInv
<1>1. PICK s \in Seq(Messages), c \in Seq(Seq(Chars)) :
        /\ s = sent[d] /\ c = received[d] /\ Len(s) \in Nat \ {0} /\ Len(c) \in Nat \ {0}
        /\ 1 \in 1..Len(s) /\ 1 \in 1..Len(c)
  BY <1>0, SentTyped, CountsTyped, EmptySeq
<1>2. PICK line \in Seq(Chars), e \in Seq(Chars) :
        /\ line = c[1] /\ line # <<>> /\ Len(line) \in Nat \ {0}
        /\ e = Encode(s[1]) /\ Len(e) \in Nat /\ Len(e) >= 3
        /\ e[1] = letter /\ e[2] = Colon
  <2>1. c[1] \in Seq(Chars) /\ c[1] # <<>> /\ s[1] \in Messages
    BY <1>0, <1>1, ElementOfSeq DEF NoEmptyLine
  <2>2. Len(c[1]) \in Nat \ {0}
    BY <2>1, LenProperties, EmptySeq
  <2>3. PICK tag : tag = s[1].tag /\ Len(tag) = 1 /\ tag[1] = letter
    <3>1. Len(<<letter>>) = 1 /\ <<letter>>[1] = letter
      OBVIOUS
    <3>2. s[1].tag = <<letter>>
      BY <1>1
    <3> QED BY <3>1, <3>2
  <2>4. Encode(s[1]) \in Seq(Chars)
    BY <2>1, EncodeTyped
  <2>5. PICK e \in Seq(Chars) : e = Encode(s[1])
    BY <2>4
  <2>6. /\ Len(s[1].data) \in Nat /\ Len(e) = Len(tag) + Len(s[1].data) + 2
        /\ \A i \in 1..Len(tag) : e[i] = tag[i]
        /\ e[Len(tag) + 1] = Colon
    BY <2>1, <2>3, <2>5, EncodeLayout
  <2>7. PICK m \in Nat : m = Len(s[1].data) /\ Len(e) = 1 + m + 2
    BY <2>3, <2>6
  <2>8. Len(e) \in Nat /\ Len(e) >= 3
    BY <2>7
  <2>9. e[1] = letter /\ e[2] = Colon
    <3>1. (\A i \in 1..1 : e[i] = tag[i]) /\ e[1 + 1] = Colon
      BY <2>3, <2>6, Zenon
    <3> QED BY <2>3, <3>1
  <2> QED BY <2>1, <2>2, <2>5, <2>8, <2>9
<1>3. PICK f \in Seq(Chars), g \in Seq(Chars), x \in Seq(Chars), y \in Seq(Chars), z \in Seq(Chars) :
        /\ Joined(line, x, f) /\ f = FlattenSeq(c)
        /\ Joined(e, y, g) /\ g = FlattenSeq(Encoded(s))
        /\ Joined(f, z, g)
  <2>1. PICK x \in Seq(Chars) : Joined(line, x, FlattenSeq(c))
    BY <1>1, <1>2, FlattenFirst, EmptySeq
  <2>2. PICK E \in Seq(Seq(Chars)) : E = Encoded(s) /\ Len(E) = Len(s) /\ E[1] = e
    BY <1>1, <1>2, EncodedTyped
  <2>3. E # <<>>
    BY <1>1, <2>2, EmptySeq
  <2>4. PICK y \in Seq(Chars) : Joined(e, y, FlattenSeq(E))
    BY <2>2, <2>3, FlattenFirst
  <2>5. PICK w, l, a, b : Ordered(s, c, w, l, a, b) /\ w \in Seq(Chars)
    BY <1>0, <1>1, LinkFacts, OnItsWayTyped DEF SessionInv, LinkOK, LinkTyped
  <2>6. PICK lost \in Seq(Chars) : FlattenSeq(Encoded(s)) = FlattenSeq(c) \o (w \o lost)
    BY <2>5 DEF Ordered
  <2>7. PICK z \in Seq(Chars) : z = w \o lost
    BY <2>5, ConcatProperties
  <2>8. FlattenSeq(c) \in Seq(Chars) /\ FlattenSeq(E) \in Seq(Chars)
    BY FlattenTyped
  <2>9. Joined(FlattenSeq(c), z, FlattenSeq(E))
    BY <2>2, <2>6, <2>7, <2>8 DEF Joined
  <2> QED BY <2>1, <2>2, <2>4, <2>8, <2>9
<1>4. line[1] = letter /\ (Len(line) >= 2 => line[2] = Colon)
  <2>0. Joined(line, x, f) /\ Joined(e, y, g) /\ Joined(f, z, g)
    BY <1>3
  <2>1. Len(f) \in Nat /\ Len(line) <= Len(f) /\ \A i \in 1..Len(line) : f[i] = line[i]
    BY <2>0, JoinedAt
  <2>2. \A i \in 1..Len(f) : g[i] = f[i]
    BY <2>0, JoinedAt
  <2>3. \A i \in 1..Len(e) : g[i] = e[i]
    BY <2>0, JoinedAt
  <2>4. 1 \in 1..Len(line) /\ 1 \in 1..Len(f) /\ 1 \in 1..Len(e)
    <3>1. PICK L \in Nat, F \in Nat, M \in Nat :
            L = Len(line) /\ F = Len(f) /\ M = Len(e) /\ L # 0 /\ L <= F /\ M >= 3
      BY <1>2, <2>1
    <3> QED BY <3>1
  <2>5. ASSUME Len(line) >= 2 PROVE line[2] = Colon
    <3>1. 2 \in 1..Len(line) /\ 2 \in 1..Len(f) /\ 2 \in 1..Len(e)
      BY <1>2, <2>1, <2>5
    <3> QED BY <1>2, <2>1, <2>2, <2>3, <3>1
  <2> QED BY <1>2, <2>1, <2>2, <2>3, <2>4, <2>5
<1>5. letter # Colon
  BY ConnectionAssumption
<1> DEFINE I == {i \in 1..Len(line) : line[i] = Colon}
<1>6. CASE Len(line) = 1
  <2>1. I = {}
    BY <1>4, <1>5, <1>6
  <2>2. FirstColon(line) = 0
    BY <2>1 DEF FirstColon, SelectInSeq
  <2>3. line = <<letter>>
    BY <1>4, <1>6, OneLetter
  <2> QED BY <1>1, <1>2, <2>2, <2>3 DEF Parse
<1>7. CASE Len(line) # 1
  <2>9. PICK n \in Nat \ {0} : n = Len(line)
    BY <1>2
  <2>10. n # 1
    BY <1>7, <2>9
  <2>0. Len(line) >= 2
    <3>1. n >= 2
      BY <2>10
    <3> QED BY <2>9, <3>1
  <2>1. 2 \in 1..Len(line) /\ line[2] = Colon
    BY <1>2, <1>4, <2>0
  <2>2. 2 \in I /\ I \subseteq Int /\ \A i \in I : 2 <= i
    BY <1>4, <1>5, <2>1
  <2>3. Min(I) = 2
    <3>1. \E k \in I : \A i \in I : k <= i
      BY <2>2
    <3>2. Min(I) \in I /\ \A i \in I : Min(I) <= i
      <4> HIDE DEF I
      <4> QED BY <3>1 DEF Min
    <3>3. Min(I) <= 2 /\ 2 <= Min(I) /\ Min(I) \in Int
      BY <2>2, <3>2, Zenon
    <3> HIDE DEF I
    <3> QED BY <3>3
  <2>4. FirstColon(line) = 2
    BY <2>2, <2>3 DEF FirstColon, SelectInSeq
  <2>5. SubSeq(line, 1, 1) = <<line[1]>>
    <3>1. 1 \in 1..Len(line)
      BY <2>0, <2>9
    <3>2. SubSeq(line, 1, 1) \in Seq(Chars) /\ Len(SubSeq(line, 1, 1)) = 1
      BY <3>1, Pieces
    <3>3. SubSeq(line, 1, 1)[1] = line[1]
      BY <3>1
    <3> QED BY <3>2, <3>3, OneLetter
  <2> QED BY <1>1, <1>2, <1>4, <2>4, <2>5 DEF Parse
<1> QED BY <1>6, <1>7

-----------------------------------------------------------------------------
(* A sender and its worker                                                   *)

Requests == {<<"join">>, <<"leave">>, <<"quit">>, <<"sendall">>}

\* What the two say to each other.
SaidInTurn ==
  /\ \A k \in 1..Len(sent[Up]) :
       sent[Up][k].tag \in IF k = 1 THEN {<<"slogin">>} ELSE Requests
  /\ \A k \in 1..Len(sent[Down]) : sent[Down][k] \in {OK, ERR}

\* The client has at most one request of which it has not seen the reply.
ClientInStep ==
  LET asked == Len(sent[Up])
  IN /\ client \in {"login", "prompt", "send", "await", "close"}
     /\ client \in {"login", "prompt", "close"} => asked = handled[Down]
     /\ client \in {"send", "await"} => asked = handled[Down] + 1
     /\ client = "login" => asked = 0
     /\ client \in {"prompt", "send", "await"} => asked > 0
     /\ client = "send" /\ left[Up] = <<>> => m_last_result["client"] = "SUCCESS"

\* The worker has given one reply to every line it has taken.
WorkerInStep ==
  LET answered == Len(sent[Down])
  IN /\ worker \in {"backlog", "unserved", "login", "greet", "serve", "delete"}
     /\ answered = handled[Up]
     /\ worker \in {"backlog", "unserved", "login"} => answered = 0
     /\ worker \in {"greet", "serve"} => answered > 0

\* The room the client will have been told of when it has read what it was sent.
Told ==
  IF handled[Down] < Len(sent[Down]) /\ sent[Down][Len(sent[Down])] = OK
  THEN Acknowledged(sent[Up][Len(sent[Up])])
  ELSE acked

InStep == SaidInTurn /\ ClientInStep /\ WorkerInStep /\ RoomIs(Told)

\* A sender and its worker are both there, and the requests fit a line.
Talking == program = "sender" /\ open["client"] /\ open["worker"] /\ Short(sent[Up])

SenderInv == Talking => InStep

\* The replies fit a line.
LEMMA RepliesShort ==
  ASSUME NEW s, \A k \in 1..Len(s) : s[k] \in {OK, ERR}
  PROVE  Short(s)
<1>1. ASSUME NEW word \in Words
      PROVE  Len(Encode(Message(word, <<>>))) = 3 /\ ~Contains(Message(word, <<>>).data, Newline)
  <2>1. <<>> \in Seq(Chars) /\ Len(<<>>) = 0
    BY EmptySeq
  <2>2. PICK msg \in Messages : msg = Message(word, <<>>)
    BY <2>1, MessageTyped
  <2>3. Len(msg.tag) = 1 /\ msg.data = <<>>
    BY <2>2 DEF Message
  <2>4. Len(Encode(msg)) = Len(msg.tag) + Len(msg.data) + 2
    BY EncodeLayout
  <2>5. ~Contains(msg.data, Newline)
    BY <2>1, <2>3 DEF Contains
  <2>6. Len(msg.data) = 0
    BY <2>1, <2>3
  <2>7. Len(Encode(msg)) = 3
    BY <2>3, <2>4, <2>6
  <2> QED BY <2>2, <2>5, <2>7
<1>2. "ok" \in Words /\ "err" \in Words
  BY DEF Words
<1>3. MAX_LEN \in Nat /\ 3 <= MAX_LEN - 1
  BY SessionAssumption, ConnectionAssumption
<1>4. ASSUME NEW r \in {OK, ERR} PROVE Len(Encode(r)) <= MAX_LEN - 1 /\ ~Contains(r.data, Newline)
  BY <1>1, <1>2, <1>3 DEF OK, ERR
<1> QED BY <1>4 DEF Short

\* How far each is behind the other.
LEMMA Behind ==
  ASSUME SessionInv, Talking, InStep
  PROVE  /\ Len(sent[Up]) \in Nat /\ Len(sent[Down]) \in Nat
         /\ handled[Up] \in Nat /\ handled[Down] \in Nat
         /\ Len(received[Up]) \in Nat /\ Len(received[Down]) \in Nat
         /\ handled[Down] <= Len(received[Down]) /\ Len(received[Down]) <= Len(sent[Down])
         /\ Len(sent[Down]) = handled[Up]
         /\ handled[Up] <= Len(received[Up]) /\ Len(received[Up]) <= Len(sent[Up])
         /\ Len(sent[Up]) = handled[Down] \/ Len(sent[Up]) = handled[Down] + 1
         /\ Short(sent[Down])
<1>1. Short(sent[Down])
  BY RepliesShort DEF InStep, SaidInTurn
<1>2. /\ Len(received[Up]) <= Len(sent[Up]) /\ Len(received[Down]) <= Len(sent[Down])
      /\ Len(sent[Up]) \in Nat /\ Len(sent[Down]) \in Nat
  BY <1>1, TwoLinks, ReadWhole, SentTyped DEF Talking
<1>3. ASSUME NEW d \in Links
      PROVE  handled[d] \in Nat /\ Len(received[d]) \in Nat /\ handled[d] <= Len(received[d])
  BY <1>3, CountsTyped
<1>4. Len(sent[Up]) = handled[Down] \/ Len(sent[Up]) = handled[Down] + 1
  BY DEF InStep, ClientInStep
<1>5. Len(sent[Down]) = handled[Up]
  BY DEF InStep, WorkerInStep
<1> QED BY <1>1, <1>2, <1>3, <1>4, <1>5, TwoLinks

\* Both were there before a step that leaves them there.
LEMMA TalkedBefore ==
  ASSUME SessionInv, [Next]_vars, ~Connected, Talking'
  PROVE  Talking /\ UNCHANGED <<open, program>> /\ ~ClientEnds /\ ~WorkerEnds
<1>1. ~ClientEnds /\ ~WorkerEnds
  <2>1. open \in [Ends -> BOOLEAN]
    BY DEF SessionInv, ConnectionInv, ConnectionTypes
  <2> QED BY <2>1, TwoLinks DEF ClientEnds, WorkerEnds, Close, Talking
<1>2. UNCHANGED open
  BY <1>1, OpenOnce
<1>3. UNCHANGED program
  BY KindsOfSteps DEF SessionStep, arguments
<1>4. Short(sent[Up])
  <2>1. sent'[Up] = sent[Up] \/ \E msg \in Messages : sent'[Up] = Append(sent[Up], msg)
    BY TwoLinks, StreamsGrow
  <2>2. Short(sent'[Up])
    BY DEF Talking
  <2> QED BY <2>1, <2>2, ShortBefore, SentTyped, TwoLinks
<1> QED BY <1>1, <1>2, <1>3, <1>4 DEF Talking

\* A message more has been sent.
LEMMA OneMoreSent ==
  ASSUME SessionInv, NEW d \in Links, NEW msg \in Messages, Send(d, msg)
  PROVE  /\ Len(sent'[d]) = Len(sent[d]) + 1 /\ Len(sent[d]) \in Nat
         /\ \A k \in 1..Len(sent[d]) : sent'[d][k] = sent[d][k]
         /\ sent'[d][Len(sent[d]) + 1] = msg
         /\ \A e \in Links \ {d} : sent'[e] = sent[e] /\ left'[e] = left[e]
         /\ left'[d] = Encode(msg) /\ left'[d] # <<>>
         /\ UNCHANGED <<open, m_last_result, received>>
<1>1. sent \in [Links -> Seq(Messages)] /\ left \in [Links -> Seq(Chars)] /\ sent[d] \in Seq(Messages)
  BY DEF SessionInv, ConnectionInv, ConnectionTypes
<1>2. sent'[d] = Append(sent[d], msg) /\ left'[d] = Encode(msg)
  BY <1>1 DEF Send
<1>3. PICK s \in Seq(Messages) : s = sent[d]
  BY <1>1
<1>4. /\ Len(Append(s, msg)) = Len(s) + 1 /\ Len(s) \in Nat
      /\ (\A k \in 1..Len(s) : Append(s, msg)[k] = s[k]) /\ Append(s, msg)[Len(s) + 1] = msg
  BY AppendProperties, LenProperties
<1>5. Encode(msg) # <<>>
  <2>1. PICK m \in Nat, n \in Nat : Len(Encode(msg)) = m + n + 2
    BY EncodeLayout
  <2>2. m + n + 2 # 0
    OBVIOUS
  <2> QED BY <2>1, <2>2, EmptySeq
<1>6. /\ \A e \in Links \ {d} : sent'[e] = sent[e] /\ left'[e] = left[e]
      /\ UNCHANGED <<open, m_last_result, received>>
  BY <1>1 DEF Send, reading
<1> QED BY <1>2, <1>3, <1>4, <1>5, <1>6

\* Nothing has been asked, said, handled or told.
LEMMA InStepStays ==
  ASSUME InStep, UNCHANGED <<sent, handled, client, worker, user_room, acked>>,
         client = "send" /\ left'[Up] = <<>> => m_last_result'["client"] = "SUCCESS"
  PROVE  InStep'
<1>1. SaidInTurn' /\ WorkerInStep'
  BY DEF InStep, SaidInTurn, WorkerInStep
<1>2. ClientInStep'
  BY DEF InStep, ClientInStep
<1>3. RoomIs(Told)'
  BY DEF InStep, RoomIs, Told, Acknowledged
<1> QED BY <1>1, <1>2, <1>3 DEF InStep

\* The client is where it is with its requests; the worker has nothing to do
\* with it.
LEMMA ClientGoesOn ==
  ASSUME InStep, UNCHANGED <<sent, handled, worker, user_room, acked>>, ClientInStep'
  PROVE  InStep'
<1>1. SaidInTurn' /\ WorkerInStep'
  BY DEF InStep, SaidInTurn, WorkerInStep
<1>2. RoomIs(Told)'
  BY DEF InStep, RoomIs, Told, Acknowledged
<1> QED BY <1>1, <1>2 DEF InStep

\* Bytes go on.
LEMMA InStepProgress ==
  ASSUME SessionInv, Talking, InStep, NEW d \in Links, Progress(d)
  PROVE  InStep'
<1>1. UNCHANGED <<handled, client, worker, user_room, acked>>
  BY DEF Progress, peers, histories
<1>2. m_last_result \in [Ends -> Results] /\ left \in [Links -> Seq(Chars)]
  BY DEF SessionInv, ConnectionInv, ConnectionTypes
<1>3. client = "send" /\ left[Up] = <<>> => m_last_result["client"] = "SUCCESS"
  BY DEF InStep, ClientInStep
<1>4. /\ sent' = sent
      /\ client = "send" /\ left'[Up] = <<>> => m_last_result'["client"] = "SUCCESS"
  <2>1. CASE Write(d)
    <3>1. CASE d = Up
      BY <1>2, <2>1, <3>1, TwoLinks DEF Write, Result
    <3>2. CASE d = Down
      <4>1. left'[Up] = left[Up]
        BY <1>2, <2>1, <3>2, TwoLinks DEF Write, Up, Down
      <4>2. m_last_result'["client"] = m_last_result["client"]
        BY <1>2, <2>1, <3>2, TwoLinks DEF Write, Result
      <4> QED BY <1>3, <2>1, <4>1, <4>2 DEF Write
    <3> QED BY <3>1, <3>2, TwoLinks
  <2>2. CASE WriteLost(d)
    BY <2>2, TwoLinks DEF WriteLost, Talking
  <2>3. CASE Refill(d)
    BY <1>3, <2>3 DEF Refill, writing
  <2>4. ASSUME NEW line, Received(d, line)
        PROVE  m_last_result'["client"] \in {m_last_result["client"], "SUCCESS"}
    BY <1>2, <2>4, TwoLinks DEF Received, Result
  <2>5. CASE NextChar(d)
    BY <1>3, <2>4, <2>5 DEF NextChar, writing
  <2>6. CASE LastLine(d)
    BY <1>3, <2>4, <2>6 DEF LastLine, writing
  <2> QED BY <2>1, <2>2, <2>3, <2>5, <2>6 DEF Progress
<1> QED BY <1>1, <1>4, InStepStays

\* A request of a client that has seen the replies of all before it.
LEMMA InStepRequest ==
  ASSUME SessionInv, Talking, InStep, NEW msg \in Messages, Request(msg),
         client \in {"login", "prompt"},
         msg.tag \in IF client = "login" THEN {<<"slogin">>} ELSE Requests
  PROVE  InStep'
<1>0. /\ UNCHANGED <<worker, handled, user_room, acked>>
  BY DEF Request, histories
<1>1. /\ Len(sent[Up]) \in Nat /\ Len(sent[Up]) = handled[Down]
      /\ Len(sent[Down]) = handled[Down]
      /\ client = "login" <=> Len(sent[Up]) = 0
      /\ handled[Down] \in Nat
  <2>1. Len(sent[Up]) = handled[Down] /\ (client = "login" <=> Len(sent[Up]) = 0)
    BY Behind DEF InStep, ClientInStep
  <2> QED BY <2>1, Behind
<1>2. CASE Send(Up, msg) /\ client' = "send"
  <2>1. /\ Len(sent'[Up]) = Len(sent[Up]) + 1
        /\ \A k \in 1..Len(sent[Up]) : sent'[Up][k] = sent[Up][k]
        /\ sent'[Up][Len(sent[Up]) + 1] = msg
        /\ left'[Up] # <<>>
        /\ \A e \in Links \ {Up} : sent'[e] = sent[e]
    BY <1>2, TwoLinks, OneMoreSent
  <2>2. sent'[Down] = sent[Down]
    BY <2>1, TwoLinks DEF Up, Down
  <2>3. SaidInTurn'
    <3>1. ASSUME NEW k \in 1..Len(sent'[Up])
          PROVE  sent'[Up][k].tag \in IF k = 1 THEN {<<"slogin">>} ELSE Requests
      <4>1. CASE k \in 1..Len(sent[Up])
        BY <2>1, <4>1 DEF InStep, SaidInTurn
      <4>2. CASE k = Len(sent[Up]) + 1
        BY <1>1, <2>1, <4>2
      <4> QED BY <1>1, <2>1, <4>1, <4>2
    <3> QED BY <2>2, <3>1 DEF InStep, SaidInTurn
  <2>4. ClientInStep'
    BY <1>0, <1>1, <1>2, <2>1 DEF ClientInStep
  <2>5. WorkerInStep'
    BY <1>0, <2>2 DEF InStep, WorkerInStep
  <2>6. RoomIs(Told)'
    <3>1. Told = acked /\ Told' = acked
      BY <1>0, <1>1, <2>2 DEF Told
    <3> QED BY <1>0, <3>1 DEF InStep, RoomIs
  <2> QED BY <2>3, <2>4, <2>5, <2>6 DEF InStep
<1>3. CASE SendRefused(Up, msg) /\ client' = Proceed(msg.tag, FALSE)
  <2>1. UNCHANGED sent
    BY <1>3 DEF SendRefused, writing
  <2>2. client' \in {"prompt", "close"} /\ (client = "login" => client' = "close")
    BY <1>3 DEF Proceed, Requests, Talking
  <2>3. ClientInStep'
    BY <1>0, <1>1, <2>1, <2>2 DEF ClientInStep
  <2> QED BY <1>0, <2>1, <2>3, ClientGoesOn
<1> QED BY <1>2, <1>3 DEF Request

\* send has returned.
LEMMA InStepSent ==
  ASSUME SessionInv, Talking, InStep, Sent
  PROVE  InStep'
<1>1. UNCHANGED <<sent, handled, worker, user_room, acked>> /\ client = "send"
  BY DEF Sent, connections, writing, histories
<1>2. client' = "await"
  BY DEF Sent, InStep, ClientInStep
<1>3. ClientInStep'
  BY <1>1, <1>2 DEF InStep, ClientInStep
<1> QED BY <1>1, <1>3, ClientGoesOn

\* The reply is that of the last request, and what it says of the room is so.
LEMMA InStepReply ==
  ASSUME SessionInv, Talking, InStep, Reply
  PROVE  InStep'
<1>0. /\ UNCHANGED <<connections, sent, worker, user_room, program>>
      /\ handled' = [handled EXCEPT ![Down] = @ + 1]
      /\ client = "await" /\ Waiting(Down)
  BY DEF Reply, Take, connections, writing, arguments
<1>1. PICK n \in Nat \ {0} :
        /\ n = Len(sent[Up]) /\ n = Len(sent[Down]) /\ handled[Down] = n - 1
        /\ handled[Up] = n
  <2>1. Len(sent[Up]) = handled[Down] + 1
    BY <1>0 DEF InStep, ClientInStep
  <2>2. handled[Down] < Len(received[Down])
    BY <1>0 DEF Waiting
  <2>3. Len(sent[Down]) = handled[Down] + 1 /\ handled[Down] \in Nat
    BY <2>1, <2>2, Behind
  <2> QED BY <2>1, <2>3, Behind
<1>2. /\ sent[Down][n] \in {OK, ERR}
      /\ sent[Up][n].tag \in {<<"slogin">>} \cup Requests
  <2>1. n \in 1..Len(sent[Up]) /\ n \in 1..Len(sent[Down])
    BY <1>1
  <2> QED BY <2>1 DEF InStep, SaidInTurn
<1>3. NextMessage(Down).tag = sent[Down][n].tag
  <2>1. open[Down[1]] /\ Short(sent[Down])
    BY TwoLinks, Behind DEF Talking
  <2>2. handled[Down] + 1 = n
    BY <1>1
  <2>3. NextMessage(Down) = [tag |-> sent[Down][n].tag, data |-> sent[Down][n].data \o <<Newline>>]
    BY <1>0, <2>1, <2>2, NextIs, TwoLinks, Zenon
  <2> QED BY <2>3
<1>4. NextMessage(Down).tag = <<"ok">> <=> sent[Down][n] = OK
  BY <1>2, <1>3 DEF OK, ERR, Message
<1>5. sent[Up][Len(sent[Up])].tag = Last(sent[Up]).tag /\ Last(sent[Up]) = sent[Up][n]
  BY <1>1 DEF Last
<1>6. /\ client' \in {"prompt", "close"}
  <2>1. PICK ok : client' = Proceed(sent[Up][n].tag, ok) /\ ok \in BOOLEAN
    BY <1>5 DEF Reply
  <2> QED BY <1>2, <2>1 DEF Proceed, Requests, Talking
<1>7. handled'[Down] = n /\ handled'[Up] = handled[Up]
  <2>1. handled \in [Links -> Nat] /\ Up # Down
    BY DEF SessionInv, CountsOK, Up, Down
  <2> QED BY <1>0, <1>1, <2>1, TwoLinks
<1>8. acked' = Told
  <2>1. acked' = IF NextMessage(Down).tag = <<"ok">> THEN Acknowledged(Last(sent[Up])) ELSE acked
    BY DEF Reply
  <2>2. Told = IF sent[Down][n] = OK THEN Acknowledged(sent[Up][n]) ELSE acked
    BY <1>1 DEF Told
  <2> QED BY <1>4, <1>5, <2>1, <2>2
<1>9. RoomIs(Told)'
  <2>1. Told' = acked'
    BY <1>0, <1>1, <1>7 DEF Told
  <2>2. RoomIs(acked')
    BY <1>8 DEF InStep
  <2> QED BY <1>0, <2>1, <2>2 DEF RoomIs
<1>10. SaidInTurn'
  BY <1>0 DEF InStep, SaidInTurn
<1>11. ClientInStep'
  BY <1>0, <1>1, <1>6, <1>7 DEF ClientInStep
<1>12. WorkerInStep'
  BY <1>0, <1>7 DEF InStep, WorkerInStep
<1> QED BY <1>9, <1>10, <1>11, <1>12 DEF InStep

\* What the worker is about to handle is the last request, of which the client
\* has not seen the reply.
LEMMA WorkerCatchesUp ==
  ASSUME SessionInv, Talking, InStep, Waiting(Up)
  PROVE  \E n \in Nat \ {0} :
           /\ n = Len(sent[Up]) /\ handled[Up] = n - 1 /\ handled[Down] = n - 1
           /\ Len(sent[Down]) = n - 1
           /\ sent[Up][n] \in Messages
           /\ sent[Up][n].tag \in IF n = 1 THEN {<<"slogin">>} ELSE Requests
           /\ NextMessage(Up) = [tag |-> sent[Up][n].tag,
                                 data |-> sent[Up][n].data \o <<Newline>>]
<1>1. handled[Up] < Len(received[Up])
  BY DEF Waiting
<1>2. /\ Len(sent[Up]) = handled[Up] + 1 /\ handled[Up] = handled[Down] /\ handled[Up] \in Nat
      /\ Len(sent[Down]) = handled[Up]
  BY <1>1, Behind
<1>3. open[Up[1]] /\ Short(sent[Up])
  BY TwoLinks DEF Talking
<1>4. PICK n \in Nat \ {0} : n = handled[Up] + 1 /\ handled[Up] = n - 1
  BY <1>2
<1>5. /\ sent[Up][n] \in Messages
      /\ NextMessage(Up) = [tag |-> sent[Up][n].tag, data |-> sent[Up][n].data \o <<Newline>>]
  BY <1>3, <1>4, NextIs, TwoLinks, Zenon
<1>6. n \in 1..Len(sent[Up])
  BY <1>2, <1>4
<1>7. sent[Up][n].tag \in IF n = 1 THEN {<<"slogin">>} ELSE Requests
  BY <1>6 DEF InStep, SaidInTurn
<1> QED BY <1>2, <1>4, <1>5, <1>7

\* The worker gives its reply, with the room as the reply says.
LEMMA WorkerAnswers ==
  ASSUME SessionInv, Talking, InStep, Waiting(Up), Take(Up), NEW r \in {OK, ERR}, Answer(r),
         UNCHANGED <<client, acked>>, worker' \in {"greet", "serve", "delete"},
         NEW rooms, rooms = Acknowledged(sent[Up][Len(sent[Up])]),
         r = OK => RoomIs(rooms)', r # OK => UNCHANGED user_room
  PROVE  InStep'
<1>1. PICK n \in Nat \ {0} :
        /\ n = Len(sent[Up]) /\ handled[Up] = n - 1 /\ handled[Down] = n - 1
        /\ Len(sent[Down]) = n - 1
  BY WorkerCatchesUp
<1>2. r \in Messages /\ Send(Down, r)
  BY RepliesTyped DEF Answer
<1>3. /\ Len(sent'[Down]) = n
      /\ \A k \in 1..n - 1 : sent'[Down][k] = sent[Down][k]
      /\ sent'[Down][n] = r
      /\ sent'[Up] = sent[Up] /\ left'[Up] = left[Up]
      /\ UNCHANGED m_last_result
  <2>1. Up \in Links \ {Down}
    BY TwoLinks DEF Up, Down
  <2>2. /\ Len(sent'[Down]) = Len(sent[Down]) + 1
        /\ \A k \in 1..Len(sent[Down]) : sent'[Down][k] = sent[Down][k]
        /\ sent'[Down][Len(sent[Down]) + 1] = r
        /\ \A e \in Links \ {Down} : sent'[e] = sent[e] /\ left'[e] = left[e]
        /\ UNCHANGED m_last_result
    BY <1>2, TwoLinks, OneMoreSent
  <2>3. (n - 1) + 1 = n
    BY <1>1
  <2> QED BY <1>1, <2>1, <2>2, <2>3
<1>4. handled'[Up] = n /\ handled'[Down] = n - 1
  <2>1. handled \in [Links -> Nat] /\ Up # Down
    BY DEF SessionInv, CountsOK, Up, Down
  <2> QED BY <1>1, <2>1, TwoLinks DEF Take
<1>5. SaidInTurn'
  <2>1. \A k \in 1..n : sent'[Down][k] \in {OK, ERR}
    <3>1. \A k \in 1..n - 1 : sent'[Down][k] \in {OK, ERR}
      BY <1>1, <1>3 DEF InStep, SaidInTurn
    <3> QED BY <1>3, <3>1
  <2> QED BY <1>3, <2>1 DEF InStep, SaidInTurn
<1>6. ClientInStep'
  BY <1>1, <1>3, <1>4 DEF InStep, ClientInStep
<1>7. WorkerInStep'
  BY <1>1, <1>3, <1>4 DEF WorkerInStep
<1>8. RoomIs(Told)'
  <2>1. Told = acked
    BY <1>1 DEF Told
  <2>2. CASE r = OK
    <3>1. Told' = rooms
      BY <1>1, <1>3, <1>4, <2>2 DEF Told, Acknowledged
    <3> QED BY <2>2, <3>1 DEF RoomIs
  <2>3. CASE r # OK
    <3>1. Told' = acked
      BY <1>1, <1>3, <1>4, <2>3 DEF Told
    <3> QED BY <2>1, <2>3, <3>1 DEF InStep, RoomIs
  <2> QED BY <2>2, <2>3
<1> QED BY <1>5, <1>6, <1>7, <1>8 DEF InStep


\* A connection that has just been made.
LEMMA SenderConnects ==
  ASSUME EndsInv, Connected
  PROVE  SenderInv'
<1>1. /\ client = "connect" /\ worker = "none"
      /\ client' = "login" /\ worker' = "backlog"
      /\ UNCHANGED <<sent, handled, user_room, acked, m_last_result, left>>
  BY DEF Connected, EndsInv, SessionInv, NotConnectedYet, histories, writing
<1>2. /\ sent[Up] = <<>> /\ sent[Down] = <<>>
      /\ handled[Up] = 0 /\ handled[Down] = 0 /\ acked = {} /\ user_room = NoRoom
  BY <1>1, TwoLinks DEF EndsInv, SessionInv, NotConnectedYet, Fresh
<1>3. SaidInTurn' /\ ClientInStep' /\ WorkerInStep'
  BY <1>1, <1>2 DEF SaidInTurn, ClientInStep, WorkerInStep
<1>4. RoomIs(Told)'
  BY <1>1, <1>2 DEF RoomIs, Told
<1> QED BY <1>3, <1>4 DEF SenderInv, InStep

\* What the client does.
LEMMA SenderClient ==
  ASSUME EndsInv, Talking, InStep, open'["client"],
         ClientSteps \/ \E input \in Inputs : Type(input), ~Connected
  PROVE  InStep'
<1>0. SessionInv /\ ArgumentsOK
  BY DEF EndsInv, SessionInv
<1>1. client \in {"login", "prompt", "send", "await", "close"} /\ program = "sender"
  BY DEF InStep, ClientInStep, Talking
<1>2. CASE NotConnected \/ Join \/ Chat
  BY <1>1, <1>2 DEF NotConnected, Join, Chat
<1>3. CASE Login
  <2>1. PICK msg : msg = Message("slogin", name) /\ Request(msg) /\ client = "login"
    BY <1>1, <1>3 DEF Login
  <2>2. msg \in Messages /\ msg.tag = <<"slogin">>
    BY <1>0, <2>1, MessageTyped DEF ArgumentsOK, Words, Message
  <2> QED BY <1>0, <2>1, <2>2, InStepRequest
<1>4. CASE Sent
  BY <1>0, <1>4, InStepSent
<1>5. CASE Reply
  BY <1>0, <1>5, InStepReply
<1>6. CASE NothingReceived
  BY <1>6, TwoLinks DEF NothingReceived, ReceiveFails, Talking
<1>7. ASSUME NEW input \in Inputs, Type(input)
      PROVE  InStep'
  <2>1. CASE Throws(input) /\ client' = "close"
             /\ UNCHANGED <<connections, worker, user_room, handled, histories>>
    <3>1. ClientInStep'
      BY <1>7, <2>1 DEF Type, InStep, ClientInStep, connections, writing
    <3> QED BY <2>1, <3>1, ClientGoesOn DEF connections, writing, histories
  <2>2. CASE ~Throws(input) /\ Request(Command(input))
    <3>1. input \in Seq(Chars)
      BY SessionAssumption
    <3>2. PICK msg \in Messages : msg = Command(input) /\ Request(msg)
      BY <2>2, <3>1, CommandTyped
    <3>3. msg.tag \in Requests
      BY <3>2 DEF Command, Message, Requests
    <3>4. client = "prompt"
      BY <1>7 DEF Type
    <3> QED BY <1>0, <3>2, <3>3, <3>4, InStepRequest
  <2> QED BY <1>7, <2>1, <2>2 DEF Type
<1> QED BY <1>2, <1>3, <1>4, <1>5, <1>6, <1>7 DEF ClientSteps

\* The worker before it serves.
LEMMA SenderWorkerStarts ==
  ASSUME EndsInv, Talking, InStep,
         Accept \/ LoginRead \/ LoginFailed \/ Greeted
  PROVE  InStep'
<1>0. SessionInv /\ BrokenByTheOther
  BY DEF EndsInv
<1>1. CASE Accept
  <2>1. UNCHANGED <<sent, handled, client, user_room, acked, left, m_last_result>>
    BY <1>1 DEF Accept, connections, writing, histories
  <2>2. WorkerInStep'
    BY <1>1, <2>1 DEF Accept, InStep, WorkerInStep
  <2>3. SaidInTurn' /\ ClientInStep'
    BY <2>1 DEF InStep, SaidInTurn, ClientInStep
  <2>4. RoomIs(Told)'
    BY <2>1 DEF InStep, RoomIs, Told, Acknowledged
  <2> QED BY <2>2, <2>3, <2>4 DEF InStep
<1>2. CASE LoginRead
  <2>1. /\ worker = "login" /\ Waiting(Up) /\ Take(Up)
        /\ UNCHANGED <<client, user_room, acked>>
    BY <1>2 DEF LoginRead, Idle, histories
  <2>2. Len(sent[Down]) = 0
    BY <2>1 DEF InStep, WorkerInStep
  <2>3. PICK n \in Nat \ {0} :
           /\ n = Len(sent[Up]) /\ handled[Up] = n - 1 /\ handled[Down] = n - 1
           /\ Len(sent[Down]) = n - 1
           /\ sent[Up][n] \in Messages
           /\ sent[Up][n].tag \in IF n = 1 THEN {<<"slogin">>} ELSE Requests
           /\ NextMessage(Up) = [tag |-> sent[Up][n].tag,
                                 data |-> sent[Up][n].data \o <<Newline>>]
    BY <1>0, <2>1, WorkerCatchesUp
  <2>4. n = 1
    <3>1. n \in Nat \ {0} /\ n - 1 = 0
      BY <2>2, <2>3
    <3> QED BY <3>1
  <2>5. sent[Up][Len(sent[Up])].tag = <<"slogin">> /\ NextMessage(Up).tag = <<"slogin">>
    BY <2>3, <2>4
  <2>6. Answer(OK) /\ worker' = "greet"
    BY <1>2, <2>5 DEF LoginRead
  <2>7. PICK rooms : rooms = Acknowledged(sent[Up][Len(sent[Up])])
    OBVIOUS
  <2>8. rooms = acked /\ Told = acked
    BY <2>3, <2>5, <2>7 DEF Acknowledged, Told
  <2>9. RoomIs(rooms)'
    BY <2>1, <2>8 DEF InStep, RoomIs
  <2> QED BY <1>0, <2>1, <2>6, <2>7, <2>9, WorkerAnswers
<1>3. CASE LoginFailed
  BY <1>0, <1>3, TwoLinks DEF LoginFailed, BrokenByTheOther, Talking
<1>4. CASE Greeted
  <2>1. /\ worker = "greet"
        /\ UNCHANGED <<sent, handled, client, user_room, acked, left, m_last_result>>
    BY <1>4 DEF Greeted, Idle, connections, writing, histories
  <2>2. /\ received[Up][1] = Encode(sent[Up][1]) /\ 1 \in 1..Len(sent[Up])
        /\ sent[Up][1] \in Messages
    <3>1. Len(sent[Down]) > 0 /\ Len(sent[Down]) = handled[Up]
      BY <2>1 DEF InStep, WorkerInStep
    <3>2. 1 \in 1..Len(received[Up]) /\ 1 \in 1..Len(sent[Up])
      BY <1>0, <3>1, Behind
    <3> QED BY <1>0, <3>2, TwoLinks, ReadWhole, SentTyped DEF Talking
  <2>3. Parse(received[Up][1]).tag = <<"slogin">>
    <3>1. Parse(received[Up][1]).tag = sent[Up][1].tag
      BY <2>2, ParseEncoded
    <3> QED BY <2>2, <3>1 DEF InStep, SaidInTurn
  <2>4. worker' = "serve"
    BY <1>4, <2>3 DEF Greeted
  <2>5. WorkerInStep'
    BY <2>1, <2>4 DEF InStep, WorkerInStep
  <2>6. SaidInTurn' /\ ClientInStep'
    BY <2>1 DEF InStep, SaidInTurn, ClientInStep
  <2>7. RoomIs(Told)'
    BY <2>1 DEF InStep, RoomIs, Told, Acknowledged
  <2> QED BY <2>5, <2>6, <2>7 DEF InStep
<1> QED BY <1>1, <1>2, <1>3, <1>4

\* The worker serves.
LEMMA SenderServed ==
  ASSUME EndsInv, Talking, InStep, Serve
  PROVE  InStep'
<1>0. SessionInv
  BY DEF EndsInv
<1>1. /\ worker = "serve" /\ Waiting(Up) /\ Take(Up)
      /\ UNCHANGED <<client, acked>>
  BY DEF Serve, ServeJoin, ServeSendall, ServeLeave, ServeQuit, ServeOther, Serving, Idle, histories
<1>2. Len(sent[Down]) > 0
  BY <1>1 DEF InStep, WorkerInStep
<1>3. PICK n \in Nat \ {0} :
         /\ n = Len(sent[Up]) /\ handled[Up] = n - 1 /\ handled[Down] = n - 1
         /\ Len(sent[Down]) = n - 1
         /\ sent[Up][n] \in Messages
         /\ sent[Up][n].tag \in IF n = 1 THEN {<<"slogin">>} ELSE Requests
         /\ NextMessage(Up) = [tag |-> sent[Up][n].tag,
                               data |-> sent[Up][n].data \o <<Newline>>]
  BY <1>0, <1>1, WorkerCatchesUp
<1>4. PICK msg \in Messages : msg = sent[Up][Len(sent[Up])]
  BY <1>3
<1>5. msg.tag \in Requests /\ NextMessage(Up).tag = msg.tag
      /\ NextMessage(Up).data = msg.data \o <<Newline>>
  <2>1. n # 1
    BY <1>2, <1>3
  <2>2. sent[Up][n].tag \in Requests
    BY <1>3, <2>1
  <2>3. msg = sent[Up][n]
    BY <1>3, <1>4
  <2>4. NextMessage(Up) = [tag |-> msg.tag, data |-> msg.data \o <<Newline>>]
    BY <1>3, <2>3
  <2>5. NextMessage(Up).tag = msg.tag /\ NextMessage(Up).data = msg.data \o <<Newline>>
    BY <2>4
  <2>6. msg.tag \in Requests
    BY <2>2, <2>3
  <2> QED BY <2>5, <2>6
<1>6. msg.data \in Seq(Chars) /\ NextMessage(Up).data = Append(msg.data, Newline)
  <2>1. msg.data \in Seq(Chars) /\ Newline \in Chars
    BY DEF Messages, Chars
  <2> QED BY <1>5, <2>1, AppendIsConcat
<1>7. PICK rooms : rooms = Acknowledged(msg)
  OBVIOUS
<1>8. Told = acked
  BY <1>3 DEF Told
<1>9. RoomIs(acked)
  BY <1>8 DEF InStep
<1>10. CASE ServeJoin
  <2>1. Answer(OK) /\ user_room' = Append(msg.data, Newline) /\ worker' = "serve" /\ msg.tag = <<"join">>
    BY <1>1, <1>5, <1>6, <1>10 DEF ServeJoin, Serving
  <2>2. rooms = {msg.data}
    BY <1>7, <2>1 DEF Acknowledged
  <2>3. RoomIs(rooms)'
    BY <2>1, <2>2 DEF RoomIs
  <2> QED BY <1>0, <1>1, <1>4, <1>7, <2>1, <2>3, WorkerAnswers
<1>11. CASE ServeSendall
  <2>1. msg.tag = <<"sendall">> /\ UNCHANGED user_room /\ worker' = "serve"
    BY <1>1, <1>5, <1>11 DEF ServeSendall, Serving
  <2>2. PICK r \in {OK, ERR} : Answer(r)
    BY <1>11 DEF ServeSendall
  <2>3. rooms = acked
    BY <1>7, <2>1 DEF Acknowledged
  <2>4. RoomIs(rooms)'
    BY <1>9, <2>1, <2>3 DEF RoomIs
  <2> QED BY <1>0, <1>1, <1>4, <1>7, <2>1, <2>2, <2>4, WorkerAnswers
<1>12. CASE ServeLeave
  <2>1. msg.tag = <<"leave">> /\ worker' = "serve"
    BY <1>1, <1>5, <1>12 DEF ServeLeave, Serving
  <2>2. rooms = {}
    BY <1>7, <2>1 DEF Acknowledged
  <2>3. CASE Answer(OK) /\ user_room' = NoRoom
    <3>1. RoomIs(rooms)'
      BY <2>2, <2>3 DEF RoomIs
    <3> QED BY <1>0, <1>1, <1>4, <1>7, <2>1, <2>3, <3>1, WorkerAnswers
  <2>4. CASE Answer(ERR) /\ UNCHANGED user_room
    <3>1. ERR # OK
      BY DEF ERR, OK, Message
    <3> QED BY <1>0, <1>1, <1>4, <1>7, <2>1, <2>4, <3>1, WorkerAnswers
  <2> QED BY <1>12, <2>3, <2>4 DEF ServeLeave
<1>13. CASE ServeQuit
  <2>1. msg.tag = <<"quit">> /\ UNCHANGED user_room /\ worker' = "delete" /\ Answer(OK)
    BY <1>1, <1>5, <1>13 DEF ServeQuit, Serving
  <2>2. rooms = acked
    BY <1>7, <2>1 DEF Acknowledged
  <2>3. RoomIs(rooms)'
    BY <1>9, <2>1, <2>2 DEF RoomIs
  <2> QED BY <1>0, <1>1, <1>4, <1>7, <2>1, <2>3, WorkerAnswers
<1>14. CASE ServeOther
  BY <1>5, <1>14 DEF ServeOther, Requests
<1> QED BY <1>10, <1>11, <1>12, <1>13, <1>14 DEF Serve

\* Every step keeps a sender and its worker in step.
LEMMA SenderKept ==
  ASSUME EndsInv, SenderInv, [Next]_vars
  PROVE  SenderInv'
<1>0. SessionInv
  BY DEF EndsInv
<1>1. CASE Connected
  BY <1>1, SenderConnects
<1>2. CASE ~Connected
  <2>1. SUFFICES ASSUME Talking' PROVE InStep'
    BY DEF SenderInv
  <2>2. Talking /\ InStep /\ UNCHANGED <<open, program>> /\ ~ClientEnds /\ ~WorkerEnds
    BY <1>0, <1>2, <2>1, TalkedBefore DEF SenderInv
  <2>3. open'["client"]
    BY <2>1 DEF Talking
  <2>4. CASE Start \/ UNCHANGED vars
    <3>1. UNCHANGED <<sent, handled, client, worker, user_room, acked, left, m_last_result>>
      BY <2>4 DEF Start, vars, connections, writing, peers, histories
    <3>2. client = "send" /\ left'[Up] = <<>> => m_last_result'["client"] = "SUCCESS"
      BY <2>2, <3>1 DEF InStep, ClientInStep
    <3> QED BY <2>2, <3>1, <3>2, InStepStays
  <2>5. CASE ClientSteps \/ \E input \in Inputs : Type(input)
    BY <1>2, <2>2, <2>3, <2>5, SenderClient
  <2>6. CASE WorkerSteps
    <3>1. worker \in {"backlog", "unserved", "login", "greet", "serve", "delete"}
      BY <2>2 DEF InStep, WorkerInStep
    <3>2. CASE Accept \/ LoginRead \/ LoginFailed \/ Greeted
      BY <2>2, <3>2, SenderWorkerStarts
    <3>3. CASE JoinRead \/ Welcomed \/ Deliver \/ DeliverFailed \/ GiveUp
      BY <3>1, <3>3 DEF JoinRead, Welcomed, Deliver, DeliverFailed, GiveUp, Idle
    <3>4. CASE Serve
      BY <2>2, <3>4, SenderServed
    <3>5. CASE NothingRead
      BY <2>2, <3>5, TwoLinks DEF NothingRead, ReceiveFails, Talking
    <3> QED BY <2>6, <3>2, <3>3, <3>4, <3>5 DEF WorkerSteps
  <2>7. CASE \E u \in Names, t \in Texts : Broadcast(u, t)
    BY <2>2, <2>7 DEF Broadcast, Talking
  <2>8. CASE \E d \in Links : Progress(d)
    BY <1>0, <2>2, <2>8, InStepProgress
  <2> QED BY <2>2, <2>4, <2>5, <2>6, <2>7, <2>8 DEF Next
<1> QED BY <1>1, <1>2

\* Along every session a sender and its worker are in step.
THEOREM SenderAlways ==
  Spec => []SenderInv
<1>1. SessionInit => SenderInv
  BY TwoLinks DEF SessionInit, SenderInv, Talking
<1>2. EndsInv /\ SenderInv /\ [Next]_vars => SenderInv'
  BY SenderKept
<1> QED BY <1>1, <1>2, EndsAlways, PTL DEF Spec

-----------------------------------------------------------------------------
(* A client and its requests                                                 *)

\* Where a client is by the requests it has made and the replies it has taken.
\* Only a receiver chats.
AsksInTurn ==
  LET asked == Len(sent[Up])
  IN /\ client \in {"connect", "login"} => asked = 0 /\ handled[Down] = 0
     /\ client \in {"send", "await"} => asked > 0
     /\ program = "sender" =>
          /\ client \notin {"join", "chat"} /\ shown = <<>>
          /\ \A k \in 1..asked : sent[Up][k].tag # <<"rlogin">>
     /\ program = "receiver" =>
          /\ client # "prompt"
          /\ asked <= 2
          /\ \A k \in 1..asked : sent[Up][k].tag = <<IF k = 1 THEN "rlogin" ELSE "join">>
          /\ asked = 2 => sent[Up][2].data = room
          /\ client \in {"send", "await"} => asked = handled[Down] + 1
          /\ client = "join" => asked = 1 /\ handled[Down] = 1
          /\ client = "chat" => asked = 2 /\ handled[Down] >= 2


-----------------------------------------------------------------------------
(* What a client asks                                                        *)

\* What goes on elsewhere does not touch what the client has asked and taken.
LEMMA ElsewhereLeaves ==
  ASSUME SessionInv,
         \/ Start \/ UNCHANGED vars \/ WorkerSteps \/ WorkerEnds
         \/ (\E u \in Names, t \in Texts : Broadcast(u, t)) \/ \E d \in Links : Progress(d)
  PROVE  /\ UNCHANGED <<client, shown, acked, program, room>>
         /\ sent'[Up] = sent[Up] /\ handled'[Down] = handled[Down]
<1>0. /\ handled \in [Links -> Nat] /\ sent \in [Links -> Seq(Messages)]
      /\ Up # Down /\ Up \in Links /\ Down \in Links
  BY TwoLinks DEF SessionInv, CountsOK, ConnectionInv, ConnectionTypes, Up, Down
<1>1. CASE Start \/ UNCHANGED vars
  BY <1>1 DEF Start, vars, connections, writing, peers, histories, arguments
<1>2. CASE \E d \in Links : Progress(d)
  BY <1>2 DEF Progress, Write, WriteLost, Refill, NextChar, LastLine, writing, peers, histories,
              arguments
<1>3. CASE WorkerEnds \/ \E u \in Names, t \in Texts : Broadcast(u, t)
  BY <1>3 DEF WorkerEnds, Close, Broadcast, connections, writing, histories, arguments
<1>4. ASSUME NEW msg, Send(Down, msg) \/ SendRefused(Down, msg) PROVE sent'[Up] = sent[Up]
  BY <1>0, <1>4 DEF Send, SendRefused, writing
<1>5. Take(Up) => handled'[Down] = handled[Down]
  BY <1>0 DEF Take
<1>6. CASE Accept \/ LoginFailed \/ Greeted \/ Welcomed \/ DeliverFailed \/ NothingRead \/ GiveUp
  BY <1>4, <1>6 DEF Accept, LoginFailed, Greeted, Welcomed, DeliverFailed, NothingRead, GiveUp,
                    Answer, ReceiveFails, connections, writing, histories, arguments
<1>7. CASE LoginRead \/ JoinRead
  BY <1>4, <1>5, <1>7 DEF LoginRead, JoinRead, Answer, histories, arguments
<1>8. CASE Deliver
  BY <1>4, <1>8 DEF Deliver, histories, arguments
<1>9. CASE Serve
  <2>1. UNCHANGED <<client, shown, acked, program, room>> /\ Take(Up)
    BY <1>9 DEF Serve, ServeJoin, ServeSendall, ServeLeave, ServeQuit, ServeOther, Serving,
                histories, arguments
  <2>2. (\E msg : Answer(msg)) \/ UNCHANGED connections
    BY <1>9 DEF Serve, ServeJoin, ServeSendall, ServeLeave, ServeQuit, ServeOther
  <2> QED BY <1>4, <1>5, <2>1, <2>2 DEF Answer, connections, writing
<1> QED BY <1>1, <1>2, <1>3, <1>6, <1>7, <1>8, <1>9 DEF WorkerSteps

\* A client stops, or a sender asks for the next command.
LEMMA AsksStops ==
  ASSUME AsksInTurn, UNCHANGED <<sent, handled, program, room, shown>>, client # "connect",
         client' \in {"close", "ended"} \/ (client' = "prompt" /\ program = "sender")
  PROVE  AsksInTurn'
BY DEF AsksInTurn

\* Where a request that fails leaves a client.
LEMMA AsksFails ==
  ASSUME SessionInv, AsksInTurn, client \in {"send", "await"}
  PROVE  LET next == Proceed(Last(sent[Up]).tag, FALSE)
         IN next = "close" \/ (next = "prompt" /\ program = "sender")
<1>1. PICK n \in Nat \ {0} : n = Len(sent[Up])
  BY SentTyped, TwoLinks DEF AsksInTurn
<1>2. n \in 1..Len(sent[Up]) /\ Last(sent[Up]) = sent[Up][n]
  BY <1>1 DEF Last
<1>3. program \in {"sender", "receiver"}
  BY DEF SessionInv, ArgumentsOK
<1> QED BY <1>2, <1>3 DEF AsksInTurn, Proceed

\* A request.
LEMMA AsksMore ==
  ASSUME SessionInv, AsksInTurn, NEW msg \in Messages, Request(msg),
         client \in {"login", "prompt", "join"}, client = "prompt" => program = "sender",
         program = "sender" => msg.tag # <<"rlogin">>,
         program = "receiver" => msg.tag = <<IF client = "login" THEN "rlogin" ELSE "join">>,
         program = "receiver" /\ client = "join" => msg.data = room
  PROVE  AsksInTurn'
<1>0. UNCHANGED <<handled, shown, program, room>> /\ program \in {"sender", "receiver"}
  BY DEF Request, histories, arguments, SessionInv, ArgumentsOK
<1>1. CASE Send(Up, msg) /\ client' = "send"
  <2>1. PICK n \in Nat :
          /\ n = Len(sent[Up]) /\ Len(sent'[Up]) = n + 1
          /\ \A k \in 1..n : sent'[Up][k] = sent[Up][k]
          /\ sent'[Up][n + 1] = msg
    BY <1>1, TwoLinks, OneMoreSent
  <2>2. \A k \in 1..n + 1 : k = n + 1 \/ k \in 1..n
    OBVIOUS
  <2>3. CASE program = "sender"
    <3>1. \A k \in 1..n + 1 : sent'[Up][k].tag # <<"rlogin">>
      BY <2>1, <2>2, <2>3 DEF AsksInTurn
    <3>2. client' \notin {"join", "chat"} /\ shown' = <<>>
      BY <1>0, <1>1, <2>3 DEF AsksInTurn
    <3> QED BY <1>0, <1>1, <2>1, <2>3, <3>1, <3>2 DEF AsksInTurn
  <2>4. CASE program = "receiver"
    <3>1. /\ client \in {"login", "join"}
          /\ n = IF client = "login" THEN 0 ELSE 1
          /\ handled[Down] = n
      BY <2>1, <2>4 DEF AsksInTurn
    <3>2. \A k \in 1..n + 1 : sent'[Up][k].tag = <<IF k = 1 THEN "rlogin" ELSE "join">>
      BY <2>1, <2>2, <2>4, <3>1 DEF AsksInTurn
    <3>3. n + 1 = 2 => sent'[Up][2].data = room'
      BY <1>0, <2>1, <2>4, <3>1
    <3>4. n + 1 <= 2 /\ n + 1 > 0 /\ n + 1 = handled'[Down] + 1
      BY <1>0, <3>1
    <3> QED BY <1>0, <1>1, <2>1, <2>4, <3>2, <3>3, <3>4 DEF AsksInTurn
  <2> QED BY <1>0, <2>3, <2>4
<1>2. CASE SendRefused(Up, msg) /\ client' = Proceed(msg.tag, FALSE)
  <2>1. client' = "close" \/ (client' = "prompt" /\ program = "sender")
    BY <1>0, <1>2 DEF Proceed
  <2> QED BY <1>0, <1>2, <2>1, AsksStops DEF SendRefused, writing
<1> QED BY <1>1, <1>2 DEF Request

\* Every step keeps a client's requests in turn.
LEMMA AsksKept ==
  ASSUME SessionInv, Fresh, AsksInTurn, [Next]_vars
  PROVE  AsksInTurn'
<1>0. /\ handled \in [Links -> Nat] /\ Up # Down /\ Down \in Links /\ handled[Down] \in Nat
      /\ program \in {"sender", "receiver"}
      /\ name \in Seq(Chars) /\ room \in Seq(Chars)
  BY TwoLinks DEF SessionInv, CountsOK, ArgumentsOK, Up, Down
<1>1. CASE \/ Start \/ UNCHANGED vars \/ WorkerSteps \/ WorkerEnds
           \/ (\E u \in Names, t \in Texts : Broadcast(u, t)) \/ \E d \in Links : Progress(d)
  <2>1. /\ UNCHANGED <<client, shown, program, room>>
        /\ sent'[Up] = sent[Up] /\ handled'[Down] = handled[Down]
    BY <1>1, ElsewhereLeaves
  <2> QED BY <2>1 DEF AsksInTurn
<1>2. CASE Connected
  <2>1. /\ client = "connect" /\ client' = "login"
        /\ UNCHANGED <<sent, handled, shown, program, room>>
    BY <1>2 DEF Connected, writing, histories, arguments
  <2> QED BY <2>1 DEF AsksInTurn
<1>3. CASE NotConnected
  <2>1. /\ client = "connect" /\ client' = "ended"
        /\ UNCHANGED <<sent, handled, shown, program, room>>
    BY <1>3 DEF NotConnected, connections, writing, histories, arguments
  <2> QED BY <2>1 DEF AsksInTurn
<1>4. CASE ClientEnds
  <2>1. UNCHANGED <<sent, handled, shown, program, room>>
    BY <1>4 DEF ClientEnds, Close, writing, histories, arguments
  <2> QED BY <1>4, <2>1, AsksStops DEF ClientEnds
<1>5. CASE Login \/ Join
  <2>1. PICK msg : /\ msg = Message(IF client = "join" THEN "join"
                                    ELSE IF program = "sender" THEN "slogin" ELSE "rlogin",
                                    IF client = "join" THEN room ELSE name)
                   /\ Request(msg) /\ client \in {"login", "join"}
    BY <1>5 DEF Login, Join
  <2>2. msg \in Messages
    BY <1>0, <2>1, MessageTyped DEF Words
  <2>3. /\ program = "sender" => msg.tag # <<"rlogin">>
        /\ program = "receiver" => msg.tag = <<IF client = "login" THEN "rlogin" ELSE "join">>
        /\ program = "receiver" /\ client = "join" => msg.data = room
    BY <2>1 DEF Message, AsksInTurn
  <2> QED BY <2>1, <2>2, <2>3, AsksMore
<1>6. ASSUME NEW input \in Inputs, Type(input) PROVE AsksInTurn'
  <2>1. client = "prompt" /\ program = "sender"
    BY <1>0, <1>6 DEF Type, AsksInTurn
  <2>2. CASE client' = "close" /\ UNCHANGED <<connections, handled, histories, arguments>>
    BY <2>1, <2>2, AsksStops DEF connections, writing, histories, arguments
  <2>3. CASE ~Throws(input) /\ Request(Command(input))
    <3>1. input \in Seq(Chars)
      BY SessionAssumption
    <3>2. PICK msg \in Messages : msg = Command(input) /\ Request(msg)
      BY <2>3, <3>1, CommandTyped
    <3>3. msg.tag # <<"rlogin">>
      BY <3>2 DEF Command, Message
    <3> QED BY <2>1, <3>2, <3>3, AsksMore
  <2> QED BY <1>6, <2>2, <2>3 DEF Type
<1>7. CASE Sent
  <2>1. client = "send" /\ UNCHANGED <<sent, handled, shown, program, room>>
    BY <1>7 DEF Sent, connections, writing, histories, arguments
  <2>2. CASE client' = "await"
    BY <2>1, <2>2 DEF AsksInTurn
  <2>3. CASE client' = Proceed(Last(sent[Up]).tag, FALSE)
    BY <2>1, <2>3, AsksFails, AsksStops
  <2> QED BY <1>7, <2>2, <2>3 DEF Sent
<1>8. CASE NothingReceived
  <2>1. /\ client \in {"await", "chat"} /\ UNCHANGED <<sent, handled, shown, program, room>>
    BY <1>8, TwoLinks DEF NothingReceived, Receiving, ReceiveFails, writing, histories, arguments
  <2>2. CASE client = "chat"
    BY <1>8, <2>1, <2>2, AsksStops DEF NothingReceived
  <2>3. CASE client = "await"
    BY <1>8, <2>1, <2>3, AsksFails, AsksStops DEF NothingReceived
  <2> QED BY <2>1, <2>2, <2>3
<1>9. ASSUME Take(Down) PROVE handled'[Down] = handled[Down] + 1
  BY <1>0, <1>9 DEF Take
<1>10. CASE Reply
  <2>1. /\ client = "await" /\ UNCHANGED <<sent, shown, program, room>> /\ Take(Down)
    BY <1>10 DEF Reply, connections, writing, arguments
  <2>2. PICK n \in Nat \ {0} : n = Len(sent[Up])
    BY <2>1, SentTyped, TwoLinks DEF AsksInTurn
  <2>3. n \in 1..Len(sent[Up]) /\ Last(sent[Up]) = sent[Up][n]
    BY <2>2 DEF Last
  <2>4. PICK ok \in BOOLEAN : client' = Proceed(sent[Up][n].tag, ok)
    BY <1>10, <2>3 DEF Reply
  <2>5. CASE program = "sender"
    <3>1. client' \in {"prompt", "close"}
      BY <2>3, <2>4, <2>5 DEF AsksInTurn, Proceed
    <3> QED BY <2>1, <2>5, <3>1 DEF AsksInTurn
  <2>6. CASE program = "receiver"
    <3>1. n = 1 \/ n = 2
      <4>1. n <= 2
        BY <2>2, <2>6 DEF AsksInTurn
      <4> QED BY <4>1
    <3>2. sent[Up][n].tag = <<IF n = 1 THEN "rlogin" ELSE "join">> /\ n = handled[Down] + 1
      BY <2>1, <2>2, <2>3, <2>6 DEF AsksInTurn
    <3>3. client' \in {"close", IF n = 1 THEN "join" ELSE "chat"}
      <4>1. CASE n = 1
        <5>1. sent[Up][n].tag = <<"rlogin">>
          BY <3>2, <4>1
        <5> QED BY <2>4, <4>1, <5>1 DEF Proceed
      <4>2. CASE n = 2
        <5>1. sent[Up][n].tag = <<"join">>
          BY <3>2, <4>2
        <5> QED BY <2>4, <2>6, <4>2, <5>1 DEF Proceed
      <4> QED BY <3>1, <4>1, <4>2
    <3>4. handled'[Down] = n
      BY <1>9, <2>1, <3>2
    <3> QED BY <1>0, <2>1, <2>2, <2>6, <3>1, <3>3, <3>4 DEF AsksInTurn
  <2> QED BY <1>0, <2>5, <2>6
<1>11. CASE Chat
  <2>1. /\ client = "chat" /\ client' \in {"chat", "close"} /\ Take(Down)
        /\ UNCHANGED <<sent, program, room>>
    BY <1>11 DEF Chat, connections, writing, arguments
  <2>2. program = "receiver"
    BY <1>0, <2>1 DEF AsksInTurn
  <2>3. handled'[Down] = handled[Down] + 1
    BY <1>9, <2>1
  <2> QED BY <1>0, <2>1, <2>2, <2>3 DEF AsksInTurn
<1> QED BY <1>1, <1>2, <1>3, <1>4, <1>5, <1>6, <1>7, <1>8, <1>10, <1>11 DEF Next, ClientSteps

\* Along every session the requests are in turn.
THEOREM AsksAlways ==
  Spec => []AsksInTurn
<1>1. SessionInit => AsksInTurn
  BY TwoLinks DEF SessionInit, InitStreams, AsksInTurn
<1>2. EndsInv /\ AsksInTurn /\ [Next]_vars => AsksInTurn'
  BY AsksKept DEF EndsInv
<1> QED BY <1>1, <1>2, EndsAlways, PTL DEF Spec

-----------------------------------------------------------------------------
(* No reply is taken for that of another request                             *)

\* What a prompt means for the connection and the room.
LEMMA InvAgrees ==
  ASSUME EndsInv, SenderInv, AsksInTurn
  PROVE  AgreeAtPrompt
<1>1. SUFFICES ASSUME client = "prompt", open["worker"], LinesOfAtMost(Up, MAX_LEN - 1)
               PROVE  RepliesInStep /\ RoomIs(acked)
  BY DEF AgreeAtPrompt
<1>2. SessionInv /\ program = "sender" /\ open["client"]
  BY <1>1 DEF EndsInv, SessionInv, ArgumentsOK, AsksInTurn, OpenAtWork
<1>3. Short(sent[Up])
  <2>1. DOMAIN sent[Up] = 1..Len(sent[Up])
    BY <1>2, SentTyped, TwoLinks
  <2> QED BY <1>1, <2>1 DEF LinesOfAtMost, Short
<1>4. Talking /\ InStep
  BY <1>1, <1>2, <1>3 DEF Talking, SenderInv
<1>5. Len(sent[Up]) = handled[Down]
  BY <1>1, <1>4 DEF InStep, ClientInStep
<1>6. /\ Len(received[Up]) = Len(sent[Up]) /\ Len(received[Down]) = Len(sent[Down])
      /\ Len(received[Down]) = Len(sent[Up]) /\ handled[Down] = Len(sent[Down])
      /\ Short(sent[Down])
  BY <1>2, <1>4, <1>5, Behind
<1>7. \A d \in Links : left[d] = <<>> /\ wire[d] = <<>> /\ rio_buf[d] = <<>> /\ usrbuf[d] = <<>>
  BY <1>1, <1>2, <1>3, <1>6, TwoLinks, NothingOnItsWay
<1>8. Told = acked
  <2>1. PICK n \in Nat : n = handled[Down] /\ n = Len(sent[Down])
    BY <1>2, <1>6, CountsTyped, TwoLinks
  <2>2. ~(n < n)
    OBVIOUS
  <2> QED BY <2>1, <2>2 DEF Told
<1> QED BY <1>4, <1>6, <1>7, <1>8 DEF RepliesInStep, InStep

\* A sender that prompts has had one reply to each request it has made, nothing
\* is on its way, and the worker is in the room the user has been told of
\* (sender.cpp:68-107, server.cpp:37-68), as long as the requests fit the buffer
\* of receive.
THEOREM AgreeAtPromptAlways ==
  Spec => []AgreeAtPrompt
<1>1. EndsInv /\ SenderInv /\ AsksInTurn => AgreeAtPrompt
  BY InvAgrees
<1> QED BY <1>1, EndsAlways, SenderAlways, AsksAlways, PTL

-----------------------------------------------------------------------------
(* Parts: what format_data makes of the data of a delivery                   *)

Strings == Seq(Chars)

\* One character more.
CutStep(parts, c) ==
  IF c = Colon THEN Append(parts, <<>>)
  ELSE [parts EXCEPT ![Len(parts)] = Append(@, c)]

\* f[n] is what Parts has after the first n characters, up to the first k.
IsCut(f, data, k) ==
  f = [n \in 0..k |-> IF n = 0 THEN <<<<>>>>
                      ELSE IF data[n] = Colon THEN Append(f[n - 1], <<>>)
                      ELSE [f[n - 1] EXCEPT ![Len(f[n - 1])] = Append(@, data[n])]]

LEMMA IsCutStep ==
  ASSUME NEW f, NEW data, NEW k \in Nat
  PROVE  IsCut(f, data, k) <=>
           /\ f = [n \in 0..k |-> f[n]] /\ f[0] = <<<<>>>>
           /\ \A n \in 1..k : f[n] = CutStep(f[n - 1], data[n])
<1> DEFINE G(n) == IF n = 0 THEN <<<<>>>>
                   ELSE IF data[n] = Colon THEN Append(f[n - 1], <<>>)
                   ELSE [f[n - 1] EXCEPT ![Len(f[n - 1])] = Append(@, data[n])]
<1>1. ASSUME IsCut(f, data, k)
      PROVE  /\ f = [n \in 0..k |-> f[n]] /\ f[0] = <<<<>>>>
             /\ \A n \in 1..k : f[n] = CutStep(f[n - 1], data[n])
  <2>1. f = [n \in 0..k |-> G(n)]
    BY <1>1 DEF IsCut
  <2>2. \A n \in 0..k : f[n] = G(n)
    <3> HIDE DEF G
    <3> QED BY <2>1
  <2>3. f[0] = <<<<>>>>
    <3>1. f[0] = G(0)
      <4>1. 0 \in 0..k
        OBVIOUS
      <4> HIDE DEF G
      <4> QED BY <2>2, <4>1
    <3>2. G(0) = <<<<>>>>
      OBVIOUS
    <3> HIDE DEF G
    <3> QED BY <3>1, <3>2
  <2>4. ASSUME NEW n \in 1..k PROVE f[n] = CutStep(f[n - 1], data[n])
    <3>1. n \in 0..k /\ n # 0
      OBVIOUS
    <3>2. f[n] = G(n)
      BY <2>2, <3>1
    <3>3. G(n) = CutStep(f[n - 1], data[n])
      BY <3>1 DEF CutStep
    <3> HIDE DEF G
    <3> QED BY <3>2, <3>3
  <2>5. f = [n \in 0..k |-> f[n]]
    <3> HIDE DEF G
    <3> QED BY <2>1
  <2> QED BY <2>3, <2>4, <2>5
<1>2. ASSUME /\ f = [n \in 0..k |-> f[n]] /\ f[0] = <<<<>>>>
             /\ \A n \in 1..k : f[n] = CutStep(f[n - 1], data[n])
      PROVE  IsCut(f, data, k)
  <2>1. ASSUME NEW n \in 0..k PROVE f[n] = G(n)
    <3>1. n = 0 \/ n \in 1..k
      OBVIOUS
    <3> QED BY <1>2, <3>1 DEF CutStep
  <2>2. [n \in 0..k |-> f[n]] = [n \in 0..k |-> G(n)]
    BY <2>1
  <2>3. f = [n \in 0..k |-> G(n)]
    BY <1>2, <2>2
  <2> QED BY <2>3 DEF IsCut
<1> QED BY <1>1, <1>2

\* There is one, for any number of characters.
LEMMA CutExists ==
  ASSUME NEW data, NEW k \in Nat
  PROVE  \E f : IsCut(f, data, k)
<1> DEFINE T == {m \in Nat : ~\E f : IsCut(f, data, m)}
<1>1. SUFFICES ASSUME T # {} PROVE FALSE
  OBVIOUS
<1>2. PICK m \in T : \A n \in T : m <= n
  <2>1. T \in SUBSET Nat
    OBVIOUS
  <2> HIDE DEF T
  <2> QED BY <1>1, <2>1, LeastElement
<1>3. CASE m = 0
  <2>1. PICK f : f = [n \in 0..0 |-> <<<<>>>>]
    OBVIOUS
  <2>2. f = [n \in 0..0 |-> f[n]] /\ f[0] = <<<<>>>>
    BY <2>1
  <2>3. IsCut(f, data, 0)
    BY <2>2, IsCutStep
  <2> QED BY <1>3, <2>3
<1>4. CASE m # 0
  <2>1. m - 1 \in Nat /\ m \in Nat
    BY <1>4
  <2>2. m - 1 \notin T
    BY <1>2, <2>1
  <2>3. PICK f : IsCut(f, data, m - 1)
    BY <2>1, <2>2
  <2>4. /\ f[0] = <<<<>>>> /\ \A n \in 1..m - 1 : f[n] = CutStep(f[n - 1], data[n])
    BY <2>1, <2>3, IsCutStep
  <2>5. PICK g : g = [n \in 0..m |-> IF n = m THEN CutStep(f[m - 1], data[m]) ELSE f[n]]
    OBVIOUS
  <2>6. \A n \in 0..m - 1 : g[n] = f[n]
    BY <2>1, <2>5
  <2>7. g = [n \in 0..m |-> g[n]] /\ g[m] = CutStep(f[m - 1], data[m])
    BY <2>1, <2>5
  <2>8. g[0] = <<<<>>>>
    BY <1>4, <2>1, <2>4, <2>6
  <2>9. ASSUME NEW n \in 1..m PROVE g[n] = CutStep(g[n - 1], data[n])
    <3>1. g[n - 1] = f[n - 1]
      BY <2>1, <2>6
    <3>2. CASE n = m
      BY <2>7, <3>1, <3>2
    <3>3. CASE n # m
      <4>1. n \in 1..m - 1 /\ n \in 0..m - 1
        BY <2>1, <3>3
      <4> QED BY <2>4, <2>6, <3>1, <4>1
    <3> QED BY <3>2, <3>3
  <2>10. IsCut(g, data, m)
    BY <2>1, <2>7, <2>8, <2>9, IsCutStep
  <2> QED BY <2>10
<1> QED BY <1>3, <1>4

\* There is only one, and it does not depend on what comes later.
LEMMA CutUnique ==
  ASSUME NEW a, NEW b, NEW k \in Nat, NEW l \in Nat, NEW f, NEW g,
         IsCut(f, a, k), IsCut(g, b, l), k <= l, \A n \in 1..k : a[n] = b[n]
  PROVE  \A n \in 0..k : f[n] = g[n]
<1> DEFINE T == {n \in 0..k : f[n] # g[n]}
<1>1. SUFFICES ASSUME T # {} PROVE FALSE
  OBVIOUS
<1>2. PICK m \in T : \A n \in T : m <= n
  <2>1. T \in SUBSET Nat
    OBVIOUS
  <2> HIDE DEF T
  <2> QED BY <1>1, <2>1, LeastElement
<1>3. /\ f[0] = <<<<>>>> /\ \A n \in 1..k : f[n] = CutStep(f[n - 1], a[n])
  BY IsCutStep
<1>4. /\ g[0] = <<<<>>>> /\ \A n \in 1..l : g[n] = CutStep(g[n - 1], b[n])
  BY IsCutStep
<1>5. m # 0 /\ m \in 1..k /\ m \in 1..l /\ m - 1 \in 0..k
  BY <1>3, <1>4
<1>6. m - 1 \notin T
  BY <1>2, <1>5
<1>7. f[m - 1] = g[m - 1]
  BY <1>5, <1>6
<1>8. f[m] = g[m]
  BY <1>3, <1>4, <1>5, <1>7
<1> QED BY <1>8

\* Parts is the end of it.
LEMMA PartsIsCut ==
  ASSUME NEW data \in Strings
  PROVE  \E f : IsCut(f, data, Len(data)) /\ Parts(data) = f[Len(data)]
<1>1. Len(data) \in Nat
  BY LenProperties DEF Strings
<1> DEFINE upTo == CHOOSE f : f = [n \in 0..Len(data) |->
       IF n = 0 THEN <<<<>>>>
       ELSE IF data[n] = Colon THEN Append(f[n - 1], <<>>)
       ELSE [f[n - 1] EXCEPT ![Len(f[n - 1])] = Append(@, data[n])]]
<1>2. \E f : IsCut(f, data, Len(data))
  BY <1>1, CutExists
<1>3. IsCut(upTo, data, Len(data))
  BY <1>2 DEF IsCut
<1>4. Parts(data) = upTo[Len(data)]
  BY DEF Parts
<1> QED BY <1>3, <1>4

\* What a character more does to parts.
LEMMA CutStepTyped ==
  ASSUME NEW parts \in Seq(Strings), Len(parts) > 0, NEW c \in Chars
  PROVE  /\ CutStep(parts, c) \in Seq(Strings)
         /\ Len(parts) \in Nat
         /\ Len(CutStep(parts, c)) = IF c = Colon THEN Len(parts) + 1 ELSE Len(parts)
         /\ \A k \in 1..Len(parts) :
              k # Len(parts) \/ c = Colon => CutStep(parts, c)[k] = parts[k]
         /\ c = Colon => CutStep(parts, c)[Len(parts) + 1] = <<>>
         /\ c # Colon => CutStep(parts, c)[Len(parts)] = Append(parts[Len(parts)], c)
<1>1. <<>> \in Strings
  BY EmptySeq DEF Strings
<1>2. PICK n \in Nat \ {0} : n = Len(parts)
  BY LenProperties
<1>3. CASE c = Colon
  <2>1. CutStep(parts, c) = Append(parts, <<>>)
    BY <1>3 DEF CutStep
  <2>2. /\ Append(parts, <<>>) \in Seq(Strings) /\ Len(Append(parts, <<>>)) = Len(parts) + 1
        /\ \A i \in 1..Len(parts) : Append(parts, <<>>)[i] = parts[i]
        /\ Append(parts, <<>>)[Len(parts) + 1] = <<>>
    BY <1>1, AppendProperties
  <2> QED BY <1>2, <1>3, <2>1, <2>2
<1>4. CASE c # Colon
  <2>1. parts[n] \in Strings /\ n \in 1..Len(parts)
    BY <1>2, ElementOfSeq
  <2>2. PICK x \in Strings : x = Append(parts[n], c)
    BY <2>1, AppendProperties DEF Strings
  <2>3. CutStep(parts, c) = [parts EXCEPT ![n] = x]
    BY <1>2, <1>4, <2>2 DEF CutStep
  <2>4. parts \in [1..n -> Strings]
    BY <1>2
  <2>5. [parts EXCEPT ![n] = x] \in [1..n -> Strings]
    BY <2>2, <2>4
  <2>6. [parts EXCEPT ![n] = x] \in Seq(Strings) /\ Len([parts EXCEPT ![n] = x]) = n
    BY <2>5
  <2>7. /\ \A k \in 1..n : k # n => [parts EXCEPT ![n] = x][k] = parts[k]
        /\ [parts EXCEPT ![n] = x][n] = x
    BY <2>1, <2>4
  <2> QED BY <1>2, <1>4, <2>2, <2>3, <2>6, <2>7
<1> QED BY <1>3, <1>4

\* What the parts are of at any time.
LEMMA CutTyped ==
  ASSUME NEW data \in Strings, NEW f, IsCut(f, data, Len(data))
  PROVE  \A n \in 0..Len(data) : f[n] \in Seq(Strings) /\ Len(f[n]) \in Nat /\ Len(f[n]) > 0
<1>0. Len(data) \in Nat /\ \A n \in 1..Len(data) : data[n] \in Chars
  BY LenProperties, ElementOfSeq DEF Strings
<1>1. f[0] = <<<<>>>> /\ \A n \in 1..Len(data) : f[n] = CutStep(f[n - 1], data[n])
  BY <1>0, IsCutStep
<1> DEFINE T == {n \in 0..Len(data) : ~(f[n] \in Seq(Strings) /\ Len(f[n]) \in Nat /\ Len(f[n]) > 0)}
<1>2. SUFFICES ASSUME T # {} PROVE FALSE
  OBVIOUS
<1>3. PICK m \in T : \A n \in T : m <= n
  <2>1. T \in SUBSET Nat
    BY <1>0
  <2> HIDE DEF T
  <2> QED BY <1>2, <2>1, LeastElement
<1>4. CASE m = 0
  <2>1. <<>> \in Strings
    BY EmptySeq DEF Strings
  <2>2. PICK e \in Strings : e = <<>>
    BY <2>1
  <2>3. <<e>> \in Seq(Strings) /\ Len(<<e>>) = 1
    OBVIOUS
  <2>4. f[m] = <<e>>
    BY <1>1, <1>4, <2>2
  <2>5. f[m] \in Seq(Strings) /\ Len(f[m]) = 1
    BY <2>3, <2>4
  <2>6. f[m] \in Seq(Strings) /\ Len(f[m]) \in Nat /\ Len(f[m]) > 0
    BY <2>5
  <2> QED BY <1>3, <2>6
<1>5. CASE m # 0
  <2>1. m \in 1..Len(data) /\ m - 1 \in 0..Len(data)
    BY <1>0, <1>5
  <2>2. m - 1 \notin T
    BY <1>0, <1>3, <2>1
  <2>3. PICK parts \in Seq(Strings) : parts = f[m - 1] /\ Len(parts) \in Nat /\ Len(parts) > 0
    BY <2>1, <2>2
  <2>4. PICK c \in Chars : c = data[m]
    BY <1>0, <2>1
  <2>5. f[m] = CutStep(parts, c)
    BY <1>1, <2>1, <2>3, <2>4
  <2>6. /\ CutStep(parts, c) \in Seq(Strings)
        /\ Len(CutStep(parts, c)) = IF c = Colon THEN Len(parts) + 1 ELSE Len(parts)
    BY <2>3, CutStepTyped
  <2> QED BY <2>3, <2>5, <2>6
<1> QED BY <1>4, <1>5

\* Parts that are done stay as they are.
LEMMA CutGrows ==
  ASSUME NEW data \in Strings, NEW f, IsCut(f, data, Len(data)),
         NEW n \in 0..Len(data), NEW l \in n..Len(data)
  PROVE  Len(f[n]) <= Len(f[l]) /\ \A k \in 1..Len(f[n]) - 1 : f[l][k] = f[n][k]
<1>0. Len(data) \in Nat /\ \A i \in 1..Len(data) : data[i] \in Chars
  BY LenProperties, ElementOfSeq DEF Strings
<1>1. f[0] = <<<<>>>> /\ \A i \in 1..Len(data) : f[i] = CutStep(f[i - 1], data[i])
  BY <1>0, IsCutStep
<1>n. PICK N \in Nat : N = Len(f[n])
  BY CutTyped
<1> DEFINE Grown(i) == N <= Len(f[i]) /\ \A k \in 1..N - 1 : f[i][k] = f[n][k]
<1> DEFINE T == {i \in n..Len(data) : ~Grown(i)}
<1>2. SUFFICES ASSUME T # {} PROVE FALSE
  <2>1. T = {} => Grown(l)
    OBVIOUS
  <2> QED BY <1>n, <2>1
<1>3. PICK m \in T : \A i \in T : m <= i
  <2>1. T \in SUBSET Nat
    BY <1>0
  <2> HIDE DEF T
  <2> QED BY <1>2, <2>1, LeastElement
<1>4. m # n
  BY <1>n, <1>3
<1>5. m \in 1..Len(data) /\ m - 1 \in n..Len(data) /\ m - 1 \in 0..Len(data)
  BY <1>0, <1>3, <1>4
<1>6. Grown(m - 1)
  <2>1. m - 1 \notin T
    BY <1>0, <1>3, <1>5
  <2> QED BY <1>5, <2>1
<1>7. PICK parts \in Seq(Strings) : parts = f[m - 1] /\ Len(parts) \in Nat /\ Len(parts) > 0
  BY <1>5, CutTyped
<1>8. PICK c \in Chars : c = data[m]
  BY <1>0, <1>5
<1>9. f[m] = CutStep(parts, c)
  BY <1>1, <1>5, <1>7, <1>8
<1>10. PICK L \in Nat : /\ L = Len(CutStep(parts, c)) /\ L >= Len(parts)
                        /\ \A k \in 1..Len(parts) - 1 : CutStep(parts, c)[k] = parts[k]
  <2>1. /\ Len(CutStep(parts, c)) = IF c = Colon THEN Len(parts) + 1 ELSE Len(parts)
        /\ \A k \in 1..Len(parts) :
              k # Len(parts) \/ c = Colon => CutStep(parts, c)[k] = parts[k]
    BY <1>7, CutStepTyped
  <2> QED BY <1>7, <2>1
<1>11. N <= Len(f[m])
  BY <1>6, <1>7, <1>9, <1>10
<1>12. ASSUME NEW k \in 1..N - 1 PROVE f[m][k] = f[n][k]
  <2>1. k \in 1..Len(parts) - 1 /\ parts[k] = f[n][k]
    BY <1>6, <1>7
  <2> QED BY <1>9, <1>10, <2>1
<1> QED BY <1>3, <1>11, <1>12

\* A colon begins a part.
LEMMA ColonCuts ==
  ASSUME NEW data \in Strings, NEW f, IsCut(f, data, Len(data)),
         NEW i \in 1..Len(data), data[i] = Colon
  PROVE  Len(f[i]) = Len(f[i - 1]) + 1 /\ \A k \in 1..Len(f[i - 1]) : f[i][k] = f[i - 1][k]
<1>0. Len(data) \in Nat /\ i - 1 \in 0..Len(data) /\ Colon \in Chars
  BY LenProperties DEF Strings, Chars
<1>1. f[i] = CutStep(f[i - 1], Colon)
  BY <1>0, IsCutStep
<1>2. PICK parts \in Seq(Strings) : parts = f[i - 1] /\ Len(parts) > 0
  BY <1>0, CutTyped
<1>3. /\ Len(CutStep(parts, Colon)) = Len(parts) + 1
      /\ \A k \in 1..Len(parts) : CutStep(parts, Colon)[k] = parts[k]
  BY <1>0, <1>2, CutStepTyped
<1> QED BY <1>1, <1>2, <1>3

\* The parts of a string with a character more.
LEMMA PartsOneMore ==
  ASSUME NEW data \in Strings, NEW c \in Chars
  PROVE  Parts(Append(data, c)) = CutStep(Parts(data), c)
<1>1. PICK n \in Nat : n = Len(data)
  BY LenProperties DEF Strings
<1>2. PICK longer \in Strings :
        /\ longer = Append(data, c) /\ Len(longer) = n + 1 /\ longer[n + 1] = c
        /\ \A i \in 1..n : longer[i] = data[i]
  <2>1. /\ Append(data, c) \in Strings /\ Len(Append(data, c)) = Len(data) + 1
        /\ \A i \in 1..Len(data) : Append(data, c)[i] = data[i]
        /\ Append(data, c)[Len(data) + 1] = c
    BY AppendProperties DEF Strings
  <2> QED BY <1>1, <2>1
<1>3. PICK f : IsCut(f, data, n) /\ Parts(data) = f[n]
  BY <1>1, PartsIsCut
<1>4. PICK g : IsCut(g, longer, n + 1) /\ Parts(longer) = g[n + 1]
  BY <1>2, PartsIsCut
<1>5. \A i \in 0..n : f[i] = g[i]
  <2>1. n + 1 \in Nat /\ n <= n + 1
    OBVIOUS
  <2>2. \A i \in 1..n : data[i] = longer[i]
    BY <1>2
  <2> QED BY <1>3, <1>4, <2>1, <2>2, CutUnique
<1>6. g[n + 1] = CutStep(g[n], longer[n + 1])
  <2>1. n + 1 \in Nat /\ n + 1 \in 1..n + 1 /\ (n + 1) - 1 = n
    OBVIOUS
  <2>2. g[n + 1] = CutStep(g[(n + 1) - 1], longer[n + 1])
    BY <1>4, <2>1, IsCutStep
  <2> QED BY <2>1, <2>2
<1> QED BY <1>2, <1>3, <1>4, <1>5, <1>6

\* There is always a part.
LEMMA PartsTyped ==
  ASSUME NEW data \in Strings
  PROVE  Parts(data) \in Seq(Strings) /\ Len(Parts(data)) \in Nat /\ Len(Parts(data)) > 0
<1>1. Len(data) \in Nat /\ Len(data) \in 0..Len(data)
  BY LenProperties DEF Strings
<1> QED BY <1>1, PartsIsCut, CutTyped

\* The newline of the line comes to the last part.
LEMMA NewlineInLastPart ==
  ASSUME NEW data \in Strings
  PROVE  LET whole == Parts(data)
             read == Parts(data \o <<Newline>>)
         IN /\ Len(read) = Len(whole)
            /\ \A k \in 1..Len(whole) :
                 read[k] = IF k = Len(whole) THEN Append(whole[k], Newline) ELSE whole[k]
<1>1. Newline \in Chars /\ Newline # Colon
  BY DEF Chars, Newline, Colon
<1>2. Append(data, Newline) = data \o <<Newline>>
  BY <1>1, AppendIsConcat DEF Strings
<1>3. PICK parts \in Seq(Strings) : parts = Parts(data) /\ Len(parts) \in Nat /\ Len(parts) > 0
  BY PartsTyped
<1>4. Parts(data \o <<Newline>>) = CutStep(parts, Newline)
  BY <1>1, <1>2, <1>3, PartsOneMore
<1>5. /\ Len(CutStep(parts, Newline)) = Len(parts)
      /\ \A k \in 1..Len(parts) : k # Len(parts) => CutStep(parts, Newline)[k] = parts[k]
      /\ CutStep(parts, Newline)[Len(parts)] = Append(parts[Len(parts)], Newline)
  BY <1>1, <1>3, CutStepTyped
<1> QED BY <1>3, <1>4, <1>5

\* With three parts and two colons known, the first part ends at the first of
\* the two.
LEMMA FirstPart ==
  ASSUME NEW data \in Strings, NEW a \in Strings,
         NEW j \in 1..Len(data), Len(a) + 1 < j,
         \A i \in 1..Len(a) : data[i] = a[i],
         data[Len(a) + 1] = Colon, data[j] = Colon, Len(Parts(data)) = 3
  PROVE  Parts(data)[1] = a
<1>1. PICK L \in Nat, n \in Nat : L = Len(data) /\ n = Len(a)
  BY LenProperties DEF Strings
<1>2. PICK f : IsCut(f, data, L) /\ Parts(data) = f[L]
  BY <1>1, PartsIsCut
<1>3. f[0] = <<<<>>>> /\ \A i \in 1..L : f[i] = CutStep(f[i - 1], data[i])
  BY <1>2, IsCutStep
<1>4. /\ n + 1 \in 1..L /\ j \in 1..L /\ n + 1 < j
      /\ \A i \in 0..L : f[i] \in Seq(Strings) /\ Len(f[i]) \in Nat /\ Len(f[i]) > 0
  BY <1>1, <1>2, CutTyped
<1>5. \A i \in 1..L : data[i] = Colon => Len(f[i]) = Len(f[i - 1]) + 1
  BY <1>1, <1>2, ColonCuts
<1>6. \A i \in 0..L : \A k \in i..L : Len(f[i]) <= Len(f[k])
  BY <1>1, <1>2, CutGrows
<1>7. Len(f[n]) = 1
  <2>0. /\ n \in 0..L /\ n + 1 \in 0..L /\ j - 1 \in 0..L /\ j \in 0..L /\ L \in 0..L
        /\ j - 1 \in n + 1..L /\ L \in j..L
    BY <1>4
  <2>1. Len(f[n + 1]) = Len(f[n]) + 1
    <3>1. Len(f[n + 1]) = Len(f[(n + 1) - 1]) + 1
      BY <1>1, <1>4, <1>5
    <3>2. (n + 1) - 1 = n
      OBVIOUS
    <3> QED BY <3>1, <3>2
  <2>2. Len(f[n + 1]) <= Len(f[j - 1])
    BY <1>6, <2>0
  <2>3. Len(f[j]) = Len(f[j - 1]) + 1
    BY <1>4, <1>5
  <2>4. Len(f[j]) <= Len(f[L])
    BY <1>6, <2>0
  <2>5. PICK p \in Nat : p = Len(f[n]) /\ p > 0
    BY <1>4, <2>0
  <2>6. PICK q \in Nat : q = Len(f[j - 1])
    BY <1>4, <2>0
  <2>7. p + 1 <= q /\ q + 1 <= 3
    <3>1. p + 1 <= q
      BY <2>1, <2>2, <2>5, <2>6
    <3>2. q + 1 <= Len(f[L])
      BY <2>3, <2>4, <2>6
    <3>3. Len(f[L]) = 3
      BY <1>2
    <3> QED BY <3>1, <3>2, <3>3
  <2>8. p = 1
    <3>1. p \in Nat /\ q \in Nat /\ p > 0
      BY <2>5, <2>6
    <3> QED BY <2>7, <3>1
  <2> QED BY <2>5, <2>8
<1>8. ASSUME NEW i \in 1..n PROVE a[i] # Colon
  <2>1. SUFFICES ASSUME data[i] = Colon PROVE FALSE
    BY <1>1
  <2>2. i \in 1..L /\ i - 1 \in 0..L /\ n \in i..L
    BY <1>4
  <2>3. Len(f[i]) = Len(f[i - 1]) + 1 /\ Len(f[i]) <= Len(f[n])
    BY <1>5, <1>6, <2>1, <2>2
  <2>4. PICK p \in Nat : p = Len(f[i - 1]) /\ p > 0
    BY <1>4, <2>2
  <2> QED BY <1>7, <2>3, <2>4
<1>9. f[n][1] = a
  <2> DEFINE Begun(i) == f[i][1] \in Strings /\ Len(f[i][1]) = i /\ \A k \in 1..i : f[i][1][k] = a[k]
  <2> DEFINE T == {i \in 0..n : ~Begun(i)}
  <2>1. T = {}
    <3>1. SUFFICES ASSUME T # {} PROVE FALSE
      OBVIOUS
    <3>2. PICK m \in T : \A i \in T : m <= i
      <4>1. T \in SUBSET Nat
        OBVIOUS
      <4> HIDE DEF T
      <4> QED BY <3>1, <4>1, LeastElement
    <3>3. m # 0
      <4>1. f[0][1] = <<>> /\ <<>> \in Strings /\ Len(<<>>) = 0
        BY <1>3, EmptySeq DEF Strings
      <4>2. Begun(0)
        BY <4>1
      <4> QED BY <3>2, <4>2
    <3>4. m \in 1..n /\ m - 1 \in 0..n /\ m \in 1..L /\ m - 1 \in 0..L /\ n \in m - 1..L
      BY <1>4, <3>2, <3>3
    <3>5. m - 1 \notin T
      BY <3>2, <3>4
    <3>6. Begun(m - 1)
      BY <3>4, <3>5
    <3>7. PICK parts \in Seq(Strings) : parts = f[m - 1] /\ Len(parts) = 1
      <4>1. Len(f[m - 1]) <= Len(f[n])
        BY <1>6, <3>4
      <4>2. Len(f[m - 1]) \in Nat /\ Len(f[m - 1]) > 0 /\ f[m - 1] \in Seq(Strings)
        BY <1>4, <3>4
      <4>3. PICK p \in Nat : p = Len(f[m - 1])
        BY <4>2
      <4>4. p = 1
        <5>1. p <= 1 /\ p > 0
          BY <1>7, <4>1, <4>2, <4>3
        <5> QED BY <5>1
      <4> QED BY <4>2, <4>3, <4>4
    <3>8. PICK c \in Chars : c = data[m] /\ c # Colon /\ c = a[m]
      <4>1. a[m] \in Chars
        BY <1>1, <3>4, ElementOfSeq DEF Strings
      <4> QED BY <1>1, <1>8, <3>4, <4>1
    <3>9. f[m] = CutStep(parts, c)
      BY <1>3, <3>4, <3>7, <3>8
    <3>10. f[m][1] = Append(parts[1], c)
      <4>0. Len(parts) > 0
        BY <3>7
      <4>1. CutStep(parts, c)[Len(parts)] = Append(parts[Len(parts)], c)
        BY <3>8, <4>0, CutStepTyped
      <4> QED BY <3>7, <3>9, <4>1
    <3>11. PICK x \in Strings : x = parts[1] /\ Len(x) = m - 1 /\ \A k \in 1..m - 1 : x[k] = a[k]
      BY <3>6, <3>7
    <3>12. /\ Append(x, c) \in Strings /\ Len(Append(x, c)) = (m - 1) + 1
           /\ (\A k \in 1..m - 1 : Append(x, c)[k] = x[k]) /\ Append(x, c)[(m - 1) + 1] = c
      BY <3>11, AppendProperties DEF Strings
    <3>13. (m - 1) + 1 = m /\ \A k \in 1..m : k = m \/ k \in 1..m - 1
      BY <3>4
    <3>14. Begun(m)
      BY <3>8, <3>10, <3>11, <3>12, <3>13
    <3> QED BY <3>2, <3>14
  <2>2. Begun(n)
    <3>1. n \in 0..n
      OBVIOUS
    <3> QED BY <2>1, <3>1
  <2>3. PICK x \in Strings : x = f[n][1] /\ Len(x) = Len(a) /\ \A k \in 1..Len(x) : x[k] = a[k]
    BY <1>1, <2>2
  <2>4. x = a
    BY <2>3, SeqEqual DEF Strings
  <2> QED BY <2>3, <2>4
<1>10. f[L][1] = f[n + 1][1] /\ f[n + 1][1] = f[n][1]
  <2>1. Len(f[n + 1]) = 2 /\ \A k \in 1..1 : f[n + 1][k] = f[n][k]
    <3>1. /\ Len(f[n + 1]) = Len(f[(n + 1) - 1]) + 1
          /\ \A k \in 1..Len(f[(n + 1) - 1]) : f[n + 1][k] = f[(n + 1) - 1][k]
      BY <1>1, <1>2, <1>4, ColonCuts
    <3>2. (n + 1) - 1 = n
      OBVIOUS
    <3>3. Len(f[n + 1]) = Len(f[n]) + 1 /\ \A k \in 1..Len(f[n]) : f[n + 1][k] = f[n][k]
      BY <3>1, <3>2
    <3> QED BY <1>7, <3>3
  <2>2. \A k \in 1..Len(f[n + 1]) - 1 : f[L][k] = f[n + 1][k]
    <3>1. n + 1 \in 0..L /\ L \in n + 1..L
      BY <1>4
    <3> QED BY <1>1, <1>2, <3>1, CutGrows
  <2> QED BY <2>1, <2>2
<1> QED BY <1>2, <1>9, <1>10

-----------------------------------------------------------------------------
(* A receiver and its worker                                                 *)

\* The worker of a receiver has answered two requests when it comes to deliver;
\* what it has sent since then are the first of the messages given to it.
AnswersThenDelivers ==
  LET answered == Len(sent[Down])
  IN /\ worker # "serve"
     /\ worker \in {"none", "backlog", "unserved", "login", "login failed"} =>
          answered = 0 /\ handled[Up] = 0
     /\ worker \in {"greet", "join", "join failed"} => answered = 1 /\ handled[Up] = 1
     /\ worker = "leaked" => answered <= 2
     /\ worker = "welcome" => answered = 2
     /\ worker = "deliver" => answered >= 2
     /\ worker \in {"welcome", "deliver"} =>
          /\ handled[Up] >= 2
          /\ answered + Len(mqueue) = Len(given) + 2
          /\ \A k \in 1..Len(mqueue) : mqueue[k] = given[answered - 2 + k]
          /\ user_room = Parse(received[Up][2]).data
     /\ worker \notin {"welcome", "deliver", "delete", "ended"} => given = <<>>
     /\ \A k \in 3..answered : k - 2 <= Len(given) /\ sent[Down][k] = given[k - 2]

\* Everything given is a delivery from the room that was asked for.
GivenFromRoom ==
  /\ given # <<>> => handled[Up] >= 2 /\ user_room = Parse(received[Up][2]).data
  /\ \A k \in 1..Len(given) :
       /\ given[k].tag = <<"delivery">>
       /\ \E u, t \in Seq(Chars) :
            given[k].data = rtrim(user_room) \o <<Colon>> \o u \o <<Colon>> \o t

\* What has been shown came with the lines after the two replies.  If one of
\* them has been passed over it was not what was sent.
ShowsInTurn ==
  /\ shown \in Seq(Strings \X Strings)
  /\ shown # <<>> => Len(shown) + 2 <= handled[Down]
  /\ Short(sent[Down]) =>
       /\ \A k \in 1..Len(shown) :
            LET parts == Parts(Parse(received[Down][k + 2]).data)
            IN Len(parts) = 3 /\ shown[k] = <<parts[2], parts[3]>>
       /\ client = "chat" /\ Len(shown) + 2 # handled[Down] =>
            \E k \in 3..handled[Down] : received[Down][k] # Encode(sent[Down][k])

ReceiverInv ==
  program = "receiver" => AnswersThenDelivers /\ GivenFromRoom /\ ShowsInTurn


\* What has been sent, and what has been received, stays so.
LEMMA LinesStay ==
  ASSUME SessionInv, [Next]_vars, NEW d \in Links
  PROVE  /\ Len(received[d]) \in Nat /\ Len(received'[d]) \in Nat
         /\ Len(received[d]) <= Len(received'[d])
         /\ \A k \in 1..Len(received[d]) : received'[d][k] = received[d][k]
         /\ Len(sent[d]) \in Nat /\ Len(sent'[d]) \in Nat
         /\ Len(sent[d]) <= Len(sent'[d])
         /\ \A k \in 1..Len(sent[d]) : sent'[d][k] = sent[d][k]
<1>1. PICK s \in Seq(Messages), c \in Seq(Seq(Chars)) : s = sent[d] /\ c = received[d]
  BY SentTyped, CountsTyped
<1>2. /\ Len(c) \in Nat /\ Len(received'[d]) \in Nat /\ Len(c) <= Len(received'[d])
      /\ \A k \in 1..Len(c) : received'[d][k] = c[k]
  <2>1. Len(c) \in Nat
    BY LenProperties
  <2>2. CASE received'[d] = c
    BY <2>1, <2>2
  <2>3. ASSUME NEW line \in Seq(Chars), received'[d] = Append(c, line)
        PROVE  /\ Len(received'[d]) = Len(c) + 1
               /\ \A k \in 1..Len(c) : received'[d][k] = c[k]
    BY <2>3, AppendProperties
  <2>4. received'[d] = c \/ \E line \in Seq(Chars) : received'[d] = Append(c, line)
    BY <1>1, StreamsGrow
  <2> QED BY <2>1, <2>2, <2>3, <2>4
<1>3. /\ Len(s) \in Nat /\ Len(sent'[d]) \in Nat /\ Len(s) <= Len(sent'[d])
      /\ \A k \in 1..Len(s) : sent'[d][k] = s[k]
  <2>1. Len(s) \in Nat
    BY LenProperties
  <2>2. CASE sent'[d] = s
    BY <2>1, <2>2
  <2>3. ASSUME NEW msg \in Messages, sent'[d] = Append(s, msg)
        PROVE  Len(sent'[d]) = Len(s) + 1 /\ \A k \in 1..Len(s) : sent'[d][k] = s[k]
    BY <2>3, AppendProperties
  <2>4. sent'[d] = s \/ \E msg \in Messages : sent'[d] = Append(s, msg)
    BY <1>1, StreamsGrow
  <2> QED BY <2>1, <2>2, <2>3, <2>4
<1> QED BY <1>1, <1>2, <1>3

\* What the client does, and what goes on inside the calls, leaves the worker
\* where it is.
LEMMA WorkerElsewhere ==
  ASSUME SessionInv,
         \/ Start \/ UNCHANGED vars \/ (ClientSteps /\ ~Connected) \/ ClientEnds
         \/ (\E input \in Inputs : Type(input)) \/ \E d \in Links : Progress(d)
  PROVE  /\ UNCHANGED <<worker, user_room, mqueue, given, program>>
         /\ sent'[Down] = sent[Down] /\ handled'[Up] = handled[Up]
<1>0. /\ handled \in [Links -> Nat] /\ sent \in [Links -> Seq(Messages)]
      /\ Up # Down /\ Up \in Links /\ Down \in Links
  BY TwoLinks DEF SessionInv, CountsOK, ConnectionInv, ConnectionTypes, Up, Down
<1>1. CASE Start \/ UNCHANGED vars
  BY <1>1 DEF Start, vars, connections, writing, peers, histories, arguments
<1>2. CASE \E d \in Links : Progress(d)
  BY <1>2 DEF Progress, Write, WriteLost, Refill, NextChar, LastLine, writing, peers, histories,
              arguments
<1>3. CASE NotConnected \/ Sent \/ NothingReceived \/ ClientEnds
  BY <1>3 DEF NotConnected, Sent, NothingReceived, ReceiveFails, ClientEnds, Close, connections,
              writing, histories, arguments
<1>4. CASE Reply \/ Chat
  <2>1. UNCHANGED <<worker, user_room, mqueue, given, program, sent>> /\ Take(Down)
    BY <1>4 DEF Reply, Chat, connections, writing, arguments
  <2> QED BY <1>0, <2>1 DEF Take
<1>5. ASSUME NEW msg, Request(msg)
      PROVE  /\ UNCHANGED <<worker, user_room, mqueue, given, program>>
             /\ sent'[Down] = sent[Down] /\ handled'[Up] = handled[Up]
  BY <1>0, <1>5 DEF Request, Send, SendRefused, writing, histories, arguments
<1>6. CASE Login \/ Join
  BY <1>5, <1>6 DEF Login, Join
<1>7. ASSUME NEW input \in Inputs, Type(input)
      PROVE  /\ UNCHANGED <<worker, user_room, mqueue, given, program>>
             /\ sent'[Down] = sent[Down] /\ handled'[Up] = handled[Up]
  BY <1>5, <1>7 DEF Type, connections, writing, histories, arguments
<1> QED BY <1>1, <1>2, <1>3, <1>4, <1>6, <1>7 DEF ClientSteps

\* Nothing is answered, delivered or handled.
LEMMA AnswersStay ==
  ASSUME SessionInv, [Next]_vars, AnswersThenDelivers,
         UNCHANGED <<worker, user_room, mqueue, given>>,
         sent'[Down] = sent[Down], handled'[Up] = handled[Up]
  PROVE  AnswersThenDelivers'
<1>1. /\ handled[Up] \in Nat /\ handled[Up] <= Len(received[Up]) /\ Len(received[Up]) \in Nat
      /\ \A k \in 1..Len(received[Up]) : received'[Up][k] = received[Up][k]
  BY CountsTyped, LinesStay, TwoLinks
<1>2. handled[Up] >= 2 => received'[Up][2] = received[Up][2]
  BY <1>1
<1>3. UNCHANGED <<worker, user_room, mqueue, given>> /\ sent'[Down] = sent[Down]
      /\ handled'[Up] = handled[Up]
  OBVIOUS
<1>4. \A k \in 3..Len(sent'[Down]) : k - 2 <= Len(given') /\ sent'[Down][k] = given'[k - 2]
  BY <1>3 DEF AnswersThenDelivers
<1>5. worker' \in {"welcome", "deliver"} =>
          /\ handled'[Up] >= 2
          /\ Len(sent'[Down]) + Len(mqueue') = Len(given') + 2
          /\ \A k \in 1..Len(mqueue') : mqueue'[k] = given'[Len(sent'[Down]) - 2 + k]
          /\ user_room' = Parse(received'[Up][2]).data
  BY <1>2, <1>3 DEF AnswersThenDelivers
<1> QED BY <1>3, <1>4, <1>5 DEF AnswersThenDelivers

\* A worker that goes on without a word.
LEMMA AnswersNothing ==
  ASSUME EndsInv, AsksInTurn, [Next]_vars, program = "receiver", AnswersThenDelivers,
         Connected \/ Accept \/ Greeted \/ Welcomed \/ DeliverFailed \/ NothingRead \/ WorkerEnds
  PROVE  AnswersThenDelivers'
<1>0. SessionInv /\ PeersOK
  BY DEF EndsInv, SessionInv
<1>1. /\ UNCHANGED <<user_room, given>>
      /\ sent'[Down] = sent[Down] /\ handled'[Up] = handled[Up]
  BY DEF Connected, Accept, Greeted, Welcomed, DeliverFailed, NothingRead, ReceiveFails, WorkerEnds,
         Close, connections, writing, histories
<1>2. \A k \in 3..Len(sent'[Down]) : k - 2 <= Len(given') /\ sent'[Down][k] = given'[k - 2]
  BY <1>1 DEF AnswersThenDelivers
<1>3. CASE Connected
  <2>1. worker = "none" /\ worker' = "backlog"
    BY <1>0, <1>3 DEF Connected, SessionInv, NotConnectedYet
  <2> QED BY <1>1, <1>2, <2>1 DEF AnswersThenDelivers
<1>4. CASE Accept
  BY <1>1, <1>2, <1>4 DEF Accept, AnswersThenDelivers
<1>5. CASE Greeted
  <2>1. worker = "greet" /\ handled[Up] = 1
    BY <1>5 DEF Greeted, Idle, AnswersThenDelivers
  <2>2. received[Up] # <<>> /\ sent[Up] # <<>> /\ 1 \in 1..Len(sent[Up])
    <3>1. Len(received[Up]) >= 1 /\ Len(received[Up]) \in Nat
      BY <1>0, <2>1, CountsTyped, TwoLinks
    <3>2. received[Up] # <<>>
      BY <3>1, EmptySeq
    <3>3. Len(sent[Up]) # 0
      <4>1. SUFFICES ASSUME Len(sent[Up]) = 0 PROVE FALSE
        OBVIOUS
      <4>2. Short(sent[Up])
        BY <4>1 DEF Short
      <4>3. Len(received[Up]) <= Len(sent[Up])
        BY <1>0, <4>2, ReadWhole, TwoLinks
      <4> QED BY <3>1, <4>1, <4>3
    <3>4. Len(sent[Up]) \in Nat
      BY <1>0, SentTyped, TwoLinks
    <3> QED BY <3>2, <3>3, <3>4, EmptySeq
  <2>3. sent[Up][1].tag = <<"rlogin">>
    BY <2>2 DEF AsksInTurn
  <2>4. "rlogin" \in Letters
    BY SessionAssumption DEF Words
  <2>5. Parse(received[Up][1]).tag = <<"rlogin">>
    BY <2>2, <2>3, <2>4, FirstTagArrives, TwoLinks
  <2>6. worker' = "join"
    BY <1>5, <2>5 DEF Greeted
  <2> QED BY <1>1, <1>2, <2>1, <2>6 DEF AnswersThenDelivers
<1>6. CASE Welcomed
  <2>1. worker = "welcome" /\ worker' \in {"deliver", "delete"} /\ UNCHANGED <<mqueue, received>>
    BY <1>6 DEF Welcomed, Idle, connections, reading
  <2>2. /\ Len(sent'[Down]) >= 2 /\ handled'[Up] >= 2
        /\ Len(sent'[Down]) + Len(mqueue') = Len(given') + 2
        /\ \A k \in 1..Len(mqueue') : mqueue'[k] = given'[Len(sent'[Down]) - 2 + k]
        /\ user_room' = Parse(received'[Up][2]).data
    <3>1. Len(sent[Down]) = 2
      BY <2>1 DEF AnswersThenDelivers
    <3> QED BY <1>1, <2>1, <3>1 DEF AnswersThenDelivers
  <2>3. CASE worker' = "deliver"
    BY <1>2, <2>2, <2>3 DEF AnswersThenDelivers
  <2>4. CASE worker' = "delete"
    BY <1>2, <2>4 DEF AnswersThenDelivers
  <2> QED BY <2>1, <2>3, <2>4
<1>7. CASE DeliverFailed \/ WorkerEnds
  <2>1. worker' \in {"delete", "ended"}
    BY <1>7 DEF DeliverFailed, WorkerEnds
  <2> QED BY <1>2, <2>1 DEF AnswersThenDelivers
<1>8. CASE NothingRead
  <2>1. worker \in {"login", "join", "serve"}
    BY <1>8, TwoLinks DEF NothingRead, Receiving, Up, Down
  <2>2. \/ worker = "login" /\ worker' = "login failed"
        \/ worker = "join" /\ worker' = "join failed"
    BY <1>8, <2>1 DEF NothingRead, AnswersThenDelivers
  <2> QED BY <1>1, <1>2, <2>2 DEF AnswersThenDelivers
<1> QED BY <1>3, <1>4, <1>5, <1>6, <1>7, <1>8

\* The same, of the state after a step and the number of its answers.
LEMMA AnswersAre ==
  ASSUME NEW n \in Nat, n = Len(sent'[Down]),
         worker' # "serve",
         worker' \in {"none", "backlog", "unserved", "login", "login failed"} =>
           n = 0 /\ handled'[Up] = 0,
         worker' \in {"greet", "join", "join failed"} => n = 1 /\ handled'[Up] = 1,
         worker' = "leaked" => n <= 2,
         worker' = "welcome" => n = 2,
         worker' = "deliver" => n >= 2,
         worker' \in {"welcome", "deliver"} =>
           /\ handled'[Up] >= 2
           /\ n + Len(mqueue') = Len(given') + 2
           /\ \A k \in 1..Len(mqueue') : mqueue'[k] = given'[n - 2 + k]
           /\ user_room' = Parse(received'[Up][2]).data,
         worker' \notin {"welcome", "deliver", "delete", "ended"} => given' = <<>>,
         \A k \in 3..n : k - 2 <= Len(given') /\ sent'[Down][k] = given'[k - 2]
  PROVE  AnswersThenDelivers'
BY DEF AnswersThenDelivers

\* A reply of the worker, before it delivers.
LEMMA AnswersReply ==
  ASSUME EndsInv, [Next]_vars, AnswersThenDelivers,
         LoginRead \/ LoginFailed \/ JoinRead \/ GiveUp
  PROVE  AnswersThenDelivers'
<1>0. SessionInv /\ PeersOK
  BY DEF EndsInv, SessionInv
<1>1. worker \in {"login", "greet", "join", "login failed", "join failed"}
  BY DEF LoginRead, LoginFailed, JoinRead, GiveUp, Idle
<1>2. PICK r \in {OK, ERR} : Send(Down, r)
  BY DEF LoginRead, LoginFailed, JoinRead, GiveUp, Answer
<1>3. Len(sent'[Down]) = Len(sent[Down]) + 1 /\ UNCHANGED received
  BY <1>0, <1>2, RepliesTyped, OneMoreSent, TwoLinks
<1>4. UNCHANGED <<mqueue, given>>
  BY DEF LoginRead, LoginFailed, JoinRead, GiveUp, histories
<1>5. given = <<>>
  BY <1>1 DEF AnswersThenDelivers
<1>6. Len(mqueue) = 0 /\ Len(given) = 0
  <2>1. PICK q \in Seq(Messages) : q = mqueue
    BY <1>0 DEF PeersOK
  <2>2. Len(q) \in Nat /\ Len(q) <= 0
    BY <1>0, <1>5, <2>1, LenProperties DEF PeersOK
  <2> QED BY <1>5, <2>1, <2>2
<1>7. handled \in [Links -> Nat] /\ Up \in Links
  BY <1>0, TwoLinks DEF SessionInv, CountsOK
<1>8. \/ worker \in {"login", "login failed"} /\ Len(sent[Down]) = 0 /\ handled[Up] = 0
      \/ worker \in {"greet", "join", "join failed"} /\ Len(sent[Down]) = 1 /\ handled[Up] = 1
  BY <1>1 DEF AnswersThenDelivers
<1>9. PICK n \in Nat, m \in Nat : n = Len(sent'[Down]) /\ m = Len(sent[Down]) /\ n = m + 1
  <2>1. Len(sent[Down]) \in Nat
    BY <1>0, SentTyped, TwoLinks
  <2> QED BY <1>3, <2>1
<1>ready. \/ worker \in {"login", "login failed"} /\ n = 1 /\ handled[Up] = 0
          \/ worker \in {"greet", "join", "join failed"} /\ n = 2 /\ handled[Up] = 1
  <2>1. \/ worker \in {"login", "login failed"} /\ m = 0 /\ handled[Up] = 0
        \/ worker \in {"greet", "join", "join failed"} /\ m = 1 /\ handled[Up] = 1
    BY <1>8, <1>9
  <2>2. m = 0 => n = 1
    BY <1>9
  <2>3. m = 1 => n = 2
    BY <1>9
  <2> QED BY <2>1, <2>2, <2>3
<1>short. n <= 2
  <2>1. n = 1 \/ n = 2
    BY <1>ready
  <2> QED BY <2>1
<1>10. \A k \in 3..n : k - 2 <= Len(given') /\ sent'[Down][k] = given'[k - 2]
  BY <1>short
<1>11. CASE LoginRead
  <2>1. worker = "login" /\ worker' \in {"greet", "leaked"} /\ handled'[Up] = handled[Up] + 1
    BY <1>7, <1>11 DEF LoginRead, Idle, Take
  <2>2. n = 1 /\ handled'[Up] = 1
    BY <1>ready, <2>1
  <2> QED BY <1>4, <1>5, <1>9, <1>short, <1>10, <2>1, <2>2, AnswersAre
<1>12. CASE LoginFailed \/ GiveUp
  <2>1. worker' \in {"leaked", "delete"}
    BY <1>12 DEF LoginFailed, GiveUp
  <2> QED BY <1>4, <1>5, <1>9, <1>short, <1>10, <2>1, AnswersAre
<1>13. CASE JoinRead
  <2>1. worker = "join" /\ handled'[Up] = handled[Up] + 1
    BY <1>7, <1>13 DEF JoinRead, Idle, Take
  <2>2. n = 2 /\ handled'[Up] = 2 /\ handled[Up] = 1
    BY <1>ready, <2>1
  <2>3. CASE worker' = "welcome" /\ user_room' = NextMessage(Up).data
    <3>1. user_room' = Parse(received'[Up][2]).data
      <4>1. handled[Up] + 1 = 2
        BY <2>2
      <4> QED BY <1>3, <2>3, <4>1 DEF NextMessage
    <3>2. n + Len(mqueue') = Len(given') + 2
      BY <1>4, <1>6, <2>2
    <3>3. \A k \in 1..Len(mqueue') : mqueue'[k] = given'[n - 2 + k]
      BY <1>4, <1>6
    <3> QED BY <1>4, <1>5, <1>9, <1>10, <2>2, <2>3, <3>1, <3>2, <3>3, AnswersAre
  <2>4. CASE worker' = "delete"
    BY <1>9, <1>10, <2>4, AnswersAre
  <2> QED BY <1>13, <2>3, <2>4 DEF JoinRead
<1> QED BY <1>11, <1>12, <1>13

\* The worker delivers the message that was given to it first.
LEMMA AnswersDeliver ==
  ASSUME EndsInv, [Next]_vars, AnswersThenDelivers, Deliver
  PROVE  AnswersThenDelivers'
<1>0. SessionInv /\ PeersOK
  BY DEF EndsInv, SessionInv
<1>1. /\ worker = "deliver" /\ mqueue # <<>> /\ mqueue' = Tail(mqueue)
      /\ UNCHANGED <<given, user_room, handled>>
  BY DEF Deliver, Idle, histories
<1>2. CASE SendRefused(Down, Head(mqueue)) /\ worker' = "delete"
  <2>1. UNCHANGED sent
    BY <1>2 DEF SendRefused, writing
  <2> QED BY <1>1, <1>2, <2>1 DEF AnswersThenDelivers
<1>3. CASE Send(Down, Head(mqueue)) /\ UNCHANGED worker
  <2>1. PICK q \in Seq(Messages) : q = mqueue /\ q # <<>>
    BY <1>0, <1>1 DEF PeersOK
  <2>2. PICK L \in Nat : L = Len(q) /\ L > 0
    BY <2>1, LenProperties, EmptySeq
  <2>3. PICK msg \in Messages : msg = q[1] /\ msg = Head(q)
    <3>1. 1 \in 1..Len(q)
      BY <2>2
    <3>2. q[1] \in Messages /\ Head(q) = q[1]
      BY <2>1, <3>1, ElementOfSeq
    <3> QED BY <3>2
  <2>4. /\ Len(Tail(q)) = L - 1
        /\ \A k \in 1..L - 1 : Tail(q)[k] = q[k + 1]
    BY <2>1, <2>2, HeadTailProperties
  <2>5. PICK n \in Nat : /\ n = Len(sent[Down]) /\ n >= 2 /\ Len(sent'[Down]) = n + 1
                         /\ \A k \in 1..n : sent'[Down][k] = sent[Down][k]
                         /\ sent'[Down][n + 1] = msg
                         /\ UNCHANGED received
    <3>1. Send(Down, msg)
      BY <1>3, <2>1, <2>3
    <3>2. Len(sent[Down]) >= 2
      BY <1>1 DEF AnswersThenDelivers
    <3> QED BY <1>0, <3>1, <3>2, OneMoreSent, TwoLinks
  <2>6. PICK g \in Nat : g = Len(given)
    BY <1>0, LenProperties DEF PeersOK
  <2>7. n + L = g + 2 /\ \A k \in 1..L : q[k] = given[n - 2 + k]
    BY <1>1, <2>1, <2>2, <2>5, <2>6 DEF AnswersThenDelivers
  <2>8. /\ handled[Up] >= 2 /\ user_room = Parse(received[Up][2]).data
        /\ \A k \in 3..n : k - 2 <= g /\ sent[Down][k] = given[k - 2]
    BY <1>1, <2>5, <2>6 DEF AnswersThenDelivers
  <2>9. (n + 1) + (L - 1) = g + 2
    BY <2>7
  <2>10. ASSUME NEW k \in 1..L - 1 PROVE mqueue'[k] = given[(n + 1) - 2 + k]
    <3>1. mqueue'[k] = q[k + 1]
      BY <1>1, <2>1, <2>4
    <3>2. k + 1 \in 1..L /\ n - 2 + (k + 1) = (n + 1) - 2 + k
      BY <2>2
    <3> QED BY <2>7, <3>1, <3>2
  <2>11. ASSUME NEW k \in 3..n + 1 PROVE k - 2 <= g /\ sent'[Down][k] = given[k - 2]
    <3>1. CASE k = n + 1
      <4>1. 1 \in 1..L /\ n - 2 + 1 = k - 2 /\ k - 2 <= g
        BY <2>2, <2>7, <3>1
      <4>2. msg = given[n - 2 + 1]
        BY <2>3, <2>7, <4>1
      <4> QED BY <2>5, <3>1, <4>1, <4>2
    <3>2. CASE k # n + 1
      <4>1. k \in 1..n /\ k \in 3..n
        BY <2>5, <3>2
      <4> QED BY <2>5, <2>8, <4>1
    <3> QED BY <3>1, <3>2
  <2>12. Len(mqueue') = L - 1
    BY <1>1, <2>1, <2>4
  <2>13. worker' = "deliver" /\ n + 1 >= 2
    BY <1>1, <1>3, <2>5
  <2> QED BY <1>1, <2>5, <2>6, <2>8, <2>9, <2>10, <2>11, <2>12, <2>13 DEF AnswersThenDelivers
<1> QED BY <1>2, <1>3 DEF Deliver

\* A message more is given to the worker.
LEMMA AnswersGiven ==
  ASSUME EndsInv, [Next]_vars, AnswersThenDelivers, NEW u \in Names, NEW t \in Texts, Broadcast(u, t)
  PROVE  AnswersThenDelivers'
<1>0. SessionInv /\ PeersOK
  BY DEF EndsInv, SessionInv
<1>1. /\ worker \in {"welcome", "deliver"}
      /\ UNCHANGED <<worker, user_room, handled, sent, received>>
  BY DEF Broadcast, connections, writing, reading
<1>2. PICK msg \in Messages : mqueue' = Append(mqueue, msg) /\ given' = Append(given, msg)
  <2>1. u \in Seq(Chars) /\ t \in Seq(Chars)
    BY SessionAssumption
  <2> QED BY <1>0, <2>1, DeliveryTyped DEF Broadcast, PeersOK
<1>3. PICK q \in Seq(Messages), g \in Seq(Messages) : q = mqueue /\ g = given
  BY <1>0 DEF PeersOK
<1>4. PICK L \in Nat, G \in Nat, n \in Nat : L = Len(q) /\ G = Len(g) /\ n = Len(sent[Down])
  BY <1>0, LenProperties, SentTyped, TwoLinks
<1>5. /\ Len(Append(q, msg)) = L + 1 /\ Append(q, msg)[L + 1] = msg
      /\ \A k \in 1..L : Append(q, msg)[k] = q[k]
  BY <1>4, AppendProperties
<1>6. /\ Len(Append(g, msg)) = G + 1 /\ Append(g, msg)[G + 1] = msg
      /\ \A k \in 1..G : Append(g, msg)[k] = g[k]
  BY <1>4, AppendProperties
<1>7. /\ n + L = G + 2 /\ \A k \in 1..L : q[k] = g[n - 2 + k]
      /\ \A k \in 3..n : k - 2 <= G /\ sent[Down][k] = g[k - 2]
      /\ handled[Up] >= 2 /\ user_room = Parse(received[Up][2]).data
      /\ n >= 2 /\ (worker = "welcome" => n = 2)
  <2>1. /\ Len(sent[Down]) + Len(mqueue) = Len(given) + 2
        /\ \A k \in 1..Len(mqueue) : mqueue[k] = given[Len(sent[Down]) - 2 + k]
        /\ handled[Up] >= 2 /\ user_room = Parse(received[Up][2]).data
    BY <1>1 DEF AnswersThenDelivers
  <2>2. \A k \in 3..Len(sent[Down]) : k - 2 <= Len(given) /\ sent[Down][k] = given[k - 2]
    BY DEF AnswersThenDelivers
  <2>3. worker = "welcome" => Len(sent[Down]) = 2
    BY DEF AnswersThenDelivers
  <2>4. worker = "deliver" => Len(sent[Down]) >= 2
    BY DEF AnswersThenDelivers
  <2>5. n >= 2
    <3>1. CASE worker = "welcome"
      <4>1. n = 2
        BY <1>4, <2>3, <3>1
      <4> QED BY <4>1
    <3>2. CASE worker = "deliver"
      BY <1>4, <2>4, <3>2
    <3> QED BY <1>1, <3>1, <3>2
  <2>6. n + L = G + 2 /\ \A k \in 1..L : q[k] = g[n - 2 + k]
    BY <1>3, <1>4, <2>1
  <2>7. \A k \in 3..n : k - 2 <= G /\ sent[Down][k] = g[k - 2]
    BY <1>3, <1>4, <2>2
  <2>8. worker = "welcome" => n = 2
    BY <1>4, <2>3
  <2> QED BY <2>1, <2>5, <2>6, <2>7, <2>8
<1>8. n + (L + 1) = (G + 1) + 2
  <2>1. n + L = G + 2 /\ n \in Nat /\ L \in Nat /\ G \in Nat
    BY <1>7
  <2> QED BY <2>1
<1>9. ASSUME NEW k \in 1..L + 1 PROVE Append(q, msg)[k] = Append(g, msg)[n - 2 + k]
  <2>1. CASE k = L + 1
    <3>1. n - 2 + k = G + 1
      BY <1>7, <2>1
    <3> QED BY <1>5, <1>6, <2>1, <3>1
  <2>2. CASE k # L + 1
    <3>1. k \in 1..L /\ n - 2 + k \in 1..G
      BY <1>7, <2>2
    <3> QED BY <1>5, <1>6, <1>7, <3>1
  <2> QED BY <2>1, <2>2
<1>10. ASSUME NEW k \in 3..n PROVE k - 2 <= G + 1 /\ sent[Down][k] = Append(g, msg)[k - 2]
  <2>1. k - 2 \in 1..G
    BY <1>7
  <2> QED BY <1>6, <1>7, <2>1
<1>11. /\ Len(mqueue') = L + 1 /\ Len(given') = G + 1
       /\ \A k \in 1..L + 1 : mqueue'[k] = given'[n - 2 + k]
       /\ \A k \in 3..n : k - 2 <= G + 1 /\ sent'[Down][k] = given'[k - 2]
  BY <1>1, <1>2, <1>3, <1>5, <1>6, <1>9, <1>10
<1>12. /\ worker' \in {"welcome", "deliver"} /\ Len(sent'[Down]) = n
       /\ handled'[Up] >= 2 /\ user_room' = Parse(received'[Up][2]).data
       /\ n >= 2 /\ (worker' = "welcome" => n = 2)
  BY <1>1, <1>4, <1>7
<1> QED BY <1>8, <1>11, <1>12, AnswersAre

\* Every step keeps what the worker of a receiver has said.
LEMMA AnswersKept ==
  ASSUME EndsInv, AsksInTurn, [Next]_vars, program = "receiver", AnswersThenDelivers
  PROVE  AnswersThenDelivers'
<1>0. SessionInv
  BY DEF EndsInv
<1>1. CASE \/ Start \/ UNCHANGED vars \/ (ClientSteps /\ ~Connected) \/ ClientEnds
           \/ (\E input \in Inputs : Type(input)) \/ \E d \in Links : Progress(d)
  <2>1. /\ UNCHANGED <<worker, user_room, mqueue, given>>
        /\ sent'[Down] = sent[Down] /\ handled'[Up] = handled[Up]
    BY <1>0, <1>1, WorkerElsewhere
  <2> QED BY <1>0, <2>1, AnswersStay
<1>2. CASE Connected \/ Accept \/ Greeted \/ Welcomed \/ DeliverFailed \/ NothingRead \/ WorkerEnds
  BY <1>2, AnswersNothing
<1>3. CASE LoginRead \/ LoginFailed \/ JoinRead \/ GiveUp
  BY <1>3, AnswersReply
<1>4. CASE Deliver
  BY <1>4, AnswersDeliver
<1>5. CASE Serve
  BY <1>5 DEF Serve, ServeJoin, ServeSendall, ServeLeave, ServeQuit, ServeOther, Serving, Idle,
              AnswersThenDelivers
<1>6. CASE \E u \in Names, t \in Texts : Broadcast(u, t)
  BY <1>6, AnswersGiven
<1> QED BY <1>1, <1>2, <1>3, <1>4, <1>5, <1>6 DEF Next, WorkerSteps

\* Nothing is given, in the room it was.
LEMMA GivenStays ==
  ASSUME SessionInv, [Next]_vars, GivenFromRoom, UNCHANGED <<given, user_room>>,
         handled'[Up] = handled[Up]
  PROVE  GivenFromRoom'
<1>1. /\ handled[Up] \in Nat /\ handled[Up] <= Len(received[Up]) /\ Len(received[Up]) \in Nat
      /\ \A k \in 1..Len(received[Up]) : received'[Up][k] = received[Up][k]
  BY CountsTyped, LinesStay, TwoLinks
<1>2. handled[Up] >= 2 => received'[Up][2] = received[Up][2]
  BY <1>1
<1>3. given' # <<>> => handled'[Up] >= 2 /\ user_room' = Parse(received'[Up][2]).data
  BY <1>2 DEF GivenFromRoom
<1>4. \A k \in 1..Len(given') :
        /\ given'[k].tag = <<"delivery">>
        /\ \E u, t \in Seq(Chars) :
             given'[k].data = rtrim(user_room') \o <<Colon>> \o u \o <<Colon>> \o t
  BY DEF GivenFromRoom
<1>5. rtrim(user_room)' = rtrim(user_room')
  OBVIOUS
<1> QED BY <1>3, <1>4, <1>5 DEF GivenFromRoom

\* Every step keeps what is given to a receiver.
LEMMA GivenKept ==
  ASSUME EndsInv, [Next]_vars, AnswersThenDelivers, GivenFromRoom, program = "receiver"
  PROVE  GivenFromRoom'
<1>0. SessionInv /\ PeersOK
  BY DEF EndsInv, SessionInv
<1>1. CASE \/ Start \/ UNCHANGED vars \/ (ClientSteps /\ ~Connected) \/ ClientEnds
           \/ (\E input \in Inputs : Type(input)) \/ \E d \in Links : Progress(d)
  BY <1>0, <1>1, WorkerElsewhere, GivenStays
<1>2. CASE \/ Connected \/ Accept \/ Greeted \/ Welcomed \/ DeliverFailed \/ NothingRead
           \/ WorkerEnds \/ Deliver
  <2>1. UNCHANGED <<given, user_room, handled>>
    BY <1>2 DEF Connected, Accept, Greeted, Welcomed, DeliverFailed, NothingRead, WorkerEnds,
                Deliver, histories
  <2> QED BY <1>0, <2>1, GivenStays
<1>3. CASE LoginRead \/ LoginFailed \/ JoinRead \/ GiveUp
  <2>1. worker \in {"login", "greet", "join", "login failed", "join failed"} /\ UNCHANGED given
    BY <1>3 DEF LoginRead, LoginFailed, JoinRead, GiveUp, Idle, histories
  <2>2. given' = <<>>
    BY <2>1 DEF AnswersThenDelivers
  <2>3. Len(given') = 0
    BY <2>2
  <2> QED BY <2>2, <2>3 DEF GivenFromRoom
<1>4. CASE Serve
  BY <1>4 DEF Serve, ServeJoin, ServeSendall, ServeLeave, ServeQuit, ServeOther, Serving, Idle,
              AnswersThenDelivers
<1>5. ASSUME NEW u \in Names, NEW t \in Texts, Broadcast(u, t)
      PROVE  GivenFromRoom'
  <2>1. /\ worker \in {"welcome", "deliver"} /\ UNCHANGED <<user_room, handled, received>>
    BY <1>5 DEF Broadcast, connections, reading
  <2>2. handled[Up] >= 2 /\ user_room = Parse(received[Up][2]).data
    BY <2>1 DEF AnswersThenDelivers
  <2>3. PICK a \in Seq(Chars), b \in Seq(Chars) : a = rtrim(u) /\ b = rtrim(t)
    <3>1. u \in Seq(Chars) /\ t \in Seq(Chars)
      BY SessionAssumption
    <3> QED BY <3>1, TrimTyped
  <2>4. PICK msg \in Messages :
          /\ given' = Append(given, msg)
          /\ msg = Message("delivery", rtrim(user_room) \o <<Colon>> \o rtrim(u) \o <<Colon>> \o rtrim(t))
    <3>1. u \in Seq(Chars) /\ t \in Seq(Chars) /\ user_room \in Seq(Chars)
      BY <1>0, SessionAssumption DEF PeersOK
    <3> QED BY <1>5, <3>1, DeliveryTyped DEF Broadcast
  <2>5. /\ msg.tag = <<"delivery">>
        /\ msg.data = rtrim(user_room) \o <<Colon>> \o a \o <<Colon>> \o b
    BY <2>3, <2>4 DEF Message
  <2>6. PICK g \in Seq(Messages) : g = given
    BY <1>0 DEF PeersOK
  <2>7. /\ Len(g) \in Nat /\ Len(Append(g, msg)) = Len(g) + 1 /\ Append(g, msg)[Len(g) + 1] = msg
        /\ \A k \in 1..Len(g) : Append(g, msg)[k] = g[k]
    BY AppendProperties, LenProperties
  <2>8. ASSUME NEW k \in 1..Len(given')
        PROVE  /\ given'[k].tag = <<"delivery">>
               /\ \E v, w \in Seq(Chars) :
                    given'[k].data = rtrim(user_room) \o <<Colon>> \o v \o <<Colon>> \o w
    <3>1. k = Len(g) + 1 \/ k \in 1..Len(g)
      BY <2>4, <2>6, <2>7
    <3>2. CASE k = Len(g) + 1
      <4>1. given'[k] = msg
        BY <2>4, <2>6, <2>7, <3>2
      <4> QED BY <2>5, <4>1
    <3>3. CASE k \in 1..Len(g)
      <4>1. given'[k] = given[k] /\ k \in 1..Len(given)
        BY <2>4, <2>6, <2>7, <3>3
      <4> QED BY <4>1 DEF GivenFromRoom
    <3> QED BY <3>1, <3>2, <3>3
  <2>9. rtrim(user_room)' = rtrim(user_room)
    BY <2>1
  <2> QED BY <2>1, <2>2, <2>8, <2>9 DEF GivenFromRoom
<1> QED BY <1>1, <1>2, <1>3, <1>4, <1>5 DEF Next, WorkerSteps

\* What has been shown so far, when the lines it came from are as they were.
LEMMA ShowsStay ==
  ASSUME SessionInv, [Next]_vars, ShowsInTurn, UNCHANGED shown, handled'[Down] = handled[Down],
         client' = "chat" => client = "chat"
  PROVE  ShowsInTurn'
<1>1. /\ handled[Down] \in Nat /\ handled[Down] <= Len(received[Down]) /\ Len(received[Down]) \in Nat
      /\ \A k \in 1..Len(received[Down]) : received'[Down][k] = received[Down][k]
  BY CountsTyped, LinesStay, TwoLinks
<1>2. /\ Len(sent[Down]) \in Nat
      /\ \A k \in 1..Len(sent[Down]) : sent'[Down][k] = sent[Down][k]
  BY LinesStay, TwoLinks
<1>3. ASSUME Short(sent'[Down]) PROVE Short(sent[Down])
  BY <1>3, StreamsGrow, ShortBefore, SentTyped, TwoLinks
<1>4. ASSUME Short(sent'[Down]), NEW k \in 1..handled[Down]
      PROVE  received'[Down][k] = received[Down][k] /\ sent'[Down][k] = sent[Down][k]
  <2>1. Len(received[Down]) <= Len(sent[Down])
    BY <1>3, <1>4, ReadWhole, TwoLinks
  <2>2. k \in 1..Len(received[Down]) /\ k \in 1..Len(sent[Down])
    BY <1>1, <1>2, <2>1
  <2> QED BY <1>1, <1>2, <2>2
<1>5. /\ shown \in Seq(Strings \X Strings)
      /\ Len(shown) \in Nat /\ (shown # <<>> => Len(shown) + 2 <= handled[Down])
  BY LenProperties DEF ShowsInTurn
<1>6. ASSUME Short(sent'[Down]), NEW k \in 1..Len(shown)
      PROVE  LET parts == Parts(Parse(received'[Down][k + 2]).data)
             IN Len(parts) = 3 /\ shown[k] = <<parts[2], parts[3]>>
  <2>1. shown # <<>>
    BY <1>5, <1>6, EmptySeq
  <2>2. k + 2 \in 1..handled[Down]
    BY <1>1, <1>5, <2>1
  <2>3. received'[Down][k + 2] = received[Down][k + 2]
    BY <1>4, <1>6, <2>2
  <2>4. LET parts == Parts(Parse(received[Down][k + 2]).data)
        IN Len(parts) = 3 /\ shown[k] = <<parts[2], parts[3]>>
    BY <1>3, <1>6 DEF ShowsInTurn
  <2> QED BY <2>3, <2>4
<1>7. ASSUME Short(sent'[Down]), client' = "chat", Len(shown) + 2 # handled[Down]
      PROVE  \E k \in 3..handled[Down] : received'[Down][k] # Encode(sent'[Down][k])
  <2>1. PICK k \in 3..handled[Down] : received[Down][k] # Encode(sent[Down][k])
    BY <1>3, <1>7 DEF ShowsInTurn
  <2>2. k \in 1..handled[Down]
    BY <1>1
  <2>3. received'[Down][k] = received[Down][k] /\ sent'[Down][k] = sent[Down][k]
    BY <1>4, <1>7, <2>2
  <2> QED BY <2>1, <2>3
<1> QED BY <1>5, <1>6, <1>7 DEF ShowsInTurn

\* The line that is handled next has the message given after those shown, as
\* long as the messages fit a line.
LEMMA NextShown ==
  ASSUME EndsInv, AsksInTurn, AnswersThenDelivers, GivenFromRoom, ShowsInTurn, program = "receiver",
         client = "chat", Waiting(Down), Short(sent[Down])
  PROVE  /\ handled[Down] \in Nat /\ Len(shown) \in Nat
         /\ Len(shown) + 2 = handled[Down]
         /\ handled[Down] + 1 \in 1..Len(received[Down])
         /\ Len(shown) + 1 \in 1..Len(given)
         /\ sent[Down][handled[Down] + 1] = given[Len(shown) + 1]
         /\ received[Down][handled[Down] + 1] = Encode(sent[Down][handled[Down] + 1]) =>
              /\ NextMessage(Down).tag = <<"delivery">>
              /\ NextMessage(Down).data = given[Len(shown) + 1].data \o <<Newline>>
<1>0. SessionInv /\ PeersOK
  BY DEF EndsInv, SessionInv
<1>1. PICK h \in Nat, R \in Nat, S \in Nat :
        /\ h = handled[Down] /\ R = Len(received[Down]) /\ S = Len(sent[Down])
        /\ h < R /\ R <= S /\ h >= 2
  <2>1. handled[Down] < Len(received[Down]) /\ Len(received[Down]) <= Len(sent[Down])
    BY <1>0, ReadWhole, TwoLinks DEF Waiting
  <2>2. handled[Down] >= 2
    BY DEF AsksInTurn
  <2>3. handled[Down] \in Nat /\ Len(received[Down]) \in Nat /\ Len(sent[Down]) \in Nat
    BY <1>0, CountsTyped, SentTyped, TwoLinks
  <2> QED BY <2>1, <2>2, <2>3
<1>2. PICK N \in Nat : N = Len(shown)
  BY LenProperties DEF ShowsInTurn
<1>3. \A k \in 1..R : k < R => received[Down][k] = Encode(sent[Down][k])
  BY <1>0, <1>1, ReadWhole, TwoLinks
<1>4. N + 2 = h
  <2>1. SUFFICES ASSUME N + 2 # h PROVE FALSE
    OBVIOUS
  <2>2. PICK k \in 3..h : received[Down][k] # Encode(sent[Down][k])
    BY <1>1, <1>2, <2>1 DEF ShowsInTurn
  <2>3. k \in 1..R /\ k < R
    BY <1>1
  <2> QED BY <1>3, <2>2, <2>3
<1>5. h + 1 \in 3..S /\ h + 1 \in 1..R /\ (h + 1) - 2 = N + 1
  BY <1>1, <1>4
<1>6. N + 1 <= Len(given) /\ sent[Down][h + 1] = given[N + 1]
  <2>1. (h + 1) - 2 <= Len(given) /\ sent[Down][h + 1] = given[(h + 1) - 2]
    BY <1>1, <1>5 DEF AnswersThenDelivers
  <2> QED BY <1>5, <2>1
<1>7. N + 1 \in 1..Len(given)
  <2>1. Len(given) \in Nat
    BY <1>0, LenProperties DEF PeersOK
  <2> QED BY <1>6, <2>1
<1>8. ASSUME received[Down][h + 1] = Encode(sent[Down][h + 1])
      PROVE  /\ NextMessage(Down).tag = <<"delivery">>
             /\ NextMessage(Down).data = given[N + 1].data \o <<Newline>>
  <2>1. PICK msg \in Messages : msg = given[N + 1]
    BY <1>0, <1>7, ElementOfSeq DEF PeersOK
  <2>2. NextMessage(Down) = Parse(Encode(msg))
    BY <1>1, <1>6, <1>8, <2>1 DEF NextMessage
  <2>3. NextMessage(Down) = [tag |-> msg.tag, data |-> msg.data \o <<Newline>>]
    BY <2>2, ParseEncoded
  <2>4. msg.tag = <<"delivery">>
    BY <1>7, <2>1 DEF GivenFromRoom
  <2> QED BY <2>1, <2>3, <2>4
<1> QED BY <1>1, <1>2, <1>4, <1>5, <1>6, <1>7, <1>8

\* The receiver takes a line in its loop.
LEMMA ShowsChat ==
  ASSUME EndsInv, AsksInTurn, [Next]_vars, AnswersThenDelivers, GivenFromRoom, ShowsInTurn,
         program = "receiver", Chat
  PROVE  ShowsInTurn'
<1>0. SessionInv
  BY DEF EndsInv
<1>1. /\ client = "chat" /\ Waiting(Down)
      /\ UNCHANGED <<sent, received>>
  BY DEF Chat, connections, writing, reading
<1>2. PICK h \in Nat : h = handled[Down] /\ handled'[Down] = h + 1 /\ h >= 2
  <2>1. handled[Down] \in Nat /\ handled'[Down] = handled[Down] + 1
    BY <1>0, TwoLinks DEF Chat, Take, SessionInv, CountsOK
  <2>2. handled[Down] >= 2
    BY <1>1 DEF AsksInTurn
  <2> QED BY <2>1, <2>2
<1>3. PICK N \in Nat : N = Len(shown) /\ (shown # <<>> => N + 2 <= h) /\ shown \in Seq(Strings \X Strings)
  BY <1>2, LenProperties DEF ShowsInTurn
<1>4. N + 2 <= h
  <2>1. CASE shown = <<>>
    <3>1. N = 0
      BY <1>3, <2>1
    <3> QED BY <1>2, <3>1
  <2> QED BY <1>3, <2>1
<1>5. PICK data \in Strings : data = NextMessage(Down).data
  BY <1>0, <1>1, NextTyped, TwoLinks DEF Strings
<1>6. PICK parts \in Seq(Strings) : parts = Parts(data)
  BY PartsTyped
<1>short. Short(sent'[Down]) => Short(sent[Down]) /\ N + 2 = h
  BY <1>1, <1>2, <1>3, NextShown
<1>7. CASE UNCHANGED shown
  <2>1. ASSUME client' = "chat", Short(sent[Down])
        PROVE  received[Down][h + 1] # Encode(sent[Down][h + 1])
    <3>1. NextMessage(Down).tag # <<"delivery">>
      <4>1. SUFFICES ASSUME NextMessage(Down).tag = <<"delivery">> PROVE FALSE
        OBVIOUS
      <4>2. CASE Len(parts) # 3
        BY <1>5, <1>6, <2>1, <4>1, <4>2 DEF Chat
      <4>3. CASE Len(parts) = 3
        <5>1. shown' = Append(shown, <<parts[2], parts[3]>>)
          BY <1>5, <1>6, <4>1, <4>3 DEF Chat
        <5>2. <<parts[2], parts[3]>> \in Strings \X Strings
          <6>1. 2 \in 1..Len(parts) /\ 3 \in 1..Len(parts)
            BY <4>3
          <6>2. parts[2] \in Strings /\ parts[3] \in Strings
            BY <6>1, ElementOfSeq
          <6> QED BY <6>2
        <5>3. Len(Append(shown, <<parts[2], parts[3]>>)) = Len(shown) + 1
          BY <1>3, <5>2, AppendProperties
        <5>4. N = N + 1
          BY <1>3, <1>7, <5>1, <5>3
        <5> QED BY <5>4
      <4> QED BY <4>2, <4>3
    <3> QED BY <1>1, <1>2, <2>1, <3>1, NextShown
  <2>2. ASSUME Short(sent'[Down]), client' = "chat"
        PROVE  \E k \in 3..handled'[Down] : received'[Down][k] # Encode(sent'[Down][k])
    <3>1. h + 1 \in 3..handled'[Down]
      BY <1>2
    <3>2. received[Down][h + 1] # Encode(sent[Down][h + 1])
      BY <1>short, <2>1, <2>2
    <3> QED BY <1>1, <3>1, <3>2
  <2>3. shown' # <<>> => Len(shown') + 2 <= handled'[Down]
    <3>1. Len(shown') = N
      BY <1>3, <1>7
    <3> QED BY <1>2, <1>4, <3>1
  <2>4. Short(sent'[Down]) => \A k \in 1..Len(shown') :
            LET new == Parts(Parse(received'[Down][k + 2]).data)
            IN Len(new) = 3 /\ shown'[k] = <<new[2], new[3]>>
    BY <1>1, <1>7 DEF ShowsInTurn
  <2> QED BY <1>3, <1>7, <2>2, <2>3, <2>4 DEF ShowsInTurn
<1>8. CASE Len(parts) = 3 /\ shown' = Append(shown, <<parts[2], parts[3]>>)
  <2>1. PICK one \in Strings \X Strings : one = <<parts[2], parts[3]>>
    <3>1. parts[2] \in Strings /\ parts[3] \in Strings
      <4>1. 2 \in 1..Len(parts) /\ 3 \in 1..Len(parts)
        BY <1>8
      <4> QED BY <4>1, ElementOfSeq
    <3> QED BY <3>1
  <2>2. /\ Append(shown, one) \in Seq(Strings \X Strings) /\ Append(shown, one) # <<>>
        /\ Len(Append(shown, one)) = N + 1 /\ Append(shown, one)[N + 1] = one
        /\ \A k \in 1..N : Append(shown, one)[k] = shown[k]
    <3>0. PICK Shown : Shown = Strings \X Strings
      OBVIOUS
    <3>1. PICK s \in Seq(Shown) : s = shown /\ N = Len(s)
      BY <1>3, <3>0
    <3>2. one \in Shown
      BY <3>0
    <3>3. /\ Append(s, one) \in Seq(Shown) /\ Append(s, one) # <<>>
          /\ Len(Append(s, one)) = Len(s) + 1 /\ Append(s, one)[Len(s) + 1] = one
          /\ \A k \in 1..Len(s) : Append(s, one)[k] = s[k]
      BY <3>2, AppendProperties
    <3> QED BY <3>0, <3>1, <3>3
  <2>3. shown' = Append(shown, one)
    BY <1>8, <2>1
  <2>4. Len(shown') + 2 <= handled'[Down]
    BY <1>2, <1>4, <2>2, <2>3
  <2>5. Short(sent'[Down]) => Len(shown') + 2 = handled'[Down]
    BY <1>short, <1>2, <2>2, <2>3
  <2>6. ASSUME Short(sent'[Down]), NEW k \in 1..Len(shown')
        PROVE  LET new == Parts(Parse(received'[Down][k + 2]).data)
               IN Len(new) = 3 /\ shown'[k] = <<new[2], new[3]>>
    <3>1. k = N + 1 \/ k \in 1..N
      BY <2>2, <2>3
    <3>2. CASE k \in 1..N
      <4>1. LET new == Parts(Parse(received[Down][k + 2]).data)
            IN Len(new) = 3 /\ shown[k] = <<new[2], new[3]>>
        BY <1>short, <1>3, <2>6, <3>2 DEF ShowsInTurn
      <4> QED BY <1>1, <2>2, <2>3, <3>2, <4>1
    <3>3. CASE k = N + 1
      <4>1. k + 2 = h + 1
        BY <1>short, <2>6, <3>3
      <4>2. Parts(Parse(received'[Down][k + 2]).data) = parts
        BY <1>1, <1>2, <1>5, <1>6, <4>1 DEF NextMessage
      <4>3. shown'[k] = <<parts[2], parts[3]>>
        BY <2>1, <2>2, <2>3, <3>3
      <4> QED BY <1>8, <4>2, <4>3
    <3> QED BY <3>1, <3>2, <3>3
  <2> QED BY <2>2, <2>3, <2>4, <2>5, <2>6 DEF ShowsInTurn
<1>9. UNCHANGED shown \/ (Len(parts) = 3 /\ shown' = Append(shown, <<parts[2], parts[3]>>))
  BY <1>5, <1>6 DEF Chat
<1> QED BY <1>7, <1>8, <1>9

\* A receiver takes a reply before it has shown anything.
LEMMA ShowsReply ==
  ASSUME EndsInv, AsksInTurn, AsksInTurn', ShowsInTurn, program = "receiver", program' = program,
         Reply
  PROVE  ShowsInTurn'
<1>0. SessionInv
  BY DEF EndsInv
<1>1. /\ client = "await" /\ UNCHANGED <<shown, sent, received>>
  BY DEF Reply, connections, writing, reading
<1>2. PICK h \in Nat : h = handled[Down] /\ handled'[Down] = h + 1
  BY <1>0, TwoLinks DEF Reply, Take, SessionInv, CountsOK
<1>3. h <= 1
  <2>1. Len(sent[Up]) = h + 1 /\ Len(sent[Up]) <= 2
    BY <1>1, <1>2 DEF AsksInTurn
  <2> QED BY <2>1
<1>4. shown = <<>>
  <2>1. SUFFICES ASSUME shown # <<>> PROVE FALSE
    OBVIOUS
  <2>2. Len(shown) + 2 <= h
    BY <1>2, <2>1 DEF ShowsInTurn
  <2>3. Len(shown) \in Nat
    BY LenProperties DEF ShowsInTurn
  <2> QED BY <1>3, <2>2, <2>3
<1>5. shown' = <<>> /\ Len(shown') = 0
  BY <1>1, <1>4
<1>6. client' = "chat" => handled'[Down] = 2
  <2>1. client' = "chat" => handled'[Down] >= 2
    BY DEF AsksInTurn
  <2> QED BY <1>2, <1>3, <2>1
<1>7. shown' \in Seq(Strings \X Strings)
  BY <1>1 DEF ShowsInTurn
<1>8. 1..Len(shown') = {} /\ (client' = "chat" => Len(shown') + 2 = handled'[Down])
  BY <1>5, <1>6
<1> QED BY <1>5, <1>7, <1>8 DEF ShowsInTurn

\* Every step keeps what a receiver shows in turn.
LEMMA ShowsKept ==
  ASSUME EndsInv, AsksInTurn, AsksInTurn', [Next]_vars, AnswersThenDelivers, GivenFromRoom,
         ShowsInTurn, program = "receiver", program' = program
  PROVE  ShowsInTurn'
<1>0. SessionInv
  BY DEF EndsInv
<1>1. CASE \/ Start \/ UNCHANGED vars \/ WorkerSteps \/ WorkerEnds
           \/ (\E u \in Names, t \in Texts : Broadcast(u, t)) \/ \E d \in Links : Progress(d)
  <2>1. UNCHANGED <<client, shown>> /\ handled'[Down] = handled[Down]
    BY <1>0, <1>1, ElsewhereLeaves
  <2> QED BY <1>0, <2>1, ShowsStay
<1>2. ASSUME UNCHANGED <<shown, handled>>, client' = "chat" => client = "chat"
      PROVE  ShowsInTurn'
  BY <1>0, <1>2, ShowsStay
<1>3. \A tag : Proceed(tag, FALSE) # "chat"
  BY DEF Proceed
<1>4. ASSUME NEW msg, Request(msg) PROVE ShowsInTurn'
  <2>1. UNCHANGED <<shown, handled>> /\ client' # "chat"
    BY <1>3, <1>4 DEF Request, histories
  <2> QED BY <1>2, <2>1
<1>5. CASE Connected \/ NotConnected \/ ClientEnds
  <2>1. UNCHANGED <<shown, handled>> /\ client' # "chat"
    BY <1>5 DEF Connected, NotConnected, ClientEnds, histories
  <2> QED BY <1>2, <2>1
<1>6. CASE Sent \/ NothingReceived
  <2>1. UNCHANGED <<shown, handled>> /\ client' # "chat"
    BY <1>3, <1>6 DEF Sent, NothingReceived, histories
  <2> QED BY <1>2, <2>1
<1>7. CASE Login \/ Join
  BY <1>4, <1>7 DEF Login, Join
<1>8. CASE \E input \in Inputs : Type(input)
  <2>1. client = "prompt"
    BY <1>8 DEF Type
  <2> QED BY <2>1 DEF AsksInTurn
<1>9. CASE Reply
  BY <1>9, ShowsReply
<1>10. CASE Chat
  BY <1>10, ShowsChat
<1> QED BY <1>1, <1>5, <1>6, <1>7, <1>8, <1>9, <1>10 DEF Next, ClientSteps

\* The program stays what it was.
LEMMA ProgramStays ==
  ASSUME SessionInv, [Next]_vars
  PROVE  UNCHANGED program
<1>1. CASE \/ Start \/ UNCHANGED vars \/ (ClientSteps /\ ~Connected) \/ ClientEnds
           \/ (\E input \in Inputs : Type(input)) \/ \E d \in Links : Progress(d)
  BY <1>1, WorkerElsewhere
<1>2. CASE Connected
  BY <1>2 DEF Connected, arguments
<1>3. CASE WorkerSteps \/ WorkerEnds \/ \E u \in Names, t \in Texts : Broadcast(u, t)
  BY <1>3, ElsewhereLeaves
<1> QED BY <1>1, <1>2, <1>3 DEF Next

\* At first nothing has been answered, given or shown.
LEMMA ReceiverStarts ==
  ASSUME SessionInit
  PROVE  ReceiverInv
<1>1. /\ worker = "none" /\ given = <<>> /\ shown = <<>> /\ client = "connect"
      /\ sent[Down] = <<>> /\ handled[Up] = 0
  BY TwoLinks DEF SessionInit, InitStreams
<1>2. /\ Len(sent[Down]) = 0 /\ Len(given) = 0 /\ Len(shown) = 0
      /\ 3..0 = {} /\ 1..0 = {} /\ shown \in Seq(Strings \X Strings)
  <2>1. <<>> \in Seq(Strings \X Strings)
    BY EmptySeq
  <2> QED BY <1>1, <2>1
<1>3. AnswersThenDelivers
  BY <1>1, <1>2 DEF AnswersThenDelivers
<1>4. GivenFromRoom
  BY <1>1, <1>2 DEF GivenFromRoom
<1>5. ShowsInTurn
  BY <1>1, <1>2 DEF ShowsInTurn
<1> QED BY <1>3, <1>4, <1>5 DEF ReceiverInv

\* Along every session of a receiver its worker answers twice and then delivers
\* what it was given, and the receiver shows what it reads.
THEOREM ReceiverAlways ==
  Spec => []ReceiverInv
<1>1. SessionInit => ReceiverInv
  BY ReceiverStarts
<1>2. EndsInv /\ AsksInTurn /\ AsksInTurn' /\ ReceiverInv /\ [Next]_vars => ReceiverInv'
  <2>1. SUFFICES ASSUME EndsInv, AsksInTurn, AsksInTurn', ReceiverInv, [Next]_vars,
                        program' = "receiver"
                 PROVE  AnswersThenDelivers' /\ GivenFromRoom' /\ ShowsInTurn'
    BY DEF ReceiverInv
  <2>2. SessionInv /\ program' = program
    BY <2>1, ProgramStays DEF EndsInv
  <2>3. program = "receiver" /\ AnswersThenDelivers /\ GivenFromRoom /\ ShowsInTurn
    BY <2>1, <2>2 DEF ReceiverInv
  <2> QED BY <2>1, <2>2, <2>3, AnswersKept, GivenKept, ShowsKept
<1> QED BY <1>1, <1>2, EndsAlways, AsksAlways, PTL DEF Spec

-----------------------------------------------------------------------------
(* What a receiver shows is what was said in its room                        *)

\* A line that came as it was sent is shown as it was given.
LEMMA ShownAsGiven ==
  ASSUME EndsInv, NEW k \in 1..Len(shown), k + 2 <= Len(sent[Down]), sent[Down][k + 2] = given[k],
         received[Down][k + 2] = Encode(sent[Down][k + 2]), k + 2 \in Nat,
         LET parts == Parts(Parse(received[Down][k + 2]).data)
         IN Len(parts) = 3 /\ shown[k] = <<parts[2], parts[3]>>
  PROVE  LET parts == Parts(given[k].data)
         IN shown[k] = <<parts[2], Append(parts[3], Newline)>>
<1>1. k + 2 \in 1..Len(sent[Down])
  <2>1. Len(sent[Down]) \in Nat
    BY SentTyped, TwoLinks DEF EndsInv
  <2>2. k \in Nat /\ k >= 1
    OBVIOUS
  <2> QED BY <2>1, <2>2
<1>2. PICK msg \in Messages : msg = given[k] /\ msg = sent[Down][k + 2]
  BY <1>1, SentTyped, TwoLinks DEF EndsInv
<1>3. Parse(received[Down][k + 2]).data = msg.data \o <<Newline>>
  <2>1. received[Down][k + 2] = Encode(msg)
    BY <1>2
  <2>2. Parse(Encode(msg)) = [tag |-> msg.tag, data |-> msg.data \o <<Newline>>]
    BY ParseEncoded
  <2> QED BY <2>1, <2>2
<1>4. PICK data \in Strings : data = msg.data
  BY DEF Messages, Strings
<1>5. PICK whole, read : whole = Parts(data) /\ read = Parts(data \o <<Newline>>)
  OBVIOUS
<1>6. Len(read) = 3 /\ shown[k] = <<read[2], read[3]>>
  BY <1>3, <1>4, <1>5
<1>7. PICK n : n = Len(whole)
  OBVIOUS
<1>8. read[2] = whole[2] /\ read[3] = Append(whole[3], Newline)
  <2>1. /\ Len(read) = n
        /\ \A j \in 1..n : read[j] = IF j = n THEN Append(whole[j], Newline) ELSE whole[j]
    BY <1>5, <1>7, NewlineInLastPart
  <2>2. n = 3
    BY <1>6, <2>1, Zenon
  <2>3. \A j \in 1..3 : read[j] = IF j = 3 THEN Append(whole[j], Newline) ELSE whole[j]
    BY <2>1, <2>2, Zenon
  <2> QED BY <2>3
<1> QED BY <1>2, <1>4, <1>5, <1>6, <1>8

\* What the invariants say of what is shown.
LEMMA InvShowsInOrder ==
  ASSUME EndsInv, AsksInTurn, ReceiverInv
  PROVE  ShownInOrder
<1>0. SessionInv /\ program \in {"sender", "receiver"}
  BY DEF EndsInv, SessionInv, ArgumentsOK
<1>1. SUFFICES ASSUME LinesOfAtMost(Down, MAX_LEN - 1), NEW k \in DOMAIN shown
               PROVE  LET parts == Parts(given[k].data)
                      IN \/ shown[k] = <<parts[2], Append(parts[3], Newline)>>
                         \/ k = Len(shown) /\ ~open["worker"]
  BY DEF ShownInOrder
<1>2. Short(sent[Down])
  <2>1. DOMAIN sent[Down] = 1..Len(sent[Down])
    BY <1>0, SentTyped, TwoLinks
  <2> QED BY <1>1, <2>1 DEF LinesOfAtMost, Short
<1>3. program = "receiver"
  <2>1. DOMAIN <<>> = {}
    OBVIOUS
  <2>2. program = "sender" => DOMAIN shown = {}
    BY <2>1 DEF AsksInTurn
  <2> QED BY <1>0, <1>1, <2>2
<1>4. AnswersThenDelivers /\ ShowsInTurn
  BY <1>3 DEF ReceiverInv
<1>5. PICK N \in Nat : N = Len(shown) /\ k \in 1..N /\ shown # <<>>
  <2>1. shown \in Seq(Strings \X Strings)
    BY <1>4 DEF ShowsInTurn
  <2>2. DOMAIN shown = 1..Len(shown) /\ Len(shown) \in Nat
    BY <2>1, LenProperties
  <2>3. shown # <<>>
    BY <1>1
  <2> QED BY <1>1, <2>2, <2>3
<1>6. PICK h \in Nat, R \in Nat, S \in Nat :
        /\ h = handled[Down] /\ R = Len(received[Down]) /\ S = Len(sent[Down])
        /\ N + 2 <= h /\ h <= R /\ R <= S
  <2>1. handled[Down] \in Nat /\ Len(received[Down]) \in Nat /\ handled[Down] <= Len(received[Down])
    BY <1>0, CountsTyped, TwoLinks
  <2>2. Len(received[Down]) <= Len(sent[Down])
    BY <1>0, <1>2, ReadWhole, TwoLinks
  <2>3. Len(sent[Down]) \in Nat
    BY <1>0, SentTyped, TwoLinks
  <2>4. N + 2 <= handled[Down]
    BY <1>4, <1>5 DEF ShowsInTurn
  <2> QED BY <2>1, <2>2, <2>3, <2>4
<1>7. k + 2 \in 3..S /\ k + 2 \in 1..R /\ (k + 2) - 2 = k /\ (k + 2 = R => k = N)
  <2>1. k \in Nat /\ k >= 1 /\ k <= N
    BY <1>5
  <2>2. k + 2 <= R /\ k + 2 <= S
    BY <1>6, <2>1
  <2> QED BY <1>6, <2>1, <2>2
<1>8. sent[Down][k + 2] = given[k]
  <2>1. sent[Down][k + 2] = given[(k + 2) - 2]
    BY <1>4, <1>6, <1>7 DEF AnswersThenDelivers
  <2> QED BY <1>7, <2>1
<1>9. LET parts == Parts(Parse(received[Down][k + 2]).data)
      IN Len(parts) = 3 /\ shown[k] = <<parts[2], parts[3]>>
  BY <1>2, <1>4, <1>5 DEF ShowsInTurn
<1>10. CASE received[Down][k + 2] = Encode(sent[Down][k + 2])
  <2>1. k + 2 <= Len(sent[Down]) /\ k + 2 \in Nat /\ k \in 1..Len(shown)
    BY <1>5, <1>6, <1>7
  <2> QED BY <1>8, <1>9, <1>10, <2>1, ShownAsGiven
<1>11. CASE received[Down][k + 2] # Encode(sent[Down][k + 2])
  <2>1. ~(open["worker"] \/ k + 2 < R)
    BY <1>0, <1>2, <1>6, <1>7, <1>11, ReadWhole, TwoLinks
  <2>2. k + 2 = R
    BY <1>7, <2>1
  <2> QED BY <1>5, <1>7, <2>1, <2>2
<1> QED BY <1>10, <1>11

\* A receiver shows the messages of its room in their order, each with its
\* sender, whole and once, as long as they fit the buffer of receive; only what
\* the end of the server has cut off may be shown as it came
\* (receiver.cpp:52-71, client_util.cpp, server.cpp:94-108).
THEOREM ShownInOrderAlways ==
  Spec => []ShownInOrder
<1>1. EndsInv /\ AsksInTurn /\ ReceiverInv => ShownInOrder
  BY InvShowsInOrder
<1> QED BY <1>1, EndsAlways, AsksAlways, ReceiverAlways, PTL

-----------------------------------------------------------------------------
(* Why a receiver stops, and why its worker stops delivering                 *)

\* rtrim takes the newline that receive has left behind the name of a room.
LEMMA TrimNewline ==
  ASSUME NEW s \in Strings
  PROVE  rtrim(s \o <<Newline>>) = rtrim(s)
<1>1. PICK n \in Nat : n = Len(s)
  BY LenProperties DEF Strings
<1>2. PICK longer \in Strings :
        /\ longer = s \o <<Newline>> /\ Len(longer) = n + 1 /\ longer[n + 1] = Newline
        /\ \A i \in 1..n : longer[i] = s[i]
  <2>1. Newline \in Chars
    BY DEF Chars
  <2>2. Append(s, Newline) = s \o <<Newline>>
    BY <2>1, AppendIsConcat DEF Strings
  <2>3. /\ Append(s, Newline) \in Strings /\ Len(Append(s, Newline)) = Len(s) + 1
        /\ \A i \in 1..Len(s) : Append(s, Newline)[i] = s[i]
        /\ Append(s, Newline)[Len(s) + 1] = Newline
    BY <2>1, AppendProperties DEF Strings
  <2> QED BY <1>1, <2>2, <2>3
<1>3. PICK I : I = {i \in 1..n : s[i] \notin WHITESPACE}
  OBVIOUS
<1>4. {i \in 1..n + 1 : longer[i] \notin WHITESPACE} = I
  <2>1. Newline \in WHITESPACE
    BY DEF WHITESPACE
  <2>2. \A i : i \in 1..n + 1 <=> i \in 1..n \/ i = n + 1
    OBVIOUS
  <2> QED BY <1>2, <1>3, <2>1, <2>2
<1>5. PICK m : m = IF I # {} THEN Max(I) ELSE 0
  OBVIOUS
<1>6. rtrim(s) = SubSeq(s, 1, m) /\ rtrim(longer) = SubSeq(longer, 1, m)
  BY <1>1, <1>2, <1>3, <1>4, <1>5 DEF rtrim, SelectLastInSeq
<1>7. m \in 0..n
  <2>1. I # {} => Max(I) \in 1..n
    <3>1. I \in SUBSET (1..n)
      BY <1>3
    <3> QED BY <3>1, LastInside
  <2>2. m = 0 \/ m \in 1..n
    BY <1>5, <2>1
  <2> QED BY <2>2
<1>8. SubSeq(s, 1, m) = SubSeq(longer, 1, m)
  <2>1. \A i \in 1..m : s[i] = longer[i]
    BY <1>2, <1>7
  <2>2. SubSeq(s, 1, m) = [i \in 1..m |-> s[i]] /\ SubSeq(longer, 1, m) = [i \in 1..m |-> longer[i]]
    BY <1>1, <1>2, <1>7 DEF Strings
  <2>3. [i \in 1..m |-> s[i]] = [i \in 1..m |-> longer[i]]
    BY <2>1
  <2> QED BY <2>2, <2>3
<1> QED BY <1>2, <1>6, <1>8

\* Where the characters of two strings are when one follows the other.
LEMMA ConcatIs ==
  ASSUME NEW a \in Seq(Chars), NEW b \in Seq(Chars), NEW n \in Nat, NEW m \in Nat,
         n = Len(a), m = Len(b)
  PROVE  /\ a \o b \in Seq(Chars) /\ Len(a \o b) = n + m
         /\ \A i \in 1..n : (a \o b)[i] = a[i]
         /\ \A i \in 1..m : (a \o b)[n + i] = b[i]
<1>1. a \o b \in Seq(Chars) /\ Len(a \o b) = n + m
  BY ConcatProperties
<1>2. \A i \in 1..n : (a \o b)[i] = a[i]
  OBVIOUS
<1>3. ASSUME NEW i \in 1..m PROVE (a \o b)[n + i] = b[i]
  <2>1. n + i \in 1..n + m /\ ~(n + i <= n) /\ (n + i) - n = i
    OBVIOUS
  <2> QED BY <2>1
<1> QED BY <1>1, <1>2, <1>3

\* A string with a colon behind it.
LEMMA ColonAfter ==
  ASSUME NEW a \in Seq(Chars), NEW n \in Nat, n = Len(a)
  PROVE  /\ a \o <<Colon>> \in Seq(Chars) /\ Len(a \o <<Colon>>) = n + 1
         /\ \A i \in 1..n : (a \o <<Colon>>)[i] = a[i]
         /\ (a \o <<Colon>>)[n + 1] = Colon
<1>1. Colon \in Chars
  BY DEF Chars
<1>2. Append(a, Colon) = a \o <<Colon>>
  BY <1>1, AppendIsConcat
<1>3. /\ Append(a, Colon) \in Seq(Chars) /\ Len(Append(a, Colon)) = n + 1
      /\ \A i \in 1..n : Append(a, Colon)[i] = a[i]
      /\ Append(a, Colon)[n + 1] = Colon
  BY <1>1, AppendProperties
<1> QED BY <1>2, <1>3

\* A message that comes whole, and can be taken apart, names the room the
\* receiver has asked for.
LEMMA FromTheRoom ==
  ASSUME EndsInv, AsksInTurn, GivenFromRoom, program = "receiver", open["client"],
         Short(sent[Up]), NEW k \in 1..Len(given), Clean(given[k])
  PROVE  Parts(given[k].data)[1] = room
<1>0. SessionInv /\ room \in Strings
  BY DEF EndsInv, SessionInv, ArgumentsOK, Strings
<1>1. given # <<>> /\ given[k] \in Messages
  <2>1. given \in Seq(Messages)
    BY <1>0 DEF SessionInv, PeersOK
  <2> QED BY <2>1, ElementOfSeq, EmptySeq
<1>2. rtrim(user_room) = room
  <2>1. handled[Up] >= 2 /\ user_room = Parse(received[Up][2]).data
    BY <1>1 DEF GivenFromRoom
  <2>2. 2 \in 1..Len(received[Up]) /\ Len(sent[Up]) = 2
    <3>1. handled[Up] \in Nat /\ Len(received[Up]) \in Nat /\ handled[Up] <= Len(received[Up])
      BY <1>0, CountsTyped, TwoLinks
    <3>2. Len(received[Up]) <= Len(sent[Up])
      BY <1>0, ReadWhole, TwoLinks
    <3>3. Len(sent[Up]) <= 2 /\ Len(sent[Up]) \in Nat
      BY <1>0, SentTyped, TwoLinks DEF AsksInTurn
    <3>4. PICK h \in Nat, R \in Nat, S \in Nat :
            h = handled[Up] /\ R = Len(received[Up]) /\ S = Len(sent[Up])
      BY <3>1, <3>3
    <3>5. h >= 2 /\ h <= R /\ R <= S /\ S <= 2
      BY <2>1, <3>1, <3>2, <3>3, <3>4
    <3>6. S = 2 /\ R = 2
      BY <3>5
    <3> QED BY <3>4, <3>6
  <2>3. received[Up][2] = Encode(sent[Up][2])
    BY <1>0, <2>2, ReadWhole, TwoLinks
  <2>4. PICK msg \in Messages : msg = sent[Up][2] /\ msg.data = room
    <3>1. 2 \in 1..Len(sent[Up])
      BY <2>2
    <3>2. sent[Up][2].data = room
      BY <2>2 DEF AsksInTurn
    <3> QED BY <1>0, <3>1, <3>2, SentTyped, TwoLinks
  <2>5. Parse(Encode(msg)) = [tag |-> msg.tag, data |-> msg.data \o <<Newline>>]
    BY ParseEncoded
  <2>6. user_room = room \o <<Newline>>
    BY <2>1, <2>3, <2>4, <2>5
  <2>7. rtrim(room \o <<Newline>>) = rtrim(room)
    BY <1>0, TrimNewline
  <2>8. rtrim(user_room) = rtrim(room \o <<Newline>>)
    BY <2>6
  <2>9. rtrim(room) = room
    BY DEF Clean
  <2> QED BY <2>7, <2>8, <2>9
<1>3. PICK u \in Strings, t \in Strings :
        given[k].data = room \o <<Colon>> \o u \o <<Colon>> \o t
  <2>1. \E u, t \in Seq(Chars) :
          given[k].data = rtrim(user_room) \o <<Colon>> \o u \o <<Colon>> \o t
    BY DEF GivenFromRoom
  <2> QED BY <1>2, <2>1 DEF Strings
<1>4. PICK data \in Strings : data = given[k].data /\ Len(Parts(data)) = 3
  <2>1. given[k].data \in Strings
    BY <1>1 DEF Messages, Strings
  <2>2. Len(Parts(given[k].data)) = 3
    BY DEF Clean
  <2> QED BY <2>1, <2>2
<1>5. PICK n \in Nat, m \in Nat : n = Len(room) /\ m = Len(u)
  BY <1>0, LenProperties DEF Strings
<1>6. /\ Len(data) \in Nat /\ n + 1 + m + 1 <= Len(data)
      /\ \A i \in 1..n : data[i] = room[i]
      /\ data[n + 1] = Colon /\ data[n + 1 + m + 1] = Colon
  <2>1. room \in Seq(Chars) /\ u \in Seq(Chars) /\ t \in Seq(Chars)
    BY <1>0 DEF Strings
  <2>3. PICK l \in Nat : l = Len(t)
    BY <2>1, LenProperties
  <2>4. PICK a : a = room \o <<Colon>>
    OBVIOUS
  <2>5. PICK p \in Nat : p = n + 1
    OBVIOUS
  <2>a. a \in Seq(Chars) /\ Len(a) = p /\ (\A i \in 1..n : a[i] = room[i]) /\ a[p] = Colon
    <3>1. /\ room \o <<Colon>> \in Seq(Chars) /\ Len(room \o <<Colon>>) = n + 1
          /\ \A i \in 1..n : (room \o <<Colon>>)[i] = room[i]
          /\ (room \o <<Colon>>)[n + 1] = Colon
      BY <1>5, <2>1, ColonAfter
    <3> QED BY <2>4, <2>5, <3>1
  <2>6. PICK b : b = a \o u
    OBVIOUS
  <2>7. PICK q \in Nat : q = p + m
    BY <1>5
  <2>b. b \in Seq(Chars) /\ Len(b) = q /\ \A i \in 1..p : b[i] = a[i]
    <3>1. a \o u \in Seq(Chars) /\ Len(a \o u) = p + m /\ \A i \in 1..p : (a \o u)[i] = a[i]
      <4>1. /\ a \in Seq(Chars) /\ u \in Seq(Chars)
            /\ p \in Nat /\ m \in Nat /\ p = Len(a) /\ m = Len(u)
        BY <1>5, <2>1, <2>a
      <4> QED BY <4>1, ConcatIs
    <3> QED BY <2>6, <2>7, <3>1
  <2>8. PICK c : c = b \o <<Colon>>
    OBVIOUS
  <2>9. PICK r \in Nat : r = q + 1
    OBVIOUS
  <2>c. c \in Seq(Chars) /\ Len(c) = r /\ (\A i \in 1..q : c[i] = b[i]) /\ c[r] = Colon
    <3>1. /\ b \o <<Colon>> \in Seq(Chars) /\ Len(b \o <<Colon>>) = q + 1
          /\ \A i \in 1..q : (b \o <<Colon>>)[i] = b[i]
          /\ (b \o <<Colon>>)[q + 1] = Colon
      BY <2>b, <2>7, ColonAfter
    <3> QED BY <2>8, <2>9, <3>1
  <2>10. data = c \o t
    <3>1. <<Colon>> \in Seq(Chars)
      BY DEF Chars
    <3>2. data = room \o <<Colon>> \o u \o <<Colon>> \o t
      BY <1>3, <1>4
    <3> QED BY <2>4, <2>6, <2>8, <3>2
  <2>11. Len(data) = r + l /\ \A i \in 1..r : data[i] = c[i]
    <3>1. Len(c \o t) = r + l /\ \A i \in 1..r : (c \o t)[i] = c[i]
      <4>1. c \in Seq(Chars) /\ t \in Seq(Chars) /\ r \in Nat /\ l \in Nat /\ r = Len(c) /\ l = Len(t)
        BY <2>1, <2>3, <2>9, <2>c
      <4> QED BY <4>1, ConcatIs
    <3> QED BY <2>10, <3>1
  <2>12. data[r] = Colon
    <3>1. r \in 1..r
      BY <2>9
    <3> QED BY <2>c, <2>11, <3>1
  <2>13. data[p] = Colon
    <3>1. p \in 1..p /\ p \in 1..q /\ p \in 1..r
      BY <2>5, <2>7, <2>9
    <3> QED BY <2>a, <2>b, <2>c, <2>11, <3>1
  <2>14. \A i \in 1..n : data[i] = room[i]
    <3>1. \A i \in 1..n : i \in 1..p /\ i \in 1..q /\ i \in 1..r
      BY <1>5, <2>5, <2>7, <2>9
    <3> QED BY <2>a, <2>b, <2>c, <2>11, <3>1
  <2>15. r = n + 1 + m + 1 /\ p = n + 1 /\ Len(data) \in Nat /\ r <= Len(data)
    BY <1>5, <2>3, <2>5, <2>7, <2>9, <2>11
  <2> QED BY <2>12, <2>13, <2>14, <2>15
<1>7. n + 1 + m + 1 \in 1..Len(data) /\ n + 1 < n + 1 + m + 1
  BY <1>5, <1>6
<1>8. PICK j \in 1..Len(data) : data[j] = Colon /\ Len(room) + 1 < j
  BY <1>5, <1>6, <1>7
<1>9. Parts(data)[1] = room
  BY <1>0, <1>4, <1>5, <1>6, <1>8, FirstPart
<1> QED BY <1>4, <1>9

\* A receiver does not stop at a message that comes whole and can be taken apart.
LEMMA ChatGoesOn ==
  ASSUME EndsInv, AsksInTurn, ReceiverInv, [Next]_vars, Chat,
         Short(sent[Up]), Short(sent[Down]), open["worker"], Clean(given[handled'[Down] - 2])
  PROVE  client' = "chat"
<1>0. /\ SessionInv /\ program \in {"sender", "receiver"}
      /\ client = "chat" /\ Waiting(Down) /\ open["client"]
  BY DEF EndsInv, SessionInv, ArgumentsOK, Chat, OpenAtWork
<1>1. program = "receiver" /\ AnswersThenDelivers /\ GivenFromRoom /\ ShowsInTurn
  BY <1>0 DEF AsksInTurn, ReceiverInv
<1>2. PICK h \in Nat, k \in Nat :
        /\ h = handled[Down] /\ k = Len(shown) + 1 /\ k + 1 = h
        /\ h + 1 \in 1..Len(received[Down]) /\ k \in 1..Len(given)
        /\ received[Down][h + 1] = Encode(sent[Down][h + 1]) =>
             /\ NextMessage(Down).tag = <<"delivery">>
             /\ NextMessage(Down).data = given[k].data \o <<Newline>>
  <2>1. PICK h, N :
          /\ h = handled[Down] /\ N = Len(shown)
          /\ h \in Nat /\ N \in Nat /\ N + 2 = h
          /\ h + 1 \in 1..Len(received[Down]) /\ N + 1 \in 1..Len(given)
          /\ received[Down][h + 1] = Encode(sent[Down][h + 1]) =>
               /\ NextMessage(Down).tag = <<"delivery">>
               /\ NextMessage(Down).data = given[N + 1].data \o <<Newline>>
    BY <1>0, <1>1, NextShown
  <2>2. PICK k \in Nat : k = N + 1 /\ k + 1 = h
    BY <2>1
  <2> QED BY <2>1, <2>2
<1>3. /\ NextMessage(Down).tag = <<"delivery">>
      /\ NextMessage(Down).data = given[k].data \o <<Newline>>
  BY <1>0, <1>2, ReadWhole, TwoLinks
<1>4. Clean(given[k])
  <2>1. handled'[Down] = h + 1
    BY <1>0, <1>2, TwoLinks DEF Chat, Take, SessionInv, CountsOK
  <2>2. handled'[Down] - 2 = k
    BY <1>2, <2>1
  <2> QED BY <2>2
<1>5. Parts(given[k].data)[1] = room
  BY <1>0, <1>1, <1>2, <1>4, FromTheRoom
<1>6. PICK data \in Strings : data = given[k].data /\ Len(Parts(data)) = 3
  <2>1. given[k] \in Messages
    BY <1>0, <1>2, ElementOfSeq DEF SessionInv, PeersOK
  <2>2. given[k].data \in Strings
    BY <2>1 DEF Messages, Strings
  <2>3. Len(Parts(given[k].data)) = 3
    BY <1>4 DEF Clean
  <2> QED BY <2>2, <2>3
<1>7. PICK whole, read : whole = Parts(data) /\ read = Parts(data \o <<Newline>>)
  OBVIOUS
<1>8. Len(read) = 3 /\ read[1] = room
  <2>1. PICK n : n = Len(whole)
    OBVIOUS
  <2>2. n = 3
    BY <1>6, <1>7, <2>1, Zenon
  <2>3. /\ Len(read) = n
        /\ \A j \in 1..n : read[j] = IF j = n THEN Append(whole[j], Newline) ELSE whole[j]
    BY <1>7, <2>1, NewlineInLastPart
  <2>4. Len(read) = 3 /\ \A j \in 1..3 : read[j] = IF j = 3 THEN Append(whole[j], Newline) ELSE whole[j]
    BY <2>2, <2>3, Zenon
  <2>5. read[1] = whole[1]
    BY <2>4
  <2>6. whole[1] = room
    BY <1>5, <1>6, <1>7
  <2> QED BY <2>4, <2>5, <2>6
<1>9. read = Parts(NextMessage(Down).data)
  BY <1>3, <1>6, <1>7
<1> QED BY <1>0, <1>3, <1>8, <1>9 DEF Chat

\* Every step that stops a receiver, or a worker that delivers, has its cause.
LEMMA StepsHaveCause ==
  ASSUME EndsInv, AsksInTurn, ReceiverInv, [Next]_vars
  PROVE  HasCauseToStop
<1>0. SessionInv /\ BrokenByTheOther
  BY DEF EndsInv
<1>1. ASSUME client = "chat", client' = "close", \A d \in Links : LinesOfAtMost(d, MAX_LEN - 1),
             open["worker"]
      PROVE  ~Clean(given[handled'[Down] - 2])
  <2>1. Chat
    <3>1. ~(\/ Start \/ UNCHANGED vars \/ WorkerSteps \/ WorkerEnds
            \/ (\E u \in Names, t \in Texts : Broadcast(u, t)) \/ \E d \in Links : Progress(d))
      BY <1>0, <1>1, ElsewhereLeaves
    <3>2. ~(Connected \/ NotConnected \/ Login \/ Join \/ Sent \/ Reply \/ ClientEnds
            \/ \E input \in Inputs : Type(input))
      BY <1>1 DEF Connected, NotConnected, Login, Join, Sent, Reply, ClientEnds, Type
    <3>3. ~NothingReceived
      BY <1>1, TwoLinks DEF NothingReceived, ReceiveFails
    <3> QED BY <3>1, <3>2, <3>3 DEF Next, ClientSteps
  <2>2. Short(sent[Up]) /\ Short(sent[Down])
    <3>1. DOMAIN sent[Up] = 1..Len(sent[Up]) /\ DOMAIN sent[Down] = 1..Len(sent[Down])
      BY <1>0, SentTyped, TwoLinks
    <3> QED BY <1>1, <3>1, TwoLinks DEF LinesOfAtMost, Short
  <2> QED BY <1>1, <2>1, <2>2, ChatGoesOn
<1>2. ASSUME worker = "deliver", worker' = "delete" PROVE ~open["client"] \/ ~Valid(Head(mqueue))
  <2>1. Deliver \/ DeliverFailed
    <3>1. ~(\/ Start \/ UNCHANGED vars \/ (ClientSteps /\ ~Connected) \/ ClientEnds
            \/ (\E input \in Inputs : Type(input)) \/ \E d \in Links : Progress(d))
      BY <1>0, <1>2, WorkerElsewhere
    <3>2. ~(Connected \/ WorkerEnds \/ \E u \in Names, t \in Texts : Broadcast(u, t))
      BY <1>2 DEF Connected, WorkerEnds, Broadcast
    <3>3. ~(Accept \/ LoginRead \/ LoginFailed \/ Greeted \/ JoinRead \/ Welcomed \/ GiveUp)
      BY <1>2 DEF Accept, LoginRead, LoginFailed, Greeted, JoinRead, Welcomed, GiveUp, Idle
    <3>4. ~(Serve \/ NothingRead)
      BY <1>2 DEF Serve, ServeJoin, ServeSendall, ServeLeave, ServeQuit, ServeOther, Serving, Idle,
                  NothingRead
    <3> QED BY <3>1, <3>2, <3>3, <3>4 DEF Next, WorkerSteps
  <2>2. CASE Deliver
    BY <1>2, <2>2 DEF Deliver, SendRefused
  <2>3. CASE DeliverFailed
    BY <1>0, <2>3, TwoLinks DEF DeliverFailed, BrokenByTheOther
  <2> QED BY <2>1, <2>2, <2>3
<1> QED BY <1>1, <1>2 DEF HasCauseToStop

\* A receiver stops only because the server has gone or at a message that it
\* cannot take apart, as long as the lines fit the buffer of receive, and its
\* worker stops delivering only because the client has gone or at a message that
\* send refuses (receiver.cpp:52-71, server.cpp:94-108).
THEOREM StopsForCauseAlways ==
  Spec => StopsForCause
<1>1. EndsInv /\ AsksInTurn /\ ReceiverInv /\ [Next]_vars => [HasCauseToStop]_vars
  BY StepsHaveCause
<1> QED BY <1>1, EndsAlways, AsksAlways, ReceiverAlways, PTL DEF Spec, StopsForCause

=============================================================================
