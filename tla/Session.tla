------------------------------ MODULE Session ------------------------------
(***************************************************************************)
(* One client program (src/05ass/sender.cpp or receiver.cpp) and the       *)
(* worker thread the server gives it (src/05ass/server.cpp): how they find *)
(* each other, and the requests, replies and deliveries that travel over   *)
(* the two directions of module Connection.  What other workers do is one  *)
(* action here, Broadcast; module ChatServer has the threads of the server *)
(* and what they share.                                                    *)
(***************************************************************************)
EXTENDS Connection, Sockets

CONSTANTS Names, RoomNames, \* users and rooms of the command line
          Inputs,           \* lines typed into a sender
          Texts,            \* what other senders say
          MaxDeliveries     \* bound: messages broadcast in the room of a receiver

Up == <<"client", "worker">>
Down == <<"worker", "client">>
WHITESPACE == {" ", Newline}

\* What requests and replies are made of.
Words == {"slogin", "rlogin", "join", "leave", "quit", "sendall",
          "ok", "err", "delivery", "ignored", "NULL"}

ASSUME SessionAssumption ==
  /\ Links = {Up, Down}
  /\ Words \subseteq Letters
  /\ MAX_LEN > 3                                  \* a reply fits a line
  /\ MaxDeliveries \in Nat
  /\ Names \cup RoomNames \cup Inputs \cup Texts \subseteq Seq(Chars)

Message(tag, data) == [tag |-> <<tag>>, data |-> data]
OK == Message("ok", <<>>)
ERR == Message("err", <<>>)
NoRoom == <<"NULL">>

VARIABLES program,     \* "sender" or "receiver"
          name, room,  \* the arguments of the program
          client,      \* where the client is
          worker,      \* where the worker is
          user_room,   \* sender_room of the worker, or the room of its User
          mqueue,      \* the messages of the worker's User
          handled,     \* how many of the lines received were handled
          acked,       \* history: the room the client has been told it is in, if any
          shown,       \* history: what the receiver has printed
          given        \* history: the messages put into mqueue

arguments == <<program, name, room>>
peers == <<client, worker, user_room, mqueue, handled>>
histories == <<acked, shown, given>>
vars == <<connections, sockets, arguments, peers, histories>>

SessionInit ==
  /\ InitStreams /\ InitSockets
  /\ open = [e \in Ends |-> FALSE]
  /\ program \in {"sender", "receiver"}
  /\ name \in Names
  /\ room \in IF program = "receiver" THEN RoomNames ELSE {NoRoom}
  /\ client = "connect" /\ worker = "none"
  /\ user_room = NoRoom /\ mqueue = <<>>
  /\ handled = [d \in Links |-> 0]
  /\ acked = {} /\ shown = <<>> /\ given = <<>>

-----------------------------------------------------------------------------
(* Start-up.  at["server"] = "open": the server has come to its loop of      *)
(* accept, and the kernel completes connections and keeps their bytes.       *)

\* Server::listen in the server, Connection::connect in the client
ListenStep == OpenStep("server")
ConnectStep == OpenStep("client")

Start ==
  /\ ListenStep \/ ConnectStep
  /\ UNCHANGED <<connections, arguments, peers, histories>>

Connected ==
  /\ client = "connect" /\ at["client"] = "open"
  /\ client' = "login" /\ worker' = "backlog"
  /\ open' = [e \in Ends |-> TRUE]
  /\ UNCHANGED <<m_last_result, writing, wire, reading, sockets, arguments,
                 user_room, mqueue, handled, histories>>

\* Connection::connect ends the program.
NotConnected ==
  /\ client = "connect" /\ at["client"] \in {"failed", "close failed"}
  /\ client' = "ended"
  /\ UNCHANGED <<connections, sockets, arguments, worker, user_room, mqueue, handled, histories>>

\* accept; without a thread nobody will ever read from the connection.  When
\* accept itself fails it is called again.
Accept ==
  /\ worker = "backlog"
  /\ worker' \in {"login", "unserved"}
  /\ UNCHANGED <<connections, sockets, arguments, client, user_room, mqueue, handled, histories>>

-----------------------------------------------------------------------------
(* Taking what has been received *)

Waiting(d) == handled[d] < Len(received[d])
NextMessage(d) == Parse(received[d][handled[d] + 1])
Take(d) == handled' = [handled EXCEPT ![d] = @ + 1]

\* receive is being called: by the client, by the worker.
Receiving(d) ==
  /\ ~Waiting(d)
  /\ IF d = Down
     THEN client \in {"await", "chat"}
     ELSE left[Down] = <<>> /\ worker \in {"login", "join", "serve"}

-----------------------------------------------------------------------------
(* The client *)

\* What checkResponse returns decides how the program goes on.  /quit sets
\* quitted before it is called.
Proceed(tag, ok) ==
  CASE tag = <<"slogin">> -> IF ok THEN "prompt" ELSE "close"
    [] tag = <<"rlogin">> -> IF ok THEN "join" ELSE "close"
    [] tag = <<"join">> /\ program = "receiver" -> IF ok THEN "chat" ELSE "close"
    [] tag = <<"quit">> -> "close"
    [] OTHER -> "prompt"

Request(msg) ==
  /\ Len(sent[Up]) < MaxMessages
  /\ \/ Send(Up, msg) /\ client' = "send"
     \/ SendRefused(Up, msg) /\ client' = Proceed(msg.tag, FALSE)
  /\ UNCHANGED <<sockets, arguments, worker, user_room, mqueue, handled, histories>>

Login ==
  /\ client = "login"
  /\ Request(Message(IF program = "sender" THEN "slogin" ELSE "rlogin", name))

Join == client = "join" /\ Request(Message("join", room))

\* The command words are one letter; what follows /join is cut off after the
\* character behind it.
Starts(command, input) == IsPrefix(<<"/", command>>, input)

Command(input) ==
  CASE Starts("join", input) -> Message("join", SubSeq(input, 4, Len(input)))
    [] Starts("leave", input) -> Message("leave", <<"ignored">>)
    [] input = <<"/", "quit">> -> Message("quit", <<>>)
    [] OTHER -> Message("sendall", input)

\* An empty line, or the end of the input, makes `at' throw, /join alone makes
\* `substr' throw, and nobody catches it.
Throws(input) == input \in {<<>>, <<"/", "join">>}

\* Another command is reported, and the next line is read.
IsValid(input) ==
  \/ input[1] # "/"
  \/ Starts("join", input) \/ Starts("leave", input) \/ input = <<"/", "quit">>

Type(input) ==
  /\ client = "prompt"
  /\ \/ /\ Throws(input)
        /\ client' = "close"
        /\ UNCHANGED <<connections, sockets, arguments, worker, user_room, mqueue, handled, histories>>
     \/ ~Throws(input) /\ IsValid(input) /\ Request(Command(input))

\* Fault: the reply to a message for the room is not waited for.
SentAndForgotten ==
  /\ client = "send" /\ left[Up] = <<>>
  /\ client' = IF m_last_result["client"] = "SUCCESS" /\ Last(sent[Up]).tag # <<"sendall">>
               THEN "await" ELSE Proceed(Last(sent[Up]).tag, FALSE)
  /\ UNCHANGED <<connections, sockets, arguments, worker, user_room, mqueue, handled, histories>>

\* send has returned.
Sent ==
  /\ client = "send" /\ left[Up] = <<>>
  /\ client' = IF m_last_result["client"] = "SUCCESS"
               THEN "await" ELSE Proceed(Last(sent[Up]).tag, FALSE)
  /\ UNCHANGED <<connections, sockets, arguments, worker, user_room, mqueue, handled, histories>>

\* The room the client is in by what it asked for and was told.
Acknowledged(msg) ==
  CASE msg.tag = <<"join">> -> {msg.data}
    [] msg.tag = <<"leave">> -> {}
    [] OTHER -> acked

Reply ==
  /\ client = "await" /\ Waiting(Down)
  /\ Take(Down)
  /\ LET ok == NextMessage(Down).tag = <<"ok">>
         msg == Last(sent[Up])
     IN /\ client' = Proceed(msg.tag, ok)
        /\ acked' = IF ok THEN Acknowledged(msg) ELSE acked
  /\ UNCHANGED <<connections, sockets, arguments, worker, user_room, mqueue, shown, given>>

\* format_data: the parts of the data between the colons.
Parts(data) ==
  LET upTo[n \in 0..Len(data)] ==
        IF n = 0 THEN <<<<>>>>
        ELSE IF data[n] = Colon THEN Append(upTo[n - 1], <<>>)
        ELSE [upTo[n - 1] EXCEPT ![Len(upTo[n - 1])] = Append(@, data[n])]
  IN upTo[Len(data)]

\* chatloop: what is no delivery is passed over, the room is looked at last.
Chat ==
  /\ client = "chat" /\ Waiting(Down)
  /\ Take(Down)
  /\ LET msg == NextMessage(Down)
         parts == Parts(msg.data)
     IN IF msg.tag # <<"delivery">> THEN UNCHANGED <<client, shown>>
        ELSE IF Len(parts) # 3 THEN client' = "close" /\ UNCHANGED shown
        ELSE /\ shown' = Append(shown, <<parts[2], parts[3]>>)
             /\ client' = IF parts[1] # room THEN "close" ELSE client
  /\ UNCHANGED <<connections, sockets, arguments, worker, user_room, mqueue, acked, given>>

NothingReceived ==
  /\ Receiving(Down) /\ ReceiveFails(Down)
  /\ client' = IF client = "chat" THEN "close" ELSE Proceed(Last(sent[Up]).tag, FALSE)
  /\ UNCHANGED <<sockets, arguments, worker, user_room, mqueue, handled, histories>>

\* conn.close() and the end of main, an exception, or a signal at any time;
\* SIGPIPE is one that comes when it writes to a server that has gone.
ClientEnds ==
  /\ client # "connect" /\ Close("client")
  /\ client' = "ended"
  /\ UNCHANGED <<sockets, arguments, worker, user_room, mqueue, handled, histories>>

-----------------------------------------------------------------------------
(* The worker *)

Answer(msg) == Send(Down, msg)

\* The worker does nothing before send has returned.
Idle(label) == worker = label /\ left[Down] = <<>>

\* A login with another tag: the thread ends, the Connection stays.
LoginRead ==
  /\ Idle("login") /\ Waiting(Up)
  /\ Take(Up)
  /\ IF NextMessage(Up).tag \in {<<"slogin">>, <<"rlogin">>}
     THEN Answer(OK) /\ worker' = "greet"
     ELSE Answer(ERR) /\ worker' = "leaked"
  /\ UNCHANGED <<sockets, arguments, client, user_room, mqueue, histories>>

LoginFailed ==
  /\ Idle("greet") /\ m_last_result["worker"] = "EOF_OR_ERROR"
  /\ Answer(ERR) /\ worker' = "leaked"
  /\ UNCHANGED <<sockets, arguments, client, user_room, mqueue, handled, histories>>

Greeted ==
  /\ Idle("greet") /\ m_last_result["worker"] = "SUCCESS"
  /\ worker' = IF Parse(received[Up][1]).tag = <<"rlogin">> THEN "join" ELSE "serve"
  /\ UNCHANGED <<connections, sockets, arguments, client, user_room, mqueue, handled, histories>>

\* chat_with_receiver: find_or_create_room, add_member, and the reply
JoinRead ==
  /\ Idle("join") /\ Waiting(Up)
  /\ Take(Up)
  /\ IF NextMessage(Up).tag = <<"join">>
     THEN Answer(OK) /\ worker' = "welcome" /\ user_room' = NextMessage(Up).data
     ELSE Answer(ERR) /\ worker' = "delete" /\ UNCHANGED user_room
  /\ UNCHANGED <<sockets, arguments, client, mqueue, histories>>

Welcomed ==
  /\ Idle("welcome")
  /\ worker' = IF m_last_result["worker"] = "SUCCESS" THEN "deliver" ELSE "delete"
  /\ UNCHANGED <<connections, sockets, arguments, client, user_room, mqueue, handled, histories>>

\* rtrim of room.cpp
rtrim(s) == SubSeq(s, 1, SelectLastInSeq(s, LAMBDA c : c \notin WHITESPACE))

\* Another worker broadcasts in the room of this one's User.
Broadcast(sender_username, message_text) ==
  /\ worker \in {"welcome", "deliver"} /\ program = "receiver"
  /\ Len(given) < MaxDeliveries
  /\ LET msg == Message("delivery", rtrim(user_room) \o <<Colon>> \o rtrim(sender_username)
                                      \o <<Colon>> \o rtrim(message_text))
     IN mqueue' = Append(mqueue, msg) /\ given' = Append(given, msg)
  /\ UNCHANGED <<connections, sockets, arguments, client, worker, user_room, handled, acked, shown>>

\* Fault: the message that came last is sent first.
DeliverLatest ==
  /\ Idle("deliver") /\ m_last_result["worker"] # "EOF_OR_ERROR" /\ mqueue # <<>>
  /\ \/ Send(Down, Last(mqueue)) /\ UNCHANGED worker
     \/ SendRefused(Down, Last(mqueue)) /\ worker' = "delete"
  /\ mqueue' = Front(mqueue)
  /\ UNCHANGED <<sockets, arguments, client, user_room, handled, histories>>

\* Fault: the loop is left when send has succeeded.
DeliverInverted ==
  /\ Idle("deliver") /\ m_last_result["worker"] # "EOF_OR_ERROR" /\ mqueue # <<>>
  /\ \/ Send(Down, Head(mqueue)) /\ worker' = "delete"
     \/ SendRefused(Down, Head(mqueue)) /\ UNCHANGED worker
  /\ mqueue' = Tail(mqueue)
  /\ UNCHANGED <<sockets, arguments, client, user_room, handled, histories>>

\* dequeue and send.  A message that send refuses, or cannot write, is the last.
Deliver ==
  /\ Idle("deliver") /\ m_last_result["worker"] # "EOF_OR_ERROR" /\ mqueue # <<>>
  /\ \/ Send(Down, Head(mqueue)) /\ UNCHANGED worker
     \/ SendRefused(Down, Head(mqueue)) /\ worker' = "delete"
  /\ mqueue' = Tail(mqueue)
  /\ UNCHANGED <<sockets, arguments, client, user_room, handled, histories>>

DeliverFailed ==
  /\ Idle("deliver") /\ m_last_result["worker"] = "EOF_OR_ERROR"
  /\ worker' = "delete"
  /\ UNCHANGED <<connections, sockets, arguments, client, user_room, mqueue, handled, histories>>

(* chat_with_sender: one request at a time *)

Serving(tag) == Idle("serve") /\ Waiting(Up) /\ Take(Up) /\ NextMessage(Up).tag = <<tag>>

ServeJoin ==
  /\ Serving("join")
  /\ Answer(OK) /\ user_room' = NextMessage(Up).data
  /\ UNCHANGED <<sockets, arguments, client, worker, mqueue, histories>>

\* Fault: outside a room there is nothing to do, and nothing is said.
ServeSendallInRoom ==
  /\ Serving("sendall")
  /\ IF user_room # NoRoom THEN Answer(OK) ELSE UNCHANGED connections
  /\ UNCHANGED <<sockets, arguments, client, worker, user_room, mqueue, histories>>

\* broadcast_message is the subject of ChatServer.
ServeSendall ==
  /\ Serving("sendall")
  /\ Answer(IF user_room # NoRoom THEN OK ELSE ERR)
  /\ UNCHANGED <<sockets, arguments, client, worker, user_room, mqueue, histories>>

\* The room of the request has to be the room the sender is in.
ServeLeave ==
  /\ Serving("leave")
  /\ IF user_room = NextMessage(Up).data
     THEN Answer(OK) /\ user_room' = NoRoom
     ELSE Answer(ERR) /\ UNCHANGED user_room
  /\ UNCHANGED <<sockets, arguments, client, worker, mqueue, histories>>

ServeQuit ==
  /\ Serving("quit")
  /\ Answer(OK) /\ worker' = "delete"
  /\ UNCHANGED <<sockets, arguments, client, user_room, mqueue, histories>>

\* get_last_result is that of receive, never INVALID_MSG: nothing is answered.
ServeOther ==
  /\ Idle("serve") /\ Waiting(Up) /\ Take(Up)
  /\ NextMessage(Up).tag \notin {<<"join">>, <<"sendall">>, <<"leave">>, <<"quit">>}
  /\ IF m_last_result["worker"] = "INVALID_MSG" THEN Answer(ERR) ELSE UNCHANGED connections
  /\ UNCHANGED <<sockets, arguments, client, worker, user_room, mqueue, histories>>

Serve == ServeJoin \/ ServeSendall \/ ServeLeave \/ ServeQuit \/ ServeOther

\* receive fails: at login and at join that is the end, in the loop of a sender
\* it is called again.
NothingRead ==
  /\ Receiving(Up) /\ ReceiveFails(Up)
  /\ worker' = CASE worker = "login" -> "login failed"
                 [] worker = "join" -> "join failed"
                 [] OTHER -> worker
  /\ UNCHANGED <<sockets, arguments, client, user_room, mqueue, handled, histories>>

GiveUp ==
  /\ worker \in {"login failed", "join failed"}
  /\ Answer(ERR)
  /\ worker' = IF worker = "login failed" THEN "leaked" ELSE "delete"
  /\ UNCHANGED <<sockets, arguments, client, user_room, mqueue, handled, histories>>

\* The worker frees its Connection; or the whole server ends, at any time.
WorkerEnds ==
  /\ Close("worker")
  /\ worker' = "ended" /\ mqueue' = <<>>
  /\ UNCHANGED <<sockets, arguments, client, user_room, handled, histories>>

-----------------------------------------------------------------------------
Progress(d) ==
  /\ \/ Write(d) \/ WriteLost(d)
     \/ Receiving(d) /\ (Refill(d) \/ NextChar(d) \/ LastLine(d))
  /\ UNCHANGED <<sockets, arguments, peers, histories>>

ClientSteps == Connected \/ NotConnected \/ Login \/ Join \/ Sent \/ Reply \/ Chat \/ NothingReceived

WorkerSteps ==
  \/ Accept \/ LoginRead \/ LoginFailed \/ Greeted \/ JoinRead \/ Welcomed
  \/ Deliver \/ DeliverFailed \/ Serve \/ NothingRead \/ GiveUp

Next ==
  \/ Start \/ ClientSteps \/ WorkerSteps
  \/ \E input \in Inputs : Type(input)
  \/ \E u \in Names, t \in Texts : Broadcast(u, t)
  \/ \E d \in Links : Progress(d)
  \/ ClientEnds \/ WorkerEnds

\* Threads and the kernel go on; nobody has to type, to send or to end.
Fairness ==
  /\ \A d \in Links : WF_vars(Progress(d))
  /\ WF_vars(ClientSteps)
  /\ WF_vars(WorkerSteps)
  /\ WF_vars(client = "close" /\ ClientEnds)
  /\ WF_vars(worker = "delete" /\ left[Down] = <<>> /\ WorkerEnds)

Spec == SessionInit /\ [][Next]_vars /\ Fairness

-----------------------------------------------------------------------------
ClientStates ==
  {"connect", "login", "join", "prompt", "send", "await", "chat", "close", "ended"}
WorkerStates ==
  {"none", "backlog", "unserved", "login", "greet", "join", "welcome", "serve", "deliver",
   "login failed", "join failed", "delete", "leaked", "ended"}

TypeOK ==
  /\ StreamsOK /\ SocketsOK
  /\ program \in {"sender", "receiver"}
  /\ client \in ClientStates /\ worker \in WorkerStates
  /\ \A d \in Links : handled[d] \in 0..Len(received[d]) /\ Len(received[d]) <= handled[d] + 1
  /\ mqueue \in Seq(Messages) /\ Len(mqueue) <= Len(given)

\* While every request fits the buffer of receive, the sender that asks for the
\* next command has had one reply to each request it made, the worker waits for
\* the next one, and nothing is on its way in either direction.
RepliesInStep ==
  /\ Len(received[Up]) = Len(sent[Up])
  /\ Len(received[Down]) = Len(sent[Up])
  /\ \A d \in Links : left[d] = <<>> /\ wire[d] = <<>> /\ rio_buf[d] = <<>> /\ usrbuf[d] = <<>>

\* The room the worker sends into is the one the last join that was answered
\* with ok has named, with the newline of its line, and none after a leave that
\* was.
RoomIs(rooms) ==
  IF rooms = {} THEN user_room = NoRoom ELSE \E r \in rooms : user_room = Append(r, Newline)

\* No reply is ever taken for that of another request, and what the user is
\* told of the room is so.
AgreeAtPrompt ==
  client = "prompt" /\ open["worker"] /\ LinesOfAtMost(Up, MAX_LEN - 1) =>
    RepliesInStep /\ RoomIs(acked)

\* A receiver shows the messages of its room in their order, each with its
\* sender, whole and once, as long as each of them fits a line; only the line
\* that the end of the server cuts off may be shown as it came.
ShownInOrder ==
  LinesOfAtMost(Down, MAX_LEN - 1) =>
    \A k \in DOMAIN shown :
      LET parts == Parts(given[k].data)
      IN \/ shown[k] = <<parts[2], Append(parts[3], Newline)>>
         \/ k = Len(shown) /\ ~open["worker"]

\* Names and texts without a colon, and a room whose name does not end with a blank.
Clean(msg) == Len(Parts(msg.data)) = 3 /\ rtrim(room) = room

\* A step that stops the receiver, or the worker that delivers to it.
HasCauseToStop ==
  LET msg == given[handled'[Down] - 2]
  IN /\ client = "chat" /\ client' = "close" /\ (\A d \in Links : LinesOfAtMost(d, MAX_LEN - 1)) =>
          ~open["worker"] \/ ~Clean(msg)
     /\ worker = "deliver" /\ worker' = "delete" =>
          ~open["client"] \/ ~Valid(Head(mqueue))

\* The receiver stops because the server has gone, or at a message that it
\* cannot take apart, as long as its own requests and the messages fit a line;
\* the worker stops delivering because the client has gone,
\* or at a message that is too long with the names before it.
StopsForCause == [][HasCauseToStop]_vars

\* A request that has been sent is answered, or the server has no thread for
\* the client, or one of the programs ends.
RequestAnswered ==
  client = "await" ~> client # "await" \/ worker = "unserved"
=============================================================================
