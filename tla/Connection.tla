----------------------------- MODULE Connection -----------------------------
(***************************************************************************)
(* Connections (src/05ass/connection.cpp) over the robust I/O of           *)
(* src/05ass/csapp.c: messages become lines of bytes, the kernel takes and *)
(* gives them in pieces of any size, and the other end makes lines, and of *)
(* the lines messages, out of them again.                                  *)
(*                                                                         *)
(* An end is a Connection object; a link is one direction between two of   *)
(* them.  A step is one system call, or one character handled by           *)
(* rio_readlineb.  A system call that a signal interrupts is called again  *)
(* and changes nothing; it has no action of its own.                       *)
(***************************************************************************)
EXTENDS Integers, SequencesExt

CONSTANTS Links,        \* the directions, as pairs <<sending end, receiving end>>
          MAX_LEN,      \* Message::MAX_LEN, the size of the buffer of receive
          RioSize,      \* the size of rio_buf
          Capacity,     \* bytes the kernel holds in one direction
          Letters,      \* what lines are made of; the words of the protocol are one letter
          MaxMessages   \* bound: messages sent over a link

Colon == ":"
Newline == "newline"
Chars == Letters \cup {Colon, Newline}

Ends == UNION {{d[1], d[2]} : d \in Links}

\* A descriptor has one reader and one writer.
ASSUME ConnectionAssumption ==
  /\ \A d, e \in Links : d # e => d[1] # e[1] /\ d[2] # e[2]
  /\ MAX_LEN \in Nat /\ MAX_LEN > 1
  /\ RioSize \in Nat \ {0}
  /\ Capacity \in Nat \ {0}
  /\ Letters \cap {Colon, Newline} = {}
  /\ MaxMessages \in Nat

\* No caller passes a tag with a colon in it.
Messages == [tag : Seq(Letters), data : Seq(Chars)]

VARIABLES open,         \* is_open of the end, and its descriptor
          m_last_result,\* of the end
          sent,         \* history: the messages that send has begun to write
          left,         \* what rio_writen has still to write
          wire,         \* the bytes the kernel holds
          rio_buf,      \* bytes read and not yet handed on
          usrbuf,       \* the line receive is collecting
          received      \* history: the lines it has made messages of

writing == <<sent, left>>
reading == <<rio_buf, usrbuf, received>>
connections == <<open, m_last_result, writing, wire, reading>>

\* What `open' is before a connection is made is up to the module that makes it.
InitStreams ==
  /\ m_last_result = [e \in Ends |-> "SUCCESS"]
  /\ sent = [d \in Links |-> <<>>]
  /\ left = [d \in Links |-> <<>>]
  /\ wire = [d \in Links |-> <<>>]
  /\ rio_buf = [d \in Links |-> <<>>]
  /\ usrbuf = [d \in Links |-> <<>>]
  /\ received = [d \in Links |-> <<>>]

Init == InitStreams /\ open = [e \in Ends |-> TRUE]

Result(e, r) == m_last_result' = [m_last_result EXCEPT ![e] = r]

-----------------------------------------------------------------------------
(* The end that sends *)

Encode(msg) == msg.tag \o <<Colon>> \o msg.data \o <<Newline>>

\* Fault: the length is not looked at.
ValidTagOnly(msg) == msg.tag # <<>>

\* The length of the data alone is compared.
Valid(msg) == Len(msg.data) <= MAX_LEN /\ msg.tag # <<>>

Send(d, msg) ==
  /\ open[d[1]] /\ left[d] = <<>>
  /\ Valid(msg)
  /\ sent' = [sent EXCEPT ![d] = Append(@, msg)]
  /\ left' = [left EXCEPT ![d] = Encode(msg)]
  /\ UNCHANGED <<open, m_last_result, reading, wire>>

SendRefused(d, msg) ==
  /\ open[d[1]] /\ left[d] = <<>>
  /\ ~Valid(msg)
  /\ Result(d[1], "INVALID_MSG")
  /\ UNCHANGED <<open, writing, reading, wire>>

\* Fault: a short write is taken for a complete one.
WriteOnce(d) ==
  /\ open[d[1]] /\ open[d[2]] /\ left[d] # <<>>
  /\ \E n \in 1..Len(left[d]) :
       /\ Len(wire[d]) + n <= Capacity
       /\ wire' = [wire EXCEPT ![d] = @ \o SubSeq(left[d], 1, n)]
  /\ left' = [left EXCEPT ![d] = <<>>]
  /\ Result(d[1], "SUCCESS")
  /\ UNCHANGED <<open, sent, reading>>

\* write takes as much as there is room for, or less; without room it waits.
Write(d) ==
  /\ open[d[1]] /\ open[d[2]] /\ left[d] # <<>>
  /\ \E n \in 1..Len(left[d]) :
       /\ Len(wire[d]) + n <= Capacity
       /\ wire' = [wire EXCEPT ![d] = @ \o SubSeq(left[d], 1, n)]
       /\ left' = [left EXCEPT ![d] = SubSeq(@, n + 1, Len(@))]
  /\ IF left'[d] = <<>> THEN Result(d[1], "SUCCESS") ELSE UNCHANGED m_last_result
  /\ UNCHANGED <<open, sent, reading>>

\* The other end is gone: write fails, or what it takes goes nowhere.
WriteLost(d) ==
  /\ open[d[1]] /\ ~open[d[2]] /\ left[d] # <<>>
  /\ left' = [left EXCEPT ![d] = <<>>]
  /\ \E r \in {"SUCCESS", "EOF_OR_ERROR"} : Result(d[1], r)
  /\ UNCHANGED <<open, sent, reading, wire>>

-----------------------------------------------------------------------------
(* The end that receives *)

\* The position of the first colon, 0 if there is none.
FirstColon(line) == SelectInSeq(line, LAMBDA c : c = Colon)

\* Without a colon npos becomes -1, and tag and data are both the whole line.
Parse(line) ==
  LET colon == FirstColon(line)
  IN [tag |-> IF colon = 0 THEN line ELSE SubSeq(line, 1, colon - 1),
      data |-> SubSeq(line, colon + 1, Len(line))]

\* read gives some of the bytes there are.
Refill(d) ==
  /\ open[d[2]] /\ rio_buf[d] = <<>> /\ wire[d] # <<>>
  /\ \E n \in 1..Len(wire[d]) :
       /\ n <= RioSize
       /\ rio_buf' = [rio_buf EXCEPT ![d] = SubSeq(wire[d], 1, n)]
       /\ wire' = [wire EXCEPT ![d] = SubSeq(@, n + 1, Len(@))]
  /\ UNCHANGED <<open, m_last_result, writing, usrbuf, received>>

\* Fault: the room for the end of the string is counted twice.
LineEndsEarly(line) == Last(line) = Newline \/ Len(line) = MAX_LEN - 2

\* A line ends with a newline, or when the buffer has room for nothing but the
\* end of the string.
LineEnds(line) == Last(line) = Newline \/ Len(line) = MAX_LEN - 1

\* receive returns a message.
Received(d, line) ==
  /\ received' = [received EXCEPT ![d] = Append(@, line)]
  /\ usrbuf' = [usrbuf EXCEPT ![d] = <<>>]
  /\ Result(d[2], "SUCCESS")

NextChar(d) ==
  /\ open[d[2]] /\ rio_buf[d] # <<>>
  /\ rio_buf' = [rio_buf EXCEPT ![d] = Tail(@)]
  /\ LET line == Append(usrbuf[d], Head(rio_buf[d]))
     IN IF LineEnds(line)
        THEN Received(d, line)
        ELSE usrbuf' = [usrbuf EXCEPT ![d] = line] /\ UNCHANGED <<m_last_result, received>>
  /\ UNCHANGED <<open, writing, wire>>

AtEndOfFile(d) ==
  open[d[2]] /\ ~open[d[1]] /\ rio_buf[d] = <<>> /\ wire[d] = <<>>

\* At the end of the file what has been collected is a line too, whole or not.
LastLine(d) ==
  /\ AtEndOfFile(d) /\ usrbuf[d] # <<>>
  /\ Received(d, usrbuf[d])
  /\ UNCHANGED <<open, writing, wire, rio_buf>>

\* receive returns false: the end of the file, or a connection that was reset
\* with bytes still on their way.
ReceiveFails(d) ==
  /\ open[d[2]] /\ ~open[d[1]] /\ rio_buf[d] = <<>>
  /\ \/ AtEndOfFile(d) /\ usrbuf[d] = <<>> /\ UNCHANGED <<wire, usrbuf>>
     \/ wire' = [wire EXCEPT ![d] = <<>>] /\ usrbuf' = [usrbuf EXCEPT ![d] = <<>>]
  /\ Result(d[2], "EOF_OR_ERROR")
  /\ UNCHANGED <<open, writing, rio_buf, received>>

-----------------------------------------------------------------------------
\* close, the destructor, or the end of the process, which may come in the
\* middle of a message
Close(e) ==
  /\ open[e]
  /\ open' = [open EXCEPT ![e] = FALSE]
  /\ UNCHANGED <<m_last_result, writing, wire, reading>>

CallSend(d, msg) ==
  /\ Len(sent[d]) < MaxMessages
  /\ Send(d, msg) \/ SendRefused(d, msg)

\* What goes on inside the calls.
Transfer(d) ==
  \/ Write(d) \/ WriteLost(d)
  \/ Refill(d) \/ NextChar(d) \/ LastLine(d) \/ ReceiveFails(d)

-----------------------------------------------------------------------------
Results == {"SUCCESS", "EOF_OR_ERROR", "INVALID_MSG"}

\* The buffers stay within their sizes, and no message longer than MAX_LEN is
\* written.
StreamsOK ==
  /\ open \in [Ends -> BOOLEAN]
  /\ m_last_result \in [Ends -> Results]
  /\ \A d \in Links :
       /\ sent[d] \in Seq(Messages)
       /\ \A k \in DOMAIN sent[d] : Len(sent[d][k].data) <= MAX_LEN
       /\ left[d] \in Seq(Chars)
       /\ wire[d] \in Seq(Chars) /\ Len(wire[d]) <= Capacity
       /\ rio_buf[d] \in Seq(Chars) /\ Len(rio_buf[d]) <= RioSize
       /\ usrbuf[d] \in Seq(Chars) /\ Len(usrbuf[d]) < MAX_LEN - 1
       /\ received[d] \in Seq(Seq(Chars))

\* The bytes of all messages sent, and those that have come out so far.
Encodings(d) == FlattenSeq([k \in DOMAIN sent[d] |-> Encode(sent[d][k])])
TakenOut(d) == FlattenSeq(received[d]) \o usrbuf[d] \o rio_buf[d]

\* Short writes, short reads and lines cut at the size of the buffer neither
\* lose, repeat nor reorder a byte: lines received, line begun, both buffers and
\* what is left to write make up what was sent, while both ends are there;
\* afterwards nothing else comes out.
BytesInOrder ==
  \A d \in Links :
    /\ IsPrefix(TakenOut(d), Encodings(d))
    /\ open[d[1]] /\ open[d[2]] => TakenOut(d) \o wire[d] \o left[d] = Encodings(d)

\* The line is one of a message sent before, in its turn; only a line that the
\* end of the connection cut off is a part of one.
InTurn(d, k) ==
  /\ k \in DOMAIN sent[d]
  /\ LET line == Encode(sent[d][k])
     IN \/ received[d][k] = line
        \/ ~open[d[1]] /\ k = Len(received[d]) /\ IsPrefix(received[d][k], line)

\* All messages sent so far are of one line of at most n characters.
LinesOfAtMost(d, n) ==
  \A k \in DOMAIN sent[d] :
    Len(Encode(sent[d][k])) <= n /\ ~Contains(sent[d][k].data, Newline)

\* As long as no encoded message fills the buffer of receive, the n-th message
\* received is the n-th one sent, wherever the kernel cuts the stream, with the
\* newline at the end of its data.
MessagesArriveWhole ==
  \A d \in Links : LinesOfAtMost(d, MAX_LEN - 1) =>
     \A k \in DOMAIN received[d] :
       /\ InTurn(d, k)
       /\ received[d][k] = Encode(sent[d][k]) =>
            Parse(received[d][k]) =
              [tag |-> sent[d][k].tag, data |-> sent[d][k].data \o <<Newline>>]

\* message.h gives MAX_LEN as the length an encoded message may have, newline
\* included: every message of that length arrives as one.
DocumentedLengthArrivesWhole ==
  \A d \in Links : LinesOfAtMost(d, MAX_LEN) => \A k \in DOMAIN received[d] : InTurn(d, k)
=============================================================================
