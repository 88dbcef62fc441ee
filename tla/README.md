# TLA+ models of sp2023-csf

The repository holds the programs of a course in systems programming. This
directory holds TLA+ models of them, TLC configurations that check the models
on small instances, and TLAPS proofs that hold for every instance. The centre
is the chat server of `src/05ass`, where threads, locks, queues and connections
that fail meet, with the two client programs that talk to it; the cache
simulator, the parallel sort, the 256-bit integers and the hex dump are modelled
beside it.

Run, in this directory, `tlc -config ChatServerSafety.cfg MCChatServer` (and so
on, table of runs below) and `tlapm ChatServerProofs.tla`.

## 1. The system

| Part | State | Operations | Interacts with | What is hard |
|---|---|---|---|---|
| message queue `05ass/message_queue.cpp` | deque `m_messages`, mutex `m_lock`, semaphore `m_avail` | enqueue, dequeue (one second timeout), destructor | senders' workers put, the receiver's worker takes | deque and semaphore are updated at different moments; the timeout races the post |
| room `room.cpp`, `guard.h`, `user.h` | name, `members` (pointers to User), mutex `lock` | add_member, remove_member, broadcast_message | called by every worker; pushes into the members' queues | members come and go during a broadcast; a User is deleted by its own worker |
| server `server.cpp` | `m_rooms`, `m_lock`; per client a detached thread with Client, Connection, User, `sender_room` | accept, login, chat_with_receiver, chat_with_sender, find_or_create_room | clients over TCP, rooms, queues | two look-ups of a new name at once; clients that go or stop reading at any point; what is freed when |
| connection `connection.cpp`, `message.h`, the rio part and open_clientfd, open_listenfd of `csapp.c` | descriptor, `rio_buf`, `m_last_result` | connect, listen, send, receive, close, checkResponse | both programs' ends of a TCP connection | short reads and writes, lines longer than the buffer, a connection that goes in mid-line |
| clients `sender.cpp`, `receiver.cpp`, start-up of the server `server_main.cpp` | none but the connection | login, join, command loop, delivery loop | the server, one reply per request | nothing ties a reply to its request; exceptions nobody catches; text that contains the separator |
| cache simulator `03ass` | configuration, blocks and tag map of each set, clock, statistics | load, store, evict | reads a trace | stamps, map and slots must agree through long sequences of evictions; dirty bits |
| parallel sort `04ass/parsort.c` | shared mapping, tree of processes, exit statuses | fork, wait, merge, copy | parents and children share the array | failed forks, killed children, who waits for whom |
| 256-bit integers `01ass/uint256.c` | none (values) | add, sub, mul, shift, hex in and out | | carries, word boundaries, width of the text |
| hex dump `02ass` | position in the input, one buffer (assembly) or two (C) | read 16 bytes, print a line, in C and in assembly | | short reads after long ones, signed shifts and comparisons, parts of registers |

`PROJECT.json` lists every part with its status, and the hazards line by line.

Properties that make each part correct, in short: the queue is an atomic FIFO and every
call returns; a room's conversation reaches every member in one order, without gap, from
the moment it joined; a name has one Room; nothing freed is used; no lock is held while
waiting for a client; what a connection accepts it delivers, message by message; a
client's replies stay with its requests, client and server agree on the room, and every
request is answered; the cache evicts and counts as the chosen policy says and loses no
store; exit status 0 of the sort means a sorted file; arithmetic is that of the integers
modulo 2^256; both hex dumps print the same lines, and those are of the bytes read.

## 2. Modules

```
FifoQueue      <- refines -  MessageQueue      MCMessageQueue  MessageQueueProofs
RoomBroadcast  <- refines -  ChatServer        MCChatServer    ChatServerProofs
ReplacementPolicy <- refines - CacheSim        MCCacheSim      CacheSimProofs
                             Connection        MCConnection    ConnectionProofs
                   Connection, Sockets <- Session   MCSession  SessionProofs
HexLines       <- refines -  Hexdump, HexdumpAsm   MCHexdump   HexdumpProofs
                             Parsort           MCParsort       ParsortProofs
                             UInt256           MCUInt256       UInt256Proofs
```

`<- refines -` is an `INSTANCE ... WITH` whose specification a run checks as a PROPERTY;
Session EXTENDS Connection and Sockets and composes their steps with its own. UInt256
and the three modules of the hex dump EXTEND Powers. Operators with the comment "Fault:"
are variants of the definition after them, as a plausible slip in the code would make
it; `PROJECT.json` pairs each with the property that must then fail. They are part of no
specification.

**MessageQueue.** Any number of producers and consumers call one queue. `pc`
says which library call a thread is at: `Lock` (pthread_mutex_lock),
`PushBack`, `UnlockPushed`, `Post` (sem_post) for enqueue; `WaitCall`, `Wake` or
`TimeOut` (sem_timedwait), `Lock`, `Front`, `PopFront`, `UnlockPopped` for dequeue,
each access to the deque a step of its own; `msg` is what a consumer has read. A
`front()` of an empty deque is undefined behaviour and gives `Garbage`.

**ChatServer.** One worker per client; `pc` is its place in `worker`,
`chat_with_receiver` or `chat_with_sender`. A step is one critical section, or
the code between two points where another thread or the client can come in:
`find_or_create_room` is two steps under `m_lock` (`FindRoom`, `CreateRoom`),
`broadcast_message` takes the room's lock (`BeginBroadcast`), pushes to one
member at a time (`Push`, `Post`, in any order, since the set is ordered by
addresses) and releases it (`EndBroadcast`). Push and pop of a queue are single
steps here because MessageQueue shows that they are. A connection is `"up"`,
`"stalled"` (the client, sender or receiver, has stopped reading and a write blocks),
`"gone"` (it has closed: reads give end of file, but a write still succeeds) or
`"down"` (it is reset: writes fail too). A write to a client that has gone is answered
by a reset, which comes in at once or not before the next write (`WriteTo`). Which
clients may stop reading or go is the bound `Unsteady`; the proofs are for any.
`heap` says whether a receiver's User is live or freed, so that touching a freed
one is visible. The text of a message is the request it came in; those in
`TooLong` fit a request but not a delivery, where room and sender are put in
front, and `Connection::send` refuses them. `delivered`, `log` and `start` are
history variables.

**Connection.** `Links` are the directions, pairs of ends, and every stream
variable is a function of the link; `open` and `m_last_result` belong to an end.
`Write` and `Refill` are the system calls, moving any number of bytes;
`NextChar` is a turn of the loop of rio_readlineb; `Parse` is the split at the
first colon, with npos in an int. Characters are the letters an instance gives,
colon and newline. Either end closes at any step, in mid-line too; what is then
on its way may still arrive or be lost. `sent` and `received` are history.

**Sockets.** open_clientfd and open_listenfd, a library or system call at a
time, over a list of addresses of which any may refuse; `fds` counts the
descriptors the program holds.

**Session.** One client program, sender or receiver, with the worker that serves
it, from getaddrinfo to the end of both. `client` and `worker` say where each is
in its code: `checkResponse` is `Request` (send), `Sent` (it has returned) and
`Reply` or `NothingReceived`; `Proceed` is what its callers do with the result.
`Type` is a turn of read_cmd_loop, with the `at` and `substr` that throw;
`Chat` a turn of chatloop, with format_data (`Parts`). The worker's side is the
code of ChatServer again, seen from its connection: here the bytes are real and
what other workers do is one action, `Broadcast`, there the threads are real and
messages are one step. The words of the protocol (tags, commands, the texts of
replies) are one letter each.

**HexLines, Hexdump, HexdumpAsm.** HexLines is what a dump promises: for every
read one line, made of the offset (16 for each read before it), the bytes, the
blanks and the text. Hexdump is the C program, HexdumpAsm the assembly one; a
step is one turn of a loop, or of the code at a label. Both run over the same
input in MCHexdump. HexdumpAsm keeps what C has no word for: the one buffer in
which characters replace bytes, the counter shared by three loops, the sign that
`sarl` and `sarb` shift in, and the register of which `movb` loads one byte.

**CacheSim.** A step is one line of the trace under one of the configurations
that `main` accepts; `blocks` is the vector of each set, `block_pointer` its map
by tag. `modified` is a history variable. The text of `functions.cpp` contains
the marks of an unresolved merge; the sides differ in comments only, and the
model is of the code both have. Numbers of sets, slots and bytes are powers of
two, as main demands (`pow2`), and shifts are divisions by them; `Loaded` and
`Written` say what a load and a store leave of the block they touch.

**Parsort.** A process is known by the range it sorts. A step is one system call
or one access to the shared array: qsort of a small range, fork, wait, the merge
into the temporary array, the copy back one element at a time. Any fork may fail
and any process may be killed at any point. `waitpid` waits for a child that has not
been waited for, and fails at once for any other process.

**UInt256.** Operators, one per function of the code, over words of `WordBits`
bits; the state runs through pairs of operands. Bitwise and, or are spelled out bit by
bit (`Bit`, `OfBits`), since the Bitwise module is recursive and out of the provers'
reach, and powers are those of Powers, a recursive function, since the provers have no
theory of `^`. `uint256_create_from_hex` is modelled by the bytes it copies (`CopiedInto`):
what it can return, which is any value when its buffer has not been filled, and whether
the NUL of strcpy went to the byte behind the buffer. What an overrun does to the caller
is left open. `TextReadBack` and `TextFitsBuffer` state what `uint256.h:27` and the
comments at uint256.c:37 and 41 say of it. Neither holds, and no run checks them: with
`INVARIANT TextReadBack` or `INVARIANT TextFitsBuffer` in UInt256.cfg TLC refutes the
first with a value whose topmost digit is not 0 (a text of 64 characters is not copied,
the result is whatever is on the stack), the second with every other value (the NUL goes
to the byte behind the 64). In leftshift `1UL << i` is undefined for i from 64 on
(uint256.c:202); the model takes the bits it yields, whatever they are, and no other
effect (`Ones`).

## 3. Runs

| Run | Checks | Shows |
|---|---|---|
| message_queue | types, mutual exclusion, count of permits, no pop of an empty deque, refinement of FifoQueue, every message taken, every call returns; deadlock | two producers, two consumers, two messages each |
| chat_safety | types, no use after free, one room per name, permits match the queue, a receiver's stream is its room's log, "message sent" means queued, receivers are removed only when their connection is reset or the message too long; refinement of RoomBroadcast | two senders, one receiver, two names; receiver and one sender may stop reading or go; the second request of the other sender is too long |
| chat_live | delivery, every lock granted, lost receivers reclaimed | two receivers, one sender, two requests; the sender and one receiver may stop reading or go |
| chat_members (violation) | the README of 05ass: the set of members accurately tracks the receivers | a receiver whose connection is reset before its welcome is written stays a member for ever |
| chat_lost (violation) | the comment at the end of `worker`: everything of the client is freed | a sender that goes without /quit leaves its worker in a loop for ever |
| session | types and buffer sizes, no byte lost or reordered, messages that fit the buffer arrive whole, no stray descriptors, client and worker agree whenever the user is asked, deliveries shown in order, receiver and worker stop for a cause only, every request answered | a sender or a receiver with up to four requests and its worker, every way to cut both streams, either end going at any point, two addresses |
| framing_limit (violation) | `message.h`: an encoded message may have MAX_LEN characters | one of exactly MAX_LEN arrives in two parts |
| cache_policy | types, map and blocks agree, stamps distinct, no store lost, refinement of ReplacementPolicy | all configurations of up to two sets of two blocks, traces of five lines |
| cache_dirty (violation) | the comment in load_miss: the parameters of a replaced block are reset | a block that was only loaded is dirty, and its eviction is charged |
| parsort | types, success means sorted (and nobody is left who could change it), no shared elements, every process ends | files of three and four elements, trees of five and three processes |
| uint256 | sums and differences, products and shifts modulo the width; the text of a value is a numeral of it without leading zeros | all pairs of operands of four two-bit words |
| hexdump | types and buffer bounds, refinement of HexLines by both programs | all inputs of two reads of up to three bytes, failed reads among them |

Bounds, and why they are enough.
*message_queue*: two of each kind are what races need: two producers between
push and post, two consumers between permit and pop, a timeout beside them.
*chat_safety*: two senders can broadcast into one room, look up one name at
once, or be in different rooms; one receiver is enough for its stream: the
refinement ties each receiver on its own to the log of its room, so that two of
them that agree with the log agree with each other. Broadcasts to two members are
in chat_live. Two requests are a join and a message. One sender that may go or stop
reading beside one that does not shows what the failure of one does to another.
*session*: MAX_LEN is 9 where the code has 255, so that inputs that fit the buffer
of receive, fit what send accepts but not the buffer, and fit neither are all of
ten characters at most; the kernel holds four bytes and rio_buf three, so every
message is cut by both. Four requests are a login, a join, a command and one more
after it, the shortest history in which a reply could be taken for that of an
earlier request; two deliveries can be swapped or glued together. Of two
addresses the first can refuse and the second take the socket. *framing_limit*:
the same module with two ends that only send and receive.
*hexdump*: a line of three bytes can be short after a full one, by one byte and
by two; the four bytes are a NUL, the last below the printable ones, the last
printable one, and one with the highest bit set. Offsets have two
digits. That the conversions agree for every byte and every offset is proved
(`Conversions`).
*cache_policy*: with two blocks to a set, five lines fill a set, evict, reload
the evicted block and evict again; addresses have five bits where the code has
32, which only shortens tags.
*parsort*: three elements are the smallest range split unevenly on two levels;
four with threshold two make a merge of two pairs; three values give equal
elements. A file
without elements (of one to seven bytes) is included.
*uint256*: two bits are the narrowest word in which a carry, a borrow and a
shift can start inside a word, run through one and leave it.

CHECK_DEADLOCK is FALSE where the system may stop: clients need not send
anything, connections close, the simulator's trace, the sort and the numbering
of operands end. message_queue has no such end and checks deadlock.

Fairness. *MessageQueue, ChatServer*: weak fairness of each thread's own steps,
which is the operating system running a thread that can go on. No fairness for
anything a client does: joining, sending, reading and leaving are never
assumed. A mutex needs no strong fairness because the requests that contend for
it are bounded. *Session*: each direction's writes, reads and the loop of
rio_readlineb go on (a kernel and a peer that are there); the client's and the
worker's code goes on, ending included once it has got there. Not assumed: that
anybody types, broadcasts, ends early, or that start-up succeeds. *HexLines*: a
line that has been read is written; reads are never assumed.
*Parsort*: every process that can go on does; neither failed forks nor kills are
assumed to happen or not to happen.

## 4. Proofs

MessageQueueProofs, for any finite sets of producers and consumers and any number
of calls. The inductive invariant is `QueueInv`: types, and `SemaphoreCounts`,
that the semaphore, the producers that have pushed but not posted, and the
consumers that have a permit but have not popped add up to the length of the
deque. It is the counting that is needed: dequeue looks at the semaphore before
it has the mutex and never at the size of the deque, so "the deque is not empty
when I pop" follows only from all threads' permits together, and is not
inductive alone. From it follow `NoPopOfEmptyQueue`, and with `MutualExclusion`
(inductive beside the types) `FrontIsKeptAlways`: what a consumer has read with front is
still the first message when it calls pop_front, because nobody else is at the deque and
producers append at its end. On these rest the step simulation `StepIsFifoStep` and the
refinement `QueueImplementsFifo`: PushBack is Put, PopFront is Take, every other
step stutters.

ChatServerProofs, for any sets of clients and names and any number of requests,
in five layers.
*Types* (`TypesAlways`): TypeOK is not inductive: `room[s]` is dereferenced by a
broadcast, `wanted[c]` by a look-up. `Located` adds what holds at each label. Nor do
types alone say that a worker has a message when it writes one; `WeakTypes` leaves that
open, and `TypeCorrect` follows in the end from the count of permits (`GivenInv`);
frame lemmas say which actions touch the table, the rooms, the Users and the
histories, so that each part is proved from few cases.
*One room* (`OneRoomAlways`): `TableInv` adds that a thread about to insert holds
`m_lock` and that the name is still missing, which is what the lock is for.
*No use after free* (`NoUseAfterFreeAlways`): `RoomInv` adds that a member's
worker is at a label before its removal, and that a broadcast owns the lock of
the room it goes through and the member it is at is in that room; so
remove_member, and with it the delete, waits.

*What receivers are given* (`ServerAlways`): the permits of a receiver's semaphore,
its worker between wait and pop, and a broadcast between push and post add up to its
queue (`PermitInv`); what a receiver has been given and what waits for it is its
room's log from where it joined to where the broadcasts have reached it
(`StreamInv`), which is all of the log but the message of a broadcast under way that
has not come to it; who holds a room's lock has said the last message of its log
(`BroadcastInv`). `PermitsMatchQueue`, `StreamIsRoomLog` and `SentMeansQueued`
follow, and the action property `OnlyTheLostAreRemoved` from `CauseInv`. The
refinement `ServerImplementsRoomBroadcast` maps being added to a room to Join, taking
the room's lock for a broadcast to Say, writing to a receiver to Deliver, and every
other step of every thread to a stutter.
*No deadlock* (`OwnersGoOnAlways`): who owns the mutex of the table, or of a room, is in
the one critical section that goes with it (creating a room, going through its members),
where no step waits for a mutex, a semaphore or a client, and owns no other mutex. The
mutexes of the receivers' queues are taken and released within one action of the model.
What that gives under fairness, that a lock asked for is had, stays with TLC.

ConnectionProofs and SessionProofs, for any addresses, names, inputs and texts, any
sizes of the two buffers and of what the kernel holds, and any number of requests.
*Sockets*: `NoStrayDescriptorsAlways` takes `SocketsInv`, which ties the descriptors
*and* the addresses to the call a program is at. The addresses are needed although
the property does not speak of them: whoever closes a socket goes on to the next
address, and that the list has not run out by then is part of what makes the step
stay in range.
*Streams*: `ConnectionInv` says of each link, besides types and sizes, `Ordered` and
`Whole`. Ordered: lines received, then the line begun, rio_buf and the wire, are how
the bytes of all messages sent start; while both ends are open they are, with what is
left to write, all of them. The existential in it ("some bytes are lost") is what
makes it survive a reset. Whole: the lines received are the first messages sent, or
the last of them is cut off, the sender has gone and nothing is on its way any more;
without that last part a second cut line could follow. What makes it inductive is
`NextLine`: what is on its way begins with the next message, whose only newline is at
its end, so a line cannot end anywhere else, and cannot fill the buffer before. The
proofs are about values, one link at a time (`SendOK`, `WriteOK`, `RefillOK`,
`NextLineOK`, ...), and `ConnectionStepKeeps` puts them together for any set of links.
SessionProofs shows that whatever a client and its worker do to their connection is
such a step (`SessionStep`), which gives `BytesInOrderAlways`,
`MessagesArriveWholeAlways` and, with the counts of lines received and handled and the
types of queue and rooms, `SessionTypes`. `NotConnectedYet` is needed for the step
that makes the connection: no byte may be there before.

The second half of SessionProofs ties requests, replies and deliveries together, for any
program, names, inputs and texts. Four invariants stand on SessionInv. `EndsInv`: an end
finds the connection broken only when the other has gone, and no line read is empty.
`AsksInTurn`: what the client has asked, and which replies it has taken, by where it is;
without it nothing says that a receiver never prompts and a sender never chats.
*Sender* (`SenderInv`, `AgreeAtPromptAlways`): while both ends are there and the
requests fit a line (`Talking`), the client has at most one request without its reply,
the worker has given one reply to each line it took, and the room it is in is the one
the client *will* have been told of when it has read what it was sent (`Told`). The room
the client has been told of would not do: between the worker's answer and its arrival
the two differ. A connection that has carried all its lines holds nothing more
(`NothingOnItsWay`), which gives the empty buffers.
*Receiver* (`ReceiverInv`): what the worker has sent are two replies and then the first
of the messages given to it, the rest being its queue (`AnswersThenDelivers`);
everything given is a delivery of the room asked for (`GivenFromRoom`); the n-th message
shown came with line n + 2 while none was passed over, and one is only passed over when
it is not what was sent (`ShowsInTurn`). With what the streams guarantee (`ReadWhole`)
that is `ShownInOrderAlways`: what was passed over, or is shown cut, is the last line of
a server that has gone. `StopsForCauseAlways` needs besides what format_data makes of a
line: the newline lands in the last of the parts (`NewlineInLastPart`), three parts and
the two colons that the server puts in make everything before the first of them the room
(`FirstPart`), and rtrim takes the newline off the room's name (`TrimNewline`). The
lemmas on `Parts` turn its recursive function into a step from one character to the next
(`IsCutStep`).

ParsortProofs, for files of any length, any values and every threshold but 0.
`ParsortInv` has a part about the tree of processes, `TreeInv`: ranges are apart or one
is within a half of the other, and which processes are left beneath one at each call it
makes (nobody once it merges, and for good if it succeeds); and one about the data,
`DataInv`: what a process is still to sort is as it was in the file, a half whose
process has succeeded is sorted and has the elements it had, and stays so until the
parent copies. `NoSharedElementsAlways` and `SuccessMeansSortedAlways` follow; a kill or
a failed fork at any place breaks neither part. That `merge` of two sorted halves is
sorted and loses nothing (`MergeSorts`, `MergePermutes`) is proved of the recursive
function.
`WaitsForChildrenAlways` says that a process waits only for children of its own that
nobody has waited for, and whose ranges are smaller: the branches for a waitpid that fails (parsort.c:79-82,
95-98) are never taken, and waits cannot go in a circle. It needs
`TreeInv`, without which a process might be the child of two (`NoSharedChild`).

CacheSimProofs, for every configuration main accepts and every trace. The shifts and
masks of simulate are the remainder and quotient by powers of two (`BlockNumber`), so
the pair of set and tag names one block of memory. `CacheInv` is the conjunction of the
four invariants the run checks: types, `PointersFindBlocks`, `StampsAreDistinct` and
`StoredIsDirty` need each other, and nothing else. It is proved set by set (`SetOK`),
for one load, one store and one eviction. `CacheImplementsPolicy` takes from it the rank
of each block among the stamps of its set: the line of ReplacementPolicy is the blocks
by rank, the least stamp is its head, and a hit under lru moves a block to its end.

HexdumpProofs, for every width of a line, every number of digits of an offset and
every input. `Conversions`: the C program divides by 16 and takes remainders; the
assembly program shifts a register right with its sign, cuts it off by a shift or a
mask, and compares signed. That both give the digits and characters of HexLines for
every offset in Nat, those that have wrapped among them, is arithmetic on `Powers`: a
register less 16^k shows the same digits below the k-th, and a byte that is negative
when read as signed is not printable. The inductive invariant, `Inv`, is
the same for both programs, since their loops are, under other labels: the counter and
the buffers (`Registers`); as many lines as reads, but for the one being dumped
(`Histories`); the bytes are in the buffer until characters take their place
(`BytesKept`, `TextSoFar`); and the line so far is that of the first bytes with the
blanks behind them (`LineSoFar`). In C the buffer of characters is 0 where none has been
put; in assembly one buffer holds characters up to the counter and bytes after it, and
the register that takes a byte out has nothing above it. From it follow
`TypeCorrect`, every access to a buffer included, and `Safe`, the safety part of the
refinement: a read that is not the end is Read, PrintWords at its end is WriteLine,
and every other step stutters.

UInt256Proofs, for every width of word and digit. The inductive invariant, `Operands`,
is only that both operands are values; the work is in the operators. *Sums*: the code
finds a carry by comparing the sum with each summand, before and after adding the carry
that comes in; `Carries` says that this is the carry, `Sums` puts four words together,
and `Complement` makes the difference of it. *Bits*: `OfBits` builds a word from the
lowest bit on, so that the mask of leftshift keeps exactly the high bits (`Masked`) and
the `|` of two words with no bit in common is their sum (`Disjoint`). *Shifts*: a word
moved by less than its width leaves its low part and gives away its high part
(`ShiftedWord`, `MovedOut`), the next word takes that in (`TakesIn`), and a shift by
whole words multiplies modulo 256 bits (`WholeShifts`); together they are `LeftShifts`.
*Products*: after i bits the product is the right operand times the i lowest bits of the
left one, modulo (`ProductTable`). *Text*: the digits of a word, any number of them from the right, are a numeral of its
remainder (`DigitsAreNumeral`); joining two texts multiplies the first by the power of
the second's length (`Joined`); so the text from a word down is a numeral of these words
(`OneMoreWord`), and that of the most significant one that is not 0 begins with a digit
that is not. The theorems are `Additive`, `Multiplicative` and `Numerals`.

Recursion and induction. The theorems of the library on induction take an operator as
a parameter, which the provers cannot instantiate. Where a result of a recursive
function is needed for every length (merge, FlattenSeq, powers, products, digits) the proofs
say that no least counterexample exists (`LeastElement`, from the well-foundedness of
the natural numbers, or the same argument on the spot), or apply induction to the *set*
of numbers for which it holds (`Induction`). That a recursive function exists at all, and
so equals its definition, is a step of its own (`Iteration`, `PowersExist`).

Assumptions on constants: receivers and senders are disjoint, null pointers are not
objects, lists of addresses are not empty, producers and consumers are finite and
disjoint, a descriptor has one reader and one writer, the words of the protocol are made
of letters, a reply fits the buffer of receive, no letter is a colon or a newline, the
threshold of the sort is not 0, and the bits of set and offset leave at least one for
the tag (otherwise the shifts of simulate are undefined, and with threshold 0 the forks
end only when they fail; neither main refuses them, see the hazards). TLC evaluates them
in the runs of the modules that state them.

Only model-checked: everything temporal that needs fairness (delivery, locks,
calls returning, processes ending, requests answered, and of the refinement of
HexLines that a line read is written in the end), which the prover does not do. Every
other property of a passing run is stated by a theorem.

## 5. Not modelled

The bodies of the other csapp wrappers and the trims of `client_util.cpp`, which
nothing calls; `~Server` and `get_room_size`, likewise; the checks of the number
of arguments; what the programs write to a terminal about errors; parsing of the
trace's text and of arguments as text, and printing; the random data generator;
the unfinished draft `csf_assign04`, the copy `assign01`, course exercises,
test framework and tests. What the byte behind the buffer of
`create_from_hex` does to its caller is left open.
In Session the other clients of the server are the action Broadcast; that their
threads do to rooms and queues no more than that is what ChatServer shows.

## 6. What is left

All components with state of their own are modelled, and all that the runs check
without fairness is proved. What is left to a model checker is liveness, on the
small instances of the runs. The hazards without a property are listed in
PROJECT.json, each with the reason.
