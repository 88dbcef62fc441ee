---------------------------- MODULE MessageQueue ----------------------------
(***************************************************************************)
(* One MessageQueue of the chat server (src/05ass/message_queue.cpp): a    *)
(* deque under a mutex, and a semaphore that counts the messages a         *)
(* consumer may take.  A step is one call to the pthread or semaphore      *)
(* library, or one access to the deque.                                    *)
(*                                                                         *)
(* Producers are the sender threads that broadcast into the queue,         *)
(* Consumers the threads that call dequeue.  The server has one consumer   *)
(* per queue, the class makes no use of that.                              *)
(***************************************************************************)
EXTENDS Integers, Sequences, FiniteSets

CONSTANTS Producers,    \* threads that call enqueue
          Consumers,    \* threads that call dequeue
          MaxSends      \* bound: calls to enqueue made by one producer

ASSUME ThreadsAssumption ==
  /\ IsFiniteSet(Producers)
  /\ IsFiniteSet(Consumers)
  /\ Producers \cap Consumers = {}
  /\ MaxSends \in Nat

Threads == Producers \cup Consumers

\* The k-th message of producer p: the queue moves pointers and never looks
\* at what a message says, so its origin is all there is to tell it by.
Messages == Producers \X (1..MaxSends)

Garbage == <<"garbage", 0>>
NoMessage == <<>>

Free == "free"

ASSUME FreeAssumption == Free \notin Threads /\ "garbage" \notin Producers

VARIABLES m_lock,       \* owner of the mutex, or Free
          m_avail,      \* value of the semaphore
          m_messages,   \* the deque, front first
          pc,           \* where each thread is
          sent,         \* calls to enqueue each producer has made
          msg,          \* the message each call to dequeue is to return
          popped        \* history: what consumers popped, in that order

vars == <<m_lock, m_avail, m_messages, pc, sent, msg, popped>>

\* Fault: the semaphore starts with a permit nobody has posted.
InitOnePermit ==
  /\ m_lock = Free
  /\ m_avail = 1
  /\ m_messages = <<>>
  /\ pc = [t \in Threads |-> "idle"]
  /\ sent = [p \in Producers |-> 0]
  /\ msg = [c \in Consumers |-> NoMessage]
  /\ popped = <<>>

Init ==
  /\ m_lock = Free
  /\ m_avail = 0
  /\ m_messages = <<>>
  /\ pc = [t \in Threads |-> "idle"]
  /\ sent = [p \in Producers |-> 0]
  /\ msg = [c \in Consumers |-> NoMessage]
  /\ popped = <<>>

Goto(t, label) == pc' = [pc EXCEPT ![t] = label]

-----------------------------------------------------------------------------
(* enqueue *)

EnqueueCall(p) ==
  /\ pc[p] = "idle"
  /\ sent[p] < MaxSends
  /\ sent' = [sent EXCEPT ![p] = @ + 1]
  /\ Goto(p, "lock")
  /\ UNCHANGED <<m_lock, m_avail, m_messages, msg, popped>>

\* Fault: the mutex is taken without waiting for its owner.
LockWithoutWaiting(t) ==
  /\ pc[t] = "lock"
  /\ m_lock' = t
  /\ Goto(t, "access")
  /\ UNCHANGED <<m_avail, m_messages, sent, msg, popped>>

\* pthread_mutex_lock, in enqueue and in dequeue
Lock(t) ==
  /\ pc[t] = "lock"
  /\ m_lock = Free
  /\ m_lock' = t
  /\ Goto(t, "access")
  /\ UNCHANGED <<m_avail, m_messages, sent, msg, popped>>

PushBack(p) ==
  /\ pc[p] = "access"
  /\ m_messages' = Append(m_messages, <<p, sent[p]>>)
  /\ Goto(p, "unlock")
  /\ UNCHANGED <<m_lock, m_avail, sent, msg, popped>>

\* Fault: enqueue returns with the mutex.
UnlockForgotten(p) ==
  /\ pc[p] = "unlock"
  /\ Goto(p, "post")
  /\ UNCHANGED <<m_lock, m_avail, m_messages, sent, msg, popped>>

UnlockPushed(p) ==
  /\ pc[p] = "unlock"
  /\ m_lock' = Free
  /\ Goto(p, "post")
  /\ UNCHANGED <<m_avail, m_messages, sent, msg, popped>>

\* Fault: the message is in the deque and nobody is told.
PostForgotten(p) ==
  /\ pc[p] = "post"
  /\ Goto(p, "idle")
  /\ UNCHANGED <<m_lock, m_avail, m_messages, sent, msg, popped>>

Post(p) ==
  /\ pc[p] = "post"
  /\ m_avail' = m_avail + 1
  /\ Goto(p, "idle")
  /\ UNCHANGED <<m_lock, m_messages, sent, msg, popped>>

-----------------------------------------------------------------------------
(* dequeue *)

\* sem_timedwait takes a permit that is there without looking at the clock,
\* otherwise the caller sleeps.
WaitCall(c) ==
  /\ pc[c] = "idle"
  /\ IF m_avail > 0
     THEN m_avail' = m_avail - 1 /\ Goto(c, "lock")
     ELSE Goto(c, "blocked") /\ UNCHANGED m_avail
  /\ UNCHANGED <<m_lock, m_messages, sent, msg, popped>>

\* Fault: the wait succeeds and dequeue gives up all the same.
WakeAndGiveUp(c) ==
  /\ pc[c] = "blocked"
  /\ m_avail > 0
  /\ m_avail' = m_avail - 1
  /\ Goto(c, "idle")
  /\ UNCHANGED <<m_lock, m_messages, sent, msg, popped>>

Wake(c) ==
  /\ pc[c] = "blocked"
  /\ m_avail > 0
  /\ m_avail' = m_avail - 1
  /\ Goto(c, "lock")
  /\ UNCHANGED <<m_lock, m_messages, sent, msg, popped>>

\* Fault: the result of sem_timedwait is not looked at.
TimeOutIgnored(c) ==
  /\ pc[c] = "blocked"
  /\ Goto(c, "lock")
  /\ UNCHANGED <<m_lock, m_avail, m_messages, sent, msg, popped>>

\* sem_timedwait fails after a second (or on a signal), even if a post has
\* come in since: dequeue returns nullptr and touches nothing.
TimeOut(c) ==
  /\ pc[c] = "blocked"
  /\ Goto(c, "idle")
  /\ UNCHANGED <<m_lock, m_avail, m_messages, sent, msg, popped>>

\* front(), undefined on an empty deque: whatever it gives then, it is no message.
Front(c) ==
  /\ pc[c] = "access"
  /\ msg' = [msg EXCEPT ![c] = IF m_messages = <<>> THEN Garbage ELSE Head(m_messages)]
  /\ Goto(c, "pop")
  /\ UNCHANGED <<m_lock, m_avail, m_messages, sent, popped>>

\* pop_front(), undefined on an empty deque: nothing is there to be taken off.
PopFront(c) ==
  /\ pc[c] = "pop"
  /\ m_messages' = IF m_messages = <<>> THEN <<>> ELSE Tail(m_messages)
  /\ popped' = Append(popped, msg[c])
  /\ Goto(c, "unlock")
  /\ UNCHANGED <<m_lock, m_avail, sent, msg>>

\* dequeue returns, and its local variable is gone.
UnlockPopped(c) ==
  /\ pc[c] = "unlock"
  /\ m_lock' = Free
  /\ msg' = [msg EXCEPT ![c] = NoMessage]
  /\ Goto(c, "idle")
  /\ UNCHANGED <<m_avail, m_messages, sent, popped>>

-----------------------------------------------------------------------------
Enqueue(p) ==
  EnqueueCall(p) \/ Lock(p) \/ PushBack(p) \/ UnlockPushed(p) \/ Post(p)

Dequeue(c) ==
  \/ WaitCall(c) \/ Wake(c) \/ TimeOut(c)
  \/ Lock(c) \/ Front(c) \/ PopFront(c) \/ UnlockPopped(c)

Next == \/ \E p \in Producers : Enqueue(p)
        \/ \E c \in Consumers : Dequeue(c)

Spec == Init /\ [][Next]_vars

\* The operating system runs every thread that can run.  Nothing makes a
\* producer call enqueue.  Mutex and semaphore are only assumed not to keep a
\* thread out that could have them for ever (weak fairness): with MaxSends
\* calls, contention ends.
Fairness ==
  /\ \A p \in Producers : WF_vars(Lock(p) \/ PushBack(p) \/ UnlockPushed(p) \/ Post(p))
  /\ \A c \in Consumers : WF_vars(Dequeue(c))

FairSpec == Spec /\ Fairness

-----------------------------------------------------------------------------
Labels == {"idle", "lock", "access", "pop", "unlock", "post", "blocked"}

\* Type invariant: a thread is only ever at a label of its own operation, and
\* what dequeue returns is a message, not what front() makes of an empty deque.
TypeOK ==
  /\ m_lock \in Threads \cup {Free}
  /\ m_avail \in Nat
  /\ m_messages \in Seq(Messages)
  /\ pc \in [Threads -> Labels]
  /\ \A p \in Producers : pc[p] \notin {"blocked", "pop"}
  /\ \A c \in Consumers : pc[c] # "post"
  /\ sent \in [Producers -> 0..MaxSends]
  /\ \A p \in Producers : pc[p] # "idle" => sent[p] > 0
  /\ msg \in [Consumers -> Messages \cup {NoMessage}]
  /\ \A c \in Consumers : pc[c] \in {"pop", "unlock"} => msg[c] \in Messages
  /\ popped \in Seq(Messages)

\* Only the owner of the mutex is between lock and unlock, so no two threads
\* touch the deque at once ("must be held while accessing queue").
MutualExclusion ==
  \A t \in Threads : pc[t] \in {"access", "pop", "unlock"} => m_lock = t

\* Producers whose message is in the deque and not yet counted, and consumers
\* that hold a permit for a message still in the deque.
Uncounted == {p \in Producers : pc[p] \in {"unlock", "post"}}
Entitled == {c \in Consumers : pc[c] \in {"lock", "access", "pop"}}

\* "The semaphore keeps a count of how many messages are currently in the
\* queue", with the threads caught between the deque and the semaphore.
SemaphoreCounts ==
  m_avail + Cardinality(Uncounted) + Cardinality(Entitled) = Len(m_messages)

\* dequeue never looks at the front of an empty deque or takes it off, although
\* it looks at the semaphore before it has the mutex and never at the size of
\* the deque.
NoPopOfEmptyQueue ==
  \A c \in Consumers : pc[c] \in {"access", "pop"} => m_messages # <<>>

\* The queue of three separate steps (deque, mutex, semaphore) behaves as one
\* whose put and take are indivisible.
Fifo == INSTANCE FifoQueue WITH queue <- m_messages, taken <- popped,
                                Message <- Messages

ImplementsFifo == Fifo!Spec

\* A message that is in the deque is taken in the end: no permit is lost when
\* a dequeue times out while a message comes in.
EveryMessageTaken ==
  \A m \in Messages :
    (\E i \in 1..Len(m_messages) : m_messages[i] = m)
      ~> (\E i \in 1..Len(popped) : popped[i] = m)

\* Every call returns: enqueue "will not block", dequeue "blocks for at most
\* a finite amount of time" even if no message ever comes.
CallsReturn == \A t \in Threads : pc[t] # "idle" ~> pc[t] = "idle"
=============================================================================
