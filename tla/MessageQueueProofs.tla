------------------------- MODULE MessageQueueProofs -------------------------
(***************************************************************************)
(* Proofs about MessageQueue, for any finite sets of producers and         *)
(* consumers and any number of calls.                                      *)
(*                                                                         *)
(* The semaphore count is the inductive part: a consumer is let into the   *)
(* deque by a permit, not by the deque's size, so that it finds a message  *)
(* there is a statement about the permits of all threads together.         *)
(***************************************************************************)
EXTENDS MessageQueue, FiniteSetTheorems, SequenceTheorems, TLAPS

QueueInv == TypeOK /\ SemaphoreCounts

-----------------------------------------------------------------------------
(* Type invariant *)

\* The type invariant holds in the initial state.
LEMMA TypeOKInit == Init => TypeOK
BY ThreadsAssumption, FreeAssumption, EmptySeq DEF Init, TypeOK, Threads, Labels

\* What a producer is about to push is one of the messages it has started.
LEMMA PushedIsMessage ==
  ASSUME TypeOK, NEW p \in Producers, pc[p] = "access"
  PROVE  <<p, sent[p]>> \in Messages
<1>1. sent[p] \in 0..MaxSends /\ sent[p] > 0
  BY DEF TypeOK
<1>2. sent[p] \in 1..MaxSends
  BY <1>1, ThreadsAssumption
<1> QED
  BY <1>2 DEF Messages

\* The sets of threads counted are finite, and their sizes are numbers.
LEMMA CountsAreNumbers ==
  /\ IsFiniteSet(Uncounted) /\ Cardinality(Uncounted) \in Nat
  /\ IsFiniteSet(Entitled) /\ Cardinality(Entitled) \in Nat
<1>1. Uncounted \subseteq Producers /\ Entitled \subseteq Consumers
  BY DEF Uncounted, Entitled
<1> QED
  BY <1>1, ThreadsAssumption, FS_Subset, FS_CardinalityType

\* With the count right, whoever holds a permit finds a message.
LEMMA PermitMeansMessage == QueueInv => NoPopOfEmptyQueue
<1> SUFFICES ASSUME QueueInv, NEW c \in Consumers, pc[c] \in {"access", "pop"}, m_messages = <<>>
             PROVE FALSE
  BY DEF NoPopOfEmptyQueue
<1>1. c \in Entitled
  BY DEF Entitled
<1>2. Cardinality(Entitled) # 0
  BY <1>1, CountsAreNumbers, FS_EmptySet
<1>3. Len(m_messages) = 0
  OBVIOUS
<1> QED
  BY <1>2, <1>3, CountsAreNumbers DEF QueueInv, SemaphoreCounts, TypeOK

\* Every step of enqueue and dequeue preserves the type invariant.
LEMMA TypeOKStep == QueueInv /\ [Next]_vars => TypeOK'
<1> SUFFICES ASSUME QueueInv, [Next]_vars PROVE TypeOK'
  OBVIOUS
<1> USE ThreadsAssumption DEF QueueInv, TypeOK, Threads, Labels, Goto
<1>1. CASE UNCHANGED vars
  BY <1>1 DEF vars
<1>2. ASSUME NEW p \in Producers, Enqueue(p) PROVE TypeOK'
  <2>1. CASE EnqueueCall(p)
    BY <2>1 DEF EnqueueCall
  <2>2. CASE Lock(p)
    BY <2>2 DEF Lock
  <2>3. CASE PushBack(p)
    <3>1. <<p, sent[p]>> \in Messages
      BY <2>3, PushedIsMessage DEF PushBack
    <3>2. m_messages' \in Seq(Messages)
      BY <2>3, <3>1, AppendProperties DEF PushBack
    <3> QED
      BY <2>3, <3>2 DEF PushBack
  <2>4. CASE UnlockPushed(p)
    BY <2>4 DEF UnlockPushed
  <2>5. CASE Post(p)
    BY <2>5 DEF Post
  <2> QED
    BY <1>2, <2>1, <2>2, <2>3, <2>4, <2>5 DEF Enqueue
<1>3. ASSUME NEW c \in Consumers, Dequeue(c) PROVE TypeOK'
  <2>1. CASE WaitCall(c)
    <3>1. /\ m_avail' \in Nat
          /\ \E label \in {"lock", "blocked"} : pc' = [pc EXCEPT ![c] = label]
          /\ UNCHANGED <<m_lock, m_messages, sent, msg, popped>>
      BY <2>1 DEF WaitCall
    <3> PICK label \in {"lock", "blocked"} : pc' = [pc EXCEPT ![c] = label]
      BY <3>1
    <3> QED
      BY <3>1
  <2>2. CASE Wake(c)
    BY <2>2 DEF Wake
  <2>3. CASE TimeOut(c)
    BY <2>3 DEF TimeOut
  <2>4. CASE Lock(c)
    BY <2>4 DEF Lock
  <2>5. CASE Front(c)
    <3>1. m_messages # <<>>
      BY <2>5, PermitMeansMessage DEF Front, NoPopOfEmptyQueue
    <3>2. Head(m_messages) \in Messages
      BY <3>1, HeadTailProperties
    <3>3. msg' = [msg EXCEPT ![c] = Head(m_messages)]
      BY <2>5, <3>1 DEF Front
    <3> QED
      BY <2>5, <3>2, <3>3 DEF Front
  <2>6. CASE PopFront(c)
    <3>1. m_messages' \in Seq(Messages)
      <4>1. CASE m_messages # <<>>
        BY <2>6, <4>1, HeadTailProperties DEF PopFront
      <4>2. CASE m_messages = <<>>
        BY <2>6, <4>2 DEF PopFront
      <4> QED
        BY <4>1, <4>2
    <3>2. popped' \in Seq(Messages)
      BY <2>6, AppendProperties DEF PopFront
    <3> QED
      BY <2>6, <3>1, <3>2 DEF PopFront
  <2>7. CASE UnlockPopped(c)
    BY <2>7 DEF UnlockPopped
  <2> QED
    BY <1>3, <2>1, <2>2, <2>3, <2>4, <2>5, <2>6, <2>7 DEF Dequeue
<1> QED
  BY <1>1, <1>2, <1>3 DEF Next

-----------------------------------------------------------------------------
(* The semaphore count *)

\* At the start nothing is queued, counted or promised.
LEMMA SemaphoreCountsInit == Init => SemaphoreCounts
<1> SUFFICES ASSUME Init PROVE SemaphoreCounts
  OBVIOUS
<1>1. Uncounted = {} /\ Entitled = {}
  BY DEF Init, Uncounted, Entitled, Threads
<1> QED
  BY <1>1, FS_EmptySet DEF Init, SemaphoreCounts

\* A step of one producer or consumer keeps the count: it moves one unit
\* between the semaphore, the threads in between and the deque.
LEMMA SemaphoreCountsStep == QueueInv /\ [Next]_vars => SemaphoreCounts'
<1> SUFFICES ASSUME QueueInv, [Next]_vars PROVE SemaphoreCounts'
  OBVIOUS
<1> USE ThreadsAssumption DEF QueueInv, SemaphoreCounts
<1>0. /\ m_avail \in Nat
      /\ m_messages \in Seq(Messages)
      /\ Len(m_messages) \in Nat
      /\ pc \in [Threads -> Labels]
      /\ \A p \in Producers : pc[p] \notin {"blocked", "pop"}
      /\ Producers \subseteq Threads /\ Consumers \subseteq Threads
  BY LenProperties DEF TypeOK, Threads
<1>1. CASE UNCHANGED vars
  BY <1>1 DEF vars, Uncounted, Entitled
<1>2. ASSUME NEW p \in Producers, Enqueue(p) PROVE SemaphoreCounts'
  <2>0. p \notin Consumers /\ p \in Threads
    BY DEF Threads
  <2>1. CASE EnqueueCall(p)
    <3>1. Uncounted' = Uncounted /\ Entitled' = Entitled
      BY <2>0, <2>1, <1>0 DEF EnqueueCall, Uncounted, Entitled, Goto
    <3> QED
      BY <2>1, <3>1 DEF EnqueueCall
  <2>2. CASE Lock(p)
    <3>1. Uncounted' = Uncounted /\ Entitled' = Entitled
      BY <2>0, <2>2, <1>0 DEF Lock, Uncounted, Entitled, Goto
    <3> QED
      BY <2>2, <3>1 DEF Lock
  <2>3. CASE PushBack(p)
    <3>1. /\ Uncounted' = Uncounted \cup {p} /\ p \notin Uncounted
          /\ Entitled' = Entitled
      BY <2>0, <2>3, <1>0 DEF PushBack, Uncounted, Entitled, Goto
    <3>2. Cardinality(Uncounted') = Cardinality(Uncounted) + 1
      BY <3>1, CountsAreNumbers, FS_AddElement
    <3>3. <<p, sent[p]>> \in Messages
      BY <2>3, PushedIsMessage DEF PushBack
    <3>4. Len(m_messages') = Len(m_messages) + 1
      BY <2>3, <3>3, <1>0, AppendProperties DEF PushBack
    <3> QED
      BY <2>3, <3>1, <3>2, <3>4, <1>0, CountsAreNumbers DEF PushBack
  <2>4. CASE UnlockPushed(p)
    <3>1. Uncounted' = Uncounted /\ Entitled' = Entitled
      BY <2>0, <2>4, <1>0 DEF UnlockPushed, Uncounted, Entitled, Goto
    <3> QED
      BY <2>4, <3>1 DEF UnlockPushed
  <2>5. CASE Post(p)
    <3>1. /\ Uncounted' = Uncounted \ {p} /\ p \in Uncounted
          /\ Entitled' = Entitled
      BY <2>0, <2>5, <1>0 DEF Post, Uncounted, Entitled, Goto
    <3>2. Cardinality(Uncounted') = Cardinality(Uncounted) - 1
      BY <3>1, CountsAreNumbers, FS_RemoveElement
    <3> QED
      BY <2>5, <3>1, <3>2, <1>0, CountsAreNumbers DEF Post
  <2> QED
    BY <1>2, <2>1, <2>2, <2>3, <2>4, <2>5 DEF Enqueue
<1>3. ASSUME NEW c \in Consumers, Dequeue(c) PROVE SemaphoreCounts'
  <2>0. c \notin Producers /\ c \in Threads
    BY DEF Threads
  <2>1. ASSUME m_avail > 0, m_avail' = m_avail - 1, pc[c] \in {"idle", "blocked"},
               Goto(c, "lock"), UNCHANGED m_messages
        PROVE SemaphoreCounts'
    <3>1. /\ Entitled' = Entitled \cup {c} /\ c \notin Entitled
          /\ Uncounted' = Uncounted
      BY <2>0, <2>1, <1>0 DEF Uncounted, Entitled, Goto
    <3>2. Cardinality(Entitled') = Cardinality(Entitled) + 1
      BY <3>1, CountsAreNumbers, FS_AddElement
    <3> QED
      BY <2>1, <3>1, <3>2, <1>0, CountsAreNumbers
  <2>2. CASE WaitCall(c)
    <3>1. CASE m_avail > 0
      BY <2>1, <2>2, <3>1 DEF WaitCall
    <3>2. CASE ~(m_avail > 0)
      <4>1. Uncounted' = Uncounted /\ Entitled' = Entitled
        BY <2>0, <2>2, <3>2, <1>0 DEF WaitCall, Uncounted, Entitled, Goto
      <4> QED
        BY <2>2, <3>2, <4>1 DEF WaitCall
    <3> QED
      BY <3>1, <3>2
  <2>3. CASE Wake(c)
    BY <2>1, <2>3 DEF Wake
  <2>4. CASE TimeOut(c)
    <3>1. Uncounted' = Uncounted /\ Entitled' = Entitled
      BY <2>0, <2>4, <1>0 DEF TimeOut, Uncounted, Entitled, Goto
    <3> QED
      BY <2>4, <3>1 DEF TimeOut
  <2>5. CASE Lock(c)
    <3>1. Uncounted' = Uncounted /\ Entitled' = Entitled
      BY <2>0, <2>5, <1>0 DEF Lock, Uncounted, Entitled, Goto
    <3> QED
      BY <2>5, <3>1 DEF Lock
  <2>6. CASE Front(c)
    <3>1. Uncounted' = Uncounted /\ Entitled' = Entitled
      BY <2>0, <2>6, <1>0 DEF Front, Uncounted, Entitled, Goto
    <3> QED
      BY <2>6, <3>1 DEF Front
  <2>7. CASE PopFront(c)
    <3>1. /\ Entitled' = Entitled \ {c} /\ c \in Entitled
          /\ Uncounted' = Uncounted
      BY <2>0, <2>7, <1>0 DEF PopFront, Uncounted, Entitled, Goto
    <3>2. Cardinality(Entitled') = Cardinality(Entitled) - 1
      BY <3>1, CountsAreNumbers, FS_RemoveElement
    <3>3. Cardinality(Entitled) # 0
      BY <3>1, CountsAreNumbers, FS_EmptySet
    <3>4. m_messages # <<>>
      BY <3>3, <1>0, CountsAreNumbers
    <3>5. Len(m_messages') = Len(m_messages) - 1
      BY <2>7, <3>4, <1>0, HeadTailProperties DEF PopFront
    <3> QED
      BY <2>7, <3>1, <3>2, <3>5, <1>0, CountsAreNumbers DEF PopFront
  <2>8. CASE UnlockPopped(c)
    <3>1. Uncounted' = Uncounted /\ Entitled' = Entitled
      BY <2>0, <2>8, <1>0 DEF UnlockPopped, Uncounted, Entitled, Goto
    <3> QED
      BY <2>8, <3>1 DEF UnlockPopped
  <2> QED
    BY <1>3, <2>2, <2>3, <2>4, <2>5, <2>6, <2>7, <2>8 DEF Dequeue
<1> QED
  BY <1>1, <1>2, <1>3 DEF Next

-----------------------------------------------------------------------------
\* Types and the semaphore count together are inductive.
THEOREM QueueInvariant == Spec => []QueueInv
<1>1. Init => QueueInv
  BY TypeOKInit, SemaphoreCountsInit DEF QueueInv
<1>2. QueueInv /\ [Next]_vars => QueueInv'
  BY TypeOKStep, SemaphoreCountsStep DEF QueueInv
<1> QED
  BY <1>1, <1>2, PTL DEF Spec

\* A thread of the queue is at a label of its own operation in every state.
THEOREM TypeCorrect == Spec => []TypeOK
BY QueueInvariant, PTL DEF QueueInv

\* The semaphore, with the threads between it and the deque, always counts
\* exactly the messages in the deque.
THEOREM SemaphoreCountsAlways == Spec => []SemaphoreCounts
BY QueueInvariant, PTL DEF QueueInv

\* dequeue never pops an empty deque, with any number of consumers.
THEOREM NeverPopsEmptyQueue == Spec => []NoPopOfEmptyQueue
BY QueueInvariant, PermitMeansMessage, PTL

-----------------------------------------------------------------------------
\* Between lock and unlock a thread owns the mutex: at most one of them is
\* at the deque at any time.
THEOREM DequeIsLocked == Spec => []MutualExclusion
<1>1. Init => MutualExclusion
  BY DEF Init, MutualExclusion
<1>2. TypeOK /\ MutualExclusion /\ [Next]_vars => MutualExclusion'
  <2> SUFFICES ASSUME TypeOK, MutualExclusion, [Next]_vars PROVE MutualExclusion'
    OBVIOUS
  <2> USE FreeAssumption, ThreadsAssumption DEF MutualExclusion, TypeOK, Goto, Threads
  <2>1. CASE UNCHANGED vars
    BY <2>1 DEF vars
  <2>2. ASSUME NEW p \in Producers, Enqueue(p) PROVE MutualExclusion'
    BY <2>2 DEF Enqueue, EnqueueCall, Lock, PushBack, UnlockPushed, Post
  <2>3. ASSUME NEW c \in Consumers, Dequeue(c) PROVE MutualExclusion'
    BY <2>3 DEF Dequeue, WaitCall, Wake, TimeOut, Lock, Front, PopFront, UnlockPopped
  <2> QED
    BY <2>1, <2>2, <2>3 DEF Next
<1> QED
  BY <1>1, <1>2, TypeCorrect, PTL DEF Spec

-----------------------------------------------------------------------------
\* What a consumer has read with front() is still the front when it calls
\* pop_front(): other consumers are kept out by the mutex, and producers, who
\* are too, would only push behind it.
FrontIsKept ==
  \A c \in Consumers :
    pc[c] = "pop" => m_messages # <<>> /\ msg[c] = Head(m_messages)

\* No step of another thread comes between front() and pop_front().
LEMMA FrontIsKeptStep ==
  QueueInv /\ MutualExclusion /\ FrontIsKept /\ [Next]_vars => FrontIsKept'
<1> SUFFICES ASSUME QueueInv, MutualExclusion, FrontIsKept, [Next]_vars,
                    NEW d \in Consumers, pc'[d] = "pop"
             PROVE  (m_messages # <<>> /\ msg[d] = Head(m_messages))'
  BY DEF FrontIsKept
<1>0. /\ pc \in [Threads -> Labels] /\ msg \in [Consumers -> Messages \cup {NoMessage}]
      /\ d \in Threads /\ d \notin Producers
  BY ThreadsAssumption DEF QueueInv, TypeOK, Threads
<1>1. CASE UNCHANGED vars
  BY <1>1 DEF vars, FrontIsKept
<1>2. ASSUME pc[d] = "pop", UNCHANGED <<m_messages, msg>>
      PROVE  (m_messages # <<>> /\ msg[d] = Head(m_messages))'
  BY <1>2 DEF FrontIsKept
<1>3. ASSUME NEW p \in Producers, Enqueue(p)
      PROVE  (m_messages # <<>> /\ msg[d] = Head(m_messages))'
  <2>1. pc[d] = "pop" /\ msg' = msg /\ p # d /\ p \in Threads
    BY <1>0, <1>3 DEF Enqueue, EnqueueCall, Lock, PushBack, UnlockPushed, Post, Goto, Threads
  <2>2. ~PushBack(p)
    BY <2>1, <1>0, FreeAssumption DEF PushBack, MutualExclusion
  <2>3. m_messages' = m_messages
    BY <1>3, <2>2 DEF Enqueue, EnqueueCall, Lock, UnlockPushed, Post
  <2> QED
    BY <1>2, <2>1, <2>3
<1>4. ASSUME NEW c \in Consumers, Dequeue(c)
      PROVE  (m_messages # <<>> /\ msg[d] = Head(m_messages))'
  <2>0. c \in Threads
    BY DEF Threads
  <2>1. CASE c = d
    <3>1. Front(d)
      BY <1>0, <1>4, <2>1 DEF Dequeue, WaitCall, Wake, TimeOut, Lock, PopFront, UnlockPopped, Goto
    <3>2. m_messages # <<>>
      BY <3>1, PermitMeansMessage DEF Front, NoPopOfEmptyQueue
    <3> QED
      BY <1>0, <3>1, <3>2 DEF Front
  <2>2. CASE c # d
    <3>1. pc[d] = "pop"
      BY <1>0, <1>4, <2>0, <2>2
         DEF Dequeue, WaitCall, Wake, TimeOut, Lock, Front, PopFront, UnlockPopped, Goto
    <3>2. pc[c] \notin {"access", "pop", "unlock"}
      BY <1>0, <2>0, <2>2, <3>1 DEF MutualExclusion
    <3>3. UNCHANGED <<m_messages, msg>>
      BY <1>4, <3>2 DEF Dequeue, WaitCall, Wake, TimeOut, Lock, Front, PopFront, UnlockPopped
    <3> QED
      BY <1>2, <3>1, <3>3
  <2> QED
    BY <2>1, <2>2
<1> QED
  BY <1>1, <1>3, <1>4 DEF Next

\* dequeue takes off what it returns: with one thread at the deque at a time,
\* front() and pop_front() see the same message.
THEOREM FrontIsKeptAlways == Spec => []FrontIsKept
<1>1. Init => FrontIsKept
  BY DEF Init, FrontIsKept, Threads
<1> QED
  BY <1>1, FrontIsKeptStep, QueueInvariant, DequeIsLocked, PTL DEF Spec

-----------------------------------------------------------------------------
\* A step of the queue is a Put, a Take, or invisible to its users.  The Take
\* is where the mutex and the count are needed: what was read is what is taken off.
LEMMA StepIsFifoStep ==
  TypeOK /\ FrontIsKept /\ [Next]_vars => [Fifo!Next]_(Fifo!vars)
<1> SUFFICES ASSUME TypeOK, FrontIsKept, [Next]_vars
             PROVE [Fifo!Next]_(Fifo!vars)
  OBVIOUS
<1> USE DEF Fifo!vars
<1>1. CASE UNCHANGED vars
  BY <1>1 DEF vars
<1>2. ASSUME NEW p \in Producers, Enqueue(p) PROVE [Fifo!Next]_(Fifo!vars)
  <2>1. CASE PushBack(p)
    <3>1. <<p, sent[p]>> \in Messages
      BY <2>1, PushedIsMessage DEF PushBack
    <3>2. Fifo!Put(<<p, sent[p]>>)
      BY <2>1 DEF PushBack, Fifo!Put
    <3> QED
      BY <3>1, <3>2 DEF Fifo!Next
  <2>2. CASE EnqueueCall(p) \/ Lock(p) \/ UnlockPushed(p) \/ Post(p)
    BY <2>2 DEF EnqueueCall, Lock, UnlockPushed, Post
  <2> QED
    BY <1>2, <2>1, <2>2 DEF Enqueue
<1>3. ASSUME NEW c \in Consumers, Dequeue(c) PROVE [Fifo!Next]_(Fifo!vars)
  <2>1. CASE PopFront(c)
    <3>1. m_messages # <<>> /\ msg[c] = Head(m_messages)
      BY <2>1 DEF PopFront, FrontIsKept
    <3>2. Fifo!Take
      BY <2>1, <3>1 DEF PopFront, Fifo!Take
    <3> QED
      BY <3>2 DEF Fifo!Next
  <2>2. CASE WaitCall(c) \/ Wake(c) \/ TimeOut(c) \/ Lock(c) \/ Front(c) \/ UnlockPopped(c)
    BY <2>2 DEF WaitCall, Wake, TimeOut, Lock, Front, UnlockPopped
  <2> QED
    BY <1>3, <2>1, <2>2 DEF Dequeue
<1> QED
  BY <1>1, <1>2, <1>3 DEF Next

\* The queue built from deque, mutex and semaphore implements the FIFO queue
\* with indivisible put and take.
THEOREM QueueImplementsFifo == Spec => ImplementsFifo
<1>1. Init => Fifo!Init
  BY DEF Init, Fifo!Init
<1> QED
  BY <1>1, StepIsFifoStep, TypeCorrect, FrontIsKeptAlways, PTL
     DEF Spec, ImplementsFifo, Fifo!Spec
=============================================================================
