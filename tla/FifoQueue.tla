----------------------------- MODULE FifoQueue -----------------------------
(***************************************************************************)
(* What the queue of src/05ass promises to the threads that use it: a      *)
(* message is put at the back in one indivisible step, and taken from the  *)
(* front in one indivisible step, never from an empty queue.               *)
(***************************************************************************)
EXTENDS Sequences

CONSTANT Message        \* the messages that can be put on the queue

VARIABLES queue,        \* the messages waiting, oldest first
          taken         \* the messages taken so far, in the order taken

vars == <<queue, taken>>

Init == /\ queue = <<>>
        /\ taken = <<>>

Put(m) == /\ queue' = Append(queue, m)
          /\ UNCHANGED taken

Take == /\ queue # <<>>
        /\ taken' = Append(taken, Head(queue))
        /\ queue' = Tail(queue)

Next == Take \/ \E m \in Message : Put(m)

Spec == Init /\ [][Next]_vars
============================================================================
