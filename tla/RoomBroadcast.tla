--------------------------- MODULE RoomBroadcast ---------------------------
(***************************************************************************)
(* What the chat server promises to its receivers.  Under each name there  *)
(* is one conversation, a sequence of messages.  A receiver joins one      *)
(* conversation, and from then on is given its messages, in their order,   *)
(* each once, without a gap: all receivers of a room read the same text.   *)
(***************************************************************************)
EXTENDS Naturals, Sequences

CONSTANTS Receivers, RoomNames, Message,
          Nowhere       \* the room of a receiver that has joined none

VARIABLES conversation, \* everything said under a name, oldest first
          joined,       \* the room name each receiver has joined
          start,        \* how much had been said when it did
          delivered     \* what it has been given since

vars == <<conversation, joined, start, delivered>>

Init == /\ conversation = [n \in RoomNames |-> <<>>]
        /\ joined = [r \in Receivers |-> Nowhere]
        /\ start = [r \in Receivers |-> 0]
        /\ delivered = [r \in Receivers |-> <<>>]

Join(r, n) ==
  /\ joined[r] = Nowhere
  /\ joined' = [joined EXCEPT ![r] = n]
  /\ start' = [start EXCEPT ![r] = Len(conversation[n])]
  /\ UNCHANGED <<conversation, delivered>>

Say(n, m) ==
  /\ conversation' = [conversation EXCEPT ![n] = Append(@, m)]
  /\ UNCHANGED <<joined, start, delivered>>

Deliver(r) ==
  /\ joined[r] # Nowhere
  /\ LET said == conversation[joined[r]]
         next == start[r] + Len(delivered[r]) + 1
     IN /\ next <= Len(said)
        /\ delivered' = [delivered EXCEPT ![r] = Append(@, said[next])]
  /\ UNCHANGED <<conversation, joined, start>>

Next == \/ \E r \in Receivers, n \in RoomNames : Join(r, n)
        \/ \E n \in RoomNames, m \in Message : Say(n, m)
        \/ \E r \in Receivers : Deliver(r)

Spec == Init /\ [][Next]_vars
============================================================================
