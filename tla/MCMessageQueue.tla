--------------------------- MODULE MCMessageQueue ---------------------------
(* Two senders broadcast two messages each into one queue, two threads take  *)
(* them out.                                                                 *)
EXTENDS MessageQueue
CONSTANTS p1, p2, c1, c2

MCProducers == {p1, p2}
MCConsumers == {c1, c2}
=============================================================================
