---------------------------- MODULE MCConnection ----------------------------
(* One direction by itself, and messages whose lines are as long as the      *)
(* buffer of receive or shorter.                                             *)
EXTENDS Connection

MCLinks == {<<"sender", "receiver">>}
MCMessages == {[tag |-> <<"x">>, data |-> data] : data \in {<<"x">>, <<"x", "x", "x">>}}

MCNext ==
  \/ \E d \in Links :
       \/ \E msg \in MCMessages : CallSend(d, msg)
       \/ Transfer(d)
  \/ \E e \in Ends : Close(e)

MCSpec == Init /\ [][MCNext]_connections
=============================================================================
