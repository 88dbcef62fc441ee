---------------------------- MODULE MCChatServer ----------------------------
(* The clients of the instances TLC checks.                                  *)
EXTENDS ChatServer
CONSTANTS r1, r2, s1, s2, lobby, attic

OneReceiver == {r1}
TwoReceivers == {r1, r2}
OneSender == {s1}
TwoSenders == {s1, s2}
OneName == {lobby}
TwoNames == {lobby, attic}

\* Which clients may stop reading or go
Everybody == Clients
ReceiverAndSender == {r1, s1}

\* Which messages are too long to be delivered: none, the one the second
\* sender can send after it has joined.
NoMessages == {}
OfSecondSender == {<<s2, 2>>}
=============================================================================
