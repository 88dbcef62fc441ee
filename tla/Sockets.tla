------------------------------- MODULE Sockets -------------------------------
(***************************************************************************)
(* open_clientfd and open_listenfd (src/05ass/csapp.c): a program walks    *)
(* the list of addresses that getaddrinfo gives it until one of them takes *)
(* its socket, the client's by connecting, the server's by binding.  A     *)
(* step is one library or system call.                                     *)
(***************************************************************************)
EXTENDS Integers

CONSTANT MaxAddresses    \* bound: the length of the list

ASSUME AddressesAssumption == MaxAddresses \in Nat \ {0}

Programs == {"client", "server"}

VARIABLES at,       \* the call a program makes next, or how it ended
          addrs,    \* how many addresses are left, the one being tried included
          fds       \* the descriptors the program has open

sockets == <<at, addrs, fds>>

InitSockets ==
  /\ at = [p \in Programs |-> "getaddrinfo"]
  /\ addrs = [p \in Programs |-> 0]
  /\ fds = [p \in Programs |-> 0]

Goto(p, call) == at' = [at EXCEPT ![p] = call]
Holding(p, n) == fds' = [fds EXCEPT ![p] = n]

Lookup(p) ==
  /\ at[p] = "getaddrinfo"
  /\ \/ Goto(p, "failed") /\ UNCHANGED addrs
     \/ Goto(p, "socket") /\ \E n \in 1..MaxAddresses : addrs' = [addrs EXCEPT ![p] = n]
  /\ UNCHANGED fds

\* p = p->ai_next
NextAddress(p) == addrs' = [addrs EXCEPT ![p] = @ - 1]

\* freeaddrinfo
Free(p) == addrs' = [addrs EXCEPT ![p] = 0]

OpenSocket(p) ==
  /\ at[p] = "socket"
  /\ \/ addrs[p] = 0 /\ Goto(p, "failed") /\ UNCHANGED <<addrs, fds>>
     \/ addrs[p] > 0 /\ NextAddress(p) /\ UNCHANGED <<at, fds>>
     \/ addrs[p] > 0 /\ Goto(p, "try") /\ Holding(p, fds[p] + 1) /\ UNCHANGED addrs

\* connect, which needs a server that listens, or setsockopt and bind
Try(p) ==
  /\ at[p] = "try"
  /\ \/ p = "client" /\ at["server"] = "open" /\ Goto(p, "open") /\ Free(p)
     \/ p = "server" /\ Goto(p, "listen") /\ Free(p)
     \/ Goto(p, "close") /\ UNCHANGED addrs
  /\ UNCHANGED fds

\* What a failed close leaves is unknown; the program gives up.
CloseFails(p) ==
  /\ Goto(p, "close failed")
  /\ \E n \in {fds[p] - 1, fds[p]} : Holding(p, n)

\* Fault: the next address is tried with the socket of this one still open.
TryAnother(p) ==
  /\ at[p] = "close"
  /\ \/ Goto(p, "socket") /\ NextAddress(p) /\ UNCHANGED fds
     \/ Goto(p, "close failed") /\ UNCHANGED <<addrs, fds>>

\* The address did not take the socket.
CloseTried(p) ==
  /\ at[p] = "close"
  /\ \/ Goto(p, "socket") /\ NextAddress(p) /\ Holding(p, fds[p] - 1)
     \/ /\ Goto(p, "close failed") /\ UNCHANGED addrs
        /\ \E n \in {fds[p] - 1, fds[p]} : Holding(p, n)

Listen(p) ==
  /\ p = "server" /\ at[p] = "listen"
  /\ \/ Goto(p, "open") /\ UNCHANGED fds
     \/ Goto(p, "failed") /\ Holding(p, fds[p] - 1)
     \/ CloseFails(p)
  /\ UNCHANGED addrs

OpenStep(p) == Lookup(p) \/ OpenSocket(p) \/ Try(p) \/ CloseTried(p) \/ Listen(p)

-----------------------------------------------------------------------------
SocketsOK ==
  /\ at \in [Programs -> {"getaddrinfo", "socket", "try", "close", "listen",
                          "open", "failed", "close failed"}]
  /\ addrs \in [Programs -> 0..MaxAddresses]
  /\ fds \in [Programs -> 0..1]

\* However many addresses refuse, a program that gets through holds the one
\* descriptor it goes on with, and one that gives up holds none; only a close
\* that fails can leave one behind.
NoStrayDescriptors ==
  \A p \in Programs :
    /\ at[p] \in {"open", "listen", "try", "close"} => fds[p] = 1
    /\ at[p] \in {"getaddrinfo", "socket", "failed"} => fds[p] = 0
=============================================================================
