------------------------------ MODULE HexLines ------------------------------
(***************************************************************************)
(* What a hex dump promises: one line for every read, with the offset, the *)
(* bytes that were read in hexadecimal, blanks up to the next column, and  *)
(* the bytes again as text.  The offset counts reads, not bytes: a read    *)
(* that gives less than a whole line moves it on by a whole line all the   *)
(* same.                                                                   *)
(***************************************************************************)
EXTENDS Powers, Sequences

CONSTANTS Width,     \* bytes in a whole line
          Digits,    \* digits of an offset
          Bytes,     \* the bytes of the input
          MaxReads   \* bound: lines dumped

VARIABLES reads,     \* history: the bytes of every read; none if it failed
          out        \* the lines written

\* A number in so many hexadecimal digits, as ASCII codes.
Hex(v, digits) ==
  LET code == <<48, 49, 50, 51, 52, 53, 54, 55, 56, 57, 97, 98, 99, 100, 101, 102>>
  IN [j \in 1..digits |-> code[((v \div Pow(16, digits - j)) % 16) + 1]]

Printable(byte) == IF byte \in 32..126 THEN byte ELSE 46

LineOf(k, bytes, pad) ==
  [offset |-> Hex(k * Width, Digits),
   hex |-> [j \in DOMAIN bytes |-> Hex(bytes[j], 2)],
   pad |-> pad,
   text |-> [j \in DOMAIN bytes |-> Printable(bytes[j])]]

Input == UNION {[1..k -> Bytes] : k \in 0..Width}

Init == reads = <<>> /\ out = <<>>

Read ==
  /\ Len(out) = Len(reads) /\ Len(reads) < MaxReads
  /\ \E bytes \in Input : reads' = Append(reads, bytes)
  /\ UNCHANGED out

\* The line of a failed read has no bytes; how many blanks it has is left open.
WriteLine ==
  /\ Len(out) < Len(reads)
  /\ LET bytes == reads[Len(reads)]
     IN \E pad \in 0..Width + 1 :
          /\ bytes # <<>> => pad = Width - Len(bytes)
          /\ out' = Append(out, LineOf(Len(out), bytes, pad))
  /\ UNCHANGED reads

Safety == Init /\ [][Read \/ WriteLine]_<<reads, out>>

Spec == Safety /\ WF_<<reads, out>>(WriteLine)
=============================================================================
