------------------------------ MODULE Hexdump ------------------------------
(***************************************************************************)
(* The hex dump in C (src/02ass/c_hexmain.c, c_hexfuncs.c).  A step is one *)
(* turn of a loop of main, or what main does between two loops.  Writing   *)
(* to standard output is taken to succeed, as the program does.            *)
(***************************************************************************)
EXTENDS Powers, Sequences

CONSTANTS Width, Digits, Bytes, MaxReads   \* as in HexLines

VARIABLES pc,
          n,         \* what hex_read has returned
          position,
          i,         \* the variable of the loop
          sbuf,      \* the bytes read, with room for a NUL
          words,     \* printedWords
          line,      \* the line being written
          reads, out \* the bytes of every read, and the lines written

vars == <<pc, n, position, i, sbuf, words, line, reads, out>>

Buffer == 0..Width
NoLine == [offset |-> <<>>, hex |-> <<>>, pad |-> 0, text |-> <<>>]

Init ==
  /\ pc = "read" /\ n = 0 /\ position = 0 /\ i = 0
  /\ sbuf = [k \in Buffer |-> 0] /\ words = [k \in Buffer |-> 0]
  /\ line = NoLine /\ reads = <<>> /\ out = <<>>

-----------------------------------------------------------------------------
(* c_hexfuncs.c.  Characters are ASCII codes. *)

HexChar(digit) == IF digit < 10 THEN digit + 48 ELSE digit + 87

\* The last digit first, and a shift by four bits after each.
hex_format_offset(offset) ==
  [k \in 1..Digits |-> HexChar((offset \div Pow(16, Digits - k)) % 16)]

hex_format_byte_as_hex(byteval) ==
  [k \in 1..2 |-> HexChar((byteval \div Pow(16, 2 - k)) % 16)]

hex_to_printable(byteval) == IF byteval >= 32 /\ byteval < 127 THEN byteval ELSE 46

\* The characters of the buffer that are written: those before the first NUL.
hex_write_string(buf) ==
  LET nul == CHOOSE k \in Buffer : buf[k] = 0 /\ \A j \in Buffer : buf[j] = 0 => k <= j
  IN [k \in 1..nul |-> buf[k - 1]]

\* hex_read: what read gives is at the beginning of the buffer, the rest of it
\* stays.  At the end of the file there is nothing to dump.
hex_read(error) ==
  \/ /\ Len(reads) < MaxReads
     /\ \E k \in 1..Width : \E bytes \in [1..k -> Bytes] :
          /\ n' = k
          /\ sbuf' = [j \in Buffer |-> IF j < k THEN bytes[j + 1] ELSE sbuf[j]]
          /\ reads' = Append(reads, bytes)
  \/ /\ Len(reads) < MaxReads
     /\ n' = error /\ reads' = Append(reads, <<>>) /\ UNCHANGED sbuf
  \/ n' = 0 /\ UNCHANGED <<reads, sbuf>>

-----------------------------------------------------------------------------
(* main *)

FirstRead ==
  /\ pc = "read"
  /\ hex_read(-1)
  /\ pc' = "top"
  /\ UNCHANGED <<position, i, words, line, out>>

Top ==
  /\ pc = "top" /\ n # 0
  /\ line' = [NoLine EXCEPT !.offset = hex_format_offset(position)]
  /\ i' = 0
  /\ pc' = "hex"
  /\ UNCHANGED <<n, position, sbuf, words, reads, out>>

Done ==
  /\ pc = "top" /\ n = 0
  /\ pc' = "done"
  /\ UNCHANGED <<n, position, i, sbuf, words, line, reads, out>>

FormatAsHex ==
  /\ pc = "hex"
  /\ IF i < n
     THEN /\ line' = [line EXCEPT !.hex = Append(@, hex_format_byte_as_hex(sbuf[i]))]
          /\ i' = i + 1
          /\ UNCHANGED pc
     ELSE i' = n /\ pc' = "fill" /\ UNCHANGED line
  /\ UNCHANGED <<n, position, sbuf, words, reads, out>>

FillSpace ==
  /\ pc = "fill"
  /\ IF i < Width
     THEN line' = [line EXCEPT !.pad = @ + 1] /\ i' = i + 1 /\ UNCHANGED <<pc, words>>
     ELSE i' = 0 /\ words' = [k \in Buffer |-> 0] /\ pc' = "words" /\ UNCHANGED line
  /\ UNCHANGED <<n, position, sbuf, reads, out>>

StoreWords ==
  /\ pc = "words"
  /\ IF i < n
     THEN words' = [words EXCEPT ![i] = hex_to_printable(sbuf[i])] /\ i' = i + 1 /\ UNCHANGED pc
     ELSE pc' = "print" /\ UNCHANGED <<words, i>>
  /\ UNCHANGED <<n, position, sbuf, line, reads, out>>

PrintWords ==
  /\ pc = "print"
  /\ out' = Append(out, [line EXCEPT !.text = hex_write_string(words)])
  /\ pc' = "again"
  /\ UNCHANGED <<n, position, i, sbuf, words, line, reads>>

ReadAgain ==
  /\ pc = "again"
  /\ hex_read(-1)
  /\ position' = position + Width
  /\ pc' = "top"
  /\ UNCHANGED <<i, words, line, out>>

Step == Top \/ Done \/ FormatAsHex \/ FillSpace \/ StoreWords \/ PrintWords
Next == FirstRead \/ ReadAgain \/ Step
=============================================================================
