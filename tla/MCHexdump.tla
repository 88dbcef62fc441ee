----------------------------- MODULE MCHexdump -----------------------------
(* Both programs, one of them in each behaviour, dump all inputs of two reads *)
(* of bytes from both sides of every comparison the code makes.               *)
EXTENDS Integers, Sequences

CONSTANTS Width, Digits, Bytes, MaxReads

ASSUME HexAssumption ==
  /\ Width \in Nat \ {0} /\ Digits \in Nat \ {0} /\ MaxReads \in Nat
  /\ Bytes \subseteq 0..255

VARIABLES program, pc, n, position, i, sbuf, words, line, reads, out, rdi

vars == <<program, pc, n, position, i, sbuf, words, line, reads, out, rdi>>

InC == INSTANCE Hexdump
InAsm == INSTANCE HexdumpAsm
Lines == INSTANCE HexLines

\* The conversions of the two programs are those of HexLines, for every byte and
\* every offset: by the sign of a number, by a shift that repeats it and by the
\* bits above the lowest byte they do not differ.
ConversionsAgree ==
  /\ \A offset \in Nat :
       /\ InC!hex_format_offset(offset) = Lines!Hex(offset, Digits)
       /\ InAsm!hex_format_offset(offset) = Lines!Hex(offset, Digits)
  /\ \A byte \in 0..255 :
       /\ InC!hex_format_byte_as_hex(byte) = Lines!Hex(byte, 2)
       /\ InAsm!hex_format_byte_as_hex(byte) = Lines!Hex(byte, 2)
       /\ InC!hex_to_printable(byte) = Lines!Printable(byte)
       /\ InAsm!hex_to_printable([high |-> FALSE, low |-> byte]) = Lines!Printable(byte)

Init ==
  \/ program = "C" /\ InC!Init /\ rdi = InAsm!Read0
  \/ program = "assembly" /\ InAsm!Init /\ words = <<>>

Run(c, asm) ==
  \/ program = "C" /\ c /\ UNCHANGED <<program, rdi>>
  \/ program = "assembly" /\ asm /\ UNCHANGED <<program, words>>

Spec ==
  /\ Init
  /\ [][Run(InC!Next, InAsm!Next)]_vars
  /\ WF_vars(Run(InC!Step, InAsm!Step))

-----------------------------------------------------------------------------
\* The loop counter, and with it every access to the buffers, stays within them.
TypeOK ==
  /\ i \in -1..Width
  /\ n \in {-1, InAsm!Errno} \cup 0..Width
  /\ sbuf \in [0..Width -> 0..255]
  /\ program = "C" => words \in [0..Width -> 0..255]
  /\ position \in {k * Width : k \in 0..MaxReads}
  /\ line.pad \in 0..Width + 1
  /\ Len(reads) <= MaxReads /\ Len(out) <= Len(reads)

\* Both programs print, for every read, the line a hex dump promises, and print
\* it in the end: nothing of the bytes of an earlier read, no difference by the
\* sign of a byte, a shift or the rest of a register.
ImplementsHexLines == Lines!Spec
=============================================================================
