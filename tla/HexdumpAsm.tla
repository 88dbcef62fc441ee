----------------------------- MODULE HexdumpAsm -----------------------------
(***************************************************************************)
(* The same hex dump in assembly language (src/02ass/asm_hexmain.S,        *)
(* asm_hexfuncs.S).  A step is one turn of the code at a label of main.    *)
(* n, position and i are the registers r14, r13 and rbx.  The printable    *)
(* characters take the place of the bytes in sbuf, which keeps what is     *)
(* behind them.                                                            *)
(***************************************************************************)
EXTENDS Powers, Sequences

CONSTANTS Width, Digits, Bytes, MaxReads

VARIABLES pc, n, position, i, sbuf, line, reads, out,
          rdi        \* the low byte, and whether a higher bit is set

vars == <<pc, n, position, i, sbuf, line, reads, out, rdi>>

C == INSTANCE Hexdump WITH words <- sbuf

Buffer == C!Buffer
NoLine == C!NoLine

\* The system calls do what they do in C, but read returns a negative error number.
Errno == -5
hex_read == C!hex_read(Errno)
hex_write_string(buf) == C!hex_write_string(buf)

\* write is called with 1 in rdi, read with 0.
Written == [high |-> FALSE, low |-> 1]
Read0 == [high |-> FALSE, low |-> 0]

Init ==
  /\ pc = "read" /\ n = 0 /\ position = 0 /\ i = 0
  /\ sbuf = [k \in Buffer |-> 0]
  /\ line = NoLine /\ reads = <<>> /\ out = <<>>
  /\ rdi = [high |-> TRUE, low |-> 0]

-----------------------------------------------------------------------------
(* asm_hexfuncs.S *)

\* A register of so many digits, taken as a signed number.
Signed(v, digits) == IF 2 * v >= Pow(16, digits) THEN v - Pow(16, digits) ELSE v

\* sarb and sarl repeat the sign; and with 15 takes the last digit.
LastDigit(v, digits, shifts) == (Signed(v, digits) \div Pow(16, shifts)) % 16

HexChar(digit) == IF digit < 10 THEN digit + 48 ELSE digit + 87

\* edi is the lower half of r13.
hex_format_offset(offset) ==
  LET edi == offset % Pow(16, Digits)
  IN [k \in 1..Digits |-> HexChar(LastDigit(edi, Digits, Digits - k))]

hex_format_byte_as_hex(dil) == [k \in 1..2 |-> HexChar(LastDigit(dil, 2, 2 - k))]

\* The first comparison is of the low byte, as a signed number, the second of
\* the whole register.
hex_to_printable(reg) ==
  IF Signed(reg.low, 2) < 32 \/ reg.high \/ reg.low >= 127 THEN 46 ELSE reg.low

-----------------------------------------------------------------------------
(* asm_hexmain.S *)

FirstRead ==
  /\ pc = "read"
  /\ hex_read
  /\ rdi' = Read0
  /\ pc' = ".Ltop"
  /\ UNCHANGED <<position, i, line, out>>

Top ==
  /\ pc = ".Ltop"
  /\ IF n = 0
     THEN pc' = ".Ldone" /\ UNCHANGED <<line, i, rdi>>
     ELSE /\ line' = [NoLine EXCEPT !.offset = hex_format_offset(position)]
          /\ i' = 0
          /\ rdi' = Written
          /\ pc' = ".LformatAsHexCont"
  /\ UNCHANGED <<n, position, sbuf, reads, out>>

FormatAsHex ==
  /\ pc = ".LformatAsHexCont"
  /\ IF i >= n
     THEN pc' = ".LfillSpace" /\ UNCHANGED <<line, i, rdi>>
     ELSE /\ line' = [line EXCEPT !.hex = Append(@, hex_format_byte_as_hex(sbuf[i]))]
          /\ i' = i + 1
          /\ rdi' = Written
          /\ UNCHANGED pc
  /\ UNCHANGED <<n, position, sbuf, reads, out>>

\* The counter goes on from where the bytes ended.  After the last blank one
\* space is written, which leaves 1 in rdi.
FillSpace ==
  /\ pc = ".LfillSpace"
  /\ rdi' = Written
  /\ IF i >= Width
     THEN i' = 0 /\ pc' = ".LstoreWords" /\ UNCHANGED line
     ELSE line' = [line EXCEPT !.pad = @ + 1] /\ i' = i + 1 /\ UNCHANGED pc
  /\ UNCHANGED <<n, position, sbuf, reads, out>>

\* Fault: jg instead of jge.
StoreOneMore ==
  /\ pc = ".LstoreWords"
  /\ IF i > n
     THEN pc' = ".LprintWords" /\ UNCHANGED <<sbuf, i, rdi>>
     ELSE LET reg == [rdi EXCEPT !.low = sbuf[i]]
          IN /\ sbuf' = [sbuf EXCEPT ![i] = hex_to_printable(reg)]
             /\ rdi' = reg
             /\ i' = i + 1
             /\ UNCHANGED pc
  /\ UNCHANGED <<n, position, line, reads, out>>

\* movb loads the low byte of rdi, and nothing else of it.
StoreWords ==
  /\ pc = ".LstoreWords"
  /\ IF i >= n
     THEN pc' = ".LprintWords" /\ UNCHANGED <<sbuf, i, rdi>>
     ELSE LET reg == [rdi EXCEPT !.low = sbuf[i]]
          IN /\ sbuf' = [sbuf EXCEPT ![i] = hex_to_printable(reg)]
             /\ rdi' = reg
             /\ i' = i + 1
             /\ UNCHANGED pc
  /\ UNCHANGED <<n, position, line, reads, out>>

\* Fault: the text is not ended, what an earlier line left behind it is printed.
PrintUnended ==
  /\ pc = ".LprintWords"
  /\ out' = Append(out, [line EXCEPT !.text = hex_write_string(sbuf)])
  /\ rdi' = Written
  /\ pc' = "again"
  /\ UNCHANGED <<sbuf, n, position, i, line, reads>>

PrintWords ==
  /\ pc = ".LprintWords"
  /\ sbuf' = [sbuf EXCEPT ![i] = 0]
  /\ out' = Append(out, [line EXCEPT !.text = hex_write_string(sbuf')])
  /\ rdi' = Written
  /\ pc' = "again"
  /\ UNCHANGED <<n, position, i, line, reads>>

ReadAgain ==
  /\ pc = "again"
  /\ hex_read
  /\ position' = position + Width
  /\ rdi' = Read0
  /\ pc' = ".Ltop"
  /\ UNCHANGED <<i, line, out>>

Step == Top \/ FormatAsHex \/ FillSpace \/ StoreWords \/ PrintWords
Next == FirstRead \/ ReadAgain \/ Step
=============================================================================
