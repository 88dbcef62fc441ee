----------------------------- MODULE MCUInt256 -----------------------------
(* All pairs of values of four words of two bits, written in binary digits.  *)
EXTENDS UInt256
=============================================================================
