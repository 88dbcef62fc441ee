------------------------------- MODULE Powers -------------------------------
(* The powers of a number, by multiplication: what the proofs of the shifts  *)
(* and of the digits in a number reason about.                               *)
EXTENDS Integers

Pow(b, n) ==
  LET p[k \in 0..n] == IF k = 0 THEN 1 ELSE b * p[k - 1]
  IN p[n]
=============================================================================
