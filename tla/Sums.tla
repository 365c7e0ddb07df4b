-------------------------------- MODULE Sums --------------------------------
(***************************************************************************)
(* The sum of the first n terms of a function on 1..n: what a SUM over the *)
(* rows of a table computes.  Written as a recursive function, so that     *)
(* SumTheorems can prove about it what TLC evaluates.                      *)
(***************************************************************************)
EXTENDS Integers

SumOf(term, n) ==
  LET s[k \in 0..n] == IF k = 0 THEN 0 ELSE s[k - 1] + term[k]
  IN  s[n]
=============================================================================
