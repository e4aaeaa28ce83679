------------------------------ MODULE FiniteSum ------------------------------
(***************************************************************************)
(* Sums of a function over a range of the integers, as a recursive         *)
(* function: what a loop "total += f[i]" adds up.                          *)
(***************************************************************************)
EXTENDS Integers

(* f[a] + ... + f[b], and 0 for b = a - 1.                                  *)
SumOver(f, a, b) ==
  LET sum[n \in 0..(b - a + 1)] == IF n = 0 THEN 0 ELSE sum[n - 1] + f[a + n - 1]
  IN  sum[b - a + 1]
=============================================================================
