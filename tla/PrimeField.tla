----------------------------- MODULE PrimeField -----------------------------
(***************************************************************************)
(* The numbers modulo a prime, in place of the real numbers where a method *)
(* rests on identities of sums, products and quotients: there they are     *)
(* exact, as they are with real numbers and not with rounded ones.         *)
(***************************************************************************)
EXTENDS FiniteSum

CONSTANT P      (* the prime                                                *)

ASSUME PrimeFieldAssumption == P \in Nat \ {0, 1} /\ \A d \in 2..(P - 1) : P % d # 0

Field == 0..(P - 1)

Inverses == [x \in Field \ {0} |-> CHOOSE y \in Field : (x * y) % P = 1]

Reciprocal(x) == Inverses[x]

(* f[a] * ... * f[b], and 1 for b = a - 1.                                  *)
ProductOver(f, a, b) ==
  LET product[n \in 0..(b - a + 1)] ==
        IF n = 0 THEN 1 ELSE (product[n - 1] * f[a + n - 1]) % P
  IN  product[b - a + 1]
=============================================================================
