----------------------------- MODULE GaussRadau -----------------------------
(***************************************************************************)
(* integrator/Gauss-Radau.hpp: the tables of Radau and what the integrator *)
(* does to its coefficients, over the numbers modulo a prime.  There, as   *)
(* with real numbers, the identities behind the method are exact, and the  *)
(* tables of constants are the values of the recurrences below.            *)
(*                                                                         *)
(* The coefficients b and g are for one variable of the system; the code   *)
(* treats each variable the same.                                          *)
(***************************************************************************)
EXTENDS PrimeField, Sequences

CONSTANTS
  Stages,      (* final_point, 7 in the code: the nodes after the start     *)
  Node         (* h_: where each stage evaluates the derivative             *)

Stage == 0..(Stages - 1)

ASSUME GaussRadauAssumption ==
  /\ Stages \in 1..7
  /\ Node \in [Stage -> Field \ {0}]
  /\ \A m, n \in Stage : m # n => Node[m] # Node[n]

Difference(m, n) == (Node[m] - Node[n]) % P

-----------------------------------------------------------------------------
(* The tables.  est_b holds whole numbers and is copied.                    *)

EstTable ==
  <<1, 2, 1, 3, 3, 1, 4, 6, 4, 1, 5, 10, 10, 5, 1, 6, 15, 20, 15, 6, 1,
    7, 21, 35, 35, 21, 7, 1>>

est_b(n, j) == EstTable[(n * (n + 1)) \div 2 + j + 1]

(* The coefficients of the polynomial with the first n nodes as roots.      *)
g2b[n \in Stage] ==
  [j \in Stage |->
     CASE n < j -> 0
       [] n = 0 /\ j = 0 -> 1
       [] OTHER -> ((IF j = 0 THEN 0 ELSE g2b[n - 1][j - 1])
                     - Node[n - 1] * g2b[n - 1][j]) % P]

(* And of the powers in those polynomials.                                  *)
b2g[n \in Stage] ==
  [j \in Stage |->
     CASE n < j -> 0
       [] n = 0 /\ j = 0 -> 1
       [] OTHER -> ((IF j = 0 THEN 0 ELSE b2g[n - 1][j - 1])
                     + Node[j] * b2g[n - 1][j]) % P]

rs(n, j) ==
  LET d == [k \in Stage |-> Difference(n, k)]
  IN  IF j = 0 THEN Reciprocal((Node[n] * ProductOver(d, 0, n - 1)) % P)
               ELSE Reciprocal(ProductOver(d, j - 1, n - 1))

-----------------------------------------------------------------------------
(* b, g and old_b.                                                           *)

Coefficients == [Stage -> Field]

Tables == [b : Coefficients, g : Coefficients, old : Coefficients]

NoTables ==
  LET zero == [i \in Stage |-> 0] IN [b |-> zero, g |-> zero, old |-> zero]

transform_b2g(b) ==
  [i \in Stage |-> SumOver([j \in Stage |-> b[j] * b2g[j][i]], i, Stages - 1) % P]

(* update_b_table: one stage, for the difference dy of the derivative at    *)
(* its node and at the start.                                               *)
update_b_table(t, dy, n) ==
  LET known == SumOver([j \in Stage |-> t.g[j] * rs(n, j + 1)], 0, n - 1)
      new == (dy * rs(n, 0) - known) % P
      dg == new - t.g[n]
  IN  [b |-> [i \in Stage |-> IF i <= n THEN (t.b[i] + dg * g2b[n][i]) % P ELSE t.b[i]],
       g |-> [t.g EXCEPT ![n] = new],
       old |-> t.old]

(* correct: all stages in turn; the derivatives are evaluated for the       *)
(* coefficients as far as they are corrected, and may be anything.          *)
correct(t, dy) ==
  LET upTo[n \in 0..Stages] ==
        IF n = 0 THEN t ELSE update_b_table(upTo[n - 1], dy[n - 1], n - 1)
  IN  upTo[Stages]

power(q, n) == ProductOver([i \in 1..Stages |-> q], 1, n)

(* Mutant of extrapolated: the diagonal of est_b is left out.               *)
extrapolatedShort(b, q) ==
  [i \in Stage |->
     (power(q, i + 1) * SumOver([j \in Stage |-> b[j] * est_b(j, i)], i + 1, Stages - 1)) % P]

(* The coefficients of the next step if it continues the same polynomial.   *)
extrapolated(b, q) ==
  [i \in Stage |->
     (power(q, i + 1) * SumOver([j \in Stage |-> b[j] * est_b(j, i)], i, Stages - 1)) % P]

(* What the coefficients b become: the extrapolated ones, corrected by what *)
(* the prediction for this step was wrong.                                  *)
carried(t, old) == [i \in Stage |-> (old[i] + t.b[i] - t.old[i]) % P]

(* Mutant of predict: g stays as it was.                                    *)
predictOldG(t, q) ==
  LET old == extrapolated(t.b, q)
  IN  [b |-> carried(t, old), g |-> t.g, old |-> old]

predict(t, q) ==
  LET old == extrapolated(t.b, q)
  IN  [b |-> carried(t, old), g |-> transform_b2g(carried(t, old)), old |-> old]
=============================================================================
