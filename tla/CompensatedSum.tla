---------------------------- MODULE CompensatedSum ----------------------------
(***************************************************************************)
(* kahan-number.hpp: Kahan, Neumaier and Klein, numbers that carry what    *)
(* their last addition rounded off into the next one.  The precise         *)
(* simulators keep positions, velocities and the time in Kahan numbers.    *)
(*                                                                         *)
(* T is a floating-point format with so many binary digits that there are  *)
(* 2^digits = Mantissas numbers from 0 on whose last digit is the unit; it *)
(* rounds to the nearest number and ties to the even one, and neither      *)
(* overflows nor underflows.                                               *)
(***************************************************************************)
EXTENDS Integers

CONSTANTS
  Mantissas,    (* 2 to the number of binary digits of T                    *)
  Summands,     (* numbers of T that are added and subtracted               *)
  SumLimit      (* the bound on the sums                                    *)

Abs(x) == IF x < 0 THEN -x ELSE x

(* The weight of the last digit of a number of this size.                   *)
Ulp(size) ==
  LET ulp[n \in 0..size] == IF n < Mantissas THEN 1 ELSE 2 * ulp[n \div 2]
  IN  ulp[size]

(* The multiple of u nearest to x, of two the even one.                     *)
Nearest(x, u) ==
  LET q == x \div u
      rest == x - q * u
  IN  IF 2 * rest < u \/ (2 * rest = u /\ q % 2 = 0) THEN q * u ELSE (q + 1) * u

Round(x) == Nearest(x, Ulp(Abs(x)))

ASSUME CompensatedSumAssumption ==
  /\ Mantissas \in Nat /\ Mantissas >= 4 /\ Mantissas % 2 = 0
  /\ SumLimit \in Nat
  /\ Summands \subseteq Int /\ \A x \in Summands : Round(x) = x

VARIABLES
  sumType,      (* "Kahan", "Neumaier" or "Klein", never changed            *)
  number,       (* real, err and, in Klein, err_of_err                      *)
  due,          (* what the number should be: the summands, and what was    *)
                (* rounded off before they were added                       *)
  outgrown      (* a summand was larger than the number, which was not 0    *)

sumVars == <<sumType, number, due, outgrown>>

SumInit ==
  /\ sumType \in {"Kahan", "Neumaier", "Klein"}
  /\ number = [real |-> 0, err |-> 0, err_of_err |-> 0]
  /\ due = 0
  /\ outgrown = FALSE

-----------------------------------------------------------------------------
(* What rounding took from the sum of a and b: the smaller is added to what *)
(* is left of the larger.                                                   *)
RoundedOff(a, b) ==
  LET sum == Round(a + b)
  IN  IF Abs(b) < Abs(a) THEN Round(Round(a - sum) + b) ELSE Round(Round(b - sum) + a)

(* Mutant of KahanAdded: the error is added where it is to be subtracted.   *)
KahanAddedTwice(n, x) ==
  LET add == Round(x + n.err)
      sum == Round(n.real + add)
  IN  [real |-> sum, err |-> Round(Round(sum - n.real) - add), err_of_err |-> 0]

KahanAdded(n, x) ==
  LET add == Round(x - n.err)
      sum == Round(n.real + add)
  IN  [real |-> sum, err |-> Round(Round(sum - n.real) - add), err_of_err |-> 0]

NeumaierAdded(n, x) ==
  LET add == Round(x + n.err)
  IN  [real |-> Round(n.real + add), err |-> RoundedOff(n.real, add), err_of_err |-> 0]

KleinAdded(n, x) ==
  LET add == Round(n.err + n.err_of_err)
      sum == Round(x + add)
  IN  [real |-> Round(n.real + sum), err |-> RoundedOff(n.real, sum),
       err_of_err |-> RoundedOff(x, add)]

Added(n, x) ==
  CASE sumType = "Kahan"    -> KahanAdded(n, x)
    [] sumType = "Neumaier" -> NeumaierAdded(n, x)
    [] sumType = "Klein"    -> KleinAdded(n, x)

(* What the number stands for.                                              *)
Total(n) == IF sumType = "Kahan" THEN n.real - n.err ELSE n.real + n.err + n.err_of_err

(* What the first addition of the operator, of the summand or the error of  *)
(* the error, rounds off.                                                   *)
Lost(n, x) ==
  CASE sumType = "Kahan"    -> Round(x - n.err) - (x - n.err)
    [] sumType = "Neumaier" -> Round(x + n.err) - (x + n.err)
    [] sumType = "Klein"    -> Round(n.err + n.err_of_err) - (n.err + n.err_of_err)

(* += x, and -= of its opposite, which does the same.                       *)
Sum(x) ==
  /\ Abs(due + x) <= SumLimit
  /\ number' = Added(number, x)
  /\ due' = due + x + Lost(number, x)
  /\ outgrown' =
       (outgrown \/ (number.real # 0 /\ Abs(Round(x - number.err)) > Abs(number.real)))
  /\ UNCHANGED sumType

(* The number is assigned a T.                                              *)
Assign(x) ==
  /\ number' = [real |-> x, err |-> 0, err_of_err |-> 0]
  /\ due' = x
  /\ outgrown' = FALSE
  /\ UNCHANGED sumType

SumNext == \E x \in Summands : Sum(x) \/ Sum(-x) \/ Assign(x)

-----------------------------------------------------------------------------
(* However many summands are added, a number and its error together are     *)
(* their sum but for what was rounded off before the number itself was      *)
(* touched; and the number alone is nearest to it.  Kahan's needs that no   *)
(* summand is larger than the number, Neumaier's and Klein's do not.        *)
NothingRoundedOff ==
  ~(sumType = "Kahan" /\ outgrown) =>
    /\ Total(number) = due
    /\ 2 * Abs(number.err) <= Ulp(Abs(number.real))
=============================================================================
