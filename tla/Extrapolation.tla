---------------------------- MODULE Extrapolation ----------------------------
(***************************************************************************)
(* ode-iterator/Bulirsch-Stoer.hpp: what BulirschStoer::iterate calculates, *)
(* for a particle system (with either leapfrog) and for a function.  The   *)
(* choice of the order, which BulirschStoer models, is left open here: an  *)
(* attempt may end at any column.                                          *)
(*                                                                         *)
(* The state is that of a body moved by another one's position, which      *)
(* falls freely, and the time: a system whose solution is a polynomial, so *)
(* that the numbers modulo a prime know it.  The function is one of the    *)
(* state alone and ignores its argument time.                              *)
(***************************************************************************)
EXTENDS PrimeField, Sequences

CONSTANTS
  BsDepth,      (* max_depth, 7 by default                                  *)
  BsStarts,     (* the states the first step may start from                 *)
  BsLengths,    (* the step lengths                                         *)
  BsSteps       (* the bound on the calls of iterate                        *)

(* Two positions, two velocities and the time.                              *)
States == [1..5 -> Field]

ASSUME ExtrapolationAssumption ==
  /\ BsDepth \in 1..10
  /\ BsStarts \subseteq States
  /\ BsLengths \subseteq Field
  /\ BsSteps \in Nat

VARIABLES
  rowsBy,       (* "DKD", "KDK" or "function", never changed                *)
  bsPc,         (* "idle" or "columns"                                      *)
  bsStep,       (* the calls so far                                         *)
  bsState,      (* the particles, or the data of the function               *)
  input_,       (* the state the step began with                            *)
  bsLength,     (* iter_h                                                   *)
  column,       (* the columns done in this attempt                         *)
  extrap_list_

bsVars == <<rowsBy, bsPc, bsStep, bsState, input_, bsLength, column, extrap_list_>>

Origin == [i \in 1..5 |-> 0]

(* s + t * d                                                                *)
Moved(s, d, t) == [i \in 1..5 |-> (s[i] + t * d[i]) % P]

-----------------------------------------------------------------------------
(* The sub-steps of a row.                                                  *)

Accelerations(s) == <<0, 0, s[2], 1, 0>>

Velocities(s) == <<s[3], s[4], 0, 0, 1>>

Rates(s) == Moved(Velocities(s), Accelerations(s), 1)

DriftBy(s, t) == Moved(s, Velocities(s), t)

KickBy(s, t) == Moved(s, Accelerations(s), t)

(* f applied n times.                                                       *)
Repeated(f(_), n, s) ==
  LET after[i \in 0..n] == IF i = 0 THEN s ELSE f(after[i - 1]) IN after[n]

half == Reciprocal(2)

DriftKickDrift(s, h, n) ==
  LET pair(x) == DriftBy(KickBy(x, h), h)
  IN  DriftBy(KickBy(Repeated(pair, n - 1, DriftBy(s, half * h)), h), half * h)

KickDriftKick(s, h, n) ==
  LET pair(x) == KickBy(DriftBy(x, h), h)
  IN  KickBy(DriftBy(Repeated(pair, n - 1, KickBy(s, half * h)), h), half * h)

(* The modified midpoint rule, data_mid and data_out changing places.       *)
Midpoint(s, h, n) ==
  LET leap(x) == [mid |-> x.out, out |-> Moved(x.mid, Rates(x.out), 2 * h)]
      last == Repeated(leap, n - 1, [mid |-> s, out |-> Moved(s, Rates(s), h)])
  IN  Moved(Origin, Moved(Moved(last.mid, Rates(last.out), h), last.out, 1), half)

(* The sub-steps of each column, for a depth below 11.                      *)
h_(i) == <<1, 2, 3, 5, 8, 12, 17, 25, 36, 51, 73>>[i + 1]

(* What the methods divide by is not 0 modulo P, as it is not with real     *)
(* numbers.                                                                 *)
ASSUME DivisorsAssumption ==
  /\ P > 4
  /\ \A i \in 0..BsDepth : h_(i) % P # 0
  /\ \A i, j \in 0..BsDepth : i # j => (h_(i) * h_(i) - h_(j) * h_(j)) % P # 0

(* integrate_by_n_steps: the increment of the particles, or the new data of *)
(* the function.                                                            *)
RowOf(s, c) ==
  LET n == h_(c)
      h == (bsLength * Reciprocal(n % P)) % P
  IN  CASE rowsBy = "DKD"      -> Moved(DriftKickDrift(s, h, n), s, -1)
        [] rowsBy = "KDK"      -> Moved(KickDriftKick(s, h, n), s, -1)
        [] rowsBy = "function" -> Midpoint(s, h, n)

-----------------------------------------------------------------------------
(* The table.                                                               *)

(* Mutant of table_coef: the rows counted from the other end.               *)
table_coefFromFirst(i, j) ==
  LET ni2 == h_(i) * h_(i)
      nj2 == h_(j) * h_(j)
  IN  nj2 * Reciprocal((ni2 - nj2) % P)

table_coef(i, j) ==
  LET ni2 == h_(i) * h_(i)
      nj2 == h_(i - j - 1) * h_(i - j - 1)
  IN  nj2 * Reciprocal((ni2 - nj2) % P)

(* extrapolate, in place from the newest row to the oldest.                 *)
extrapolate(list, k_) ==
  LET new[j \in 0..k_] ==
        IF j = k_ THEN list[k_]
        ELSE Moved(new[j + 1], Moved(new[j + 1], list[j], -1), table_coef(k_, k_ - j - 1))
  IN  [j \in 0..BsDepth |-> IF j <= k_ THEN new[j] ELSE list[j]]

-----------------------------------------------------------------------------
BsInit ==
  /\ rowsBy \in {"DKD", "KDK", "function"}
  /\ bsPc = "idle"
  /\ bsStep = 0
  /\ bsState \in BsStarts
  /\ input_ = Origin
  /\ bsLength = 0
  /\ column = 0
  /\ extrap_list_ = [c \in 0..BsDepth |-> Origin]

BsBegin ==
  /\ bsPc = "idle" /\ bsStep < BsSteps
  /\ bsPc' = "columns"
  /\ bsStep' = bsStep + 1
  /\ input_' = bsState
  /\ bsLength' \in BsLengths
  /\ column' = 0
  /\ UNCHANGED <<rowsBy, bsState, extrap_list_>>

(* A row and its extrapolation with those before it.                        *)
BsColumn ==
  /\ bsPc = "columns" /\ column <= BsDepth
  /\ extrap_list_' =
       extrapolate([extrap_list_ EXCEPT ![column] = RowOf(input_, column)], column)
  /\ column' = column + 1
  /\ UNCHANGED <<rowsBy, bsPc, bsStep, bsState, input_, bsLength>>

Result ==
  IF rowsBy = "function" THEN extrap_list_[0] ELSE Moved(input_, extrap_list_[0], 1)

BsAccept ==
  /\ bsPc = "columns" /\ column >= 2
  /\ bsState' = Result
  /\ input_' = IF rowsBy = "function" THEN input_ ELSE Result
  /\ bsPc' = "idle"
  /\ UNCHANGED <<rowsBy, bsStep, bsLength, column, extrap_list_>>

(* Another length; never for a function, whose every step is a first step.  *)
BsReject ==
  /\ bsPc = "columns" /\ column >= 2 /\ rowsBy # "function"
  /\ bsLength' \in BsLengths
  /\ column' = 0
  /\ UNCHANGED <<rowsBy, bsPc, bsStep, bsState, input_, extrap_list_>>

(* The columns have run out: the same length again.                         *)
BsRepeat ==
  /\ bsPc = "columns" /\ column >= 2
  /\ column' = 0
  /\ UNCHANGED <<rowsBy, bsPc, bsStep, bsState, input_, bsLength, extrap_list_>>

BsNext == BsBegin \/ BsColumn \/ BsAccept \/ BsReject \/ BsRepeat

-----------------------------------------------------------------------------
(* The value at 0 of the polynomial in the square of the sub-step through   *)
(* the rows a..b (Lagrange's formula).                                      *)
AtZero(a, b) ==
  LET weight(i) ==
        ProductOver(
          [m \in a..b |->
             IF m = i THEN 1
             ELSE h_(i) * h_(i) * Reciprocal((h_(i) * h_(i) - h_(m) * h_(m)) % P)],
          a, b)
      value[i \in a..b] == Moved(Origin, RowOf(input_, i), weight(i))
  IN  [x \in 1..5 |-> SumOver([i \in a..b |-> value[i][x]], a, b) % P]

(* Where the system is after the time t.                                    *)
Solution(s, t) ==
  LET over(n) == Reciprocal(n) * t
      t2 == over(2) * t
      t3 == (over(3) * t2) % P
      t4 == (over(4) * t3) % P
  IN  <<(s[1] + s[3] * t + s[2] * t2 + s[4] * t3 + t4) % P,
        (s[2] + s[4] * t + t2) % P,
        (s[3] + s[2] * t + s[4] * t2 + t3) % P,
        (s[4] + t) % P,
        (s[5] + t) % P>>

(* The two results whose difference is the error of the step are the values *)
(* at 0 of the polynomials through all rows and through all but the first,  *)
(* though each column overwrites the one before and a rejected attempt or   *)
(* an earlier step leaves its own rows in the list.  The rows of a leapfrog *)
(* are the solution and a multiple of the square of the sub-step, so that   *)
(* two of them give the solution; those of the midpoint rule are one        *)
(* polynomial for odd numbers of sub-steps and another for even ones, and   *)
(* the sequence has both.                                                   *)
ExtrapolatesToZero ==
  bsPc = "columns" /\ column >= 2 =>
    /\ extrap_list_[0] = AtZero(0, column - 1)
    /\ extrap_list_[1] = AtZero(1, column - 1)
    /\ rowsBy # "function" => Result = Solution(input_, bsLength)
=============================================================================
