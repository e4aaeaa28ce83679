------------------------------- MODULE IAS15 -------------------------------
(***************************************************************************)
(* ode-iterator/IAS15.hpp: the predictor-corrector loop over Gauss-Radau.  *)
(* A call of iterate corrects the coefficients until they converge, judges *)
(* the step by its error, and accepts it or starts again with a shorter    *)
(* one; a call of ConstOdeIterator with the same integrator corrects once. *)
(*                                                                         *)
(* A length is the number of times it can still be divided by four, the    *)
(* least a rejection shortens it, before it underflows to 0; NaN, below all *)
(* of them, is a length that is no number any more.  The error of the      *)
(* correction is in classes; NaN compares as false with every other.       *)
(***************************************************************************)
EXTENDS GaussRadau

CONSTANTS
  MaxIter,     (* max_iter_                                                 *)
  MaxLength,   (* the bound on the lengths                                  *)
  MaxError,    (* the class of the largest number and of infinity           *)
  Forces,      (* the differences of the derivative, a function of the stage *)
  Ratios       (* the ratios of step lengths the coefficients see           *)

NaN == -1
ErrorClasses == (0..MaxError) \cup {NaN}

ASSUME IAS15Assumption ==
  /\ MaxIter \in Nat \ {0} /\ MaxLength \in Nat /\ MaxError \in Nat \ {0}
  /\ Forces \subseteq [Stage -> Field] /\ Ratios \subseteq Field

VARIABLES
  radauPc,     (* "idle", "correct", "judge", "once" or "aborted"           *)
  radauK,      (* the counter of the loop                                   *)
  iter_h,      (* the length tried                                          *)
  last,        (* last_PC_error_, MaxError after a reset                    *)
  warmed_up,
  tables,      (* b_, g_ and old_b_ of the integrator                       *)
  fitted       (* what the last correction of this call found at the nodes  *)

radauVars == <<radauPc, radauK, iter_h, last, warmed_up, tables, fitted>>

Unfitted == [n \in Stage |-> -1]

RadauInit ==
  /\ radauPc = "idle"
  /\ radauK = 0
  /\ iter_h = 0
  /\ last = MaxError
  /\ warmed_up = FALSE
  /\ tables = NoTables
  /\ fitted = Unfitted

(* iterate is called, or that of ConstOdeIterator; not after a step of a    *)
(* length that is no number, whose state holds none.                        *)
RadauBegin ==
  /\ radauPc = "idle" /\ iter_h # NaN
  /\ radauPc' \in {"correct", "once"}
  /\ iter_h' \in 0..MaxLength
  /\ radauK' = 0
  /\ fitted' = Unfitted
  /\ UNCHANGED <<last, warmed_up, tables>>

(* in_converged_window, for the error e of a correction.                    *)
InConvergedWindow(e) ==
  e # NaN /\ (e = 0 \/ (last # NaN /\ e >= last))

(* Mutant of Counted: the loop is left by the errors alone.                 *)
NotCounted(n) == n

Counted(n) == n + 1

Converge(e) ==
  IF InConvergedWindow(e)
  THEN radauPc' = "judge" /\ last' = MaxError /\ UNCHANGED radauK
  ELSE last' = e /\ radauK' = Counted(radauK) /\ UNCHANGED radauPc

Correct ==
  /\ radauPc = "correct" /\ radauK < MaxIter /\ iter_h # NaN
  /\ \E dy \in Forces, e \in ErrorClasses :
       /\ tables' = correct(tables, dy)
       /\ fitted' = dy
       /\ Converge(e)
  /\ UNCHANGED <<iter_h, warmed_up>>

(* A length that is no number makes none of the tables either: what they    *)
(* hold is of no use and left out.  The errors see what is left, such as    *)
(* the derivative of a time that is not regularized.                        *)
CorrectNaN ==
  /\ radauPc = "correct" /\ radauK < MaxIter /\ iter_h = NaN
  /\ \E e \in ErrorClasses : Converge(e)
  /\ UNCHANGED <<iter_h, warmed_up, tables, fitted>>

(* The error lets the step pass: the state is evaluated at its end, the     *)
(* coefficients move on to the next step, whose length is returned.         *)
RadauAccept ==
  /\ radauPc = "judge"
  /\ \E q \in Ratios : tables' = predict(tables, q)
  /\ warmed_up' = TRUE
  /\ radauPc' = "idle"
  /\ fitted' = Unfitted
  /\ UNCHANGED <<radauK, iter_h, last>>

(* The step starts again from its input, shorter at least by four; the      *)
(* coefficients are predicted for it as if it followed the rejected one.    *)
(* An infinite error over an infinite scale makes the ratio NaN, which      *)
(* rejects, and the length with it.  The counter is set to 0 and counted    *)
(* up.  A step of length 0 is never rejected: its corrections change        *)
(* nothing and the error is 0; nor is one of length NaN, as std::max in     *)
(* calc_step_error passes NaN over, which leaves an error of 0.             *)
RadauReject ==
  /\ radauPc = "judge" /\ iter_h > 0
  /\ \E q \in Ratios : tables' = IF warmed_up THEN predict(tables, q) ELSE tables
  /\ iter_h' \in (0..(iter_h - 1)) \cup {NaN}
  /\ radauK' = 1
  /\ last' = MaxError
  /\ radauPc' = "correct"
  /\ fitted' = Unfitted
  /\ UNCHANGED warmed_up

RadauAbort ==
  /\ radauPc = "correct" /\ radauK >= MaxIter
  /\ radauPc' = "aborted"
  /\ UNCHANGED <<radauK, iter_h, last, warmed_up, tables, fitted>>

(* GaussRadau::integrate, which ConstOdeIterator calls: one correction.     *)
IntegrateOnce ==
  /\ radauPc = "once"
  /\ \E dy \in Forces :
       tables' = predict(correct(tables, dy), 1)
  /\ radauPc' = "idle"
  /\ UNCHANGED <<radauK, iter_h, last, warmed_up, fitted>>

RadauNext ==
  \/ RadauBegin \/ Correct \/ CorrectNaN \/ RadauAccept \/ RadauReject
  \/ RadauAbort \/ IntegrateOnce

-----------------------------------------------------------------------------
(* What b stands for: the derivative at s in the step, less that at the     *)
(* start.                                                                   *)
Derivative(b, s) ==
  SumOver([i \in Stage |-> b[i] * power(s % P, i + 1)], 0, Stages - 1) % P

(* After each correction the polynomial goes through the derivatives found  *)
(* at all nodes, whatever the tables held before: a prediction, the         *)
(* coefficients of a rejected step, which are predicted as if it had been   *)
(* accepted, or those of another chain.  b and g must agree for it.         *)
Interpolates ==
  fitted # Unfitted => \A n \in Stage : Derivative(tables.b, Node[n]) = fitted[n]

(* A prediction continues the polynomial of the step, whatever the ratio of *)
(* the lengths: at s in the next step, from its start, it has the value at  *)
(* 1 + q * s in this step, from its end.                                    *)
PredictsSame ==
  radauPc = "judge" =>
    \A q \in Ratios, s \in Field :
      Derivative(predict(tables, q).old, s)
        = (Derivative(tables.b, 1 + q * s) - Derivative(tables.b, 1)) % P

(* What is left of the loop at the present length.                          *)
Left == IF radauPc = "correct" THEN MaxIter - radauK + 1 ELSE 0

(* A call of iterate ends although each rejection sets the counter back: no *)
(* step of it but brings it nearer to its end, by a shorter length or, at   *)
(* the same length, by a smaller rest of the loop.  Errors that are not     *)
(* numbers never converge, and it is by being counted that they end.  The   *)
(* length NaN is the last of all: it is never rejected.                     *)
CountsDown ==
  [][(radauPc \in {"correct", "judge", "once"})
       => \/ radauPc' \in {"idle", "aborted"}
          \/ iter_h' < iter_h
          \/ (iter_h' = iter_h /\ Left' < Left)]_radauVars
=============================================================================
