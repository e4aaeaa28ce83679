---------------------------- MODULE BulirschStoer ----------------------------
(***************************************************************************)
(* ode-iterator/Bulirsch-Stoer.hpp: BulirschStoer::iterate for a particle  *)
(* system, built without BS_SUBSTEP_PARALLEL, with its choice of the       *)
(* extrapolation order for the next step.                                  *)
(*                                                                         *)
(* An attempt at a step integrates the same macro step with h(0), h(1), .. *)
(* substeps, one row of the extrapolation table after the other, and       *)
(* judges the error of each column k >= 1.  The error is known here by     *)
(* what the code compares it with: at most 1 ("ok"), above 1 and within    *)
(* the r * r of is_diverged_anyhow ("mild"), above that ("far"), or not a  *)
(* number ("nan"), which every comparison answers with false.  The errors  *)
(* are a function of the input and the step length: an attempt repeated    *)
(* with the same step length finds the same errors.                        *)
(*                                                                         *)
(* The tables have the columns 0..MaxDepth; touching one beyond them is    *)
(* undefined behaviour, an end of the model of its own.                    *)
(***************************************************************************)
EXTENDS Integers

CONSTANTS
  MaxDepth,     (* max_depth, the template parameter MaxIter: 7 by default  *)
  MaxTries,     (* max_try_num: 100 in the code                             *)
  Costs,        (* the values cost_per_len_ may have, of one sign           *)
  MaxSteps      (* bound of the model: how many steps are asked for         *)

ASSUME BulirschStoerAssumption ==
  /\ MaxDepth \in Nat /\ MaxDepth >= 3
  /\ MaxTries \in Nat \ {0}
  /\ Costs \subseteq Int
  /\ (\A c \in Costs : c > 0) \/ (\A c \in Costs : c < 0)
  /\ MaxSteps \in Nat

Errors == {"ok", "mild", "far", "nan"}

VARIABLES
  ideal_rank_,  (* the column the next attempt is expected to converge at   *)
  first_step_,  (* no step was accepted yet                                 *)
  pc,           (* where iterate is                                         *)
  try,          (* the number of the attempt, i + 1                         *)
  k,            (* the column                                               *)
  errs,         (* the errors of this step length, "none" where not known   *)
  rows,         (* history: the attempt that wrote a row of extrap_list_    *)
                (* starting from input_, 0 for any other start              *)
  atInput,      (* the particles hold input_                                *)
  collecting,   (* they collect increments                                  *)
  rejected,     (* history: the attempts of this step that were rejected    *)
  steps,        (* history: the accepted steps                              *)
  firstRank     (* history: the column the first step was accepted at       *)

vars == <<ideal_rank_, first_step_, pc, try, k, errs, rows, atInput,
          collecting, rejected, steps, firstRank>>

particles == <<atInput, collecting>>

history == <<rejected, steps, firstRank>>

NoErrors == [c \in 1..MaxDepth |-> "none"]

(* ideal_rank_ begins one below the last column.                            *)
Init ==
  /\ ideal_rank_ = MaxDepth - 1
  /\ first_step_ = TRUE
  /\ pc = "idle"
  /\ try = 0 /\ k = 0
  /\ errs = NoErrors
  /\ rows = [c \in 0..MaxDepth |-> 0]
  /\ atInput = FALSE /\ collecting = FALSE
  /\ rejected = 0 /\ steps = 0 /\ firstRank = 0

-----------------------------------------------------------------------------
(* The order control.                                                       *)

(* Mutant of Allowed: the last column itself is allowed.                    *)
AllowedToTheLast(i) == IF i < 2 THEN 2 ELSE IF i > MaxDepth THEN MaxDepth ELSE i

Allowed(i) ==
  IF i < 2 THEN 2 ELSE IF i > MaxDepth - 1 THEN MaxDepth - 1 ELSE i

(* Mutant of InWindow: every column may end an attempt.                     *)
AnyColumn(c) == TRUE

InWindow(c) ==
  c \in {ideal_rank_ - 1, ideal_rank_, ideal_rank_ + 1} \/ first_step_

(* Mutant of DivergedAnyhow: the last column waits for another one.         *)
DivergedFarOnly(c) == ~first_step_ /\ errs[c] = "far"

(* is_diverged_anyhow, for an error that is not at most 1.                  *)
DivergedAnyhow(c) ==
  /\ ~first_step_
  /\ errs[c] = "far" \/ (errs[c] = "mild" /\ c = ideal_rank_ + 1)

(* Which factors h it reads on the way: h(c + 1) and h(c + 2).              *)
ReadsBeyond(c) ==
  /\ ~first_step_
  /\ c \in {ideal_rank_ - 1, ideal_rank_}
  /\ ideal_rank_ + 1 > MaxDepth

(* dec_factor 0.8 and inc_factor 0.9 on the work per length of two columns; *)
(* that of column 0 is never computed and stays 0.                          *)
ClearlyLess(a, b) == 10 * a < 8 * b

Less(a, b) == 10 * a < 9 * b

(* set_next_iteration, for a converged or a rejected attempt that ended at  *)
(* column c with the work w.                                                *)
NextRank(c, reject, w) ==
  IF first_step_ THEN IF reject THEN ideal_rank_ ELSE c
  ELSE IF c = ideal_rank_ + 1
       THEN LET lower == IF ClearlyLess(w[c - 2], w[c - 1])
                         THEN Allowed(c - 2) ELSE ideal_rank_
            IN  IF Less(w[c], w[lower]) /\ ~reject THEN Allowed(c) ELSE lower
       ELSE IF ClearlyLess(w[c - 1], w[c]) THEN Allowed(c - 1)
       ELSE IF Less(w[c], w[c - 1]) /\ ~reject THEN Allowed(c + 1)
       ELSE Allowed(c)

(* The aborts "unexpected iteration index!" of set_next_iteration and       *)
(* "unexpected order!" of get_next_step_len.                                *)
Unexpected(c, new) ==
  /\ ~first_step_
  /\ c \notin {ideal_rank_ - 1, ideal_rank_, ideal_rank_ + 1} \/ new > c + 1

Work(c) == {[i \in 0..c |-> IF i = 0 THEN 0 ELSE w[i]] : w \in [1..c -> Costs]}

-----------------------------------------------------------------------------
(* iterate                                                                  *)

(* input_ is taken from the particles, which begin to collect increments.   *)
Begin ==
  /\ pc = "idle"
  /\ steps < MaxSteps
  /\ pc' = "trying"
  /\ try' = 1
  /\ errs' = NoErrors
  /\ rows' = [c \in 0..MaxDepth |-> 0]
  /\ rejected' = 0
  /\ atInput' = TRUE /\ collecting' = TRUE
  /\ UNCHANGED <<ideal_rank_, first_step_, k, steps, firstRank>>

(* The row of column 0; the particles are where the attempt found them.     *)
BaseRow ==
  /\ pc = "trying"
  /\ rows' = [rows EXCEPT ![0] = IF atInput THEN try ELSE 0]
  /\ atInput' = FALSE
  /\ k' = 1
  /\ pc' = "column"
  /\ UNCHANGED <<ideal_rank_, first_step_, try, errs, collecting, history>>

(* The error of column c: what it was when this length was tried before;    *)
(* the extrapolation carries a "nan" from a column to the next.             *)
ErrorsOf(c) ==
  IF errs[c] # "none" THEN {errs[c]}
  ELSE IF c > 1 /\ errs[c - 1] = "nan" THEN {"nan"}
  ELSE Errors

(* A column: its row from input_ and a cleared increment, and its error.    *)
Column ==
  /\ pc = "column"
  /\ k <= ideal_rank_ + 1 /\ k <= MaxDepth
  /\ rows' = [rows EXCEPT ![k] = try]
  /\ atInput' = FALSE
  /\ \E e \in ErrorsOf(k) : errs' = [errs EXCEPT ![k] = e]
  /\ pc' = "judging"
  /\ UNCHANGED <<ideal_rank_, first_step_, try, k, collecting, history>>

Converged == InWindow(k) /\ errs[k] = "ok"

StopCollecting == collecting' = FALSE

(* The step is accepted: the particles get the result.                      *)
Accept ==
  /\ pc = "judging"
  /\ Converged
  /\ \E w \in Work(k) : ideal_rank_' = NextRank(k, FALSE, w)
  /\ first_step_' = FALSE
  /\ firstRank' = IF first_step_ THEN k ELSE firstRank
  /\ StopCollecting
  /\ steps' = steps + 1
  /\ pc' = IF Unexpected(k, ideal_rank_') THEN "unexpected" ELSE "idle"
  /\ UNCHANGED <<try, k, errs, rows, atInput, rejected>>

(* Mutant of PutBack: the particles stay where the attempt left them.       *)
NotPutBack == atInput' = atInput

PutBack == atInput' = TRUE

(* The next attempt begins, unless this was the last.                       *)
Retry ==
  /\ PutBack
  /\ IF try < MaxTries THEN try' = try + 1 /\ pc' = "trying"
                       ELSE try' = try /\ pc' = "exhausted"

(* The attempt is rejected: another step length, and so other errors.       *)
Reject ==
  /\ pc = "judging"
  /\ InWindow(k) /\ ~Converged
  /\ ~ReadsBeyond(k)
  /\ DivergedAnyhow(k)
  /\ \E w \in Work(k) : ideal_rank_' = NextRank(k, TRUE, w)
  /\ errs' = NoErrors
  /\ rejected' = rejected + 1
  /\ IF Unexpected(k, ideal_rank_')
     THEN pc' = "unexpected" /\ UNCHANGED <<try, atInput>>
     ELSE Retry
  /\ UNCHANGED <<first_step_, k, rows, collecting, steps, firstRank>>

(* Neither accepted nor rejected: the next column.                          *)
NextColumn ==
  /\ pc = "judging"
  /\ ~InWindow(k) \/ (~Converged /\ ~ReadsBeyond(k) /\ ~DivergedAnyhow(k))
  /\ k' = k + 1
  /\ pc' = "column"
  /\ UNCHANGED <<ideal_rank_, first_step_, try, errs, rows, particles, history>>

(* The columns have run out: the same length is tried again.                *)
OutOfColumns ==
  /\ pc = "column"
  /\ k > ideal_rank_ + 1
  /\ Retry
  /\ UNCHANGED <<ideal_rank_, first_step_, k, errs, rows, collecting,
                 history>>

(* A column or a factor beyond the tables.                                  *)
Overrun ==
  /\ \/ pc = "column" /\ k <= ideal_rank_ + 1 /\ k > MaxDepth
     \/ pc = "judging" /\ InWindow(k) /\ ~Converged /\ ReadsBeyond(k)
  /\ pc' = "undefined"
  /\ UNCHANGED <<ideal_rank_, first_step_, try, k, errs, rows, particles, history>>

-----------------------------------------------------------------------------
Next ==
  \/ Begin \/ BaseRow \/ Column \/ Accept \/ Reject \/ NextColumn \/ OutOfColumns
  \/ Overrun

Spec == Init /\ [][Next]_vars
-----------------------------------------------------------------------------
(* Backwards in time the step lengths and so the costs are negative, every  *)
(* comparison of the order control is turned round, and one that is meant   *)
(* to leave the order 1 for good does not.                                  *)
LowestRank == IF \A c \in Costs : c > 0 THEN 2 ELSE 1

(* The types.                                                               *)
TypeOK ==
  /\ ideal_rank_ \in 1..MaxDepth
  /\ first_step_ \in BOOLEAN /\ atInput \in BOOLEAN /\ collecting \in BOOLEAN
  /\ pc \in {"idle", "trying", "column", "judging", "exhausted", "undefined",
             "unexpected"}
  /\ try \in 0..MaxTries /\ k \in 0..(MaxDepth + 2)
  /\ errs \in [1..MaxDepth -> Errors \cup {"none"}]
  /\ rows \in [0..MaxDepth -> 0..MaxTries]
  /\ rejected \in Nat /\ steps \in Nat /\ firstRank \in 0..MaxDepth

(* After a second step was accepted the attempts are made at an order with  *)
(* a column to spare on either side, 2..max_depth - 1 (1 if backwards);     *)
(* until then the order is the column that the first step was accepted at,  *)
(* or in this range.                                                        *)
RankInRange ==
  /\ steps >= 2 => ideal_rank_ \in LowestRank..(MaxDepth - 1)
  /\ steps = 1 => ideal_rank_ \in 2..(MaxDepth - 1) \cup {firstRank}

(* The tables are overrun in no step but the second, and only if the first  *)
(* one was accepted at the last column.                                     *)
OverrunCause == pc = "undefined" => steps = 1 /\ firstRank = MaxDepth

(* The aborts that guard the order control are never reached: an attempt    *)
(* ends in the window, and the order grows by at most one column past it.   *)
NoUnexpectedAbort == pc # "unexpected"

(* What is accepted was extrapolated from rows of one attempt alone, each   *)
(* integrated from the state the step began with, and its last error is at  *)
(* most 1.                                                                  *)
AcceptsConverged ==
  [][steps' > steps =>
       errs[k] = "ok" /\ \A c \in 0..k : rows[c] = try]_vars

(* Outside iterate the particles do not collect increments: drifts and      *)
(* kicks of other code cost and change nothing else.                        *)
IdleCollectsNothing == pc = "idle" => ~collecting

(* An attempt is abandoned for good only if every one was rejected, or if   *)
(* one was repeated unchanged: in the first step, or over a "nan".          *)
ExhaustedCause ==
  pc = "exhausted" =>
    rejected = MaxTries \/ first_step_ \/ \E c \in 1..MaxDepth : errs[c] = "nan"
=============================================================================
