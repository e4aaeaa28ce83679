------------------------- MODULE Iterators_proofs -------------------------
(***************************************************************************)
(* Proofs about the iterators.                                             *)
(*                                                                         *)
(* The order control of BulirschStoer, for every depth of the tables,      *)
(* number of tries and set of costs.  The properties are not inductive as  *)
(* they stand.  The invariant adds where the column is while an attempt is *)
(* made (Columns), what the rows and errors of the attempt are (Rows), and *)
(* that a column of the window that was passed over had neither a          *)
(* converged nor a diverged error, in this attempt or in an earlier one    *)
(* with the same step length (Passes).                                     *)
(*                                                                         *)
(* What the iterators calculate: which result SequentOdeIterator takes     *)
(* (SeqInv); that IAS15 ends and, from IAS15_proofs, that it interpolates; *)
(* that a symplectic step is undone, since on the way back the particle    *)
(* comes through the states of the way there (OnItsPath) and the fractions *)
(* are palindromes; that the step drifts and kicks by the whole of its     *)
(* length and is made of leapfrogs that cancel to the method's order, from *)
(* tables of running sums (WholeInv, EveryMethodWhole); that the           *)
(* compensated sums keep what they round off (SumInv), since what a sum of *)
(* two numbers rounds off is itself a number (RoundedOffIs); and that the  *)
(* table of Bulirsch-Stoer extrapolates: its                               *)
(* columns are Neville's rule (Neville), the value of which is that of     *)
(* Lagrange's formula (AtZeroIs), and the rows of a leapfrog are the       *)
(* solution and a multiple of the square of the sub-step (RowIsExact).     *)
(***************************************************************************)
EXTENDS Iterators, BulirschStoer, IAS15_proofs, TLAPS

InAttempt == pc \in {"column", "judging"}

Ranks ==
  /\ first_step_ => steps = 0 /\ ideal_rank_ = MaxDepth - 1
  /\ ~first_step_ => steps >= 1 /\ firstRank \in 1..MaxDepth
  /\ RankInRange

Columns ==
  /\ pc = "column" => k \in 1..(MaxDepth + 1) /\ k <= ideal_rank_ + 2
  /\ pc = "judging" => k \in 1..MaxDepth /\ k <= ideal_rank_ + 1
  /\ pc \in {"trying", "column", "judging"} => try \in 1..MaxTries

Rows ==
  /\ pc = "trying" => atInput
  /\ InAttempt => \A c \in 0..(k - 1) : rows[c] = try
  /\ pc = "judging" => rows[k] = try /\ errs[k] # "none"

PassedOver(c) == InWindow(c) => errs[c] \notin {"none", "ok"} /\ ~DivergedAnyhow(c)

(* An attempt was repeated with the same step length, in a later step.      *)
Stuck ==
  /\ ideal_rank_ < MaxDepth
  /\ \A c \in 1..(ideal_rank_ + 1) : PassedOver(c)

Passes ==
  /\ InAttempt => \A c \in 1..(k - 1) : PassedOver(c)
  /\ pc \in {"trying", "column", "judging"} =>
       rejected = try - 1 \/ first_step_ \/ Stuck
  /\ pc = "exhausted" => rejected = MaxTries \/ first_step_ \/ Stuck

IInv ==
  /\ TypeOK /\ Ranks /\ Columns /\ Rows /\ Passes
  /\ OverrunCause /\ NoUnexpectedAbort /\ IdleCollectsNothing
-----------------------------------------------------------------------------
(* Allowed keeps an order off both ends of the tables.                      *)
LEMMA AllowedRange ==
  ASSUME NEW i \in Int
  PROVE  /\ Allowed(i) \in 2..(MaxDepth - 1)
         /\ Allowed(i) <= i \/ Allowed(i) = 2
BY BulirschStoerAssumption DEF Allowed

(* The work of the columns up to c, of one sign but for the unused 0.       *)
LEMMA WorkValues ==
  ASSUME NEW c \in 1..MaxDepth, NEW w \in Work(c)
  PROVE  /\ w[0] = 0
         /\ \A i \in 1..c : w[i] \in Costs
<1>1. PICK v \in [1..c -> Costs] : w = [i \in 0..c |-> IF i = 0 THEN 0 ELSE v[i]]
  BY DEF Work
<1> QED BY <1>1, BulirschStoerAssumption

(* After the first step, the order control keeps the order in range and at  *)
(* most one above the column the attempt ended at.                          *)
LEMMA NextRankRange ==
  ASSUME ~first_step_, ideal_rank_ \in 1..MaxDepth,
         NEW c \in 1..MaxDepth, c \in {ideal_rank_ - 1, ideal_rank_, ideal_rank_ + 1},
         NEW reject \in BOOLEAN, NEW w \in Work(c)
  PROVE  /\ NextRank(c, reject, w) \in LowestRank..(MaxDepth - 1)
         /\ NextRank(c, reject, w) \in 2..(MaxDepth - 1) \cup {ideal_rank_}
         /\ NextRank(c, reject, w) <= c + 1
<1>1. LowestRank \in 1..2
  BY DEF LowestRank
<1>2. CASE c # ideal_rank_ + 1
  <2>1. /\ Allowed(c - 1) \in 2..(MaxDepth - 1)
        /\ Allowed(c) \in 2..(MaxDepth - 1)
        /\ Allowed(c + 1) \in 2..(MaxDepth - 1)
        /\ Allowed(c - 1) <= c + 1 /\ Allowed(c) <= c + 1 /\ Allowed(c + 1) <= c + 1
    BY AllowedRange
  <2>2. NextRank(c, reject, w) \in {Allowed(c - 1), Allowed(c), Allowed(c + 1)}
    BY <1>2 DEF NextRank
  <2> QED BY <1>1, <2>1, <2>2
<1>3. CASE c = ideal_rank_ + 1
  <2> DEFINE lower == IF ClearlyLess(w[c - 2], w[c - 1])
                      THEN Allowed(c - 2) ELSE ideal_rank_
  <2>1. /\ Allowed(c - 2) \in 2..(MaxDepth - 1)
        /\ Allowed(c) \in 2..(MaxDepth - 1)
        /\ Allowed(c - 2) <= c + 1 /\ Allowed(c) <= c + 1
    BY AllowedRange
  <2>2. NextRank(c, reject, w) \in {lower, Allowed(c)}
    BY <1>3 DEF NextRank
  <2>3. ideal_rank_ >= 2 => ideal_rank_ \in LowestRank..(MaxDepth - 1)
    BY <1>1, <1>3, BulirschStoerAssumption
  <2>4. ideal_rank_ = 1 /\ LowestRank = 2 => lower = Allowed(c - 2)
    <3> SUFFICES ASSUME ideal_rank_ = 1, LowestRank = 2
                 PROVE  ClearlyLess(w[c - 2], w[c - 1])
      OBVIOUS
    <3>1. c - 2 = 0 /\ c - 1 = 1 /\ 1 \in 1..c
      BY <1>3
    <3>2. w[0] = 0 /\ w[1] \in Costs
      BY <3>1, WorkValues
    <3>3. w[1] \in Int /\ w[1] > 0
      <4>1. \A d \in Costs : d > 0
        BY DEF LowestRank
      <4> QED BY <3>2, <4>1, BulirschStoerAssumption
    <3>4. 10 * w[0] < 8 * w[1]
      BY <3>2, <3>3
    <3> QED BY <3>1, <3>4 DEF ClearlyLess
  <2>5. lower \in LowestRank..(MaxDepth - 1) /\ lower <= c + 1
    <3>1. CASE lower = Allowed(c - 2)
      BY <1>1, <2>1, <3>1
    <3>2. CASE lower = ideal_rank_ /\ ideal_rank_ >= 2
      BY <1>3, <2>3, <3>2
    <3>3. CASE lower = ideal_rank_ /\ ideal_rank_ = 1 /\ LowestRank = 1
      BY <1>3, <3>3, BulirschStoerAssumption
    <3> QED BY <1>1, <2>4, <3>1, <3>2, <3>3
  <2>6. lower \in 2..(MaxDepth - 1) \cup {ideal_rank_}
    BY <2>1
  <2> HIDE DEF lower
  <2> QED BY <1>1, <2>1, <2>2, <2>5, <2>6
<1> QED BY <1>2, <1>3

-----------------------------------------------------------------------------
(* The invariant, one lemma for each of its parts that needs more than the  *)
(* definitions.                                                             *)

LEMMA InitInvariant == Init => IInv
<1> SUFFICES ASSUME Init PROVE IInv
  OBVIOUS
<1> USE BulirschStoerAssumption DEF Init
<1>1. TypeOK
  <2>1. errs \in [1..MaxDepth -> Errors \cup {"none"}]
    BY DEF NoErrors
  <2>2. rows \in [0..MaxDepth -> 0..MaxTries]
    OBVIOUS
  <2>3. first_step_ \in BOOLEAN /\ atInput \in BOOLEAN /\ collecting \in BOOLEAN
    BY Zenon
  <2>4. ideal_rank_ \in 1..MaxDepth /\ try \in 0..MaxTries /\ k \in 0..(MaxDepth + 2)
    OBVIOUS
  <2>5. rejected \in Nat /\ steps \in Nat /\ firstRank \in 0..MaxDepth
    OBVIOUS
  <2>6. pc = "idle"
    OBVIOUS
  <2> HIDE DEF Init
  <2> QED BY <2>1, <2>2, <2>3, <2>4, <2>5, <2>6 DEF TypeOK
<1>2. Ranks
  BY DEF Ranks, RankInRange
<1>3. Columns /\ Rows /\ Passes
  BY DEF Columns, Rows, Passes, InAttempt
<1>4. OverrunCause /\ NoUnexpectedAbort /\ IdleCollectsNothing
  BY DEF OverrunCause, NoUnexpectedAbort, IdleCollectsNothing
<1> QED BY <1>1, <1>2, <1>3, <1>4 DEF IInv

(* What an accepted or a rejected attempt leaves as the order.              *)
LEMMA ChosenRank ==
  ASSUME IInv, pc = "judging", InWindow(k),
         NEW reject \in BOOLEAN, reject => ~first_step_,
         NEW w \in Work(k), ideal_rank_' = NextRank(k, reject, w)
  PROVE  /\ ideal_rank_' \in 1..MaxDepth
         /\ ~Unexpected(k, ideal_rank_')
         /\ first_step_ => ideal_rank_' = k
         /\ ~first_step_ => /\ ideal_rank_' \in LowestRank..(MaxDepth - 1)
                            /\ ideal_rank_' \in 2..(MaxDepth - 1) \cup {ideal_rank_}
<1>1. /\ k \in 1..MaxDepth /\ ideal_rank_ \in 1..MaxDepth
      /\ first_step_ \in BOOLEAN
  BY DEF IInv, TypeOK, Columns
<1>2. CASE first_step_
  BY <1>1, <1>2 DEF NextRank, Unexpected
<1>3. CASE ~first_step_
  <2>1. k \in {ideal_rank_ - 1, ideal_rank_, ideal_rank_ + 1}
    BY <1>3 DEF InWindow
  <2>2. /\ ideal_rank_' \in LowestRank..(MaxDepth - 1)
        /\ ideal_rank_' \in 2..(MaxDepth - 1) \cup {ideal_rank_}
        /\ ideal_rank_' <= k + 1
    BY <1>1, <1>3, <2>1, NextRankRange
  <2>3. ideal_rank_' \in 1..MaxDepth
    BY <1>1, <2>2, BulirschStoerAssumption
  <2> QED BY <1>1, <1>3, <2>1, <2>2, <2>3, BulirschStoerAssumption DEF Unexpected
<1> QED BY <1>1, <1>2, <1>3

LEMMA BeginStep == IInv /\ Begin => IInv'
<1> SUFFICES ASSUME IInv, Begin PROVE IInv'
  OBVIOUS
<1> USE BulirschStoerAssumption DEF IInv, Begin
<1>1. TypeOK'
  BY DEF TypeOK, NoErrors
<1>2. Ranks' /\ Columns'
  BY DEF TypeOK, Ranks, RankInRange, Columns
<1>3. Rows' /\ Passes'
  BY DEF TypeOK, Rows, Passes, InAttempt
<1>4. OverrunCause' /\ NoUnexpectedAbort' /\ IdleCollectsNothing'
  BY DEF OverrunCause, NoUnexpectedAbort, IdleCollectsNothing
<1> QED BY <1>1, <1>2, <1>3, <1>4

LEMMA BaseRowStep == IInv /\ BaseRow => IInv'
<1> SUFFICES ASSUME IInv, BaseRow PROVE IInv'
  OBVIOUS
<1> USE BulirschStoerAssumption DEF IInv, BaseRow, history
<1>1. TypeOK'
  <2>1. try \in 0..MaxTries /\ 0 \in 0..MaxDepth /\ rows' = [rows EXCEPT ![0] = try]
    BY DEF TypeOK, Rows
  <2>2. rows' \in [0..MaxDepth -> 0..MaxTries]
    BY <2>1 DEF TypeOK
  <2>3. atInput' \in BOOLEAN
    BY Zenon
  <2>3a. k' \in 0..(MaxDepth + 2)
    OBVIOUS
  <2>4. UNCHANGED <<ideal_rank_, first_step_, try, errs, collecting, rejected,
                    steps, firstRank>> /\ pc' = "column"
    OBVIOUS
  <2> HIDE DEF BaseRow
  <2> QED BY <2>2, <2>3, <2>3a, <2>4 DEF TypeOK
<1>2. Ranks' /\ Columns'
  BY DEF TypeOK, Ranks, RankInRange, Columns
<1>3. Rows'
  BY DEF TypeOK, Columns, Rows, InAttempt
<1>4. Passes'
  BY DEF Passes, InAttempt, Stuck, PassedOver, InWindow, DivergedAnyhow
<1>5. OverrunCause' /\ NoUnexpectedAbort' /\ IdleCollectsNothing'
  BY DEF OverrunCause, NoUnexpectedAbort, IdleCollectsNothing
<1> QED BY <1>1, <1>2, <1>3, <1>4, <1>5

LEMMA ColumnStep == IInv /\ Column => IInv'
<1> SUFFICES ASSUME IInv, Column PROVE IInv'
  OBVIOUS
<1> USE BulirschStoerAssumption DEF IInv, Column, history
<1>1. PICK e \in ErrorsOf(k) : errs' = [errs EXCEPT ![k] = e]
  OBVIOUS
<1>2. k \in 1..MaxDepth /\ errs \in [1..MaxDepth -> Errors \cup {"none"}]
  BY DEF TypeOK, Columns
<1>3. e \in Errors /\ (errs[k] # "none" => e = errs[k])
  BY <1>2 DEF ErrorsOf, Errors
<1>4. TypeOK'
  BY <1>1, <1>2, <1>3 DEF TypeOK, Columns
<1>5. Ranks' /\ Columns'
  BY DEF TypeOK, Ranks, RankInRange, Columns
<1>6. Rows'
  BY <1>1, <1>2, <1>3 DEF TypeOK, Columns, Rows, InAttempt, Errors
<1>7. \A c \in 1..MaxDepth : PassedOver(c) => PassedOver(c)'
  BY <1>1, <1>2, <1>3 DEF PassedOver, InWindow, DivergedAnyhow
<1>8. Stuck => Stuck'
  BY <1>7 DEF Stuck, TypeOK
<1>9. Passes'
  BY <1>2, <1>7, <1>8 DEF Passes, InAttempt
<1>10. OverrunCause' /\ NoUnexpectedAbort' /\ IdleCollectsNothing'
  BY DEF OverrunCause, NoUnexpectedAbort, IdleCollectsNothing
<1> QED BY <1>4, <1>5, <1>6, <1>9, <1>10

LEMMA AcceptStep == IInv /\ Accept => IInv'
<1> SUFFICES ASSUME IInv, Accept PROVE IInv'
  OBVIOUS
<1> USE BulirschStoerAssumption
<1>1. PICK w \in Work(k) : ideal_rank_' = NextRank(k, FALSE, w)
  BY DEF Accept
<1>2. /\ ideal_rank_' \in 1..MaxDepth
      /\ ~Unexpected(k, ideal_rank_')
      /\ first_step_ => ideal_rank_' = k
      /\ ~first_step_ => ideal_rank_' \in LowestRank..(MaxDepth - 1)
  BY <1>1, ChosenRank DEF Accept, Converged
<1>3. pc' = "idle" /\ first_step_' = FALSE /\ collecting' = FALSE
  BY <1>2 DEF Accept, StopCollecting
<1>4. /\ steps' = steps + 1
      /\ UNCHANGED <<try, k, errs, rows, atInput, rejected>>
  BY DEF Accept
<1>5. k \in 1..MaxDepth /\ steps \in Nat
  BY DEF IInv, TypeOK, Columns, Accept
<1>6. \/ firstRank' = k /\ ideal_rank_' = k
      \/ /\ firstRank' = firstRank /\ firstRank \in 1..MaxDepth /\ steps >= 1
         /\ ideal_rank_' \in LowestRank..(MaxDepth - 1)
  BY <1>2, Zenon DEF Accept, IInv, Ranks
<1>7. steps = 0 \/ ideal_rank_' \in LowestRank..(MaxDepth - 1)
  BY <1>2, Zenon DEF IInv, Ranks
<1>8. TypeOK'
  <2>1. first_step_' \in BOOLEAN /\ collecting' \in BOOLEAN
    BY <1>3, Zenon
  <2>2. firstRank' \in 0..MaxDepth /\ steps' \in Nat
    BY <1>4, <1>5, <1>6
  <2> QED BY <1>2, <1>3, <1>4, <2>1, <2>2 DEF IInv, TypeOK
<1>9. Ranks'
  <2>1. steps' >= 1 /\ firstRank' \in 1..MaxDepth
    BY <1>4, <1>5, <1>6
  <2>2. steps' >= 2 => ideal_rank_' \in LowestRank..(MaxDepth - 1)
    BY <1>4, <1>5, <1>7
  <2>3. steps' = 1 => ideal_rank_' \in 2..(MaxDepth - 1) \cup {firstRank'}
    BY <1>4, <1>5, <1>6
  <2>4. LowestRank' = LowestRank
    BY DEF LowestRank
  <2> QED BY <1>3, <2>1, <2>2, <2>3, <2>4 DEF Ranks, RankInRange
<1>10. Columns' /\ Rows' /\ Passes'
  BY <1>3 DEF Columns, Rows, Passes, InAttempt
<1>11. OverrunCause' /\ NoUnexpectedAbort' /\ IdleCollectsNothing'
  BY <1>3 DEF OverrunCause, NoUnexpectedAbort, IdleCollectsNothing
<1> QED BY <1>8, <1>9, <1>10, <1>11 DEF IInv

(* A column that the invariant says was passed over is not rejected.        *)
LEMMA RejectStep == IInv /\ Reject => IInv'
<1> SUFFICES ASSUME IInv, Reject PROVE IInv'
  OBVIOUS
<1> USE BulirschStoerAssumption DEF IInv, Reject
<1>1. PICK w \in Work(k) : ideal_rank_' = NextRank(k, TRUE, w)
  OBVIOUS
<1>2. ~first_step_
  BY DEF DivergedAnyhow
<1>3. /\ ideal_rank_' \in 1..MaxDepth
      /\ ~Unexpected(k, ideal_rank_')
      /\ ideal_rank_' \in LowestRank..(MaxDepth - 1)
      /\ ideal_rank_' \in 2..(MaxDepth - 1) \cup {ideal_rank_}
  BY <1>1, <1>2, ChosenRank
<1>4. /\ atInput' = TRUE
      /\ \/ try < MaxTries /\ try' = try + 1 /\ pc' = "trying"
         \/ ~(try < MaxTries) /\ try' = try /\ pc' = "exhausted"
  BY <1>3 DEF Retry, PutBack
<1>5. k \in 1..MaxDepth /\ k <= ideal_rank_ + 1 /\ try \in 1..MaxTries
  BY DEF Columns
<1>6. rejected = try - 1
  <2>1. ~PassedOver(k)
    BY DEF PassedOver
  <2>2. ~Stuck
    BY <1>5, <2>1 DEF Stuck, TypeOK
  <2> QED BY <1>2, <2>2 DEF Passes
<1>7. TypeOK'
  <2>1. errs' \in [1..MaxDepth -> Errors \cup {"none"}]
    BY DEF NoErrors
  <2>2. try' \in 0..MaxTries /\ rejected' \in Nat
    BY <1>4, <1>5 DEF TypeOK
  <2> QED BY <1>3, <1>4, <2>1, <2>2 DEF TypeOK
<1>8. Ranks'
  BY <1>2, <1>3 DEF TypeOK, Ranks, RankInRange, LowestRank
<1>9. Columns' /\ Rows'
  <2>1. try' \in 1..MaxTries
    BY <1>4, <1>5
  <2>2. atInput' /\ pc' \in {"trying", "exhausted"}
    BY <1>4, Zenon
  <2> HIDE DEF Reject, IInv
  <2> QED BY <2>1, <2>2 DEF Columns, Rows, InAttempt
<1>10. Passes'
  BY <1>4, <1>5, <1>6 DEF Passes, InAttempt
<1>11. OverrunCause' /\ NoUnexpectedAbort' /\ IdleCollectsNothing'
  BY <1>4 DEF OverrunCause, NoUnexpectedAbort, IdleCollectsNothing
<1> QED BY <1>7, <1>8, <1>9, <1>10, <1>11

LEMMA NextColumnStep == IInv /\ NextColumn => IInv'
<1> SUFFICES ASSUME IInv, NextColumn PROVE IInv'
  OBVIOUS
<1> USE BulirschStoerAssumption DEF IInv, NextColumn, particles, history
<1>1. k \in 1..MaxDepth /\ ideal_rank_ \in 1..MaxDepth
  BY DEF Columns, TypeOK
<1>2. TypeOK'
  BY <1>1 DEF TypeOK
<1>3. Ranks' /\ Columns'
  BY <1>1 DEF TypeOK, Ranks, RankInRange, Columns
<1>4. Rows'
  BY <1>1 DEF Rows, InAttempt
<1>5. \A c \in 1..MaxDepth : PassedOver(c)' <=> PassedOver(c)
  BY DEF PassedOver, InWindow, DivergedAnyhow
<1>6. PassedOver(k)
  BY DEF PassedOver, Converged, Rows
<1>7. Stuck' <=> Stuck
  BY DEF Stuck, PassedOver, InWindow, DivergedAnyhow
<1>8. Passes'
  BY <1>1, <1>5, <1>6, <1>7 DEF Passes, InAttempt
<1>9. OverrunCause' /\ NoUnexpectedAbort' /\ IdleCollectsNothing'
  BY DEF OverrunCause, NoUnexpectedAbort, IdleCollectsNothing
<1> QED BY <1>2, <1>3, <1>4, <1>8, <1>9

LEMMA OutOfColumnsStep == IInv /\ OutOfColumns => IInv'
<1> SUFFICES ASSUME IInv, OutOfColumns PROVE IInv'
  OBVIOUS
<1> USE BulirschStoerAssumption DEF IInv, OutOfColumns, Retry, PutBack, history
<1>1. k = ideal_rank_ + 2 /\ ideal_rank_ \in 1..(MaxDepth - 1) /\ try \in 1..MaxTries
  BY DEF Columns, TypeOK
<1>2. TypeOK'
  BY DEF TypeOK
<1>3. Ranks'
  BY DEF Ranks, RankInRange
<1>4. Columns' /\ Rows'
  BY <1>1 DEF Columns, Rows, InAttempt
<1>5. Stuck
  BY <1>1 DEF Passes, Stuck, InAttempt
<1>6. Stuck'
  BY <1>5 DEF Stuck, PassedOver, InWindow, DivergedAnyhow
<1>7. Passes'
  BY <1>6 DEF Passes, InAttempt
<1>8. OverrunCause' /\ NoUnexpectedAbort' /\ IdleCollectsNothing'
  BY DEF OverrunCause, NoUnexpectedAbort, IdleCollectsNothing
<1> QED BY <1>2, <1>3, <1>4, <1>7, <1>8

(* The tables end above every order but the last column, and the last       *)
(* column is the order only if the first step ended there, before another.  *)
LEMMA OverrunStep == IInv /\ Overrun => IInv'
<1> SUFFICES ASSUME IInv, Overrun PROVE IInv'
  OBVIOUS
<1> USE BulirschStoerAssumption DEF IInv, Overrun, particles, history
<1>1. ideal_rank_ = MaxDepth
  BY DEF Columns, TypeOK, ReadsBeyond
<1>2. steps = 1 /\ firstRank = MaxDepth
  <2>1. ~first_step_ /\ steps \in Nat
    BY <1>1 DEF Ranks, TypeOK
  <2>2. LowestRank \in 1..2
    BY DEF LowestRank
  <2> QED BY <1>1, <2>1, <2>2 DEF Ranks, RankInRange
<1>3. TypeOK' /\ Ranks'
  BY DEF TypeOK, Ranks, RankInRange
<1>4. Columns' /\ Rows' /\ Passes'
  BY DEF Columns, Rows, Passes, InAttempt
<1>5. OverrunCause' /\ NoUnexpectedAbort' /\ IdleCollectsNothing'
  BY <1>2 DEF OverrunCause, NoUnexpectedAbort, IdleCollectsNothing
<1> QED BY <1>3, <1>4, <1>5

LEMMA StutterStep == IInv /\ UNCHANGED vars => IInv'
BY DEF IInv, vars, TypeOK, Ranks, RankInRange, Columns, Rows, Passes, InAttempt,
       Stuck, PassedOver, InWindow, DivergedAnyhow, OverrunCause,
       NoUnexpectedAbort, IdleCollectsNothing
-----------------------------------------------------------------------------
(* The invariant holds in every behaviour of the step control.              *)
THEOREM BulirschStoerInvariant == Spec => []IInv
<1>1. IInv /\ [Next]_vars => IInv'
  BY BeginStep, BaseRowStep, ColumnStep, AcceptStep, RejectStep, NextColumnStep,
     OutOfColumnsStep, OverrunStep, StutterStep DEF Next
<1> QED BY InitInvariant, <1>1, PTL DEF Spec

(* The types.                                                               *)
THEOREM BulirschStoerTypes == Spec => []TypeOK
<1>1. IInv => TypeOK
  BY DEF IInv
<1> QED BY BulirschStoerInvariant, <1>1, PTL

(* From the second accepted step on, the order leaves a column to spare on  *)
(* either side, whatever the errors and the costs.                          *)
THEOREM BulirschStoerRankInRange == Spec => []RankInRange
<1>1. IInv => RankInRange
  BY DEF IInv, Ranks
<1> QED BY BulirschStoerInvariant, <1>1, PTL

(* The tables are overrun in the second step alone, and only if the first   *)
(* was accepted at the last column.                                         *)
THEOREM BulirschStoerOverrunCause == Spec => []OverrunCause
<1>1. IInv => OverrunCause
  BY DEF IInv
<1> QED BY BulirschStoerInvariant, <1>1, PTL

(* The aborts over an unexpected order or index cannot be reached.          *)
THEOREM BulirschStoerNoUnexpectedAbort == Spec => []NoUnexpectedAbort
<1>1. IInv => NoUnexpectedAbort
  BY DEF IInv
<1> QED BY BulirschStoerInvariant, <1>1, PTL

(* max_try_num attempts in vain are all rejections, but in the first step   *)
(* and with an error that is not a number.                                  *)
THEOREM BulirschStoerExhaustedCause == Spec => []ExhaustedCause
<1>1. IInv => ExhaustedCause
  <2> SUFFICES ASSUME IInv, pc = "exhausted", ~first_step_, Stuck
               PROVE  \E c \in 1..MaxDepth : errs[c] = "nan"
    BY DEF IInv, Passes, ExhaustedCause
  <2> DEFINE c == ideal_rank_ + 1
  <2>1. c \in 1..MaxDepth
    BY BulirschStoerAssumption DEF IInv, TypeOK, Stuck
  <2>2. PassedOver(c) /\ InWindow(c)
    BY <2>1 DEF Stuck, InWindow, IInv, TypeOK
  <2>3. errs[c] \in Errors \cup {"none"}
    BY <2>1 DEF IInv, TypeOK
  <2>4. errs[c] = "nan"
    BY <2>2, <2>3 DEF PassedOver, DivergedAnyhow, Errors
  <2> QED BY <2>1, <2>4
<1> QED BY BulirschStoerInvariant, <1>1, PTL

(* A step is accepted only with a converged error, extrapolated from rows   *)
(* of one attempt that all began at the state before the step.              *)
THEOREM BulirschStoerAcceptsConverged == Spec => AcceptsConverged
<1>1. IInv /\ [Next]_vars =>
        [steps' > steps => errs[k] = "ok" /\ \A c \in 0..k : rows[c] = try]_vars
  <2> SUFFICES ASSUME IInv, Next, steps' > steps
               PROVE  errs[k] = "ok" /\ \A c \in 0..k : rows[c] = try
    OBVIOUS
  <2>1. steps \in Nat
    BY DEF IInv, TypeOK
  <2>2. Accept
    <3>1. steps' # steps
      BY <2>1
    <3>2. ~Begin /\ ~BaseRow /\ ~Column /\ ~Overrun
      BY <3>1 DEF Begin, BaseRow, Column, Overrun, history
    <3>3. ~Reject /\ ~NextColumn /\ ~OutOfColumns
      BY <3>1 DEF Reject, NextColumn, OutOfColumns, history
    <3> QED BY <3>2, <3>3 DEF Next
  <2>3. k \in 1..MaxDepth /\ rows[k] = try /\ \A c \in 0..(k - 1) : rows[c] = try
    BY <2>2 DEF IInv, Accept, Columns, Rows, InAttempt
  <2>4. \A c \in 0..k : c = k \/ c \in 0..(k - 1)
    BY <2>3
  <2> QED BY <2>2, <2>3, <2>4 DEF Accept, Converged
<1> QED BY BulirschStoerInvariant, <1>1, PTL DEF Spec, AcceptsConverged

-----------------------------------------------------------------------------
(* SequentOdeIterator.  Its invariant says in each place what the arrays    *)
(* hold: from the first refinement on the finest result but one is in       *)
(* output, and after the comparison the finest is where it is returned.     *)
SeqState == [call : Int, steps : Int, of : Int]

SeqInv ==
  /\ seqPc \in {"idle", "refine", "compare", "done"}
  /\ call \in Nat /\ refined \in Int
  /\ system \in SeqState /\ input \in SeqState /\ output \in SeqState /\ dual \in SeqState
  /\ seqPc = "refine" \/ seqPc = "compare" =>
       /\ refined \in 1..SeqMaxIter
       /\ input = Untouched(call)
       /\ IsResult(output, refined - 1)
  /\ seqPc = "compare" => IsResult(dual, refined)
  /\ seqPc = "done" => IF refined <= SeqMaxIter THEN IsResult(dual, refined)
                       ELSE IsResult(dual, SeqMaxIter - 1)
  /\ seqPc = "idle" /\ call > 0 =>
       IF refined <= SeqMaxIter THEN IsResult(system, refined)
       ELSE IsResult(system, SeqMaxIter - 1)

LEMMA NsType == ns(0) = 1 /\ \A i \in 0..12 : ns(i) \in Int
BY DEF ns

(* Some sub-steps from the input of the call are a result of it.            *)
LEMMA IntegratedIs ==
  ASSUME NEW c \in Int, NEW n \in Int
  PROVE  Integrated(Untouched(c), n) = [call |-> c, steps |-> n, of |-> n]
<1>1. [[call |-> c, steps |-> 0, of |-> 1] EXCEPT !.steps = 0 + n, !.of = n]
        = [call |-> c, steps |-> n, of |-> n]
  <2> DEFINE s == [call |-> c, steps |-> 0, of |-> 1]
             t == [s EXCEPT !.steps = n, !.of = n]
  <2>1. s \in SeqState
    BY DEF SeqState
  <2>2. t \in SeqState /\ t.call = c /\ t.steps = n /\ t.of = n
    <3>1. s.call = c
      OBVIOUS
    <3> HIDE DEF s
    <3> QED BY <2>1, <3>1 DEF SeqState
  <2>3. 0 + n = n
    OBVIOUS
  <2> HIDE DEF t
  <2>4. t = [call |-> c, steps |-> n, of |-> n]
    BY <2>2 DEF SeqState
  <2> QED BY <2>3, <2>4 DEF t
<1> QED
  BY <1>1 DEF Integrated, Untouched

LEMMA SeqInitInv == IteratorsInit => SeqInv
BY DEF IteratorsInit, SeqInit, SeqInv, Untouched, SeqState

LEMMA SeqStepInv == SeqInv /\ [IteratorsNext]_iteratorVars => SeqInv'
<1> SUFFICES ASSUME SeqInv, [IteratorsNext]_iteratorVars PROVE SeqInv'
  OBVIOUS
<1>1. SeqNext \/ UNCHANGED seqVars
  BY DEF IteratorsNext, iteratorVars
<1>2. SeqMaxIter \in 1..12
  BY SequentAssumption
<1>3. CASE SeqBegin
  <2>1. call + 1 \in Int /\ call' = call + 1 /\ call' \in Nat
    BY <1>3 DEF SeqBegin, SeqInv
  <2>2. output' = [call |-> call', steps |-> 1, of |-> 1] /\ system' = output'
    BY <1>3, <2>1, IntegratedIs DEF SeqBegin
  <2>3. input' = Untouched(call') /\ input' \in SeqState /\ output' \in SeqState
    BY <1>3, <2>1, <2>2 DEF SeqBegin, Untouched, SeqState
  <2>4. IsResult(output, refined - 1)'
    BY <1>3, <2>2, NsType DEF SeqBegin, IsResult
  <2> QED BY <1>2, <1>3, <2>1, <2>2, <2>3, <2>4 DEF SeqBegin, SeqInv
<1>4. CASE Refine
  <2>1. /\ refined \in 1..SeqMaxIter /\ ns(refined) \in Int /\ call \in Int
        /\ input = Untouched(call)
    BY <1>2, <1>4, NsType DEF Refine, SeqInv
  <2>2. dual' = [call |-> call, steps |-> ns(refined), of |-> ns(refined)] /\ system' = dual'
    BY <1>4, <2>1, IntegratedIs DEF Refine, FromInput
  <2>3. dual' \in SeqState
    BY <2>1, <2>2 DEF SeqState
  <2>4. IsResult(dual, refined)' /\ IsResult(output, refined - 1)'
    BY <1>4, <2>2 DEF Refine, SeqInv, IsResult
  <2> QED BY <1>4, <2>1, <2>2, <2>3, <2>4 DEF Refine, SeqInv
<1>5. CASE Differ
  <2>1. /\ refined \in 1..SeqMaxIter /\ refined' = refined + 1
        /\ output' = dual /\ dual' = output /\ UNCHANGED <<call, system, input>>
        /\ IsResult(dual, refined) /\ IsResult(output, refined - 1)
    BY <1>5 DEF Differ, Swapped, SeqInv
  <2>2. refined' - 1 = refined /\ (refined' > SeqMaxIter => refined - 1 = SeqMaxIter - 1)
    BY <1>2, <2>1
  <2>3. IsResult(output, refined - 1)' /\ (refined' > SeqMaxIter => IsResult(dual, SeqMaxIter - 1)')
    BY <2>1, <2>2 DEF IsResult
  <2> QED BY <1>2, <1>5, <2>1, <2>3 DEF Differ, SeqInv
<1>6. CASE Agree
  BY <1>6 DEF Agree, SeqInv, IsResult
<1>7. CASE SeqReturn
  BY <1>7 DEF SeqReturn, SeqInv, IsResult
<1>8. CASE UNCHANGED seqVars
  BY <1>8 DEF seqVars, SeqInv, IsResult
<1> QED
  BY <1>1, <1>3, <1>4, <1>5, <1>6, <1>7, <1>8 DEF SeqNext

(* Two results that are compared are of the whole step and of this call,    *)
(* and what is returned is the finest, or the second finest if no two ever  *)
(* agreed, for any bound on the refinements the table allows.               *)
THEOREM SequentTakesTheFinest == IteratorsSpec => []TakesTheFinest
<1>1. SeqInv => TakesTheFinest
  BY DEF SeqInv, TakesTheFinest
<1> QED
  BY <1>1, SeqInitInv, SeqStepInv, PTL DEF IteratorsSpec

-----------------------------------------------------------------------------
(* IAS15.                                                                   *)
RadauCounters ==
  /\ radauPc \in {"idle", "correct", "judge", "once", "aborted"}
  /\ radauK \in 0..MaxIter /\ iter_h \in (0..MaxLength) \cup {NaN}

LEMMA RadauCountersStep == RadauCounters /\ [IteratorsNext]_iteratorVars => RadauCounters'
<1> SUFFICES ASSUME RadauCounters, [IteratorsNext]_iteratorVars PROVE RadauCounters'
  OBVIOUS
<1>1. RadauNext \/ UNCHANGED radauVars
  BY DEF IteratorsNext, iteratorVars
<1>2. MaxIter \in Nat \ {0} /\ MaxLength \in Nat
  BY IAS15Assumption
<1>3. CASE RadauBegin
  BY <1>2, <1>3 DEF RadauBegin, RadauCounters
<1>4. CASE Correct
  BY <1>2, <1>4 DEF Correct, Converge, Counted, RadauCounters
<1>10. CASE CorrectNaN
  BY <1>2, <1>10 DEF CorrectNaN, Converge, Counted, RadauCounters
<1>5. CASE RadauAccept
  BY <1>5 DEF RadauAccept, RadauCounters
<1>6. CASE RadauReject
  BY <1>2, <1>6 DEF RadauReject, RadauCounters, NaN
<1>7. CASE RadauAbort
  BY <1>7 DEF RadauAbort, RadauCounters
<1>8. CASE IntegrateOnce
  BY <1>8 DEF IntegrateOnce, RadauCounters
<1>9. CASE UNCHANGED radauVars
  BY <1>9 DEF radauVars, RadauCounters
<1> QED
  BY <1>1, <1>3, <1>4, <1>5, <1>6, <1>7, <1>8, <1>9, <1>10 DEF RadauNext

(* Each step of a call of iterate brings it nearer to its end, for any      *)
(* bound on the corrections and any length of the step.                     *)
THEOREM IAS15CountsDown == IteratorsSpec => CountsDown
<1>1. IteratorsInit => RadauCounters
  BY IAS15Assumption DEF IteratorsInit, RadauInit, RadauCounters
<1> DEFINE Down == (radauPc \in {"correct", "judge", "once"})
                     => \/ radauPc' \in {"idle", "aborted"}
                        \/ iter_h' < iter_h
                        \/ (iter_h' = iter_h /\ Left' < Left)
<1>2. RadauCounters /\ [IteratorsNext]_iteratorVars => [Down]_radauVars
  <2> SUFFICES ASSUME RadauCounters, RadauNext,
                      radauPc \in {"correct", "judge", "once"}
               PROVE  \/ radauPc' \in {"idle", "aborted"}
                      \/ iter_h' < iter_h
                      \/ (iter_h' = iter_h /\ Left' < Left)
    BY DEF IteratorsNext, iteratorVars
  <2>1. MaxIter \in Nat \ {0} /\ MaxLength \in Nat
    BY IAS15Assumption
  <2>2. CASE Correct \/ CorrectNaN
    <3>1. /\ radauPc = "correct" /\ radauK < MaxIter /\ radauK \in 0..MaxIter
          /\ iter_h' = iter_h
          /\ radauPc' = "judge" \/ (radauPc' = radauPc /\ radauK' = radauK + 1)
      BY <2>2 DEF Correct, CorrectNaN, Converge, Counted, RadauCounters
    <3> QED BY <2>1, <3>1 DEF Left
  <2>3. CASE RadauReject
    BY <2>1, <2>3 DEF RadauReject, RadauCounters, NaN
  <2>4. CASE RadauAccept \/ RadauAbort \/ IntegrateOnce
    BY <2>4 DEF RadauAccept, RadauAbort, IntegrateOnce
  <2> QED BY <2>2, <2>3, <2>4 DEF RadauNext, RadauBegin
<1> QED
  BY <1>1, <1>2, RadauCountersStep, PTL DEF IteratorsSpec, CountsDown

(* The tables stay what IAS15_proofs says they are.                         *)
LEMMA RadauTablesKept == IteratorsSpec => []RadauTables
<1>1. IteratorsInit => RadauTables
  BY RadauTablesInit DEF IteratorsInit
<1>2. RadauTables /\ [IteratorsNext]_iteratorVars => RadauTables'
  <2>1. [IteratorsNext]_iteratorVars => [RadauNext]_radauVars
    BY DEF IteratorsNext, iteratorVars
  <2> QED BY <2>1, RadauTablesStep
<1> QED
  BY <1>1, <1>2, PTL DEF IteratorsSpec

(* When a step or a rejected one is judged, the polynomial of b has at      *)
(* every node the acceleration that was found there last, in every prime    *)
(* field and whatever the tables were predicted from.                       *)
THEOREM IAS15Interpolates == IteratorsSpec => []Interpolates
<1> QED
  BY RadauTablesKept, RadauInterpolates, PTL

(* What a step predicts for the next one is the same polynomial, seen from  *)
(* the end of the step and with any ratio of the lengths.                   *)
THEOREM IAS15PredictsSame == IteratorsSpec => []PredictsSame
<1> QED
  BY RadauTablesKept, RadauPredicts, PTL

-----------------------------------------------------------------------------
(* The symplectic methods.                                                  *)

(* A sequence of fractions that is the same from both ends, with as many    *)
(* before its middle as after it.                                           *)
Palindrome(f) ==
  /\ Len(f) \in Nat /\ Len(f) % 2 = 1
  /\ \A q \in 1..Len(f) : f[q] \in Int /\ f[Len(f) + 1 - q] = f[q]

LEMMA Palindrome3 == Palindrome(Symplectic2nd) /\ Palindrome(LeapFrogKDK)
BY DEF Palindrome, Symplectic2nd, LeapFrogKDK

LEMMA Palindrome7 == Palindrome(Symplectic4th)
BY DEF Palindrome, Symplectic4th

LEMMA Palindrome15 == Palindrome(Symplectic6th)
BY DEF Palindrome, Symplectic6th

LEMMA Palindrome31 == Palindrome(Symplectic8th)
BY SMTT(60) DEF Palindrome, Symplectic8th

LEMMA Palindrome63 == Palindrome(Symplectic10th)
BY SMTT(120) DEF Palindrome, Symplectic10th

LEMMA FractionsPalindrome ==
  ASSUME NEW m \in Methods
  PROVE  Palindrome(Fractions(m))
<1>1. CASE m \in {"2nd", "KDK"}
  BY <1>1, Palindrome3 DEF Fractions
<1>2. CASE m \in {"4th", "6th"}
  BY <1>2, Palindrome7, Palindrome15 DEF Fractions
<1>3. CASE m \in {"8th", "10th"}
  BY <1>3, Palindrome31, Palindrome63 DEF Fractions
<1> QED BY <1>1, <1>2, <1>3 DEF Methods

Coordinate == 0..(Modulus - 1)
ParticleSet == [pos : Coordinate, vel : Coordinate]

(* Every number is a multiple of the modulus and the rest.                  *)
LEMMA Rest ==
  ASSUME NEW x \in Int
  PROVE  /\ x % Modulus \in Coordinate
         /\ \E i \in Int : x = Modulus * i + (x % Modulus)
<1>1. Modulus \in Nat \ {0}
  BY SymplecticAssumption
<1>2. x = Modulus * (x \div Modulus) + (x % Modulus) /\ x \div Modulus \in Int
  BY <1>1, SMT
<1>3. x % Modulus \in Coordinate
  BY <1>1 DEF Coordinate
<1> QED BY <1>2, <1>3

(* Two coordinates that differ by a multiple of the modulus are the same.   *)
LEMMA SameRest ==
  ASSUME NEW x \in Coordinate, NEW y \in Coordinate, NEW i \in Int,
         x - y = Modulus * i
  PROVE  x = y
<1>1. Modulus \in Nat \ {0}
  BY SymplecticAssumption
<1>2. /\ x \in Int /\ y \in Int /\ 0 <= x /\ x < Modulus /\ 0 <= y /\ y < Modulus
  BY <1>1 DEF Coordinate
<1>3. i >= 1 => Modulus * i >= Modulus
  BY <1>1, SMT
<1>4. i <= -1 => Modulus * i <= -Modulus
  BY <1>1, SMT
<1>5. i = 0 => Modulus * i = 0
  BY <1>1
<1>6. i >= 1 \/ i <= -1 \/ i = 0
  OBVIOUS
<1> DEFINE mi == Modulus * i
<1>7. mi \in Int
  BY <1>1
<1> HIDE DEF mi
<1> QED BY <1>1, <1>2, <1>3, <1>4, <1>5, <1>6, <1>7 DEF mi

(* Shifting by the opposite fraction of the step shifts back.               *)
LEMMA ShiftedBack ==
  ASSUME NEW x \in Coordinate, NEW d \in Int, NEW h \in Int
  PROVE  /\ Shifted(x, d, h) \in Coordinate
         /\ Shifted(Shifted(x, d, h), d, -h) = x
<1> DEFINE a == h % Modulus
           b == (-h) % Modulus
           s == (x + a * d) % Modulus
           r == (s + b * d) % Modulus
<1>1. Modulus \in Int /\ x \in Int /\ -h \in Int
  BY SymplecticAssumption DEF Coordinate
<1>2. a \in Int /\ b \in Int
  BY <1>1, SymplecticAssumption
<1>3. a * d \in Int /\ b * d \in Int
  BY <1>2
<1>4. PICK i \in Int : h = Modulus * i + a
  BY Rest
<1>5. PICK j \in Int : -h = Modulus * j + b
  BY <1>1, Rest
<1>6. x + a * d \in Int
  BY <1>1, <1>3
<1>7. s \in Coordinate /\ \E q \in Int : x + a * d = Modulus * q + s
  BY <1>6, Rest
<1>8. PICK q \in Int : x + a * d = Modulus * q + s
  BY <1>7
<1>9. s \in Int
  BY <1>7 DEF Coordinate
<1>10. s + b * d \in Int
  BY <1>3, <1>9
<1>11. r \in Coordinate /\ \E l \in Int : s + b * d = Modulus * l + r
  BY <1>10, Rest
<1>12. PICK l \in Int : s + b * d = Modulus * l + r
  BY <1>11
<1>13. r \in Int
  BY <1>11 DEF Coordinate
<1> HIDE DEF a, b, s, r
<1>14. a + b = -(Modulus * i) - Modulus * j
  <2>1. Modulus * i \in Int /\ Modulus * j \in Int
    BY <1>1
  <2> QED BY <1>2, <1>4, <1>5, <2>1
<1>15. a + b = Modulus * (-(i + j))
  BY <1>1, <1>14
<1>16. a * d + b * d = Modulus * ((-(i + j)) * d)
  <2>1. a * d + b * d = (a + b) * d
    BY <1>2
  <2>2. \A u, v, w \in Int : (u * v) * w = u * (v * w)
    OBVIOUS
  <2> QED BY <1>1, <1>15, <2>1, <2>2
<1>17. x - r = Modulus * q + Modulus * l - (a * d + b * d)
  <2>1. Modulus * q \in Int /\ Modulus * l \in Int
    BY <1>1
  <2> DEFINE mk == Modulus * q
             ml == Modulus * l
             ad == a * d
             bd == b * d
  <2>2. /\ mk \in Int /\ ml \in Int /\ ad \in Int /\ bd \in Int
        /\ x + ad = mk + s /\ s + bd = ml + r
    BY <1>3, <1>8, <1>12, <2>1
  <2> HIDE DEF mk, ml, ad, bd
  <2>3. x - r = mk + ml - (ad + bd)
    BY <1>1, <1>9, <1>13, <2>2
  <2> QED BY <2>3 DEF mk, ml, ad, bd
<1> DEFINE c == (-(i + j)) * d
<1>18. c \in Int
  OBVIOUS
<1>19. a * d + b * d = Modulus * c
  BY <1>16
<1> HIDE DEF c
<1>20. x - r = Modulus * (q + l - c) /\ q + l - c \in Int
  BY <1>1, <1>17, <1>18, <1>19
<1>21. x = r
  BY <1>11, <1>20, SameRest
<1> QED BY <1>7, <1>21 DEF Shifted, a, b, s, r

(* A drift or a kick is undone by the one of the opposite length.           *)
LEMMA MovedBack ==
  ASSUME NEW p \in ParticleSet, NEW d \in BOOLEAN, NEW h \in Int
  PROVE  /\ MovedBy(d, h, p) \in ParticleSet
         /\ MovedBy(d, -h, MovedBy(d, h, p)) = p
<1>1. /\ p.pos \in Coordinate /\ p.vel \in Coordinate
      /\ p = [pos |-> p.pos, vel |-> p.vel]
  BY DEF ParticleSet
<1>2. Acceleration(p.pos) \in Int /\ p.vel \in Int
  BY <1>1, SymplecticAssumption DEF Coordinate
<1>3. /\ Shifted(p.pos, p.vel, h) \in Coordinate
      /\ Shifted(Shifted(p.pos, p.vel, h), p.vel, -h) = p.pos
  BY <1>1, <1>2, ShiftedBack
<1>4. /\ Shifted(p.vel, Acceleration(p.pos), h) \in Coordinate
      /\ Shifted(Shifted(p.vel, Acceleration(p.pos), h), Acceleration(p.pos), -h) = p.vel
  BY <1>1, <1>2, ShiftedBack
<1> QED BY <1>1, <1>3, <1>4 DEF MovedBy, ParticleSet

(* The n first drifts and kicks of a step by the method, from the start on. *)
IsPath(tr, n) ==
  /\ tr \in [0..n -> ParticleSet]
  /\ tr[0] = symStart
  /\ \A j \in 1..n :
       tr[j] = MovedBy(IsDrift(symMethod, j), Fractions(symMethod)[j], tr[j - 1])

(* A step has made as many moves of the path as calls; the step back has    *)
(* taken as many of them back.                                              *)
OnItsPath ==
  /\ symPc = "before" => particle = symStart
  /\ symPc = "step" => \E tr : IsPath(tr, symAt) /\ particle = tr[symAt]
  /\ symPc = "undoing" => \E tr : IsPath(tr, Length) /\ particle = tr[Length - symAt]

SymInv ==
  /\ symMethod \in Methods /\ symPc \in {"before", "step", "undoing"}
  /\ symAt \in 0..Length
  /\ particle \in ParticleSet /\ symStart \in ParticleSet
  /\ OnItsPath

LEMMA LengthOdd ==
  ASSUME symMethod \in Methods
  PROVE  /\ Length \in Nat /\ Length % 2 = 1
         /\ \A j \in 1..Length : /\ Fractions(symMethod)[j] \in Int
                                 /\ Fractions(symMethod)[Length + 1 - j]
                                      = Fractions(symMethod)[j]
BY FractionsPalindrome DEF Palindrome, Length

LEMMA SymInitInv == IteratorsInit => SymInv
<1> SUFFICES ASSUME IteratorsInit PROVE SymInv
  OBVIOUS
<1>1. /\ symMethod \in Methods /\ symPc = "before" /\ symAt = 0
      /\ particle \in SymStarts /\ symStart = particle
  BY DEF IteratorsInit, SymInit
<1>2. particle \in ParticleSet
  BY <1>1, SymplecticAssumption DEF ParticleSet, Coordinate
<1> QED BY <1>1, <1>2, LengthOdd DEF SymInv, OnItsPath

LEMMA SymMoveForth ==
  ASSUME SymInv, SymMove, symPc = "step"
  PROVE  SymInv'
<1> DEFINE f == Fractions(symMethod)
           n == symAt + 1
<1>1. /\ Length \in Nat /\ symAt \in 0..Length /\ symAt < Length /\ n \in 1..Length
      /\ f[n] \in Int /\ n - 1 = symAt
  BY LengthOdd DEF SymInv, SymMove
<1>2. /\ particle' = MovedBy(IsDrift(symMethod, n), f[n], particle)
      /\ symAt' = n
      /\ UNCHANGED <<symMethod, symPc, symStart>> /\ Length' = Length
  BY DEF SymMove, Length
<1>3. particle' \in ParticleSet
  BY <1>1, <1>2, MovedBack DEF SymInv, IsDrift
<1>4. PICK tr : IsPath(tr, symAt) /\ particle = tr[symAt]
  BY DEF SymInv, OnItsPath
<1> DEFINE longer == [j \in 0..n |-> IF j = n THEN particle' ELSE tr[j]]
<1>5. longer \in [0..n -> ParticleSet]
  BY <1>1, <1>3, <1>4 DEF IsPath
<1>6. longer[0] = symStart' /\ longer[n] = particle'
  BY <1>1, <1>2, <1>4 DEF IsPath
<1>7. ASSUME NEW j \in 1..n
      PROVE  longer[j] = MovedBy(IsDrift(symMethod, j), f[j], longer[j - 1])
  <2>1. CASE j = n
    <3>1. longer[j - 1] = particle /\ longer[j] = particle'
      BY <1>1, <1>4, <2>1
    <3> QED BY <1>2, <2>1, <3>1
  <2>2. CASE j # n
    <3>1. j \in 1..symAt /\ longer[j - 1] = tr[j - 1] /\ longer[j] = tr[j]
      BY <1>1, <2>2
    <3> QED BY <1>4, <3>1 DEF IsPath
  <2> QED BY <2>1, <2>2
<1> HIDE DEF longer
<1>8. PICK path : /\ path \in [0..symAt' -> ParticleSet]
                  /\ path[0] = symStart' /\ path[symAt'] = particle'
                  /\ \A j \in 1..symAt' :
                       path[j] = MovedBy(IsDrift(symMethod, j), f[j], path[j - 1])
  BY <1>2, <1>5, <1>6, <1>7
<1>9. IsPath(path, symAt)'
  BY <1>2, <1>8 DEF IsPath
<1>10. OnItsPath'
  BY <1>2, <1>8, <1>9 DEF OnItsPath
<1> QED
  BY <1>1, <1>2, <1>3, <1>10 DEF SymInv

LEMMA SymMoveBack ==
  ASSUME SymInv, SymMove, symPc = "undoing"
  PROVE  SymInv'
<1> DEFINE f == Fractions(symMethod)
           n == symAt + 1
           left == Length - symAt
<1>1. /\ Length \in Nat /\ Length % 2 = 1 /\ symAt \in 0..Length /\ symAt < Length
      /\ n \in 1..Length /\ left \in 1..Length /\ left = Length + 1 - n
      /\ left - 1 = Length - n
  BY LengthOdd DEF SymInv, SymMove
<1>2. f[left] = f[n] /\ f[n] \in Int
  <2>1. f[Length + 1 - n] = f[n] /\ f[n] \in Int
    BY <1>1, LengthOdd DEF SymInv
  <2> QED BY <1>1, <2>1
<1>3. IsDrift(symMethod, n) = IsDrift(symMethod, left)
  <2>1. (n % 2 = 1) <=> (left % 2 = 1)
    BY <1>1
  <2> QED BY <2>1 DEF IsDrift
<1>4. /\ particle' = MovedBy(IsDrift(symMethod, n), -f[n], particle)
      /\ symAt' = n
      /\ UNCHANGED <<symMethod, symPc, symStart>> /\ Length' = Length
  BY DEF SymMove, Length
<1>5. PICK tr : IsPath(tr, Length) /\ particle = tr[left]
  BY DEF SymInv, OnItsPath
<1>6. tr[left - 1] \in ParticleSet
  BY <1>1, <1>5 DEF IsPath
<1>7. particle = MovedBy(IsDrift(symMethod, left), f[left], tr[left - 1])
  BY <1>1, <1>5 DEF IsPath
<1>8. particle' = tr[left - 1]
  BY <1>2, <1>3, <1>4, <1>6, <1>7, MovedBack DEF IsDrift
<1>9. IsPath(tr, Length)'
  BY <1>4, <1>5 DEF IsPath
<1>10. OnItsPath'
  BY <1>1, <1>4, <1>8, <1>9 DEF OnItsPath
<1> QED
  BY <1>1, <1>4, <1>6, <1>8, <1>10 DEF SymInv

LEMMA SymStepInv == SymInv /\ [IteratorsNext]_iteratorVars => SymInv'
<1> SUFFICES ASSUME SymInv, [IteratorsNext]_iteratorVars PROVE SymInv'
  OBVIOUS
<1>1. CASE SymBegin
  <2>1. /\ symPc' = "step" /\ symAt' = 0 /\ symStart' = particle
        /\ UNCHANGED <<symMethod, particle>> /\ Length' = Length
    BY <1>1 DEF SymBegin, Length
  <2> DEFINE tr == [j \in 0..0 |-> particle]
  <2>2. IsPath(tr, 0)' /\ particle' = tr[0]
    BY <2>1 DEF SymInv, IsPath
  <2>3. OnItsPath'
    BY <2>1, <2>2 DEF OnItsPath
  <2> QED BY <2>1, <2>3, LengthOdd DEF SymInv
<1>2. CASE SymMove
  BY <1>2, SymMoveForth, SymMoveBack DEF SymMove
<1>3. CASE SymReturn
  <2>1. /\ symAt = Length /\ symAt' = 0
        /\ UNCHANGED <<symMethod, particle, symStart>> /\ Length' = Length
        /\ Length \in Nat
    BY <1>3, LengthOdd DEF SymReturn, SymInv, Length
  <2>2. CASE symPc = "step"
    <3>1. symPc' = "undoing"
      BY <1>3, <2>2 DEF SymReturn
    <3>2. PICK tr : IsPath(tr, Length) /\ particle = tr[Length]
      BY <2>1, <2>2 DEF SymInv, OnItsPath
    <3>3. IsPath(tr, Length)'
      BY <2>1, <3>2 DEF IsPath
    <3>4. OnItsPath'
      BY <2>1, <3>1, <3>2, <3>3 DEF OnItsPath
    <3> QED BY <2>1, <3>1, <3>4 DEF SymInv
  <2>3. CASE symPc = "undoing"
    <3>1. symPc' = "before"
      BY <1>3, <2>3 DEF SymReturn
    <3>2. PICK tr : IsPath(tr, Length) /\ particle = tr[Length - symAt]
      BY <2>3 DEF SymInv, OnItsPath
    <3>3. particle = symStart
      BY <2>1, <3>2 DEF IsPath
    <3> QED BY <2>1, <3>1, <3>3 DEF SymInv, OnItsPath
  <2> QED BY <1>3, <2>2, <2>3 DEF SymReturn
<1>4. CASE UNCHANGED symVars
  BY <1>4 DEF symVars, SymInv, OnItsPath, IsPath, Length
<1> QED
  BY <1>1, <1>2, <1>3, <1>4 DEF IteratorsNext, iteratorVars, SymNext

(* A step by 1 and the step back by -1 end where they began, for every      *)
(* method, acceleration, modulus and start: the fractions are the same      *)
(* from both ends, so the last drift or kick of the step back undoes the    *)
(* first of the step.                                                       *)
THEOREM SymplecticReverses == IteratorsSpec => []Reversible
<1>1. SymInv => Reversible
  BY DEF SymInv, OnItsPath, Reversible
<1> QED
  BY <1>1, SymInitInv, SymStepInv, PTL DEF IteratorsSpec

-----------------------------------------------------------------------------
(* The fractions, by tables: a step drifts and kicks by the whole step and  *)
(* the method is made of leapfrogs.  The tables hold running sums, so that  *)
(* each entry follows from the one before it and its last one is the sum.   *)

(* Symplectic2nd: the running sums of its fractions.                        *)
Outer2nd ==
  <<50000000, 100000000>>

Inner2nd ==
  <<100000000>>

Lengths2nd ==
  <<10000>>

(* Symplectic4th: the running sums of its fractions, its lengths and their powers.  *)
Outer4th ==
  <<67560360, 50000000, 32439640, 100000000>>

Inner4th ==
  <<135120719, -35120719, 100000000>>

Lengths4th ==
  <<13512, -17024, 13512>>

Powers3of4th ==
  <<24668, -49338, 24668>>

Sums3of4th ==
  <<24668, -24670, -2>>

(* Symplectic6th: the running sums of its fractions, its lengths and their powers.  *)
Outer6th ==
  <<39225681, 90230022, 43124683, 50000000, 56875317, 9769978, 60774319,
    100000000>>

Inner6th ==
  <<78451361, 102008682, -15759316, 115759316, -2008682, 21548639,
    100000000>>

Lengths6th ==
  <<7845, 2356, -11777, 13152, -11777, 2356, 7845>>

Powers3of6th ==
  <<4827, 129, -16334, 22748, -16334, 129, 4827>>

Sums3of6th ==
  <<4827, 4956, -11378, 11370, -4964, -4835, -8>>

Powers5of6th ==
  <<2969, 6, -22655, 39347, -22655, 6, 2969>>

Sums5of6th ==
  <<2969, 2975, -19680, 19667, -2988, -2982, -13>>

(* Symplectic8th: the running sums of its fractions, its lengths and their powers.  *)
Outer8th ==
  <<52121310, 195252936, 294150248, 424038611, 545681483, 422973397,
    219832619, 50000001, -119832617, -322973395, -445681481, -324038609,
    -194150246, -95252934, 47878692, 100000002>>

Inner8th ==
  <<104242621, 286263252, 302037245, 546039978, 545322989, 300623807,
    139041433, -39041430, -200623804, -445322986, -446039975, -202037242,
    -186263249, -4242618, 100000003>>

Lengths8th ==
  <<10424, 18202, 1577, 24400, -72, -24470, -16158, -17808, -16158, -24470,
    -72, 24400, 1577, 18202, 10424>>

Powers3of8th ==
  <<11324, 60302, 38, 145267, -1, -146520, -42185, -56474, -42185, -146520,
    -1, 145267, 38, 60302, 11324>>

Sums3of8th ==
  <<11324, 71626, 71664, 216931, 216930, 70410, 28225, -28249, -70434,
    -216954, -216955, -71688, -71650, -11348, -24>>

Powers5of8th ==
  <<12304, 199786, 0, 864860, -1, -877334, -110135, -179093, -110135,
    -877334, -1, 864860, 0, 199786, 12304>>

Sums5of8th ==
  <<12304, 212090, 212090, 1076950, 1076949, 199615, 89480, -89613, -199748,
    -1077082, -1077083, -212223, -212223, -12437, -133>>

Powers7of8th ==
  <<13368, 661913, 0, 5149029, -1, -5253306, -287540, -567948, -287540,
    -5253306, -1, 5149029, 0, 661913, 13368>>

Sums7of8th ==
  <<13368, 675281, 675281, 5824310, 5824309, 571003, 283463, -284485,
    -572025, -5825331, -5825332, -676303, -676303, -14390, -1022>>

(* Symplectic10th: the running sums of its fractions, its lengths and their powers. *)
Outer10th ==
  <<30610967, 21209697, -44792939, -60033337, -71783906, -49533128, 1755720,
    34851516, 28846497, -48110209, -55797432, -13320145, 29840747, 35384233,
    16095612, 49999999, 83904386, 64615765, 70159251, 113320143, 155797430,
    148110207, 71153501, 65148482, 98244278, 149533126, 171783904,
    160033335, 144792937, 78790301, 69389031, 99999998>>

Inner10th ==
  <<61221934, -18802540, -70783338, -49283336, -94284477, -4781780, 8293219,
    61409812, -3716820, -92503601, -19091266, -7549027, 67230519, 3537946,
    28653277, 71346721, 96462052, 32769479, 107549025, 119091264, 192503599,
    103716818, 38590186, 91706779, 104781778, 194284475, 149283334,
    170783336, 118802538, 38778064, 99999998>>

Lengths10th ==
  <<6122, -8002, -5198, 2150, -4500, 8950, 1307, 5312, -6513, -8879, 7341,
    1154, 7478, -6369, 2512, 4269, 2512, -6369, 7478, 1154, 7341, -8879,
    -6513, 5312, 1307, 8950, -4500, 2150, -5198, -8002, 6122>>

Powers3of10th ==
  <<2293, -5124, -1404, 99, -912, 7168, 22, 1498, -2763, -7000, 3954, 14,
    4180, -2584, 157, 776, 157, -2584, 4180, 14, 3954, -7000, -2763, 1498,
    22, 7168, -912, 99, -1404, -5124, 2293>>

Sums3of10th ==
  <<2293, -2831, -4235, -4136, -5048, 2120, 2142, 3640, 877, -6123, -2169,
    -2155, 2025, -559, -402, 374, 531, -2053, 2127, 2141, 6095, -905, -3668,
    -2170, -2148, 5020, 4108, 4207, 2803, -2321, -28>>

Powers5of10th ==
  <<858, -3281, -380, 4, -185, 5740, 0, 421, -1172, -5519, 2128, 0, 2335,
    -1049, 9, 140, 9, -1049, 2335, 0, 2128, -5519, -1172, 421, 0, 5740,
    -185, 4, -380, -3281, 858>>

Sums5of10th ==
  <<858, -2423, -2803, -2799, -2984, 2756, 2756, 3177, 2005, -3514, -1386,
    -1386, 949, -100, -91, 49, 58, -991, 1344, 1344, 3472, -2047, -3219,
    -2798, -2798, 2942, 2757, 2761, 2381, -900, -42>>

Powers7of10th ==
  <<320, -2101, -102, 0, -38, 4596, 0, 118, -497, -4351, 1145, 0, 1304,
    -426, 0, 25, 0, -426, 1304, 0, 1145, -4351, -497, 118, 0, 4596, -38, 0,
    -102, -2101, 320>>

Sums7of10th ==
  <<320, -1781, -1883, -1883, -1921, 2675, 2675, 2793, 2296, -2055, -910,
    -910, 394, -32, -32, -7, -7, -433, 871, 871, 2016, -2335, -2832, -2714,
    -2714, 1882, 1844, 1844, 1742, -359, -39>>

Powers9of10th ==
  <<119, -1346, -28, 0, -8, 3679, 0, 32, -211, -3431, 616, 0, 728, -173, 0,
    4, 0, -173, 728, 0, 616, -3431, -211, 32, 0, 3679, -8, 0, -28, -1346,
    119>>

Sums9of10th ==
  <<119, -1227, -1255, -1255, -1263, 2416, 2416, 2448, 2237, -1194, -578,
    -578, 150, -23, -23, -19, -19, -192, 536, 536, 1152, -2279, -2490,
    -2458, -2458, 1221, 1213, 1213, 1185, -161, -42>>

(* The table r holds what the first n elements of f add up to.              *)
RunOf(r, f, n) ==
  /\ r[1] = f[1] /\ \A q \in 2..n : r[q] = r[q - 1] + f[q]
  /\ \A q \in 1..n : f[q] \in Int

(* Each outer fraction is half of the inner ones beside it, of which the    *)
(* first and the last one have only one.                                    *)
Halves(f, n) ==
  \A q \in 1..(n + 1) :
    Near(2 * f[2 * q - 1],
         (IF q = 1 THEN 0 ELSE f[2 * q - 2]) + (IF q = n + 1 THEN 0 ELSE f[2 * q]), 2)

Coarse(c, f, n) == \A q \in 1..n : c[q] \in Int /\ c[q] = (f[2 * q] + 5000) \div 10000

(* The powers of c, two higher than those of s.                             *)
NextPower(t, s, c, n) == \A q \in 1..n : t[q] = Product(Product(s[q], c[q]), c[q])

(* The entries of the tables, checked one by one.                           *)
LEMMA Tables2nd ==
  LET f == Symplectic2nd
  IN  /\ RunOf(Outer2nd, [q \in 1..2 |-> f[2 * q - 1]], 2)
      /\ RunOf(Inner2nd, [q \in 1..1 |-> f[2 * q]], 1)
      /\ Halves(f, 1) /\ Coarse(Lengths2nd, f, 1)

<1> DEFINE f == Symplectic2nd
<1>1. RunOf(Outer2nd, [q \in 1..2 |-> f[2 * q - 1]], 2)
  BY DEF RunOf, Outer2nd, Symplectic2nd
<1>2. RunOf(Inner2nd, [q \in 1..1 |-> f[2 * q]], 1)
  BY DEF RunOf, Inner2nd, Symplectic2nd
<1>3. Halves(f, 1)
  BY DEF Halves, Near, Symplectic2nd
<1>4. Coarse(Lengths2nd, f, 1)
  BY DEF Coarse, Lengths2nd, Symplectic2nd
<1> QED BY <1>1, <1>2, <1>3, <1>4

LEMMA Tables4th ==
  LET f == Symplectic4th
  IN  /\ RunOf(Outer4th, [q \in 1..4 |-> f[2 * q - 1]], 4)
      /\ RunOf(Inner4th, [q \in 1..3 |-> f[2 * q]], 3)
      /\ Halves(f, 3) /\ Coarse(Lengths4th, f, 3)
      /\ NextPower(Powers3of4th, Lengths4th, Lengths4th, 3)
      /\ RunOf(Sums3of4th, Powers3of4th, 3)

<1> DEFINE f == Symplectic4th
<1>1. RunOf(Outer4th, [q \in 1..4 |-> f[2 * q - 1]], 4)
  BY DEF RunOf, Outer4th, Symplectic4th
<1>2. RunOf(Inner4th, [q \in 1..3 |-> f[2 * q]], 3)
  BY DEF RunOf, Inner4th, Symplectic4th
<1>3. Halves(f, 3)
  BY DEF Halves, Near, Symplectic4th
<1>4. Coarse(Lengths4th, f, 3)
  BY DEF Coarse, Lengths4th, Symplectic4th
<1>5. NextPower(Powers3of4th, Lengths4th, Lengths4th, 3)
  BY DEF NextPower, Product, Powers3of4th, Lengths4th
<1>6. RunOf(Sums3of4th, Powers3of4th, 3)
  BY DEF RunOf, Sums3of4th, Powers3of4th
<1> QED BY <1>1, <1>2, <1>3, <1>4, <1>5, <1>6

LEMMA Tables6th ==
  LET f == Symplectic6th
  IN  /\ RunOf(Outer6th, [q \in 1..8 |-> f[2 * q - 1]], 8)
      /\ RunOf(Inner6th, [q \in 1..7 |-> f[2 * q]], 7)
      /\ Halves(f, 7) /\ Coarse(Lengths6th, f, 7)
      /\ NextPower(Powers3of6th, Lengths6th, Lengths6th, 7)
      /\ RunOf(Sums3of6th, Powers3of6th, 7)
      /\ NextPower(Powers5of6th, Powers3of6th, Lengths6th, 7)
      /\ RunOf(Sums5of6th, Powers5of6th, 7)

<1> DEFINE f == Symplectic6th
<1>1. RunOf(Outer6th, [q \in 1..8 |-> f[2 * q - 1]], 8)
  BY DEF RunOf, Outer6th, Symplectic6th
<1>2. RunOf(Inner6th, [q \in 1..7 |-> f[2 * q]], 7)
  BY DEF RunOf, Inner6th, Symplectic6th
<1>3. Halves(f, 7)
  BY DEF Halves, Near, Symplectic6th
<1>4. Coarse(Lengths6th, f, 7)
  BY DEF Coarse, Lengths6th, Symplectic6th
<1>5. NextPower(Powers3of6th, Lengths6th, Lengths6th, 7)
  BY DEF NextPower, Product, Powers3of6th, Lengths6th
<1>6. RunOf(Sums3of6th, Powers3of6th, 7)
  BY DEF RunOf, Sums3of6th, Powers3of6th
<1>7. NextPower(Powers5of6th, Powers3of6th, Lengths6th, 7)
  BY DEF NextPower, Product, Powers5of6th, Powers3of6th, Lengths6th
<1>8. RunOf(Sums5of6th, Powers5of6th, 7)
  BY DEF RunOf, Sums5of6th, Powers5of6th
<1> QED BY <1>1, <1>2, <1>3, <1>4, <1>5, <1>6, <1>7, <1>8

LEMMA Tables8th ==
  LET f == Symplectic8th
  IN  /\ RunOf(Outer8th, [q \in 1..16 |-> f[2 * q - 1]], 16)
      /\ RunOf(Inner8th, [q \in 1..15 |-> f[2 * q]], 15)
      /\ Halves(f, 15) /\ Coarse(Lengths8th, f, 15)
      /\ NextPower(Powers3of8th, Lengths8th, Lengths8th, 15)
      /\ RunOf(Sums3of8th, Powers3of8th, 15)
      /\ NextPower(Powers5of8th, Powers3of8th, Lengths8th, 15)
      /\ RunOf(Sums5of8th, Powers5of8th, 15)
      /\ NextPower(Powers7of8th, Powers5of8th, Lengths8th, 15)
      /\ RunOf(Sums7of8th, Powers7of8th, 15)

<1> DEFINE f == Symplectic8th
<1>1. RunOf(Outer8th, [q \in 1..16 |-> f[2 * q - 1]], 16)
  BY DEF RunOf, Outer8th, Symplectic8th
<1>2. RunOf(Inner8th, [q \in 1..15 |-> f[2 * q]], 15)
  BY DEF RunOf, Inner8th, Symplectic8th
<1>3. Halves(f, 15)
  BY DEF Halves, Near, Symplectic8th
<1>4. Coarse(Lengths8th, f, 15)
  BY DEF Coarse, Lengths8th, Symplectic8th
<1>5. NextPower(Powers3of8th, Lengths8th, Lengths8th, 15)
  BY DEF NextPower, Product, Powers3of8th, Lengths8th
<1>6. RunOf(Sums3of8th, Powers3of8th, 15)
  BY DEF RunOf, Sums3of8th, Powers3of8th
<1>7. NextPower(Powers5of8th, Powers3of8th, Lengths8th, 15)
  BY DEF NextPower, Product, Powers5of8th, Powers3of8th, Lengths8th
<1>8. RunOf(Sums5of8th, Powers5of8th, 15)
  BY DEF RunOf, Sums5of8th, Powers5of8th
<1>9. NextPower(Powers7of8th, Powers5of8th, Lengths8th, 15)
  BY DEF NextPower, Product, Powers7of8th, Powers5of8th, Lengths8th
<1>10. RunOf(Sums7of8th, Powers7of8th, 15)
  BY DEF RunOf, Sums7of8th, Powers7of8th
<1> QED BY <1>1, <1>2, <1>3, <1>4, <1>5, <1>6, <1>7, <1>8, <1>9, <1>10

LEMMA Tables10th ==
  LET f == Symplectic10th
  IN  /\ RunOf(Outer10th, [q \in 1..32 |-> f[2 * q - 1]], 32)
      /\ RunOf(Inner10th, [q \in 1..31 |-> f[2 * q]], 31)
      /\ Halves(f, 31) /\ Coarse(Lengths10th, f, 31)
      /\ NextPower(Powers3of10th, Lengths10th, Lengths10th, 31)
      /\ RunOf(Sums3of10th, Powers3of10th, 31)
      /\ NextPower(Powers5of10th, Powers3of10th, Lengths10th, 31)
      /\ RunOf(Sums5of10th, Powers5of10th, 31)
      /\ NextPower(Powers7of10th, Powers5of10th, Lengths10th, 31)
      /\ RunOf(Sums7of10th, Powers7of10th, 31)
      /\ NextPower(Powers9of10th, Powers7of10th, Lengths10th, 31)
      /\ RunOf(Sums9of10th, Powers9of10th, 31)

<1> DEFINE f == Symplectic10th
<1>1. RunOf(Outer10th, [q \in 1..32 |-> f[2 * q - 1]], 32)
  BY DEF RunOf, Outer10th, Symplectic10th
<1>2. RunOf(Inner10th, [q \in 1..31 |-> f[2 * q]], 31)
  BY DEF RunOf, Inner10th, Symplectic10th
<1>3. Halves(f, 31)
  BY DEF Halves, Near, Symplectic10th
<1>4. Coarse(Lengths10th, f, 31)
  BY DEF Coarse, Lengths10th, Symplectic10th
<1>5. NextPower(Powers3of10th, Lengths10th, Lengths10th, 31)
  BY DEF NextPower, Product, Powers3of10th, Lengths10th
<1>6. RunOf(Sums3of10th, Powers3of10th, 31)
  BY DEF RunOf, Sums3of10th, Powers3of10th
<1>7. NextPower(Powers5of10th, Powers3of10th, Lengths10th, 31)
  BY DEF NextPower, Product, Powers5of10th, Powers3of10th, Lengths10th
<1>8. RunOf(Sums5of10th, Powers5of10th, 31)
  BY DEF RunOf, Sums5of10th, Powers5of10th
<1>9. NextPower(Powers7of10th, Powers5of10th, Lengths10th, 31)
  BY DEF NextPower, Product, Powers7of10th, Powers5of10th, Lengths10th
<1>10. RunOf(Sums7of10th, Powers7of10th, 31)
  BY DEF RunOf, Sums7of10th, Powers7of10th
<1>11. NextPower(Powers9of10th, Powers7of10th, Lengths10th, 31)
  BY DEF NextPower, Product, Powers9of10th, Powers7of10th, Lengths10th
<1>12. RunOf(Sums9of10th, Powers9of10th, 31)
  BY DEF RunOf, Sums9of10th, Powers9of10th
<1> QED BY <1>1, <1>2, <1>3, <1>4, <1>5, <1>6, <1>7, <1>8, <1>9, <1>10, <1>11, <1>12

-----------------------------------------------------------------------------
(* A table of running sums ends with the sum.                               *)
LEMMA TableSum ==
  ASSUME NEW n \in Nat, n >= 1, NEW f, NEW r, RunOf(r, f, n)
  PROVE  SumOver(f, 1, n) = r[n] /\ \A q \in 1..n : SumOver(f, 1, q) = r[q]
<1> DEFINE S == {c \in Int : c = 0 \/ SumOver(f, 1, c) = r[c]}
<1>1. 1 - 1 \in S
  OBVIOUS
<1>2. ASSUME NEW c \in 1..n, c - 1 \in S PROVE c \in S
  <2>1. c \in Int /\ c >= 1 /\ f[c] \in Int /\ \A i \in 1..c : f[i] \in Int
    BY DEF RunOf
  <2>2. SumOver(f, 1, c) = SumOver(f, 1, c - 1) + f[c]
    BY <2>1, SumGrows
  <2>3. CASE c = 1
    <3>1. SumOver(f, 1, c - 1) = 0
      BY <2>3, SumNone
    <3> QED BY <2>1, <2>2, <2>3, <3>1 DEF RunOf
  <2>4. CASE c # 1
    <3>1. SumOver(f, 1, c - 1) = r[c - 1] /\ c \in 2..n
      BY <1>2, <2>1, <2>4
    <3> QED BY <2>2, <3>1 DEF RunOf
  <2> QED BY <2>3, <2>4
<1>3. S \in SUBSET Int
  OBVIOUS
<1>4. ASSUME NEW q \in 1..n PROVE SumOver(f, 1, q) = r[q]
  <2>1. q \in Int /\ q >= 1 - 1 /\ \A c \in 1..q : c - 1 \in S => c \in S
    <3> HIDE DEF S
    <3> QED BY <1>2
  <2>2. q \in S
    <3> HIDE DEF S
    <3> QED BY <1>1, <1>3, <2>1, TermByTerm
  <2> QED BY <2>2
<1> QED BY <1>4

(* The function a rounded power is taken from.                              *)
ArePowers(s, x, m) == s = [q \in 0..m |-> IF q = 0 THEN 10000 ELSE Product(s[q - 1], x)]

PowersUpTo(x, m) == CHOOSE s : ArePowers(s, x, m)

LEMMA PowersExist ==
  ASSUME NEW x \in Int, NEW m \in Nat
  PROVE  LET s == PowersUpTo(x, m)
         IN  s \in [0..m -> Int] /\ s[0] = 10000 /\ \A q \in 1..m : s[q] = Product(s[q - 1], x)
<1> DEFINE step == [q \in 1..m |-> [v \in Int |-> Product(v, x)]]
           s == PowersUpTo(x, m)
<1>1. \A v \in Int : Product(v, x) \in Int
  BY DEF Product
<1>2. step \in [1..m -> [Int -> Int]]
  BY <1>1
<1> DEFINE base == 10000
<1>3. \E g \in [0..m -> Int] : IsRun(g, base, step, m)
  <2>1. base \in Int
    OBVIOUS
  <2> HIDE DEF step, base
  <2> QED BY <1>2, <2>1, Recursion
<1>4. PICK g \in [0..m -> Int] : IsRun(g, base, step, m)
  <2> HIDE DEF step, base
  <2> QED BY <1>3
<1>5. g[0] = 10000 /\ \A q \in 1..m : g[q] = Product(g[q - 1], x)
  <2>1. ASSUME NEW q \in 1..m PROVE g[q] = Product(g[q - 1], x)
    <3>1. g[q] = step[q][g[q - 1]]
      <4> HIDE DEF step
      <4> QED BY <1>4 DEF IsRun
    <3>2. g[q - 1] \in Int
      <4>1. q - 1 \in 0..m
        OBVIOUS
      <4> QED BY <1>4, <4>1
    <3> QED BY <3>1, <3>2
  <2> QED BY <1>4, <2>1 DEF IsRun
<1>6. ArePowers(g, x, m)
  BY <1>4, <1>5 DEF ArePowers
<1>7. ArePowers(s, x, m)
  BY <1>6 DEF PowersUpTo
<1> HIDE DEF s
<1>8. s[0] = 10000 /\ \A q \in 1..m : s[q] = Product(s[q - 1], x)
  BY <1>7 DEF ArePowers
<1>9. \A q \in 0..m : s[q] = g[q]
  <2>1. \A q \in 1..m : s[q - 1] = g[q - 1] => s[q] = g[q]
    BY <1>5, <1>8
  <2>2. StepAlike(s, g, m)
    BY <1>5, <1>8, <2>1 DEF StepAlike
  <2> QED BY <2>2, RunsAgree
<1>10. s \in [0..m -> Int]
  <2>1. s = [q \in 0..m |-> s[q]]
    BY <1>7 DEF ArePowers
  <2>2. \A q \in 0..m : s[q] \in Int
    BY <1>9, <1>4
  <2> QED BY <2>1, <2>2
<1> QED
  BY <1>8, <1>10 DEF s

LEMMA PowerNext ==
  ASSUME NEW x \in Int, NEW n \in Nat
  PROVE  Power(x, n) \in Int /\ Power(x, n + 1) = Product(Power(x, n), x)
<1> DEFINE F == PowersUpTo(x, n + 1)
           G == PowersUpTo(x, n)
<1>1. Power(x, n + 1) = F[n + 1] /\ Power(x, n) = G[n]
  BY DEF Power, PowersUpTo, ArePowers
<1>2. /\ F[0] = 10000
      /\ \A q \in 1..(n + 1) : F[q] = Product(F[q - 1], x)
  BY PowersExist
<1>3. /\ G \in [0..n -> Int] /\ G[0] = 10000
      /\ \A q \in 1..n : G[q] = Product(G[q - 1], x)
  BY PowersExist
<1> HIDE DEF F, G
<1>4. \A q \in 0..n : F[q] = G[q]
  <2>1. \A q \in 1..n : F[q - 1] = G[q - 1] => F[q] = G[q]
    BY <1>2, <1>3
  <2>2. StepAlike(F, G, n)
    BY <1>2, <1>3, <2>1 DEF StepAlike
  <2> QED BY <2>2, RunsAgree
<1>5. n + 1 \in 1..(n + 1) /\ (n + 1) - 1 = n /\ n \in 0..n
  OBVIOUS
<1> QED BY <1>1, <1>2, <1>3, <1>4, <1>5, SMTT(30)

(* The first power is the number itself.                                    *)
LEMMA PowerOne ==
  ASSUME NEW x \in Int
  PROVE  Power(x, 1) = x
<1>1. Power(x, 0) = 10000
  <2>1. Power(x, 0) = PowersUpTo(x, 0)[0]
    BY DEF Power, PowersUpTo, ArePowers
  <2>2. PowersUpTo(x, 0)[0] = 10000
    <3>1. 0 \in Nat
      OBVIOUS
    <3> QED BY <3>1, PowersExist
  <2> QED BY <2>1, <2>2
<1>2. Power(x, 0 + 1) = Product(Power(x, 0), x)
  BY PowerNext
<1>3. Product(10000, x) = x
  BY DEF Product
<1> QED BY <1>1, <1>2, <1>3

(* The table c holds the lengths of n leapfrogs, t their powers p.          *)
PowersAt(t, c, p, n) == \A q \in 1..n : c[q] \in Int /\ t[q] = Power(c[q], p)

LEMMA PowersFirst ==
  ASSUME NEW c, NEW n \in Nat, \A q \in 1..n : c[q] \in Int
  PROVE  PowersAt(c, c, 1, n)
BY PowerOne DEF PowersAt

LEMMA PowersNext ==
  ASSUME NEW c, NEW s, NEW t, NEW n \in Nat, NEW p \in Nat, NEW r, r = p + 2,
         PowersAt(s, c, p, n), NextPower(t, s, c, n)
  PROVE  PowersAt(t, c, r, n)
<1> SUFFICES ASSUME NEW q \in 1..n PROVE c[q] \in Int /\ t[q] = Power(c[q], r)
  BY DEF PowersAt
<1>1. c[q] \in Int /\ s[q] = Power(c[q], p)
  BY DEF PowersAt
<1>2. Power(c[q], p + 1) = Product(s[q], c[q])
  BY <1>1, PowerNext
<1>3. Power(c[q], (p + 1) + 1) = Product(Power(c[q], p + 1), c[q])
  <2>1. p + 1 \in Nat
    OBVIOUS
  <2> QED BY <1>1, <2>1, PowerNext
<1>4. (p + 1) + 1 = r
  OBVIOUS
<1> QED BY <1>1, <1>2, <1>3, <1>4 DEF NextPower

Cancelling(c, p, n) ==
  \E t, r : PowersAt(t, c, p, n) /\ RunOf(r, t, n) /\ Near(r[n], 0, 2000)

(* A method whose outer fractions are halves, and the odd powers of whose   *)
(* lengths, as far as its order asks for them, add up to next to nothing.   *)
LEMMA LeapfrogsOf ==
  ASSUME NEW m, NEW n \in Nat, n >= 1, Len(Fractions(m)) = 2 * n + 1,
         Halves(Fractions(m), n), NEW c, Coarse(c, Fractions(m), n),
         \A p \in {3, 5, 7, 9} : p < Order(m) => Cancelling(c, p, n)
  PROVE  IsMadeOfLeapfrogs(m)
<1> DEFINE f == Fractions(m)
           lengths == Inner(m)
           beside(q) == IF q \in DOMAIN lengths THEN lengths[q] ELSE 0
           coarse == [q \in DOMAIN lengths |-> (lengths[q] + 5000) \div 10000]
<1>1. /\ (2 * n + 1) \div 2 = n
      /\ DOMAIN lengths = 1..n /\ DOMAIN Outer(m) = 1..(n + 1)
      /\ \A q \in 1..n : lengths[q] = f[2 * q]
      /\ \A q \in 1..(n + 1) : Outer(m)[q] = f[2 * q - 1]
  BY DEF Inner, Outer
<1>2. Len(lengths) = n
  BY <1>1 DEF Inner
<1>3. ASSUME NEW q \in DOMAIN Outer(m)
      PROVE  Near(2 * Outer(m)[q], beside(q - 1) + beside(q), 2)
  <2>1. q \in 1..(n + 1) /\ Outer(m)[q] = f[2 * q - 1] /\ 2 * (q - 1) = 2 * q - 2
    BY <1>1
  <2>2. beside(q - 1) = IF q = 1 THEN 0 ELSE f[2 * q - 2]
    <3>1. q - 1 \in 1..n <=> q # 1
      BY <2>1
    <3>2. q # 1 => beside(q - 1) = f[2 * q - 2]
      BY <1>1, <2>1, <3>1
    <3> QED BY <1>1, <3>1, <3>2
  <2>3. beside(q) = IF q = n + 1 THEN 0 ELSE f[2 * q]
    <3>1. q \in 1..n <=> q # n + 1
      BY <2>1
    <3> QED BY <1>1, <3>1
  <2> QED BY <2>1, <2>2, <2>3 DEF Halves
<1>4. \A q \in 1..n : coarse[q] = c[q]
  BY <1>1 DEF Coarse
<1>5. ASSUME NEW p \in {3, 5, 7, 9}, p < Order(m)
      PROVE  Near(SumOver([q \in DOMAIN lengths |-> Power(coarse[q], p)], 1, Len(lengths)),
                  0, 2000)
  <2> DEFINE g == [q \in DOMAIN lengths |-> Power(coarse[q], p)]
  <2>1. PICK t, r : PowersAt(t, c, p, n) /\ RunOf(r, t, n) /\ Near(r[n], 0, 2000)
    BY <1>5 DEF Cancelling
  <2>2. \A q \in 1..n : g[q] = t[q]
    BY <1>1, <1>4, <2>1 DEF PowersAt
  <2> HIDE DEF g
  <2>3. RunOf(r, g, n)
    <3>1. 1 \in 1..n /\ \A q \in 2..n : q \in 1..n /\ q - 1 \in 1..n
      OBVIOUS
    <3>2. r[1] = t[1] /\ (\A q \in 2..n : r[q] = r[q - 1] + t[q]) /\ \A q \in 1..n : t[q] \in Int
      BY <2>1 DEF RunOf
    <3>3. r[1] = g[1] /\ (\A q \in 2..n : r[q] = r[q - 1] + g[q]) /\ \A q \in 1..n : g[q] \in Int
      BY <2>2, <3>1, <3>2
    <3> QED BY <3>3 DEF RunOf
  <2>4. SumOver(g, 1, n) = r[n]
    BY <2>3, TableSum
  <2>5. Near(SumOver(g, 1, Len(lengths)), 0, 2000)
    BY <1>2, <2>1, <2>4
  <2> QED BY <2>5 DEF g
<1> QED
  BY <1>3, <1>5 DEF IsMadeOfLeapfrogs

(* A method that drifts and kicks by the whole step and is made of          *)
(* leapfrogs.                                                               *)
Whole(m) ==
  LET n == Len(Fractions(m)) \div 2
  IN  /\ Near(SumOver(Outer(m), 1, n + 1), Unit, Len(Fractions(m)))
      /\ Near(SumOver(Inner(m), 1, n), Unit, Len(Fractions(m)))
      /\ IsMadeOfLeapfrogs(m)

LEMMA WholeOf ==
  ASSUME NEW m, NEW n \in Nat, n >= 1, Len(Fractions(m)) = 2 * n + 1,
         NEW o, RunOf(o, [q \in 1..(n + 1) |-> Fractions(m)[2 * q - 1]], n + 1),
         NEW i, RunOf(i, [q \in 1..n |-> Fractions(m)[2 * q]], n),
         Near(o[n + 1], Unit, 2 * n + 1), Near(i[n], Unit, 2 * n + 1),
         IsMadeOfLeapfrogs(m)
  PROVE  Whole(m)
<1>1. (2 * n + 1) \div 2 = n
  OBVIOUS
<1>2. /\ Outer(m) = [q \in 1..(n + 1) |-> Fractions(m)[2 * q - 1]]
      /\ Inner(m) = [q \in 1..n |-> Fractions(m)[2 * q]]
  BY <1>1 DEF Outer, Inner
<1>3. SumOver(Outer(m), 1, n + 1) = o[n + 1]
  <2>1. RunOf(o, Outer(m), n + 1)
    BY <1>2
  <2>2. n + 1 \in Nat /\ n + 1 >= 1
    OBVIOUS
  <2> QED BY <2>1, <2>2, TableSum
<1>4. SumOver(Inner(m), 1, n) = i[n]
  <2>1. RunOf(i, Inner(m), n)
    BY <1>2
  <2> QED BY <2>1, TableSum
<1> QED BY <1>1, <1>3, <1>4 DEF Whole

(* So each of the methods is whole.                                         *)
LEMMA Whole2nd == Whole("2nd")
<1>1. /\ Fractions("2nd") = Symplectic2nd /\ Order("2nd") = 2
      /\ Len(Fractions("2nd")) = 2 * 1 + 1 /\ 1 \in Nat /\ 1 >= 1
  BY DEF Fractions, Order, Symplectic2nd
<1>2. \A p \in {3, 5, 7, 9} : p < Order("2nd") => Cancelling(Lengths2nd, p, 1)
  BY <1>1
<1>3. Halves(Fractions("2nd"), 1) /\ Coarse(Lengths2nd, Fractions("2nd"), 1)
  BY <1>1, Tables2nd, Zenon
<1>4. IsMadeOfLeapfrogs("2nd")
  BY <1>1, <1>2, <1>3, LeapfrogsOf
<1>5. /\ RunOf(Outer2nd, [q \in 1..(1 + 1) |-> Fractions("2nd")[2 * q - 1]], 1 + 1)
      /\ RunOf(Inner2nd, [q \in 1..1 |-> Fractions("2nd")[2 * q]], 1)
  BY <1>1, Tables2nd
<1>6. Near(Outer2nd[1 + 1], Unit, 2 * 1 + 1) /\ Near(Inner2nd[1], Unit, 2 * 1 + 1)
  BY DEF Near, Unit, Outer2nd, Inner2nd
<1> QED BY <1>1, <1>4, <1>5, <1>6, WholeOf

LEMMA WholeKDK == Whole("KDK")
<1>1. /\ Fractions("KDK") = Symplectic2nd /\ Order("KDK") = 2
      /\ Len(Fractions("KDK")) = 2 * 1 + 1 /\ 1 \in Nat /\ 1 >= 1
  BY DEF Fractions, Order, Symplectic2nd, LeapFrogKDK
<1>2. \A p \in {3, 5, 7, 9} : p < Order("KDK") => Cancelling(Lengths2nd, p, 1)
  BY <1>1
<1>3. Halves(Fractions("KDK"), 1) /\ Coarse(Lengths2nd, Fractions("KDK"), 1)
  BY <1>1, Tables2nd, Zenon
<1>4. IsMadeOfLeapfrogs("KDK")
  BY <1>1, <1>2, <1>3, LeapfrogsOf
<1>5. /\ RunOf(Outer2nd, [q \in 1..(1 + 1) |-> Fractions("KDK")[2 * q - 1]], 1 + 1)
      /\ RunOf(Inner2nd, [q \in 1..1 |-> Fractions("KDK")[2 * q]], 1)
  BY <1>1, Tables2nd
<1>6. Near(Outer2nd[1 + 1], Unit, 2 * 1 + 1) /\ Near(Inner2nd[1], Unit, 2 * 1 + 1)
  BY DEF Near, Unit, Outer2nd, Inner2nd
<1> QED BY <1>1, <1>4, <1>5, <1>6, WholeOf

LEMMA Whole4th == Whole("4th")
<1>1. /\ Fractions("4th") = Symplectic4th /\ Order("4th") = 4
      /\ Len(Fractions("4th")) = 2 * 3 + 1 /\ 3 \in Nat /\ 3 >= 1
  BY DEF Fractions, Order, Symplectic4th
<1>2. \A q \in 1..3 : Lengths4th[q] \in Int
  BY Tables4th DEF Coarse
<1>3. PowersAt(Lengths4th, Lengths4th, 1, 3)
  BY <1>2, PowersFirst
<1>4. PowersAt(Powers3of4th, Lengths4th, 3, 3)
  BY <1>3, Tables4th, PowersNext
<1>5. Cancelling(Lengths4th, 3, 3)
  <2>1. Near(Sums3of4th[3], 0, 2000)
    BY DEF Near, Sums3of4th
  <2> QED BY <1>4, <2>1, Tables4th DEF Cancelling
<1>6. \A p \in {3, 5, 7, 9} : p < Order("4th") => Cancelling(Lengths4th, p, 3)
  BY <1>1, <1>5
<1>7. Halves(Fractions("4th"), 3) /\ Coarse(Lengths4th, Fractions("4th"), 3)
  BY <1>1, Tables4th, Zenon
<1>8. IsMadeOfLeapfrogs("4th")
  BY <1>1, <1>6, <1>7, LeapfrogsOf
<1>9. /\ RunOf(Outer4th, [q \in 1..(3 + 1) |-> Fractions("4th")[2 * q - 1]], 3 + 1)
      /\ RunOf(Inner4th, [q \in 1..3 |-> Fractions("4th")[2 * q]], 3)
  BY <1>1, Tables4th
<1>10. Near(Outer4th[3 + 1], Unit, 2 * 3 + 1) /\ Near(Inner4th[3], Unit, 2 * 3 + 1)
  BY DEF Near, Unit, Outer4th, Inner4th
<1> QED BY <1>1, <1>8, <1>9, <1>10, WholeOf

LEMMA Whole6th == Whole("6th")
<1>1. /\ Fractions("6th") = Symplectic6th /\ Order("6th") = 6
      /\ Len(Fractions("6th")) = 2 * 7 + 1 /\ 7 \in Nat /\ 7 >= 1
  BY DEF Fractions, Order, Symplectic6th
<1>2. \A q \in 1..7 : Lengths6th[q] \in Int
  BY Tables6th DEF Coarse
<1>3. PowersAt(Lengths6th, Lengths6th, 1, 7)
  BY <1>2, PowersFirst
<1>4. PowersAt(Powers3of6th, Lengths6th, 3, 7)
  BY <1>3, Tables6th, PowersNext
<1>5. Cancelling(Lengths6th, 3, 7)
  <2>1. Near(Sums3of6th[7], 0, 2000)
    BY DEF Near, Sums3of6th
  <2> QED BY <1>4, <2>1, Tables6th DEF Cancelling
<1>6. PowersAt(Powers5of6th, Lengths6th, 5, 7)
  BY <1>4, Tables6th, PowersNext
<1>7. Cancelling(Lengths6th, 5, 7)
  <2>1. Near(Sums5of6th[7], 0, 2000)
    BY DEF Near, Sums5of6th
  <2> QED BY <1>6, <2>1, Tables6th DEF Cancelling
<1>8. \A p \in {3, 5, 7, 9} : p < Order("6th") => Cancelling(Lengths6th, p, 7)
  BY <1>1, <1>5, <1>7
<1>9. Halves(Fractions("6th"), 7) /\ Coarse(Lengths6th, Fractions("6th"), 7)
  BY <1>1, Tables6th, Zenon
<1>10. IsMadeOfLeapfrogs("6th")
  BY <1>1, <1>8, <1>9, LeapfrogsOf
<1>11. /\ RunOf(Outer6th, [q \in 1..(7 + 1) |-> Fractions("6th")[2 * q - 1]], 7 + 1)
      /\ RunOf(Inner6th, [q \in 1..7 |-> Fractions("6th")[2 * q]], 7)
  BY <1>1, Tables6th
<1>12. Near(Outer6th[7 + 1], Unit, 2 * 7 + 1) /\ Near(Inner6th[7], Unit, 2 * 7 + 1)
  BY DEF Near, Unit, Outer6th, Inner6th
<1> QED BY <1>1, <1>10, <1>11, <1>12, WholeOf

LEMMA Whole8th == Whole("8th")
<1>1. /\ Fractions("8th") = Symplectic8th /\ Order("8th") = 8
      /\ Len(Fractions("8th")) = 2 * 15 + 1 /\ 15 \in Nat /\ 15 >= 1
  BY DEF Fractions, Order, Symplectic8th
<1>2. \A q \in 1..15 : Lengths8th[q] \in Int
  BY Tables8th DEF Coarse
<1>3. PowersAt(Lengths8th, Lengths8th, 1, 15)
  BY <1>2, PowersFirst
<1>4. PowersAt(Powers3of8th, Lengths8th, 3, 15)
  BY <1>3, Tables8th, PowersNext
<1>5. Cancelling(Lengths8th, 3, 15)
  <2>1. Near(Sums3of8th[15], 0, 2000)
    BY DEF Near, Sums3of8th
  <2> QED BY <1>4, <2>1, Tables8th DEF Cancelling
<1>6. PowersAt(Powers5of8th, Lengths8th, 5, 15)
  BY <1>4, Tables8th, PowersNext
<1>7. Cancelling(Lengths8th, 5, 15)
  <2>1. Near(Sums5of8th[15], 0, 2000)
    BY DEF Near, Sums5of8th
  <2> QED BY <1>6, <2>1, Tables8th DEF Cancelling
<1>8. PowersAt(Powers7of8th, Lengths8th, 7, 15)
  BY <1>6, Tables8th, PowersNext
<1>9. Cancelling(Lengths8th, 7, 15)
  <2>1. Near(Sums7of8th[15], 0, 2000)
    BY DEF Near, Sums7of8th
  <2> QED BY <1>8, <2>1, Tables8th DEF Cancelling
<1>10. \A p \in {3, 5, 7, 9} : p < Order("8th") => Cancelling(Lengths8th, p, 15)
  BY <1>1, <1>5, <1>7, <1>9
<1>11. Halves(Fractions("8th"), 15) /\ Coarse(Lengths8th, Fractions("8th"), 15)
  BY <1>1, Tables8th, Zenon
<1>12. IsMadeOfLeapfrogs("8th")
  BY <1>1, <1>10, <1>11, LeapfrogsOf
<1>13. /\ RunOf(Outer8th, [q \in 1..(15 + 1) |-> Fractions("8th")[2 * q - 1]], 15 + 1)
      /\ RunOf(Inner8th, [q \in 1..15 |-> Fractions("8th")[2 * q]], 15)
  BY <1>1, Tables8th
<1>14. Near(Outer8th[15 + 1], Unit, 2 * 15 + 1) /\ Near(Inner8th[15], Unit, 2 * 15 + 1)
  BY DEF Near, Unit, Outer8th, Inner8th
<1> QED BY <1>1, <1>12, <1>13, <1>14, WholeOf

LEMMA Whole10th == Whole("10th")
<1>1. /\ Fractions("10th") = Symplectic10th /\ Order("10th") = 10
      /\ Len(Fractions("10th")) = 2 * 31 + 1 /\ 31 \in Nat /\ 31 >= 1
  BY DEF Fractions, Order, Symplectic10th
<1>2. \A q \in 1..31 : Lengths10th[q] \in Int
  BY Tables10th DEF Coarse
<1>3. PowersAt(Lengths10th, Lengths10th, 1, 31)
  BY <1>2, PowersFirst
<1>4. PowersAt(Powers3of10th, Lengths10th, 3, 31)
  BY <1>3, Tables10th, PowersNext
<1>5. Cancelling(Lengths10th, 3, 31)
  <2>1. Near(Sums3of10th[31], 0, 2000)
    BY DEF Near, Sums3of10th
  <2> QED BY <1>4, <2>1, Tables10th DEF Cancelling
<1>6. PowersAt(Powers5of10th, Lengths10th, 5, 31)
  BY <1>4, Tables10th, PowersNext
<1>7. Cancelling(Lengths10th, 5, 31)
  <2>1. Near(Sums5of10th[31], 0, 2000)
    BY DEF Near, Sums5of10th
  <2> QED BY <1>6, <2>1, Tables10th DEF Cancelling
<1>8. PowersAt(Powers7of10th, Lengths10th, 7, 31)
  BY <1>6, Tables10th, PowersNext
<1>9. Cancelling(Lengths10th, 7, 31)
  <2>1. Near(Sums7of10th[31], 0, 2000)
    BY DEF Near, Sums7of10th
  <2> QED BY <1>8, <2>1, Tables10th DEF Cancelling
<1>10. PowersAt(Powers9of10th, Lengths10th, 9, 31)
  BY <1>8, Tables10th, PowersNext
<1>11. Cancelling(Lengths10th, 9, 31)
  <2>1. Near(Sums9of10th[31], 0, 2000)
    BY DEF Near, Sums9of10th
  <2> QED BY <1>10, <2>1, Tables10th DEF Cancelling
<1>12. \A p \in {3, 5, 7, 9} : p < Order("10th") => Cancelling(Lengths10th, p, 31)
  BY <1>1, <1>5, <1>7, <1>9, <1>11
<1>13. Halves(Fractions("10th"), 31) /\ Coarse(Lengths10th, Fractions("10th"), 31)
  BY <1>1, Tables10th, Zenon
<1>14. IsMadeOfLeapfrogs("10th")
  BY <1>1, <1>12, <1>13, LeapfrogsOf
<1>15. /\ RunOf(Outer10th, [q \in 1..(31 + 1) |-> Fractions("10th")[2 * q - 1]], 31 + 1)
      /\ RunOf(Inner10th, [q \in 1..31 |-> Fractions("10th")[2 * q]], 31)
  BY <1>1, Tables10th
<1>16. Near(Outer10th[31 + 1], Unit, 2 * 31 + 1) /\ Near(Inner10th[31], Unit, 2 * 31 + 1)
  BY DEF Near, Unit, Outer10th, Inner10th
<1> QED BY <1>1, <1>14, <1>15, <1>16, WholeOf

LEMMA EveryMethodWhole == ASSUME NEW m \in Methods PROVE Whole(m)
BY Whole2nd, WholeKDK, Whole4th, Whole6th, Whole8th, Whole10th DEF Methods

-----------------------------------------------------------------------------
(* What n calls have drifted and kicked by.                                 *)
MovedAfter(m, n) ==
  LET outer == SumOver(Outer(m), 1, (n + 1) \div 2)
      inner == SumOver(Inner(m), 1, n \div 2)
  IN  IF m = "KDK" THEN [drift |-> inner, kick |-> outer]
                   ELSE [drift |-> outer, kick |-> inner]

WholeInv == SymInv /\ (symPc = "step" => symMoved = MovedAfter(symMethod, symAt))

(* The outer fractions are those at the odd places.                         *)
LEMMA OuterInner ==
  ASSUME NEW m \in Methods
  PROVE  LET f == Fractions(m)
             n == Len(f) \div 2
         IN  /\ n \in Nat /\ Len(f) = 2 * n + 1
             /\ \A q \in 1..(n + 1) : Outer(m)[q] = f[2 * q - 1] /\ Outer(m)[q] \in Int
             /\ \A q \in 1..n : Inner(m)[q] = f[2 * q] /\ Inner(m)[q] \in Int
<1> DEFINE f == Fractions(m)
           L == Len(f)
           n == L \div 2
<1>1. L \in Nat /\ L % 2 = 1 /\ \A q \in 1..L : f[q] \in Int
  BY FractionsPalindrome DEF Palindrome
<1> HIDE DEF L, f
<1>2. n \in Nat /\ L = 2 * n + 1
  BY <1>1
<1>3. /\ Outer(m) = [q \in 1..(n + 1) |-> f[2 * q - 1]]
      /\ Inner(m) = [q \in 1..n |-> f[2 * q]]
  BY DEF Outer, Inner, L, f
<1> HIDE DEF n
<1>4. ASSUME NEW q \in 1..(n + 1)
      PROVE  Outer(m)[q] = f[2 * q - 1] /\ Outer(m)[q] \in Int
  <2>1. 2 * q - 1 \in 1..L
    BY <1>2
  <2> QED BY <1>1, <1>3, <2>1
<1>5. ASSUME NEW q \in 1..n
      PROVE  Inner(m)[q] = f[2 * q] /\ Inner(m)[q] \in Int
  <2>1. 2 * q \in 1..L
    BY <1>2
  <2> QED BY <1>1, <1>3, <2>1
<1> QED BY <1>2, <1>4, <1>5 DEF n, L, f

(* A call more moves by its fraction.                                       *)
LEMMA MovedGrows ==
  ASSUME NEW m \in Methods, NEW n \in 1..Len(Fractions(m))
  PROVE  LET before == MovedAfter(m, n - 1)
             f == Fractions(m)[n]
         IN  MovedAfter(m, n) = IF IsDrift(m, n) THEN [before EXCEPT !.drift = @ + f]
                                                 ELSE [before EXCEPT !.kick = @ + f]
<1> DEFINE L == Len(Fractions(m))
           mid == L \div 2
           o(x) == SumOver(Outer(m), 1, (x + 1) \div 2)
           i(x) == SumOver(Inner(m), 1, x \div 2)
           f == Fractions(m)[n]
<1>1. /\ mid \in Nat /\ L = 2 * mid + 1 /\ n \in 1..L
      /\ \A q \in 1..(mid + 1) :
           Outer(m)[q] = Fractions(m)[2 * q - 1] /\ Outer(m)[q] \in Int
      /\ \A q \in 1..mid : Inner(m)[q] = Fractions(m)[2 * q] /\ Inner(m)[q] \in Int
  BY OuterInner
<1> HIDE DEF L, mid
<1>2. CASE n % 2 = 1
  <2>1. PICK q \in 1..(mid + 1) : n = 2 * q - 1
    <3>1. (n + 1) \div 2 \in 1..(mid + 1)
      BY <1>1, <1>2
    <3>2. n \in Nat /\ n = 2 * (n \div 2) + 1
      BY <1>1, <1>2
    <3>3. (n + 1) \div 2 = n \div 2 + 1
      BY <3>2
    <3> QED BY <3>1, <3>2, <3>3
  <2>2. (n + 1) \div 2 = q /\ ((n - 1) + 1) \div 2 = q - 1 /\ n \div 2 = (n - 1) \div 2
    BY <1>1, <2>1
  <2>3. \A c \in 1..q : Outer(m)[c] \in Int
    BY <1>1
  <2>4. SumOver(Outer(m), 1, q) = SumOver(Outer(m), 1, q - 1) + Outer(m)[q]
    BY <1>1, <2>3, SumGrows
  <2>5. o(n) = o(n - 1) + f /\ i(n) = i(n - 1)
    <3>1. Outer(m)[q] = f
      BY <1>1, <2>1
    <3> QED BY <2>2, <2>4, <3>1
  <2>6. IsDrift(m, n) <=> m # "KDK"
    BY <1>2 DEF IsDrift
  <2> HIDE DEF o, i, f
  <2>7. MovedAfter(m, n) = IF m = "KDK" THEN [drift |-> i(n), kick |-> o(n)]
                                        ELSE [drift |-> o(n), kick |-> i(n)]
    BY DEF MovedAfter, o, i
  <2>8. MovedAfter(m, n - 1) = IF m = "KDK" THEN [drift |-> i(n - 1), kick |-> o(n - 1)]
                                            ELSE [drift |-> o(n - 1), kick |-> i(n - 1)]
    BY DEF MovedAfter, o, i
  <2> QED BY <2>5, <2>6, <2>7, <2>8 DEF f
<1>3. CASE n % 2 # 1
  <2>1. PICK q \in 1..mid : n = 2 * q
    <3>1. n \div 2 \in 1..mid /\ n = 2 * (n \div 2)
      BY <1>1, <1>3
    <3> QED BY <3>1
  <2>2. (n + 1) \div 2 = q /\ ((n - 1) + 1) \div 2 = q /\ n \div 2 = q /\ (n - 1) \div 2 = q - 1
    BY <1>1, <2>1
  <2>3. \A c \in 1..q : Inner(m)[c] \in Int
    BY <1>1
  <2>4. SumOver(Inner(m), 1, q) = SumOver(Inner(m), 1, q - 1) + Inner(m)[q]
    BY <1>1, <2>3, SumGrows
  <2>5. i(n) = i(n - 1) + f /\ o(n) = o(n - 1)
    <3>1. Inner(m)[q] = f
      BY <1>1, <2>1
    <3> QED BY <2>2, <2>4, <3>1
  <2>6. IsDrift(m, n) <=> m = "KDK"
    BY <1>3 DEF IsDrift
  <2> HIDE DEF o, i, f
  <2>7. MovedAfter(m, n) = IF m = "KDK" THEN [drift |-> i(n), kick |-> o(n)]
                                        ELSE [drift |-> o(n), kick |-> i(n)]
    BY DEF MovedAfter, o, i
  <2>8. MovedAfter(m, n - 1) = IF m = "KDK" THEN [drift |-> i(n - 1), kick |-> o(n - 1)]
                                            ELSE [drift |-> o(n - 1), kick |-> i(n - 1)]
    BY DEF MovedAfter, o, i
  <2> QED BY <2>5, <2>6, <2>7, <2>8 DEF f
<1> QED BY <1>2, <1>3

LEMMA WholeStepInv == WholeInv /\ [IteratorsNext]_iteratorVars => WholeInv'
<1> SUFFICES ASSUME WholeInv, [IteratorsNext]_iteratorVars PROVE WholeInv'
  OBVIOUS
<1>1. SymInv'
  BY SymStepInv DEF WholeInv
<1>2. symMethod \in Methods /\ symAt \in 0..Length /\ Length \in Nat
  BY LengthOdd DEF WholeInv, SymInv
<1>3. CASE SymBegin
  <2>1. symAt' = 0 /\ symMoved' = [drift |-> 0, kick |-> 0] /\ symMethod' = symMethod
    BY <1>3 DEF SymBegin
  <2>2. (0 + 1) \div 2 = 0 /\ 0 \div 2 = 0 /\ 1 - 1 = 0
    OBVIOUS
  <2>3. SumOver(Outer(symMethod), 1, 0) = 0 /\ SumOver(Inner(symMethod), 1, 0) = 0
    BY <2>2, SumNone
  <2>4. MovedAfter(symMethod, 0) = [drift |-> 0, kick |-> 0]
    BY <2>2, <2>3 DEF MovedAfter
  <2> QED BY <1>1, <2>1, <2>4 DEF WholeInv
<1>4. CASE SymMove
  <2>1. CASE symPc = "step"
    <3>1. /\ symAt + 1 \in 1..Len(Fractions(symMethod)) /\ (symAt + 1) - 1 = symAt
          /\ symAt' = symAt + 1 /\ symMethod' = symMethod
      BY <1>2, <1>4 DEF SymMove, Length
    <3>2. symMoved' = LET f == Fractions(symMethod)[symAt + 1]
                      IN  IF IsDrift(symMethod, symAt + 1)
                          THEN [symMoved EXCEPT !.drift = @ + f]
                          ELSE [symMoved EXCEPT !.kick = @ + f]
      BY <1>4, <2>1 DEF SymMove
    <3>3. symMoved = MovedAfter(symMethod, symAt)
      BY <2>1 DEF WholeInv
    <3>4. symMoved' = MovedAfter(symMethod, symAt + 1)
      BY <1>2, <3>1, <3>2, <3>3, MovedGrows
    <3> QED BY <1>1, <3>1, <3>4 DEF WholeInv
  <2>2. CASE symPc # "step"
    BY <1>1, <1>4, <2>2 DEF SymMove, WholeInv
  <2> QED BY <2>1, <2>2
<1>5. CASE SymReturn
  BY <1>1, <1>5 DEF SymReturn, WholeInv
<1>6. CASE UNCHANGED symVars
  BY <1>1, <1>6 DEF symVars, WholeInv
<1> QED
  BY <1>3, <1>4, <1>5, <1>6 DEF IteratorsNext, iteratorVars, SymNext

(* Each of the methods drifts and kicks by the whole step and is made of    *)
(* leapfrogs that cancel to the order of its class; and the step back       *)
(* undoes a step (symplectic-integrator.hpp:51-363).                        *)
THEOREM SymplecticWhole == IteratorsSpec => []WholeAndReversible
<1>1. IteratorsInit => WholeInv
  BY SymInitInv DEF IteratorsInit, SymInit, WholeInv
<1>2. WholeInv => WholeAndReversible
  <2> SUFFICES ASSUME WholeInv PROVE WholeAndReversible
    OBVIOUS
  <2>1. Reversible
    BY DEF WholeInv, SymInv, OnItsPath, Reversible
  <2>2. ASSUME symPc = "step", symAt = Length
        PROVE  /\ Near(symMoved.drift, Unit, Length) /\ Near(symMoved.kick, Unit, Length)
               /\ IsMadeOfLeapfrogs(symMethod)
    <3> DEFINE n == Length \div 2
    <3>1. symMethod \in Methods /\ symMoved = MovedAfter(symMethod, Length)
      BY <2>2 DEF WholeInv, SymInv
    <3>2. n \in Nat /\ Length = 2 * n + 1
      BY <3>1, OuterInner DEF Length
    <3>3. (Length + 1) \div 2 = n + 1
      BY <3>2
    <3>4. /\ Near(SumOver(Outer(symMethod), 1, n + 1), Unit, Length)
          /\ Near(SumOver(Inner(symMethod), 1, n), Unit, Length)
          /\ IsMadeOfLeapfrogs(symMethod)
      BY <3>1, EveryMethodWhole DEF Whole, Length
    <3> QED BY <3>1, <3>3, <3>4 DEF MovedAfter
  <2> QED BY <2>1, <2>2 DEF WholeAndReversible
<1> QED
  BY <1>1, <1>2, WholeStepInv, PTL DEF IteratorsSpec

-----------------------------------------------------------------------------
(* The numbers that are summed.                                             *)
LEMMA Even == Mantissas \in Nat /\ Mantissas >= 4 /\ \E w \in Nat : Mantissas = 2 * w /\ w >= 2
<1>1. Mantissas \in Nat /\ Mantissas >= 4 /\ Mantissas % 2 = 0
  BY CompensatedSumAssumption
<1> DEFINE w == Mantissas \div 2
<1>2. Mantissas = 2 * w /\ w \in Nat
  BY <1>1
<1> HIDE DEF w
<1>3. w >= 2
  BY <1>1, <1>2
<1> QED BY <1>1, <1>2, <1>3

LEMMA Half ==
  ASSUME NEW n \in Nat, n >= 1
  PROVE  /\ n \div 2 \in Nat /\ n \div 2 \in 0..(n - 1)
         /\ 2 * (n \div 2) <= n /\ n <= 2 * (n \div 2) + 1
OBVIOUS

(* The function the last digit is taken from, and that there is one.        *)
Ulps(size) ==
  CHOOSE u : u = [n \in 0..size |-> IF n < Mantissas THEN 1 ELSE 2 * u[n \div 2]]

LEMMA UlpsExist ==
  ASSUME NEW size \in Nat
  PROVE  LET u == Ulps(size)
         IN  u = [n \in 0..size |-> IF n < Mantissas THEN 1 ELSE 2 * u[n \div 2]]
<1> DEFINE Is(u, m) == u = [n \in 0..m |-> IF n < Mantissas THEN 1 ELSE 2 * u[n \div 2]]
           T == {m \in Nat : \E u : Is(u, m)}
<1>1. ASSUME NEW m \in Nat, \A i \in 0..(m - 1) : i \in T PROVE m \in T
  <2>1. CASE m = 0
    <3>1. Is([n \in 0..0 |-> 1], 0)
      BY Even
    <3> QED BY <2>1, <3>1
  <2>2. CASE m # 0
    <3>1. m - 1 \in 0..(m - 1)
      BY <2>2
    <3>2. PICK u : Is(u, m - 1)
      BY <1>1, <3>1
    <3> DEFINE g == [n \in 0..m |-> IF n <= m - 1 THEN u[n]
                                    ELSE IF n < Mantissas THEN 1 ELSE 2 * u[n \div 2]]
    <3>3. ASSUME NEW n \in 0..m PROVE g[n] = IF n < Mantissas THEN 1 ELSE 2 * g[n \div 2]
      <4>1. CASE n < Mantissas
        BY <3>2, <4>1
      <4>2. CASE ~(n < Mantissas)
        <5>1. n \in Nat /\ n >= 1 /\ n <= m
          BY <4>2, Even
        <5>2. n \div 2 \in 0..(n - 1)
          BY <5>1, Half
        <5>3. n \div 2 \in 0..(m - 1)
          BY <5>1, <5>2
        <5>4. g[n \div 2] = u[n \div 2]
          BY <5>3
        <5>5. n <= m - 1 => u[n] = 2 * u[n \div 2]
          BY <3>2, <4>2, <5>1
        <5>6. g[n] = IF n <= m - 1 THEN u[n] ELSE 2 * u[n \div 2]
          BY <4>2
        <5> HIDE DEF g
        <5> QED BY <4>2, <5>4, <5>5, <5>6
      <4> QED BY <4>1, <4>2
    <3>4. Is(g, m)
      BY <3>3
    <3> HIDE DEF Is, g
    <3> QED BY <3>4
  <2> QED BY <2>1, <2>2
<1>2. T \in SUBSET Nat
  OBVIOUS
<1>3. T = Nat
  <2> HIDE DEF T
  <2> QED BY <1>1, <1>2, FromBelow
<1>4. \E u : Is(u, size)
  BY <1>3
<1> QED
  BY <1>4 DEF Ulps

LEMMA UlpsAgree ==
  ASSUME NEW size \in Nat, NEW m \in 0..size
  PROVE  Ulps(size)[m] = Ulps(m)[m]
<1> DEFINE F == Ulps(size)
           G == Ulps(m)
           T == {i \in Nat : i <= m => F[i] = G[i]}
<1>1. /\ F = [n \in 0..size |-> IF n < Mantissas THEN 1 ELSE 2 * F[n \div 2]]
      /\ G = [n \in 0..m |-> IF n < Mantissas THEN 1 ELSE 2 * G[n \div 2]]
  BY UlpsExist
<1> HIDE DEF F, G
<1>2. ASSUME NEW n \in Nat, \A i \in 0..(n - 1) : i \in T PROVE n \in T
  <2> SUFFICES ASSUME n <= m PROVE F[n] = G[n]
    OBVIOUS
  <2>1. n \in 0..size /\ n \in 0..m
    OBVIOUS
  <2>2. CASE n < Mantissas
    BY <1>1, <2>1, <2>2
  <2>3. CASE ~(n < Mantissas)
    <3>1. n \div 2 \in 0..(n - 1) /\ n \div 2 <= m
      BY <2>3, Even, Half
    <3>2. F[n \div 2] = G[n \div 2]
      BY <1>2, <3>1
    <3> QED BY <1>1, <2>1, <2>3, <3>2
  <2> QED BY <2>2, <2>3
<1>3. T \in SUBSET Nat
  OBVIOUS
<1>4. T = Nat
  <2> HIDE DEF T
  <2> QED BY <1>2, <1>3, FromBelow
<1>5. F[m] = G[m]
  BY <1>4
<1> QED
  BY <1>5 DEF F, G

LEMMA UlpIs ==
  ASSUME NEW n \in Nat
  PROVE  /\ n < Mantissas => Ulp(n) = 1
         /\ n >= Mantissas => n \div 2 \in Nat /\ n \div 2 < n /\ Ulp(n) = 2 * Ulp(n \div 2)
<1> DEFINE u == Ulps(n)
<1>1. \A m : Ulp(m) = Ulps(m)[m]
  BY DEF Ulp, Ulps
<1>2. u = [i \in 0..n |-> IF i < Mantissas THEN 1 ELSE 2 * u[i \div 2]]
  BY UlpsExist
<1>3. u[n] = Ulp(n)
  BY <1>1
<1> HIDE DEF u
<1>4. u[n] = IF n < Mantissas THEN 1 ELSE 2 * u[n \div 2]
  BY <1>2
<1>5. ASSUME n >= Mantissas
      PROVE  n \div 2 \in Nat /\ n \div 2 < n /\ Ulp(n) = 2 * Ulp(n \div 2)
  <2>1. n \div 2 \in Nat /\ n \div 2 < n /\ n \div 2 \in 0..n
    BY <1>5, Even, Half
  <2>2. u[n \div 2] = Ulp(n \div 2)
    BY <1>1, <2>1, UlpsAgree DEF u
  <2>3. ~(n < Mantissas)
    BY <1>5, Even
  <2> QED BY <1>3, <1>4, <2>1, <2>2, <2>3
<1> QED BY <1>3, <1>4, <1>5

(* The last digit's weight: the number is less than Mantissas of it, and,   *)
(* unless it is the unit, at least half as many.                            *)
LEMMA UlpBounds ==
  ASSUME NEW n \in Nat
  PROVE  /\ Ulp(n) \in Nat \ {0} /\ n < Mantissas * Ulp(n)
         /\ Ulp(n) # 1 => 2 * n >= Mantissas * Ulp(n)
<1> DEFINE T == {m \in Nat : /\ Ulp(m) \in Nat \ {0} /\ m < Mantissas * Ulp(m)
                             /\ Ulp(m) # 1 => 2 * m >= Mantissas * Ulp(m)}
<1>1. ASSUME NEW m \in Nat, \A i \in 0..(m - 1) : i \in T PROVE m \in T
  <2>1. CASE m < Mantissas
    BY <2>1, UlpIs, Even
  <2>2. CASE m >= Mantissas
    <3> DEFINE h == m \div 2
               u == Ulp(h)
               z == Mantissas * u
    <3>1. h \in Nat /\ h < m /\ Ulp(m) = 2 * u
      BY <2>2, UlpIs
    <3>2. 2 * h <= m /\ m <= 2 * h + 1
      BY <2>2, Even, Half
    <3>3. u \in Nat \ {0} /\ h < z /\ (u # 1 => 2 * h >= z)
      <4>1. h \in 0..(m - 1)
        BY <3>1
      <4> HIDE DEF h
      <4> QED BY <1>1, <4>1
    <3> HIDE DEF h, u
    <3>4. Mantissas * (2 * u) = 2 * z /\ z \in Nat
      BY <3>3, Even
    <3>5. u = 1 => z = Mantissas
      BY Even
    <3> HIDE DEF z
    <3>6. m < 2 * z
      BY <3>1, <3>2, <3>3, <3>4
    <3>7. 2 * m >= 2 * z
      BY <2>2, <3>1, <3>2, <3>3, <3>4, <3>5, Even
    <3> QED BY <3>1, <3>3, <3>4, <3>6, <3>7
  <2> QED BY <2>1, <2>2, Even
<1>2. T \in SUBSET Nat
  OBVIOUS
<1>3. T = Nat
  <2> HIDE DEF T
  <2> QED BY <1>1, <1>2, FromBelow
<1> QED BY <1>3

(* The weights of the last digits of two numbers are the same or that of    *)
(* the larger is an even multiple of the other one.                         *)
LEMMA UlpChain ==
  ASSUME NEW n \in Nat, NEW m \in 0..n
  PROVE  \/ Ulp(n) = Ulp(m)
         \/ \E q \in Nat \ {0} : Ulp(n) = 2 * (q * Ulp(m))
<1> DEFINE Chained(i, j) == \/ Ulp(i) = Ulp(j)
                            \/ \E q \in Nat \ {0} : Ulp(i) = 2 * (q * Ulp(j))
           T == {i \in Nat : \A j \in 0..i : Chained(i, j)}
<1>1. ASSUME NEW i \in Nat, \A h \in 0..(i - 1) : h \in T PROVE i \in T
  <2> SUFFICES ASSUME NEW j \in 0..i PROVE Chained(i, j)
    OBVIOUS
  <2>1. CASE i < Mantissas
    BY <2>1, UlpIs, Even
  <2>2. CASE i >= Mantissas /\ j < Mantissas
    <3>1. i \div 2 \in Nat /\ Ulp(i) = 2 * Ulp(i \div 2) /\ Ulp(j) = 1
      BY <2>2, UlpIs
    <3>2. Ulp(i \div 2) \in Nat \ {0}
      BY <3>1, UlpBounds
    <3>3. Ulp(i) = 2 * (Ulp(i \div 2) * Ulp(j))
      BY <3>1, <3>2
    <3> QED BY <3>2, <3>3
  <2>3. CASE i >= Mantissas /\ j >= Mantissas
    <3> DEFINE a == i \div 2
               b == j \div 2
    <3>1. a \in Nat /\ a < i /\ Ulp(i) = 2 * Ulp(a)
      BY <2>3, UlpIs
    <3>2. b \in Nat /\ Ulp(j) = 2 * Ulp(b)
      BY <2>3, UlpIs
    <3>3. b <= a
      OBVIOUS
    <3> HIDE DEF a, b
    <3>4. a \in 0..(i - 1) /\ b \in 0..a
      BY <3>1, <3>2, <3>3
    <3>5. Chained(a, b)
      BY <1>1, <3>4
    <3>6. CASE Ulp(a) = Ulp(b)
      BY <3>1, <3>2, <3>6
    <3>7. ASSUME NEW q \in Nat \ {0}, Ulp(a) = 2 * (q * Ulp(b)) PROVE Chained(i, j)
      <4>1. Ulp(b) \in Nat
        BY <3>2, UlpBounds
      <4>2. 2 * (2 * (q * Ulp(b))) = 2 * (q * (2 * Ulp(b)))
        BY <4>1
      <4>3. Ulp(i) = 2 * (q * Ulp(j))
        BY <3>1, <3>2, <3>7, <4>2
      <4> QED BY <4>3
    <3> QED BY <3>5, <3>6, <3>7
  <2> QED BY <2>1, <2>2, <2>3, Even
<1>2. T \in SUBSET Nat
  OBVIOUS
<1>3. T = Nat
  <2> HIDE DEF T
  <2> QED BY <1>1, <1>2, FromBelow
<1>4. Chained(n, m)
  BY <1>3
<1> QED BY <1>4

LEMMA Scale ==
  ASSUME NEW u \in Nat \ {0}, NEW i \in Int, NEW j \in Int
  PROVE  /\ i * u \in Int
         /\ i <= j <=> i * u <= j * u
         /\ (i + j) * u = i * u + j * u /\ (i - j) * u = i * u - j * u
<1>1. i * u \in Int /\ (i + j) * u = i * u + j * u /\ (i - j) * u = i * u - j * u
  OBVIOUS
<1>2. i <= j => i * u <= j * u
  OBVIOUS
<1>3. i >= j + 1 => i * u >= j * u + u
  <2> SUFFICES ASSUME i >= j + 1 PROVE i * u >= j * u + u
    OBVIOUS
  <2>1. i * u >= (j + 1) * u
    OBVIOUS
  <2>2. (j + 1) * u = j * u + u
    OBVIOUS
  <2> QED BY <2>1, <2>2
<1>4. j * u \in Int
  OBVIOUS
<1> QED BY <1>1, <1>2, <1>3, <1>4

(* What rounding does: it moves a number by half of its last digit at most  *)
(* to a multiple of it, and a multiple not at all.                          *)
LEMMA RoundIs ==
  ASSUME NEW x \in Int
  PROVE  /\ Round(x) \in Int
         /\ \E i \in Int : Round(x) = i * Ulp(Abs(x))
         /\ 2 * (Round(x) - x) <= Ulp(Abs(x)) /\ -Ulp(Abs(x)) <= 2 * (Round(x) - x)
         /\ Abs(Round(x)) <= Mantissas * Ulp(Abs(x))
         /\ \A i \in Int : x = i * Ulp(Abs(x)) => Round(x) = x
<1> DEFINE u == Ulp(Abs(x))
           q == x \div u
           r == x - q * u
           z == Mantissas * u
<1>1. Abs(x) \in Nat
  BY DEF Abs
<1>2. u \in Nat \ {0} /\ Abs(x) < z
  BY <1>1, UlpBounds
<1>3. Round(x) = IF 2 * r < u \/ (2 * r = u /\ q % 2 = 0) THEN q * u ELSE (q + 1) * u
  <2>1. Round(x) = Nearest(x, u)
    BY DEF Round
  <2> HIDE DEF u
  <2>2. Nearest(x, u) = IF 2 * r < u \/ (2 * r = u /\ q % 2 = 0) THEN q * u ELSE (q + 1) * u
    BY Zenon DEF Nearest
  <2> QED BY <2>1, <2>2
<1>4. q \in Int /\ x = u * q + (x % u) /\ x % u \in 0..(u - 1)
  <2> HIDE DEF u
  <2> QED BY <1>2
<1> HIDE DEF u, q
<1>5. q * u \in Int /\ u * q = q * u
  BY <1>2, <1>4
<1>6. r \in 0..(u - 1) /\ x = q * u + r
  BY <1>2, <1>4, <1>5
<1>7. (q + 1) * u = q * u + u
  BY <1>2, <1>4
<1>8. /\ z \in Int /\ -z = (-Mantissas) * u /\ -z - u = (-Mantissas - 1) * u
  BY <1>2, Even
<1> HIDE DEF r
<1>9. -z < x /\ x < z
  BY <1>2, <1>8 DEF Abs
<1>10. q <= Mantissas - 1
  <2> SUFFICES ASSUME Mantissas <= q PROVE FALSE
    BY <1>4, Even
  <2>1. Mantissas * u <= q * u
    BY <1>2, <1>4, Even, Scale
  <2> QED BY <1>2, <1>5, <1>6, <1>8, <1>9, <2>1
<1>11. -Mantissas <= q
  <2> SUFFICES ASSUME q <= -Mantissas - 1 PROVE FALSE
    BY <1>4, Even
  <2>1. -Mantissas - 1 \in Int
    BY Even
  <2>2. q * u <= (-Mantissas - 1) * u
    BY <1>2, <1>4, <2>1, Scale
  <2> QED BY <1>2, <1>5, <1>6, <1>8, <1>9, <2>2
<1>12. -z <= q * u
  <2>1. -Mantissas \in Int
    BY Even
  <2> QED BY <1>2, <1>4, <1>8, <1>11, <2>1, Scale
<1>13. q * u + u <= z
  <2>1. q + 1 <= Mantissas /\ q + 1 \in Int /\ Mantissas \in Int
    BY <1>4, <1>10, Even
  <2>2. (q + 1) * u <= Mantissas * u
    BY <1>2, <2>1, Scale
  <2> QED BY <1>7, <2>2
<1> HIDE DEF z
<1> DEFINE qu == q * u
<1>14. CASE 2 * r < u \/ (2 * r = u /\ q % 2 = 0)
  <2>1. Round(x) = q * u
    BY <1>3, <1>14
  <2>2. Abs(Round(x)) <= z
    BY <1>2, <1>5, <1>8, <1>12, <1>13, <2>1 DEF Abs
  <2>3. 2 * (Round(x) - x) <= u /\ -u <= 2 * (Round(x) - x) /\ Round(x) \in Int
    <3> HIDE DEF qu
    <3>1. Round(x) = qu /\ qu \in Int /\ x = qu + r
      BY <1>5, <1>6, <2>1 DEF qu
    <3> QED BY <1>2, <1>6, <1>14, <3>1
  <2>4. ASSUME NEW i \in Int, x = i * u PROVE Round(x) = x
    <3>1. (i - q) * u = r
      BY <1>2, <1>4, <1>5, <1>6, <2>4
    <3>2. i - q \in Int
      BY <1>4
    <3>3. i - q <= 0
      <4> SUFFICES ASSUME 1 <= i - q PROVE FALSE
        BY <3>2
      <4>1. 1 * u <= (i - q) * u
        BY <1>2, <3>2, Scale
      <4> QED BY <1>2, <1>6, <3>1, <4>1
    <3>4. i - q >= 0
      <4> SUFFICES ASSUME i - q <= -1 PROVE FALSE
        BY <3>2
      <4>1. -1 \in Int
        OBVIOUS
      <4>2. (i - q) * u <= (-1) * u
        BY <1>2, <3>2, <4>1, Scale
      <4> QED BY <1>2, <1>6, <3>1, <4>2
    <3>5. i = q
      BY <1>4, <3>3, <3>4
    <3> QED BY <2>1, <2>4, <3>5
  <2> QED BY <1>4, <2>1, <2>2, <2>3, <2>4 DEF u, z
<1>15. CASE ~(2 * r < u \/ (2 * r = u /\ q % 2 = 0))
  <2>1. Round(x) = (q + 1) * u /\ Round(x) = q * u + u
    BY <1>3, <1>7, <1>15
  <2>2. Abs(Round(x)) <= z
    BY <1>2, <1>5, <1>8, <1>12, <1>13, <2>1 DEF Abs
  <2>3. 2 * r >= u
    BY <1>2, <1>6, <1>15
  <2>4. 2 * (Round(x) - x) <= u /\ -u <= 2 * (Round(x) - x) /\ Round(x) \in Int
    <3> HIDE DEF qu
    <3>1. Round(x) = qu + u /\ qu \in Int /\ x = qu + r
      BY <1>5, <1>6, <2>1 DEF qu
    <3> QED BY <1>2, <1>6, <2>3, <3>1
  <2>5. ASSUME NEW i \in Int, x = i * u PROVE Round(x) = x
    <3>1. (i - q) * u = r
      BY <1>2, <1>4, <1>5, <1>6, <2>5
    <3>2. i - q \in Int
      BY <1>4
    <3>3. i - q <= 0
      <4> SUFFICES ASSUME 1 <= i - q PROVE FALSE
        BY <3>2
      <4>1. 1 * u <= (i - q) * u
        BY <1>2, <3>2, Scale
      <4> QED BY <1>2, <1>6, <3>1, <4>1
    <3>4. (i - q) * u <= 0 * u
      BY <1>2, <3>2, <3>3, Scale
    <3> QED BY <1>2, <1>6, <2>3, <3>1, <3>4
  <2> QED BY <1>4, <2>1, <2>2, <2>4, <2>5 DEF u, z
<1> QED
  BY <1>14, <1>15

LEMMA Regroup ==
  ASSUME NEW i \in Int, NEW q \in Int, NEW w \in Int
  PROVE  i * (2 * (q * w)) = (i * (2 * q)) * w /\ i * (2 * q) \in Int
OBVIOUS

(* A multiple of a last digit that is at most Mantissas of it is a number   *)
(* of T.                                                                    *)
LEMMA Representable ==
  ASSUME NEW n \in Nat, NEW i \in Int, NEW v \in Int, v = i * Ulp(n),
         Abs(v) <= Mantissas * Ulp(n)
  PROVE  Round(v) = v
<1> DEFINE u == Ulp(n)
           w == Ulp(Abs(v))
<1>1. Abs(v) \in Nat
  BY DEF Abs
<1>2. u \in Nat \ {0} /\ w \in Nat \ {0} /\ (w # 1 => 2 * Abs(v) >= Mantissas * w)
  BY <1>1, UlpBounds
<1>3. \/ w = u
      \/ \E q \in Nat \ {0} : u = 2 * (q * w)
      \/ \E q \in Nat \ {0} : w = 2 * (q * u)
  <2>1. n <= Abs(v) \/ Abs(v) <= n
    BY <1>1
  <2>2. n <= Abs(v) => w = u \/ \E q \in Nat \ {0} : w = 2 * (q * u)
    BY <1>1, UlpChain
  <2>3. Abs(v) <= n => w = u \/ \E q \in Nat \ {0} : u = 2 * (q * w)
    BY <1>1, UlpChain
  <2> QED BY <2>1, <2>2, <2>3
<1>4. \A j \in Int : v = j * w => Round(v) = v
  BY RoundIs
<1>5. v = i * u /\ Abs(v) <= Mantissas * u
  OBVIOUS
<1> HIDE DEF u, w
<1>6. CASE w = u
  BY <1>4, <1>5, <1>6
<1>7. ASSUME NEW q \in Nat \ {0}, u = 2 * (q * w) PROVE Round(v) = v
  <2>1. v = (i * (2 * q)) * w /\ i * (2 * q) \in Int
    <3>1. i * (2 * (q * w)) = (i * (2 * q)) * w /\ i * (2 * q) \in Int
      BY <1>2, Regroup
    <3> QED BY <1>5, <1>7, <3>1
  <2> QED BY <1>4, <2>1
<1>8. ASSUME NEW q \in Nat \ {0}, w = 2 * (q * u) PROVE Round(v) = v
  <2> DEFINE z == Mantissas * u
  <2>1. z \in Nat /\ q * z \in Nat /\ Mantissas * w = 2 * (q * z)
    BY <1>2, <1>8, Even
  <2>2. w # 1
    BY <1>2, <1>8
  <2>3. Abs(v) >= q * z /\ Abs(v) <= z
    BY <1>1, <1>2, <1>5, <2>1, <2>2
  <2>4. z >= 1
    BY <1>2, Even
  <2> HIDE DEF z
  <2>5. q = 1
    <3> SUFFICES ASSUME q >= 2 PROVE FALSE
      OBVIOUS
    <3>1. q * z >= 2 * z
      BY <2>1
    <3> QED BY <1>1, <2>1, <2>3, <2>4, <3>1
  <2>6. Abs(v) = z
    BY <1>1, <2>1, <2>3, <2>5
  <2>7. PICK m \in Nat : Mantissas = 2 * m
    BY Even
  <2>8. z = m * w
    BY <1>2, <1>8, <2>5, <2>7 DEF z
  <2>9. v = m * w \/ v = (-m) * w
    BY <1>2, <2>6, <2>8 DEF Abs
  <2> QED BY <1>4, <2>9
<1> QED
  BY <1>3, <1>6, <1>7, <1>8

(* The numbers of T, rounded ones and their opposites among them.           *)
LEMMA Rounded ==
  ASSUME NEW x \in Int
  PROVE  Round(x) \in Int /\ Round(Round(x)) = Round(x)
<1>1. Abs(x) \in Nat
  BY DEF Abs
<1>2. /\ Round(x) \in Int /\ Abs(Round(x)) <= Mantissas * Ulp(Abs(x))
      /\ \E i \in Int : Round(x) = i * Ulp(Abs(x))
  BY RoundIs
<1> QED
  BY <1>1, <1>2, Representable

LEMMA NumberOfT ==
  ASSUME NEW x \in Int, Round(x) = x
  PROVE  /\ \E i \in Int : x = i * Ulp(Abs(x))
         /\ Abs(x) < Mantissas * Ulp(Abs(x))
         /\ Round(-x) = -x
<1>1. Abs(x) \in Nat
  BY DEF Abs
<1>2. Abs(x) < Mantissas * Ulp(Abs(x)) /\ Ulp(Abs(x)) \in Nat
  BY <1>1, UlpBounds
<1>3. PICK i \in Int : x = i * Ulp(Abs(x))
  BY RoundIs
<1>4. -x = (-i) * Ulp(Abs(x)) /\ -i \in Int /\ Abs(-x) = Abs(x) /\ -x \in Int
  BY <1>2, <1>3 DEF Abs
<1>5. Mantissas * Ulp(Abs(x)) \in Nat /\ Abs(-x) <= Mantissas * Ulp(Abs(x))
  BY <1>1, <1>2, <1>4, Even
<1> QED
  BY <1>1, <1>2, <1>3, <1>4, <1>5, Representable

LEMMA Zero0 == Round(0) = 0
<1>1. Ulp(0) \in Nat
  BY UlpBounds
<1>2. Abs(0) = 0 /\ 0 = 0 * Ulp(0) /\ 0 <= Mantissas * Ulp(0)
  BY <1>1, Even DEF Abs
<1> QED
  BY <1>2, Representable

LEMMA AbsBounds ==
  ASSUME NEW x \in Int, NEW y \in Int
  PROVE  /\ Abs(x) \in Nat /\ Abs(-x) = Abs(x) /\ (Abs(x) = 0 <=> x = 0)
         /\ Abs(x + y) <= Abs(x) + Abs(y) /\ Abs(x - y) <= Abs(x) + Abs(y)
         /\ \A w \in Int : -w <= x /\ x <= w <=> Abs(x) <= w
BY DEF Abs

(* A multiple of u that is less than M * u is at least u less.              *)
LEMMA UnitLess ==
  ASSUME NEW u \in Nat \ {0}, NEW i \in Int, Abs(i * u) < Mantissas * u
  PROVE  Abs(i * u) <= Mantissas * u - u
<1>1. /\ (Mantissas - 1) * u = Mantissas * u - u
      /\ (-(Mantissas - 1)) * u = -(Mantissas * u - u)
      /\ (-Mantissas) * u = -(Mantissas * u)
      /\ Mantissas * u \in Int
      /\ Mantissas - 1 \in Int /\ -(Mantissas - 1) \in Int /\ -Mantissas \in Int /\ Mantissas \in Int
  BY Even
<1>2. i * u \in Int
  OBVIOUS
<1>3. i <= Mantissas - 1
  <2> SUFFICES ASSUME Mantissas <= i PROVE FALSE
    BY <1>1
  <2>1. Mantissas * u <= i * u
    BY <1>1, Scale
  <2> QED BY <1>1, <1>2, <2>1 DEF Abs
<1>4. -(Mantissas - 1) <= i
  <2> SUFFICES ASSUME i <= -Mantissas PROVE FALSE
    BY <1>1
  <2>1. i * u <= (-Mantissas) * u
    BY <1>1, Scale
  <2> QED BY <1>1, <1>2, <2>1 DEF Abs
<1>5. i * u <= (Mantissas - 1) * u
  BY <1>1, <1>3, Scale
<1>6. (-(Mantissas - 1)) * u <= i * u
  BY <1>1, <1>4, Scale
<1> QED
  BY <1>1, <1>2, <1>5, <1>6 DEF Abs

(* Dekker's theorem: what the sum of two numbers of T is rounded by, and    *)
(* the sum less the larger of the two, are numbers of T.                    *)
LEMMA FastTwoSum ==
  ASSUME NEW a \in Int, NEW b \in Int, Round(a) = a, Round(b) = b, Abs(b) <= Abs(a)
  PROVE  /\ Round(Round(a + b) - a) = Round(a + b) - a
         /\ Round(a + b - Round(a + b)) = a + b - Round(a + b)
<1> DEFINE s == Round(a + b)
           z == s - a
           e == a + b - s
           ua == Ulp(Abs(a))
           ub == Ulp(Abs(b))
           us == Ulp(Abs(a + b))
           Goal == Round(z) = z /\ Round(e) = e
<1> SUFFICES Goal
  OBVIOUS
<1>1. /\ Abs(a) \in Nat /\ Abs(b) \in Nat /\ Abs(a + b) \in Nat
      /\ Abs(a + b) <= Abs(a) + Abs(b)
  BY AbsBounds
<1>2. /\ ua \in Nat \ {0} /\ ub \in Nat \ {0} /\ us \in Nat \ {0}
      /\ us # 1 => 2 * Abs(a + b) >= Mantissas * us
  BY <1>1, UlpBounds
<1>3. PICK i \in Int : a = i * ua
  BY NumberOfT
<1>4. PICK j \in Int : b = j * ub
  BY NumberOfT
<1>5. Abs(a) < Mantissas * ua /\ Abs(b) < Mantissas * ub
  BY NumberOfT
<1>6. a + b \in Int
  OBVIOUS
<1>7. /\ s \in Int
      /\ 2 * (s - (a + b)) <= us /\ -us <= 2 * (s - (a + b))
      /\ \A l \in Int : a + b = l * us => s = a + b
  BY <1>6, RoundIs
<1>8. PICK m \in Int : s = m * us
  BY <1>6, RoundIs
<1>9. ua = ub \/ \E q \in Nat \ {0} : ua = 2 * (q * ub)
  BY <1>1, UlpChain
<1>10. \/ us = ua
       \/ \E q \in Nat \ {0} : us = 2 * (q * ua)
       \/ \E q \in Nat \ {0} : ua = 2 * (q * us)
  <2>1. Abs(a) <= Abs(a + b) \/ Abs(a + b) <= Abs(a)
    BY <1>1
  <2>2. Abs(a) <= Abs(a + b) => us = ua \/ \E q \in Nat \ {0} : us = 2 * (q * ua)
    BY <1>1, UlpChain
  <2>3. Abs(a + b) <= Abs(a) => us = ua \/ \E q \in Nat \ {0} : ua = 2 * (q * us)
    BY <1>1, UlpChain
  <2> QED BY <2>1, <2>2, <2>3
<1>11. \/ us = ub
       \/ \E q \in Nat \ {0} : us = 2 * (q * ub)
       \/ \E q \in Nat \ {0} : ub = 2 * (q * us)
  <2>1. Abs(b) <= Abs(a + b) \/ Abs(a + b) <= Abs(b)
    BY <1>1
  <2>2. Abs(b) <= Abs(a + b) => us = ub \/ \E q \in Nat \ {0} : us = 2 * (q * ub)
    BY <1>1, UlpChain
  <2>3. Abs(a + b) <= Abs(b) => us = ub \/ \E q \in Nat \ {0} : ub = 2 * (q * us)
    BY <1>1, UlpChain
  <2> QED BY <2>1, <2>2, <2>3
<1>12. ASSUME NEW v \in Int, NEW l \in Int, v = l * ua, Abs(v) <= Mantissas * ua
       PROVE  Round(v) = v
  BY <1>1, <1>12, Representable
<1>13. ASSUME NEW v \in Int, NEW l \in Int, v = l * ub, Abs(v) <= Mantissas * ub
       PROVE  Round(v) = v
  BY <1>1, <1>13, Representable
<1>14. ASSUME NEW v \in Int, NEW l \in Int, v = l * us, Abs(v) <= Mantissas * us
       PROVE  Round(v) = v
  BY <1>1, <1>14, Representable
<1>15. s = a + b => Goal
  <2> SUFFICES ASSUME s = a + b PROVE Goal
    OBVIOUS
  <2> HIDE DEF s
  <2>1. z = b /\ e = 0
    OBVIOUS
  <2> HIDE DEF z, e
  <2> QED BY <2>1, Zero0
<1>16. \E l \in Nat \ {0} : ua = l * ub
  <2>1. CASE ua = ub
    <3>1. ua = 1 * ub
      BY <1>2, <2>1
    <3> QED BY <3>1
  <2>2. ASSUME NEW q \in Nat \ {0}, ua = 2 * (q * ub) PROVE \E l \in Nat \ {0} : ua = l * ub
    <3>1. ua = (2 * q) * ub /\ 2 * q \in Nat \ {0}
      BY <1>2, <2>2
    <3> QED BY <3>1
  <2> QED BY <1>9, <2>1, <2>2
<1> HIDE DEF s, ua, ub, us
<1>17. z \in Int /\ e \in Int /\ z = b - e /\ 2 * Abs(e) <= us
  BY <1>2, <1>7 DEF Abs
<1>18. Abs(z) <= Abs(b) + Abs(e) /\ Abs(e) \in Nat /\ Abs(z) \in Nat
  <2> HIDE DEF z, e
  <2> QED BY <1>17, AbsBounds
<1>19. PICK c \in Int : a = c * ub
  <2>1. PICK l \in Nat \ {0} : ua = l * ub
    BY <1>16
  <2>2. a = (i * l) * ub /\ i * l \in Int
    BY <1>2, <1>3, <2>1
  <2> QED BY <2>2
<1> DEFINE MultipleOfB(x) == \E l \in Int : x = l * ub
<1>20. ASSUME us = ub \/ \E q \in Nat \ {0} : ub = 2 * (q * us) PROVE Goal
  <2>1. \E l \in Int : ub = l * us
    <3>1. CASE us = ub
      <4>1. ub = 1 * us
        BY <1>2, <3>1
      <4> QED BY <4>1
    <3>2. ASSUME NEW q \in Nat \ {0}, ub = 2 * (q * us) PROVE \E l \in Int : ub = l * us
      <4>1. ub = (2 * q) * us
        BY <1>2, <3>2
      <4> QED BY <4>1
    <3> QED BY <1>20, <3>1, <3>2
  <2>2. PICK l \in Int : ub = l * us
    BY <2>1
  <2>3. a + b = ((c + j) * l) * us /\ (c + j) * l \in Int
    <3>1. a + b = (c + j) * ub
      BY <1>2, <1>4, <1>19
    <3>2. \A u, v, w \in Int : u * (v * w) = (u * v) * w
      OBVIOUS
    <3> QED BY <1>2, <2>2, <3>1, <3>2
  <2> HIDE DEF Goal
  <2> QED BY <1>7, <1>15, <2>3
<1>21. ASSUME NEW q \in Nat \ {0}, us = 2 * (q * ub) PROVE \E l \in Int : e = l * ub
  <2>1. s = (m * (2 * q)) * ub /\ m * (2 * q) \in Int
    BY <1>2, <1>8, <1>21
  <2> DEFINE n == m * (2 * q)
  <2>2. e = (c + j - n) * ub
    <3>1. s = n * ub /\ n \in Int
      BY <2>1
    <3> HIDE DEF n
    <3>2. (c + j - n) * ub = c * ub + j * ub - n * ub
      BY <1>2, <3>1
    <3> QED BY <1>4, <1>19, <3>1, <3>2
  <2> QED BY <2>1, <2>2
<1>22. ASSUME NEW q \in Nat \ {0}, us = 2 * (q * ub), \E l \in Int : ua = l * us PROVE Goal
  <2>1. PICK l \in Int : ua = l * us
    BY <1>22
  <2>2. PICK g \in Int : a = g * us
    <3>1. a = (i * l) * us /\ i * l \in Int
      BY <1>2, <1>3, <2>1
    <3> QED BY <3>1
  <2>3. z = (m - g) * us
    BY <1>2, <1>8, <2>2
  <2> DEFINE bu == Mantissas * ub
             su == Mantissas * us
  <2>4. bu \in Nat /\ su \in Nat /\ su >= 2 * bu /\ su >= us
    <3>1. q * bu >= bu /\ su = 2 * (q * bu) /\ bu \in Nat
      BY <1>2, <1>22, Even
    <3>2. su >= us
      BY <1>2, Even
    <3> QED BY <3>1, <3>2
  <2> HIDE DEF bu, su
  <2>5. Abs(b) < bu
    BY <1>5 DEF bu
  <2>6. Abs(z) <= su
    <3> HIDE DEF z, e
    <3> QED BY <1>1, <1>2, <1>17, <1>18, <2>4, <2>5
  <2>7. Abs(e) <= Abs(b)
    <3> SUFFICES ASSUME Abs(e) > Abs(b) PROVE FALSE
      BY <1>1, <1>18
    <3>1. Abs(z) < us
      <4> HIDE DEF z, e
      <4> QED BY <1>1, <1>2, <1>17, <1>18
    <3>2. m - g = 0
      <4> DEFINE d == m - g
      <4>1. d \in Int /\ z = d * us /\ d * us \in Int
        BY <1>2, <2>3
      <4> HIDE DEF d, z
      <4>2. d >= 1 => d * us >= us
        BY <1>2, <4>1
      <4>3. d <= -1 => d * us <= -us
        BY <1>2, <4>1
      <4>4. ~(d >= 1) /\ ~(d <= -1)
        BY <1>2, <3>1, <4>1, <4>2, <4>3 DEF Abs
      <4> QED BY <4>1, <4>4 DEF d
    <3>3. z = 0
      BY <1>2, <2>3, <3>2
    <3>4. e = b
      BY <1>17, <3>3
    <3> QED BY <1>1, <3>4
  <2>8. Round(z) = z
    <3>1. m - g \in Int
      OBVIOUS
    <3> HIDE DEF z
    <3> QED BY <1>14, <1>17, <2>3, <2>6, <3>1 DEF su
  <2>9. PICK p \in Int : e = p * ub
    BY <1>21, <1>22
  <2>10. Abs(e) <= bu
    <3> HIDE DEF e
    <3> QED BY <1>1, <1>18, <2>4, <2>5, <2>7
  <2>11. Round(e) = e
    <3> HIDE DEF e
    <3> QED BY <1>13, <1>17, <2>9, <2>10 DEF bu
  <2> QED BY <2>8, <2>11
<1>23. ASSUME NEW q \in Nat \ {0}, us = 2 * (q * ua),
              NEW o \in Nat \ {0}, us = 2 * (o * ub) PROVE Goal
  <2> DEFINE au == Mantissas * ua
             bu == Mantissas * ub
  <2>1. au \in Nat /\ bu \in Nat /\ au >= 2 * ua /\ au >= ua
    BY <1>2, Even
  <2>2. Abs(a) < au /\ Abs(b) < bu
    BY <1>5
  <2>3. q = 1
    <3> SUFFICES ASSUME q >= 2 PROVE FALSE
      OBVIOUS
    <3>1. Mantissas * us = 2 * (q * au)
      BY <1>2, <1>23, Even
    <3>2. us # 1
      BY <1>2, <1>23
    <3>3. q * au >= 2 * au /\ q * au \in Int
      BY <2>1
    <3> HIDE DEF au
    <3> QED BY <1>1, <1>2, <2>1, <2>2, <3>1, <3>2, <3>3
  <2>4. us = 2 * ua
    BY <1>2, <1>23, <2>3
  <2>5. Abs(a + b) >= au
    <3>1. us # 1 /\ Mantissas * us = 2 * au
      BY <1>2, <2>4, Even
    <3> HIDE DEF au
    <3> QED BY <1>1, <1>2, <2>1, <3>1
  <2>6. Abs(e) <= ua
    <3> HIDE DEF e
    <3> QED BY <1>2, <1>18, <1>17, <2>4
  <2>7. Abs(a) <= au - ua
    BY <1>2, <1>3, <1>5, UnitLess
  <2>8. ua <= Abs(b)
    <3> HIDE DEF au
    <3> QED BY <1>1, <1>2, <2>1, <2>5, <2>7
  <2>9. PICK p \in Int : e = p * ub
    BY <1>21, <1>23
  <2>10. Abs(e) <= bu
    <3> HIDE DEF e, bu
    <3> QED BY <1>1, <1>2, <1>18, <2>1, <2>2, <2>6, <2>8
  <2>11. Round(e) = e
    <3> HIDE DEF e
    <3> QED BY <1>13, <1>17, <2>9, <2>10
  <2>12. Abs(b) + ua <= au
    <3>1. CASE ua = ub
      <4>1. Abs(b) <= bu - ub
        BY <1>2, <1>4, <1>5, UnitLess
      <4>2. bu = au
        BY <3>1
      <4> HIDE DEF au, bu
      <4> QED BY <1>1, <1>2, <2>1, <3>1, <4>1, <4>2
    <3>2. ASSUME NEW l \in Nat \ {0}, ua = 2 * (l * ub) PROVE Abs(b) + ua <= au
      <4>1. au = 2 * (l * bu) /\ l * bu >= bu /\ l * bu \in Int
        BY <1>2, <3>2, Even
      <4>2. au >= 4 * ua
        BY <1>2, Even
      <4> HIDE DEF au, bu
      <4>3. 2 * Abs(b) < au
        BY <1>1, <2>1, <2>2, <4>1
      <4> QED BY <1>1, <1>2, <2>1, <4>2, <4>3
    <3> QED BY <1>9, <3>1, <3>2
  <2>13. Abs(z) <= au
    <3> HIDE DEF z, e, au
    <3> QED BY <1>1, <1>2, <1>18, <2>1, <2>6, <2>12
  <2>14. z = (m * 2 - i) * ua /\ m * 2 - i \in Int
    BY <1>2, <1>3, <1>8, <2>4
  <2>15. Round(z) = z
    <3> HIDE DEF z
    <3> QED BY <1>12, <1>17, <2>13, <2>14
  <2> QED BY <2>11, <2>15
<1>24. ASSUME NEW o \in Nat \ {0}, us = 2 * (o * ub) PROVE Goal
  <2>1. CASE us = ua
    <3>1. ua = 1 * us
      BY <1>2, <2>1
    <3> HIDE DEF Goal
    <3> QED BY <1>22, <1>24, <3>1
  <2>2. ASSUME NEW q \in Nat \ {0}, ua = 2 * (q * us) PROVE Goal
    <3>1. ua = (2 * q) * us
      BY <1>2, <2>2
    <3> HIDE DEF Goal
    <3> QED BY <1>22, <1>24, <3>1
  <2>3. ASSUME NEW q \in Nat \ {0}, us = 2 * (q * ua) PROVE Goal
    BY <1>23, <1>24, <2>3
  <2> HIDE DEF Goal
  <2> QED BY <1>10, <2>1, <2>2, <2>3
<1> HIDE DEF Goal
<1> QED
  BY <1>11, <1>20, <1>24

LEMMA UlpOfRounded ==
  ASSUME NEW x \in Int
  PROVE  Ulp(Abs(x)) <= Ulp(Abs(Round(x)))
<1> DEFINE R == Round(x)
           u == Ulp(Abs(x))
           w == Ulp(Abs(R))
<1>1. R \in Int /\ Abs(x) \in Nat /\ Abs(R) \in Nat
  BY RoundIs, AbsBounds
<1>2. /\ u \in Nat \ {0} /\ w \in Nat \ {0} /\ Abs(R) < Mantissas * w
      /\ u # 1 => 2 * Abs(x) >= Mantissas * u
  BY <1>1, UlpBounds
<1>3. PICK i \in Int : R = i * u
  BY RoundIs
<1>4. 2 * (R - x) <= u /\ -u <= 2 * (R - x)
  BY RoundIs
<1>5. \/ w = u
      \/ \E q \in Nat \ {0} : w = 2 * (q * u)
      \/ \E q \in Nat \ {0} : u = 2 * (q * w)
  <2>1. Abs(x) <= Abs(R) \/ Abs(R) <= Abs(x)
    BY <1>1
  <2>2. Abs(x) <= Abs(R) => w = u \/ \E q \in Nat \ {0} : w = 2 * (q * u)
    BY <1>1, UlpChain
  <2>3. Abs(R) <= Abs(x) => w = u \/ \E q \in Nat \ {0} : u = 2 * (q * w)
    BY <1>1, UlpChain
  <2> QED BY <2>1, <2>2, <2>3
<1> HIDE DEF R, u, w
<1>6. ASSUME NEW q \in Nat \ {0}, w = 2 * (q * u) PROVE u <= w
  <2>1. q * u >= u /\ q * u \in Int
    BY <1>2
  <2> QED BY <1>2, <1>6, <2>1
<1>7. ASSUME NEW q \in Nat \ {0}, u = 2 * (q * w) PROVE FALSE
  <2>1. q * w >= w /\ q * w \in Int
    BY <1>2
  <2>2. u # 1
    BY <1>2, <1>7, <2>1
  <2>3. PICK m \in Nat : Mantissas = 2 * m
    BY Even
  <2> DEFINE mu == m * u
             mw == m * w
  <2>4. Mantissas * u = 2 * mu /\ Mantissas * w = 2 * mw /\ mu \in Nat /\ mw \in Nat
    BY <1>2, <2>3
  <2>5. mu >= 2 * mw
    <3>1. mu = 2 * (q * mw)
      BY <1>2, <1>7
    <3>2. q * mw >= mw /\ q * mw \in Int
      BY <2>4
    <3> HIDE DEF mu, mw
    <3> QED BY <2>4, <3>1, <3>2
  <2>6. Abs(x) >= mu
    <3> HIDE DEF mu, mw
    <3> QED BY <1>1, <1>2, <2>2, <2>4
  <2>7. 2 * Abs(R) >= 2 * mu - u
    <3> HIDE DEF mu, mw
    <3> QED BY <1>1, <1>2, <1>4, <2>4, <2>6 DEF Abs
  <2>8. Abs(R) >= mu
    <3>1. i >= m \/ -i >= m
      <4> SUFFICES ASSUME i <= m - 1, -i <= m - 1 PROVE FALSE
        OBVIOUS
      <4>1. /\ i * u <= (m - 1) * u /\ (-i) * u <= (m - 1) * u
            /\ (m - 1) * u = mu - u /\ (-i) * u = -(i * u) /\ i * u \in Int
        <5>1. -i \in Int /\ m - 1 \in Int
          OBVIOUS
        <5> QED BY <1>2, <5>1, Scale
      <4> HIDE DEF mu, mw
      <4> QED BY <1>1, <1>2, <1>3, <2>4, <2>7, <4>1 DEF Abs
    <3>2. i * u >= mu \/ (-i) * u >= mu
      <4>1. -i \in Int
        OBVIOUS
      <4> QED BY <1>2, <3>1, <4>1, Scale
    <3>3. (-i) * u = -(i * u) /\ i * u \in Int
      BY <1>2
    <3> HIDE DEF mu, mw
    <3> QED BY <1>1, <1>3, <2>4, <3>2, <3>3 DEF Abs
  <2> HIDE DEF mu, mw
  <2> QED BY <1>1, <1>2, <2>4, <2>5, <2>8
<1> QED
  <2>1. u <= w
    BY <1>2, <1>5, <1>6, <1>7
  <2> QED BY <2>1 DEF u, w, R

LEMMA FastTwoSumOf ==
  ASSUME NEW a \in Int, NEW b \in Int, Round(a) = a, Round(b) = b, Abs(b) <= Abs(a),
         NEW y \in Int, y = a + b
  PROVE  /\ Round(Round(y) - a) = Round(y) - a
         /\ Round(y - Round(y)) = y - Round(y)
<1>1. /\ Round(Round(a + b) - a) = Round(a + b) - a
      /\ Round(a + b - Round(a + b)) = a + b - Round(a + b)
  BY FastTwoSum
<1>2. Round(y) = Round(a + b) /\ Round(y) \in Int
  BY RoundIs
<1>3. Round(y) - a = Round(a + b) - a /\ y - Round(y) = a + b - Round(a + b)
  BY <1>2
<1> QED
  BY <1>1, <1>3

(* What RoundedOff is, and that it is at most half of the last digit of the *)
(* rounded sum.                                                             *)
LEMMA RoundedOffIs ==
  ASSUME NEW a \in Int, NEW b \in Int, Round(a) = a, Round(b) = b
  PROVE  /\ Round(a + b) \in Int
         /\ RoundedOff(a, b) = a + b - Round(a + b)
         /\ Round(RoundedOff(a, b)) = RoundedOff(a, b)
         /\ 2 * Abs(RoundedOff(a, b)) <= Ulp(Abs(Round(a + b)))
<1> DEFINE s == Round(a + b)
<1>1. s \in Int
  BY RoundIs
<1>2. 2 * Abs(a + b - s) <= Ulp(Abs(s))
  <2> DEFINE x == a + b
  <2>1. x \in Int
    OBVIOUS
  <2> HIDE DEF x
  <2>2. 2 * (Round(x) - x) <= Ulp(Abs(x)) /\ -Ulp(Abs(x)) <= 2 * (Round(x) - x)
    BY <2>1, RoundIs
  <2>3. Ulp(Abs(x)) <= Ulp(Abs(Round(x)))
    BY <2>1, UlpOfRounded
  <2>4. Abs(x) \in Nat /\ Abs(Round(x)) \in Nat
    BY <1>1, <2>1, AbsBounds DEF x
  <2>5. Ulp(Abs(x)) \in Nat /\ Ulp(Abs(Round(x))) \in Nat
    BY <2>4, UlpBounds
  <2>6. s = Round(x) /\ a + b = x
    BY DEF x
  <2> HIDE DEF s
  <2> QED BY <1>1, <2>1, <2>2, <2>3, <2>5, <2>6 DEF Abs
<1>3. a + b = b + a /\ (a - s) + b = a + b - s /\ (b - s) + a = a + b - s
  BY <1>1
<1>4. CASE Abs(b) < Abs(a)
  <2>1. Round(s - a) = s - a /\ Round(a + b - s) = a + b - s
    <3>1. Abs(b) <= Abs(a)
      <4>1. Abs(a) \in Nat /\ Abs(b) \in Nat
        BY AbsBounds
      <4> QED BY <1>4, <4>1
    <3> QED BY <3>1, FastTwoSum
  <2> HIDE DEF s
  <2>2. s - a \in Int /\ -(s - a) = a - s
    BY <1>1
  <2>3. Round(a - s) = a - s
    BY <2>1, <2>2, NumberOfT
  <2>4. RoundedOff(a, b) = Round(Round(a - s) + b)
    BY <1>4 DEF RoundedOff, s
  <2>5. RoundedOff(a, b) = a + b - s
    BY <1>3, <2>1, <2>3, <2>4
  <2> QED BY <1>1, <1>2, <2>1, <2>5 DEF s
<1>5. CASE ~(Abs(b) < Abs(a))
  <2>1. Abs(a) <= Abs(b)
    <3>1. Abs(a) \in Nat /\ Abs(b) \in Nat
      BY AbsBounds
    <3> QED BY <1>5, <3>1
  <2> DEFINE y == a + b
  <2>2. y = b + a /\ y \in Int /\ s = Round(y)
    OBVIOUS
  <2> HIDE DEF y
  <2>8. Round(Round(y) - b) = Round(y) - b /\ Round(y - Round(y)) = y - Round(y)
    BY <2>1, <2>2, FastTwoSumOf
  <2> HIDE DEF s
  <2>9. Round(s - b) = s - b /\ Round(y - s) = y - s
    BY <2>2, <2>8
  <2>3. Round(s - b) = s - b /\ Round(a + b - s) = a + b - s
    BY <1>1, <2>9 DEF y
  <2>4. s - b \in Int /\ -(s - b) = b - s
    BY <1>1
  <2>5. Round(b - s) = b - s
    BY <2>3, <2>4, NumberOfT
  <2>6. RoundedOff(a, b) = Round(Round(b - s) + a)
    BY <1>5 DEF RoundedOff, s
  <2>7. RoundedOff(a, b) = a + b - s
    BY <1>3, <2>3, <2>5, <2>6
  <2> QED BY <1>1, <1>2, <2>3, <2>7 DEF s
<1> QED
  BY <1>4, <1>5

(* The numbers that are added are numbers of T, and so are their opposites. *)
LEMMA SummandType ==
  ASSUME NEW x \in Summands
  PROVE  x \in Int /\ Round(x) = x /\ -x \in Int /\ Round(-x) = -x
<1>1. x \in Int /\ Round(x) = x
  BY CompensatedSumAssumption
<1> QED
  BY <1>1, NumberOfT

LEMMA UlpOfNothing ==
  ASSUME NEW x \in Int
  PROVE  2 * Abs(0) <= Ulp(Abs(x))
<1>1. Ulp(Abs(x)) \in Nat \ {0}
  BY AbsBounds, UlpBounds
<1> QED
  BY <1>1 DEF Abs

NumberType == [real : Int, err : Int, err_of_err : Int]

IsNumber(n) == n \in NumberType /\ Round(n.real) = n.real /\ Round(n.err) = n.err

LEMMA KahanAdds ==
  ASSUME NEW n, IsNumber(n), NEW x \in Int,
         n.real = 0 \/ Abs(Round(x - n.err)) <= Abs(n.real)
  PROVE  LET m == KahanAdded(n, x)
         IN  /\ m.real - m.err = n.real + Round(x - n.err)
             /\ 2 * Abs(m.err) <= Ulp(Abs(m.real))
<1> DEFINE a == n.real
           b == Round(x - n.err)
           s == Round(a + b)
           m == KahanAdded(n, x)
<1>1. /\ a \in Int /\ n.err \in Int /\ Round(a) = a
  BY DEF IsNumber, NumberType
<1>2. b \in Int /\ Round(b) = b
  BY <1>1, Rounded
<1>3. m.real = s /\ m.err = Round(Round(s - a) - b)
  BY <1>1 DEF KahanAdded
<1>4. a = 0 \/ Abs(b) <= Abs(a)
  OBVIOUS
<1> HIDE DEF b, m, a
<1>5. CASE a = 0
  <2>1. s = b
    <3>1. a + b = b
      BY <1>2, <1>5
    <3> QED BY <1>2, <3>1
  <2>2. s - a = b /\ b - b = 0
    BY <1>2, <1>5, <2>1
  <2>3. m.err = 0
    BY <1>2, <1>3, <2>2, Zero0
  <2>4. 2 * Abs(0) <= Ulp(Abs(b))
    BY <1>2, UlpOfNothing
  <2> HIDE DEF s
  <2> QED BY <1>2, <1>3, <1>5, <2>1, <2>3, <2>4 DEF a, b, m
<1>6. CASE Abs(b) <= Abs(a)
  <2>1. Round(s - a) = s - a /\ Round(a + b - s) = a + b - s
    BY <1>1, <1>2, <1>6, FastTwoSum
  <2>2. s \in Int /\ 2 * Abs(RoundedOff(a, b)) <= Ulp(Abs(s)) /\ RoundedOff(a, b) = a + b - s
    BY <1>1, <1>2, RoundedOffIs
  <2> HIDE DEF s
  <2>3. -(a + b - s) = s - a - b /\ a + b - s \in Int
    BY <1>1, <1>2, <2>2
  <2>4. Round(s - a - b) = s - a - b
    BY <2>1, <2>3, NumberOfT
  <2>5. m.err = s - a - b
    BY <1>3, <2>1, <2>4
  <2>6. Abs(s - a - b) = Abs(a + b - s)
    BY <2>3, AbsBounds
  <2>7. 2 * Abs(m.err) <= Ulp(Abs(m.real))
    BY <1>3, <2>2, <2>5, <2>6
  <2>8. m.real - m.err = a + b
    BY <1>1, <1>2, <1>3, <2>2, <2>5
  <2> QED BY <2>7, <2>8 DEF a, b, m
<1> QED
  BY <1>4, <1>5, <1>6

LEMMA KahanType ==
  ASSUME NEW n, IsNumber(n), NEW x \in Int
  PROVE  IsNumber(KahanAdded(n, x)) /\ KahanAdded(n, x).err_of_err = 0
<1> DEFINE b == Round(x - n.err)
           s == Round(n.real + b)
           e == Round(Round(s - n.real) - b)
<1>1. /\ n.real \in Int /\ n.err \in Int /\ n.err_of_err \in Int
  BY DEF IsNumber, NumberType
<1>2. b \in Int
  BY <1>1, Rounded
<1>3. s \in Int /\ Round(s) = s
  BY <1>1, <1>2, Rounded
<1>4. Round(s - n.real) - b \in Int
  <2> HIDE DEF s, b
  <2>1. s - n.real \in Int
    BY <1>1, <1>3
  <2> QED BY <1>2, <2>1, Rounded
<1>5. e \in Int /\ Round(e) = e
  BY <1>4, Rounded
<1>6. KahanAdded(n, x) = [real |-> s, err |-> e, err_of_err |-> 0]
  BY Zenon DEF KahanAdded
<1> HIDE DEF s, e, b
<1> QED
  BY <1>1, <1>3, <1>5, <1>6 DEF IsNumber, NumberType

LEMMA NeumaierAdds ==
  ASSUME NEW n, IsNumber(n), NEW x \in Int
  PROVE  LET m == NeumaierAdded(n, x)
         IN  /\ IsNumber(m) /\ m.err_of_err = 0
             /\ m.real + m.err = n.real + Round(x + n.err)
             /\ 2 * Abs(m.err) <= Ulp(Abs(m.real))
<1> DEFINE a == n.real
           b == Round(x + n.err)
           s == Round(a + b)
           e == RoundedOff(a, b)
           m == NeumaierAdded(n, x)
<1>1. /\ a \in Int /\ n.err \in Int /\ n.err_of_err \in Int /\ Round(a) = a
  BY DEF IsNumber, NumberType
<1>2. b \in Int /\ Round(b) = b
  BY <1>1, Rounded
<1>3. m = [real |-> s, err |-> e, err_of_err |-> 0]
  BY Zenon DEF NeumaierAdded
<1> HIDE DEF b, m, a
<1>4. /\ s \in Int /\ e = a + b - s /\ Round(e) = e /\ 2 * Abs(e) <= Ulp(Abs(s))
  BY <1>1, <1>2, RoundedOffIs
<1>5. Round(s) = s
  <2>1. a + b \in Int
    BY <1>1, <1>2
  <2> QED BY <2>1, Rounded
<1> HIDE DEF s, e
<1>6. e \in Int /\ s + e = a + b
  BY <1>1, <1>2, <1>4
<1>7. IsNumber(m) /\ m.err_of_err = 0
  BY <1>1, <1>3, <1>4, <1>5, <1>6 DEF IsNumber, NumberType
<1>8. m.real + m.err = a + b /\ 2 * Abs(m.err) <= Ulp(Abs(m.real))
  BY <1>3, <1>4, <1>6
<1> QED
  BY <1>7, <1>8 DEF a, b, m

LEMMA KleinAdds ==
  ASSUME NEW n, IsNumber(n), NEW x \in Int, Round(x) = x
  PROVE  LET m == KleinAdded(n, x)
         IN  /\ IsNumber(m)
             /\ m.real + m.err + m.err_of_err = n.real + x + Round(n.err + n.err_of_err)
             /\ 2 * Abs(m.err) <= Ulp(Abs(m.real))
<1> DEFINE a == n.real
           b == Round(n.err + n.err_of_err)
           t == Round(x + b)
           c == RoundedOff(x, b)
           s == Round(a + t)
           e == RoundedOff(a, t)
           m == KleinAdded(n, x)
<1>1. /\ a \in Int /\ n.err \in Int /\ n.err_of_err \in Int /\ Round(a) = a
  BY DEF IsNumber, NumberType
<1>2. b \in Int /\ Round(b) = b
  <2>1. n.err + n.err_of_err \in Int
    BY <1>1
  <2> QED BY <2>1, Rounded
<1>3. m = [real |-> s, err |-> e, err_of_err |-> c]
  BY DEF KleinAdded
<1> HIDE DEF b, m, a
<1>4. t \in Int /\ c = x + b - t
  BY <1>2, RoundedOffIs
<1>5. Round(t) = t
  <2>1. x + b \in Int
    BY <1>2
  <2> QED BY <2>1, Rounded
<1> HIDE DEF t, c
<1>6. s \in Int /\ e = a + t - s /\ Round(e) = e /\ 2 * Abs(e) <= Ulp(Abs(s))
  BY <1>1, <1>4, <1>5, RoundedOffIs
<1>7. Round(s) = s
  <2>1. a + t \in Int
    BY <1>1, <1>4
  <2> QED BY <2>1, Rounded
<1> HIDE DEF s, e
<1>8. e \in Int /\ c \in Int /\ s + e + c = a + x + b
  BY <1>1, <1>2, <1>4, <1>6
<1>9. IsNumber(m)
  BY <1>3, <1>6, <1>7, <1>8 DEF IsNumber, NumberType
<1>10. m.real + m.err + m.err_of_err = a + x + b /\ 2 * Abs(m.err) <= Ulp(Abs(m.real))
  BY <1>3, <1>6, <1>8
<1> QED
  BY <1>9, <1>10 DEF a, b, m

(* Kahan's sum holds what was added unless a summand was larger than it.    *)
SumInv ==
  /\ sumType \in {"Kahan", "Neumaier", "Klein"}
  /\ IsNumber(number) /\ due \in Int /\ outgrown \in BOOLEAN
  /\ sumType # "Klein" => number.err_of_err = 0
  /\ NothingRoundedOff

(* A number that was assigned.                                              *)
LEMMA Assigned ==
  ASSUME NEW x \in Int, Round(x) = x,
         NEW n, n = [real |-> x, err |-> 0, err_of_err |-> 0]
  PROVE  /\ IsNumber(n) /\ n.err_of_err = 0
         /\ n.real - n.err = x /\ n.real + n.err + n.err_of_err = x
         /\ 2 * Abs(n.err) <= Ulp(Abs(n.real))
<1>1. 2 * Abs(0) <= Ulp(Abs(x)) /\ Round(0) = 0
  BY UlpOfNothing, Zero0
<1>2. n.real = x /\ n.err = 0 /\ n.err_of_err = 0 /\ n \in NumberType
  BY DEF NumberType
<1> QED
  BY <1>1, <1>2 DEF IsNumber

LEMMA SumInitInv == IteratorsInit => SumInv
<1> SUFFICES ASSUME IteratorsInit PROVE SumInv
  OBVIOUS
<1>1. SumInit
  BY DEF IteratorsInit
<1>2. /\ IsNumber(number) /\ number.err_of_err = 0
      /\ number.real - number.err = due /\ number.real + number.err + number.err_of_err = due
      /\ 2 * Abs(number.err) <= Ulp(Abs(number.real))
  BY <1>1, Assigned, Zero0 DEF SumInit
<1>3. NothingRoundedOff
  BY <1>2 DEF NothingRoundedOff, Total
<1>4. sumType \in {"Kahan", "Neumaier", "Klein"} /\ due = 0 /\ outgrown = FALSE
  BY <1>1, Zenon DEF SumInit
<1>5. due \in Int
  BY <1>1 DEF SumInit
<1>6. outgrown \in BOOLEAN
  BY <1>4, Zenon
<1> QED
  BY <1>2, <1>3, <1>4, <1>5, <1>6 DEF SumInv

LEMMA SumStep ==
  ASSUME SumInv, NEW x \in Int, Round(x) = x, Sum(x)
  PROVE  SumInv'
<1> DEFINE m == Added(number, x)
<1>1. /\ number' = m /\ due' = due + x + Lost(number, x) /\ sumType' = sumType
      /\ outgrown' =
           (outgrown \/ (number.real # 0 /\ Abs(Round(x - number.err)) > Abs(number.real)))
  BY DEF Sum
<1>2. /\ IsNumber(number) /\ due \in Int /\ outgrown \in BOOLEAN
      /\ number.real \in Int /\ number.err \in Int /\ number.err_of_err \in Int
  BY DEF SumInv, IsNumber, NumberType
<1>3. outgrown' \in BOOLEAN
  BY <1>1
<1>4. CASE sumType = "Kahan"
  <2> DEFINE b == Round(x - number.err)
  <2>1. m = KahanAdded(number, x) /\ Lost(number, x) = b - (x - number.err)
    BY <1>4 DEF Added, Lost
  <2>2. x - number.err \in Int /\ b \in Int
    BY <1>2, Rounded
  <2>3. IsNumber(m) /\ m.err_of_err = 0
    BY <1>2, <1>4, <2>1, KahanType DEF SumInv
  <2>4. ASSUME ~outgrown' PROVE m.real - m.err = due' /\ 2 * Abs(m.err) <= Ulp(Abs(m.real))
    <3>1. ~outgrown /\ (number.real = 0 \/ ~(Abs(b) > Abs(number.real)))
      BY <1>1, <1>2, <2>4
    <3>2. Abs(b) \in Nat /\ Abs(number.real) \in Nat
      BY <1>2, <2>2, AbsBounds
    <3>3. number.real = 0 \/ Abs(b) <= Abs(number.real)
      BY <3>1, <3>2
    <3>4. m.real - m.err = number.real + b /\ 2 * Abs(m.err) <= Ulp(Abs(m.real))
      BY <1>2, <2>1, <3>3, KahanAdds
    <3>5. number.real - number.err = due
      BY <1>4, <3>1 DEF SumInv, NothingRoundedOff, Total
    <3> HIDE DEF m, b
    <3>6. due' = number.real + b
      BY <1>1, <1>2, <2>1, <2>2, <3>5
    <3> QED BY <3>4, <3>6
  <2>5. due' \in Int
    <3> HIDE DEF b
    <3> QED BY <1>1, <1>2, <2>1, <2>2
  <2> HIDE DEF m
  <2>6. NothingRoundedOff'
    BY <1>1, <1>3, <1>4, <2>4 DEF NothingRoundedOff, Total
  <2> QED BY <1>1, <1>3, <1>4, <2>3, <2>5, <2>6 DEF SumInv
<1>5. CASE sumType = "Neumaier"
  <2> DEFINE b == Round(x + number.err)
  <2>1. m = NeumaierAdded(number, x) /\ Lost(number, x) = b - (x + number.err)
    BY <1>5 DEF Added, Lost
  <2>2. x + number.err \in Int /\ b \in Int
    BY <1>2, Rounded
  <2>3. number.err_of_err = 0 /\ number.real + number.err + 0 = due
    BY <1>5 DEF SumInv, NothingRoundedOff, Total
  <2>4. /\ IsNumber(m) /\ m.err_of_err = 0
        /\ m.real + m.err = number.real + b
        /\ 2 * Abs(m.err) <= Ulp(Abs(m.real))
    <3>1. LET n == NeumaierAdded(number, x)
          IN  /\ IsNumber(n) /\ n.err_of_err = 0
              /\ n.real + n.err = number.real + Round(x + number.err)
              /\ 2 * Abs(n.err) <= Ulp(Abs(n.real))
      BY <1>2, NeumaierAdds
    <3> HIDE DEF m
    <3> QED BY <2>1, <3>1
  <2> HIDE DEF m, b
  <2>5. m.real + m.err + m.err_of_err = due' /\ due' \in Int
    <3>1. m.real \in Int /\ m.err \in Int
      BY <2>4 DEF IsNumber, NumberType
    <3> QED BY <1>1, <1>2, <2>1, <2>2, <2>3, <2>4, <3>1
  <2>6. NothingRoundedOff'
    BY <1>1, <1>5, <2>4, <2>5 DEF NothingRoundedOff, Total
  <2> QED BY <1>1, <1>3, <1>5, <2>4, <2>5, <2>6 DEF SumInv
<1>6. CASE sumType = "Klein"
  <2> DEFINE b == Round(number.err + number.err_of_err)
  <2>1. /\ m = KleinAdded(number, x)
        /\ Lost(number, x) = b - (number.err + number.err_of_err)
    BY <1>6 DEF Added, Lost
  <2>2. number.err + number.err_of_err \in Int /\ b \in Int
    BY <1>2, Rounded
  <2>3. number.real + number.err + number.err_of_err = due
    BY <1>6 DEF SumInv, NothingRoundedOff, Total
  <2>4. /\ IsNumber(m)
        /\ m.real + m.err + m.err_of_err = number.real + x + b
        /\ 2 * Abs(m.err) <= Ulp(Abs(m.real))
    BY <1>2, <2>1, KleinAdds
  <2> HIDE DEF m, b
  <2>5. m.real + m.err + m.err_of_err = due' /\ due' \in Int
    <3>1. due + x + (b - (number.err + number.err_of_err)) = number.real + x + b
      BY <1>2, <2>2, <2>3
    <3>2. number.real + x + b \in Int
      BY <1>2, <2>2
    <3> QED BY <1>1, <2>1, <2>4, <3>1, <3>2
  <2>6. NothingRoundedOff'
    BY <1>1, <1>6, <2>4, <2>5 DEF NothingRoundedOff, Total
  <2> QED BY <1>1, <1>3, <1>6, <2>4, <2>5, <2>6 DEF SumInv
<1> QED
  BY <1>4, <1>5, <1>6 DEF SumInv

LEMMA SumStepInv == SumInv /\ [IteratorsNext]_iteratorVars => SumInv'
<1> SUFFICES ASSUME SumInv, [IteratorsNext]_iteratorVars PROVE SumInv'
  OBVIOUS
<1>1. ASSUME NEW x \in Summands, Sum(x) PROVE SumInv'
  BY <1>1, SummandType, SumStep
<1>2. ASSUME NEW x \in Summands, Sum(-x) PROVE SumInv'
  BY <1>2, SummandType, SumStep
<1>3. ASSUME NEW x \in Summands, Assign(x) PROVE SumInv'
  <2>1. /\ number' = [real |-> x, err |-> 0, err_of_err |-> 0] /\ due' = x
        /\ outgrown' = FALSE /\ sumType' = sumType
    BY <1>3 DEF Assign
  <2>2. x \in Int /\ Round(x) = x
    BY SummandType
  <2>3. /\ IsNumber(number') /\ number'.err_of_err = 0
        /\ number'.real - number'.err = due'
        /\ number'.real + number'.err + number'.err_of_err = due'
        /\ 2 * Abs(number'.err) <= Ulp(Abs(number'.real))
    BY <2>1, <2>2, Assigned
  <2> QED
    BY <2>1, <2>2, <2>3 DEF SumInv, NothingRoundedOff, Total
<1>4. CASE UNCHANGED sumVars
  BY <1>4 DEF sumVars, SumInv, IsNumber, NothingRoundedOff, Total
<1> QED
  BY <1>1, <1>2, <1>3, <1>4 DEF IteratorsNext, iteratorVars, SumNext

(* A number of each of the three types and its error are together what was  *)
(* added, for every format and all summands and however many there are: the *)
(* rounding of a sum is itself a number of T that the operators find        *)
(* exactly, Kahan's if no summand outgrew the number.                       *)
THEOREM SumsAreExact == IteratorsSpec => []NothingRoundedOff
<1>1. SumInv => NothingRoundedOff
  BY DEF SumInv
<1> QED
  BY <1>1, SumInitInv, SumStepInv, PTL DEF IteratorsSpec

-----------------------------------------------------------------------------
(* Extrapolation.                                                           *)

(* What differs by multiples of differences of numbers with the same        *)
(* remainder has the same remainder.                                        *)
LEMMA LikeAs ==
  ASSUME NEW a, NEW b, Like(a, b), NEW m \in Int, NEW u \in Int, NEW v \in Int,
         u - v = m * (a - b)
  PROVE  Like(u, v)
<1>1. PICK x \in Int : a = b + x * P
  BY Multiple DEF Like
<1>2. P \in Int /\ a \in Int /\ b \in Int
  BY FieldIs DEF Like
<1> DEFINE w == m * x
<1>3. a - b = x * P /\ m * (x * P) = w * P /\ w \in Int /\ w * P \in Int
  BY <1>1, <1>2
<1> HIDE DEF w
<1>4. u = v + w * P
  BY <1>3
<1> QED BY <1>3, <1>4, RemSame DEF Like

LEMMA LikeBoth ==
  ASSUME NEW a, NEW b, NEW c, NEW d, Like(a, b), Like(c, d),
         NEW m \in Int, NEW n \in Int, NEW u \in Int, NEW v \in Int,
         u - v = m * (a - b) + n * (c - d)
  PROVE  Like(u, v)
<1>1. /\ m \in Int /\ n \in Int /\ a - b \in Int /\ c - d \in Int
      /\ a \in Int /\ b \in Int /\ c \in Int /\ d \in Int
  BY DEF Like
<1> DEFINE w == v + n * (c - d)
<1>2. w \in Int /\ u - w = m * (a - b) /\ w - v = n * (c - d)
  BY <1>1
<1> HIDE DEF w
<1>3. Like(u, w) /\ Like(w, v)
  BY <1>2, LikeAs
<1> QED BY <1>3 DEF Like

LEMMA LikeRem ==
  ASSUME NEW x \in Int PROVE Like(Rem(x), x) /\ Like(x, x) /\ Like(x % P, x)
BY RemIs, RemOfRem DEF Like, Rem

LEMMA LikeSame == ASSUME NEW x \in Field, NEW y \in Field, Like(x, y) PROVE x = y
BY RemOfField DEF Like

(* Numbers that are not 0 divide.                                           *)
LEMMA Divides ==
  ASSUME NEW d \in Int, Rem(d) # 0
  PROVE  Reciprocal(d % P) \in Int /\ Like(d * Reciprocal(d % P), 1)
<1> DEFINE x == d % P
<1>1. x \in Field \ {0} /\ x = Rem(d)
  BY FieldOf DEF Rem
<1> HIDE DEF x
<1> DEFINE r == Reciprocal(x)
<1>2. r \in Int /\ Rem(x * r) = 1 /\ x \in Int
  BY <1>1, ReciprocalIs, FieldIs
<1> HIDE DEF r
<1>3. Like(d, x)
  BY <1>1, <1>2, RemOfRem DEF Like
<1>4. Like(d * r, x * r)
  BY <1>2, <1>3, LikeOps, LikeRem
<1>5. Rem(d * r) = 1 /\ d * r \in Int
  BY <1>2, <1>4 DEF Like
<1> QED BY <1>2, <1>5, FieldIs DEF Like, x, r

LEMMA Cancel ==
  ASSUME NEW d \in Int, Rem(d) # 0, NEW x \in Int, NEW y \in Int, Like(d * x, d * y)
  PROVE  Like(x, y)
<1> DEFINE r == Reciprocal(d % P)
<1>1. r \in Int /\ Like(d * r, 1)
  BY Divides
<1> HIDE DEF r
<1>2. x - y = r * (d * x - d * y) + (-(x - y)) * (d * r - 1)
  BY <1>1
<1>3. -(x - y) \in Int
  OBVIOUS
<1> QED BY <1>1, <1>2, <1>3, LikeBoth

LEMMA NotZero ==
  ASSUME NEW x \in Int, NEW y \in Int, Rem(x) # 0, Rem(y) # 0
  PROVE  Rem(x * y) # 0
<1> SUFFICES ASSUME Rem(x * y) = 0 PROVE FALSE
  OBVIOUS
<1>1. Like(x * y, x * 0)
  BY FieldIs DEF Like
<1>2. Like(y, 0)
  BY <1>1, Cancel
<1> QED BY <1>2, FieldIs DEF Like

-----------------------------------------------------------------------------
(* The squares of the numbers of sub-steps, whose differences divide.       *)
Square(i) == h_(i) * h_(i)

Depths == 0..BsDepth

LEMMA SquaresAre ==
  /\ BsDepth \in 1..10 /\ P \in Int /\ P > 4
  /\ \A i \in Depths : /\ h_(i) \in Nat \ {0} /\ Square(i) \in Int
                       /\ Rem(h_(i)) # 0 /\ Rem(Square(i)) # 0
  /\ \A i, j \in Depths : i # j => Rem(Square(i) - Square(j)) # 0
<1>1. BsDepth \in 1..10 /\ P \in Int /\ P > 4
  BY ExtrapolationAssumption, DivisorsAssumption, FieldIs
<1>2. ASSUME NEW i \in Depths PROVE h_(i) \in Nat \ {0} /\ Square(i) \in Int
  BY <1>1 DEF h_, Square, Depths
<1>3. ASSUME NEW i \in Depths PROVE Rem(h_(i)) # 0 /\ Rem(Square(i)) # 0
  <2>1. Rem(h_(i)) # 0 /\ h_(i) \in Int
    BY <1>2, DivisorsAssumption DEF Rem, Depths
  <2> QED BY <2>1, NotZero DEF Square
<1>4. ASSUME NEW i \in Depths, NEW j \in Depths, i # j PROVE Rem(Square(i) - Square(j)) # 0
  BY <1>4, DivisorsAssumption DEF Rem, Depths, Square
<1> QED BY <1>1, <1>2, <1>3, <1>4

(* What the factors of a weight and the coefficients are.                   *)
Factor(i, m) == Square(i) * Reciprocal((Square(i) - Square(m)) % P)

LEMMA FactorIs ==
  ASSUME NEW i \in Depths, NEW m \in Depths, i # m
  PROVE  Factor(i, m) \in Int /\ Like(Factor(i, m) * (Square(i) - Square(m)), Square(i))
<1> DEFINE X == Square(i)
           d == Square(i) - Square(m)
           r == Reciprocal(d % P)
<1>1. X \in Int /\ d \in Int /\ Rem(d) # 0
  BY SquaresAre
<1>2. Factor(i, m) = X * r
  BY DEF Factor
<1> HIDE DEF X, d
<1>3. r \in Int /\ Like(d * r, 1)
  BY <1>1, Divides
<1> HIDE DEF r
<1>4. (X * r) * d - X = X * (d * r - 1) /\ X * r \in Int /\ (X * r) * d \in Int
  BY <1>1, <1>3
<1>5. Like((X * r) * d, X)
  BY <1>1, <1>3, <1>4, LikeAs
<1> QED BY <1>2, <1>4, <1>5 DEF X, d

LEMMA CoefIs ==
  ASSUME NEW a \in Depths, NEW b \in Depths, a < b
  PROVE  LET c == table_coef(b, b - a - 1)
         IN  c \in Int /\ Like(c * (Square(b) - Square(a)), Square(a))
<1> DEFINE X == Square(a)
           d == Square(b) - Square(a)
           r == Reciprocal(d % P)
           c == table_coef(b, b - a - 1)
<1>1. X \in Int /\ d \in Int /\ Rem(d) # 0
  BY SquaresAre DEF Depths
<1>2. c = X * r
  <2>1. b - (b - a - 1) - 1 = a
    BY SquaresAre DEF Depths
  <2> QED BY <2>1 DEF table_coef, Square
<1> HIDE DEF X, d, c
<1>3. r \in Int /\ Like(d * r, 1)
  BY <1>1, Divides
<1> HIDE DEF r
<1>4. (X * r) * d - X = X * (d * r - 1) /\ X * r \in Int /\ (X * r) * d \in Int
  BY <1>1, <1>3
<1>5. Like((X * r) * d, X)
  BY <1>1, <1>3, <1>4, LikeAs
<1> QED BY <1>2, <1>4, <1>5 DEF X, d, c

-----------------------------------------------------------------------------
(* The weights of the rows in the value at 0, which a row more at either    *)
(* end multiplies by a factor.                                              *)
LEMMA ProductEqual ==
  ASSUME NEW f, NEW g, NEW a \in Int, NEW b \in Int, b >= a - 1,
         Ints(f, a, b), \A i \in a..b : f[i] = g[i]
  PROVE  ProductOver(f, a, b) = ProductOver(g, a, b)
<1> DEFINE S == {c \in Int : ProductOver(f, a, c) = ProductOver(g, a, c)}
<1>1. a - 1 \in S
  BY ProductNone
<1>2. ASSUME NEW c \in a..b, c - 1 \in S PROVE c \in S
  <2>1. c \in Int /\ c >= a /\ \A i \in a..c : i \in a..b
    OBVIOUS
  <2>2. (\A i \in a..c : f[i] \in Int /\ g[i] \in Int) /\ f[c] = g[c]
    BY <2>1 DEF Ints
  <2>3. /\ ProductOver(f, a, c) = (ProductOver(f, a, c - 1) * f[c]) % P
        /\ ProductOver(g, a, c) = (ProductOver(g, a, c - 1) * g[c]) % P
    BY <2>1, <2>2, ProductGrows
  <2> QED BY <1>2, <2>1, <2>2, <2>3
<1>3. S \in SUBSET Int
  OBVIOUS
<1>4. b \in S
  <2> HIDE DEF S
  <2> QED BY <1>1, <1>2, <1>3, TermByTerm
<1> QED BY <1>4

LEMMA ProductLast ==
  ASSUME NEW f, NEW a \in Int, NEW b \in Int, b >= a, Ints(f, a, b)
  PROVE  /\ ProductOver(f, a, b) \in Int /\ ProductOver(f, a, b - 1) \in Int /\ f[b] \in Int
         /\ Like(ProductOver(f, a, b), ProductOver(f, a, b - 1) * f[b])
<1> DEFINE p == ProductOver(f, a, b - 1)
           z == f[b]
<1>1. b - 1 \in Int /\ b - 1 >= a - 1 /\ b >= a - 1 /\ b \in a..b /\ \A i \in a..(b - 1) : i \in a..b
  OBVIOUS
<1>2. p \in Int /\ z \in Int /\ ProductOver(f, a, b) \in Int
  BY <1>1, ProductType, FieldIs DEF Ints
<1>3. ProductOver(f, a, b) = (p * z) % P
  BY ProductGrows DEF Ints
<1> HIDE DEF p, z
<1>4. p * z \in Int
  BY <1>2
<1> QED BY <1>2, <1>3, <1>4, LikeRem DEF p, z

LEMMA ProductFirst ==
  ASSUME NEW f, NEW a \in Int, NEW b \in Int, b >= a, Ints(f, a, b)
  PROVE  /\ ProductOver(f, a + 1, b) \in Int /\ f[a] \in Int
         /\ Like(ProductOver(f, a, b), f[a] * ProductOver(f, a + 1, b))
<1> DEFINE S == {c \in Int : Like(ProductOver(f, a, c), f[a] * ProductOver(f, a + 1, c))}
<1>1. f[a] \in Int
  BY DEF Ints
<1>2. (a + 1) - 1 \in S
  <2>1. Ints(f, a, a) /\ (a + 1) - 1 = a
    BY DEF Ints
  <2>2. Like(ProductOver(f, a, a), 1 * f[a])
    BY <2>1, ProductLast, ProductNone
  <2>3. ProductOver(f, a + 1, a) = 1
    BY <2>1, ProductNone
  <2>4. f[a] * 1 = 1 * f[a]
    BY <1>1
  <2> QED BY <2>1, <2>2, <2>3, <2>4
<1>3. ASSUME NEW c \in (a + 1)..b, c - 1 \in S PROVE c \in S
  <2>1. c \in Int /\ c >= a /\ c >= a + 1 /\ Ints(f, a, c) /\ Ints(f, a + 1, c)
    BY DEF Ints
  <2> DEFINE A == ProductOver(f, a, c)
             B == ProductOver(f, a, c - 1)
             C == ProductOver(f, a + 1, c)
             D == ProductOver(f, a + 1, c - 1)
             y == f[a]
             z == f[c]
  <2>2. A \in Int /\ B \in Int /\ z \in Int /\ Like(A, B * z)
    BY <2>1, ProductLast
  <2>3. C \in Int /\ D \in Int /\ Like(C, D * z)
    BY <2>1, ProductLast
  <2>4. Like(B, y * D) /\ y \in Int
    BY <1>1, <1>3
  <2> HIDE DEF A, B, C, D, y, z, S
  <2>6. Like(B * z, (y * D) * z)
    BY <2>2, <2>4, LikeOps, LikeRem
  <2>7. Like(y * C, y * (D * z))
    BY <2>3, <2>4, LikeOps, LikeRem
  <2>8. (y * D) * z = y * (D * z)
    BY <2>2, <2>3, <2>4
  <2>9. Like(A, y * C)
    BY <2>2, <2>6, <2>7, <2>8 DEF Like
  <2>10. Like(ProductOver(f, a, c), f[a] * ProductOver(f, a + 1, c))
    BY <2>9 DEF A, C, y
  <2> QED BY <2>1, <2>10 DEF S
<1>4. S \in SUBSET Int
  OBVIOUS
<1>5. b \in S
  <2>1. a + 1 \in Int /\ b >= (a + 1) - 1
    OBVIOUS
  <2> HIDE DEF S
  <2> QED BY <1>2, <1>3, <1>4, <2>1, TermByTerm
<1>6. ProductOver(f, a + 1, b) \in Int
  <2>1. b >= (a + 1) - 1 /\ a + 1 \in Int /\ \A i \in (a + 1)..b : f[i] \in Int
    BY DEF Ints
  <2> QED BY <2>1, ProductType, FieldIs
<1> QED BY <1>1, <1>5, <1>6

Factors(a, b, i) == [m \in a..b |-> IF m = i THEN 1 ELSE Factor(i, m)]

Weight(a, b, i) == ProductOver(Factors(a, b, i), a, b)

LEMMA FactorsAre ==
  ASSUME NEW a \in Depths, NEW b \in Depths, NEW i \in Depths
  PROVE  Ints(Factors(a, b, i), a, b)
<1>1. ASSUME NEW m \in a..b PROVE m \in Depths
  BY SquaresAre DEF Depths
<1>2. ASSUME NEW m \in a..b, m # i PROVE Factor(i, m) \in Int
  BY <1>1, <1>2, FactorIs
<1> QED BY <1>2 DEF Ints, Factors

LEMMA WeightIs ==
  ASSUME NEW a \in Depths, NEW b \in Depths, a <= b, NEW i \in Depths
  PROVE  Weight(a, b, i) \in Field /\ Weight(a, b, i) \in Int
<1>1. a \in Int /\ b \in Int /\ b >= a - 1
  BY SquaresAre DEF Depths
<1> QED BY <1>1, FactorsAre, ProductType, FieldIs DEF Ints, Weight

LEMMA WeightLast ==
  ASSUME NEW a \in Depths, NEW b \in Depths, a < b, NEW i \in Depths, i # b
  PROVE  Like(Weight(a, b, i), Weight(a, b - 1, i) * Factor(i, b))
<1> DEFINE f == Factors(a, b, i)
           g == Factors(a, b - 1, i)
<1>1. a \in Int /\ b \in Int /\ b >= a /\ b - 1 \in Depths /\ b - 1 >= a - 1
  BY SquaresAre DEF Depths
<1>2. Ints(f, a, b) /\ Ints(g, a, b - 1)
  BY <1>1, FactorsAre
<1>3. f[b] = Factor(i, b) /\ \A m \in a..(b - 1) : g[m] = f[m]
  <2>1. b \in a..b /\ \A m \in a..(b - 1) : m \in a..b
    BY <1>1
  <2> QED BY <2>1 DEF Factors
<1> HIDE DEF f, g
<1>4. ProductOver(g, a, b - 1) = ProductOver(f, a, b - 1)
  BY <1>1, <1>2, <1>3, ProductEqual
<1>5. Like(ProductOver(f, a, b), ProductOver(f, a, b - 1) * f[b])
  BY <1>1, <1>2, ProductLast
<1> QED BY <1>3, <1>4, <1>5 DEF Weight, f, g

LEMMA WeightFirst ==
  ASSUME NEW a \in Depths, NEW b \in Depths, a < b, NEW i \in Depths, i # a
  PROVE  Like(Weight(a, b, i), Factor(i, a) * Weight(a + 1, b, i))
<1> DEFINE f == Factors(a, b, i)
           g == Factors(a + 1, b, i)
<1>1. a \in Int /\ b \in Int /\ b >= a /\ a + 1 \in Depths /\ b >= (a + 1) - 1
  BY SquaresAre DEF Depths
<1>2. Ints(f, a, b) /\ Ints(g, a + 1, b)
  BY <1>1, FactorsAre
<1>3. f[a] = Factor(i, a) /\ \A m \in (a + 1)..b : g[m] = f[m]
  <2>1. a \in a..b /\ \A m \in (a + 1)..b : m \in a..b
    BY <1>1
  <2> QED BY <2>1 DEF Factors
<1> HIDE DEF f, g
<1>4. ProductOver(g, a + 1, b) = ProductOver(f, a + 1, b)
  BY <1>1, <1>2, <1>3, ProductEqual
<1>5. Like(ProductOver(f, a, b), f[a] * ProductOver(f, a + 1, b))
  BY <1>1, <1>2, ProductFirst
<1> QED BY <1>3, <1>4, <1>5 DEF Weight, f, g

(* Neville's rule for the weights: c is the coefficient of the table.       *)
Without(a, b, i, c) ==
  LET upper == IF i = a THEN 0 ELSE Weight(a + 1, b, i)
      lower == IF i = b THEN 0 ELSE Weight(a, b - 1, i)
  IN  upper + c * (upper - lower)

LEMMA WeightsOfAll ==
  ASSUME NEW a \in Depths, NEW b \in Depths, a < b, NEW i \in a..b, NEW c \in Int,
         Like(c * (Square(b) - Square(a)), Square(a))
  PROVE  Like(Weight(a, b, i), Without(a, b, i, c))
<1> DEFINE A == Square(a)
           B == Square(b)
           I == Square(i)
           W == Weight(a, b, i)
           F == Weight(a + 1, b, i)
           L == Weight(a, b - 1, i)
<1>1. /\ i \in Depths /\ a + 1 \in Depths /\ b - 1 \in Depths /\ a + 1 <= b /\ a <= b - 1
      /\ a <= b /\ a # b
  BY SquaresAre DEF Depths
<1>2. A \in Int /\ B \in Int /\ I \in Int /\ Rem(B - A) # 0
  BY <1>1, SquaresAre
<1>3. W \in Int /\ F \in Int /\ L \in Int
  BY <1>1, WeightIs
<1>4. Like(c * (B - A), A)
  OBVIOUS
<1>5. CASE i = a
  <2> DEFINE y == Factor(a, b)
  <2>1. Like(W, L * y) /\ y \in Int /\ Like(y * (A - B), A)
    BY <1>1, <1>5, WeightLast, FactorIs
  <2>2. Without(a, b, i, c) = 0 + c * (0 - L)
    BY <1>1, <1>5 DEF Without
  <2> HIDE DEF A, B, W, L, y
  <2>3. (B - A) * y - (B - A) * (-c) = (-1) * (y * (A - B) - A) + 1 * (c * (B - A) - A)
    BY <1>2, <2>1
  <2>4. Like(y, -c)
    <3>1. -c \in Int /\ B - A \in Int /\ (B - A) * y \in Int /\ (B - A) * (-c) \in Int
          /\ -1 \in Int /\ 1 \in Int
      BY <1>2, <2>1
    <3>2. Like((B - A) * y, (B - A) * (-c))
      BY <1>4, <2>1, <2>3, <3>1, LikeBoth
    <3> QED BY <1>2, <2>1, <3>1, <3>2, Cancel
  <2>5. Like(L * y, L * (-c))
    BY <1>3, <2>4, LikeOps, LikeRem
  <2>6. L * (-c) = 0 + c * (0 - L)
    BY <1>3
  <2> QED BY <2>1, <2>2, <2>5, <2>6 DEF Like, W
<1>6. CASE i = b
  <2> DEFINE y == Factor(b, a)
  <2>1. Like(W, y * F) /\ y \in Int /\ Like(y * (B - A), B)
    BY <1>1, <1>6, WeightFirst, FactorIs
  <2>2. Without(a, b, i, c) = F + c * (F - 0)
    BY <1>1, <1>6 DEF Without
  <2> HIDE DEF A, B, W, F, y
  <2>3. (B - A) * y - (B - A) * (1 + c) = 1 * (y * (B - A) - B) + (-1) * (c * (B - A) - A)
    BY <1>2, <2>1
  <2>4. Like(y, 1 + c)
    <3>1. 1 + c \in Int /\ B - A \in Int /\ (B - A) * y \in Int /\ (B - A) * (1 + c) \in Int
          /\ -1 \in Int /\ 1 \in Int
      BY <1>2, <2>1
    <3>2. Like((B - A) * y, (B - A) * (1 + c))
      BY <1>4, <2>1, <2>3, <3>1, LikeBoth
    <3> QED BY <1>2, <2>1, <3>1, <3>2, Cancel
  <2>5. Like(y * F, (1 + c) * F) /\ (1 + c) * F = F + c * (F - 0)
    BY <1>3, <2>4, LikeOps, LikeRem
  <2> QED BY <2>1, <2>2, <2>5 DEF Like, W
<1>7. CASE i # a /\ i # b
  <2> DEFINE M == Weight(a + 1, b - 1, i)
             y == Factor(i, a)
             z == Factor(i, b)
             d == (I - A) * ((I - B) * (B - A))
  <2>1. a + 1 <= b - 1 /\ a + 1 < b /\ a < b - 1
    BY <1>1, <1>7 DEF Depths
  <2>2. Like(W, y * F) /\ Like(L, y * M) /\ Like(F, M * z)
    BY <1>1, <1>7, <2>1, WeightFirst, WeightLast
  <2>3. /\ y \in Int /\ z \in Int /\ M \in Int
        /\ Like(y * (I - A), I) /\ Like(z * (I - B), I)
    BY <1>1, <1>7, <2>1, FactorIs, WeightIs
  <2>4. Rem(d) # 0 /\ d \in Int
    <3>1. Rem(I - A) # 0 /\ Rem(I - B) # 0 /\ I - A \in Int /\ I - B \in Int /\ B - A \in Int
      BY <1>1, <1>2, <1>7, SquaresAre
    <3> HIDE DEF I, A, B
    <3>2. (I - B) * (B - A) \in Int /\ (I - A) * ((I - B) * (B - A)) \in Int
      BY <3>1
    <3> QED BY <1>2, <3>1, <3>2, NotZero
  <2>5. Without(a, b, i, c) = F + c * (F - L)
    BY <1>7 DEF Without
  <2> HIDE DEF A, B, I, W, F, L, M, y, z
  <2>6. Like(y * z, z + c * (z - y))
    <3> DEFINE v == z + c * (z - y)
               p == y * (I - A)
               q == z * (I - B)
               e == c * (B - A)
    <3>1. p \in Int /\ q \in Int /\ e \in Int /\ v \in Int /\ y * z \in Int
      BY <1>2, <2>3
    <3>2. Like(p, I) /\ Like(q, I) /\ Like(e, A)
      BY <1>4, <2>3
    <3>3. /\ d * (y * z) = (p * q) * (B - A)
          /\ d * v = (e + (B - A)) * (q * (I - A)) - e * (p * (I - B))
      BY <1>2, <2>3
    <3>4. Like((p * q) * (B - A), (I * I) * (B - A))
      BY <1>2, <3>2, LikeOps, LikeRem
    <3>5. Like(e + (B - A), A + (B - A)) /\ Like(q * (I - A), I * (I - A))
          /\ Like(p * (I - B), I * (I - B))
      BY <1>2, <3>2, LikeOps, LikeRem
    <3>6. Like((e + (B - A)) * (q * (I - A)) - e * (p * (I - B)),
               (A + (B - A)) * (I * (I - A)) - A * (I * (I - B)))
      BY <3>2, <3>5, LikeOps
    <3>7. (I * I) * (B - A) = (A + (B - A)) * (I * (I - A)) - A * (I * (I - B))
      BY <1>2
    <3>8. Like(d * (y * z), d * v)
      <4> HIDE DEF d, v, p, q, e
      <4> QED BY <3>3, <3>4, <3>6, <3>7 DEF Like
    <3> HIDE DEF d, v
    <3> QED BY <2>4, <3>1, <3>8, Cancel DEF v
  <2>7. Like(y * F, y * (M * z)) /\ Like(y * (M * z), M * (y * z))
    <3>1. y * (M * z) = M * (y * z) /\ M * (y * z) \in Int
      BY <2>3
    <3> QED BY <2>2, <2>3, <3>1, LikeOps, LikeRem
  <2>8. Like(M * (y * z), M * (z + c * (z - y)))
    BY <2>3, <2>6, LikeOps, LikeRem
  <2>9. Like(F + c * (F - L), M * z + c * (M * z - y * M))
    BY <2>2, LikeOps, LikeRem
  <2>10. M * (z + c * (z - y)) = M * z + c * (M * z - y * M)
    BY <2>3
  <2>11. Like(W, F + c * (F - L))
    BY <2>2, <2>7, <2>8, <2>9, <2>10 DEF Like
  <2> QED BY <2>5, <2>11 DEF W
<1> QED BY <1>5, <1>6, <1>7

-----------------------------------------------------------------------------
(* The value at 0 of the polynomial through the rows a..b.                  *)
Terms(r, a, b) == [i \in a..b |-> Rem(Weight(a, b, i) * r[i])]

Interpolated(r, a, b) == SumOver(Terms(r, a, b), a, b)

LEMMA TermsAre ==
  ASSUME NEW r, Ints(r, 0, BsDepth), NEW a \in Depths, NEW b \in Depths, a <= b
  PROVE  /\ Ints(Terms(r, a, b), a, b)
         /\ \A i \in a..b : /\ r[i] \in Int /\ Weight(a, b, i) \in Int
                            /\ Like(Terms(r, a, b)[i], Weight(a, b, i) * r[i])
<1>1. ASSUME NEW i \in a..b
      PROVE  /\ r[i] \in Int /\ Weight(a, b, i) \in Int
             /\ Like(Terms(r, a, b)[i], Weight(a, b, i) * r[i])
  <2> DEFINE W == Weight(a, b, i)
             y == r[i]
  <2>1. i \in Depths
    BY SquaresAre DEF Depths
  <2>2. W \in Int /\ y \in Int
    BY <2>1, WeightIs DEF Ints, Depths
  <2>3. Terms(r, a, b)[i] = Rem(W * y)
    BY DEF Terms
  <2> HIDE DEF W, y
  <2>4. W * y \in Int
    BY <2>2
  <2> QED BY <2>2, <2>3, <2>4, LikeRem DEF W, y
<1> QED BY <1>1 DEF Ints, Like

LEMMA InterpolatedType ==
  ASSUME NEW r, Ints(r, 0, BsDepth), NEW a \in Depths, NEW b \in Depths, a <= b
  PROVE  Interpolated(r, a, b) \in Int
<1>1. a \in Int /\ b \in Int /\ b >= a - 1
  BY SquaresAre DEF Depths
<1> QED BY <1>1, TermsAre, SumType DEF Interpolated, Ints

(* One row is its own value.                                                *)
LEMMA InterpolatedOne ==
  ASSUME NEW r, Ints(r, 0, BsDepth), NEW a \in Depths
  PROVE  Like(Interpolated(r, a, a), r[a])
<1> DEFINE t == Terms(r, a, a)
<1>1. a \in Int /\ a >= a /\ a \in a..a /\ Ints(t, a, a)
  BY SquaresAre, TermsAre DEF Depths
<1>2. Weight(a, a, a) \in Int /\ r[a] \in Int /\ Like(t[a], Weight(a, a, a) * r[a])
  BY <1>1, TermsAre
<1>3. Like(Weight(a, a, a), 1)
  <2>1. Ints(Factors(a, a, a), a, a) /\ Factors(a, a, a)[a] = 1
    BY <1>1, FactorsAre DEF Factors
  <2>2. Like(Weight(a, a, a), 1 * 1)
    BY <1>1, <2>1, ProductLast, ProductNone DEF Weight
  <2> QED BY <2>2
<1>4. SumOver(t, a, a) = SumOver(t, a, a - 1) + t[a] /\ SumOver(t, a, a - 1) = 0
  BY <1>1, SumTerm, SumNone
<1> HIDE DEF t
<1>5. SumOver(t, a, a) = t[a]
  BY <1>2, <1>4 DEF Like
<1> DEFINE y == r[a]
           W == Weight(a, a, a)
<1>6. Like(W * y, 1 * y)
  BY <1>2, <1>3, LikeOps, LikeRem
<1>7. y \in Int
  BY <1>2
<1> HIDE DEF y, W
<1>8. Like(t[a], y)
  BY <1>2, <1>6, <1>7 DEF Like, y, W
<1> QED BY <1>5, <1>8 DEF Interpolated, t, y

(* Neville's rule: the value through the rows a..b comes from those without *)
(* the first and without the last.                                          *)
LEMMA Neville ==
  ASSUME NEW r, Ints(r, 0, BsDepth), NEW a \in Depths, NEW b \in Depths, a < b,
         NEW c \in Int, Like(c * (Square(b) - Square(a)), Square(a))
  PROVE  LET upper == Interpolated(r, a + 1, b)
             lower == Interpolated(r, a, b - 1)
         IN  Like(Interpolated(r, a, b), upper + c * (upper - lower))
<1> DEFINE t == Terms(r, a, b)
           f == Terms(r, a + 1, b)
           l == Terms(r, a, b - 1)
           F == [i \in a..b |-> IF i = a THEN 0 ELSE f[i]]
           L == [i \in a..b |-> IF i = b THEN 0 ELSE l[i]]
           d == [i \in a..b |-> F[i] + (-1) * L[i]]
           h == [i \in a..b |-> F[i] + c * d[i]]
<1>1. /\ a \in Int /\ b \in Int /\ a + 1 \in Int /\ b - 1 \in Int /\ b >= a - 1
      /\ a + 1 \in Depths /\ b - 1 \in Depths /\ a + 1 <= b /\ a <= b - 1 /\ a <= b
  BY SquaresAre DEF Depths
<1>2. Ints(t, a, b) /\ Ints(f, a + 1, b) /\ Ints(l, a, b - 1)
  BY <1>1, TermsAre
<1>3. Ints(F, a, b) /\ Ints(L, a, b)
  <2>1. ASSUME NEW i \in a..b PROVE F[i] \in Int /\ L[i] \in Int
    <3>1. (i # a => i \in (a + 1)..b) /\ (i # b => i \in a..(b - 1))
      BY <1>1
    <3> HIDE DEF f, l
    <3>2. (i # a => f[i] \in Int) /\ (i # b => l[i] \in Int)
      BY <1>2, <3>1 DEF Ints
    <3> QED BY <3>2
  <2> HIDE DEF F, L
  <2> QED BY <2>1 DEF Ints
<1>4. SumOver(F, a, b) = Interpolated(r, a + 1, b)
  <2>1. SumOver(F, a, b) = SumOver(F, a + 1, b)
    <3>1. \A i \in a..((a + 1) - 1) : F[i] = 0
      BY <1>1
    <3> HIDE DEF F
    <3>2. a <= a + 1 /\ a + 1 <= b + 1
      BY <1>1
    <3> QED BY <1>1, <1>3, <3>1, <3>2, SumFrom
  <2>2. SumOver(f, a + 1, b) = SumOver(F, a + 1, b)
    <3>1. \A i \in (a + 1)..b : f[i] = F[i]
      <4> HIDE DEF f
      <4> QED BY <1>1
    <3>2. b >= (a + 1) - 1
      BY <1>1
    <3> HIDE DEF f, F
    <3> QED BY <1>1, <1>2, <3>1, <3>2, SumEqual
  <2> QED BY <2>1, <2>2 DEF Interpolated
<1>5. Rem(SumOver(L, a, b)) = Rem(Interpolated(r, a, b - 1))
  <2>1. Rem(SumOver(L, a, b)) = Rem(SumOver(L, a, b - 1))
    <3>1. \A i \in ((b - 1) + 1)..b : Rem(L[i]) = 0
      BY <1>1, FieldIs
    <3> HIDE DEF L
    <3>2. a <= (b - 1) + 1 /\ b - 1 <= b
      BY <1>1
    <3> QED BY <1>1, <1>3, <3>1, <3>2, SumUpTo
  <2>2. SumOver(l, a, b - 1) = SumOver(L, a, b - 1)
    <3>1. \A i \in a..(b - 1) : l[i] = L[i]
      <4> HIDE DEF l
      <4> QED BY <1>1
    <3>2. b - 1 >= a - 1
      BY <1>1
    <3> HIDE DEF l, L
    <3> QED BY <1>1, <1>2, <3>1, <3>2, SumEqual
  <2> QED BY <2>1, <2>2 DEF Interpolated
<1>6. Ints(d, a, b) /\ \A i \in a..b : d[i] = F[i] + (-1) * L[i]
  <2> HIDE DEF F, L
  <2> QED BY <1>3 DEF Ints
<1>7. Ints(h, a, b) /\ \A i \in a..b : h[i] = F[i] + c * d[i]
  <2> HIDE DEF F, d
  <2> QED BY <1>3, <1>6 DEF Ints
<1>8. ASSUME NEW i \in a..b PROVE Like(t[i], h[i])
  <2> DEFINE y == r[i]
             W == Weight(a, b, i)
             u == IF i = a THEN 0 ELSE Weight(a + 1, b, i)
             v == IF i = b THEN 0 ELSE Weight(a, b - 1, i)
  <2>1. y \in Int /\ W \in Int /\ Like(t[i], W * y)
    BY <1>1, TermsAre
  <2>2. Like(W, u + c * (u - v))
    BY WeightsOfAll DEF Without
  <2>3. u \in Int /\ Like(F[i], u * y)
    <3>1. CASE i = a
      <4>1. F[i] = 0 /\ u = 0
        BY <3>1
      <4>2. u * y = 0
        BY <2>1, <4>1
      <4> QED BY <4>1, <4>2, LikeRem
    <3>2. CASE i # a
      <4>1. i \in (a + 1)..b
        BY <1>1, <3>2
      <4>2. F[i] = f[i] /\ u = Weight(a + 1, b, i)
        <5> HIDE DEF f
        <5> QED BY <3>2
      <4>3. u \in Int /\ Like(f[i], u * y)
        BY <1>1, <4>1, <4>2, TermsAre
      <4> QED BY <4>2, <4>3
    <3> QED BY <3>1, <3>2
  <2>4. v \in Int /\ Like(L[i], v * y)
    <3>1. CASE i = b
      <4>1. L[i] = 0 /\ v = 0
        BY <3>1
      <4>2. v * y = 0
        BY <2>1, <4>1
      <4> QED BY <4>1, <4>2, LikeRem
    <3>2. CASE i # b
      <4>1. i \in a..(b - 1)
        BY <1>1, <3>2
      <4>2. L[i] = l[i] /\ v = Weight(a, b - 1, i)
        <5> HIDE DEF l
        <5> QED BY <3>2
      <4>3. v \in Int /\ Like(l[i], v * y)
        BY <1>1, <4>1, <4>2, TermsAre
      <4> QED BY <4>2, <4>3
    <3> QED BY <3>1, <3>2
  <2>5. h[i] = F[i] + c * (F[i] + (-1) * L[i])
    BY <1>6, <1>7
  <2> DEFINE x == F[i]
             z == L[i]
  <2>6. x \in Int /\ z \in Int /\ h[i] = x + c * (x + (-1) * z)
        /\ Like(x, u * y) /\ Like(z, v * y)
    BY <1>3, <2>3, <2>4, <2>5 DEF Ints
  <2> HIDE DEF h, t, x, z, u, v, W, y, F, L
  <2>7. x + (-1) * z = x - z /\ (u + c * (u - v)) * y = u * y + c * (u * y - v * y)
    BY <2>1, <2>3, <2>4, <2>6
  <2>8. Like(x + c * (x - z), u * y + c * (u * y - v * y))
    BY <2>6, LikeOps, LikeRem
  <2>9. Like(W * y, (u + c * (u - v)) * y)
    BY <2>1, <2>2, LikeOps, LikeRem
  <2> QED BY <2>1, <2>6, <2>7, <2>8, <2>9 DEF Like
<1>9. Rem(SumOver(t, a, b)) = Rem(SumOver(h, a, b))
  <2> HIDE DEF t, h
  <2>1. \A i \in a..b : Rem(t[i]) = Rem(h[i])
    BY <1>8 DEF Like
  <2> QED BY <1>1, <1>2, <1>7, <2>1, SumSame
<1> DEFINE SF == SumOver(F, a, b)
           SL == SumOver(L, a, b)
           SD == SumOver(d, a, b)
           SH == SumOver(h, a, b)
<1>10. SD = SF + (-1) * SL /\ SH = SF + c * SD
  <2> HIDE DEF F, L, d, h
  <2>1. -1 \in Int
    OBVIOUS
  <2>2. SumOver(d, a, b) = SumOver(F, a, b) + (-1) * SumOver(L, a, b)
    BY <1>1, <1>3, <1>6, <2>1, SumLinear
  <2>3. SumOver(h, a, b) = SumOver(F, a, b) + c * SumOver(d, a, b)
    BY <1>1, <1>3, <1>6, <1>7, SumLinear
  <2> QED BY <2>2, <2>3
<1>11. SF \in Int /\ SL \in Int /\ SumOver(t, a, b) \in Int
  <2> HIDE DEF F, L, t
  <2> QED BY <1>1, <1>2, <1>3, SumType DEF Ints
<1> DEFINE p == Interpolated(r, a + 1, b)
           q == Interpolated(r, a, b - 1)
<1>12. p \in Int /\ q \in Int /\ SF = p /\ Like(SL, q)
  BY <1>1, <1>4, <1>5, <1>11, InterpolatedType DEF Like
<1>13. Like(SumOver(t, a, b), SH)
  <2>1. SH \in Int
    <3> HIDE DEF SF, SL, SD, SH
    <3>1. SD \in Int
      BY <1>10, <1>11
    <3> QED BY <1>10, <1>11, <3>1
  <2> QED BY <1>9, <1>11, <2>1 DEF Like
<1>14. Like(SH, p + c * (p - q))
  <2> HIDE DEF SF, SL, SD, SH, p, q
  <2>1. SH - (p + c * (p - q)) = (-c) * (SL - q) /\ SH \in Int /\ p + c * (p - q) \in Int /\ -c \in Int
    BY <1>10, <1>11, <1>12
  <2> QED BY <1>12, <2>1, LikeAs
<1> QED BY <1>13, <1>14 DEF Like, Interpolated

(* Rows that are one value and a multiple of the square of the sub-step     *)
(* give that value, two of them or more.                                    *)
LEMMA TwoRows ==
  ASSUME NEW X \in Int, NEW Y \in Int, Rem(Y - X) # 0, NEW c \in Int, Like(c * (Y - X), X),
         NEW A \in Int, NEW B \in Int, NEW u \in Int, NEW v \in Int,
         Like(X * u, X * A + B), Like(Y * v, Y * A + B)
  PROVE  Like(v + c * (v - u), A)
<1> DEFINE z == v + c * (v - u)
           d == Y - X
           w == (X * v + d * v) - X * u
<1>1. /\ z \in Int /\ d \in Int /\ w \in Int /\ d * z \in Int /\ d * A \in Int /\ v - u \in Int
      /\ 1 \in Int /\ -1 \in Int
  OBVIOUS
<1>2. Like(d * z, w)
  <2>1. d * z - w = (v - u) * (c * (Y - X) - X)
    OBVIOUS
  <2> HIDE DEF d, z, w
  <2> QED BY <1>1, <2>1, LikeAs
<1>3. Like(w, d * A)
  <2>1. w - d * A = 1 * (Y * v - (Y * A + B)) + (-1) * (X * u - (X * A + B))
    OBVIOUS
  <2> HIDE DEF d, w
  <2> QED BY <1>1, <2>1, LikeBoth
<1>4. Like(d * z, d * A)
  BY <1>2, <1>3 DEF Like
<1> HIDE DEF z
<1>5. Like(z, A)
  <2>1. Rem(d) # 0
    OBVIOUS
  <2> HIDE DEF d
  <2> QED BY <1>1, <1>4, <2>1, Cancel
<1> QED BY <1>5 DEF z

LEMMA RowsExact ==
  ASSUME NEW r, Ints(r, 0, BsDepth), NEW s \in Int, NEW A \in Int, NEW B \in Int,
         \A i \in Depths : Like(Square(i) * (s * r[i]), Square(i) * A + B)
  PROVE  \A a, b \in Depths : a < b => Like(s * Interpolated(r, a, b), A)
<1> DEFINE T == {n \in Nat : \A a, b \in Depths :
                   b - a = n + 1 => Like(s * Interpolated(r, a, b), A)}
<1>1. ASSUME NEW a \in Depths, NEW b \in Depths, a < b
      PROVE  \E c \in Int : /\ Like(c * (Square(b) - Square(a)), Square(a))
                            /\ Like(s * Interpolated(r, a, b),
                                    s * Interpolated(r, a + 1, b)
                                    + c * (s * Interpolated(r, a + 1, b)
                                           - s * Interpolated(r, a, b - 1)))
  <2> DEFINE c == table_coef(b, b - a - 1)
             x == Interpolated(r, a, b)
             y == Interpolated(r, a + 1, b)
             z == Interpolated(r, a, b - 1)
  <2>1. c \in Int /\ Like(c * (Square(b) - Square(a)), Square(a))
    BY <1>1, CoefIs
  <2> HIDE DEF c
  <2>2. Like(x, y + c * (y - z))
    BY <1>1, <2>1, Neville
  <2>3. y \in Int /\ z \in Int
    <3>1. a + 1 \in Depths /\ b - 1 \in Depths /\ a + 1 <= b /\ a <= b - 1
      BY <1>1, SquaresAre DEF Depths
    <3> QED BY <3>1, InterpolatedType
  <2> HIDE DEF x, y, z
  <2>4. Like(s * x, s * (y + c * (y - z)))
    BY <2>2, LikeOps, LikeRem
  <2>5. s * (y + c * (y - z)) = s * y + c * (s * y - s * z)
    BY <2>1, <2>3
  <2>6. Like(s * x, s * y + c * (s * y - s * z))
    BY <2>4, <2>5
  <2> QED BY <2>1, <2>6 DEF x, y, z
<1>2. 0 \in T
  <2> SUFFICES ASSUME NEW a \in Depths, NEW b \in Depths, b - a = 0 + 1
               PROVE  Like(s * Interpolated(r, a, b), A)
    OBVIOUS
  <2>1. a + 1 = b /\ b - 1 = a /\ a < b /\ a # b
    BY SquaresAre DEF Depths
  <2>2. PICK c \in Int : /\ Like(c * (Square(b) - Square(a)), Square(a))
                         /\ Like(s * Interpolated(r, a, b),
                                 s * Interpolated(r, b, b)
                                 + c * (s * Interpolated(r, b, b) - s * Interpolated(r, a, a)))
    BY <1>1, <2>1
  <2> DEFINE u == s * Interpolated(r, a, a)
             v == s * Interpolated(r, b, b)
             X == Square(a)
             Y == Square(b)
  <2>3. Like(u, s * r[a]) /\ Like(v, s * r[b])
    BY InterpolatedOne, LikeOps, LikeRem
  <2>4. X \in Int /\ Y \in Int /\ Rem(Y - X) # 0
    BY <2>1, SquaresAre
  <2>5. Like(X * u, X * (s * r[a])) /\ Like(Y * v, Y * (s * r[b]))
    <3> HIDE DEF X, Y, u, v
    <3> QED BY <2>3, <2>4, LikeOps, LikeRem
  <2>6. Like(X * u, X * A + B) /\ Like(Y * v, Y * A + B)
    BY <2>5 DEF Like
  <2>7. u \in Int /\ v \in Int
    BY <2>3 DEF Like
  <2> HIDE DEF u, v, X, Y
  <2>8. Like(v + c * (v - u), A)
    BY <2>2, <2>4, <2>6, <2>7, TwoRows DEF X, Y
  <2> QED BY <2>2, <2>8 DEF Like, u, v
<1>3. ASSUME NEW n \in T PROVE n + 1 \in T
  <2> SUFFICES ASSUME NEW a \in Depths, NEW b \in Depths, b - a = (n + 1) + 1
               PROVE  Like(s * Interpolated(r, a, b), A)
    OBVIOUS
  <2>1. /\ a + 1 \in Depths /\ b - 1 \in Depths /\ a < b
        /\ b - (a + 1) = n + 1 /\ (b - 1) - a = n + 1
    BY SquaresAre DEF Depths
  <2>2. PICK c \in Int : Like(s * Interpolated(r, a, b),
                              s * Interpolated(r, a + 1, b)
                              + c * (s * Interpolated(r, a + 1, b)
                                     - s * Interpolated(r, a, b - 1)))
    BY <1>1, <2>1
  <2> DEFINE y == s * Interpolated(r, a + 1, b)
             z == s * Interpolated(r, a, b - 1)
  <2>3. Like(y, A) /\ Like(z, A)
    BY <2>1
  <2> HIDE DEF y, z
  <2>4. Like(y + c * (y - z), A + c * (A - A))
    BY <2>3, LikeOps, LikeRem
  <2>5. A + c * (A - A) = A
    OBVIOUS
  <2> QED BY <2>2, <2>4, <2>5 DEF Like, y, z
<1>4. T = Nat
  <2>1. T \in SUBSET Nat
    OBVIOUS
  <2> HIDE DEF T
  <2> QED BY <1>2, <1>3, <2>1, Induction
<1>5. ASSUME NEW a \in Depths, NEW b \in Depths, a < b
      PROVE  Like(s * Interpolated(r, a, b), A)
  <2>1. b - a - 1 \in Nat /\ b - a = (b - a - 1) + 1
    BY <1>5, SquaresAre DEF Depths
  <2>2. b - a - 1 \in T
    <3> HIDE DEF T
    <3> QED BY <1>4, <2>1
  <2> QED BY <2>1, <2>2
<1> QED BY <1>5

-----------------------------------------------------------------------------
(* The sub-steps.                                                           *)
Vector(s) == \A i \in 1..5 : s[i] \in Int

LEMMA StatesAre ==
  /\ \A s \in States : Vector(s)
  /\ Origin \in States /\ \A i \in 1..5 : Origin[i] = 0
<1>1. Field \subseteq Int /\ 0 \in Field
  BY FieldIs
<1> QED BY <1>1 DEF States, Vector, Origin

LEMMA MovedIs ==
  ASSUME NEW s, Vector(s), NEW d, Vector(d), NEW t \in Int
  PROVE  /\ Moved(s, d, t) \in States
         /\ \A i \in 1..5 : /\ Moved(s, d, t)[i] = Rem(s[i] + t * d[i])
                            /\ Like(Moved(s, d, t)[i], s[i] + t * d[i])
<1>1. ASSUME NEW i \in 1..5 PROVE s[i] + t * d[i] \in Int
  BY DEF Vector
<1>2. ASSUME NEW i \in 1..5
      PROVE  /\ (s[i] + t * d[i]) % P \in Field
             /\ Rem(s[i] + t * d[i]) = (s[i] + t * d[i]) % P
             /\ Like(Rem(s[i] + t * d[i]), s[i] + t * d[i])
  <2> DEFINE x == s[i] + t * d[i]
  <2>1. x \in Int
    BY <1>1
  <2> HIDE DEF x
  <2>2. x % P \in Field /\ Rem(x) = x % P /\ Like(Rem(x), x)
    BY <2>1, FieldOf, LikeRem
  <2> QED BY <2>2 DEF x
<1>3. Moved(s, d, t) = [i \in 1..5 |-> (s[i] + t * d[i]) % P]
  BY DEF Moved
<1> QED BY <1>2, <1>3 DEF States

LEMMA Thrice ==
  ASSUME NEW x, NEW y, Like(x, y)
  PROVE  Like(3 * x, 3 * y)
<1> DEFINE m == 3
<1>1. Like(m, m)
  BY LikeRem
<1> HIDE DEF m
<1>2. Like(m * x, m * y)
  BY <1>1, LikeOps
<1> QED BY <1>2 DEF m

(* A state whose positions and velocities, that of the first body three     *)
(* times, are known.                                                        *)
IsAt(u, x, y, v, w, t) ==
  /\ u \in States /\ Like(3 * u[1], x) /\ Like(u[2], y)
  /\ Like(3 * u[3], v) /\ Like(u[4], w) /\ Like(u[5], t)

LEMMA DriftIs ==
  ASSUME NEW u, NEW x, NEW y, NEW v, NEW w, NEW t, IsAt(u, x, y, v, w, t),
         NEW h, NEW e, Like(h, e)
  PROVE  IsAt(DriftBy(u, h), x + e * v, y + e * w, v, w, t + e)
<1> DEFINE d == Velocities(u)
           z == Moved(u, d, h)
<1>1. u \in States /\ Vector(u) /\ h \in Int
  BY StatesAre DEF IsAt, Like
<1>2. /\ u[1] \in Int /\ u[2] \in Int /\ u[3] \in Int /\ u[4] \in Int /\ u[5] \in Int
  BY <1>1 DEF Vector
<1>3. d[1] = u[3] /\ d[2] = u[4] /\ d[3] = 0 /\ d[4] = 0 /\ d[5] = 1
  BY DEF Velocities
<1> HIDE DEF d
<1>4. Vector(d)
  BY <1>2, <1>3 DEF Vector
<1>5. /\ z \in States /\ Like(z[1], u[1] + h * u[3]) /\ Like(z[2], u[2] + h * u[4])
      /\ Like(z[3], u[3] + h * 0) /\ Like(z[4], u[4] + h * 0) /\ Like(z[5], u[5] + h * 1)
  BY <1>1, <1>3, <1>4, MovedIs
<1> HIDE DEF z
<1> DEFINE u1 == u[1]
           u2 == u[2]
           u3 == u[3]
           u4 == u[4]
           u5 == u[5]
<1>6. /\ u1 \in Int /\ u2 \in Int /\ u3 \in Int /\ u4 \in Int /\ u5 \in Int
      /\ Like(3 * u1, x) /\ Like(u2, y) /\ Like(3 * u3, v) /\ Like(u4, w) /\ Like(u5, t)
      /\ Like(z[1], u1 + h * u3) /\ Like(z[2], u2 + h * u4)
      /\ Like(z[3], u3 + h * 0) /\ Like(z[4], u4 + h * 0) /\ Like(z[5], u5 + h * 1)
  BY <1>2, <1>5 DEF IsAt
<1> HIDE DEF u1, u2, u3, u4, u5
<1>7. Like(3 * z[1], x + e * v)
  <2>1. Like(3 * z[1], 3 * (u1 + h * u3)) /\ 3 * (u1 + h * u3) = 3 * u1 + h * (3 * u3)
    BY <1>1, <1>6, Thrice, SMTT(30)
  <2>2. Like(3 * u1 + h * (3 * u3), x + e * v)
    BY <1>6, LikeOps
  <2> QED BY <2>1, <2>2 DEF Like
<1>8. Like(z[2], y + e * w)
  <2>1. Like(u2 + h * u4, y + e * w)
    BY <1>6, LikeOps
  <2> QED BY <1>6, <2>1 DEF Like
<1>9. Like(3 * z[3], v) /\ Like(z[4], w)
  <2>1. u3 + h * 0 = u3 /\ u4 + h * 0 = u4
    BY <1>1, <1>6
  <2>2. Like(3 * z[3], 3 * u3)
    BY <1>6, <2>1, Thrice
  <2> QED BY <1>6, <2>1, <2>2 DEF Like
<1>10. Like(z[5], t + e)
  <2>1. u5 + h * 1 = u5 + h
    BY <1>1, <1>6
  <2>2. Like(u5 + h, t + e)
    BY <1>6, LikeOps
  <2> QED BY <1>6, <2>1, <2>2 DEF Like
<1>11. z = DriftBy(u, h)
  BY DEF DriftBy, z, d
<1> QED BY <1>5, <1>7, <1>8, <1>9, <1>10, <1>11 DEF IsAt

LEMMA KickIs ==
  ASSUME NEW u, NEW x, NEW y, NEW v, NEW w, NEW t, IsAt(u, x, y, v, w, t),
         NEW h, NEW e, Like(h, e)
  PROVE  IsAt(KickBy(u, h), x, y, v + 3 * (e * y), w + e, t)
<1> DEFINE d == Accelerations(u)
           z == Moved(u, d, h)
<1>1. u \in States /\ Vector(u) /\ h \in Int
  BY StatesAre DEF IsAt, Like
<1>2. /\ u[1] \in Int /\ u[2] \in Int /\ u[3] \in Int /\ u[4] \in Int /\ u[5] \in Int
  BY <1>1 DEF Vector
<1>3. d[1] = 0 /\ d[2] = 0 /\ d[3] = u[2] /\ d[4] = 1 /\ d[5] = 0
  BY DEF Accelerations
<1> HIDE DEF d
<1>4. Vector(d)
  BY <1>2, <1>3 DEF Vector
<1>5. /\ z \in States /\ Like(z[1], u[1] + h * 0) /\ Like(z[2], u[2] + h * 0)
      /\ Like(z[3], u[3] + h * u[2]) /\ Like(z[4], u[4] + h * 1) /\ Like(z[5], u[5] + h * 0)
  BY <1>1, <1>3, <1>4, MovedIs
<1> HIDE DEF z
<1> DEFINE u1 == u[1]
           u2 == u[2]
           u3 == u[3]
           u4 == u[4]
           u5 == u[5]
<1>6. /\ u1 \in Int /\ u2 \in Int /\ u3 \in Int /\ u4 \in Int /\ u5 \in Int
      /\ Like(3 * u1, x) /\ Like(u2, y) /\ Like(3 * u3, v) /\ Like(u4, w) /\ Like(u5, t)
      /\ Like(z[1], u1 + h * 0) /\ Like(z[2], u2 + h * 0)
      /\ Like(z[3], u3 + h * u2) /\ Like(z[4], u4 + h * 1) /\ Like(z[5], u5 + h * 0)
  BY <1>2, <1>5 DEF IsAt
<1> HIDE DEF u1, u2, u3, u4, u5
<1>7. Like(3 * z[3], v + 3 * (e * y))
  <2>1. Like(3 * z[3], 3 * (u3 + h * u2)) /\ 3 * (u3 + h * u2) = 3 * u3 + 3 * (h * u2)
    BY <1>1, <1>6, Thrice
  <2>2. Like(h * u2, e * y)
    BY <1>6, LikeOps
  <2>3. Like(3 * (h * u2), 3 * (e * y))
    BY <2>2, Thrice
  <2>4. Like(3 * u3 + 3 * (h * u2), v + 3 * (e * y))
    BY <1>6, <2>3, LikeOps
  <2> QED BY <2>1, <2>4 DEF Like
<1>8. Like(z[4], w + e)
  <2>1. u4 + h * 1 = u4 + h
    BY <1>1, <1>6
  <2>2. Like(u4 + h, w + e)
    BY <1>6, LikeOps
  <2> QED BY <1>6, <2>1, <2>2 DEF Like
<1>9. Like(3 * z[1], x) /\ Like(z[2], y) /\ Like(z[5], t)
  <2>1. u1 + h * 0 = u1 /\ u2 + h * 0 = u2 /\ u5 + h * 0 = u5
    BY <1>1, <1>6
  <2>2. Like(3 * z[1], 3 * u1)
    BY <1>6, <2>1, Thrice
  <2> QED BY <1>6, <2>1, <2>2 DEF Like
<1>10. z = KickBy(u, h)
  BY DEF KickBy, z, d
<1> QED BY <1>5, <1>7, <1>8, <1>9, <1>10 DEF IsAt

-----------------------------------------------------------------------------
(* Where m leapfrogs of two halves g lead, of either kind: q and p are what *)
(* they differ in.                                                          *)
LeapX(s, g, m, q) ==
  3 * s[1] + 6 * (m * g) * s[3] + 6 * (m * m * g * g) * s[2]
  + (4 * m * m * m + q * m) * (g * g * g) * s[4] + 2 * (m * m * m * m - m * m) * (g * g * g * g)

LeapY(s, g, m) == s[2] + 2 * (m * g) * s[4] + 2 * (m * m * g * g)

LeapV(s, g, m, p) ==
  3 * s[3] + 6 * (m * g) * s[2] + 6 * (m * m * g * g) * s[4] + (4 * m * m * m + p * m) * (g * g * g)

LeapW(s, g, m) == s[4] + 2 * (m * g)

LeapT(s, g, m) == s[5] + 2 * (m * g)

LEMMA LeapsAre ==
  ASSUME NEW s, Vector(s), NEW g \in Int, NEW m \in Int, NEW q \in Int, NEW p \in Int
  PROVE  /\ LeapX(s, g, m, q) \in Int /\ LeapY(s, g, m) \in Int /\ LeapV(s, g, m, p) \in Int
         /\ LeapW(s, g, m) \in Int /\ LeapT(s, g, m) \in Int
<1>1. s[1] \in Int /\ s[2] \in Int /\ s[3] \in Int /\ s[4] \in Int /\ s[5] \in Int
  BY DEF Vector
<1>2. LeapX(s, g, m, q) \in Int
  BY <1>1 DEF LeapX
<1>3. LeapY(s, g, m) \in Int
  BY <1>1 DEF LeapY
<1>4. LeapV(s, g, m, p) \in Int
  BY <1>1 DEF LeapV
<1>5. LeapW(s, g, m) \in Int /\ LeapT(s, g, m) \in Int
  BY <1>1 DEF LeapW, LeapT
<1> QED BY <1>2, <1>3, <1>4, <1>5

LEMMA LeapsBegin ==
  ASSUME NEW s \in States, NEW g \in Int, NEW q \in Int, NEW p \in Int
  PROVE  IsAt(s, LeapX(s, g, 0, q), LeapY(s, g, 0), LeapV(s, g, 0, p), LeapW(s, g, 0),
              LeapT(s, g, 0))
<1> DEFINE x == 3 * s[1]
           v == 3 * s[3]
<1>1. s[1] \in Int /\ s[2] \in Int /\ s[3] \in Int /\ s[4] \in Int /\ s[5] \in Int
  BY StatesAre DEF Vector
<1>2. LeapX(s, g, 0, q) = x /\ LeapV(s, g, 0, p) = v
  BY <1>1 DEF LeapX, LeapV
<1>3. LeapY(s, g, 0) = s[2] /\ LeapW(s, g, 0) = s[4] /\ LeapT(s, g, 0) = s[5]
  BY <1>1 DEF LeapY, LeapW, LeapT
<1>4. x \in Int /\ v \in Int
  BY <1>1
<1>5. IsAt(s, x, s[2], v, s[4], s[5])
  BY <1>1, <1>4, LikeRem DEF IsAt
<1> QED BY <1>2, <1>3, <1>5

LEMMA LeapsGoOn ==
  ASSUME NEW s, Vector(s), NEW g \in Int, NEW m \in Int
  PROVE  /\ LeapV(s, g, m, -4) + 3 * ((2 * g) * (LeapY(s, g, m) + g * LeapW(s, g, m)))
              = LeapV(s, g, m + 1, -4)
         /\ LeapX(s, g, m, 2) + g * LeapV(s, g, m, -4) + g * LeapV(s, g, m + 1, -4)
              = LeapX(s, g, m + 1, 2)
         /\ LeapY(s, g, m) + g * LeapW(s, g, m) + g * LeapW(s, g, m + 1) = LeapY(s, g, m + 1)
         /\ LeapX(s, g, m, -4) + (2 * g) * (LeapV(s, g, m, 2) + 3 * (g * LeapY(s, g, m)))
              = LeapX(s, g, m + 1, -4)
         /\ LeapV(s, g, m, 2) + 3 * (g * LeapY(s, g, m)) + 3 * (g * LeapY(s, g, m + 1))
              = LeapV(s, g, m + 1, 2)
         /\ LeapW(s, g, m) + 2 * g = LeapW(s, g, m + 1)
         /\ LeapT(s, g, m) + 2 * g = LeapT(s, g, m + 1)
<1>1. s[1] \in Int /\ s[2] \in Int /\ s[3] \in Int /\ s[4] \in Int /\ s[5] \in Int
  BY DEF Vector
<1>2. LeapV(s, g, m, -4) + 3 * ((2 * g) * (LeapY(s, g, m) + g * LeapW(s, g, m)))
        = LeapV(s, g, m + 1, -4)
  BY <1>1 DEF LeapV, LeapY, LeapW
<1>3. LeapX(s, g, m, 2) + g * LeapV(s, g, m, -4) + g * LeapV(s, g, m + 1, -4)
        = LeapX(s, g, m + 1, 2)
  BY <1>1 DEF LeapV, LeapX
<1>4. LeapY(s, g, m) + g * LeapW(s, g, m) + g * LeapW(s, g, m + 1) = LeapY(s, g, m + 1)
  BY <1>1 DEF LeapY, LeapW
<1>5. LeapX(s, g, m, -4) + (2 * g) * (LeapV(s, g, m, 2) + 3 * (g * LeapY(s, g, m)))
        = LeapX(s, g, m + 1, -4)
  BY <1>1 DEF LeapV, LeapX, LeapY
<1>6. LeapV(s, g, m, 2) + 3 * (g * LeapY(s, g, m)) + 3 * (g * LeapY(s, g, m + 1))
        = LeapV(s, g, m + 1, 2)
  BY <1>1 DEF LeapV, LeapY
<1>7. LeapW(s, g, m) + 2 * g = LeapW(s, g, m + 1) /\ LeapT(s, g, m) + 2 * g = LeapT(s, g, m + 1)
  BY <1>1 DEF LeapW, LeapT
<1> QED BY <1>2, <1>3, <1>4, <1>5, <1>6, <1>7

(* There is a function of the number of times that F is applied.            *)
IsApplied(f, F, s, n) == f[0] = s /\ \A i \in 1..n : f[i] = F[f[i - 1]]

LEMMA Applied ==
  ASSUME NEW V, NEW s \in V, NEW n \in Nat, NEW F \in [V -> V]
  PROVE  \E f \in [0..n -> V] : IsApplied(f, F, s, n)
<1> DEFINE step == [i \in 1..n |-> F]
<1>1. step \in [1..n -> [V -> V]]
  OBVIOUS
<1>2. PICK f \in [0..n -> V] : IsRun(f, s, step, n)
  BY <1>1, Recursion
<1> QED BY <1>2 DEF IsRun, IsApplied

(* Drifts and kicks of states are states.                                   *)
LEMMA SubSteps ==
  ASSUME NEW s \in States, NEW h \in Int
  PROVE  DriftBy(s, h) \in States /\ KickBy(s, h) \in States
<1>1. s[1] \in Int /\ s[2] \in Int /\ s[3] \in Int /\ s[4] \in Int /\ s[5] \in Int
  BY StatesAre DEF Vector
<1>2. Vector(s) /\ Vector(Velocities(s)) /\ Vector(Accelerations(s))
  BY <1>1 DEF Vector, Velocities, Accelerations
<1> QED BY <1>2, MovedIs DEF DriftBy, KickBy

LEMMA HalfIs ==
  ASSUME NEW h \in Int
  PROVE  half \in Int /\ half * h \in Int /\ Like(h, 2 * (half * h))
<1>1. P > 4 /\ P \in Int
  BY SquaresAre
<1>2. 2 \in Field \ {0}
  BY <1>1 DEF Field
<1>3. half \in Int /\ Rem(2 * half) = 1
  BY <1>2, ReciprocalIs DEF half
<1>4. Like(1, 2 * half) /\ half * h \in Int
  BY <1>3, FieldIs DEF Like
<1>5. h - 2 * (half * h) = h * (1 - 2 * half) /\ 2 * (half * h) \in Int
  BY <1>3
<1> QED BY <1>3, <1>4, <1>5, LikeAs

LEMMA DriftKickDriftIs ==
  ASSUME NEW s \in States, NEW h \in Int, NEW n \in Nat \ {0}
  PROVE  LET g == half * h
         IN  IsAt(DriftKickDrift(s, h, n), LeapX(s, g, n, 2), LeapY(s, g, n),
                  LeapV(s, g, n, -4), LeapW(s, g, n), LeapT(s, g, n))
<1> DEFINE g == half * h
           pair(x) == DriftBy(KickBy(x, h), h)
           b == DriftBy(s, g)
           Is(f) == f = [i \in 0..(n - 1) |-> IF i = 0 THEN b ELSE pair(f[i - 1])]
           after == CHOOSE f : Is(f)
           X(m) == LeapX(s, g, m, 2)
           Y(m) == LeapY(s, g, m)
           V(m) == LeapV(s, g, m, -4)
           W(m) == LeapW(s, g, m)
           T(m) == LeapT(s, g, m)
           At(u, m) == IsAt(u, X(m) + g * V(m), Y(m) + g * W(m), V(m), W(m), T(m) + g)
<1>1. g \in Int /\ Like(h, 2 * g) /\ Like(g, g)
  BY HalfIs, LikeRem
<1>2. DriftKickDrift(s, h, n) = DriftBy(KickBy(after[n - 1], h), g)
  BY DEF DriftKickDrift, Repeated
<1> HIDE DEF g
<1>3. Is(after)
  <2> DEFINE F == [x \in States |-> pair(x)]
  <2>1. b \in States
    BY <1>1, SubSteps
  <2>2. F \in [States -> States]
    BY SubSteps
  <2> DEFINE m == n - 1
  <2>3. m \in Nat
    OBVIOUS
  <2> HIDE DEF b, F, m
  <2>4. PICK f \in [0..m -> States] : IsApplied(f, F, b, m)
    BY <2>1, <2>2, <2>3, Applied
  <2>5. ASSUME NEW i \in 0..m PROVE f[i] = IF i = 0 THEN b ELSE pair(f[i - 1])
    <3>1. CASE i = 0
      BY <2>4, <3>1 DEF IsApplied
    <3>2. CASE i # 0
      <4>1. i \in 1..m /\ i - 1 \in 0..m
        BY <2>3, <3>2
      <4>2. f[i - 1] \in States /\ f[i] = F[f[i - 1]]
        BY <2>4, <4>1 DEF IsApplied
      <4> QED BY <3>2, <4>2 DEF F
    <3> QED BY <3>1, <3>2
  <2>6. Is(f)
    <3> HIDE DEF pair
    <3>1. f = [i \in 0..m |-> f[i]]
      BY <2>4
    <3> QED BY <2>5, <3>1 DEF m
  <2> HIDE DEF Is
  <2> QED BY <2>6
<1> HIDE DEF after
<1>4. after[0] = b /\ \A i \in 1..(n - 1) : after[i] = pair(after[i - 1])
  <2> HIDE DEF b, pair
  <2> QED BY <1>3
<1>5. Vector(s)
  BY StatesAre
<1>6. ASSUME NEW m \in Int
      PROVE  /\ X(m) \in Int /\ Y(m) \in Int /\ V(m) \in Int /\ W(m) \in Int /\ T(m) \in Int
             /\ V(m) + 3 * ((2 * g) * (Y(m) + g * W(m))) = V(m + 1)
             /\ X(m) + g * V(m) + g * V(m + 1) = X(m + 1)
             /\ Y(m) + g * W(m) + g * W(m + 1) = Y(m + 1)
             /\ W(m) + 2 * g = W(m + 1) /\ T(m) + 2 * g = T(m + 1)
  <2>1. -4 \in Int /\ 2 \in Int
    OBVIOUS
  <2> QED BY <1>1, <1>5, <2>1, LeapsAre, LeapsGoOn
<1>7. ASSUME NEW u, NEW m \in Nat, At(u, m)
      PROVE  IsAt(KickBy(u, h), X(m) + g * V(m), Y(m) + g * W(m), V(m + 1), W(m + 1), T(m) + g)
  <2> HIDE DEF X, Y, V, W, T
  <2> QED BY <1>1, <1>6, <1>7, KickIs
<1>8. At(after[0], 0)
  <2>1. IsAt(s, X(0), Y(0), V(0), W(0), T(0))
    <3>1. -4 \in Int /\ 2 \in Int
      OBVIOUS
    <3> QED BY <1>1, <3>1, LeapsBegin
  <2> HIDE DEF X, Y, V, W, T
  <2> QED BY <1>1, <1>4, <2>1, DriftIs
<1>9. \A m \in Nat : m <= n - 1 => At(after[m], m)
  <2> DEFINE S == {m \in Nat : m <= n - 1 => At(after[m], m)}
  <2>1. 0 \in S
    BY <1>8
  <2>2. ASSUME NEW m \in S PROVE m + 1 \in S
    <3> HIDE DEF At, pair
    <3> SUFFICES ASSUME m + 1 <= n - 1 PROVE At(after[m + 1], m + 1)
      OBVIOUS
    <3> DEFINE u == KickBy(after[m], h)
    <3>1. m \in Nat /\ At(after[m], m) /\ after[m + 1] = pair(after[m])
      <4>1. m + 1 \in 1..(n - 1) /\ (m + 1) - 1 = m /\ m <= n - 1
        OBVIOUS
      <4> QED BY <1>4, <4>1
    <3> HIDE DEF S, X, Y, V, W, T
    <3>2. IsAt(u, X(m) + g * V(m), Y(m) + g * W(m), V(m + 1), W(m + 1), T(m) + g)
      BY <1>7, <3>1
    <3> HIDE DEF u
    <3>3. IsAt(DriftBy(u, h), X(m) + g * V(m) + (2 * g) * V(m + 1),
               Y(m) + g * W(m) + (2 * g) * W(m + 1), V(m + 1), W(m + 1), T(m) + g + 2 * g)
      BY <1>1, <3>2, DriftIs
    <3>4. /\ X(m) + g * V(m) + (2 * g) * V(m + 1) = X(m + 1) + g * V(m + 1)
          /\ Y(m) + g * W(m) + (2 * g) * W(m + 1) = Y(m + 1) + g * W(m + 1)
          /\ T(m) + g + 2 * g = T(m + 1) + g
      <4>1. /\ X(m) \in Int /\ Y(m) \in Int /\ V(m) \in Int /\ W(m) \in Int /\ T(m) \in Int
            /\ X(m + 1) \in Int /\ Y(m + 1) \in Int /\ V(m + 1) \in Int /\ W(m + 1) \in Int
            /\ T(m + 1) \in Int /\ g \in Int
            /\ X(m) + g * V(m) + g * V(m + 1) = X(m + 1)
            /\ Y(m) + g * W(m) + g * W(m + 1) = Y(m + 1)
            /\ T(m) + 2 * g = T(m + 1)
        <5>1. m \in Int /\ m + 1 \in Int
          BY <3>1
        <5> QED BY <1>1, <1>6, <5>1
      <4> QED BY <4>1
    <3> QED BY <3>1, <3>3, <3>4 DEF At, pair, u
  <2>3. S = Nat
    <3>1. S \in SUBSET Nat
      OBVIOUS
    <3> HIDE DEF S
    <3> QED BY <2>1, <2>2, <3>1, Induction
  <2> QED BY <2>3
<1>10. QED
  <2> DEFINE m == n - 1
             u == KickBy(after[m], h)
  <2>1. m \in Nat /\ m <= n - 1 /\ m + 1 = n /\ m \in Int
    OBVIOUS
  <2> HIDE DEF m
  <2>2. At(after[m], m)
    <3> HIDE DEF At
    <3> QED BY <1>9, <2>1
  <2> HIDE DEF X, Y, V, W, T
  <2>3. IsAt(u, X(m) + g * V(m), Y(m) + g * W(m), V(n), W(n), T(m) + g)
    BY <1>7, <2>1, <2>2
  <2> HIDE DEF u
  <2>4. IsAt(DriftBy(u, g), X(m) + g * V(m) + g * V(n), Y(m) + g * W(m) + g * W(n), V(n), W(n),
             T(m) + g + g)
    BY <1>1, <2>3, DriftIs
  <2>5. /\ X(m) + g * V(m) + g * V(n) = X(n) /\ Y(m) + g * W(m) + g * W(n) = Y(n)
        /\ T(m) + g + g = T(n)
    <3>1. T(m) \in Int /\ T(m) + 2 * g = T(n)
      BY <1>6, <2>1
    <3>2. T(m) + g + g = T(n)
      BY <1>1, <3>1
    <3> QED BY <1>6, <2>1, <3>2
  <2>6. DriftKickDrift(s, h, n) = DriftBy(u, g)
    BY <1>2 DEF u, m
  <2> QED BY <2>4, <2>5, <2>6 DEF X, Y, V, W, T, g

LEMMA KickDriftKickIs ==
  ASSUME NEW s \in States, NEW h \in Int, NEW n \in Nat \ {0}
  PROVE  LET g == half * h
         IN  IsAt(KickDriftKick(s, h, n), LeapX(s, g, n, -4), LeapY(s, g, n),
                  LeapV(s, g, n, 2), LeapW(s, g, n), LeapT(s, g, n))
<1> DEFINE g == half * h
           pair(x) == KickBy(DriftBy(x, h), h)
           b == KickBy(s, g)
           Is(f) == f = [i \in 0..(n - 1) |-> IF i = 0 THEN b ELSE pair(f[i - 1])]
           after == CHOOSE f : Is(f)
           X(m) == LeapX(s, g, m, -4)
           Y(m) == LeapY(s, g, m)
           V(m) == LeapV(s, g, m, 2)
           W(m) == LeapW(s, g, m)
           T(m) == LeapT(s, g, m)
           At(u, m) == IsAt(u, X(m), Y(m), V(m) + 3 * (g * Y(m)), W(m) + g, T(m))
<1>1. g \in Int /\ Like(h, 2 * g) /\ Like(g, g)
  BY HalfIs, LikeRem
<1>2. KickDriftKick(s, h, n) = KickBy(DriftBy(after[n - 1], h), g)
  BY DEF KickDriftKick, Repeated
<1> HIDE DEF g
<1>3. Is(after)
  <2> DEFINE F == [x \in States |-> pair(x)]
  <2>1. b \in States
    BY <1>1, SubSteps
  <2>2. F \in [States -> States]
    BY SubSteps
  <2> DEFINE m == n - 1
  <2>3. m \in Nat
    OBVIOUS
  <2> HIDE DEF b, F, m
  <2>4. PICK f \in [0..m -> States] : IsApplied(f, F, b, m)
    BY <2>1, <2>2, <2>3, Applied
  <2>5. ASSUME NEW i \in 0..m PROVE f[i] = IF i = 0 THEN b ELSE pair(f[i - 1])
    <3>1. CASE i = 0
      BY <2>4, <3>1 DEF IsApplied
    <3>2. CASE i # 0
      <4>1. i \in 1..m /\ i - 1 \in 0..m
        BY <2>3, <3>2
      <4>2. f[i - 1] \in States /\ f[i] = F[f[i - 1]]
        BY <2>4, <4>1 DEF IsApplied
      <4> QED BY <3>2, <4>2 DEF F
    <3> QED BY <3>1, <3>2
  <2>6. Is(f)
    <3> HIDE DEF pair
    <3>1. f = [i \in 0..m |-> f[i]]
      BY <2>4
    <3> QED BY <2>5, <3>1 DEF m
  <2> HIDE DEF Is
  <2> QED BY <2>6
<1> HIDE DEF after
<1>4. after[0] = b /\ \A i \in 1..(n - 1) : after[i] = pair(after[i - 1])
  <2> HIDE DEF b, pair
  <2> QED BY <1>3
<1>5. Vector(s)
  BY StatesAre
<1>6. ASSUME NEW m \in Int
      PROVE  /\ X(m) \in Int /\ Y(m) \in Int /\ V(m) \in Int /\ W(m) \in Int /\ T(m) \in Int
             /\ X(m) + (2 * g) * (V(m) + 3 * (g * Y(m))) = X(m + 1)
             /\ V(m) + 3 * (g * Y(m)) + 3 * (g * Y(m + 1)) = V(m + 1)
             /\ Y(m) + g * W(m) + g * W(m + 1) = Y(m + 1)
             /\ W(m) + 2 * g = W(m + 1) /\ T(m) + 2 * g = T(m + 1)
  <2>1. -4 \in Int /\ 2 \in Int
    OBVIOUS
  <2> QED BY <1>1, <1>5, <2>1, LeapsAre, LeapsGoOn
<1>7. ASSUME NEW u, NEW m \in Nat, At(u, m)
      PROVE  IsAt(DriftBy(u, h), X(m + 1), Y(m + 1), V(m) + 3 * (g * Y(m)), W(m) + g, T(m + 1))
  <2> HIDE DEF X, Y, V, W, T
  <2>1. IsAt(DriftBy(u, h), X(m) + (2 * g) * (V(m) + 3 * (g * Y(m))),
             Y(m) + (2 * g) * (W(m) + g), V(m) + 3 * (g * Y(m)), W(m) + g, T(m) + 2 * g)
    BY <1>1, <1>7, DriftIs
  <2>2. Y(m) + (2 * g) * (W(m) + g) = Y(m + 1)
    <3>1. /\ Y(m) \in Int /\ W(m) \in Int /\ W(m) + 2 * g = W(m + 1)
          /\ Y(m) + g * W(m) + g * W(m + 1) = Y(m + 1)
      BY <1>6
    <3>2. Y(m) + (2 * g) * (W(m) + g) = Y(m) + g * W(m) + g * (W(m) + 2 * g)
      BY <1>1, <3>1
    <3> QED BY <3>1, <3>2
  <2>3. X(m) + (2 * g) * (V(m) + 3 * (g * Y(m))) = X(m + 1) /\ T(m) + 2 * g = T(m + 1)
    BY <1>6
  <2> QED BY <2>1, <2>2, <2>3
<1>8. At(after[0], 0)
  <2>1. IsAt(s, X(0), Y(0), V(0), W(0), T(0))
    <3>1. -4 \in Int /\ 2 \in Int
      OBVIOUS
    <3> QED BY <1>1, <3>1, LeapsBegin
  <2> HIDE DEF X, Y, V, W, T
  <2> QED BY <1>1, <1>4, <2>1, KickIs
<1>9. \A m \in Nat : m <= n - 1 => At(after[m], m)
  <2> DEFINE S == {m \in Nat : m <= n - 1 => At(after[m], m)}
  <2>1. 0 \in S
    BY <1>8
  <2>2. ASSUME NEW m \in S PROVE m + 1 \in S
    <3> HIDE DEF At, pair
    <3> SUFFICES ASSUME m + 1 <= n - 1 PROVE At(after[m + 1], m + 1)
      OBVIOUS
    <3> DEFINE u == DriftBy(after[m], h)
    <3>1. m \in Nat /\ At(after[m], m) /\ after[m + 1] = pair(after[m])
      <4>1. m + 1 \in 1..(n - 1) /\ (m + 1) - 1 = m /\ m <= n - 1
        OBVIOUS
      <4> QED BY <1>4, <4>1
    <3> HIDE DEF S, X, Y, V, W, T
    <3>2. IsAt(u, X(m + 1), Y(m + 1), V(m) + 3 * (g * Y(m)), W(m) + g, T(m + 1))
      BY <1>7, <3>1
    <3> HIDE DEF u
    <3>3. IsAt(KickBy(u, h), X(m + 1), Y(m + 1),
               V(m) + 3 * (g * Y(m)) + 3 * ((2 * g) * Y(m + 1)), W(m) + g + 2 * g, T(m + 1))
      BY <1>1, <3>2, KickIs
    <3>4. /\ V(m) + 3 * (g * Y(m)) + 3 * ((2 * g) * Y(m + 1)) = V(m + 1) + 3 * (g * Y(m + 1))
          /\ W(m) + g + 2 * g = W(m + 1) + g
      <4>1. /\ Y(m) \in Int /\ V(m) \in Int /\ W(m) \in Int
            /\ Y(m + 1) \in Int /\ V(m + 1) \in Int /\ W(m + 1) \in Int
            /\ V(m) + 3 * (g * Y(m)) + 3 * (g * Y(m + 1)) = V(m + 1)
            /\ W(m) + 2 * g = W(m + 1)
        <5>1. m \in Int /\ m + 1 \in Int
          BY <3>1
        <5> QED BY <1>6, <5>1
      <4> QED BY <1>1, <4>1
    <3> QED BY <3>1, <3>3, <3>4 DEF At, pair, u
  <2>3. S = Nat
    <3>1. S \in SUBSET Nat
      OBVIOUS
    <3> HIDE DEF S
    <3> QED BY <2>1, <2>2, <3>1, Induction
  <2> QED BY <2>3
<1>10. QED
  <2> DEFINE m == n - 1
             u == DriftBy(after[m], h)
  <2>1. m \in Nat /\ m <= n - 1 /\ m + 1 = n /\ m \in Int
    OBVIOUS
  <2> HIDE DEF m
  <2>2. At(after[m], m)
    <3> HIDE DEF At
    <3> QED BY <1>9, <2>1
  <2> HIDE DEF X, Y, V, W, T
  <2>3. IsAt(u, X(n), Y(n), V(m) + 3 * (g * Y(m)), W(m) + g, T(n))
    BY <1>7, <2>1, <2>2
  <2> HIDE DEF u
  <2>4. IsAt(KickBy(u, g), X(n), Y(n), V(m) + 3 * (g * Y(m)) + 3 * (g * Y(n)), W(m) + g + g, T(n))
    BY <1>1, <2>3, KickIs
  <2>5. V(m) + 3 * (g * Y(m)) + 3 * (g * Y(n)) = V(n) /\ W(m) + g + g = W(n)
    <3>1. W(m) \in Int /\ W(m) + 2 * g = W(n)
      BY <1>6, <2>1
    <3>2. W(m) + g + g = W(n)
      BY <1>1, <3>1
    <3> QED BY <1>6, <2>1, <3>2
  <2>6. KickDriftKick(s, h, n) = KickBy(u, g)
    BY <1>2 DEF u, m
  <2> QED BY <2>4, <2>5, <2>6 DEF X, Y, V, W, T, g

(* The midpoint rule gives a state.                                         *)
LEMMA MidpointIs ==
  ASSUME NEW s \in States, NEW h \in Int, NEW n \in Nat \ {0}
  PROVE  Midpoint(s, h, n) \in States
<1> DEFINE Pairs == [mid : States, out : States]
           leap(x) == [mid |-> x.out, out |-> Moved(x.mid, Rates(x.out), 2 * h)]
           b == [mid |-> s, out |-> Moved(s, Rates(s), h)]
           Is(f) == f = [i \in 0..(n - 1) |-> IF i = 0 THEN b ELSE leap(f[i - 1])]
           after == CHOOSE f : Is(f)
           ending == after[n - 1]
<1>1. Midpoint(s, h, n)
        = Moved(Origin, Moved(Moved(ending.mid, Rates(ending.out), h), ending.out, 1), half)
  BY DEF Midpoint, Repeated
<1>2. ASSUME NEW x \in States PROVE Vector(x) /\ Vector(Rates(x))
  <2>1. x[1] \in Int /\ x[2] \in Int /\ x[3] \in Int /\ x[4] \in Int /\ x[5] \in Int /\ Vector(x)
    BY StatesAre DEF Vector
  <2>2. Vector(Velocities(x)) /\ Vector(Accelerations(x))
    BY <2>1 DEF Vector, Velocities, Accelerations
  <2>3. Rates(x) \in States
    BY <2>2, MovedIs DEF Rates
  <2> QED BY <2>1, <2>3, StatesAre
<1>3. 2 * h \in Int
  OBVIOUS
<1>4. ASSUME NEW x \in Pairs PROVE leap(x) \in Pairs
  BY <1>2, <1>3, MovedIs
<1>5. b \in Pairs
  BY <1>2, MovedIs
<1> HIDE DEF leap, b, Pairs
<1>6. \E f \in [0..(n - 1) -> Pairs] : Is(f)
  <2> DEFINE F == [x \in Pairs |-> leap(x)]
             m == n - 1
  <2>1. F \in [Pairs -> Pairs] /\ m \in Nat
    BY <1>4
  <2> HIDE DEF F, m
  <2>2. PICK f \in [0..m -> Pairs] : IsApplied(f, F, b, m)
    BY <1>5, <2>1, Applied
  <2>3. ASSUME NEW i \in 0..m PROVE f[i] = IF i = 0 THEN b ELSE leap(f[i - 1])
    <3>1. CASE i = 0
      BY <2>2, <3>1 DEF IsApplied
    <3>2. CASE i # 0
      <4>1. i \in 1..m /\ i - 1 \in 0..m
        BY <2>1, <3>2
      <4>2. f[i - 1] \in Pairs /\ f[i] = F[f[i - 1]]
        BY <2>2, <4>1 DEF IsApplied
      <4> QED BY <3>2, <4>2 DEF F
    <3> QED BY <3>1, <3>2
  <2>4. Is(f)
    <3>1. f = [i \in 0..m |-> f[i]]
      BY <2>2
    <3> QED BY <2>3, <3>1 DEF m
  <2> QED BY <2>4 DEF m
<1>7. Is(after)
  <2> HIDE DEF Is
  <2> QED BY <1>6
<1> HIDE DEF after
<1>8. after[n - 1] \in Pairs
  <2> DEFINE S == {m \in Nat : m <= n - 1 => after[m] \in Pairs}
  <2>1. 0 \in S
    BY <1>5, <1>7
  <2>2. ASSUME NEW m \in S PROVE m + 1 \in S
    <3> SUFFICES ASSUME m + 1 <= n - 1 PROVE after[m + 1] \in Pairs
      OBVIOUS
    <3>1. after[m] \in Pairs /\ m + 1 \in 0..(n - 1) /\ m + 1 # 0 /\ (m + 1) - 1 = m
      OBVIOUS
    <3>2. after[m + 1] = leap(after[m])
      BY <1>7, <3>1
    <3> QED BY <1>4, <3>1, <3>2
  <2>3. S = Nat
    <3>1. S \in SUBSET Nat
      OBVIOUS
    <3> HIDE DEF S
    <3> QED BY <2>1, <2>2, <3>1, Induction
  <2>4. n - 1 \in Nat /\ n - 1 <= n - 1
    OBVIOUS
  <2> QED BY <2>3, <2>4
<1>9. ending.mid \in States /\ ending.out \in States
  BY <1>8 DEF Pairs
<1> HIDE DEF ending
<1>10. Moved(ending.mid, Rates(ending.out), h) \in States
  BY <1>2, <1>9, MovedIs
<1>11. Moved(Moved(ending.mid, Rates(ending.out), h), ending.out, 1) \in States
  <2>1. 1 \in Int
    OBVIOUS
  <2> QED BY <1>9, <1>10, <2>1, MovedIs, StatesAre
<1>12. half \in Int /\ Vector(Origin)
  BY HalfIs, StatesAre
<1> QED BY <1>1, <1>11, <1>12, MovedIs, StatesAre

-----------------------------------------------------------------------------
(* What the solution adds in the time t to 24 times the state, and what a   *)
(* row of n leapfrogs adds besides, times the square of n.                  *)
Gain(s, t) ==
  <<24 * (t * s[3]) + 12 * ((t * t) * s[2]) + 4 * ((t * t * t) * s[4]) + t * t * t * t,
    24 * (t * s[4]) + 12 * (t * t),
    24 * (t * s[2]) + 12 * ((t * t) * s[4]) + 4 * (t * t * t),
    24 * t,
    24 * t>>

Excess(s, t, q, p) ==
  <<q * ((t * t * t) * s[4]) - t * t * t * t, 0, p * (t * t * t), 0, 0>>

LEMMA GainsAre ==
  ASSUME NEW s, Vector(s), NEW t \in Int, NEW q \in Int, NEW p \in Int
  PROVE  Vector(Gain(s, t)) /\ Vector(Excess(s, t, q, p))
<1>1. s[1] \in Int /\ s[2] \in Int /\ s[3] \in Int /\ s[4] \in Int /\ s[5] \in Int
  BY DEF Vector
<1>2. /\ 24 * (t * s[3]) + 12 * ((t * t) * s[2]) + 4 * ((t * t * t) * s[4]) + t * t * t * t \in Int
      /\ 24 * (t * s[4]) + 12 * (t * t) \in Int
      /\ 24 * (t * s[2]) + 12 * ((t * t) * s[4]) + 4 * (t * t * t) \in Int
      /\ 24 * t \in Int
  BY <1>1
<1>3. q * ((t * t * t) * s[4]) - t * t * t * t \in Int /\ p * (t * t * t) \in Int
  BY <1>1
<1>4. Vector(Gain(s, t))
  BY <1>2 DEF Gain, Vector
<1>5. Vector(Excess(s, t, q, p))
  BY <1>3 DEF Excess, Vector
<1> QED BY <1>4, <1>5

LEMMA GainsSame ==
  ASSUME NEW s, Vector(s), NEW t, NEW d, Like(t, d), NEW q \in Int, NEW p \in Int
  PROVE  \A x \in 1..5 : /\ Like(Gain(s, t)[x], Gain(s, d)[x])
                         /\ Like(Excess(s, t, q, p)[x], Excess(s, d, q, p)[x])
<1> DEFINE s2 == s[2]
           s3 == s[3]
           s4 == s[4]
<1>1. s2 \in Int /\ s3 \in Int /\ s4 \in Int /\ t \in Int /\ d \in Int
  BY DEF Vector, Like
<1> HIDE DEF s2, s3, s4
<1>2. Like(t * t, d * d)
  BY LikeOps
<1>3. Like(t * t * t, d * d * d)
  BY <1>2, LikeOps
<1>4. Like(t * t * t * t, d * d * d * d)
  BY <1>3, LikeOps
<1>5. \A y, z : Like(y, z) => Like(24 * y, 24 * z) /\ Like(12 * y, 12 * z) /\ Like(4 * y, 4 * z)
  <2> SUFFICES ASSUME NEW y, NEW z, Like(y, z)
               PROVE  Like(24 * y, 24 * z) /\ Like(12 * y, 12 * z) /\ Like(4 * y, 4 * z)
    OBVIOUS
  <2>1. y \in Int /\ z \in Int
    BY DEF Like
  <2>2. 24 * y - 24 * z = 24 * (y - z) /\ 12 * y - 12 * z = 12 * (y - z) /\ 4 * y - 4 * z = 4 * (y - z)
    BY <2>1
  <2>3. /\ 24 * y \in Int /\ 24 * z \in Int /\ 12 * y \in Int /\ 12 * z \in Int /\ 4 * y \in Int
        /\ 4 * z \in Int /\ 24 \in Int /\ 12 \in Int /\ 4 \in Int
    BY <2>1
  <2> QED BY <2>2, <2>3, LikeAs
<1>6. /\ Like(t * s3, d * s3) /\ Like(t * s4, d * s4) /\ Like(t * s2, d * s2)
      /\ Like((t * t) * s2, (d * d) * s2) /\ Like((t * t) * s4, (d * d) * s4)
      /\ Like((t * t * t) * s4, (d * d * d) * s4)
      /\ Like(p * (t * t * t), p * (d * d * d))
  BY <1>1, <1>2, <1>3, LikeOps, LikeRem
<1>7. Like(q * ((t * t * t) * s4), q * ((d * d * d) * s4))
  BY <1>6, LikeOps, LikeRem
<1>8. Like(24 * (t * s3) + 12 * ((t * t) * s2) + 4 * ((t * t * t) * s4) + t * t * t * t,
           24 * (d * s3) + 12 * ((d * d) * s2) + 4 * ((d * d * d) * s4) + d * d * d * d)
  <2> DEFINE a == 24 * (t * s3)
             b == 12 * ((t * t) * s2)
             c == 4 * ((t * t * t) * s4)
             e == t * t * t * t
             A == 24 * (d * s3)
             B == 12 * ((d * d) * s2)
             C == 4 * ((d * d * d) * s4)
             E == d * d * d * d
  <2>1. Like(a, A) /\ Like(b, B) /\ Like(c, C) /\ Like(e, E)
    BY <1>4, <1>5, <1>6
  <2> HIDE DEF a, b, c, e, A, B, C, E
  <2>2. Like(a + b + c + e, A + B + C + E)
    BY <2>1, LikeOps
  <2> QED BY <2>2 DEF a, b, c, e, A, B, C, E
<1>9. Like(24 * (t * s4) + 12 * (t * t), 24 * (d * s4) + 12 * (d * d))
  <2> DEFINE a == 24 * (t * s4)
             b == 12 * (t * t)
             A == 24 * (d * s4)
             B == 12 * (d * d)
  <2>1. Like(a, A) /\ Like(b, B)
    BY <1>2, <1>5, <1>6
  <2> HIDE DEF a, b, A, B
  <2>2. Like(a + b, A + B)
    BY <2>1, LikeOps
  <2> QED BY <2>2 DEF a, b, A, B
<1>10. Like(24 * (t * s2) + 12 * ((t * t) * s4) + 4 * (t * t * t),
            24 * (d * s2) + 12 * ((d * d) * s4) + 4 * (d * d * d))
  <2> DEFINE a == 24 * (t * s2)
             b == 12 * ((t * t) * s4)
             c == 4 * (t * t * t)
             A == 24 * (d * s2)
             B == 12 * ((d * d) * s4)
             C == 4 * (d * d * d)
  <2>1. Like(a, A) /\ Like(b, B) /\ Like(c, C)
    BY <1>3, <1>5, <1>6
  <2> HIDE DEF a, b, c, A, B, C
  <2>2. Like(a + b + c, A + B + C)
    BY <2>1, LikeOps
  <2> QED BY <2>2 DEF a, b, c, A, B, C
<1>11. Like(24 * t, 24 * d) /\ Like(0, 0)
  BY <1>5, LikeRem
<1>12. Like(q * ((t * t * t) * s4) - t * t * t * t, q * ((d * d * d) * s4) - d * d * d * d)
  BY <1>4, <1>7, LikeOps
<1>13. \A x \in 1..5 : Like(Gain(s, t)[x], Gain(s, d)[x])
  BY <1>8, <1>9, <1>10, <1>11 DEF Gain, s2, s3, s4
<1>14. \A x \in 1..5 : Like(Excess(s, t, q, p)[x], Excess(s, d, q, p)[x])
  BY <1>6, <1>11, <1>12 DEF Excess, s4
<1> QED BY <1>13, <1>14

(* A row of n leapfrogs.                                                    *)
LEMMA LeapfrogRow ==
  ASSUME NEW s \in States, NEW g \in Int, NEW n \in Int, NEW q \in Int, NEW p \in Int, NEW u,
         IsAt(u, LeapX(s, g, n, q), LeapY(s, g, n), LeapV(s, g, n, p), LeapW(s, g, n),
              LeapT(s, g, n)),
         NEW t, Like(2 * (n * g), t), NEW x \in 1..5
  PROVE  Like((n * n) * (24 * (u[x] - s[x])), (n * n) * Gain(s, t)[x] + Excess(s, t, q, p)[x])
<1> DEFINE d == 2 * (n * g)
           N == n * n
           G == Gain(s, d)
           H == Excess(s, d, q, p)
<1>1. Vector(s) /\ Vector(u)
  BY StatesAre DEF IsAt
<1>2. /\ s[1] \in Int /\ s[2] \in Int /\ s[3] \in Int /\ s[4] \in Int /\ s[5] \in Int
      /\ u[1] \in Int /\ u[2] \in Int /\ u[3] \in Int /\ u[4] \in Int /\ u[5] \in Int
      /\ d \in Int /\ N \in Int
  BY <1>1 DEF Vector
<1>3. /\ G[1] = 24 * (d * s[3]) + 12 * ((d * d) * s[2]) + 4 * ((d * d * d) * s[4]) + d * d * d * d
      /\ G[2] = 24 * (d * s[4]) + 12 * (d * d)
      /\ G[3] = 24 * (d * s[2]) + 12 * ((d * d) * s[4]) + 4 * (d * d * d)
      /\ G[4] = 24 * d /\ G[5] = 24 * d
      /\ H[1] = q * ((d * d * d) * s[4]) - d * d * d * d /\ H[2] = 0
      /\ H[3] = p * (d * d * d) /\ H[4] = 0 /\ H[5] = 0
  BY DEF Gain, Excess
<1> HIDE DEF G, H
<1>4. /\ N * (24 * (u[1] - s[1])) - (N * G[1] + H[1]) = (8 * N) * (3 * u[1] - LeapX(s, g, n, q))
      /\ N * (24 * (u[2] - s[2])) - (N * G[2] + H[2]) = (24 * N) * (u[2] - LeapY(s, g, n))
      /\ N * (24 * (u[3] - s[3])) - (N * G[3] + H[3]) = (8 * N) * (3 * u[3] - LeapV(s, g, n, p))
      /\ N * (24 * (u[4] - s[4])) - (N * G[4] + H[4]) = (24 * N) * (u[4] - LeapW(s, g, n))
      /\ N * (24 * (u[5] - s[5])) - (N * G[5] + H[5]) = (24 * N) * (u[5] - LeapT(s, g, n))
  <2>1. N * (24 * (u[1] - s[1])) - (N * G[1] + H[1]) = (8 * N) * (3 * u[1] - LeapX(s, g, n, q))
    BY <1>2, <1>3 DEF LeapX
  <2>2. N * (24 * (u[2] - s[2])) - (N * G[2] + H[2]) = (24 * N) * (u[2] - LeapY(s, g, n))
    BY <1>2, <1>3 DEF LeapY
  <2>3. N * (24 * (u[3] - s[3])) - (N * G[3] + H[3]) = (8 * N) * (3 * u[3] - LeapV(s, g, n, p))
    BY <1>2, <1>3 DEF LeapV
  <2>4. /\ N * (24 * (u[4] - s[4])) - (N * G[4] + H[4]) = (24 * N) * (u[4] - LeapW(s, g, n))
        /\ N * (24 * (u[5] - s[5])) - (N * G[5] + H[5]) = (24 * N) * (u[5] - LeapT(s, g, n))
    BY <1>2, <1>3 DEF LeapW, LeapT
  <2> QED BY <2>1, <2>2, <2>3, <2>4
<1>5. Vector(G) /\ Vector(H)
  BY <1>1, <1>2, GainsAre DEF G, H
<1> HIDE DEF d, N
<1>6. /\ N * (24 * (u[x] - s[x])) \in Int /\ N * G[x] + H[x] \in Int
      /\ 8 * N \in Int /\ 24 * N \in Int
  <2>1. u[x] \in Int /\ s[x] \in Int /\ G[x] \in Int /\ H[x] \in Int
    BY <1>1, <1>5 DEF Vector
  <2> QED BY <1>2, <2>1
<1>7. Like(N * (24 * (u[x] - s[x])), N * G[x] + H[x])
  <2>1. CASE x = 1
    BY <1>4, <1>6, <2>1, LikeAs DEF IsAt
  <2>2. CASE x = 2
    BY <1>4, <1>6, <2>2, LikeAs DEF IsAt
  <2>3. CASE x = 3
    BY <1>4, <1>6, <2>3, LikeAs DEF IsAt
  <2>4. CASE x = 4
    BY <1>4, <1>6, <2>4, LikeAs DEF IsAt
  <2>5. CASE x = 5
    BY <1>4, <1>6, <2>5, LikeAs DEF IsAt
  <2> QED BY <2>1, <2>2, <2>3, <2>4, <2>5
<1>8. Like(G[x], Gain(s, t)[x]) /\ Like(H[x], Excess(s, t, q, p)[x])
  <2>1. Like(d, t)
    BY DEF d
  <2> QED BY <1>1, <2>1, GainsSame DEF G, H
<1>9. Like(N * G[x] + H[x], N * Gain(s, t)[x] + Excess(s, t, q, p)[x])
  BY <1>2, <1>8, LikeOps, LikeRem
<1> QED BY <1>7, <1>9 DEF Like, N

-----------------------------------------------------------------------------
(* The rows of the table.                                                   *)
StepKnown == input_ \in States /\ bsLength \in Field /\ rowsBy \in {"DKD", "KDK", "function"}

(* The length of a sub-step times their number is the length of the step.   *)
LEMMA SubStepIs ==
  ASSUME StepKnown, NEW c \in Depths
  PROVE  LET n == h_(c)
             h == (bsLength * Reciprocal(n % P)) % P
         IN  /\ h \in Int /\ n \in Nat \ {0} /\ half * h \in Int
             /\ Like(2 * (n * (half * h)), bsLength)
<1> DEFINE n == h_(c)
           r == Reciprocal(n % P)
           y == bsLength * r
           h == y % P
           g == half * h
<1>1. n \in Nat \ {0} /\ n \in Int /\ Rem(n) # 0
  BY SquaresAre
<1>2. bsLength \in Int
  BY FieldIs DEF StepKnown
<1> HIDE DEF n
<1>3. r \in Int /\ Like(n * r, 1)
  BY <1>1, Divides
<1> HIDE DEF r
<1>4. y \in Int
  BY <1>2, <1>3
<1>5. n * y - bsLength = bsLength * (n * r - 1)
  BY <1>1, <1>2, <1>3
<1> HIDE DEF y
<1>6. h \in Int /\ Like(h, y)
  BY <1>4, LikeRem DEF Like
<1> HIDE DEF h
<1>7. g \in Int /\ Like(h, 2 * g)
  BY <1>6, HalfIs
<1> HIDE DEF g
<1>8. Like(n * y, bsLength)
  <2>1. n * y \in Int
    BY <1>1, <1>4
  <2> QED BY <1>2, <1>3, <1>5, <2>1, LikeAs
<1>9. Like(n * (2 * g), n * h) /\ Like(n * h, n * y)
  <2>1. Like(2 * g, h)
    BY <1>7 DEF Like
  <2> QED BY <1>1, <1>6, <2>1, LikeOps, LikeRem
<1>10. n * (2 * g) = 2 * (n * g)
  BY <1>1, <1>7
<1>11. Like(2 * (n * g), bsLength)
  BY <1>8, <1>9, <1>10 DEF Like
<1> QED BY <1>1, <1>6, <1>7, <1>11 DEF n, r, y, h, g

LEMMA RowIsState ==
  ASSUME StepKnown, NEW c \in Depths
  PROVE  RowOf(input_, c) \in States
<1> DEFINE n == h_(c)
           h == (bsLength * Reciprocal(n % P)) % P
<1>1. h \in Int /\ n \in Nat \ {0}
  BY SubStepIs
<1>2. input_ \in States /\ -1 \in Int
  BY DEF StepKnown
<1>3. \/ RowOf(input_, c) = Moved(DriftKickDrift(input_, h, n), input_, -1)
      \/ RowOf(input_, c) = Moved(KickDriftKick(input_, h, n), input_, -1)
      \/ RowOf(input_, c) = Midpoint(input_, h, n)
  BY DEF RowOf, StepKnown
<1> HIDE DEF n, h
<1>4. /\ DriftKickDrift(input_, h, n) \in States /\ KickDriftKick(input_, h, n) \in States
      /\ Midpoint(input_, h, n) \in States
  BY <1>1, <1>2, DriftKickDriftIs, KickDriftKickIs, MidpointIs DEF IsAt
<1> QED BY <1>2, <1>3, <1>4, MovedIs, StatesAre

ExcessX == IF rowsBy = "DKD" THEN 2 ELSE -4

ExcessV == IF rowsBy = "DKD" THEN -4 ELSE 2

LEMMA RowIsExact ==
  ASSUME StepKnown, rowsBy # "function", NEW c \in Depths, NEW x \in 1..5
  PROVE  Like(Square(c) * (24 * RowOf(input_, c)[x]),
              Square(c) * Gain(input_, bsLength)[x]
              + Excess(input_, bsLength, ExcessX, ExcessV)[x])
<1> DEFINE n == h_(c)
           h == (bsLength * Reciprocal(n % P)) % P
           g == half * h
           s == input_
           u == IF rowsBy = "DKD" THEN DriftKickDrift(s, h, n) ELSE KickDriftKick(s, h, n)
<1>1. h \in Int /\ g \in Int /\ n \in Nat \ {0} /\ Like(2 * (n * g), bsLength)
  BY SubStepIs
<1>2. s \in States /\ ExcessX \in Int /\ ExcessV \in Int /\ -1 \in Int
  BY DEF StepKnown, ExcessX, ExcessV
<1>3. RowOf(s, c) = Moved(u, s, -1)
  BY DEF RowOf, StepKnown
<1>4. Square(c) = n * n
  BY DEF Square
<1> HIDE DEF n, h, s
<1>5. IsAt(u, LeapX(s, g, n, ExcessX), LeapY(s, g, n), LeapV(s, g, n, ExcessV), LeapW(s, g, n),
           LeapT(s, g, n))
  <2>1. CASE rowsBy = "DKD"
    BY <1>1, <1>2, <2>1, DriftKickDriftIs DEF ExcessX, ExcessV
  <2>2. CASE rowsBy # "DKD"
    BY <1>1, <1>2, <2>2, KickDriftKickIs DEF ExcessX, ExcessV
  <2> QED BY <2>1, <2>2
<1> HIDE DEF u, g
<1>6. Vector(u) /\ Vector(s)
  BY <1>2, <1>5, StatesAre DEF IsAt
<1> DEFINE y == RowOf(s, c)[x]
           z == u[x] - s[x]
           N == n * n
<1>7. Like(N * (24 * z), N * Gain(s, bsLength)[x] + Excess(s, bsLength, ExcessX, ExcessV)[x])
  BY <1>1, <1>2, <1>5, LeapfrogRow
<1>8. Like(y, z)
  <2>1. Like(y, u[x] + (-1) * s[x])
    BY <1>2, <1>3, <1>6, MovedIs
  <2>2. u[x] + (-1) * s[x] = z
    BY <1>6 DEF Vector
  <2> QED BY <2>1, <2>2
<1> HIDE DEF y, z
<1>9. Like(N * (24 * y), N * (24 * z))
  <2>1. y \in Int /\ z \in Int /\ N \in Int
    BY <1>1, <1>8 DEF Like
  <2> HIDE DEF N
  <2>2. N * (24 * y) - N * (24 * z) = (24 * N) * (y - z)
    BY <2>1
  <2>3. N * (24 * y) \in Int /\ N * (24 * z) \in Int /\ 24 * N \in Int
    BY <2>1
  <2> QED BY <1>8, <2>2, <2>3, LikeAs
<1> QED BY <1>4, <1>7, <1>9 DEF Like, y, s

(* The solution.                                                            *)
LEMMA SmallDivisors ==
  /\ \A d \in 2..4 : Reciprocal(d) \in Int /\ Like(d * Reciprocal(d), 1)
  /\ Rem(24) # 0
<1>1. P > 4 /\ P \in Int
  BY SquaresAre
<1>2. ASSUME NEW d \in 2..4 PROVE Reciprocal(d) \in Int /\ Like(d * Reciprocal(d), 1) /\ Rem(d) # 0
  <2>1. d \in Field \ {0} /\ d \in Int
    BY <1>1 DEF Field
  <2>2. Reciprocal(d) \in Int /\ Rem(d * Reciprocal(d)) = 1 /\ Rem(d) = d
    BY <2>1, ReciprocalIs, RemOfField
  <2>3. d * Reciprocal(d) \in Int
    BY <2>1, <2>2
  <2> QED BY <2>1, <2>2, <2>3, FieldIs DEF Like
<1>3. Rem(2) # 0 /\ Rem(3) # 0 /\ Rem(4) # 0
  BY <1>2
<1>4. Rem(2 * 3) # 0
  BY <1>3, NotZero
<1>5. Rem((2 * 3) * 4) # 0
  <2>1. 2 * 3 \in Int
    OBVIOUS
  <2> QED BY <1>3, <1>4, <2>1, NotZero
<1>6. (2 * 3) * 4 = 24
  OBVIOUS
<1> QED BY <1>2, <1>5, <1>6

LEMMA SolutionIs ==
  ASSUME NEW s \in States, NEW t \in Field
  PROVE  /\ Solution(s, t) \in States
         /\ \A x \in 1..5 : Like(24 * Solution(s, t)[x], 24 * s[x] + Gain(s, t)[x])
<1> DEFINE i2 == Reciprocal(2)
           i3 == Reciprocal(3)
           i4 == Reciprocal(4)
           t2 == (i2 * t) * t
           t3 == ((i3 * t) * t2) % P
           t4 == ((i4 * t) * t3) % P
           s1 == s[1]
           s2 == s[2]
           s3 == s[3]
           s4 == s[4]
           s5 == s[5]
           x1 == s1 + s3 * t + s2 * t2 + s4 * t3 + t4
           x2 == s2 + s4 * t + t2
           x3 == s3 + s2 * t + s4 * t2 + t3
           x4 == s4 + t
           x5 == s5 + t
<1>1. Solution(s, t) = <<x1 % P, x2 % P, x3 % P, x4 % P, x5 % P>>
  BY DEF Solution
<1>2. /\ i2 \in Int /\ i3 \in Int /\ i4 \in Int
      /\ Like(2 * i2, 1) /\ Like(3 * i3, 1) /\ Like(4 * i4, 1)
  BY SmallDivisors
<1>3. /\ s1 \in Int /\ s2 \in Int /\ s3 \in Int /\ s4 \in Int /\ s5 \in Int /\ t \in Int
  BY StatesAre, FieldIs DEF Vector
<1>4. /\ Gain(s, t)[1] = 24 * (t * s3) + 12 * ((t * t) * s2) + 4 * ((t * t * t) * s4) + t * t * t * t
      /\ Gain(s, t)[2] = 24 * (t * s4) + 12 * (t * t)
      /\ Gain(s, t)[3] = 24 * (t * s2) + 12 * ((t * t) * s4) + 4 * (t * t * t)
      /\ Gain(s, t)[4] = 24 * t /\ Gain(s, t)[5] = 24 * t
  BY DEF Gain
<1> HIDE DEF i2, i3, i4, s1, s2, s3, s4, s5
<1>5. t2 \in Int /\ Like(2 * t2, t * t)
  <2>1. t2 \in Int /\ 2 * t2 - t * t = (t * t) * (2 * i2 - 1) /\ 2 * t2 \in Int /\ t * t \in Int
    BY <1>2, <1>3
  <2> HIDE DEF t2
  <2> QED BY <1>2, <2>1, LikeAs
<1> HIDE DEF t2
<1>6. t3 \in Int /\ Like(6 * t3, t * t * t)
  <2> DEFINE y == (i3 * t) * t2
             a == 3 * i3
             b == 2 * t2
  <2>1. y \in Int /\ 6 * y = t * (a * b) /\ t * (1 * (t * t)) = t * t * t
    BY <1>2, <1>3, <1>5
  <2>2. t3 = y % P
    OBVIOUS
  <2> HIDE DEF y, t3, a, b
  <2>3. t3 \in Int /\ Like(t3, y)
    BY <2>1, <2>2, LikeRem DEF Like
  <2>4. Like(a, 1) /\ Like(b, t * t)
    BY <1>2, <1>5 DEF a, b
  <2>5. Like(t * (a * b), t * (1 * (t * t)))
    BY <1>3, <2>4, LikeOps, LikeRem
  <2>6. Like(6 * t3, 6 * y)
    <3>1. 6 * t3 - 6 * y = 6 * (t3 - y) /\ 6 * t3 \in Int /\ 6 * y \in Int /\ 6 \in Int
      BY <2>1, <2>3
    <3> QED BY <2>3, <3>1, LikeAs
  <2> QED BY <2>1, <2>3, <2>5, <2>6 DEF Like
<1> HIDE DEF t3
<1>7. t4 \in Int /\ Like(24 * t4, t * t * t * t)
  <2> DEFINE y == (i4 * t) * t3
             a == 4 * i4
             b == 6 * t3
  <2>1. y \in Int /\ 24 * y = t * (a * b) /\ t * (1 * (t * t * t)) = t * t * t * t
    BY <1>2, <1>3, <1>6
  <2>2. t4 = y % P
    OBVIOUS
  <2> HIDE DEF y, t4, a, b
  <2>3. t4 \in Int /\ Like(t4, y)
    BY <2>1, <2>2, LikeRem DEF Like
  <2>4. Like(a, 1) /\ Like(b, t * t * t)
    BY <1>2, <1>6 DEF a, b
  <2>5. Like(t * (a * b), t * (1 * (t * t * t)))
    BY <1>3, <2>4, LikeOps, LikeRem
  <2>6. Like(24 * t4, 24 * y)
    <3>1. 24 * t4 - 24 * y = 24 * (t4 - y) /\ 24 * t4 \in Int /\ 24 * y \in Int /\ 24 \in Int
      BY <2>1, <2>3
    <3> QED BY <2>3, <3>1, LikeAs
  <2> QED BY <2>1, <2>3, <2>5, <2>6 DEF Like
<1> HIDE DEF t4
<1>8. x1 \in Int /\ x2 \in Int /\ x3 \in Int /\ x4 \in Int /\ x5 \in Int
  BY <1>3, <1>5, <1>6, <1>7
<1>9. Like(24 * x1, 24 * s1 + Gain(s, t)[1])
  <2> DEFINE v == 24 * s1 + 24 * (t * s3) + (12 * s2) * (2 * t2) + 4 * (s4 * (t * t * t))
                  + t * t * t * t
             w == 24 * s1 + Gain(s, t)[1]
             a == 24 * s1 + 24 * (t * s3) + (12 * s2) * (2 * t2) + (4 * s4) * (6 * t3)
                  + t * t * t * t
  <2>1. /\ 24 * x1 \in Int /\ v \in Int /\ w \in Int /\ a \in Int
        /\ 24 * x1 - a = 1 * (24 * t4 - t * t * t * t)
        /\ a - v = (4 * s4) * (6 * t3 - t * t * t)
        /\ v - w = (12 * s2) * (2 * t2 - t * t)
        /\ 4 * s4 \in Int /\ 12 * s2 \in Int /\ 1 \in Int
    BY <1>3, <1>4, <1>5, <1>6, <1>7
  <2> HIDE DEF x1, v, w, a
  <2>2. Like(24 * x1, a) /\ Like(a, v) /\ Like(v, w)
    BY <1>5, <1>6, <1>7, <2>1, LikeAs
  <2> QED BY <2>2 DEF Like, w
<1>10. Like(24 * x2, 24 * s2 + Gain(s, t)[2])
  <2>1. /\ 24 * x2 - (24 * s2 + Gain(s, t)[2]) = 12 * (2 * t2 - t * t)
        /\ 24 * x2 \in Int /\ 24 * s2 + Gain(s, t)[2] \in Int /\ 12 \in Int
    BY <1>3, <1>4, <1>5
  <2> HIDE DEF x2
  <2> QED BY <1>5, <2>1, LikeAs
<1>11. Like(24 * x3, 24 * s3 + Gain(s, t)[3])
  <2> DEFINE v == 24 * s3 + 24 * (t * s2) + (12 * s4) * (2 * t2) + 4 * (t * t * t)
             w == 24 * s3 + Gain(s, t)[3]
  <2>1. /\ 24 * x3 \in Int /\ v \in Int /\ w \in Int
        /\ 24 * x3 - v = 4 * (6 * t3 - t * t * t)
        /\ v - w = (12 * s4) * (2 * t2 - t * t)
        /\ 4 \in Int /\ 12 * s4 \in Int
    BY <1>3, <1>4, <1>5, <1>6
  <2> HIDE DEF x3, v, w
  <2>2. Like(24 * x3, v) /\ Like(v, w)
    BY <1>5, <1>6, <2>1, LikeAs
  <2> QED BY <2>2 DEF Like, w
<1>12. Like(24 * x4, 24 * s4 + Gain(s, t)[4]) /\ Like(24 * x5, 24 * s5 + Gain(s, t)[5])
  <2>1. 24 * x4 = 24 * s4 + Gain(s, t)[4] /\ 24 * x5 = 24 * s5 + Gain(s, t)[5]
    BY <1>3, <1>4
  <2>2. 24 * x4 \in Int /\ 24 * x5 \in Int
    BY <1>3
  <2> HIDE DEF x4, x5
  <2> QED BY <2>1, <2>2, LikeRem
<1> HIDE DEF x1, x2, x3, x4, x5
<1>13. ASSUME NEW y \in Int PROVE y % P \in Field /\ y % P \in Int /\ Like(24 * (y % P), 24 * y)
  <2> DEFINE z == y % P
  <2>1. z \in Field /\ z \in Int /\ Like(z, y)
    BY FieldOf, LikeRem
  <2> HIDE DEF z
  <2>2. 24 * z - 24 * y = 24 * (z - y) /\ 24 * z \in Int /\ 24 * y \in Int /\ 24 \in Int
    BY <2>1
  <2>3. Like(24 * z, 24 * y)
    BY <2>1, <2>2, LikeAs
  <2> QED BY <2>1, <2>3 DEF z
<1> DEFINE z1 == x1 % P
           z2 == x2 % P
           z3 == x3 % P
           z4 == x4 % P
           z5 == x5 % P
<1>14. /\ z1 \in Field /\ z2 \in Field /\ z3 \in Field /\ z4 \in Field /\ z5 \in Field
       /\ Like(24 * z1, 24 * s1 + Gain(s, t)[1]) /\ Like(24 * z2, 24 * s2 + Gain(s, t)[2])
       /\ Like(24 * z3, 24 * s3 + Gain(s, t)[3]) /\ Like(24 * z4, 24 * s4 + Gain(s, t)[4])
       /\ Like(24 * z5, 24 * s5 + Gain(s, t)[5])
  BY <1>8, <1>9, <1>10, <1>11, <1>12, <1>13 DEF Like
<1>15. Solution(s, t) = <<z1, z2, z3, z4, z5>>
  BY <1>1
<1> HIDE DEF z1, z2, z3, z4, z5
<1>16. Solution(s, t) \in States
  BY <1>14, <1>15 DEF States
<1>17. \A x \in 1..5 : Like(24 * Solution(s, t)[x], 24 * s[x] + Gain(s, t)[x])
  BY <1>14, <1>15 DEF s1, s2, s3, s4, s5
<1> QED BY <1>16, <1>17

-----------------------------------------------------------------------------
(* The table.                                                               *)
Row(x) == [i \in Depths |-> RowOf(input_, i)[x]]

LEMMA RowsAre == ASSUME StepKnown, NEW x \in 1..5 PROVE Ints(Row(x), 0, BsDepth)
BY RowIsState, StatesAre DEF Ints, Row, Vector, Depths

LEMMA AtZeroIs ==
  ASSUME StepKnown, NEW a \in Depths, NEW b \in Depths, a <= b
  PROVE  /\ AtZero(a, b) \in States
         /\ \A x \in 1..5 : Like(AtZero(a, b)[x], Interpolated(Row(x), a, b))
<1> DEFINE value == [i \in a..b |-> Moved(Origin, RowOf(input_, i), Weight(a, b, i))]
           sum(x) == SumOver([i \in a..b |-> value[i][x]], a, b)
<1>1. AtZero(a, b) = [x \in 1..5 |-> sum(x) % P]
  BY DEF AtZero, Weight, Factors, Factor, Square
<1>2. ASSUME NEW x \in 1..5 PROVE sum(x) = Interpolated(Row(x), a, b)
  <2>1. ASSUME NEW i \in a..b PROVE value[i][x] = Rem(Weight(a, b, i) * Row(x)[i])
    <3>1. i \in Depths
      BY SquaresAre DEF Depths
    <3> DEFINE u == RowOf(input_, i)
               W == Weight(a, b, i)
    <3>2. Vector(u) /\ Vector(Origin) /\ Origin[x] = 0 /\ W \in Int
      BY <3>1, RowIsState, StatesAre, WeightIs
    <3>3. value[i] = Moved(Origin, u, W) /\ Row(x)[i] = u[x]
      BY <3>1 DEF Row
    <3> HIDE DEF u, W, value
    <3>4. value[i][x] = Rem(Origin[x] + W * u[x])
      BY <3>2, <3>3, MovedIs
    <3>5. Origin[x] + W * u[x] = W * u[x]
      BY <3>2 DEF Vector
    <3> QED BY <3>3, <3>4, <3>5 DEF W
  <2>2. [i \in a..b |-> value[i][x]] = Terms(Row(x), a, b)
    <3> HIDE DEF value
    <3> QED BY <2>1 DEF Terms
  <2> QED BY <2>2 DEF Interpolated
<1>3. ASSUME NEW x \in 1..5
      PROVE  sum(x) % P \in Field /\ Like(sum(x) % P, Interpolated(Row(x), a, b))
  <2> HIDE DEF sum
  <2>1. sum(x) \in Int
    BY <1>2, RowsAre, InterpolatedType
  <2> QED BY <1>2, <2>1, FieldOf, LikeRem
<1> HIDE DEF sum
<1> QED BY <1>1, <1>3 DEF States

(* The rows of extrapolate, each from the next one.                         *)
LEMMA ExtrapolateIs ==
  ASSUME NEW list \in [Depths -> States], NEW b \in Depths
  PROVE  LET e == extrapolate(list, b)
         IN  /\ e \in [Depths -> States] /\ e[b] = list[b]
             /\ \A j \in 0..(b - 1) :
                  e[j] = Moved(e[j + 1], Moved(e[j + 1], list[j], -1), table_coef(b, b - j - 1))
<1> DEFINE next(u, j) == Moved(u, Moved(u, list[j], -1), table_coef(b, b - j - 1))
           Is(f) == f = [j \in 0..b |-> IF j = b THEN list[b] ELSE next(f[j + 1], j)]
           new == CHOOSE f : Is(f)
           e == extrapolate(list, b)
<1>1. e = [j \in 0..BsDepth |-> IF j <= b THEN new[j] ELSE list[j]]
  BY DEF extrapolate
<1>2. b \in Nat /\ 0..b \subseteq Depths /\ list[b] \in States
  BY SquaresAre DEF Depths
<1>3. ASSUME NEW u \in States, NEW j \in 0..(b - 1) PROVE next(u, j) \in States
  <2>1. j \in Depths /\ j < b
    BY <1>2
  <2>2. table_coef(b, b - j - 1) \in Int /\ list[j] \in States /\ -1 \in Int
    BY <2>1, CoefIs
  <2>3. Vector(u) /\ Vector(list[j])
    BY <2>2, StatesAre
  <2>4. Moved(u, list[j], -1) \in States
    BY <2>2, <2>3, MovedIs
  <2> QED BY <2>2, <2>3, <2>4, MovedIs, StatesAre
<1>4. \E f : f \in [0..b -> States] /\ Is(f)
  <2> DEFINE step == [n \in 1..b |-> [u \in States |-> next(u, b - n)]]
  <2>1. step \in [1..b -> [States -> States]]
    <3>1. \A n \in 1..b : b - n \in 0..(b - 1)
      BY <1>2
    <3> HIDE DEF next
    <3> QED BY <1>3, <3>1
  <2>2. PICK f \in [0..b -> States] : IsRun(f, list[b], step, b)
    <3> HIDE DEF step
    <3> QED BY <1>2, <2>1, Recursion
  <2> DEFINE g == [j \in 0..b |-> f[b - j]]
  <2>3. g \in [0..b -> States]
    BY <1>2
  <2>4. ASSUME NEW j \in 0..b PROVE g[j] = IF j = b THEN list[b] ELSE next(g[j + 1], j)
    <3>1. CASE j = b
      <4>1. b - j = 0
        BY <1>2, <3>1
      <4> QED BY <2>2, <3>1, <4>1 DEF IsRun
    <3>2. CASE j # b
      <4> DEFINE n == b - j
      <4>1. n \in 1..b /\ n - 1 \in 0..b /\ b - n = j /\ j + 1 \in 0..b /\ b - (j + 1) = n - 1
        BY <1>2, <3>2
      <4>2. g[j] = f[n] /\ g[j + 1] = f[n - 1]
        BY <4>1
      <4> HIDE DEF n, g
      <4>3. f[n] = step[n][f[n - 1]] /\ f[n - 1] \in States
        BY <2>2, <4>1 DEF IsRun
      <4>4. step[n][f[n - 1]] = next(f[n - 1], j)
        <5> HIDE DEF next
        <5> QED BY <4>1, <4>3
      <4> HIDE DEF next, step
      <4> QED BY <3>2, <4>2, <4>3, <4>4
    <3> QED BY <3>1, <3>2
  <2>5. Is(g)
    <3>1. g = [j \in 0..b |-> g[j]]
      BY <2>3
    <3> HIDE DEF g, next
    <3> QED BY <2>4, <3>1
  <2> HIDE DEF g, Is
  <2> QED BY <2>3, <2>5
<1>5. new \in [0..b -> States] /\ Is(new)
  <2>1. PICK f : f \in [0..b -> States] /\ Is(f)
    BY <1>4
  <2>2. Is(new)
    <3> HIDE DEF Is
    <3> QED BY <2>1
  <2> HIDE DEF new
  <2> DEFINE S == {n \in Nat : n <= b => new[b - n] \in States}
  <2>3. 0 \in S
    BY <1>2, <2>2
  <2>4. ASSUME NEW n \in S PROVE n + 1 \in S
    <3> SUFFICES ASSUME n + 1 <= b PROVE new[b - (n + 1)] \in States
      OBVIOUS
    <3> DEFINE j == b - (n + 1)
    <3>1. j \in 0..(b - 1) /\ j \in 0..b /\ j # b /\ j + 1 = b - n /\ n <= b
      BY <1>2
    <3>2. new[j + 1] \in States
      BY <3>1
    <3> HIDE DEF j, S, next
    <3>3. new[j] = next(new[j + 1], j)
      BY <2>2, <3>1
    <3> QED BY <1>3, <3>1, <3>2, <3>3 DEF j
  <2>5. S = Nat
    <3>1. S \in SUBSET Nat
      OBVIOUS
    <3> HIDE DEF S
    <3> QED BY <2>3, <2>4, <3>1, Induction
  <2>6. ASSUME NEW j \in 0..b PROVE new[j] \in States
    <3>1. b - j \in S /\ b - j <= b /\ b - (b - j) = j
      <4> HIDE DEF S
      <4> QED BY <1>2, <2>5
    <3> QED BY <3>1
  <2>7. new = [j \in 0..b |-> new[j]]
    <3> HIDE DEF next
    <3> QED BY <2>2
  <2> QED BY <2>2, <2>6, <2>7
<1> HIDE DEF new
<1>6. \A j \in 0..b : j \in 0..BsDepth /\ e[j] = new[j]
  BY <1>1, <1>2 DEF Depths
<1>7. e \in [Depths -> States]
  <2>1. ASSUME NEW j \in Depths PROVE (IF j <= b THEN new[j] ELSE list[j]) \in States
    BY <1>2, <1>5 DEF Depths
  <2> HIDE DEF e
  <2> QED BY <1>1, <2>1 DEF Depths
<1>8. e[b] = list[b]
  BY <1>2, <1>5, <1>6
<1>9. ASSUME NEW j \in 0..(b - 1) PROVE e[j] = next(e[j + 1], j)
  <2>1. j \in 0..b /\ j # b /\ j + 1 \in 0..b
    BY <1>2
  <2> HIDE DEF next, e
  <2> QED BY <1>5, <1>6, <2>1
<1> QED BY <1>7, <1>8, <1>9

(* A row more, extrapolated with those before it, gives the values at 0 of  *)
(* the polynomials that end in it.                                          *)
LEMMA ExtrapolateOne ==
  ASSUME StepKnown, NEW a \in Depths, NEW b \in Depths, a < b
  PROVE  Moved(AtZero(a + 1, b), Moved(AtZero(a + 1, b), AtZero(a, b - 1), -1),
               table_coef(b, b - a - 1))
           = AtZero(a, b)
<1> DEFINE u == AtZero(a + 1, b)
           v == AtZero(a, b - 1)
           w == AtZero(a, b)
           c == table_coef(b, b - a - 1)
           d == Moved(u, v, -1)
           z == Moved(u, d, c)
<1>1. a + 1 \in Depths /\ b - 1 \in Depths /\ a + 1 <= b /\ a <= b - 1 /\ a <= b
  BY SquaresAre DEF Depths
<1>2. c \in Int /\ Like(c * (Square(b) - Square(a)), Square(a)) /\ -1 \in Int
  BY CoefIs
<1>3. u \in States /\ v \in States /\ w \in States
  BY <1>1, AtZeroIs
<1> HIDE DEF c
<1>4. d \in States /\ \A x \in 1..5 : Like(d[x], u[x] + (-1) * v[x])
  <2> HIDE DEF u, v
  <2> QED BY <1>2, <1>3, StatesAre, MovedIs
<1>5. z \in States /\ \A x \in 1..5 : Like(z[x], u[x] + c * d[x])
  <2> HIDE DEF u, d
  <2> QED BY <1>2, <1>3, <1>4, StatesAre, MovedIs
<1>6. ASSUME NEW x \in 1..5 PROVE z[x] = w[x]
  <2> DEFINE p == Interpolated(Row(x), a + 1, b)
             q == Interpolated(Row(x), a, b - 1)
             ux == u[x]
             vx == v[x]
  <2>1. Like(ux, p) /\ Like(vx, q) /\ Like(w[x], Interpolated(Row(x), a, b))
    BY <1>1, AtZeroIs
  <2>2. Like(Interpolated(Row(x), a, b), p + c * (p - q))
    BY <1>2, RowsAre, Neville
  <2>3. Like(d[x], ux - vx) /\ Like(z[x], ux + c * d[x])
    <3>1. ux + (-1) * vx = ux - vx
      <4> HIDE DEF ux, vx
      <4> QED BY <2>1 DEF Like
    <3> HIDE DEF d, z
    <3> QED BY <1>4, <1>5, <3>1
  <2>4. z[x] \in Field /\ w[x] \in Field
    <3> HIDE DEF z, w
    <3> QED BY <1>3, <1>5 DEF States
  <2> HIDE DEF u, v, w, d, z, p, q, ux, vx
  <2>5. Like(d[x], p - q)
    <3>1. Like(ux - vx, p - q)
      BY <2>1, LikeOps
    <3> QED BY <2>3, <3>1 DEF Like
  <2>6. Like(ux + c * d[x], p + c * (p - q))
    BY <1>2, <2>1, <2>5, LikeOps, LikeRem
  <2>7. Like(z[x], w[x])
    BY <2>1, <2>2, <2>3, <2>6 DEF Like
  <2> QED BY <2>4, <2>7, LikeSame
<1> HIDE DEF z, w
<1>7. z = w
  BY <1>3, <1>5, <1>6 DEF States
<1> QED BY <1>7 DEF z, w, d, u, v, c

LEMMA ColumnIs ==
  ASSUME StepKnown, NEW b \in Depths, NEW list \in [Depths -> States],
         list[b] = RowOf(input_, b), \A j \in 0..(b - 1) : list[j] = AtZero(j, b - 1)
  PROVE  /\ extrapolate(list, b) \in [Depths -> States]
         /\ \A j \in 0..b : extrapolate(list, b)[j] = AtZero(j, b)
<1> DEFINE e == extrapolate(list, b)
           S == {n \in Nat : n <= b => e[b - n] = AtZero(b - n, b)}
<1>1. /\ e \in [Depths -> States] /\ e[b] = list[b]
      /\ \A j \in 0..(b - 1) :
           e[j] = Moved(e[j + 1], Moved(e[j + 1], list[j], -1), table_coef(b, b - j - 1))
  BY ExtrapolateIs
<1> HIDE DEF e
<1>2. b \in Nat
  BY SquaresAre DEF Depths
<1>3. 0 \in S
  <2>1. b <= b
    BY <1>2
  <2>2. AtZero(b, b) \in States /\ \A x \in 1..5 : Like(AtZero(b, b)[x], Interpolated(Row(x), b, b))
    BY <2>1, AtZeroIs
  <2>3. RowOf(input_, b) \in States
    BY RowIsState
  <2>4. ASSUME NEW x \in 1..5 PROVE AtZero(b, b)[x] = RowOf(input_, b)[x]
    <3>1. Like(Interpolated(Row(x), b, b), RowOf(input_, b)[x])
      BY RowsAre, InterpolatedOne DEF Row
    <3>2. Like(AtZero(b, b)[x], RowOf(input_, b)[x])
      BY <2>2, <3>1 DEF Like
    <3>3. AtZero(b, b)[x] \in Field /\ RowOf(input_, b)[x] \in Field
      BY <2>2, <2>3 DEF States
    <3> QED BY <3>2, <3>3, LikeSame
  <2>5. AtZero(b, b) = RowOf(input_, b)
    BY <2>2, <2>3, <2>4 DEF States
  <2>6. b - 0 = b
    BY <1>2
  <2> QED BY <1>1, <2>5, <2>6
<1>4. ASSUME NEW n \in S PROVE n + 1 \in S
  <2> SUFFICES ASSUME n + 1 <= b PROVE e[b - (n + 1)] = AtZero(b - (n + 1), b)
    OBVIOUS
  <2> DEFINE j == b - (n + 1)
  <2>1. /\ j \in 0..(b - 1) /\ j \in Depths /\ j < b /\ j + 1 = b - n /\ n <= b
    BY <1>2, SquaresAre DEF Depths
  <2>2. e[j + 1] = AtZero(j + 1, b)
    BY <2>1
  <2> HIDE DEF j
  <2>3. list[j] = AtZero(j, b - 1)
    BY <2>1
  <2>4. e[j] = Moved(e[j + 1], Moved(e[j + 1], list[j], -1), table_coef(b, b - j - 1))
    BY <1>1, <2>1
  <2>5. e[j] = AtZero(j, b)
    BY <2>1, <2>2, <2>3, <2>4, ExtrapolateOne
  <2> QED BY <2>5 DEF j
<1>5. S = Nat
  <2>1. S \in SUBSET Nat
    OBVIOUS
  <2> HIDE DEF S
  <2> QED BY <1>3, <1>4, <2>1, Induction
<1>6. ASSUME NEW j \in 0..b PROVE e[j] = AtZero(j, b)
  <2>1. b - j \in S /\ b - j <= b /\ b - (b - j) = j
    <3> HIDE DEF S
    <3> QED BY <1>2, <1>5
  <2> QED BY <2>1
<1> QED BY <1>1, <1>6 DEF e

-----------------------------------------------------------------------------
(* While an attempt is made, the list holds the values at 0 of the          *)
(* polynomials through the rows of this attempt, up to the last.            *)
BsInv ==
  /\ StepKnown /\ bsPc \in {"idle", "columns"} /\ bsState \in States
  /\ column \in 0..(BsDepth + 1)
  /\ extrap_list_ \in [Depths -> States]
  /\ bsPc = "columns" => \A j \in 0..(column - 1) : extrap_list_[j] = AtZero(j, column - 1)

LEMMA BsInitInv == BsInit => BsInv
<1> SUFFICES ASSUME BsInit PROVE BsInv
  OBVIOUS
<1>1. Origin \in States /\ 0 \in Field /\ BsStarts \subseteq States
  BY StatesAre, FieldIs, ExtrapolationAssumption
<1>2. 0 \in 0..(BsDepth + 1)
  BY SquaresAre
<1> QED BY <1>1, <1>2 DEF BsInit, BsInv, StepKnown, Depths

LEMMA ResultType == BsInv /\ column >= 2 => Result \in States
<1> SUFFICES ASSUME BsInv, column >= 2 PROVE Result \in States
  OBVIOUS
<1>1. 0 \in Depths
  BY SquaresAre DEF Depths
<1>2. extrap_list_[0] \in States /\ input_ \in States /\ 1 \in Int
  BY <1>1 DEF BsInv, StepKnown
<1>3. Moved(input_, extrap_list_[0], 1) \in States
  BY <1>2, StatesAre, MovedIs
<1> QED BY <1>2, <1>3 DEF Result

LEMMA BsColumnInv == BsInv /\ BsColumn => BsInv'
<1> SUFFICES ASSUME BsInv, BsColumn PROVE BsInv'
  OBVIOUS
<1> DEFINE b == column
           row == RowOf(input_, b)
           list == [extrap_list_ EXCEPT ![b] = row]
<1>1. StepKnown /\ b \in Depths /\ extrap_list_ \in [Depths -> States] /\ bsPc = "columns"
  BY SquaresAre DEF BsInv, BsColumn, Depths
<1>2. row \in States
  BY <1>1, RowIsState
<1>3. list \in [Depths -> States] /\ list[b] = row
  <2> HIDE DEF row
  <2> QED BY <1>1, <1>2
<1>4. \A j \in 0..(b - 1) : list[j] = AtZero(j, b - 1)
  <2>1. \A j \in 0..(b - 1) : j \in Depths /\ j # b
    BY <1>1, SquaresAre DEF Depths
  <2>2. \A j \in 0..(b - 1) : extrap_list_[j] = AtZero(j, b - 1)
    BY <1>1 DEF BsInv
  <2> HIDE DEF row
  <2> QED BY <1>1, <2>1, <2>2
<1>5. extrap_list_' = extrapolate(list, b)
  BY DEF BsColumn
<1> HIDE DEF list
<1>6. extrap_list_' \in [Depths -> States] /\ \A j \in 0..b : extrap_list_'[j] = AtZero(j, b)
  BY <1>1, <1>3, <1>4, <1>5, ColumnIs
<1>7. /\ column' = b + 1 /\ (b + 1) - 1 = b /\ b + 1 \in 0..(BsDepth + 1)
      /\ UNCHANGED <<rowsBy, bsPc, bsState, input_, bsLength>>
  BY <1>1, SquaresAre DEF BsColumn, Depths
<1>8. \A j \in 0..(column' - 1) : extrap_list_'[j] = AtZero(j, column - 1)'
  <2>1. \A c : RowOf(input_, c)' = RowOf(input_, c)
    BY <1>7 DEF RowOf
  <2>2. \A j \in 0..b : AtZero(j, b) = AtZero(j, column - 1)'
    BY <1>7, <2>1 DEF AtZero
  <2> QED BY <1>6, <1>7, <2>2
<1> QED BY <1>1, <1>6, <1>7, <1>8 DEF BsInv, StepKnown

LEMMA BsUnchangedInv == BsInv /\ UNCHANGED bsVars => BsInv'
<1> SUFFICES ASSUME BsInv, UNCHANGED bsVars PROVE BsInv'
  OBVIOUS
<1>1. UNCHANGED <<rowsBy, bsPc, bsState, input_, bsLength, column, extrap_list_>>
  BY DEF bsVars
<1>2. \A c : RowOf(input_, c)' = RowOf(input_, c)
  BY <1>1 DEF RowOf
<1>3. \A j : AtZero(j, column - 1)' = AtZero(j, column - 1)
  BY <1>1, <1>2 DEF AtZero
<1> QED BY <1>1, <1>3 DEF BsInv, StepKnown

LEMMA BsStepInv == BsInv /\ [BsNext]_bsVars => BsInv'
<1> SUFFICES ASSUME BsInv, [BsNext]_bsVars PROVE BsInv'
  OBVIOUS
<1>1. BsDepth \in 1..10 /\ 0 \in 0..(BsDepth + 1) /\ BsLengths \subseteq Field
  BY SquaresAre, ExtrapolationAssumption
<1>2. CASE BsBegin
  BY <1>1, <1>2 DEF BsBegin, BsInv, StepKnown
<1>3. CASE BsColumn
  BY <1>3, BsColumnInv
<1>4. CASE BsAccept
  <2>1. Result \in States
    BY <1>4, ResultType DEF BsAccept
  <2> QED BY <1>4, <2>1 DEF BsAccept, BsInv, StepKnown
<1>5. CASE BsReject
  BY <1>1, <1>5 DEF BsReject, BsInv, StepKnown
<1>6. CASE BsRepeat
  BY <1>1, <1>6 DEF BsRepeat, BsInv, StepKnown
<1>7. CASE UNCHANGED bsVars
  BY <1>7, BsUnchangedInv
<1> QED BY <1>2, <1>3, <1>4, <1>5, <1>6, <1>7 DEF BsNext

(* With two rows of a leapfrog or more the result is the solution.          *)
LEMMA LeapfrogResult ==
  ASSUME BsInv, bsPc = "columns", column >= 2, rowsBy # "function"
  PROVE  Result = Solution(input_, bsLength)
<1> DEFINE s == input_
           t == bsLength
           b == column - 1
           u == extrap_list_[0]
           y == Solution(s, t)
           z == Result
<1>1. StepKnown /\ 0 \in Depths /\ b \in Depths /\ 0 < b /\ 0 <= b /\ u = AtZero(0, b)
  BY SquaresAre DEF BsInv, Depths
<1>2. s \in States /\ t \in Field /\ Vector(s) /\ t \in Int
  BY <1>1, StatesAre, FieldIs DEF StepKnown
<1> HIDE DEF b
<1>3. u \in States /\ Vector(u) /\ \A x \in 1..5 : Like(u[x], Interpolated(Row(x), 0, b))
  BY <1>1, AtZeroIs, StatesAre
<1>4. z = Moved(s, u, 1)
  BY DEF Result
<1>5. y \in States /\ \A x \in 1..5 : Like(24 * y[x], 24 * s[x] + Gain(s, t)[x])
  BY <1>2, SolutionIs
<1>6. ExcessX \in Int /\ ExcessV \in Int
  BY DEF ExcessX, ExcessV
<1>7. Vector(Gain(s, t)) /\ Vector(Excess(s, t, ExcessX, ExcessV))
  BY <1>2, <1>6, GainsAre
<1> HIDE DEF u, y, z
<1>8. z \in States /\ \A x \in 1..5 : Like(z[x], s[x] + 1 * u[x])
  BY <1>2, <1>3, <1>4, MovedIs
<1>9. ASSUME NEW x \in 1..5 PROVE z[x] = y[x]
  <2> DEFINE r == Row(x)
             A == Gain(s, t)[x]
             B == Excess(s, t, ExcessX, ExcessV)[x]
             m == 24
             v == Interpolated(r, 0, b)
             sx == s[x]
             ux == u[x]
  <2>1. Ints(r, 0, BsDepth) /\ A \in Int /\ B \in Int /\ m \in Int /\ Rem(m) # 0
        /\ sx \in Int /\ ux \in Int
    BY <1>1, <1>2, <1>3, <1>7, RowsAre, SmallDivisors DEF Vector
  <2>2. \A i \in Depths : Like(Square(i) * (m * r[i]), Square(i) * A + B)
    BY <1>1, RowIsExact DEF Row
  <2>3. Like(z[x], sx + ux) /\ Like(ux, v) /\ Like(m * y[x], m * sx + A)
    <3>1. sx + 1 * ux = sx + ux
      BY <2>1
    <3> QED BY <1>3, <1>5, <1>8, <3>1
  <2> HIDE DEF r, A, B, m, sx, ux
  <2>4. Like(m * v, A)
    BY <1>1, <2>1, <2>2, RowsExact
  <2> HIDE DEF v
  <2>5. Like(m * z[x], m * (sx + ux)) /\ m * (sx + ux) = m * sx + m * ux
    <3>1. Like(m, m)
      BY <2>1, LikeRem
    <3>2. Like(m * z[x], m * (sx + ux))
      BY <2>3, <3>1, LikeOps
    <3> QED BY <2>1, <3>2
  <2>6. Like(m * ux, m * v)
    BY <2>1, <2>3, LikeOps, LikeRem
  <2>7. Like(m * sx, m * sx)
    <3>1. m * sx \in Int
      BY <2>1
    <3> QED BY <3>1, LikeRem
  <2>8. Like(m * ux, A)
    BY <2>4, <2>6 DEF Like
  <2>9. Like(m * sx + m * ux, m * sx + A)
    BY <2>7, <2>8, LikeOps
  <2>10. Like(m * z[x], m * y[x])
    BY <2>3, <2>5, <2>9 DEF Like
  <2>11. z[x] \in Field /\ y[x] \in Field /\ z[x] \in Int /\ y[x] \in Int
    BY <1>5, <1>8, FieldIs DEF States
  <2>12. Like(z[x], y[x])
    BY <2>1, <2>10, <2>11, Cancel
  <2> QED BY <2>11, <2>12, LikeSame
<1>10. z = y
  BY <1>5, <1>8, <1>9 DEF States
<1> QED BY <1>10 DEF z, y

LEMMA BsInvImplies == BsInv => ExtrapolatesToZero
<1> SUFFICES ASSUME BsInv, bsPc = "columns", column >= 2
             PROVE  /\ extrap_list_[0] = AtZero(0, column - 1)
                    /\ extrap_list_[1] = AtZero(1, column - 1)
                    /\ rowsBy # "function" => Result = Solution(input_, bsLength)
  BY DEF ExtrapolatesToZero
<1>1. 0 \in 0..(column - 1) /\ 1 \in 0..(column - 1)
  BY SquaresAre DEF BsInv
<1> QED BY <1>1, LeapfrogResult DEF BsInv

LEMMA BsIteratorsInv == IteratorsSpec => []BsInv
<1>1. IteratorsInit => BsInv
  BY BsInitInv DEF IteratorsInit
<1>2. BsInv /\ [IteratorsNext]_iteratorVars => BsInv'
  <2>1. [IteratorsNext]_iteratorVars => [BsNext]_bsVars
    BY DEF IteratorsNext, iteratorVars
  <2> QED BY <2>1, BsStepInv
<1> QED BY <1>1, <1>2, PTL DEF IteratorsSpec

(* The table of Bulirsch-Stoer, for every depth, prime and step: whatever   *)
(* the list held before, the two results that are compared are the values   *)
(* at 0 of the polynomials through all rows of the attempt and through all  *)
(* but the first, and a leapfrog's result is the solution.                  *)
THEOREM BulirschStoerExtrapolates == IteratorsSpec => []ExtrapolatesToZero
BY BsIteratorsInv, BsInvImplies, PTL
=============================================================================
