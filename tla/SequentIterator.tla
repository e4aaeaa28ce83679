--------------------------- MODULE SequentIterator ---------------------------
(***************************************************************************)
(* ode-iterator/sequent-iterator.hpp: SequentOdeIterator::iterate.  A step *)
(* is integrated again and again with more sub-steps until two results     *)
(* agree.  A state of the system, or an array holding one, is the call it  *)
(* belongs to and the numbers of sub-steps, each with its length, that     *)
(* were made from the input of that call.                                  *)
(***************************************************************************)
EXTENDS Integers, Sequences

CONSTANTS
  SeqMaxIter,   (* max_iter_                                                *)
  MaxCalls      (* the bound on the calls of iterate                        *)

(* ns, the numbers of sub-steps.                                            *)
ns(i) == <<1, 2, 4, 6, 8, 10, 12, 14, 16, 18, 20, 22, 24>>[i + 1]

ASSUME SequentAssumption == SeqMaxIter \in 1..12 /\ MaxCalls \in Nat

VARIABLES
  seqPc,        (* "idle", "refine", "compare" or "done"                    *)
  call,         (* the calls of iterate so far                              *)
  refined,      (* i, the refinements of this call                          *)
  system,       (* the particle system                                      *)
  input, output, dual   (* input_, output_ and dual_steps_output_           *)

seqVars == <<seqPc, call, refined, system, input, output, dual>>

Untouched(c) == [call |-> c, steps |-> 0, of |-> 1]

(* The state after n more sub-steps, each the n-th part of the step.        *)
Integrated(s, n) == [s EXCEPT !.steps = @ + n, !.of = n]

SeqInit ==
  /\ seqPc = "idle"
  /\ call = 0
  /\ refined = 0
  /\ system = Untouched(0)
  /\ input = Untouched(0) /\ output = Untouched(0) /\ dual = Untouched(0)

(* The system of a call is the result of the call before, or something else *)
(* was done to it; either is the state this call starts from.               *)
SeqBegin ==
  /\ seqPc = "idle" /\ call < MaxCalls
  /\ call' = call + 1
  /\ input' = Untouched(call')
  /\ system' = Integrated(Untouched(call'), 1)
  /\ output' = system'
  /\ refined' = 1
  /\ seqPc' = "refine"
  /\ UNCHANGED dual

FromInput == input

Refine ==
  /\ seqPc = "refine" /\ refined <= SeqMaxIter
  /\ system' = Integrated(FromInput, ns(refined))
  /\ dual' = system'
  /\ seqPc' = "compare"
  /\ UNCHANGED <<call, refined, input, output>>

(* Mutant of Swapped: the finer result is compared but not kept.            *)
NotSwapped == UNCHANGED <<output, dual>>

Swapped == output' = dual /\ dual' = output

(* The error of the two results is over 1: they change places.              *)
Differ ==
  /\ seqPc = "compare"
  /\ Swapped
  /\ refined' = refined + 1
  /\ seqPc' = IF refined' <= SeqMaxIter THEN "refine" ELSE "done"
  /\ UNCHANGED <<call, system, input>>

Agree ==
  /\ seqPc = "compare"
  /\ seqPc' = "done"
  /\ UNCHANGED <<call, refined, system, input, output, dual>>

SeqReturn ==
  /\ seqPc = "done"
  /\ system' = dual
  /\ seqPc' = "idle"
  /\ UNCHANGED <<call, refined, input, output, dual>>

SeqNext == SeqBegin \/ Refine \/ Differ \/ Agree \/ SeqReturn

-----------------------------------------------------------------------------
IsResult(s, i) == s.call = call /\ s.of = ns(i) /\ s.steps = ns(i)

(* A refinement is compared with the one before it, both of the whole step  *)
(* and of this call, which is what the scale of the error assumes.  The     *)
(* result is the finest if the last two agreed; if none ever did, it is the *)
(* second finest, since the arrays have changed places once more.           *)
TakesTheFinest ==
  /\ seqPc = "compare" => IsResult(output, refined - 1) /\ IsResult(dual, refined)
  /\ seqPc = "idle" /\ call > 0 =>
       IF refined <= SeqMaxIter THEN IsResult(system, refined)
       ELSE IsResult(system, SeqMaxIter - 1)
=============================================================================
