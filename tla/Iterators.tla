------------------------------ MODULE Iterators ------------------------------
(***************************************************************************)
(* What the iterators of a Simulator calculate: the one it is built with,  *)
(* a template argument, is called again and again, and the numbers the     *)
(* state is kept in, another one, are summed.  They share nothing; one of  *)
(* them is chosen at the beginning.                                        *)
(***************************************************************************)
EXTENDS IAS15, SequentIterator, Symplectic, Extrapolation, CompensatedSum

VARIABLE iterator  (* "IAS15", "sequent", "symplectic", "extrapolation" or "sum" *)

iteratorVars == <<iterator, radauVars, seqVars, symVars, bsVars, sumVars>>

(* What is not chosen has one value.                                        *)
IteratorsInit ==
  /\ iterator \in {"IAS15", "sequent", "symplectic", "extrapolation", "sum"}
  /\ RadauInit /\ SeqInit /\ SymInit /\ BsInit /\ SumInit
  /\ iterator # "symplectic" =>
       symMethod = "2nd" /\ particle = CHOOSE s \in SymStarts : TRUE
  /\ iterator # "extrapolation" =>
       rowsBy = "DKD" /\ bsState = CHOOSE s \in BsStarts : TRUE
  /\ iterator # "sum" => sumType = "Kahan"

IteratorsNext ==
  \/ /\ iterator = "IAS15" /\ RadauNext
     /\ UNCHANGED <<iterator, seqVars, symVars, bsVars, sumVars>>
  \/ /\ iterator = "sequent" /\ SeqNext
     /\ UNCHANGED <<iterator, radauVars, symVars, bsVars, sumVars>>
  \/ /\ iterator = "symplectic" /\ SymNext
     /\ UNCHANGED <<iterator, radauVars, seqVars, bsVars, sumVars>>
  \/ /\ iterator = "extrapolation" /\ BsNext
     /\ UNCHANGED <<iterator, radauVars, seqVars, symVars, sumVars>>
  \/ /\ iterator = "sum" /\ SumNext
     /\ UNCHANGED <<iterator, radauVars, seqVars, symVars, bsVars>>

IteratorsSpec == IteratorsInit /\ [][IteratorsNext]_iteratorVars
=============================================================================
