----------------------------- MODULE MCIterators -----------------------------
(***************************************************************************)
(* Values for the constants of Iterators: seven nodes modulo 31, two       *)
(* forces, every start of a symplectic step modulo 7, and one state to     *)
(* extrapolate from.                                                       *)
(***************************************************************************)
EXTENDS Iterators

MCNode == [n \in 0..6 |-> n + 3]

MCForces ==
  {[n \in 0..6 |-> IF n = 4 THEN 1 ELSE 0], [n \in 0..6 |-> (n * n * n + 3) % 31]}

MCAcceleration(x) == x * x + 1

MCBsStarts == {<<3, 5, 7, 11, 2>>}

MCSymStarts == [pos : 0..6, vel : 0..6]
=============================================================================
