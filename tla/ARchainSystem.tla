---------------------------- MODULE ARchainSystem ----------------------------
(***************************************************************************)
(* particle-system/archain.hpp: ARchainSystem, the regularized system in   *)
(* chain coordinates.  Its actions are those of ChainSystem with physical  *)
(* times for steps; omega and bindE are integrated beside the chain with   *)
(* the Cartesian velocities and forces.  It is shown to implement          *)
(* ReguSystem, whose constants it has.                                     *)
(***************************************************************************)
EXTENDS ChainSystem

CONSTANTS Newtonian(_), Kinetic(_), Potential(_), Contract(_, _), Slow(_), ReguTypes

VARIABLES regType, regu, scale, reguInc, yRegu      (* as in ReguSystem      *)

reguVars == <<regType, regu, scale, reguInc, yRegu>>

NoRegu == [omega |-> 0, bindE |-> 0]

ReguPlus(r, d) == [omega |-> r.omega + d.omega, bindE |-> r.bindE + d.bindE]

(* The regularization is constructed twice, the second time when the chain  *)
(* is there.                                                                *)
ReguInit ==
  /\ Init
  /\ regType \in ReguTypes
  /\ regu = [omega |-> -Potential(cart.pos),
             bindE |-> -(Kinetic(cart.vel) + Potential(cart.pos))]
  /\ scale = IF regType = "None" THEN 1 ELSE regu.omega
  /\ reguInc = NoRegu
  /\ yRegu = NoRegu

PosScale ==
  CASE regType = "LogH" -> regu.bindE + Kinetic(cart.vel)
    [] regType = "TTL"  -> regu.omega
    [] OTHER            -> scale

VelScale == IF regType = "None" THEN scale ELSE -Potential(cart.pos)

PhyTime(h, sc) == IF regType = "None" THEN h ELSE h * Slow(sc)

OmegaRate(v) == IF regType = "TTL" THEN Contract(v, Newtonian(cart.pos)) ELSE 0

(* The external acceleration is that for the velocity a.                    *)
BindERate(v, a) ==
  IF regType = "LogH"
  THEN -Contract(v, Advance(Acc(cart.pos, a), Newtonian(cart.pos), -1)) ELSE 0

ReguAdvance(v, a, t) == [omega |-> OmegaRate(v) * t, bindE |-> BindERate(v, a) * t]

(* The Cartesian velocity after the chain's was kicked by a for t.          *)
Kicked(a, t) == ToCartesian(Advance(chain.vel, a, t), index)

(* Mutant of ReguKickOf: the second half without its kick.                  *)
ReguKickOfOld(t) == ReguAdvance(cart.vel, IF velDep THEN cart.vel ELSE Zero, t)

ReguKickOf(t) ==
  IF velDep
  THEN LET mid == Kicked(ChainAcc(cart.aux), t \div 2) IN ReguAdvance(mid, mid, t)
  ELSE ReguPlus(ReguAdvance(cart.vel, Zero, t \div 2),
                ReguAdvance(Kicked(ChainAcc(Zero), t), Zero, t \div 2))

-----------------------------------------------------------------------------
ReguPreIter == PreIter /\ UNCHANGED reguVars

ReguWrite == Write /\ yRegu' = regu /\ UNCHANGED <<regType, regu, scale, reguInc>>

ReguClear == ClearIncrement /\ reguInc' = NoRegu /\ UNCHANGED <<regType, regu, scale, yRegu>>

ReguDrift(h) ==
  /\ Drift(PhyTime(h, PosScale))
  /\ scale' = PosScale
  /\ UNCHANGED <<regType, regu, reguInc, yRegu>>

ReguMove(d) ==
  /\ regu' = ReguPlus(regu, d)
  /\ reguInc' = IF collecting THEN ReguPlus(reguInc, d) ELSE reguInc

ReguKick(h) ==
  LET t == PhyTime(h, VelScale)
  IN  /\ Kick(t)
      /\ ReguMove(ReguKickOf(t))
      /\ scale' = VelScale
      /\ UNCHANGED <<regType, yRegu>>

ReguReadBack == ReadBack /\ regu' = yRegu /\ UNCHANGED <<regType, scale, reguInc, yRegu>>

ReguAccept ==
  /\ Accept
  /\ yRegu' = ReguPlus(yRegu, reguInc)
  /\ regu' = yRegu'
  /\ UNCHANGED <<regType, scale, reguInc>>

(* A change of the chain leaves the regularization as it is.                *)
ReguPostIter == PostIter /\ UNCHANGED reguVars

ReguNext ==
  \/ ReguPreIter \/ ReguWrite \/ ReguClear
  \/ \E h \in Steps : ReguDrift(h) \/ ReguKick(h)
  \/ ReguReadBack \/ ReguAccept \/ ReguPostIter

ReguSpec == ReguInit /\ [][ReguNext]_<<vars, reguVars>>
-----------------------------------------------------------------------------
(* The regularized chain does what the regularized Cartesian system does:   *)
(* the same coordinates, the same times, the same omega and bindE after the *)
(* same calls, whichever chains it changes to on the way.                   *)
CartesianRegu ==
  INSTANCE ReguSystem
  WITH y <- InCartesian(y, yIndex), increment <- InCartesian(increment, incIndex)

IsReguSystem == CartesianRegu!ReguSpec
=============================================================================
