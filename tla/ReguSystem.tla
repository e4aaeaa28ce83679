------------------------------ MODULE ReguSystem ------------------------------
(***************************************************************************)
(* particle-system/regu-system.hpp: RegularizedSystem, the Cartesian       *)
(* system whose steps are not times.  The regularization (LogH, TTL or     *)
(* None) turns the step of a drift or a kick into a physical time; from    *)
(* there on the drift and the kick are those of SimpleSystem, and two      *)
(* numbers, omega and bindE, are integrated beside the coordinates.        *)
(*                                                                         *)
(* The energies are arbitrary functions, and Slow stands for the           *)
(* reciprocal of the scale a step is divided by.  The system has external  *)
(* forces (ext_vel_indep), which are what Acc has more than Newtonian; one *)
(* without any never changes bindE.                                        *)
(***************************************************************************)
EXTENDS SimpleSystem, Sequences

CONSTANTS
  Newtonian(_),     (* the Newtonian accelerations for positions            *)
  Kinetic(_),       (* the kinetic energy for velocities                    *)
  Potential(_),     (* the potential energy for positions                   *)
  Contract(_, _),   (* sum of mass times velocity times acceleration        *)
  Slow(_),          (* the physical time of a step of 1, for a scale        *)
  ReguTypes         (* the values of ReguType to consider                   *)

ASSUME ReguSystemAssumption == ReguTypes \subseteq {"LogH", "TTL", "None"}

VARIABLES
  regType,      (* ReguType, a constant of the system's type                *)
  regu,         (* omega_ and bindE_                                        *)
  scale,        (* scale_                                                   *)
  reguInc,      (* the part of increment_ that belongs to regu              *)
  yRegu         (* the part of the iterator's array that belongs to regu    *)

reguVars == <<regType, regu, scale, reguInc, yRegu>>

NoRegu == [omega |-> 0, bindE |-> 0]

ReguPlus(r, d) == [omega |-> r.omega + d.omega, bindE |-> r.bindE + d.bindE]

ReguInit ==
  /\ Init
  /\ regType \in ReguTypes
  /\ regu = [omega |-> -Potential(cart.pos),
             bindE |-> -(Kinetic(cart.vel) + Potential(cart.pos))]
  /\ scale = IF regType = "None" THEN 1 ELSE regu.omega
  /\ reguInc = NoRegu
  /\ yRegu = NoRegu

-----------------------------------------------------------------------------
(* The scales, and the physical times they make of a step.                  *)

PosScale(s, r) ==
  CASE regType = "LogH" -> r.bindE + Kinetic(s.vel)
    [] regType = "TTL"  -> r.omega
    [] OTHER            -> scale

VelScale(s) == IF regType = "None" THEN scale ELSE -Potential(s.pos)

PhyTime(h, sc) == IF regType = "None" THEN h ELSE h * Slow(sc)

(* Mutant of PosTime: a drift takes the scale of the potential energy.      *)
TimeOfPotential(s, r, h) == PhyTime(h, VelScale([s EXCEPT !.pos = Advance(@, s.vel, h)]))

PosTime(s, r, h) == PhyTime(h, PosScale(s, r))

VelTime(s, h) == PhyTime(h, VelScale(s))

-----------------------------------------------------------------------------
(* The rates of omega and bindE for a velocity.                             *)

OmegaRate(v, newtonian) == IF regType = "TTL" THEN Contract(v, newtonian) ELSE 0

BindERate(v, external) == IF regType = "LogH" THEN -Contract(v, external) ELSE 0

External(p, v) == Advance(Acc(p, v), Newtonian(p), -1)

ReguRate(s, v, a) ==
  [omega |-> OmegaRate(v, Newtonian(s.pos)), bindE |-> BindERate(v, External(s.pos, a))]

Times(r, t) == [omega |-> r.omega * t, bindE |-> r.bindE * t]

(* Mutant of ReguKickOf: with the velocity from before the kick.            *)
ReguKickOfOld(s, t) == Times(ReguRate(s, s.vel, IF velDep THEN s.vel ELSE Zero), t)

(* What a kick by the physical time t does to omega and bindE: with forces  *)
(* that depend on velocities once, for the velocity after its first half;   *)
(* without them by halves, for the old and for the new velocity.            *)
ReguKickOf(s, t) ==
  IF velDep
  THEN LET mid == Advance(s.vel, Acc(s.pos, s.aux), t \div 2)
       IN  Times(ReguRate(s, mid, mid), t)
  ELSE LET new == Advance(s.vel, Acc(s.pos, Zero), t)
       IN  ReguPlus(Times(ReguRate(s, s.vel, Zero), t \div 2),
                    Times(ReguRate(s, new, Zero), t \div 2))

-----------------------------------------------------------------------------
(* The calls of a step: those of SimpleSystem, with what they do to the     *)
(* regularization.                                                          *)

ReguPreIter == PreIter /\ UNCHANGED reguVars

ReguWrite == Write /\ yRegu' = regu /\ UNCHANGED <<regType, regu, scale, reguInc>>

ReguClear == ClearIncrement /\ reguInc' = NoRegu /\ UNCHANGED <<regType, regu, scale, yRegu>>

ReguDrift(h) ==
  /\ Drift(PosTime(cart, regu, h))
  /\ scale' = PosScale(cart, regu)
  /\ UNCHANGED <<regType, regu, reguInc, yRegu>>

(* Mutant of ReguMove: the increment misses what the regularization does.   *)
ReguMoveUnseen(d) == regu' = ReguPlus(regu, d) /\ reguInc' = reguInc

ReguMove(d) ==
  /\ regu' = ReguPlus(regu, d)
  /\ reguInc' = IF collecting THEN ReguPlus(reguInc, d) ELSE reguInc

ReguKick(h) ==
  LET t == VelTime(cart, h)
  IN  /\ Kick(t)
      /\ ReguMove(ReguKickOf(cart, t))
      /\ scale' = VelScale(cart)
      /\ UNCHANGED <<regType, yRegu>>

ReguReadBack == ReadBack /\ regu' = yRegu /\ UNCHANGED <<regType, scale, reguInc, yRegu>>

ReguAccept ==
  /\ Accept
  /\ yRegu' = ReguPlus(yRegu, reguInc)
  /\ regu' = yRegu'
  /\ UNCHANGED <<regType, scale, reguInc>>

ReguPostIter == PostIter /\ UNCHANGED reguVars

ReguNext ==
  \/ ReguPreIter \/ ReguWrite \/ ReguClear
  \/ \E h \in Steps : ReguDrift(h) \/ ReguKick(h)
  \/ ReguReadBack \/ ReguAccept \/ ReguPostIter

ReguSpec == ReguInit /\ [][ReguNext]_<<vars, reguVars>>

-----------------------------------------------------------------------------
(* The scalar array.  A particle has three coordinates, here three times    *)
(* the one of the model.                                                    *)

Coords(v) == [k \in 1..(3 * N) |-> v[(k - 1) \div 3]]

ScalarArray(s, r) ==
  <<s.time>> \o Coords(s.pos) \o Coords(s.vel)
    \o (IF velDep THEN Coords(s.aux) ELSE <<>>) \o <<r.omega, r.bindE>>

VariableNumber == N * 3 * (IF velDep THEN 3 ELSE 2) + 3

PosOffset == 1
VelOffset == N * 3 + 1
AuxOffset == N * 6 + 1

(* Mutant of OmegaOffset: as if there were no auxiliary velocity.           *)
OmegaOffsetAlways == N * 3 * 2 + 1

OmegaOffset == N * 3 * (IF velDep THEN 3 ELSE 2) + 1
BindEOffset == OmegaOffset + 1

(* load_to_coords makes as many vectors as fit between begin and end.       *)
LoadToCoords(a, begin, end) ==
  [i \in 0..((end - begin) \div 3 - 1) |-> a[begin + 3 * i + 1]]

ReadScalarArray(a) ==
  [cart |-> [time |-> a[1],
             pos |-> LoadToCoords(a, PosOffset, VelOffset),
             vel |-> LoadToCoords(a, VelOffset, AuxOffset),
             aux |-> IF velDep THEN LoadToCoords(a, AuxOffset, Len(a)) ELSE cart.aux],
   regu |-> [omega |-> a[OmegaOffset + 1], bindE |-> a[BindEOffset + 1]]]

(* Mutant of GeneralDerivative: one physical time for both halves.          *)
DerivativeOfOneTime(s, r) ==
  LET t == PosTime(s, r, 1)
      acc == Acc(s.pos, IF velDep THEN s.vel ELSE Zero)
  IN  [cart |-> [time |-> t, pos |-> Advance(Zero, s.vel, t), vel |-> Advance(Zero, acc, t),
                 aux |-> IF velDep THEN Advance(Zero, acc, t) ELSE Zero],
       regu |-> Times([omega |-> OmegaRate(s.vel, Newtonian(s.pos)),
                       bindE |-> BindERate(s.vel, acc)], t)]

(* evaluate_general_derivative in a state s with the regularization r, what *)
(* Gauss-Radau integrates instead of calling drift and kick.  bindE gets    *)
(* the total acceleration, where a kick uses the external one.              *)
GeneralDerivative(s, r) ==
  LET posTime == PosTime(s, r, 1)
      velTime == VelTime(s, 1)
      acc == Acc(s.pos, IF velDep THEN s.vel ELSE Zero)
      rate == [omega |-> OmegaRate(s.vel, Newtonian(s.pos)),
               bindE |-> BindERate(s.vel, acc)]
  IN  [cart |-> [time |-> posTime, pos |-> Advance(Zero, s.vel, posTime),
                 vel |-> Advance(Zero, acc, velTime),
                 aux |-> IF velDep THEN Advance(Zero, acc, velTime) ELSE Zero],
       regu |-> Times(rate, velTime)]

-----------------------------------------------------------------------------
(* The increment is what the attempt did to the state, the regularization   *)
(* included: extrapolating the one extrapolates the other.                  *)
ReguTracksState ==
  pc = "moving" =>
    cart = Plus(y, increment) /\ regu = ReguPlus(yRegu, reguInc)

(* A drift or a kick by h is undone by one by -h although the physical time *)
(* depends on the state: the scale of a drift is not changed by a drift,    *)
(* nor that of a kick by a kick, and omega and bindE come back too.         *)
StepReversible ==
  \A h \in Steps :
    LET s == Plus(cart, DriftOf(cart, PosTime(cart, regu, h)))
        k == VelTime(cart, h)
        v == Plus(cart, KickOf(cart, k))
        r == ReguPlus(regu, ReguKickOf(cart, k))
    IN  /\ Plus(s, DriftOf(s, PosTime(s, regu, -h))) = cart
        /\ Plus(v, KickOf(v, VelTime(v, -h))) = cart
        /\ ReguPlus(r, ReguKickOf(v, VelTime(v, -h))) = regu

(* What write_to_scalar_array wrote is what read_from_scalar_array reads,   *)
(* for systems with and without the auxiliary velocity: the end of the      *)
(* array, with two numbers more than vectors, is read as the auxiliary      *)
(* velocity and relies on the division that drops them.                     *)
ArrayRoundTrip ==
  /\ Len(ScalarArray(cart, regu)) = VariableNumber
  /\ ReadScalarArray(ScalarArray(cart, regu)) = [cart |-> cart, regu |-> regu]

(* Gauss-Radau and the leapfrogs integrate the same equations: all that a   *)
(* drift or a kick does is the step size times the general derivative, for  *)
(* the velocities the move meets on its way.  For a drift that is the       *)
(* velocity; for a kick with velocity dependent forces the auxiliary        *)
(* velocity before and after, for the halves of the real one, and the real  *)
(* one in the middle, for the auxiliary one, omega and bindE; for a kick    *)
(* without them the velocity before and after, in halves.                   *)
(* bindE under LogH is the exception, and by how much is stated: the        *)
(* derivative also takes off the power of the Newtonian accelerations,      *)
(* which a kick leaves alone.                                               *)
DerivativeIsRate ==
  \A h \in Steps :
    LET At(v) == GeneralDerivative([cart EXCEPT !.vel = v], regu)
        drift == DriftOf(cart, PosTime(cart, regu, h))
        time == VelTime(cart, h)
        kick == KickOf(cart, time)
        done == Plus(cart, kick)
        change == ReguKickOf(cart, time)
        half == h \div 2
        before == At(IF velDep THEN cart.aux ELSE cart.vel)
        after == At(IF velDep THEN done.aux ELSE done.vel)
        middle == Advance(cart.vel, before.cart.vel, half)
        Unseen(v) == BindERate(v, Newtonian(cart.pos))
    IN  /\ drift.time = h * At(cart.vel).cart.time
        /\ drift.pos = Advance(Zero, At(cart.vel).cart.pos, h)
        /\ kick.vel = Advance(Advance(Zero, before.cart.vel, half), after.cart.vel, half)
        /\ velDep =>
             /\ kick.aux = Advance(Zero, At(middle).cart.aux, h)
             /\ change.omega = h * At(middle).regu.omega
             /\ change.bindE = h * At(middle).regu.bindE - time * Unseen(middle)
        /\ ~velDep =>
             /\ kick.aux = Zero
             /\ change.omega = half * (before.regu.omega + after.regu.omega)
             /\ change.bindE = half * (before.regu.bindE + after.regu.bindE)
                  - (time \div 2) * (Unseen(cart.vel) + Unseen(done.vel))
=============================================================================
