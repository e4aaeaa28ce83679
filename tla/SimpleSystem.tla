----------------------------- MODULE SimpleSystem -----------------------------
(***************************************************************************)
(* particle-system/base-system.hpp: SimpleSystem, the particle system in   *)
(* Cartesian coordinates, with the calls that one step of the simulation   *)
(* makes: pre_iter_process, the ODE iterator (which writes the state to an *)
(* array, makes attempts of drifts and kicks from it, and reads the result *)
(* back), and post_iter_process.                                           *)
(*                                                                         *)
(* Coordinates are integers, one for each particle.  Acc stands for the    *)
(* interactions: the accelerations as a function of the positions and, if  *)
(* velDep, of the velocities.  A state of the system, the array y of the   *)
(* iterator and the collected increment are records of the same shape;     *)
(* aux, the auxiliary velocity, has a meaning only if velDep.              *)
(***************************************************************************)
EXTENDS Integers

CONSTANTS
  N,            (* the number of particles                                  *)
  Acc(_, _),    (* the accelerations for positions and velocities           *)
  VelDeps,      (* the values of Interactions::ext_vel_dep to consider      *)
  Steps,        (* the step sizes of drifts and kicks, even for exact halves *)
  Starts,       (* the states the system may be constructed in              *)
  MaxOps,       (* bound of the model: drifts and kicks of an attempt       *)
  MaxIters      (* bound of the model: steps of the simulation              *)

Particles == 0..(N - 1)

Vector == [Particles -> Int]

ASSUME SimpleSystemAssumption ==
  /\ N \in Nat /\ N >= 2
  /\ VelDeps \subseteq BOOLEAN
  /\ Steps \subseteq Int /\ \A h \in Steps : h % 2 = 0
  /\ \A s \in Starts : s.pos \in Vector /\ s.vel \in Vector
  /\ MaxOps \in Nat /\ MaxIters \in Nat

VARIABLES
  cart,         (* the time, positions and velocities                       *)
  increment,    (* increment_                                               *)
  collecting,   (* sync_increment_                                          *)
  y,            (* the iterator's array                                     *)
  pc,           (* where the step of the simulation is                      *)
  ops, iters,   (* the drifts and kicks of the attempt, the steps           *)
  velDep        (* ext_vel_dep, a constant of the system's type             *)

vars == <<cart, increment, collecting, y, pc, ops, iters, velDep>>

Zero == [i \in Particles |-> 0]

Advance(v, a, h) == [i \in Particles |-> v[i] + h * a[i]]

NoState == [time |-> 0, pos |-> Zero, vel |-> Zero, aux |-> Zero]

Plus(s, d) ==
  [time |-> s.time + d.time, pos |-> Advance(s.pos, d.pos, 1),
   vel |-> Advance(s.vel, d.vel, 1), aux |-> Advance(s.aux, d.aux, 1)]

Init ==
  /\ velDep \in VelDeps
  /\ \E s \in Starts :
       cart = [time |-> 0, pos |-> s.pos, vel |-> s.vel,
               aux |-> IF velDep THEN s.vel ELSE Zero]
  /\ increment = NoState
  /\ collecting = FALSE
  /\ y = NoState
  /\ pc = "between"
  /\ ops = 0 /\ iters = 0

PreIter ==
  /\ pc = "between"
  /\ iters < MaxIters
  /\ cart' = [cart EXCEPT !.aux = IF velDep THEN cart.vel ELSE @]
  /\ pc' = "prepared"
  /\ iters' = iters + 1
  /\ UNCHANGED <<increment, collecting, y, ops, velDep>>

(* The iterator begins: write_to_scalar_array, collect_increment(true).     *)
Write ==
  /\ pc = "prepared"
  /\ y' = cart
  /\ collecting' = TRUE
  /\ pc' = "written"
  /\ UNCHANGED <<cart, increment, ops, iters, velDep>>

(* An attempt begins with clear_increment.                                  *)
ClearIncrement ==
  /\ pc = "written"
  /\ increment' = NoState
  /\ pc' = "moving"
  /\ ops' = 0
  /\ UNCHANGED <<cart, collecting, y, iters, velDep>>

(* The state changes by d; the increment by the same, if it is collected.   *)
Move(d) ==
  /\ cart' = Plus(cart, d)
  /\ increment' = IF collecting THEN Plus(increment, d) ELSE increment

DriftOf(s, h) == [NoState EXCEPT !.time = h, !.pos = Advance(Zero, s.vel, h)]

Drift(h) ==
  /\ pc = "moving"
  /\ ops < MaxOps
  /\ Move(DriftOf(cart, h))
  /\ ops' = ops + 1
  /\ UNCHANGED <<collecting, y, pc, iters, velDep>>

(* With velocity dependent forces: half of the kick with the forces of the  *)
(* auxiliary velocity, a kick of the auxiliary velocity with those of the   *)
(* real one, and the second half with those of the new auxiliary velocity.  *)
(* Without them the forces are those of the positions alone.                *)
KickOf(s, h) ==
  IF velDep
  THEN LET half == h \div 2
           a1 == Acc(s.pos, s.aux)
           a2 == Acc(s.pos, Advance(s.vel, a1, half))
           a3 == Acc(s.pos, Advance(s.aux, a2, h))
       IN  [NoState EXCEPT !.vel = Advance(Advance(Zero, a1, half), a3, half),
                           !.aux = Advance(Zero, a2, h)]
  ELSE [NoState EXCEPT !.vel = Advance(Zero, Acc(s.pos, Zero), h)]

Kick(h) ==
  /\ pc = "moving"
  /\ ops < MaxOps
  /\ Move(KickOf(cart, h))
  /\ ops' = ops + 1
  /\ UNCHANGED <<collecting, y, pc, iters, velDep>>

(* The attempt is over and another one follows: read_from_scalar_array.     *)
ReadBack ==
  /\ pc = "moving"
  /\ ops = MaxOps
  /\ cart' = y
  /\ pc' = "written"
  /\ UNCHANGED <<increment, collecting, y, ops, iters, velDep>>

(* The step is accepted: the increment is added to the array and the result *)
(* read; here of the last attempt, for the iterator's extrapolated one.     *)
Accept ==
  /\ pc = "moving"
  /\ ops = MaxOps
  /\ y' = Plus(y, increment)
  /\ cart' = y'
  /\ collecting' = FALSE
  /\ pc' = "accepted"
  /\ UNCHANGED <<increment, ops, iters, velDep>>

PostIter ==
  /\ pc = "accepted"
  /\ pc' = "between"
  /\ UNCHANGED <<cart, increment, collecting, y, ops, iters, velDep>>

Next ==
  \/ PreIter \/ Write \/ ClearIncrement
  \/ \E h \in Steps : Drift(h) \/ Kick(h)
  \/ ReadBack \/ Accept \/ PostIter

Spec == Init /\ [][Next]_vars
-----------------------------------------------------------------------------
State == [time : Int, pos : Vector, vel : Vector, aux : Vector]

(* The types.                                                               *)
TypeOK ==
  /\ cart \in State /\ increment \in State /\ y \in State
  /\ collecting \in BOOLEAN
  /\ pc \in {"between", "prepared", "written", "moving", "accepted"}
  /\ ops \in 0..MaxOps /\ iters \in 0..MaxIters
  /\ velDep \in VelDeps

(* While an attempt is made, what was collected is what it did to the state *)
(* it began with: adding the increment to the array gives the state.        *)
IncrementTracksState == pc = "moving" => cart = Plus(y, increment)

(* A kick by h is undone by a kick by -h, whatever the forces depend on:    *)
(* what makes the leapfrogs of drifts and kicks reversible in time.         *)
KickReversible ==
  \A h \in Steps :
    LET s == Plus(cart, KickOf(cart, h)) IN Plus(s, KickOf(s, -h)) = cart
=============================================================================
