------------------------- MODULE SimpleSystem_proofs -------------------------
(***************************************************************************)
(* The properties of SimpleSystem and of RegularizedSystem for any number  *)
(* of particles, any forces and energies, any even step sizes and attempts *)
(* of any length: the types, that the increment is what the attempt did,   *)
(* that drifts and kicks can be undone, that the scalar array is read as   *)
(* it was written, and that the general derivative is the rate of drifts   *)
(* and kicks.  The theorems assume that forces are vectors of integers     *)
(* (AccTypes), those of the regularized system that energies and times are *)
(* integers (EnergyTypes), and the last one that Contract, a sum of        *)
(* products in the code, is linear (ContractLinear).                       *)
(***************************************************************************)
EXTENDS ReguSystem, TLAPS

(* The forces are vectors.                                                  *)
AccTypes == \A p, v \in Vector : Acc(p, v) \in Vector

-----------------------------------------------------------------------------
(* Vectors: they are closed under Advance, an advance is undone by one with *)
(* the opposite factor, and advances add up.                                *)
LEMMA ZeroType == Zero \in Vector
BY DEF Zero, Vector

LEMMA AdvanceType ==
  ASSUME NEW v \in Vector, NEW a \in Vector, NEW h \in Int
  PROVE  Advance(v, a, h) \in Vector
<1>1. ASSUME NEW i \in Particles PROVE v[i] + h * a[i] \in Int
  BY DEF Vector
<1> QED
  BY <1>1 DEF Advance, Vector

LEMMA AdvanceBack ==
  ASSUME NEW v \in Vector, NEW a \in Vector, NEW h \in Int
  PROVE  Advance(Advance(v, a, h), a, -h) = v
<1>1. ASSUME NEW i \in Particles PROVE (v[i] + h * a[i]) + (-h) * a[i] = v[i]
  <2>1. v[i] \in Int /\ a[i] \in Int
    BY DEF Vector
  <2> QED BY <2>1
<1> QED
  BY <1>1 DEF Advance, Vector

LEMMA AdvanceAssoc ==
  ASSUME NEW u \in Vector, NEW v \in Vector, NEW a \in Vector, NEW h \in Int
  PROVE  Advance(u, Advance(v, a, h), 1) = Advance(Advance(u, v, 1), a, h)
<1>1. ASSUME NEW i \in Particles
      PROVE  u[i] + 1 * (v[i] + h * a[i]) = (u[i] + 1 * v[i]) + h * a[i]
  <2>1. u[i] \in Int /\ v[i] \in Int /\ a[i] \in Int /\ h * a[i] \in Int
    BY DEF Vector
  <2> QED BY <2>1
<1> QED
  BY <1>1 DEF Advance

LEMMA AdvanceZero ==
  ASSUME NEW v \in Vector
  PROVE  Advance(v, Zero, 1) = v
BY DEF Advance, Zero, Vector

(* Advancing by what a advances nothing by is advancing by a.               *)
LEMMA AdvanceFromZero ==
  ASSUME NEW v \in Vector, NEW a \in Vector, NEW h \in Int
  PROVE  Advance(v, Advance(Zero, a, h), 1) = Advance(v, a, h)
BY AdvanceAssoc, AdvanceZero, ZeroType

-----------------------------------------------------------------------------
(* The same for states.                                                     *)
LEMMA NoStateType == NoState \in State
BY ZeroType DEF NoState, State

LEMMA PlusType ==
  ASSUME NEW s \in State, NEW d \in State
  PROVE  Plus(s, d) \in State
<1>1. /\ s.time + d.time \in Int
      /\ s.pos \in Vector /\ s.vel \in Vector /\ s.aux \in Vector
      /\ d.pos \in Vector /\ d.vel \in Vector /\ d.aux \in Vector
  BY DEF State
<1>2. /\ Advance(s.pos, d.pos, 1) \in Vector /\ Advance(s.vel, d.vel, 1) \in Vector
      /\ Advance(s.aux, d.aux, 1) \in Vector
  BY <1>1, AdvanceType, 1 \in Int
<1> QED
  BY <1>1, <1>2 DEF Plus, State

LEMMA PlusNothing ==
  ASSUME NEW s \in State
  PROVE  Plus(s, NoState) = s
BY AdvanceZero DEF Plus, NoState, State

LEMMA PlusAssoc ==
  ASSUME NEW s \in State, NEW d \in State, NEW e \in State
  PROVE  Plus(Plus(s, d), e) = Plus(s, Plus(d, e))
<1>1. /\ s.time \in Int /\ d.time \in Int /\ e.time \in Int
      /\ s.pos \in Vector /\ d.pos \in Vector /\ e.pos \in Vector
      /\ s.vel \in Vector /\ d.vel \in Vector /\ e.vel \in Vector
      /\ s.aux \in Vector /\ d.aux \in Vector /\ e.aux \in Vector
  BY DEF State
<1>2. (s.time + d.time) + e.time = s.time + (d.time + e.time)
  BY <1>1
<1>3. /\ Advance(Advance(s.pos, d.pos, 1), e.pos, 1)
           = Advance(s.pos, Advance(d.pos, e.pos, 1), 1)
      /\ Advance(Advance(s.vel, d.vel, 1), e.vel, 1)
           = Advance(s.vel, Advance(d.vel, e.vel, 1), 1)
      /\ Advance(Advance(s.aux, d.aux, 1), e.aux, 1)
           = Advance(s.aux, Advance(d.aux, e.aux, 1), 1)
  BY <1>1, AdvanceAssoc
<1> QED
  BY <1>2, <1>3 DEF Plus

(* What a drift and a kick do to a state is a state.                        *)
LEMMA DriftType ==
  ASSUME NEW s \in State, NEW h \in Int
  PROVE  DriftOf(s, h) \in State
BY ZeroType, AdvanceType DEF DriftOf, NoState, State

LEMMA KickType ==
  ASSUME AccTypes, NEW s \in State, NEW h \in Int
  PROVE  KickOf(s, h) \in State
<1>1. h \div 2 \in Int
  OBVIOUS
<1>2. s.pos \in Vector /\ s.vel \in Vector /\ s.aux \in Vector
  BY DEF State
<1> DEFINE half == h \div 2
           a1 == Acc(s.pos, s.aux)
           a2 == Acc(s.pos, Advance(s.vel, a1, half))
           a3 == Acc(s.pos, Advance(s.aux, a2, h))
<1>3. a1 \in Vector
  BY <1>2 DEF AccTypes
<1>4. a2 \in Vector
  BY <1>1, <1>2, <1>3, AdvanceType DEF AccTypes
<1>5. a3 \in Vector
  BY <1>2, <1>4, AdvanceType DEF AccTypes
<1>6. /\ Advance(Advance(Zero, a1, half), a3, half) \in Vector
      /\ Advance(Zero, a2, h) \in Vector
  BY <1>1, <1>3, <1>4, <1>5, ZeroType, AdvanceType
<1>7. Advance(Zero, Acc(s.pos, Zero), h) \in Vector
  BY <1>2, ZeroType, AdvanceType DEF AccTypes
<1> QED
  BY <1>6, <1>7, NoStateType DEF KickOf, NoState, State
-----------------------------------------------------------------------------
(* Where a kick leads to, with velocity dependent forces.                   *)
LEMMA KickedDep ==
  ASSUME AccTypes, NEW s \in State, NEW h \in Int, velDep
  PROVE  LET t == Plus(s, KickOf(s, h))
             v1 == Advance(s.vel, Acc(s.pos, s.aux), h \div 2)
             x2 == Advance(s.aux, Acc(s.pos, v1), h)
         IN  /\ t.time = s.time /\ t.pos = s.pos /\ t.aux = x2
             /\ t.vel = Advance(v1, Acc(s.pos, x2), h \div 2)
<1> DEFINE half == h \div 2
           a1 == Acc(s.pos, s.aux)
           v1 == Advance(s.vel, a1, half)
           a2 == Acc(s.pos, v1)
           x2 == Advance(s.aux, a2, h)
           a3 == Acc(s.pos, x2)
           k == [time |-> 0, pos |-> Zero,
                 vel |-> Advance(Advance(Zero, a1, half), a3, half),
                 aux |-> Advance(Zero, a2, h)]
<1>1. /\ s.time \in Int /\ s.pos \in Vector /\ s.vel \in Vector /\ s.aux \in Vector
  BY DEF State
<1>2. half \in Int
  OBVIOUS
<1>3. a1 \in Vector
  BY <1>1 DEF AccTypes
<1>4. v1 \in Vector
  BY <1>1, <1>2, <1>3, AdvanceType
<1>5. a2 \in Vector
  BY <1>1, <1>4 DEF AccTypes
<1>6. x2 \in Vector
  BY <1>1, <1>5, AdvanceType
<1>7. a3 \in Vector
  BY <1>1, <1>6 DEF AccTypes
<1>8. KickOf(s, h) = k
  BY DEF KickOf, NoState
<1> HIDE DEF half, a1, v1, a2, x2, a3
<1>9. Advance(s.vel, Advance(Advance(Zero, a1, half), a3, half), 1)
        = Advance(v1, a3, half)
  <2>1. Advance(Zero, a1, half) \in Vector
    BY <1>2, <1>3, ZeroType, AdvanceType
  <2>2. Advance(s.vel, Advance(Advance(Zero, a1, half), a3, half), 1)
          = Advance(Advance(s.vel, Advance(Zero, a1, half), 1), a3, half)
    BY <1>1, <1>2, <1>7, <2>1, AdvanceAssoc
  <2>3. Advance(s.vel, Advance(Zero, a1, half), 1) = v1
    BY <1>1, <1>2, <1>3, AdvanceFromZero DEF v1
  <2> QED BY <2>2, <2>3
<1>10. Advance(s.aux, Advance(Zero, a2, h), 1) = x2
  BY <1>1, <1>5, AdvanceFromZero DEF x2
<1>11. Advance(s.pos, Zero, 1) = s.pos
  BY <1>1, AdvanceZero
<1>12. Plus(s, k) = [time |-> s.time, pos |-> s.pos,
                     vel |-> Advance(v1, a3, half), aux |-> x2]
  BY <1>1, <1>9, <1>10, <1>11 DEF Plus
<1> QED
  BY <1>8, <1>12 DEF half, a1, v1, a2, x2, a3

(* The same without: only the velocity changes.                             *)
LEMMA KickedIndep ==
  ASSUME AccTypes, NEW s \in State, NEW h \in Int, ~velDep
  PROVE  LET t == Plus(s, KickOf(s, h))
         IN  /\ t.time = s.time /\ t.pos = s.pos /\ t.aux = s.aux
             /\ t.vel = Advance(s.vel, Acc(s.pos, Zero), h)
<1>1. /\ s.time \in Int /\ s.pos \in Vector /\ s.vel \in Vector /\ s.aux \in Vector
  BY DEF State
<1>2. KickOf(s, h) = [time |-> 0, pos |-> Zero,
                      vel |-> Advance(Zero, Acc(s.pos, Zero), h), aux |-> Zero]
  BY DEF KickOf, NoState
<1>3. Acc(s.pos, Zero) \in Vector
  BY <1>1, ZeroType DEF AccTypes
<1>4. Advance(s.vel, Advance(Zero, Acc(s.pos, Zero), h), 1)
        = Advance(s.vel, Acc(s.pos, Zero), h)
  BY <1>1, <1>3, AdvanceFromZero
<1> QED
  BY <1>1, <1>2, <1>4, AdvanceZero DEF Plus

-----------------------------------------------------------------------------
(* A kick is undone by the opposite one.  The three forces come in the      *)
(* opposite order: the first of the way back is the last of the way there,  *)
(* since the auxiliary velocity is the one it left, and so on.              *)
LEMMA KickBack ==
  ASSUME AccTypes, NEW s \in State, NEW h \in Int, h % 2 = 0
  PROVE  LET t == Plus(s, KickOf(s, h)) IN Plus(t, KickOf(t, -h)) = s
<1> DEFINE t == Plus(s, KickOf(s, h))
<1>1. /\ s.time \in Int /\ s.pos \in Vector /\ s.vel \in Vector /\ s.aux \in Vector
  BY DEF State
<1>2. CASE velDep
  <2> DEFINE half == h \div 2
             a1 == Acc(s.pos, s.aux)
             v1 == Advance(s.vel, a1, half)
             a2 == Acc(s.pos, v1)
             x2 == Advance(s.aux, a2, h)
             a3 == Acc(s.pos, x2)
             v2 == Advance(v1, a3, half)
             t2 == [time |-> s.time, pos |-> s.pos, vel |-> v2, aux |-> x2]
  <2>1. half \in Int /\ (-h) \div 2 = -half
    OBVIOUS
  <2>2. a1 \in Vector
    BY <1>1 DEF AccTypes
  <2>3. v1 \in Vector
    BY <1>1, <2>1, <2>2, AdvanceType
  <2>4. a2 \in Vector
    BY <1>1, <2>3 DEF AccTypes
  <2>5. x2 \in Vector
    BY <1>1, <2>4, AdvanceType
  <2>6. a3 \in Vector
    BY <1>1, <2>5 DEF AccTypes
  <2>7. v2 \in Vector
    BY <2>1, <2>3, <2>6, AdvanceType
  <2> HIDE DEF half, a1, v1, a2, x2, a3, v2
  <2>8. t = t2
    <3>1. t \in State
      BY KickType, PlusType
    <3>2. t.time = s.time /\ t.pos = s.pos /\ t.aux = x2 /\ t.vel = v2
      BY <1>2, KickedDep DEF half, a1, v1, a2, x2, a3, v2
    <3> HIDE DEF t
    <3>3. t = [time |-> t.time, pos |-> t.pos, vel |-> t.vel, aux |-> t.aux]
      BY <3>1 DEF State
    <3> QED BY <3>2, <3>3
  <2>9. /\ Advance(v2, a3, -half) = v1 /\ Advance(v1, a1, -half) = s.vel
        /\ Advance(x2, a2, -h) = s.aux
    BY <1>1, <2>1, <2>2, <2>3, <2>4, <2>6, AdvanceBack DEF v1, v2, x2
  <2>10. KickOf(t2, -h)
           = [time |-> 0, pos |-> Zero,
              vel |-> Advance(Advance(Zero, a3, -half), a1, -half),
              aux |-> Advance(Zero, a2, -h)]
    <3>1. Acc(s.pos, x2) = a3 /\ Acc(s.pos, v1) = a2 /\ Acc(s.pos, s.aux) = a1
      BY DEF a1, a2, a3
    <3> QED BY <1>2, <2>1, <2>9, <3>1 DEF KickOf, NoState
  <2>11. Advance(v2, Advance(Advance(Zero, a3, -half), a1, -half), 1) = s.vel
    <3>1. -half \in Int /\ Advance(Zero, a3, -half) \in Vector
      BY <2>1, <2>6, ZeroType, AdvanceType
    <3>2. Advance(v2, Advance(Advance(Zero, a3, -half), a1, -half), 1)
            = Advance(Advance(v2, Advance(Zero, a3, -half), 1), a1, -half)
      BY <2>2, <2>7, <3>1, AdvanceAssoc
    <3>3. Advance(v2, Advance(Zero, a3, -half), 1) = Advance(v2, a3, -half)
      BY <2>6, <2>7, <3>1, AdvanceFromZero
    <3> QED BY <2>9, <3>2, <3>3
  <2>12. Advance(x2, Advance(Zero, a2, -h), 1) = s.aux
    BY <2>4, <2>5, <2>9, AdvanceFromZero
  <2>13. Plus(t2, KickOf(t2, -h))
           = [time |-> s.time, pos |-> s.pos, vel |-> s.vel, aux |-> s.aux]
    BY <1>1, <2>10, <2>11, <2>12, AdvanceZero DEF Plus
  <2>14. s = [time |-> s.time, pos |-> s.pos, vel |-> s.vel, aux |-> s.aux]
    BY DEF State
  <2> QED BY <2>8, <2>13, <2>14
<1>3. CASE ~velDep
  <2> DEFINE a == Acc(s.pos, Zero)
             v2 == Advance(s.vel, a, h)
             t2 == [time |-> s.time, pos |-> s.pos, vel |-> v2, aux |-> s.aux]
  <2>1. a \in Vector
    BY <1>1, ZeroType DEF AccTypes
  <2>2. v2 \in Vector
    BY <1>1, <2>1, AdvanceType
  <2> HIDE DEF a, v2
  <2>3. t = t2
    <3>1. t \in State
      BY KickType, PlusType
    <3>2. t.time = s.time /\ t.pos = s.pos /\ t.aux = s.aux /\ t.vel = v2
      BY <1>3, KickedIndep DEF a, v2
    <3> HIDE DEF t
    <3>3. t = [time |-> t.time, pos |-> t.pos, vel |-> t.vel, aux |-> t.aux]
      BY <3>1 DEF State
    <3> QED BY <3>2, <3>3
  <2>4. KickOf(t2, -h) = [time |-> 0, pos |-> Zero, vel |-> Advance(Zero, a, -h),
                          aux |-> Zero]
    BY <1>3 DEF KickOf, NoState, a
  <2>5. Advance(v2, Advance(Zero, a, -h), 1) = s.vel
    <3>1. Advance(v2, Advance(Zero, a, -h), 1) = Advance(v2, a, -h)
      BY <2>1, <2>2, AdvanceFromZero
    <3> QED BY <1>1, <2>1, <3>1, AdvanceBack DEF v2
  <2>6. Plus(t2, KickOf(t2, -h))
          = [time |-> s.time, pos |-> s.pos, vel |-> s.vel, aux |-> s.aux]
    BY <1>1, <2>4, <2>5, AdvanceZero DEF Plus
  <2>7. s = [time |-> s.time, pos |-> s.pos, vel |-> s.vel, aux |-> s.aux]
    BY DEF State
  <2> QED BY <2>3, <2>6, <2>7
<1> QED
  BY <1>2, <1>3

-----------------------------------------------------------------------------
(* The increment is collected during attempts, which begin in the state of  *)
(* the array.                                                               *)
Attempts ==
  /\ pc \in {"written", "moving"} => collecting
  /\ pc = "written" => cart = y

IInv == TypeOK /\ Attempts /\ IncrementTracksState

LEMMA InitInv == Init => IInv
<1> SUFFICES ASSUME Init PROVE IInv
  OBVIOUS
<1>1. PICK s \in Starts : cart = [time |-> 0, pos |-> s.pos, vel |-> s.vel,
                                 aux |-> IF velDep THEN s.vel ELSE Zero]
  BY DEF Init
<1>2. s.pos \in Vector /\ s.vel \in Vector
  BY SimpleSystemAssumption
<1>3. cart \in State
  BY <1>1, <1>2, ZeroType DEF State
<1>4. TypeOK
  <2>1. velDep \in VelDeps /\ collecting \in BOOLEAN
    BY Zenon DEF Init
  <2>2. /\ cart \in State /\ increment \in State /\ y \in State
        /\ pc = "between" /\ ops \in 0..MaxOps /\ iters \in 0..MaxIters
    BY <1>3, NoStateType, SimpleSystemAssumption DEF Init
  <2> QED BY <2>1, <2>2 DEF TypeOK
<1> QED
  BY <1>4 DEF Init, IInv, Attempts, IncrementTracksState

(* A drift and a kick change state and increment by the same.               *)
LEMMA MoveInv ==
  ASSUME IInv, NEW d \in State, pc = "moving", ops < MaxOps, Move(d),
         ops' = ops + 1, UNCHANGED <<collecting, y, pc, iters, velDep>>
  PROVE  IInv'
<1> USE DEF IInv, TypeOK, Move
<1>1. collecting /\ cart = Plus(y, increment)
  BY DEF Attempts, IncrementTracksState
<1>2. cart' = Plus(cart, d) /\ increment' = Plus(increment, d)
  BY <1>1
<1>3. cart' \in State /\ increment' \in State
  BY <1>2, PlusType
<1>4. cart' = Plus(y', increment')
  BY <1>1, <1>2, PlusAssoc
<1>5. TypeOK'
  BY <1>3, SimpleSystemAssumption
<1> QED
  BY <1>4, <1>5 DEF Attempts, IncrementTracksState

LEMMA NextInv == ASSUME AccTypes PROVE IInv /\ [Next]_vars => IInv'
<1> SUFFICES ASSUME IInv, [Next]_vars PROVE IInv'
  OBVIOUS
<1>1. CASE PreIter
  <2>1. cart' \in State
    BY <1>1 DEF PreIter, IInv, TypeOK, State
  <2> QED BY <1>1, <2>1, SimpleSystemAssumption
          DEF PreIter, IInv, TypeOK, Attempts, IncrementTracksState
<1>2. CASE Write
  BY <1>2 DEF Write, IInv, TypeOK, Attempts, IncrementTracksState
<1>3. CASE ClearIncrement
  <2>1. cart' = Plus(y', increment')
    BY <1>3, PlusNothing DEF ClearIncrement, IInv, TypeOK, Attempts
  <2> QED BY <1>3, <2>1, NoStateType, SimpleSystemAssumption
          DEF ClearIncrement, IInv, TypeOK, Attempts, IncrementTracksState
<1>4. ASSUME NEW h \in Steps, Drift(h) PROVE IInv'
  <2>1. DriftOf(cart, h) \in State
    BY DriftType, SimpleSystemAssumption DEF IInv, TypeOK
  <2> QED BY <1>4, <2>1, MoveInv DEF Drift
<1>5. ASSUME NEW h \in Steps, Kick(h) PROVE IInv'
  <2>1. KickOf(cart, h) \in State
    BY KickType, SimpleSystemAssumption DEF IInv, TypeOK
  <2> QED BY <1>5, <2>1, MoveInv DEF Kick
<1>6. CASE ReadBack
  BY <1>6 DEF ReadBack, IInv, TypeOK, Attempts, IncrementTracksState
<1>7. CASE Accept
  <2>1. y' \in State /\ cart' \in State
    BY <1>7, PlusType DEF Accept, IInv, TypeOK
  <2> QED BY <1>7, <2>1
          DEF Accept, IInv, TypeOK, Attempts, IncrementTracksState
<1>8. CASE PostIter \/ UNCHANGED vars
  BY <1>8 DEF PostIter, vars, IInv, TypeOK, Attempts, IncrementTracksState
<1> QED
  BY <1>1, <1>2, <1>3, <1>4, <1>5, <1>6, <1>7, <1>8 DEF Next

LEMMA Invariance == ASSUME AccTypes PROVE Spec => []IInv
BY InitInv, NextInv, PTL DEF Spec

-----------------------------------------------------------------------------
(* The variables keep their types.                                          *)
THEOREM SimpleSystemTypes == ASSUME AccTypes PROVE Spec => []TypeOK
BY Invariance, PTL DEF IInv

(* The increment that an attempt collected is what it did to the state it   *)
(* began with, for attempts of any length and any forces.                   *)
THEOREM SimpleSystemIncrement ==
  ASSUME AccTypes PROVE Spec => []IncrementTracksState
BY Invariance, PTL DEF IInv

(* Kicks are reversible, whatever the forces depend on.                     *)
THEOREM SimpleSystemKick == ASSUME AccTypes PROVE Spec => []KickReversible
<1>1. TypeOK => KickReversible
  BY KickBack, SimpleSystemAssumption DEF TypeOK, KickReversible
<1> QED
  BY <1>1, SimpleSystemTypes, PTL

-----------------------------------------------------------------------------
(* RegularizedSystem.  Energies and the times of a step are integers.       *)
EnergyTypes ==
  /\ \A v \in Vector : Newtonian(v) \in Vector /\ Kinetic(v) \in Int /\ Potential(v) \in Int
  /\ \A v, a \in Vector : Contract(v, a) \in Int
  /\ \A sc \in Int : Slow(sc) \in Int

Regu == [omega : Int, bindE : Int]

LEMMA ReguPlusType ==
  ASSUME NEW r \in Regu, NEW d \in Regu
  PROVE  ReguPlus(r, d) \in Regu
BY DEF ReguPlus, Regu

LEMMA ReguPlusNothing ==
  ASSUME NEW r \in Regu
  PROVE  ReguPlus(r, NoRegu) = r
BY DEF ReguPlus, NoRegu, Regu

LEMMA ReguPlusAssoc ==
  ASSUME NEW r \in Regu, NEW d \in Regu, NEW e \in Regu
  PROVE  ReguPlus(ReguPlus(r, d), e) = ReguPlus(r, ReguPlus(d, e))
BY DEF ReguPlus, Regu

LEMMA TimesType ==
  ASSUME NEW r \in Regu, NEW t \in Int
  PROVE  Times(r, t) \in Regu
<1>1. r.omega \in Int /\ r.bindE \in Int
  BY DEF Regu
<1>2. r.omega * t \in Int /\ r.bindE * t \in Int
  BY <1>1
<1> QED
  BY <1>2 DEF Times, Regu

LEMMA ReguRateType ==
  ASSUME AccTypes, EnergyTypes, NEW s \in State, NEW v \in Vector, NEW a \in Vector
  PROVE  ReguRate(s, v, a) \in Regu
<1>1. s.pos \in Vector
  BY DEF State
<1>2. Newtonian(s.pos) \in Vector /\ Acc(s.pos, a) \in Vector
  BY <1>1 DEF AccTypes, EnergyTypes
<1>3. External(s.pos, a) \in Vector
  BY <1>2, AdvanceType DEF External
<1>4. Contract(v, Newtonian(s.pos)) \in Int /\ -Contract(v, External(s.pos, a)) \in Int
  BY <1>2, <1>3 DEF EnergyTypes
<1> QED
  BY <1>4 DEF ReguRate, OmegaRate, BindERate, Regu

LEMMA ReguKickType ==
  ASSUME AccTypes, EnergyTypes, NEW s \in State, NEW t \in Int
  PROVE  ReguKickOf(s, t) \in Regu
<1>1. t \div 2 \in Int
  OBVIOUS
<1>2. s.pos \in Vector /\ s.vel \in Vector /\ s.aux \in Vector
  BY DEF State
<1>3. CASE velDep
  <2>1. Advance(s.vel, Acc(s.pos, s.aux), t \div 2) \in Vector
    BY <1>1, <1>2, AdvanceType DEF AccTypes
  <2> QED BY <1>3, <2>1, ReguRateType, TimesType DEF ReguKickOf
<1>4. CASE ~velDep
  <2>1. Advance(s.vel, Acc(s.pos, Zero), t) \in Vector
    BY <1>2, ZeroType, AdvanceType DEF AccTypes
  <2>2. /\ ReguRate(s, s.vel, Zero) \in Regu
        /\ ReguRate(s, Advance(s.vel, Acc(s.pos, Zero), t), Zero) \in Regu
    BY <1>2, <2>1, ZeroType, ReguRateType
  <2>3. /\ Times(ReguRate(s, s.vel, Zero), t \div 2) \in Regu
        /\ Times(ReguRate(s, Advance(s.vel, Acc(s.pos, Zero), t), Zero), t \div 2) \in Regu
    BY <1>1, <2>2, TimesType
  <2> QED BY <1>4, <2>3, ReguPlusType DEF ReguKickOf
<1> QED
  BY <1>3, <1>4

(* The physical time of a step is an integer, odd in the step, and even for *)
(* an even step.                                                            *)
LEMMA PhyTimeType ==
  ASSUME EnergyTypes, NEW h \in Int, NEW sc \in Int
  PROVE  /\ PhyTime(h, sc) \in Int
         /\ PhyTime(-h, sc) = -PhyTime(h, sc)
         /\ h % 2 = 0 => PhyTime(h, sc) % 2 = 0
<1>1. Slow(sc) \in Int
  BY DEF EnergyTypes
<1>2. h * Slow(sc) \in Int /\ (-h) * Slow(sc) = -(h * Slow(sc))
  BY <1>1
<1>3. ASSUME h % 2 = 0 PROVE (h * Slow(sc)) % 2 = 0
  <2>1. PICK n \in Int : h = 2 * n
    <3>1. h = 2 * (h \div 2) /\ h \div 2 \in Int
      BY <1>3
    <3> QED BY <3>1
  <2>2. h * Slow(sc) = 2 * (n * Slow(sc)) /\ n * Slow(sc) \in Int
    BY <1>1, <2>1
  <2>3. \A m \in Int : (2 * m) % 2 = 0
    OBVIOUS
  <2> QED BY <2>2, <2>3
<1> QED
  BY <1>2, <1>3 DEF PhyTime

LEMMA ScaleTypes ==
  ASSUME EnergyTypes, NEW s \in State, NEW r \in Regu, scale \in Int
  PROVE  PosScale(s, r) \in Int /\ VelScale(s) \in Int
<1>1. r.omega \in Int /\ r.bindE \in Int /\ s.pos \in Vector /\ s.vel \in Vector
  BY DEF Regu, State
<1>2. Kinetic(s.vel) \in Int /\ Potential(s.pos) \in Int
  BY <1>1 DEF EnergyTypes
<1> QED
  BY <1>1, <1>2 DEF PosScale, VelScale

LEMMA TimeTypes ==
  ASSUME EnergyTypes, NEW s \in State, NEW r \in Regu, scale \in Int, NEW h \in Int
  PROVE  PosTime(s, r, h) \in Int /\ VelTime(s, h) \in Int
BY ScaleTypes, PhyTimeType DEF PosTime, VelTime

-----------------------------------------------------------------------------
(* The invariant of SimpleSystem and the same for the regularization.       *)
ReguTypeOK ==
  /\ TypeOK
  /\ regType \in ReguTypes
  /\ regu \in Regu /\ reguInc \in Regu /\ yRegu \in Regu
  /\ scale \in Int

ReguIInv ==
  /\ IInv
  /\ ReguTypeOK
  /\ pc = "written" => regu = yRegu
  /\ pc = "moving" => regu = ReguPlus(yRegu, reguInc)

LEMMA ReguInitInv == ASSUME EnergyTypes PROVE ReguInit => ReguIInv
<1> SUFFICES ASSUME ReguInit PROVE ReguIInv
  OBVIOUS
<1>1. IInv /\ pc = "between"
  BY InitInv DEF ReguInit, Init
<1>2. cart.pos \in Vector /\ cart.vel \in Vector
  BY <1>1 DEF IInv, TypeOK, State
<1>3. Potential(cart.pos) \in Int /\ Kinetic(cart.vel) \in Int
  BY <1>2 DEF EnergyTypes
<1>4. regu \in Regu /\ reguInc \in Regu /\ yRegu \in Regu
  BY <1>3 DEF ReguInit, Regu, NoRegu
<1>5. scale \in Int
  BY <1>4 DEF ReguInit, Regu
<1>6. regType \in ReguTypes
  BY DEF ReguInit
<1> QED
  BY <1>1, <1>4, <1>5, <1>6 DEF ReguIInv, ReguTypeOK, IInv

LEMMA ReguNextInv ==
  ASSUME AccTypes, EnergyTypes
  PROVE  ReguIInv /\ [ReguNext]_<<vars, reguVars>> => ReguIInv'
<1> SUFFICES ASSUME ReguIInv, [ReguNext]_<<vars, reguVars>> PROVE ReguIInv'
  OBVIOUS
<1>1. ASSUME [Next]_vars PROVE IInv'
  BY <1>1, NextInv DEF ReguIInv
<1>2. CASE ReguPreIter
  <2>1. IInv'
    BY <1>1, <1>2 DEF ReguPreIter, Next
  <2> QED BY <1>2, <2>1 DEF ReguPreIter, PreIter, reguVars, ReguIInv, ReguTypeOK, IInv
<1>3. CASE ReguWrite
  <2>1. IInv'
    BY <1>1, <1>3 DEF ReguWrite, Next
  <2> QED BY <1>3, <2>1 DEF ReguWrite, Write, ReguIInv, ReguTypeOK, IInv
<1>4. CASE ReguClear
  <2>1. IInv'
    BY <1>1, <1>4 DEF ReguClear, Next
  <2>2. NoRegu \in Regu
    BY DEF NoRegu, Regu
  <2> QED BY <1>4, <2>1, <2>2, ReguPlusNothing
          DEF ReguClear, ClearIncrement, ReguIInv, ReguTypeOK, IInv
<1>5. ASSUME NEW h \in Steps, ReguDrift(h) PROVE ReguIInv'
  <2>1. cart \in State /\ h \in Int
    BY SimpleSystemAssumption DEF ReguIInv, ReguTypeOK, TypeOK
  <2>2. PosTime(cart, regu, h) \in Int /\ PosScale(cart, regu) \in Int
    BY <2>1, TimeTypes, ScaleTypes DEF ReguIInv, ReguTypeOK
  <2>3. IInv'
    BY <1>5, <2>1, <2>2, DriftType, MoveInv DEF ReguDrift, Drift, ReguIInv
  <2>4. /\ pc = "moving" /\ pc' = "moving" /\ scale' \in Int
        /\ UNCHANGED <<regType, regu, reguInc, yRegu>>
    BY <1>5, <2>2 DEF ReguDrift, Drift
  <2> QED BY <2>3, <2>4 DEF ReguIInv, ReguTypeOK, IInv
<1>6. ASSUME NEW h \in Steps, ReguKick(h) PROVE ReguIInv'
  <2> DEFINE t == VelTime(cart, h)
             d == ReguKickOf(cart, t)
  <2>1. cart \in State /\ h \in Int
    BY SimpleSystemAssumption DEF ReguIInv, ReguTypeOK, TypeOK
  <2>2. t \in Int /\ VelScale(cart) \in Int
    BY <2>1, TimeTypes, ScaleTypes DEF ReguIInv, ReguTypeOK
  <2>3. d \in Regu
    BY <2>1, <2>2, ReguKickType
  <2>4. /\ pc = "moving" /\ pc' = "moving" /\ collecting
        /\ regu' = ReguPlus(regu, d) /\ reguInc' = ReguPlus(reguInc, d)
        /\ scale' = VelScale(cart) /\ UNCHANGED <<regType, yRegu>>
    BY <1>6 DEF ReguKick, Kick, ReguMove, ReguIInv, IInv, Attempts
  <2>5. IInv'
    <3> HIDE DEF t
    <3>1. Kick(t)
      BY <1>6 DEF ReguKick, t
    <3>2. KickOf(cart, t) \in State
      BY <2>1, <2>2, KickType
    <3> QED BY <3>1, <3>2, MoveInv DEF Kick, ReguIInv
  <2> HIDE DEF d
  <2>6. regu' \in Regu /\ reguInc' \in Regu
    BY <2>3, <2>4, ReguPlusType DEF ReguIInv, ReguTypeOK
  <2>7. regu' = ReguPlus(yRegu', reguInc')
    BY <2>3, <2>4, ReguPlusAssoc DEF ReguIInv, ReguTypeOK
  <2> QED BY <2>2, <2>4, <2>5, <2>6, <2>7 DEF ReguIInv, ReguTypeOK, IInv
<1>7. CASE ReguReadBack
  <2>1. IInv'
    BY <1>1, <1>7 DEF ReguReadBack, Next
  <2> QED BY <1>7, <2>1 DEF ReguReadBack, ReadBack, ReguIInv, ReguTypeOK, IInv
<1>8. CASE ReguAccept
  <2>1. IInv'
    BY <1>1, <1>8 DEF ReguAccept, Next
  <2>2. yRegu' \in Regu /\ regu' \in Regu
    BY <1>8, ReguPlusType DEF ReguAccept, ReguIInv, ReguTypeOK
  <2> QED BY <1>8, <2>1, <2>2 DEF ReguAccept, Accept, ReguIInv, ReguTypeOK, IInv
<1>9. CASE ReguPostIter
  <2>1. IInv'
    BY <1>1, <1>9 DEF ReguPostIter, Next
  <2> QED BY <1>9, <2>1 DEF ReguPostIter, PostIter, reguVars, ReguIInv, ReguTypeOK, IInv
<1>10. CASE UNCHANGED <<vars, reguVars>>
  <2>1. IInv'
    BY <1>1, <1>10
  <2> QED BY <1>10, <2>1 DEF vars, reguVars, ReguIInv, ReguTypeOK, IInv
<1> QED
  BY <1>2, <1>3, <1>4, <1>5, <1>6, <1>7, <1>8, <1>9, <1>10 DEF ReguNext

LEMMA ReguInvariance ==
  ASSUME AccTypes, EnergyTypes PROVE ReguSpec => []ReguIInv
BY ReguInitInv, ReguNextInv, PTL DEF ReguSpec

(* The increment is what the attempt did to coordinates, omega and bindE,   *)
(* for any regularization, energies and forces.                             *)
THEOREM ReguSystemTracks ==
  ASSUME AccTypes, EnergyTypes PROVE ReguSpec => []ReguTracksState
<1>1. ReguIInv => ReguTracksState
  BY DEF ReguIInv, IInv, IncrementTracksState, ReguTracksState
<1> QED
  BY <1>1, ReguInvariance, PTL

-----------------------------------------------------------------------------
(* A drift leaves what its physical time depends on, and is undone by the   *)
(* opposite one.                                                            *)
LEMMA DriftBack ==
  ASSUME EnergyTypes, NEW s \in State, NEW r \in Regu, scale \in Int, NEW h \in Int
  PROVE  LET t == Plus(s, DriftOf(s, PosTime(s, r, h)))
         IN  Plus(t, DriftOf(t, PosTime(t, r, -h))) = s
<1> DEFINE k == PosTime(s, r, h)
           p2 == Advance(s.pos, s.vel, k)
           t2 == [time |-> s.time + k, pos |-> p2, vel |-> s.vel, aux |-> s.aux]
<1>1. s.time \in Int /\ s.pos \in Vector /\ s.vel \in Vector /\ s.aux \in Vector
  BY DEF State
<1>2. k \in Int /\ -k \in Int
  BY TimeTypes
<1>3. PosTime(t2, r, -h) = -k
  <2>1. PosScale(t2, r) = PosScale(s, r)
    BY DEF PosScale
  <2> QED BY <2>1, ScaleTypes, PhyTimeType DEF PosTime
<1> HIDE DEF k
<1>4. p2 \in Vector
  BY <1>1, <1>2, AdvanceType
<1>5. /\ Advance(s.pos, Advance(Zero, s.vel, k), 1) = p2
      /\ Advance(p2, Advance(Zero, s.vel, -k), 1) = s.pos
  BY <1>1, <1>2, <1>4, AdvanceFromZero, AdvanceBack
<1> HIDE DEF p2
<1>6. Plus(s, DriftOf(s, k)) = t2
  BY <1>1, <1>5, AdvanceZero DEF Plus, DriftOf, NoState
<1>7. Plus(t2, DriftOf(t2, -k))
        = [time |-> s.time, pos |-> s.pos, vel |-> s.vel, aux |-> s.aux]
  BY <1>1, <1>2, <1>5, AdvanceZero DEF Plus, DriftOf, NoState
<1>8. s = [time |-> s.time, pos |-> s.pos, vel |-> s.vel, aux |-> s.aux]
  BY DEF State
<1> QED
  BY <1>3, <1>6, <1>7, <1>8 DEF k

(* A kick leaves what its physical time depends on, and the opposite kick   *)
(* sees the same velocities in the opposite order.                          *)
LEMMA ReguKickBack ==
  ASSUME AccTypes, EnergyTypes, NEW s \in State, NEW r \in Regu, scale \in Int,
         NEW h \in Int, h % 2 = 0
  PROVE  LET k == VelTime(s, h)
             v == Plus(s, KickOf(s, k))
         IN  /\ Plus(v, KickOf(v, VelTime(v, -h))) = s
             /\ ReguPlus(ReguPlus(r, ReguKickOf(s, k)), ReguKickOf(v, VelTime(v, -h))) = r
<1> DEFINE k == VelTime(s, h)
           v == Plus(s, KickOf(s, k))
           half == k \div 2
<1>1. s.time \in Int /\ s.pos \in Vector /\ s.vel \in Vector /\ s.aux \in Vector
  BY DEF State
<1>2. k \in Int /\ k % 2 = 0
  BY ScaleTypes, PhyTimeType DEF VelTime
<1>3. v.pos = s.pos
  <2> HIDE DEF k
  <2> QED BY <1>2, KickedDep, KickedIndep
<1>4. VelTime(v, -h) = -k
  <2> HIDE DEF v
  <2>1. VelScale(v) = VelScale(s)
    BY <1>3 DEF VelScale
  <2> QED BY <2>1, ScaleTypes, PhyTimeType DEF VelTime
<1> HIDE DEF k
<1>5. Plus(v, KickOf(v, -k)) = s
  BY <1>2, KickBack
<1>6. half \in Int /\ (-k) \div 2 = -half
  BY <1>2
<1> HIDE DEF half
<1>7. ASSUME NEW q \in Regu PROVE Times(q, -k) = Times(Times(q, k), -1)
                               /\ Times(q, -half) = Times(Times(q, half), -1)
  <2>1. q.omega \in Int /\ q.bindE \in Int
    BY DEF Regu
  <2>2. \A x, z \in Int : x * (-z) = (x * z) * (-1)
    OBVIOUS
  <2> QED BY <1>2, <1>6, <2>1, <2>2, Zenon DEF Times
<1>8. ReguKickOf(s, k) \in Regu
  BY <1>2, ReguKickType
<1>9. ReguKickOf(v, -k) = Times(ReguKickOf(s, k), -1)
  <2>1. CASE velDep
    <3> DEFINE mid == Advance(s.vel, Acc(s.pos, s.aux), half)
               a3 == Acc(s.pos, v.aux)
    <3>1. mid \in Vector
      BY <1>1, <1>6, AdvanceType DEF AccTypes
    <3>2. v.vel = Advance(mid, a3, half)
      BY <1>2, <2>1, KickedDep DEF half
    <3>3. v \in State
      BY <1>2, KickType, PlusType
    <3> HIDE DEF v
    <3>4. v.aux \in Vector
      BY <3>3 DEF State
    <3>5. a3 \in Vector
      BY <1>1, <3>4 DEF AccTypes
    <3>6. Advance(v.vel, Acc(v.pos, v.aux), -half) = mid
      BY <1>3, <1>6, <3>1, <3>2, <3>5, AdvanceBack
    <3> HIDE DEF mid
    <3>7. ReguKickOf(v, -k) = Times(ReguRate(v, mid, mid), -k)
      BY <1>6, <2>1, <3>6 DEF ReguKickOf
    <3>8. ReguRate(v, mid, mid) = ReguRate(s, mid, mid)
      BY <1>3 DEF ReguRate
    <3>9. ReguRate(s, mid, mid) \in Regu
      BY <3>1, ReguRateType
    <3>10. ReguKickOf(s, k) = Times(ReguRate(s, mid, mid), k)
      BY <2>1 DEF ReguKickOf, mid, half
    <3> QED BY <1>7, <3>7, <3>8, <3>9, <3>10
  <2>2. CASE ~velDep
    <3> DEFINE a == Acc(s.pos, Zero)
               p == ReguRate(s, s.vel, Zero)
               q == ReguRate(s, v.vel, Zero)
    <3>1. a \in Vector
      BY <1>1, ZeroType DEF AccTypes
    <3>2. v.vel = Advance(s.vel, a, k)
      BY <1>2, <2>2, KickedIndep
    <3> HIDE DEF v
    <3>3. v.vel \in Vector
      BY <1>1, <1>2, <3>1, <3>2, AdvanceType
    <3>4. Advance(v.vel, Acc(v.pos, Zero), -k) = s.vel
      BY <1>1, <1>2, <1>3, <3>1, <3>2, AdvanceBack
    <3>5. p \in Regu /\ q \in Regu
      BY <1>1, <3>3, ZeroType, ReguRateType
    <3>6. ReguRate(v, v.vel, Zero) = q /\ ReguRate(v, s.vel, Zero) = p
      BY <1>3 DEF ReguRate
    <3> HIDE DEF p, q
    <3>7. ReguKickOf(v, -k) = ReguPlus(Times(q, -half), Times(p, -half))
      BY <1>6, <2>2, <3>4, <3>6 DEF ReguKickOf
    <3>8. ReguKickOf(s, k) = ReguPlus(Times(p, half), Times(q, half))
      BY <2>2, <3>2 DEF ReguKickOf, p, q, half
    <3>9. Times(p, half) \in Regu /\ Times(q, half) \in Regu
      BY <1>6, <3>5, TimesType
    <3>10. \A x, z \in Regu : ReguPlus(Times(x, -1), Times(z, -1)) = Times(ReguPlus(z, x), -1)
      BY DEF ReguPlus, Times, Regu
    <3> QED BY <1>7, <3>5, <3>7, <3>8, <3>9, <3>10
  <2> QED BY <2>1, <2>2
<1>10. ASSUME NEW q \in Regu PROVE ReguPlus(ReguPlus(r, q), Times(q, -1)) = r
  BY DEF ReguPlus, Times, Regu
<1>11. ReguPlus(ReguPlus(r, ReguKickOf(s, k)), ReguKickOf(v, -k)) = r
  BY <1>8, <1>9, <1>10
<1> QED
  BY <1>4, <1>5, <1>11 DEF k

(* Steps of the regularized system are reversible, although their physical  *)
(* times depend on the state.                                               *)
THEOREM ReguSystemReversible ==
  ASSUME AccTypes, EnergyTypes PROVE ReguSpec => []StepReversible
<1>1. ReguTypeOK => StepReversible
  BY DriftBack, ReguKickBack, SimpleSystemAssumption
     DEF ReguTypeOK, TypeOK, StepReversible
<1>2. ReguIInv => ReguTypeOK
  BY DEF ReguIInv
<1> QED
  BY <1>1, <1>2, ReguInvariance, PTL

-----------------------------------------------------------------------------
(* Two sequences one after the other.                                       *)
LEMMA Joined ==
  ASSUME NEW s \in Seq(Int), NEW t \in Seq(Int)
  PROVE  /\ s \o t \in Seq(Int)
         /\ Len(s \o t) = Len(s) + Len(t)
         /\ \A k \in 1..Len(s) : (s \o t)[k] = s[k]
         /\ \A k \in 1..Len(t) : (s \o t)[Len(s) + k] = t[k]
OBVIOUS

(* The coordinates of a vector, three of a kind.                            *)
LEMMA CoordsAre ==
  ASSUME NEW v \in Vector
  PROVE  /\ Coords(v) \in Seq(Int) /\ Len(Coords(v)) = 3 * N
         /\ \A i \in Particles : 3 * i + 1 \in 1..(3 * N) /\ Coords(v)[3 * i + 1] = v[i]
<1>1. N \in Nat
  BY SimpleSystemAssumption
<1>2. 3 * N \in Nat
  BY <1>1
<1>3. ASSUME NEW k \in 1..(3 * N) PROVE v[(k - 1) \div 3] \in Int
  <2>1. (k - 1) \div 3 \in Particles
    BY <1>1 DEF Particles
  <2> QED BY <2>1 DEF Vector
<1>4. Coords(v) \in [1..(3 * N) -> Int]
  BY <1>3 DEF Coords
<1>5. Coords(v) \in Seq(Int) /\ Len(Coords(v)) = 3 * N
  BY <1>2, <1>4
<1>6. ASSUME NEW i \in Particles
      PROVE  3 * i + 1 \in 1..(3 * N) /\ Coords(v)[3 * i + 1] = v[i]
  <2>1. i \in Int /\ 0 <= i /\ i <= N - 1
    BY <1>1 DEF Particles
  <2>2. 3 * i + 1 \in 1..(3 * N) /\ ((3 * i + 1) - 1) \div 3 = i
    BY <1>1, <2>1
  <2> QED BY <2>2 DEF Coords
<1> QED
  BY <1>5, <1>6

(* Where the parts of the array are.                                        *)
LEMMA ArrayParts ==
  ASSUME NEW s \in State, NEW r \in Regu, velDep \in BOOLEAN
  PROVE  LET a == ScalarArray(s, r)
         IN  /\ Len(a) = VariableNumber
             /\ a[1] = s.time
             /\ \A i \in Particles :
                  /\ a[PosOffset + 3 * i + 1] = s.pos[i]
                  /\ a[VelOffset + 3 * i + 1] = s.vel[i]
                  /\ velDep => a[AuxOffset + 3 * i + 1] = s.aux[i]
             /\ a[OmegaOffset + 1] = r.omega /\ a[BindEOffset + 1] = r.bindE
<1> DEFINE p == Coords(s.pos)
           v == Coords(s.vel)
           x == IF velDep THEN Coords(s.aux) ELSE <<>>
           e == <<r.omega, r.bindE>>
           A1 == <<s.time>> \o p
           A2 == A1 \o v
           A3 == A2 \o x
           a == A3 \o e
           lx == IF velDep THEN 3 * N ELSE 0
<1>1. N \in Nat
  BY SimpleSystemAssumption
<1>2. /\ s.time \in Int /\ s.pos \in Vector /\ s.vel \in Vector /\ s.aux \in Vector
      /\ r.omega \in Int /\ r.bindE \in Int
  BY DEF State, Regu
<1>3. /\ p \in Seq(Int) /\ Len(p) = 3 * N
      /\ \A i \in Particles : 3 * i + 1 \in 1..(3 * N) /\ p[3 * i + 1] = s.pos[i]
  BY <1>2, CoordsAre
<1>4. /\ v \in Seq(Int) /\ Len(v) = 3 * N
      /\ \A i \in Particles : 3 * i + 1 \in 1..(3 * N) /\ v[3 * i + 1] = s.vel[i]
  BY <1>2, CoordsAre
<1>5. /\ x \in Seq(Int) /\ Len(x) = lx
      /\ velDep => \A i \in Particles : 3 * i + 1 \in 1..(3 * N) /\ x[3 * i + 1] = s.aux[i]
  <2>1. CASE velDep
    BY <1>2, <2>1, CoordsAre
  <2>2. CASE ~velDep
    BY <2>2
  <2> QED BY <2>1, <2>2
<1>6. e \in Seq(Int) /\ Len(e) = 2 /\ e[1] = r.omega /\ e[2] = r.bindE
  BY <1>2
<1>7. <<s.time>> \in Seq(Int) /\ Len(<<s.time>>) = 1 /\ <<s.time>>[1] = s.time
  BY <1>2
<1> DEFINE t == <<s.time>>
<1>8. /\ ScalarArray(s, r) = a
      /\ VariableNumber = 6 * N + lx + 3
      /\ PosOffset = 1 /\ VelOffset = 3 * N + 1 /\ AuxOffset = 6 * N + 1
      /\ OmegaOffset = 6 * N + lx + 1 /\ BindEOffset = 6 * N + lx + 2
  BY <1>1 DEF ScalarArray, VariableNumber, PosOffset, VelOffset, AuxOffset,
              OmegaOffset, BindEOffset
<1>9. lx \in Nat
  BY <1>1
<1> HIDE DEF p, v, x, e, t, lx
<1>10. /\ A1 \in Seq(Int) /\ Len(A1) = 3 * N + 1 /\ A1[1] = s.time
       /\ \A i \in Particles : 3 * i + 2 \in 1..Len(A1) /\ A1[3 * i + 2] = s.pos[i]
  <2>1. /\ A1 \in Seq(Int) /\ Len(A1) = 1 + 3 * N
        /\ \A k \in 1..1 : A1[k] = t[k]
        /\ \A k \in 1..(3 * N) : A1[1 + k] = p[k]
    BY <1>3, <1>7, Joined DEF t
  <2>2. A1[1] = s.time
    BY <1>7, <2>1 DEF t
  <2>3. ASSUME NEW i \in Particles
        PROVE  3 * i + 2 \in 1..Len(A1) /\ A1[3 * i + 2] = s.pos[i]
    <3>1. 3 * i + 1 \in 1..(3 * N) /\ A1[1 + (3 * i + 1)] = s.pos[i]
      BY <1>3, <2>1
    <3>2. i \in Int /\ 1 + (3 * i + 1) = 3 * i + 2
      BY DEF Particles
    <3> QED BY <1>1, <2>1, <3>1, <3>2
  <2> QED BY <1>1, <2>1, <2>2, <2>3
<1> HIDE DEF A1
<1>11. /\ A2 \in Seq(Int) /\ Len(A2) = 6 * N + 1 /\ A2[1] = s.time
       /\ \A i \in Particles :
            /\ 3 * i + 2 \in 1..Len(A2) /\ A2[3 * i + 2] = s.pos[i]
            /\ 3 * N + 3 * i + 2 \in 1..Len(A2) /\ A2[3 * N + 3 * i + 2] = s.vel[i]
  <2>1. /\ A2 \in Seq(Int) /\ Len(A2) = Len(A1) + 3 * N
        /\ \A k \in 1..Len(A1) : A2[k] = A1[k]
        /\ \A k \in 1..(3 * N) : A2[Len(A1) + k] = v[k]
    <3>1. /\ A2 \in Seq(Int) /\ Len(A2) = Len(A1) + Len(v)
          /\ \A k \in 1..Len(A1) : A2[k] = A1[k]
          /\ \A k \in 1..Len(v) : A2[Len(A1) + k] = v[k]
      BY <1>4, <1>10, Joined, Zenon
    <3> QED BY <1>4, <3>1
  <2> HIDE DEF A2
  <2>2. ASSUME NEW i \in Particles
        PROVE  /\ 3 * i + 2 \in 1..Len(A2) /\ A2[3 * i + 2] = s.pos[i]
               /\ 3 * N + 3 * i + 2 \in 1..Len(A2) /\ A2[3 * N + 3 * i + 2] = s.vel[i]
    <3>1. 3 * i + 1 \in 1..(3 * N) /\ A2[Len(A1) + (3 * i + 1)] = s.vel[i]
      BY <1>4, <2>1
    <3>2. i \in Int /\ Len(A1) + (3 * i + 1) = 3 * N + 3 * i + 2
      BY <1>1, <1>10 DEF Particles
    <3>3. 3 * i + 2 \in 1..Len(A1) /\ A2[3 * i + 2] = s.pos[i]
      BY <1>10, <2>1
    <3> QED BY <1>1, <1>10, <2>1, <3>1, <3>2, <3>3
  <2>3. A2[1] = s.time
    BY <1>1, <1>10, <2>1
  <2> QED BY <1>1, <1>10, <2>1, <2>2, <2>3
<1> HIDE DEF A2
<1>12. /\ A3 \in Seq(Int) /\ Len(A3) = 6 * N + lx + 1 /\ A3[1] = s.time
       /\ \A i \in Particles :
            /\ 3 * i + 2 \in 1..Len(A3) /\ A3[3 * i + 2] = s.pos[i]
            /\ 3 * N + 3 * i + 2 \in 1..Len(A3) /\ A3[3 * N + 3 * i + 2] = s.vel[i]
            /\ velDep => /\ 6 * N + 3 * i + 2 \in 1..Len(A3)
                         /\ A3[6 * N + 3 * i + 2] = s.aux[i]
  <2>1. /\ A3 \in Seq(Int) /\ Len(A3) = Len(A2) + lx
        /\ \A k \in 1..Len(A2) : A3[k] = A2[k]
        /\ \A k \in 1..lx : A3[Len(A2) + k] = x[k]
    <3>1. /\ A3 \in Seq(Int) /\ Len(A3) = Len(A2) + Len(x)
          /\ \A k \in 1..Len(A2) : A3[k] = A2[k]
          /\ \A k \in 1..Len(x) : A3[Len(A2) + k] = x[k]
      BY <1>5, <1>11, Joined, Zenon
    <3> QED BY <1>5, <3>1
  <2> HIDE DEF A3
  <2>2. ASSUME NEW i \in Particles, velDep
        PROVE  /\ 6 * N + 3 * i + 2 \in 1..Len(A3)
               /\ A3[6 * N + 3 * i + 2] = s.aux[i]
    <3>1. lx = 3 * N
      BY <2>2 DEF lx
    <3>2. 3 * i + 1 \in 1..(3 * N) /\ A3[Len(A2) + (3 * i + 1)] = s.aux[i]
      BY <1>5, <2>1, <2>2, <3>1
    <3>3. i \in Int /\ Len(A2) + (3 * i + 1) = 6 * N + 3 * i + 2
      BY <1>1, <1>11 DEF Particles
    <3> QED BY <1>1, <1>11, <2>1, <3>1, <3>2, <3>3
  <2>3. ASSUME NEW k \in 1..Len(A2) PROVE k \in 1..Len(A3)
    BY <1>9, <1>11, <2>1
  <2> QED BY <1>1, <1>9, <1>11, <2>1, <2>2, <2>3, SMTT(30)
<1> HIDE DEF A3
<1>13. /\ Len(a) = 6 * N + lx + 3
       /\ \A k \in 1..Len(A3) : a[k] = A3[k]
       /\ a[6 * N + lx + 2] = r.omega /\ a[6 * N + lx + 3] = r.bindE
  <2>1. /\ Len(a) = Len(A3) + 2
        /\ \A k \in 1..Len(A3) : a[k] = A3[k]
        /\ \A k \in 1..2 : a[Len(A3) + k] = e[k]
    <3>1. /\ Len(a) = Len(A3) + Len(e)
          /\ \A k \in 1..Len(A3) : a[k] = A3[k]
          /\ \A k \in 1..Len(e) : a[Len(A3) + k] = e[k]
      BY <1>6, <1>12, Joined, Zenon
    <3> QED BY <1>6, <3>1
  <2>2. Len(A3) + 1 = 6 * N + lx + 2 /\ Len(A3) + 2 = 6 * N + lx + 3
    BY <1>1, <1>9, <1>12
  <2> QED BY <1>6, <2>1, <2>2
<1> HIDE DEF a
<1>14. a[1] = s.time
  <2>1. 1 \in 1..Len(A3)
    BY <1>1, <1>9, <1>12
  <2> QED BY <1>12, <1>13, <2>1
<1>15. ASSUME NEW i \in Particles
       PROVE  /\ a[1 + 3 * i + 1] = s.pos[i]
              /\ a[3 * N + 1 + 3 * i + 1] = s.vel[i]
              /\ velDep => a[6 * N + 1 + 3 * i + 1] = s.aux[i]
  <2>1. i \in Int
    BY DEF Particles
  <2>2. /\ 1 + 3 * i + 1 = 3 * i + 2 /\ 3 * N + 1 + 3 * i + 1 = 3 * N + 3 * i + 2
        /\ 6 * N + 1 + 3 * i + 1 = 6 * N + 3 * i + 2
    BY <1>1, <2>1
  <2> QED BY <1>12, <1>13, <2>2
<1>16. 6 * N + lx + 1 + 1 = 6 * N + lx + 2 /\ 6 * N + lx + 2 + 1 = 6 * N + lx + 3
  BY <1>1, <1>9
<1> QED
  BY <1>8, <1>13, <1>14, <1>15, <1>16

(* What is written to the array of an iterator is what is read from it, for *)
(* any number of particles, with and without the auxiliary velocity.        *)
THEOREM ReguArrayRoundTrip ==
  ASSUME AccTypes, EnergyTypes PROVE ReguSpec => []ArrayRoundTrip
<1>1. ReguTypeOK => ArrayRoundTrip
  <2> SUFFICES ASSUME ReguTypeOK PROVE ArrayRoundTrip
    OBVIOUS
  <2> DEFINE a == ScalarArray(cart, regu)
  <2>1. N \in Nat /\ cart \in State /\ regu \in Regu /\ velDep \in BOOLEAN
    BY SimpleSystemAssumption DEF ReguTypeOK, TypeOK
  <2>2. /\ Len(a) = VariableNumber
        /\ a[1] = cart.time
        /\ \A i \in Particles :
             /\ a[PosOffset + 3 * i + 1] = cart.pos[i]
             /\ a[VelOffset + 3 * i + 1] = cart.vel[i]
             /\ velDep => a[AuxOffset + 3 * i + 1] = cart.aux[i]
        /\ a[OmegaOffset + 1] = regu.omega /\ a[BindEOffset + 1] = regu.bindE
    BY <2>1, ArrayParts
  <2> HIDE DEF a
  <2>3. /\ 0..((VelOffset - PosOffset) \div 3 - 1) = Particles
        /\ 0..((AuxOffset - VelOffset) \div 3 - 1) = Particles
    <3>1. VelOffset - PosOffset = 3 * N /\ AuxOffset - VelOffset = 3 * N
      BY <2>1 DEF PosOffset, VelOffset, AuxOffset
    <3>2. (3 * N) \div 3 = N
      BY <2>1
    <3> QED BY <3>1, <3>2 DEF Particles
  <2>4. velDep => 0..((Len(a) - AuxOffset) \div 3 - 1) = Particles
    <3>1. velDep => Len(a) - AuxOffset = 3 * N + 2
      BY <2>1, <2>2 DEF VariableNumber, AuxOffset
    <3>2. (3 * N + 2) \div 3 = N
      BY <2>1
    <3> QED BY <3>1, <3>2 DEF Particles
  <2>5. ASSUME NEW v \in Vector PROVE v = [i \in Particles |-> v[i]]
    BY DEF Vector
  <2>6. cart.pos \in Vector /\ cart.vel \in Vector /\ cart.aux \in Vector
    BY <2>1 DEF State
  <2>7. LoadToCoords(a, PosOffset, VelOffset) = cart.pos
    <3>1. LoadToCoords(a, PosOffset, VelOffset) = [i \in Particles |-> cart.pos[i]]
      BY <2>2, <2>3 DEF LoadToCoords
    <3> QED BY <2>5, <2>6, <3>1
  <2>8. LoadToCoords(a, VelOffset, AuxOffset) = cart.vel
    <3>1. LoadToCoords(a, VelOffset, AuxOffset) = [i \in Particles |-> cart.vel[i]]
      BY <2>2, <2>3 DEF LoadToCoords
    <3> QED BY <2>5, <2>6, <3>1
  <2>9. velDep => LoadToCoords(a, AuxOffset, Len(a)) = cart.aux
    <3>1. velDep => LoadToCoords(a, AuxOffset, Len(a)) = [i \in Particles |-> cart.aux[i]]
      BY <2>2, <2>4 DEF LoadToCoords
    <3> QED BY <2>5, <2>6, <3>1
  <2>10. cart = [time |-> cart.time, pos |-> cart.pos, vel |-> cart.vel, aux |-> cart.aux]
    BY <2>1 DEF State
  <2>11. regu = [omega |-> regu.omega, bindE |-> regu.bindE]
    BY <2>1 DEF Regu
  <2>12. (IF velDep THEN LoadToCoords(a, AuxOffset, Len(a)) ELSE cart.aux) = cart.aux
    BY <2>9
  <2>13. ReadScalarArray(a)
           = [cart |-> [time |-> cart.time, pos |-> cart.pos, vel |-> cart.vel,
                        aux |-> cart.aux],
              regu |-> [omega |-> regu.omega, bindE |-> regu.bindE]]
    BY <2>2, <2>7, <2>8, <2>12 DEF ReadScalarArray
  <2>14. ReadScalarArray(a) = [cart |-> cart, regu |-> regu]
    BY <2>10, <2>11, <2>13
  <2> QED BY <2>2, <2>14 DEF ArrayRoundTrip, a
<1>2. ReguIInv => ReguTypeOK
  BY DEF ReguIInv
<1> QED
  BY <1>1, <1>2, ReguInvariance, PTL

-----------------------------------------------------------------------------
(* The sum of mass times velocity times acceleration is linear in the       *)
(* acceleration.                                                            *)
ContractLinear ==
  \A v, a, b \in Vector : \A t \in Int :
    Contract(v, Advance(a, b, t)) = Contract(v, a) + t * Contract(v, b)

(* The physical time of a step is a multiple of that of a step of 1.        *)
LEMMA TimePerStep ==
  ASSUME EnergyTypes, NEW h \in Int, NEW sc \in Int
  PROVE  PhyTime(1, sc) \in Int /\ PhyTime(h, sc) = h * PhyTime(1, sc)
<1>1. Slow(sc) \in Int
  BY DEF EnergyTypes
<1> QED
  BY <1>1 DEF PhyTime

LEMMA AdvanceScaled ==
  ASSUME NEW v \in Vector, NEW a \in Vector, NEW h \in Int, NEW t \in Int
  PROVE  Advance(v, Advance(Zero, a, t), h) = Advance(v, a, h * t)
<1>1. ASSUME NEW i \in Particles PROVE v[i] + h * (0 + t * a[i]) = v[i] + (h * t) * a[i]
  <2>1. a[i] \in Int /\ v[i] \in Int
    BY DEF Vector
  <2> QED BY <2>1
<1> QED
  BY <1>1 DEF Advance, Zero

(* What the total acceleration does to bindE is what the external one does  *)
(* and what the Newtonian one would.                                        *)
LEMMA BindEParts ==
  ASSUME AccTypes, EnergyTypes, ContractLinear,
         NEW p \in Vector, NEW v \in Vector, NEW u \in Vector
  PROVE  /\ BindERate(v, Acc(p, u)) = BindERate(v, External(p, u)) + BindERate(v, Newtonian(p))
         /\ BindERate(v, External(p, u)) \in Int /\ BindERate(v, Newtonian(p)) \in Int
<1>1. Acc(p, u) \in Vector /\ Newtonian(p) \in Vector /\ -1 \in Int
  BY DEF AccTypes, EnergyTypes
<1>2. Contract(v, External(p, u)) = Contract(v, Acc(p, u)) + (-1) * Contract(v, Newtonian(p))
  BY <1>1 DEF ContractLinear, External
<1>3. Contract(v, Acc(p, u)) \in Int /\ Contract(v, Newtonian(p)) \in Int
  BY <1>1 DEF EnergyTypes
<1>4. -Contract(v, Acc(p, u)) = -Contract(v, External(p, u)) + -Contract(v, Newtonian(p))
      /\ Contract(v, External(p, u)) \in Int
  BY <1>2, <1>3
<1> QED
  BY <1>3, <1>4 DEF BindERate

(* The general derivative in the present state, but for another velocity.   *)
LEMMA DerivativeAt ==
  ASSUME cart \in State, NEW v
  PROVE  LET d == GeneralDerivative([cart EXCEPT !.vel = v], regu)
             a == Acc(cart.pos, IF velDep THEN v ELSE Zero)
             V == VelTime(cart, 1)
         IN  /\ d.cart.vel = Advance(Zero, a, V)
             /\ velDep => d.cart.aux = Advance(Zero, a, V)
             /\ d.regu.omega = OmegaRate(v, Newtonian(cart.pos)) * V
             /\ d.regu.bindE = BindERate(v, a) * V
<1> DEFINE s == [cart EXCEPT !.vel = v]
<1>1. s.pos = cart.pos /\ s.vel = v
  BY DEF State
<1> HIDE DEF s
<1>2. VelTime(s, 1) = VelTime(cart, 1)
  BY <1>1 DEF VelTime, VelScale
<1> QED
  BY <1>1, <1>2 DEF GeneralDerivative, Times, s

(* A drift is the step size times the derivative.                           *)
LEMMA DriftIsRate ==
  ASSUME EnergyTypes, ReguTypeOK, NEW h \in Int
  PROVE  LET d == GeneralDerivative([cart EXCEPT !.vel = cart.vel], regu)
             drift == DriftOf(cart, PosTime(cart, regu, h))
         IN  drift.time = h * d.cart.time /\ drift.pos = Advance(Zero, d.cart.pos, h)
<1> DEFINE P == PosTime(cart, regu, 1)
           d == GeneralDerivative(cart, regu)
<1>1. cart \in State /\ regu \in Regu /\ scale \in Int /\ cart.vel \in Vector
  BY DEF ReguTypeOK, TypeOK, State
<1>2. [cart EXCEPT !.vel = cart.vel] = cart
  BY <1>1 DEF State
<1>3. P \in Int /\ PosTime(cart, regu, h) = h * P
  <2>1. PosScale(cart, regu) \in Int
    BY <1>1, ScaleTypes
  <2> QED BY <2>1, TimePerStep DEF PosTime
<1>4. d.cart.time = P /\ d.cart.pos = Advance(Zero, cart.vel, P)
  BY DEF GeneralDerivative
<1> HIDE DEF P, d
<1>5. Advance(Zero, d.cart.pos, h) = Advance(Zero, cart.vel, h * P)
  BY <1>1, <1>3, <1>4, ZeroType, AdvanceScaled
<1>6. /\ DriftOf(cart, h * P).time = h * P
      /\ DriftOf(cart, h * P).pos = Advance(Zero, cart.vel, h * P)
  BY DEF DriftOf, NoState
<1> QED
  BY <1>2, <1>3, <1>4, <1>5, <1>6 DEF d

(* The physical time of a kick, and its half, from that of a step of 1.     *)
LEMMA KickTime ==
  ASSUME EnergyTypes, ReguTypeOK, NEW h \in Steps
  PROVE  LET V == VelTime(cart, 1)
             t == VelTime(cart, h)
         IN  /\ h \in Int /\ h \div 2 \in Int /\ V \in Int /\ t \in Int
             /\ t = h * V /\ t \div 2 \in Int /\ t \div 2 = (h \div 2) * V
<1>1. cart \in State /\ regu \in Regu /\ scale \in Int /\ h \in Int /\ h % 2 = 0
  BY SimpleSystemAssumption DEF ReguTypeOK, TypeOK
<1>2. VelScale(cart) \in Int
  BY <1>1, ScaleTypes
<1>3. VelTime(cart, 1) \in Int /\ VelTime(cart, h) = h * VelTime(cart, 1)
  BY <1>1, <1>2, TimePerStep DEF VelTime
<1>4. ASSUME NEW V \in Int PROVE (h * V) \div 2 = (h \div 2) * V
  <2>1. PICK m \in Int : h = 2 * m
    BY <1>1
  <2>2. m * V \in Int /\ h * V = 2 * (m * V) /\ h \div 2 = m
    BY <2>1
  <2>3. \A n \in Int : (2 * n) \div 2 = n
    OBVIOUS
  <2> QED BY <2>2, <2>3
<1>5. h \div 2 \in Int /\ h * VelTime(cart, 1) \in Int
  BY <1>1, <1>3
<1>6. (h * VelTime(cart, 1)) \div 2 \in Int
  BY <1>5
<1> QED
  BY <1>1, <1>3, <1>4, <1>5, <1>6

(* A kick with velocity dependent forces: the velocity in two halves by the *)
(* derivative for the auxiliary velocity before and after, the rest by the  *)
(* derivative for the velocity in the middle.                               *)
LEMMA KickIsRateDep ==
  ASSUME AccTypes, EnergyTypes, ContractLinear, ReguTypeOK, velDep, NEW h \in Steps
  PROVE  LET At(v) == GeneralDerivative([cart EXCEPT !.vel = v], regu)
             time == VelTime(cart, h)
             kick == KickOf(cart, time)
             done == Plus(cart, kick)
             change == ReguKickOf(cart, time)
             half == h \div 2
             before == At(cart.aux)
             after == At(done.aux)
             middle == Advance(cart.vel, before.cart.vel, half)
         IN  /\ kick.vel = Advance(Advance(Zero, before.cart.vel, half), after.cart.vel, half)
             /\ kick.aux = Advance(Zero, At(middle).cart.aux, h)
             /\ change.omega = h * At(middle).regu.omega
             /\ change.bindE = h * At(middle).regu.bindE
                                 - time * BindERate(middle, Newtonian(cart.pos))
<1> DEFINE V == VelTime(cart, 1)
           t == VelTime(cart, h)
           half == h \div 2
           a1 == Acc(cart.pos, cart.aux)
           mid == Advance(cart.vel, a1, t \div 2)
           a2 == Acc(cart.pos, mid)
           last == Advance(cart.aux, a2, t)
           a3 == Acc(cart.pos, last)
           n == Newtonian(cart.pos)
           D(v) == GeneralDerivative([cart EXCEPT !.vel = v], regu)
<1>1. /\ cart \in State /\ cart.pos \in Vector /\ cart.vel \in Vector /\ cart.aux \in Vector
  BY DEF ReguTypeOK, TypeOK, State
<1>2. /\ h \in Int /\ half \in Int /\ V \in Int /\ t \in Int
      /\ t = h * V /\ t \div 2 \in Int /\ t \div 2 = half * V
  BY KickTime
<1>3. a1 \in Vector /\ n \in Vector
  BY <1>1 DEF AccTypes, EnergyTypes
<1>4. mid \in Vector
  BY <1>1, <1>2, <1>3, AdvanceType
<1>5. a2 \in Vector
  BY <1>1, <1>4 DEF AccTypes
<1>6. last \in Vector
  BY <1>1, <1>2, <1>5, AdvanceType
<1>7. a3 \in Vector
  BY <1>1, <1>6 DEF AccTypes
<1>8. /\ KickOf(cart, t).vel = Advance(Advance(Zero, a1, t \div 2), a3, t \div 2)
      /\ KickOf(cart, t).aux = Advance(Zero, a2, t)
  BY DEF KickOf, NoState
<1>9. Plus(cart, KickOf(cart, t)).aux = last
  BY <1>1, <1>2, KickedDep
<1>10. /\ D(cart.aux).cart.vel = Advance(Zero, a1, V)
       /\ D(last).cart.vel = Advance(Zero, a3, V)
       /\ D(mid).cart.aux = Advance(Zero, a2, V)
       /\ D(mid).regu.omega = OmegaRate(mid, n) * V
       /\ D(mid).regu.bindE = BindERate(mid, a2) * V
  BY <1>1, DerivativeAt
<1>11. /\ ReguKickOf(cart, t).omega = OmegaRate(mid, n) * t
       /\ ReguKickOf(cart, t).bindE = BindERate(mid, External(cart.pos, mid)) * t
  BY DEF ReguKickOf, ReguRate, Times
<1>12. OmegaRate(mid, n) \in Int
  BY <1>3, <1>4 DEF OmegaRate, EnergyTypes
<1>13. /\ BindERate(mid, a2) = BindERate(mid, External(cart.pos, mid)) + BindERate(mid, n)
       /\ BindERate(mid, External(cart.pos, mid)) \in Int /\ BindERate(mid, n) \in Int
  BY <1>1, <1>4, BindEParts
<1> HIDE DEF V, t, half, a1, mid, a2, last, a3, n, D
<1>14. Advance(Zero, D(cart.aux).cart.vel, half) = Advance(Zero, a1, t \div 2)
  BY <1>2, <1>3, <1>10, ZeroType, AdvanceScaled
<1>15. Advance(cart.vel, D(cart.aux).cart.vel, half) = mid
  <2>1. Advance(cart.vel, Advance(Zero, a1, V), half) = Advance(cart.vel, a1, half * V)
    BY <1>1, <1>2, <1>3, AdvanceScaled
  <2> QED BY <1>2, <1>10, <2>1 DEF mid
<1>16. Advance(Advance(Zero, a1, t \div 2), D(last).cart.vel, half)
         = Advance(Advance(Zero, a1, t \div 2), a3, t \div 2)
  <2>1. Advance(Zero, a1, t \div 2) \in Vector
    BY <1>2, <1>3, ZeroType, AdvanceType
  <2> QED BY <1>2, <1>7, <1>10, <2>1, AdvanceScaled
<1>17. Advance(Zero, D(mid).cart.aux, h) = Advance(Zero, a2, t)
  BY <1>2, <1>5, <1>10, ZeroType, AdvanceScaled
<1>18. \A x \in Int : x * t = h * (x * V)
  BY <1>2
<1>19. ReguKickOf(cart, t).omega = h * D(mid).regu.omega
  BY <1>10, <1>11, <1>12, <1>18
<1>20. ASSUME NEW x \in Int, NEW y1 \in Int
       PROVE  x * t = h * ((x + y1) * V) - t * y1
  <2>1. (x + y1) * t = h * ((x + y1) * V)
    BY <1>18
  <2>2. (x + y1) * t = x * t + t * y1
    BY <1>2
  <2>3. x * t \in Int /\ t * y1 \in Int
    BY <1>2
  <2> QED BY <2>1, <2>2, <2>3
<1>21. ReguKickOf(cart, t).bindE = h * D(mid).regu.bindE - t * BindERate(mid, n)
  BY <1>10, <1>11, <1>13, <1>20
<1> QED
  BY <1>8, <1>9, <1>14, <1>15, <1>16, <1>17, <1>19, <1>21
     DEF t, half, n, D

(* A kick without: everything in two halves, by the derivative for the      *)
(* velocity before and after.                                               *)
LEMMA KickIsRateIndep ==
  ASSUME AccTypes, EnergyTypes, ContractLinear, ReguTypeOK, ~velDep, NEW h \in Steps
  PROVE  LET At(v) == GeneralDerivative([cart EXCEPT !.vel = v], regu)
             time == VelTime(cart, h)
             kick == KickOf(cart, time)
             done == Plus(cart, kick)
             change == ReguKickOf(cart, time)
             half == h \div 2
             before == At(cart.vel)
             after == At(done.vel)
             Unseen(v) == BindERate(v, Newtonian(cart.pos))
         IN  /\ kick.vel = Advance(Advance(Zero, before.cart.vel, half), after.cart.vel, half)
             /\ kick.aux = Zero
             /\ change.omega = half * (before.regu.omega + after.regu.omega)
             /\ change.bindE = half * (before.regu.bindE + after.regu.bindE)
                  - (time \div 2) * (Unseen(cart.vel) + Unseen(done.vel))
<1> DEFINE V == VelTime(cart, 1)
           t == VelTime(cart, h)
           half == h \div 2
           a == Acc(cart.pos, Zero)
           new == Advance(cart.vel, a, t)
           n == Newtonian(cart.pos)
           e == External(cart.pos, Zero)
           D(v) == GeneralDerivative([cart EXCEPT !.vel = v], regu)
<1>1. cart \in State /\ cart.pos \in Vector /\ cart.vel \in Vector
  BY DEF ReguTypeOK, TypeOK, State
<1>2. /\ h \in Int /\ half \in Int /\ V \in Int /\ t \in Int
      /\ t = h * V /\ t \div 2 \in Int /\ t \div 2 = half * V /\ t = 2 * (t \div 2)
  <2>1. h = 2 * half
    BY KickTime, SimpleSystemAssumption
  <2>2. /\ h \in Int /\ half \in Int /\ V \in Int /\ t \in Int
        /\ t = h * V /\ t \div 2 \in Int /\ t \div 2 = half * V
    BY KickTime
  <2> HIDE DEF half, V, t
  <2>3. (2 * half) * V = 2 * (half * V)
    BY <2>2
  <2> QED BY <2>1, <2>2, <2>3
<1>3. a \in Vector /\ n \in Vector
  BY <1>1, ZeroType DEF AccTypes, EnergyTypes
<1>4. new \in Vector
  BY <1>1, <1>2, <1>3, AdvanceType
<1>5. /\ KickOf(cart, t).vel = Advance(Zero, a, t)
      /\ KickOf(cart, t).aux = Zero
  BY DEF KickOf, NoState
<1>6. Plus(cart, KickOf(cart, t)).vel = new
  BY <1>1, <1>2, KickedIndep
<1>7. ASSUME NEW v
      PROVE  /\ D(v).cart.vel = Advance(Zero, a, V)
             /\ D(v).regu.omega = OmegaRate(v, n) * V
             /\ D(v).regu.bindE = BindERate(v, a) * V
  BY <1>1, DerivativeAt
<1>8. /\ ReguKickOf(cart, t).omega
           = OmegaRate(cart.vel, n) * (t \div 2) + OmegaRate(new, n) * (t \div 2)
      /\ ReguKickOf(cart, t).bindE
           = BindERate(cart.vel, e) * (t \div 2) + BindERate(new, e) * (t \div 2)
  BY DEF ReguKickOf, ReguRate, Times, ReguPlus
<1>9. ASSUME NEW v \in Vector
      PROVE  /\ OmegaRate(v, n) \in Int
             /\ BindERate(v, a) = BindERate(v, e) + BindERate(v, n)
             /\ BindERate(v, e) \in Int /\ BindERate(v, n) \in Int
  <2>1. OmegaRate(v, n) \in Int
    BY <1>3 DEF OmegaRate, EnergyTypes
  <2> QED BY <1>1, <2>1, ZeroType, BindEParts
<1> HIDE DEF V, t, half, a, new, n, e, D
<1>10. Advance(Advance(Zero, Advance(Zero, a, V), half), Advance(Zero, a, V), half)
         = Advance(Zero, a, t)
  <2> DEFINE u == t \div 2
  <2>1. u \in Int /\ u = half * V /\ t = 2 * u
    BY <1>2
  <2> HIDE DEF u
  <2>2. Advance(Zero, a, u) \in Vector
    BY <1>3, <2>1, ZeroType, AdvanceType
  <2>3. /\ Advance(Zero, Advance(Zero, a, V), half) = Advance(Zero, a, u)
        /\ Advance(Advance(Zero, a, u), Advance(Zero, a, V), half)
             = Advance(Advance(Zero, a, u), a, u)
    BY <1>2, <1>3, <2>1, <2>2, ZeroType, AdvanceScaled
  <2>4. Advance(Advance(Zero, a, u), a, u) = Advance(Zero, a, t)
    <3>1. ASSUME NEW i \in Particles PROVE (0 + u * a[i]) + u * a[i] = 0 + t * a[i]
      <4>1. a[i] \in Int /\ u * a[i] \in Int /\ (2 * u) * a[i] = u * a[i] + u * a[i]
        BY <1>3, <2>1 DEF Vector
      <4> QED BY <2>1, <4>1
    <3> QED BY <3>1 DEF Advance, Zero
  <2> QED BY <2>3, <2>4
<1>11. KickOf(cart, t).vel
         = Advance(Advance(Zero, D(cart.vel).cart.vel, half), D(new).cart.vel, half)
  BY <1>5, <1>7, <1>10
<1>12. ASSUME NEW x \in Int, NEW y1 \in Int
       PROVE  x * (t \div 2) + y1 * (t \div 2) = half * (x * V + y1 * V)
  <2>1. /\ x * (half * V) = half * (x * V) /\ y1 * (half * V) = half * (y1 * V)
        /\ half * (x * V + y1 * V) = half * (x * V) + half * (y1 * V)
    BY <1>2
  <2> QED BY <1>2, <2>1
<1>13. ReguKickOf(cart, t).omega = half * (D(cart.vel).regu.omega + D(new).regu.omega)
  BY <1>1, <1>4, <1>7, <1>8, <1>9, <1>12
<1>14. ASSUME NEW x \in Int, NEW y1 \in Int, NEW p \in Int, NEW q \in Int
       PROVE  x * (t \div 2) + y1 * (t \div 2)
                = half * ((x + p) * V + (y1 + q) * V) - (t \div 2) * (p + q)
  <2>1. (x + p) * (t \div 2) + (y1 + q) * (t \div 2) = half * ((x + p) * V + (y1 + q) * V)
    BY <1>12
  <2>2. ASSUME NEW u \in Int
        PROVE  x * u + y1 * u = ((x + p) * u + (y1 + q) * u) - u * (p + q)
    OBVIOUS
  <2> QED BY <1>2, <2>1, <2>2
<1>15. ReguKickOf(cart, t).bindE
         = half * (D(cart.vel).regu.bindE + D(new).regu.bindE)
            - (t \div 2) * (BindERate(cart.vel, n) + BindERate(new, n))
  <2>1. /\ D(cart.vel).regu.bindE = (BindERate(cart.vel, e) + BindERate(cart.vel, n)) * V
        /\ D(new).regu.bindE = (BindERate(new, e) + BindERate(new, n)) * V
    BY <1>1, <1>4, <1>7, <1>9
  <2> QED BY <1>1, <1>4, <1>8, <1>9, <1>14, <2>1
<1> QED
  BY <1>5, <1>6, <1>11, <1>13, <1>15 DEF t, half, n, D

(* Gauss-Radau, which integrates the general derivative, and the leapfrogs, *)
(* which drift and kick, follow the same equations, with and without forces *)
(* that depend on velocities, the auxiliary velocity, omega and bindE       *)
(* included; except that under LogH the derivative of bindE has the power   *)
(* of the Newtonian accelerations besides.  The one thing the energies have *)
(* to do for it is that ContractLinear holds, which is about bindE alone.   *)
THEOREM ReguDerivativeIsRate ==
  ASSUME AccTypes, EnergyTypes, ContractLinear PROVE ReguSpec => []DerivativeIsRate
<1>1. ReguTypeOK => DerivativeIsRate
  <2> SUFFICES ASSUME ReguTypeOK PROVE DerivativeIsRate
    OBVIOUS
  <2>1. \A h \in Steps : h \in Int
    BY SimpleSystemAssumption
  <2>2. CASE velDep
    BY <2>1, <2>2, DriftIsRate, KickIsRateDep DEF DerivativeIsRate
  <2>3. CASE ~velDep
    BY <2>1, <2>3, DriftIsRate, KickIsRateIndep DEF DerivativeIsRate
  <2> QED BY <2>2, <2>3
<1>2. ReguIInv => ReguTypeOK
  BY DEF ReguIInv
<1> QED
  BY <1>1, <1>2, ReguInvariance, PTL
=============================================================================
