--------------------------- MODULE Simulator_proofs ---------------------------
(***************************************************************************)
(* The safety properties of Simulator::run for any sizes of steps, any     *)
(* tolerance, any intervals of the callbacks and any number of runs: what  *)
(* the operations see, what the TimeSlice and the LogTimeSlice pass on,    *)
(* that the integration does not pass the end, and that every step of a    *)
(* run brings it nearer to its own.                                        *)
(***************************************************************************)
EXTENDS Simulator, WellFoundedInduction, TLAPS

(* The end times are given in order, the first not before the start.        *)
EndsAhead ==
  /\ \A t \in StartTimes : t <= EndTimes[1]
  /\ \A i \in 1..(Len(EndTimes) - 1) : EndTimes[i] <= EndTimes[i + 1]

-----------------------------------------------------------------------------
(* The quotient is the number whose multiple is below.                      *)
LEMMA Quotient ==
  ASSUME NEW x \in Int, NEW w \in Nat \ {0}, NEW q \in Int, w * q <= x, x < w * q + w
  PROVE  x \div w = q
<1>1. x = w * (x \div w) + (x % w) /\ x % w \in 0..(w - 1) /\ x \div w \in Int
  OBVIOUS
<1>2. ASSUME x \div w < q PROVE FALSE
  <2>1. (x \div w) + 1 <= q
    BY <1>1, <1>2
  <2>2. w * ((x \div w) + 1) <= w * q
    BY <1>1, <2>1
  <2>3. w * ((x \div w) + 1) = w * (x \div w) + w
    BY <1>1
  <2> QED BY <1>1, <2>2, <2>3
<1>3. ASSUME q < x \div w PROVE FALSE
  <2>1. q + 1 <= x \div w
    BY <1>1, <1>3
  <2>2. w * (q + 1) <= w * (x \div w)
    BY <1>1, <2>1
  <2>3. w * (q + 1) = w * q + w
    OBVIOUS
  <2> QED BY <1>1, <2>2, <2>3
<1> QED
  BY <1>1, <1>2, <1>3

(* The multiples of w among 0..n are one more than those among 0..n-1 if n  *)
(* is one of them.                                                          *)
LEMMA CountMultiples ==
  ASSUME NEW n \in Nat, NEW w \in Nat \ {0}
  PROVE  (n + 1 + w - 1) \div w
           = IF n % w = 0 THEN (n + w - 1) \div w + 1 ELSE (n + w - 1) \div w
<1> DEFINE q == n \div w
           r == n % w
<1>1. n = w * q + r /\ r \in 0..(w - 1) /\ q \in Int
  OBVIOUS
<1>2. w * (q + 1) = w * q + w /\ w * q \in Int /\ w \in Int
  BY <1>1
<1> HIDE DEF q, r
<1>3. (n + 1 + w - 1) \div w = q + 1
  BY <1>1, <1>2, Quotient
<1>4. CASE r = 0
  <2>1. (n + w - 1) \div w = q
    BY <1>1, <1>2, <1>4, Quotient
  <2> QED BY <1>1, <1>3, <1>4, <2>1 DEF r
<1>5. CASE r # 0
  <2>1. (n + w - 1) \div w = q + 1
    BY <1>1, <1>2, <1>5, Quotient
  <2> QED BY <1>3, <1>5, <2>1 DEF r
<1> QED
  BY <1>4, <1>5

-----------------------------------------------------------------------------
(* Induction: a set of numbers with 0 and the successor of each of its      *)
(* members holds all of them; and every other set has a least member.       *)
Below == OpToRel(<, Nat)

LEMMA Least ==
  ASSUME NEW S \in SUBSET Nat, S # {}
  PROVE  \E m \in S : \A n \in S : m <= n
<1>1. IsWellFoundedOn(Below, Nat)
  BY NatLessThanWellFounded DEF Below
<1>2. PICK m \in S : \A n \in S : ~(<<n, m>> \in Below)
  BY <1>1, WFMin
<1>3. ASSUME NEW n \in S PROVE m <= n
  <2>1. ~(<<n, m>> \in Below) /\ n \in Nat /\ m \in Nat
    BY <1>2
  <2>2. n < m => <<n, m>> \in Below
    BY <2>1 DEF Below, OpToRel
  <2> QED BY <2>1, <2>2
<1> QED
  BY <1>3

LEMMA Induction ==
  ASSUME NEW T \in SUBSET Nat, 0 \in T, \A n \in T : n + 1 \in T
  PROVE  T = Nat
<1> SUFFICES ASSUME T # Nat PROVE FALSE
  OBVIOUS
<1>1. PICK m \in Nat \ T : \A n \in Nat \ T : m <= n
  BY Least
<1>2. m - 1 \in Nat /\ ~(m <= m - 1)
  BY <1>1
<1>3. m - 1 \in T
  BY <1>1, <1>2
<1>4. (m - 1) + 1 = m
  OBVIOUS
<1> QED
  BY <1>1, <1>3, <1>4

(* The function a power is taken from, and that there is one.               *)
Powers(b, n) == CHOOSE p : p = [i \in 0..n |-> IF i = 0 THEN 1 ELSE b * p[i - 1]]

LEMMA PowersExist ==
  ASSUME NEW b, NEW n \in Nat
  PROVE  LET p == Powers(b, n) IN p = [i \in 0..n |-> IF i = 0 THEN 1 ELSE b * p[i - 1]]
<1> DEFINE Is(p, m) == p = [i \in 0..m |-> IF i = 0 THEN 1 ELSE b * p[i - 1]]
           T == {m \in Nat : \E p : Is(p, m)}
<1>1. 0 \in T
  <2>1. Is([i \in 0..0 |-> 1], 0)
    OBVIOUS
  <2> QED BY <2>1
<1>2. ASSUME NEW m \in T PROVE m + 1 \in T
  <2>1. PICK p : Is(p, m)
    OBVIOUS
  <2> DEFINE g == [i \in 0..(m + 1) |-> IF i <= m THEN p[i] ELSE b * p[m]]
  <2>2. Is(g, m + 1)
    <3> SUFFICES ASSUME NEW i \in 0..(m + 1) PROVE g[i] = IF i = 0 THEN 1 ELSE b * g[i - 1]
      OBVIOUS
    <3>1. CASE i = m + 1
      <4>1. g[i] = b * p[m] /\ g[i - 1] = p[m]
        BY <3>1
      <4> QED BY <4>1, <3>1
    <3>2. CASE i \in 0..m
      BY <2>1, <3>2
    <3> QED BY <3>1, <3>2
  <2> HIDE DEF Is, g
  <2> QED BY <2>2
<1>3. n \in T
  <2> HIDE DEF T
  <2>1. T \in SUBSET Nat
    BY DEF T
  <2> QED BY <1>1, <1>2, <2>1, Induction
<1> QED
  BY <1>3 DEF Powers

LEMMA PowersAgree ==
  ASSUME NEW b, NEW n \in Nat, NEW m \in 0..n
  PROVE  Powers(b, n)[m] = Powers(b, m)[m]
<1> DEFINE F == Powers(b, n)
           G == Powers(b, m)
           T == {i \in Nat : i <= m => F[i] = G[i]}
<1>1. /\ F = [i \in 0..n |-> IF i = 0 THEN 1 ELSE b * F[i - 1]]
      /\ G = [i \in 0..m |-> IF i = 0 THEN 1 ELSE b * G[i - 1]]
  BY PowersExist
<1> HIDE DEF F, G
<1>2. 0 \in T
  BY <1>1
<1>3. ASSUME NEW i \in T PROVE i + 1 \in T
  <2> SUFFICES ASSUME i + 1 <= m PROVE F[i + 1] = G[i + 1]
    OBVIOUS
  <2>1. i + 1 \in 0..n /\ i + 1 \in 0..m /\ i + 1 # 0 /\ (i + 1) - 1 = i
    OBVIOUS
  <2> QED BY <1>1, <2>1
<1>4. T = Nat
  <2> HIDE DEF T
  <2> QED BY <1>2, <1>3, Induction DEF T
<1>5. F[m] = G[m]
  <2>1. m \in T
    BY <1>4
  <2> QED BY <2>1
<1> QED
  BY <1>5 DEF F, G

(* The two equations of Power, and what follows from them.                  *)
LEMMA PowerNothing == ASSUME NEW b PROVE Power(b, 0) = 1
<1>1. Powers(b, 0)[0] = 1
  BY PowersExist
<1> QED
  BY <1>1 DEF Power, Powers

LEMMA PowerNext ==
  ASSUME NEW b, NEW n \in Nat
  PROVE  Power(b, n + 1) = b * Power(b, n)
<1> DEFINE F == Powers(b, n + 1)
<1>1. n + 1 \in Nat
  OBVIOUS
<1>2. F = [i \in 0..(n + 1) |-> IF i = 0 THEN 1 ELSE b * F[i - 1]]
  BY <1>1, PowersExist
<1>3. F[n] = Powers(b, n)[n]
  BY PowersAgree
<1>4. F[n + 1] = b * F[n]
  <2> HIDE DEF F
  <2> QED BY <1>2
<1>5. \A m : Power(b, m) = Powers(b, m)[m]
  BY DEF Power, Powers
<1> QED
  BY <1>3, <1>4, <1>5

LEMMA PowerType == ASSUME NEW b \in Int, NEW n \in Nat PROVE Power(b, n) \in Int
<1> DEFINE T == {m \in Nat : Power(b, m) \in Int}
<1>1. 0 \in T
  BY PowerNothing
<1>2. ASSUME NEW m \in T PROVE m + 1 \in T
  BY PowerNext
<1>3. T = Nat
  <2>1. T \in SUBSET Nat
    OBVIOUS
  <2> HIDE DEF T
  <2> QED BY <1>1, <1>2, <2>1, Induction
<1> QED
  BY <1>3

LEMMA PowerSum ==
  ASSUME NEW b \in Int, NEW m \in Nat, NEW n \in Nat
  PROVE  Power(b, m + n) = Power(b, m) * Power(b, n)
<1> DEFINE T == {i \in Nat : Power(b, m + i) = Power(b, m) * Power(b, i)}
<1>1. 0 \in T
  BY PowerNothing, PowerType
<1>2. ASSUME NEW i \in T PROVE i + 1 \in T
  <2>1. m + (i + 1) = (m + i) + 1 /\ m + i \in Nat
    OBVIOUS
  <2>2. Power(b, m + (i + 1)) = b * Power(b, m + i)
    BY <2>1, PowerNext
  <2>3. Power(b, i + 1) = b * Power(b, i) /\ Power(b, i) \in Int /\ Power(b, m) \in Int
    BY PowerNext, PowerType
  <2>4. Power(b, m + i) = Power(b, m) * Power(b, i)
    OBVIOUS
  <2>5. \A x, y \in Int : b * (x * y) = x * (b * y)
    OBVIOUS
  <2> QED BY <2>2, <2>3, <2>4, <2>5
<1>3. T = Nat
  <2>1. T \in SUBSET Nat
    OBVIOUS
  <2> HIDE DEF T
  <2> QED BY <1>1, <1>2, <2>1, Induction
<1> QED
  BY <1>3

LEMMA PowerGrows ==
  ASSUME NEW b \in Int, b >= 2, NEW n \in Nat
  PROVE  Power(b, n) >= n + 1
<1> DEFINE T == {m \in Nat : Power(b, m) >= m + 1}
<1>1. 0 \in T
  BY PowerNothing
<1>2. ASSUME NEW m \in T PROVE m + 1 \in T
  <2>1. Power(b, m) \in Int /\ Power(b, m) >= m + 1
    BY PowerType
  <2>2. \A x \in Int : x >= 1 => b * x >= 2 * x
    OBVIOUS
  <2> QED BY <2>1, <2>2, PowerNext
<1>3. T = Nat
  <2>1. T \in SUBSET Nat
    OBVIOUS
  <2> HIDE DEF T
  <2> QED BY <1>1, <1>2, <2>1, Induction
<1> QED
  BY <1>3

-----------------------------------------------------------------------------
LogSliceTypes == [start_time_ : Int, opt_time_ : Int, interval : Int]

(* The next call of a LogTimeSlice that gets anywhere is due after the time *)
(* of this one, a power of the interval later: the loop of multiplications  *)
(* ends.                                                                    *)
LEMMA NextDue ==
  ASSUME NEW l \in LogSliceTypes, NEW t \in Int, ~LogTimeSliceStuck(l), l.opt_time_ <= t
  PROVE  \E m \in Nat \ {0} :
           /\ LogTimeSliceNext(l, t)
                = l.start_time_ + (l.opt_time_ - l.start_time_) * Power(l.interval, m)
           /\ LogTimeSliceNext(l, t) > t /\ LogTimeSliceNext(l, t) \in Int
<1> DEFINE D == l.opt_time_ - l.start_time_
           b == l.interval
           After(m) == LogTimeSliceAfter(l, m)
           S == {m \in Nat : m >= 1 /\ After(m) > t}
           last == t - l.start_time_ + 1
           Is(m) == After(m) > t /\ \A n \in 1..(m - 1) : After(n) <= t
<1>1. /\ l.start_time_ \in Int /\ D \in Int /\ D >= 1 /\ b \in Int /\ b >= 2
      /\ last \in Nat /\ last >= 1
  BY DEF LogSliceTypes, LogTimeSliceStuck
<1>2. ASSUME NEW m \in Nat PROVE After(m) = l.start_time_ + D * Power(b, m) /\ After(m) \in Int
  <2>1. Power(b, m) \in Int
    BY <1>1, PowerType
  <2>2. After(m) = l.start_time_ + D * Power(b, m)
    BY DEF LogTimeSliceAfter
  <2> HIDE DEF D, b, After
  <2> QED BY <1>1, <2>1, <2>2
<1> HIDE DEF After, D, b
<1>3. last \in S
  <2>1. Power(b, last) \in Int /\ Power(b, last) >= last + 1
    BY <1>1, PowerType, PowerGrows
  <2>2. \A x, y \in Int : x >= 1 /\ y >= 1 => x * y >= y
    OBVIOUS
  <2>3. D * Power(b, last) >= Power(b, last) /\ D * Power(b, last) \in Int
    BY <1>1, <2>1, <2>2
  <2>4. After(last) > t
    BY <1>1, <1>2, <2>1, <2>3
  <2> QED BY <1>1, <2>4
<1>4. PICK m \in S : \A n \in S : m <= n
  <2>1. S \in SUBSET Nat
    OBVIOUS
  <2> HIDE DEF S
  <2> QED BY <1>3, <2>1, Least
<1>5. m \in 1..last /\ Is(m)
  <2>1. m \in 1..last /\ After(m) > t
    BY <1>1, <1>3, <1>4
  <2>2. ASSUME NEW n \in 1..(m - 1) PROVE After(n) <= t
    <3>1. n \notin S /\ n \in Nat /\ n >= 1
      BY <1>4, <2>2
    <3> QED BY <1>2, <3>1
  <2> QED BY <2>1, <2>2
<1> DEFINE c == CHOOSE x \in 1..last : Is(x)
<1>6. c \in 1..last /\ Is(c)
  <2> HIDE DEF Is, last
  <2> QED BY <1>5
<1>7. LogTimeSliceNext(l, t) = After(c)
  BY DEF LogTimeSliceNext, After
<1> HIDE DEF c, last
<1>8. c \in Nat \ {0} /\ After(c) > t
  BY <1>1, <1>6
<1> QED
  BY <1>2, <1>7, <1>8 DEF D, b

-----------------------------------------------------------------------------
(* The StepSlice counts the calls of operations(), and the TimeSlice moves  *)
(* on with every call it passes.                                            *)
SliceDueLater == sliceTime >= Len(slices) * SliceEvery

IInv == TypeOK /\ writeStep = ops /\ EveryStateOnce /\ SliceDueLater /\ SlicesNotAhead

LEMMA InitInv == Init => IInv
<1> SUFFICES ASSUME Init PROVE IInv
  OBVIOUS
<1>1. Len(EndTimes) \in Nat \ {0} /\ WriteEvery \in Nat \ {0} /\ StartTimes \subseteq Int
      /\ SliceEvery \in Nat /\ LogSlices \subseteq LogSliceTypes
  BY SimulatorAssumption DEF LogSliceTypes
<1>2. (0 + WriteEvery - 1) \div WriteEvery = 0
  BY <1>1, Quotient
<1>3. TypeOK
  BY <1>1 DEF Init, TypeOK, LogSliceTypes
<1> QED
  BY <1>1, <1>2, <1>3 DEF Init, IInv, EveryStateOnce, SliceDueLater, SlicesNotAhead

(* What a call of operations() keeps, in the body of the loop and after it. *)
LEMMA OperationsInv ==
  ASSUME IInv, Operations
  PROVE  /\ writeStep' \in Nat /\ ops' \in Nat /\ writes' \in Nat
         /\ sliceTime' \in Int /\ slices' \in Seq(Int) /\ logs' \in Seq(Int)
         /\ ops' = ops + 1 /\ writeStep' = ops'
         /\ writes' = (ops' + WriteEvery - 1) \div WriteEvery
         /\ SliceDueLater' /\ SlicesNotAhead'
         /\ logSlice' \in LogSliceTypes
<1>1. /\ ops \in Nat /\ writeStep = ops /\ writes \in Nat /\ sliceTime \in Int
      /\ time \in Int /\ slices \in Seq(Int) /\ logSlice \in LogSliceTypes
  BY DEF IInv, TypeOK, LogSliceTypes
<1>2. WriteEvery \in Nat \ {0} /\ SliceEvery \in Nat /\ SliceEnd \in Int
  BY SimulatorAssumption
<1>3. ops' = ops + 1 /\ writeStep' = ops'
  BY <1>1 DEF Operations, CountedWrite
<1>4. writes' = (ops' + WriteEvery - 1) \div WriteEvery /\ writes' \in Nat
  <2>1. writes = (ops + WriteEvery - 1) \div WriteEvery
    BY DEF IInv, EveryStateOnce
  <2>2. writes' = IF ops % WriteEvery = 0 THEN writes + 1 ELSE writes
    BY <1>1 DEF Operations, StepSliceFires
  <2>3. (ops + 1 + WriteEvery - 1) \div WriteEvery
          = IF ops % WriteEvery = 0 THEN writes + 1 ELSE writes
    BY <1>1, <1>2, <2>1, CountMultiples
  <2> QED BY <1>1, <1>3, <2>2, <2>3
<1>5. logs' \in Seq(Int)
  <2>1. logs \in Seq(Int) /\ (logs' = Append(logs, time) \/ logs' = logs)
    BY DEF Operations, IInv, TypeOK
  <2> QED BY <1>1, <2>1, SMTT(30)
<1>6. logSlice' \in LogSliceTypes
  <2>1. CASE LogFires
    <3>1. LogTimeSliceNext(logSlice, time) \in Int
      BY <1>1, <2>1, NextDue DEF Operations, LogFires, LogTimeSliceFires
    <3>2. logSlice' = [logSlice EXCEPT !.opt_time_ = LogTimeSliceNext(logSlice, time)]
      BY <2>1 DEF Operations
    <3> QED BY <1>1, <3>1, <3>2 DEF LogSliceTypes
  <2>2. CASE ~LogFires
    BY <1>1, <2>2 DEF Operations
  <2> QED BY <2>1, <2>2
<1>7. CASE TimeSliceFires(sliceTime, SliceEnd, time)
  <2>1. slices' = Append(slices, time) /\ sliceTime' = sliceTime + SliceEvery
    BY <1>7 DEF Operations, SliceDue, TimeSliceNext
  <2>2. sliceTime <= time
    BY <1>7 DEF TimeSliceFires
  <2>3. Len(slices') = Len(slices) + 1 /\ Len(slices) \in Nat
    BY <1>1, <2>1
  <2>4. (Len(slices) + 1) * SliceEvery = Len(slices) * SliceEvery + SliceEvery
        /\ Len(slices) * SliceEvery \in Int
    BY <1>2, <2>3
  <2>5. SliceDueLater'
    BY <1>1, <1>2, <2>1, <2>3, <2>4 DEF SliceDueLater, IInv
  <2>6. ASSUME NEW i \in 1..Len(slices') PROVE slices'[i] >= (i - 1) * SliceEvery
    <3>1. CASE i = Len(slices) + 1
      <4>1. slices'[i] = time /\ i - 1 = Len(slices)
        BY <1>1, <2>1, <2>3, <3>1
      <4> QED BY <1>1, <2>2, <2>4, <4>1 DEF SliceDueLater, IInv
    <3>2. CASE i \in 1..Len(slices)
      <4>1. slices'[i] = slices[i]
        BY <1>1, <2>1, <3>2
      <4> QED BY <3>2, <4>1 DEF IInv, SlicesNotAhead
    <3> QED BY <2>3, <3>1, <3>2
  <2> QED BY <1>1, <1>2, <1>3, <1>4, <1>5, <1>6, <2>1, <2>5, <2>6 DEF SlicesNotAhead
<1>8. CASE ~TimeSliceFires(sliceTime, SliceEnd, time)
  <2>1. slices' = slices /\ sliceTime' = sliceTime
    BY <1>8 DEF Operations, SliceDue, TimeSliceNext
  <2> QED BY <1>1, <1>3, <1>4, <1>5, <1>6, <2>1 DEF IInv, SliceDueLater, SlicesNotAhead
<1> QED
  BY <1>7, <1>8

LEMMA NextInv == IInv /\ [Next]_vars => IInv'
<1> SUFFICES ASSUME IInv, [Next]_vars PROVE IInv'
  OBVIOUS
<1>1. CASE Start
  <2>1. step' \in Int /\ step' # 0
    BY <1>1, SimulatorAssumption DEF Start, FirstSize
  <2> QED BY <1>1, <2>1
          DEF Start, callbacks, IInv, TypeOK, EveryStateOnce, SliceDueLater, SlicesNotAhead
<1>2. CASE ReachEnd \/ CheckStops
  <2>1. checks' \in Nat /\ evals' \in Nat /\ checkStep' \in Nat
    <3>1. checks \in Nat /\ evals \in Nat /\ checkStep \in Nat
      BY DEF IInv, TypeOK
    <3>2. /\ checks' \in {checks, checks + 1} /\ evals' \in {evals, evals + 1}
          /\ checkStep' = checkStep
      BY <1>2 DEF ReachEnd, CheckStops
    <3> QED BY <3>1, <3>2
  <2> QED BY <1>2, <2>1 DEF ReachEnd, CheckStops, callbacks, IInv, TypeOK, EveryStateOnce, SliceDueLater,
              SlicesNotAhead
<1>3. CASE Advance
  <2>1. Operations /\ phase = "advancing" /\ phase' = "testing"
        /\ iters' = iters + 1
        /\ UNCHANGED <<slip, run, checkStep, checks, evals>>
    BY <1>3 DEF Advance
  <2>2. StepToTake \in Int
    BY SimulatorAssumption DEF StepToTake, EndTime, IInv, TypeOK
  <2>3. time' \in Int
    <3>1. PICK e \in Elapsed(StepToTake) : time' = time + e
      BY <1>3 DEF Advance
    <3>2. e \in Int
      <4>1. slip \in Nat
        BY SimulatorAssumption DEF IInv, TypeOK
      <4> HIDE DEF StepToTake
      <4>2. PICK a \in 1..Abs(StepToTake), s \in -slip..slip : e = Sign(StepToTake) * a + s
        BY <3>1 DEF Elapsed
      <4> QED BY <2>2, <4>1, <4>2 DEF Sign, Abs
    <3> QED BY <3>1, <3>2 DEF IInv, TypeOK
  <2>4. step' \in Int /\ step' # 0
    <3>1. step' \in Proposed(StepToTake)
      BY <1>3 DEF Advance
    <3>2. PICK n \in NextSteps : step' = Sign(StepToTake) * n
      BY <3>1 DEF Proposed
    <3> QED BY <2>2, <3>2, SimulatorAssumption DEF Sign
  <2>5. EveryStateOnce'
    BY <2>1, OperationsInv DEF IInv, TypeOK, EveryStateOnce
  <2> QED BY <2>1, <2>3, <2>4, <2>5, OperationsInv DEF IInv, TypeOK, LogSliceTypes
<1>4. CASE Finish
  <2>1. Operations /\ phase = "stopping" /\ phase' = "done"
        /\ UNCHANGED <<slip, run, time, step, checkStep, iters, checks, evals>>
    BY <1>4 DEF Finish
  <2>2. EveryStateOnce'
    BY <2>1, OperationsInv DEF IInv, TypeOK, EveryStateOnce
  <2> QED BY <2>1, <2>2, OperationsInv DEF IInv, TypeOK, LogSliceTypes
<1>5. CASE Stuck
  BY <1>5 DEF Stuck, callbacks, IInv, TypeOK, EveryStateOnce, SliceDueLater, SlicesNotAhead
<1>6. CASE RunAgain
  <2>1. Len(EndTimes) \in Nat
    BY SimulatorAssumption
  <2> QED BY <1>6, <2>1 DEF RunAgain, callbacks, IInv, TypeOK, EveryStateOnce, SliceDueLater,
              SlicesNotAhead
<1>7. CASE UNCHANGED vars
  BY <1>7 DEF vars, IInv, TypeOK, EveryStateOnce, SliceDueLater, SlicesNotAhead
<1>8. CASE Refuse
  <2>1. step' \in Int
    BY <1>8, SimulatorAssumption DEF Refuse, FirstSize
  <2> QED BY <1>8, <2>1
          DEF Refuse, callbacks, IInv, TypeOK, EveryStateOnce, SliceDueLater, SlicesNotAhead
<1> QED
  BY <1>1, <1>2, <1>3, <1>4, <1>5, <1>6, <1>7, <1>8 DEF Next

LEMMA Invariance == Spec => []IInv
BY InitInv, NextInv, PTL DEF Spec

(* The variables keep their types; a step size is never zero in the loop.   *)
THEOREM SimulatorTypes == Spec => []TypeOK
BY Invariance, PTL DEF IInv

(* The operations see every state once, in every run, and the StepSlice     *)
(* among them writes every N-th of them.                                    *)
THEOREM SimulatorOperations == Spec => []EveryStateOnce
BY Invariance, PTL DEF IInv

(* The TimeSlice does not run ahead of the time.                            *)
THEOREM SimulatorSlices == Spec => []SlicesNotAhead
BY Invariance, PTL DEF IInv

-----------------------------------------------------------------------------
(* A LogTimeSlice that has passed a call on gets somewhere and is due again *)
(* later; and it was due between two of its calls, at a distance from its   *)
(* start that the powers of the interval lead from to the present one.      *)
LogInv ==
  LET start == logSlice.start_time_
      due == logSlice.opt_time_ - start
      b == logSlice.interval
  IN  /\ logs # <<>> => b >= 2 /\ due >= 1 /\ logSlice.opt_time_ > logs[Len(logs)]
      /\ \A i \in 2..Len(logs) :
           \E x \in (logs[i - 1] + 1)..logs[i] : \E m \in Nat :
             x - start >= 1 /\ (x - start) * Power(b, m) = due

LEMMA LogInit == Init => LogInv
BY DEF Init, LogInv

LEMMA LogOperations == ASSUME TypeOK, LogInv, Operations PROVE LogInv'
<1> DEFINE start == logSlice.start_time_
           due == logSlice.opt_time_ - start
           b == logSlice.interval
<1>1. /\ logSlice \in LogSliceTypes /\ time \in Int /\ logs \in Seq(Int) /\ start \in Int
      /\ due \in Int /\ b \in Int /\ logSlice.opt_time_ \in Int
  BY DEF TypeOK, LogSliceTypes
<1>2. CASE ~LogFires
  BY <1>2 DEF Operations, LogInv
<1>3. CASE LogFires
  <2> DEFINE next == LogTimeSliceNext(logSlice, time)
  <2>1. /\ logSlice' = [logSlice EXCEPT !.opt_time_ = next]
        /\ logs' = Append(logs, time) /\ ~LogTimeSliceStuck(logSlice)
        /\ logSlice.opt_time_ <= time
    BY <1>3 DEF Operations, LogFires, LogTimeSliceFires
  <2>2. PICK k \in Nat \ {0} : /\ next = start + due * Power(b, k)
                             /\ next > time /\ next \in Int
    BY <1>1, <2>1, NextDue
  <2>3. b >= 2 /\ due >= 1
    BY <1>1, <2>1 DEF LogTimeSliceStuck
  <2> HIDE DEF next
  <2>4. logSlice'.start_time_ = start /\ logSlice'.interval = b /\ logSlice'.opt_time_ = next
    BY <1>1, <2>1 DEF LogSliceTypes
  <2> HIDE DEF start, b, due
  <2>5. Power(b, k) \in Int /\ due * Power(b, k) \in Int /\ next - start = due * Power(b, k)
    <3>1. Power(b, k) \in Int
      BY <1>1, PowerType
    <3> QED BY <1>1, <2>2, <3>1
  <2>6. next - start >= 1
    <3>1. Power(b, k) >= k + 1
      BY <1>1, <2>3, PowerGrows
    <3>2. \A x, z \in Int : x >= 1 /\ z >= 1 => x * z >= 1
      OBVIOUS
    <3> QED BY <1>1, <2>3, <2>5, <3>1, <3>2
  <2>7. /\ Len(logs') = Len(logs) + 1 /\ Len(logs) \in Nat /\ logs'[Len(logs')] = time
        /\ \A i \in 1..Len(logs) : logs'[i] = logs[i] /\ logs[i] \in Int
    BY <1>1, <2>1
  <2>8. ASSUME NEW i \in 2..Len(logs')
        PROVE  \E x \in (logs'[i - 1] + 1)..logs'[i] : \E m \in Nat :
                 x - start >= 1 /\ (x - start) * Power(b, m) = next - start
    <3>1. CASE i = Len(logs')
      <4>1. logs'[i - 1] = logs[Len(logs)] /\ logs'[i] = time /\ logs # <<>>
            /\ logs[Len(logs)] \in Int
        BY <1>1, <2>7, <2>8, <3>1
      <4>2. logSlice.opt_time_ > logs[Len(logs)]
        BY <4>1 DEF LogInv
      <4>3. logSlice.opt_time_ \in (logs'[i - 1] + 1)..logs'[i]
        <5>1. \A a, x, c \in Int : x > a /\ x <= c => x \in (a + 1)..c
          OBVIOUS
        <5>2. logSlice.opt_time_ \in Int /\ time \in Int
          BY <1>1
        <5>3. logSlice.opt_time_ <= time
          BY <2>1
        <5> QED BY <4>1, <4>2, <5>1, <5>2, <5>3
      <4>4. logSlice.opt_time_ - start = due
        BY DEF due, start
      <4> QED BY <2>3, <2>5, <4>3, <4>4
    <3>2. CASE i # Len(logs')
      <4>1. i \in 2..Len(logs) /\ i - 1 \in 1..Len(logs)
        BY <2>7, <2>8, <3>2
      <4>2. logs'[i - 1] = logs[i - 1] /\ logs'[i] = logs[i]
        BY <2>7, <4>1
      <4>3. PICK x \in (logs[i - 1] + 1)..logs[i], m \in Nat :
              x - start >= 1 /\ (x - start) * Power(b, m) = due
        BY <4>1 DEF LogInv, start, b, due
      <4>4. x \in Int /\ x - start \in Int /\ Power(b, m) \in Int /\ m + k \in Nat
        BY <1>1, <2>7, <4>1, <4>3, PowerType
      <4>5. Power(b, m + k) = Power(b, m) * Power(b, k)
        BY <1>1, PowerSum
      <4>6. \A u, v, w \in Int : u * (v * w) = (u * v) * w
        OBVIOUS
      <4>7. (x - start) * Power(b, m + k) = next - start
        BY <2>5, <4>3, <4>4, <4>5, <4>6
      <4> QED BY <4>2, <4>3, <4>4, <4>7
    <3> QED BY <3>1, <3>2
  <2> QED BY <1>1, <2>2, <2>3, <2>4, <2>6, <2>7, <2>8 DEF LogInv
<1> QED
  BY <1>2, <1>3

LEMMA LogNext == TypeOK /\ LogInv /\ [Next]_vars => LogInv'
<1> SUFFICES ASSUME TypeOK, LogInv, [Next]_vars PROVE LogInv'
  OBVIOUS
<1>1. Operations \/ UNCHANGED <<logSlice, logs>>
  BY DEF Next, Start, Refuse, ReachEnd, CheckStops, Advance, Finish, Stuck, RunAgain,
         vars, callbacks
<1>2. CASE UNCHANGED <<logSlice, logs>>
  BY <1>2 DEF LogInv
<1> QED
  BY <1>1, <1>2, LogOperations

(* Between two calls that a LogTimeSlice passes on there is an instant of   *)
(* its geometric sequence, for any interval, any steps and any number of    *)
(* runs.                                                                    *)
THEOREM SimulatorLogs == Spec => []LogOncePerInstant
<1>1. TypeOK /\ LogInv => LogOncePerInstant
  <2> SUFFICES ASSUME TypeOK, LogInv, NEW i \in 2..Len(logs)
               PROVE  LET start == logSlice.start_time_
                          due == logSlice.opt_time_ - start
                      IN  \E x \in (logs[i - 1] + 1)..logs[i] : \E m \in 0..due :
                            (x - start) * Power(logSlice.interval, m) = due
    BY DEF LogOncePerInstant
  <2> DEFINE start == logSlice.start_time_
             due == logSlice.opt_time_ - start
             b == logSlice.interval
  <2>1. /\ logs \in Seq(Int) /\ start \in Int /\ due \in Int /\ b \in Int
    BY DEF TypeOK
  <2>2. PICK x \in (logs[i - 1] + 1)..logs[i], m \in Nat :
          x - start >= 1 /\ (x - start) * Power(b, m) = due
    BY DEF LogInv
  <2>3. b >= 2
    <3>1. logs # <<>>
      BY <2>1
    <3> QED BY <3>1 DEF LogInv
  <2> HIDE DEF start, due, b
  <2>4. x - start \in Int /\ Power(b, m) \in Int /\ Power(b, m) >= m + 1
    <3>1. logs[i - 1] \in Int /\ logs[i] \in Int
      BY <2>1
    <3> QED BY <2>1, <2>2, <2>3, <3>1, PowerType, PowerGrows
  <2>5. \A u, v \in Int : u >= 1 /\ v >= 1 => u * v >= v
    OBVIOUS
  <2>6. m \in 0..due
    <3>1. Power(b, m) >= 1
      BY <2>4
    <3>2. (x - start) * Power(b, m) >= Power(b, m)
      BY <2>2, <2>4, <2>5, <3>1
    <3>3. due >= Power(b, m)
      BY <2>2, <3>2
    <3> QED BY <2>1, <2>4, <3>3
  <2> QED BY <2>2, <2>6 DEF start, due, b
<1>2. IInv => TypeOK
  BY DEF IInv
<1> QED
  BY <1>1, <1>2, Invariance, LogInit, LogNext, PTL DEF Spec

-----------------------------------------------------------------------------
(* Without regularization, before the end, and going forward.               *)
Forward ==
  slip = 0 =>
    /\ time <= EndTime
    /\ phase \in {"testing", "advancing"} => step > 0
    /\ phase = "advancing" => time < EndTime

LEMMA ForwardInit == ASSUME EndsAhead PROVE Init => Forward
BY DEF Init, Forward, EndsAhead, EndTime

LEMMA ForwardNext ==
  ASSUME EndsAhead
  PROVE  TypeOK /\ Forward /\ [Next]_vars => Forward'
<1> SUFFICES ASSUME TypeOK, Forward, [Next]_vars, slip' = 0
             PROVE  /\ time' <= EndTime'
                    /\ phase' \in {"testing", "advancing"} => step' > 0
                    /\ phase' = "advancing" => time' < EndTime'
  BY DEF Forward
<1>1. /\ EndTimes \in Seq(Int) /\ TimeTol \in Nat
      /\ time \in Int /\ step \in Int /\ run \in 1..Len(EndTimes) /\ EndTime \in Int
  BY SimulatorAssumption DEF TypeOK, EndTime
<1>2. slip = 0
  BY DEF Next, Start, Refuse, ReachEnd, CheckStops, Advance, Finish, Stuck, RunAgain, vars
<1>3. time <= EndTime
  BY <1>2 DEF Forward
<1>4. CASE Start
  BY <1>3, <1>4, SimulatorAssumption DEF Start, FirstSize, EndTime
<1>5. CASE ReachEnd \/ Finish \/ Stuck
  BY <1>3, <1>5 DEF ReachEnd, Finish, Stuck, EndTime
<1>6. CASE CheckStops
  <2>1. time # EndTime
    BY <1>1, <1>6 DEF CheckStops, AtEnd, Abs
  <2>2. time < EndTime /\ step > 0
    BY <1>1, <1>2, <1>3, <1>6, <2>1 DEF CheckStops, Forward
  <2> QED BY <1>6, <2>2, <1>1 DEF CheckStops, EndTime
<1>7. CASE Advance
  <2>1. step > 0 /\ time < EndTime
    BY <1>2, <1>7 DEF Advance, Forward
  <2>2. StepToTake \in 1..(EndTime - time)
    BY <1>1, <2>1 DEF StepToTake, Abs
  <2> HIDE DEF StepToTake
  <2>3. Abs(StepToTake) = StepToTake /\ Sign(StepToTake) = 1
    BY <1>1, <2>2 DEF Abs, Sign
  <2>4. time' <= EndTime
    <3>1. PICK e \in Elapsed(StepToTake) : time' = time + e
      BY <1>7 DEF Advance
    <3>2. PICK a \in 1..StepToTake, s \in -slip..slip : e = 1 * a + s
      BY <2>3, <3>1 DEF Elapsed
    <3>3. e <= StepToTake /\ e \in Int
      BY <1>1, <1>2, <2>2, <3>2
    <3> QED BY <1>1, <2>2, <3>1, <3>3
  <2>5. step' > 0
    <3>1. step' \in Proposed(StepToTake)
      BY <1>7 DEF Advance
    <3> QED BY <2>3, <3>1, SimulatorAssumption DEF Proposed
  <2>6. EndTime' = EndTime /\ phase' = "testing"
    BY <1>7 DEF Advance, EndTime
  <2> QED BY <2>4, <2>5, <2>6
<1>8. CASE RunAgain
  <2>1. run' = run + 1 /\ run \in 1..(Len(EndTimes) - 1) /\ time' = time
        /\ phase' = "starting"
    BY <1>1, <1>8 DEF RunAgain
  <2>2. EndTime <= EndTime' /\ EndTime' \in Int
    BY <1>1, <2>1 DEF EndsAhead, EndTime
  <2> QED BY <1>1, <1>3, <2>1, <2>2
<1>9. CASE UNCHANGED vars
  BY <1>2, <1>3, <1>9 DEF vars, Forward, EndTime
<1>10. ~Refuse
  BY <1>2 DEF Refuse
<1> QED
  BY <1>4, <1>5, <1>6, <1>7, <1>8, <1>9, <1>10 DEF Next

(* Without regularization the time does not pass the end, for end times     *)
(* that are given in order.                                                 *)
THEOREM SimulatorNeverPastEnd == ASSUME EndsAhead PROVE Spec => []NeverPastEnd
<1>1. IInv => TypeOK
  BY DEF IInv
<1>2. Forward => NeverPastEnd
  BY DEF Forward, NeverPastEnd
<1> QED
  BY <1>1, <1>2, Invariance, ForwardInit, ForwardNext, PTL DEF Spec

(* Without regularization no step of simulator.hpp:415-424 crosses the end  *)
(* time, wherever the run began and in whatever order the ends are given:   *)
(* a step is cut to the rest, of whichever sign the two are.                *)
THEOREM SimulatorNeverAcross == Spec => NeverAcross
<1> DEFINE Stays == /\ time <= EndTime => time' <= EndTime
                    /\ time >= EndTime => time' >= EndTime
<1>1. ASSUME TypeOK, Next, slip = 0, run' = run PROVE Stays
  <2>1. time \in Int /\ step \in Int /\ EndTime \in Int /\ EndTime' = EndTime
    BY <1>1, SimulatorAssumption DEF TypeOK, EndTime
  <2>2. CASE Advance
    <3>1. PICK e \in Elapsed(StepToTake) : time' = time + e
      BY <2>2 DEF Advance
    <3>2. /\ StepToTake \in Int
          /\ Abs(StepToTake) <= Abs(EndTime - time)
      BY <2>1 DEF StepToTake, Abs
    <3>3. step # 0 /\ (StepToTake = step \/ StepToTake = EndTime - time)
      BY <1>1, <2>2 DEF StepToTake, TypeOK, Advance
    <3> HIDE DEF StepToTake
    <3>4. PICK a \in 1..Abs(StepToTake) : e = Sign(StepToTake) * a
      BY <1>1, <3>1, <3>2 DEF Elapsed, Abs, Sign
    <3> QED BY <2>1, <3>1, <3>2, <3>3, <3>4 DEF Abs, Sign
  <2>3. CASE ~Advance
    <3>1. time' = time
      BY <1>1, <2>3 DEF Next, Start, Refuse, ReachEnd, CheckStops, Finish, Stuck, RunAgain
    <3> QED BY <2>1, <3>1
  <2> QED BY <2>2, <2>3
<1>2. TypeOK /\ [Next]_vars => [slip = 0 /\ run' = run => Stays]_vars
  BY <1>1
<1>3. IInv => TypeOK
  BY DEF IInv
<1> QED
  BY <1>2, <1>3, Invariance, PTL DEF Spec, NeverAcross

(* A step of the iterator brings the time nearer to the end.                *)
LEMMA AdvanceNearer ==
  ASSUME TypeOK, Forward, Advance, slip = 0
  PROVE  time' \in Int /\ time' >= time + 1
<1>1. /\ time \in Int /\ step \in Int /\ EndTime \in Int
  BY SimulatorAssumption DEF TypeOK, EndTime
<1>2. step > 0 /\ time < EndTime
  BY DEF Advance, Forward
<1>3. StepToTake \in Nat \ {0}
  BY <1>1, <1>2 DEF StepToTake, Abs
<1> HIDE DEF StepToTake
<1>4. Abs(StepToTake) = StepToTake /\ Sign(StepToTake) = 1
  BY <1>3 DEF Abs, Sign
<1>5. PICK e \in Elapsed(StepToTake) : time' = time + e
  BY DEF Advance
<1>6. PICK a \in 1..StepToTake, s \in -slip..slip : e = 1 * a + s
  BY <1>4, <1>5 DEF Elapsed
<1>7. e \in Int /\ e >= 1
  BY <1>3, <1>6
<1> QED
  BY <1>1, <1>5, <1>7

(* Without regularization a run has no pass through its loop, and no other  *)
(* step, that leaves as much to do as before: simulator.hpp:372-427 comes   *)
(* to its end from any state it is in, unless an operation does not return. *)
THEOREM SimulatorRunShrinks == ASSUME EndsAhead PROVE Spec => RunShrinks
<1>1. ASSUME TypeOK, Forward, Forward', Next, slip = 0, run' = run
      PROVE  RunLeft' \in 0..(RunLeft - 1)
  <2>1. time \in Int /\ EndTime \in Int /\ EndTime' = EndTime
    BY <1>1, SimulatorAssumption DEF TypeOK, EndTime
  <2>2. slip' = 0
    BY <1>1 DEF Next, Start, Refuse, ReachEnd, CheckStops, Advance, Finish, Stuck, RunAgain
  <2>3. time <= EndTime /\ time' <= EndTime
    BY <1>1, <2>1, <2>2 DEF Forward
  <2>4. CASE Start
    BY <2>1, <2>3, <2>4 DEF Start, RunLeft
  <2>5. CASE ReachEnd
    BY <2>1, <2>3, <2>5 DEF ReachEnd, RunLeft
  <2>6. CASE CheckStops
    BY <2>1, <2>3, <2>6 DEF CheckStops, RunLeft
  <2>7. CASE Advance
    <3>1. time' \in Int /\ time' >= time + 1
      BY <1>1, <2>7, AdvanceNearer
    <3>2. phase = "advancing" /\ phase' = "testing"
      BY <2>7 DEF Advance
    <3> QED BY <2>1, <2>3, <3>1, <3>2 DEF RunLeft
  <2>8. CASE Finish
    BY <2>1, <2>3, <2>8 DEF Finish, RunLeft
  <2>9. CASE Stuck
    BY <2>1, <2>3, <2>9 DEF Stuck, RunLeft
  <2>10. ~Refuse /\ ~RunAgain
    BY <1>1 DEF Refuse, RunAgain, TypeOK
  <2> QED
    BY <1>1, <2>4, <2>5, <2>6, <2>7, <2>8, <2>9, <2>10 DEF Next
<1>2. TypeOK /\ Forward /\ Forward' /\ [Next]_vars =>
        [slip = 0 /\ run' = run => RunLeft' \in 0..(RunLeft - 1)]_vars
  BY <1>1
<1>3. IInv => TypeOK
  BY DEF IInv
<1> QED
  BY <1>2, <1>3, Invariance, ForwardInit, ForwardNext, PTL DEF Spec, RunShrinks
==============================================================================
