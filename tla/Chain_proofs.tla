----------------------------- MODULE Chain_proofs -----------------------------
(***************************************************************************)
(* The chain: ChainSystem and ARchainSystem, for any number of particles,  *)
(* any forces, energies and steps, and any chains changed to; then the     *)
(* algorithm that finds a chain, ChainIndex, for any number of particles   *)
(* and every order of their distances.                                     *)
(*                                                                         *)
(* The chain and the Cartesian coordinates stay two views of one state,    *)
(* and the regularized chain implements the regularized Cartesian system,  *)
(* ReguSystem.  The transformations add up links one after the other; what *)
(* they compute is proved by induction, from the library's theorem WFMin   *)
(* on the order of the natural numbers.                                    *)
(*                                                                         *)
(* That the index found is complete needs two facts about the scan: a pair *)
(* is given up only when both of its particles are listed (Spent), and no  *)
(* pair behind the scan can attach a particle, the second nearest apart    *)
(* (Past).  At the end of the list of pairs a particle that is not listed  *)
(* would have a pair with the head and another one with the tail, and only *)
(* one of them can be the second nearest.  So the index is a permutation,  *)
(* which is all that ChainSystem takes of it.                              *)
(***************************************************************************)
EXTENDS ARchainSystem, ChainIndex, WellFoundedInduction, FiniteSetTheorems, TLAPS

-----------------------------------------------------------------------------
(* Induction: a set of numbers with 0 and the successor of each of its      *)
(* members holds all of them.                                               *)
Below == OpToRel(<, Nat)

LEMMA Induction ==
  ASSUME NEW T \in SUBSET Nat, 0 \in T, \A n \in T : n + 1 \in T
  PROVE  T = Nat
<1> SUFFICES ASSUME T # Nat PROVE FALSE
  OBVIOUS
<1>1. IsWellFoundedOn(Below, Nat)
  BY NatLessThanWellFounded DEF Below
<1>2. PICK n \in Nat \ T : \A m \in Nat \ T : ~(<<m, n>> \in Below)
  BY <1>1, WFMin
<1>3. n - 1 \in Nat \ T
  BY <1>2
<1>4. <<n - 1, n>> \in Below
  BY <1>3 DEF Below, OpToRel
<1> QED
  BY <1>2, <1>3, <1>4

(* The function a sum is taken from, and that there is one.                  *)
Sums(base, s, from, n) ==
  CHOOSE f : f = [i \in 0..n |-> IF i = 0 THEN base ELSE f[i - 1] + s[from + i - 1]]

LEMMA SumsExist ==
  ASSUME NEW base, NEW s, NEW from \in Nat, NEW n \in Nat
  PROVE  LET f == Sums(base, s, from, n)
         IN  f = [i \in 0..n |-> IF i = 0 THEN base ELSE f[i - 1] + s[from + i - 1]]
<1> DEFINE Is(f, m) == f = [i \in 0..m |-> IF i = 0 THEN base ELSE f[i - 1] + s[from + i - 1]]
           T == {m \in Nat : \E f : Is(f, m)}
<1>1. 0 \in T
  <2>1. Is([i \in 0..0 |-> base], 0)
    OBVIOUS
  <2> QED BY <2>1
<1>2. ASSUME NEW m \in T PROVE m + 1 \in T
  <2>1. PICK f : Is(f, m)
    OBVIOUS
  <2> DEFINE g == [i \in 0..(m + 1) |-> IF i <= m THEN f[i] ELSE f[m] + s[from + m]]
  <2>2. Is(g, m + 1)
    <3> SUFFICES ASSUME NEW i \in 0..(m + 1)
                 PROVE  g[i] = IF i = 0 THEN base ELSE g[i - 1] + s[from + i - 1]
      OBVIOUS
    <3>1. CASE i = m + 1
      <4>1. g[i] = f[m] + s[from + m] /\ g[i - 1] = f[m] /\ from + i - 1 = from + m
        BY <3>1
      <4> QED BY <4>1, <3>1
    <3>2. CASE i \in 0..m
      BY <2>1, <3>2
    <3> QED BY <3>1, <3>2
  <2> HIDE DEF Is, g
  <2> QED BY <2>2
<1>3. n \in T
  <2> HIDE DEF T
  <2>1. T \in SUBSET Nat
    BY DEF T
  <2> QED BY <1>1, <1>2, <2>1, Induction
<1> QED
  BY <1>3 DEF Sums

(* A longer sum goes through the shorter ones.                              *)
LEMMA SumsAgree ==
  ASSUME NEW base, NEW s, NEW from \in Nat, NEW n \in Nat, NEW m \in 0..n
  PROVE  Sums(base, s, from, n)[m] = Sums(base, s, from, m)[m]
<1> DEFINE F == Sums(base, s, from, n)
           G == Sums(base, s, from, m)
           T == {i \in Nat : i <= m => F[i] = G[i]}
<1>1. /\ F = [i \in 0..n |-> IF i = 0 THEN base ELSE F[i - 1] + s[from + i - 1]]
      /\ G = [i \in 0..m |-> IF i = 0 THEN base ELSE G[i - 1] + s[from + i - 1]]
  BY SumsExist
<1> HIDE DEF F, G
<1>2. 0 \in T
  BY <1>1
<1>3. ASSUME NEW i \in T PROVE i + 1 \in T
  <2> SUFFICES ASSUME i + 1 <= m PROVE F[i + 1] = G[i + 1]
    OBVIOUS
  <2>1. i + 1 \in 0..n /\ i + 1 \in 0..m /\ i + 1 # 0 /\ (i + 1) - 1 = i
    OBVIOUS
  <2> QED BY <1>1, <2>1
<1>4. T = Nat
  <2> HIDE DEF T
  <2> QED BY <1>2, <1>3, Induction DEF T
<1>5. F[m] = G[m]
  <2>1. m \in T
    BY <1>4
  <2> QED BY <2>1
<1> QED
  BY <1>5 DEF F, G

(* The two equations of Summed.                                             *)
LEMMA SummedNothing ==
  ASSUME NEW base, NEW s, NEW from \in Nat
  PROVE  Summed(base, s, from, 0) = base
<1>1. Sums(base, s, from, 0)[0] = base
  BY SumsExist
<1> QED
  BY <1>1 DEF Summed, Sums

LEMMA SummedNext ==
  ASSUME NEW base, NEW s, NEW from \in Nat, NEW n \in Nat
  PROVE  Summed(base, s, from, n + 1) = Summed(base, s, from, n) + s[from + n]
<1> DEFINE F == Sums(base, s, from, n + 1)
<1>1. n + 1 \in Nat
  OBVIOUS
<1>2. F = [i \in 0..(n + 1) |-> IF i = 0 THEN base ELSE F[i - 1] + s[from + i - 1]]
  BY <1>1, SumsExist
<1>3. F[n] = Sums(base, s, from, n)[n]
  BY SumsAgree
<1>4. F[n + 1] = F[n] + s[from + (n + 1) - 1]
  <2> HIDE DEF F
  <2> QED BY <1>2
<1>5. from + (n + 1) - 1 = from + n
  OBVIOUS
<1>6. \A m : Summed(base, s, from, m) = Sums(base, s, from, m)[m]
  BY DEF Summed, Sums
<1> QED
  BY <1>3, <1>4, <1>5, <1>6

-----------------------------------------------------------------------------
(* Vectors, as in SimpleSystem.                                             *)
LEMMA ZeroType == Zero \in Vector
BY DEF Zero, Vector

LEMMA AdvanceType ==
  ASSUME NEW v \in Vector, NEW a \in Vector, NEW h \in Int
  PROVE  Advance(v, a, h) \in Vector
<1>1. ASSUME NEW i \in Particles PROVE v[i] + h * a[i] \in Int
  BY DEF Vector
<1> QED
  BY <1>1 DEF Advance, Vector

LEMMA AdvanceZero ==
  ASSUME NEW v \in Vector
  PROVE  Advance(v, Zero, 1) = v
BY DEF Advance, Zero, Vector

(* Advancing by what a advances nothing by is advancing by a.               *)
LEMMA AdvanceFromZero ==
  ASSUME NEW u \in Vector, NEW a \in Vector, NEW h \in Int
  PROVE  Advance(u, Advance(Zero, a, h), 1) = Advance(u, a, h)
<1>1. ASSUME NEW i \in Particles PROVE u[i] + 1 * (0 + h * a[i]) = u[i] + h * a[i]
  <2>1. u[i] \in Int /\ h * a[i] \in Int
    BY DEF Vector
  <2> QED BY <2>1
<1> QED
  BY <1>1 DEF Advance, Zero

(* The same for what is advanced twice, as by the halves of a kick.         *)
LEMMA AdvanceTwice ==
  ASSUME NEW u \in Vector, NEW a \in Vector, NEW b \in Vector, NEW h \in Int
  PROVE  Advance(u, Advance(Advance(Zero, a, h), b, h), 1) = Advance(Advance(u, a, h), b, h)
<1>1. ASSUME NEW i \in Particles
      PROVE  u[i] + 1 * ((0 + h * a[i]) + h * b[i]) = (u[i] + h * a[i]) + h * b[i]
  <2>1. u[i] \in Int /\ h * a[i] \in Int /\ h * b[i] \in Int
    BY DEF Vector
  <2> QED BY <2>1
<1> QED
  BY <1>1 DEF Advance, Zero

-----------------------------------------------------------------------------
(* Places in the chain.                                                     *)
LEMMA Places ==
  /\ N \in Nat /\ N >= 2 /\ Last \in Nat /\ Last \in Particles /\ 0 \in Particles
  /\ \A i \in Particles : i \in Nat /\ i <= Last /\ (i # Last => i + 1 \in Particles)
  /\ \A i \in Nat : i <= Last => i \in Particles
BY ChainAssumption DEF Last, Particles

(* A chain has each particle at one place.                                  *)
LEMMA IndexType ==
  ASSUME NEW idx \in Indices
  PROVE  /\ \A i \in Particles : idx[i] \in Particles
         /\ \A p \in Particles : PlaceOf(p, idx) \in Particles /\ idx[PlaceOf(p, idx)] = p
         /\ \A i \in Particles : PlaceOf(idx[i], idx) = i
<1>1. /\ idx \in [Particles -> Particles]
      /\ \A i, j \in Particles : idx[i] = idx[j] => i = j
      /\ \A p \in Particles : \E i \in Particles : idx[i] = p
  BY DEF Indices, Bijection, Injection, Surjection, IsInjective
<1>2. \A p \in Particles : PlaceOf(p, idx) \in Particles /\ idx[PlaceOf(p, idx)] = p
  BY <1>1 DEF PlaceOf
<1> QED
  BY <1>1, <1>2

-----------------------------------------------------------------------------
(* What the loops over the links add up.  They stay within the links and    *)
(* integers.                                                                *)
LEMMA SummedType ==
  ASSUME NEW base \in Int, NEW ch \in Vector, NEW first \in Nat,
         NEW n \in Nat, first + n <= Last
  PROVE  Summed(base, ch, first, n) \in Int
<1> DEFINE T == {m \in Nat : first + m <= Last => Summed(base, ch, first, m) \in Int}
<1>1. 0 \in T
  BY SummedNothing
<1>2. ASSUME NEW m \in T PROVE m + 1 \in T
  <2> SUFFICES ASSUME first + (m + 1) <= Last
               PROVE  Summed(base, ch, first, m + 1) \in Int
    OBVIOUS
  <2>1. first + m \in Particles /\ first + m <= Last
    BY Places
  <2>2. ch[first + m] \in Int
    BY <2>1 DEF Vector
  <2>3. Summed(base, ch, first, m) \in Int
    BY <2>1
  <2>4. Summed(base, ch, first, m + 1) = Summed(base, ch, first, m) + ch[first + m]
    <3>1. m \in Nat
      OBVIOUS
    <3> HIDE DEF T
    <3> QED BY <3>1, SummedNext
  <2> QED BY <2>2, <2>3, <2>4
<1>3. n \in T
  <2>1. T \in SUBSET Nat
    OBVIOUS
  <2> HIDE DEF T
  <2> QED BY <1>1, <1>2, <2>1, Induction
<1> QED
  BY <1>3

LEMMA ToChainType ==
  ASSUME NEW c \in Vector, NEW idx \in Indices
  PROVE  ToChain(c, idx) \in Vector
<1>1. ASSUME NEW i \in Particles
      PROVE  (IF i = Last THEN c[idx[0]] ELSE c[idx[i + 1]] - c[idx[i]]) \in Int
  <2>1. idx[0] \in Particles /\ idx[i] \in Particles /\ (i # Last => idx[i + 1] \in Particles)
    BY IndexType, Places
  <2> QED BY <2>1 DEF Vector
<1> QED
  BY <1>1 DEF ToChain, Vector

LEMMA ToCartesianType ==
  ASSUME NEW ch \in Vector, NEW idx \in Indices
  PROVE  ToCartesian(ch, idx) \in Vector
<1>1. ASSUME NEW p \in Particles
      PROVE  Summed(ch[Last], ch, 0, PlaceOf(p, idx)) \in Int
  <2>1. ch[Last] \in Int
    BY Places DEF Vector
  <2>2. PlaceOf(p, idx) \in Nat /\ 0 + PlaceOf(p, idx) <= Last
    <3> DEFINE place == PlaceOf(p, idx)
    <3>1. place \in Particles
      BY IndexType
    <3> HIDE DEF place
    <3>2. place \in Nat /\ place <= Last
      BY <3>1, Places
    <3>3. 0 + place <= Last
      BY <3>2, Places
    <3> QED BY <3>2, <3>3 DEF place
  <2> QED BY <2>1, <2>2, SummedType
<1> QED
  BY <1>1 DEF ToCartesian, Vector

(* The links between two places of a chain add up to the difference of the  *)
(* particles there.                                                         *)
LEMMA Telescope ==
  ASSUME NEW c \in Vector, NEW idx \in Indices, NEW base \in Int, NEW first \in Nat,
         NEW n \in Nat, first + n <= Last
  PROVE  Summed(base, ToChain(c, idx), first, n) = base + (c[idx[first + n]] - c[idx[first]])
<1> DEFINE S(m) == Summed(base, ToChain(c, idx), first, m)
           T == {m \in Nat : first + m <= Last =>
                               S(m) = base + (c[idx[first + m]] - c[idx[first]])}
<1>0. \A i \in Particles : c[idx[i]] \in Int
  BY IndexType DEF Vector
<1>1. 0 \in T
  <2> SUFFICES ASSUME first + 0 <= Last PROVE S(0) = base + (c[idx[first + 0]] - c[idx[first]])
    OBVIOUS
  <2>1. first \in Particles /\ first + 0 = first
    BY Places
  <2>2. c[idx[first]] \in Int
    BY <1>0, <2>1
  <2>3. S(0) = base
    BY SummedNothing
  <2> QED BY <2>1, <2>2, <2>3
<1>2. ASSUME NEW m \in T PROVE m + 1 \in T
  <2> SUFFICES ASSUME first + (m + 1) <= Last
               PROVE  S(m + 1) = base + (c[idx[first + (m + 1)]] - c[idx[first]])
    OBVIOUS
  <2>1. /\ first \in Particles /\ first + m \in Particles /\ first + m # Last
        /\ first + m <= Last /\ first + (m + 1) \in Particles
        /\ first + (m + 1) = (first + m) + 1
    BY Places
  <2>2. ToChain(c, idx)[first + m] = c[idx[first + (m + 1)]] - c[idx[first + m]]
    BY <2>1 DEF ToChain
  <2>3. S(m + 1) = S(m) + ToChain(c, idx)[first + m]
    <3>1. m \in Nat
      OBVIOUS
    <3> HIDE DEF T
    <3> QED BY <3>1, SummedNext
  <2>4. S(m) = base + (c[idx[first + m]] - c[idx[first]])
    BY <2>1
  <2>5. /\ c[idx[first]] \in Int /\ c[idx[first + m]] \in Int
        /\ c[idx[first + (m + 1)]] \in Int
    BY <1>0, <2>1
  <2> HIDE DEF S
  <2> QED BY <2>2, <2>3, <2>4, <2>5
<1>3. n \in T
  <2>1. T \in SUBSET Nat
    OBVIOUS
  <2> HIDE DEF T
  <2> QED BY <1>1, <1>2, <2>1, Induction
<1> QED
  BY <1>3

(* The Cartesian coordinates come back from the chain, and the chain from   *)
(* the Cartesian ones.                                                      *)
LEMMA CartesianBack ==
  ASSUME NEW c \in Vector, NEW idx \in Indices
  PROVE  ToCartesian(ToChain(c, idx), idx) = c
<1> DEFINE ch == ToChain(c, idx)
<1>1. ASSUME NEW p \in Particles
      PROVE  Summed(ch[Last], ch, 0, PlaceOf(p, idx)) = c[p]
  <2>1. /\ PlaceOf(p, idx) \in Nat /\ 0 + PlaceOf(p, idx) <= Last
        /\ 0 + PlaceOf(p, idx) = PlaceOf(p, idx) /\ idx[PlaceOf(p, idx)] = p
    <3> DEFINE place == PlaceOf(p, idx)
    <3>1. place \in Particles /\ idx[place] = p
      BY IndexType
    <3> HIDE DEF place
    <3>2. place \in Nat /\ place <= Last /\ Last \in Nat
      BY <3>1, Places
    <3>3. 0 + place <= Last /\ 0 + place = place
      BY <3>2
    <3> QED BY <3>1, <3>2, <3>3 DEF place
  <2>2. ch[Last] = c[idx[0]] /\ c[idx[0]] \in Int /\ c[p] \in Int
    BY IndexType, Places DEF ToChain, Vector
  <2>3. Summed(ch[Last], ch, 0, PlaceOf(p, idx))
          = ch[Last] + (c[idx[0 + PlaceOf(p, idx)]] - c[idx[0]])
    BY <2>1, <2>2, Telescope
  <2> HIDE DEF ch
  <2> QED BY <2>1, <2>2, <2>3
<1>2. ToCartesian(ch, idx) = [p \in Particles |-> c[p]]
  BY <1>1 DEF ToCartesian
<1> QED
  BY <1>2 DEF Vector

LEMMA ChainBack ==
  ASSUME NEW ch \in Vector, NEW idx \in Indices
  PROVE  ToChain(ToCartesian(ch, idx), idx) = ch
<1> DEFINE c == ToCartesian(ch, idx)
           S(m) == Summed(ch[Last], ch, 0, m)
<1>1. \A i \in Particles : c[idx[i]] = S(i)
  BY IndexType DEF ToCartesian
<1>2. ASSUME NEW i \in Particles
      PROVE  (IF i = Last THEN c[idx[0]] ELSE c[idx[i + 1]] - c[idx[i]]) = ch[i]
  <2>1. CASE i = Last
    <3>1. c[idx[0]] = S(0)
      BY <1>1, Places
    <3>2. S(0) = ch[Last]
      BY SummedNothing
    <3> QED BY <2>1, <3>1, <3>2
  <2>2. CASE i # Last
    <3>1. i \in Nat /\ i + 1 \in Particles /\ 0 + i <= Last /\ 0 + i = i
      BY <2>2, Places
    <3>2. ch[Last] \in Int /\ ch[i] \in Int
      BY Places DEF Vector
    <3>3. S(i) \in Int
      BY <3>1, <3>2, SummedType
    <3>4. S(i + 1) = S(i) + ch[0 + i]
      BY <3>1, SummedNext
    <3>5. c[idx[i + 1]] = S(i + 1) /\ c[idx[i]] = S(i)
      BY <1>1, <3>1
    <3> HIDE DEF c, S
    <3> QED BY <2>2, <3>1, <3>2, <3>3, <3>4, <3>5
  <2> QED BY <2>1, <2>2
<1>3. ToChain(c, idx) = [i \in Particles |-> ch[i]]
  BY <1>2 DEF ToChain
<1> QED
  BY <1>3 DEF Vector

(* Both transformations are linear.                                         *)
LEMMA ToChainLinear ==
  ASSUME NEW c \in Vector, NEW a \in Vector, NEW h \in Int, NEW idx \in Indices
  PROVE  ToChain(Advance(c, a, h), idx) = Advance(ToChain(c, idx), ToChain(a, idx), h)
<1> DEFINE At(v, i) == IF i = Last THEN v[idx[0]] ELSE v[idx[i + 1]] - v[idx[i]]
<1>1. ASSUME NEW i \in Particles
      PROVE  At(Advance(c, a, h), i) = At(c, i) + h * At(a, i)
  <2>1. idx[0] \in Particles /\ idx[i] \in Particles /\ (i # Last => idx[i + 1] \in Particles)
    BY IndexType, Places
  <2>2. \A p \in Particles :
          c[p] \in Int /\ a[p] \in Int /\ Advance(c, a, h)[p] = c[p] + h * a[p]
    BY DEF Vector, Advance
  <2>3. CASE i = Last
    BY <2>1, <2>2, <2>3
  <2>4. CASE i # Last
    <3> DEFINE p == idx[i] q == idx[i + 1]
    <3>1. p \in Particles /\ q \in Particles
      BY <2>1, <2>4
    <3> HIDE DEF p, q
    <3>2. (c[q] + h * a[q]) - (c[p] + h * a[p]) = (c[q] - c[p]) + h * (a[q] - a[p])
      <4>1. c[p] \in Int /\ c[q] \in Int /\ a[p] \in Int /\ a[q] \in Int
        BY <2>2, <3>1
      <4>2. \A m, l \in Int : h * (m - l) = h * m - h * l /\ h * m \in Int /\ h * l \in Int
        OBVIOUS
      <4>3. h * (a[q] - a[p]) = h * a[q] - h * a[p] /\ h * a[q] \in Int /\ h * a[p] \in Int
        BY <4>1, <4>2
      <4> QED BY <4>1, <4>3
    <3>3. Advance(c, a, h)[q] - Advance(c, a, h)[p] = (c[q] - c[p]) + h * (a[q] - a[p])
      BY <2>2, <3>1, <3>2
    <3> QED BY <2>4, <3>3 DEF p, q
  <2> QED BY <2>3, <2>4
<1>2. \A v : ToChain(v, idx) = [i \in Particles |-> At(v, i)]
  BY DEF ToChain
<1> HIDE DEF At
<1>3. ToChain(Advance(c, a, h), idx) = [i \in Particles |-> At(c, i) + h * At(a, i)]
  BY <1>1, <1>2
<1>4. Advance(ToChain(c, idx), ToChain(a, idx), h) = [i \in Particles |-> At(c, i) + h * At(a, i)]
  BY <1>2 DEF Advance
<1> QED
  BY <1>3, <1>4

LEMMA ToCartesianLinear ==
  ASSUME NEW ch \in Vector, NEW d \in Vector, NEW h \in Int, NEW idx \in Indices
  PROVE  ToCartesian(Advance(ch, d, h), idx)
           = Advance(ToCartesian(ch, idx), ToCartesian(d, idx), h)
<1> DEFINE c == ToCartesian(ch, idx) a == ToCartesian(d, idx)
<1>1. c \in Vector /\ a \in Vector
  BY ToCartesianType
<1>2. ToChain(c, idx) = ch /\ ToChain(a, idx) = d
  BY ChainBack
<1> HIDE DEF c, a
<1>3. ToChain(Advance(c, a, h), idx) = Advance(ch, d, h)
  BY <1>1, <1>2, ToChainLinear
<1>4. ToCartesian(Advance(ch, d, h), idx) = Advance(c, a, h)
  BY <1>1, <1>3, AdvanceType, CartesianBack
<1> QED
  BY <1>4 DEF c, a

LEMMA ZeroBoth ==
  ASSUME NEW idx \in Indices
  PROVE  ToChain(Zero, idx) = Zero /\ ToCartesian(Zero, idx) = Zero
<1>1. ASSUME NEW i \in Particles
      PROVE  (IF i = Last THEN Zero[idx[0]] ELSE Zero[idx[i + 1]] - Zero[idx[i]]) = 0
  <2>1. idx[0] \in Particles /\ idx[i] \in Particles /\ (i # Last => idx[i + 1] \in Particles)
    BY IndexType, Places
  <2>2. \A p \in Particles : Zero[p] = 0
    BY DEF Zero
  <2> QED BY <2>1, <2>2
<1>2. ToChain(Zero, idx) = Zero
  BY <1>1 DEF ToChain, Zero
<1> QED
  BY <1>2, CartesianBack, ZeroType

(* A link of a new chain is found from the links of the old one, whichever  *)
(* of its ends came first there.                                            *)
LEMMA NewNodeIs ==
  ASSUME NEW c \in Vector, NEW idx \in Indices, NEW a \in Particles, NEW b \in Particles
  PROVE  NewNode(ToChain(c, idx), a, b) = c[idx[b]] - c[idx[a]]
<1>1. a \in Nat /\ b \in Nat /\ a <= Last /\ b <= Last
  BY Places
<1>2. c[idx[a]] \in Int /\ c[idx[b]] \in Int
  BY IndexType DEF Vector
<1>3. CASE a < b
  <2>1. b - a \in Nat /\ a + (b - a) = b
    BY <1>1, <1>3
  <2>2. Summed(0, ToChain(c, idx), a, b - a) = 0 + (c[idx[b]] - c[idx[a]])
    BY <1>1, <2>1, Telescope
  <2> QED BY <1>2, <1>3, <2>2 DEF NewNode
<1>4. CASE ~(a < b)
  <2>1. a - b \in Nat /\ b + (a - b) = a
    BY <1>1, <1>4
  <2>2. Summed(0, ToChain(c, idx), b, a - b) = 0 + (c[idx[a]] - c[idx[b]])
    BY <1>1, <2>1, Telescope
  <2> QED BY <1>2, <1>4, <2>2 DEF NewNode
<1> QED
  BY <1>3, <1>4

(* update_chain makes of the old chain what to_chain makes of the           *)
(* Cartesian coordinates, for any new index.                                *)
LEMMA UpdateIsToChain ==
  ASSUME NEW c \in Vector, NEW idx \in Indices, NEW new \in Indices
  PROVE  UpdateChain(ToChain(c, idx), c, idx, new) = ToChain(c, new)
<1>1. ASSUME NEW i \in Particles, i # Last
      PROVE  NewNode(ToChain(c, idx), PlaceOf(new[i], idx), PlaceOf(new[i + 1], idx))
               = c[new[i + 1]] - c[new[i]]
  <2>1. new[i] \in Particles /\ new[i + 1] \in Particles
    BY <1>1, IndexType, Places
  <2>2. /\ PlaceOf(new[i], idx) \in Particles /\ idx[PlaceOf(new[i], idx)] = new[i]
        /\ PlaceOf(new[i + 1], idx) \in Particles /\ idx[PlaceOf(new[i + 1], idx)] = new[i + 1]
    BY <2>1, IndexType
  <2> QED BY <2>2, NewNodeIs
<1> QED
  BY <1>1 DEF UpdateChain, ToChain

-----------------------------------------------------------------------------
(* The types.  Forces are vectors of integers, energies and the times of a  *)
(* step integers, as for SimpleSystem.                                      *)
AccTypes == \A p, v \in Vector : Acc(p, v) \in Vector

EnergyTypes ==
  /\ \A v \in Vector : Newtonian(v) \in Vector /\ Kinetic(v) \in Int /\ Potential(v) \in Int
  /\ \A v, a \in Vector : Contract(v, a) \in Int
  /\ \A sc \in Int : Slow(sc) \in Int

State == [time : Int, pos : Vector, vel : Vector, aux : Vector]

Regu == [omega : Int, bindE : Int]

TypeOK ==
  /\ cart \in State /\ chain \in State /\ increment \in State /\ y \in State
  /\ index \in Indices /\ yIndex \in Indices /\ incIndex \in Indices
  /\ velDep \in BOOLEAN

ReguTypeOK == regu \in Regu /\ scale \in Int /\ yRegu \in Regu /\ reguInc \in Regu

(* The array and the increment are read with the index they were written    *)
(* with.                                                                    *)
SameIndex ==
  /\ pc \in {"written", "moving"} => yIndex = index
  /\ pc = "moving" => incIndex = index

(* Without velocity dependent forces the auxiliary velocity is nothing.     *)
NoAux ==
  ~velDep => cart.aux = Zero /\ chain.aux = Zero /\ y.aux = Zero /\ increment.aux = Zero

IInv == TypeOK /\ TwoViews /\ SameIndex /\ NoAux

LEMMA NoStateType == NoState \in State
BY ZeroType DEF NoState, State

LEMMA PlusType ==
  ASSUME NEW s \in State, NEW d \in State
  PROVE  Plus(s, d) \in State
<1>1. /\ s.time + d.time \in Int
      /\ s.pos \in Vector /\ s.vel \in Vector /\ s.aux \in Vector
      /\ d.pos \in Vector /\ d.vel \in Vector /\ d.aux \in Vector
  BY DEF State
<1>2. /\ Advance(s.pos, d.pos, 1) \in Vector /\ Advance(s.vel, d.vel, 1) \in Vector
      /\ Advance(s.aux, d.aux, 1) \in Vector
  BY <1>1, AdvanceType, 1 \in Int
<1> QED
  BY <1>1, <1>2 DEF Plus, State

(* The transformations of a state.                                          *)
LEMMA InChainType ==
  ASSUME NEW s \in State, NEW idx \in Indices
  PROVE  InChain(s, idx) \in State
BY ToChainType DEF InChain, State

LEMMA InCartesianType ==
  ASSUME NEW s \in State, NEW idx \in Indices
  PROVE  InCartesian(s, idx) \in State
BY ToCartesianType DEF InCartesian, State

LEMMA InCartesianPlus ==
  ASSUME NEW s \in State, NEW d \in State, NEW idx \in Indices
  PROVE  InCartesian(Plus(s, d), idx) = Plus(InCartesian(s, idx), InCartesian(d, idx))
<1>2. /\ s.pos \in Vector /\ s.vel \in Vector /\ s.aux \in Vector
      /\ d.pos \in Vector /\ d.vel \in Vector /\ d.aux \in Vector /\ 1 \in Int
  BY DEF State
<1>3. /\ ToCartesian(Advance(s.pos, d.pos, 1), idx)
           = Advance(ToCartesian(s.pos, idx), ToCartesian(d.pos, idx), 1)
      /\ ToCartesian(Advance(s.vel, d.vel, 1), idx)
           = Advance(ToCartesian(s.vel, idx), ToCartesian(d.vel, idx), 1)
      /\ ToCartesian(Advance(s.aux, d.aux, 1), idx)
           = Advance(ToCartesian(s.aux, idx), ToCartesian(d.aux, idx), 1)
  BY <1>2, ToCartesianLinear
<1> QED
  BY <1>3 DEF InCartesian, Plus

LEMMA InCartesianNothing ==
  ASSUME NEW idx \in Indices
  PROVE  InCartesian(NoState, idx) = NoState
BY ZeroBoth DEF InCartesian, NoState

-----------------------------------------------------------------------------
(* The invariant is kept by each action.                                    *)
LEMMA InitInv == Init => IInv
<1> SUFFICES ASSUME Init PROVE IInv
  OBVIOUS
<1>1. index \in Indices /\ velDep \in BOOLEAN
  BY ChainSystemAssumption DEF Init
<1>2. cart \in State
  BY ChainSystemAssumption, ZeroType DEF Init, State
<1>3. chain \in State /\ chain.pos = ToChain(cart.pos, index)
      /\ chain.vel = ToChain(cart.vel, index) /\ chain.aux = ToChain(cart.aux, index)
  BY <1>1, <1>2, InChainType DEF InChain, Init
<1>4. TypeOK
  BY <1>1, <1>2, <1>3, NoStateType DEF Init, TypeOK
<1>5. TwoViews
  <2>1. cart.pos \in Vector /\ cart.vel \in Vector
    BY <1>2 DEF State
  <2> QED BY <1>1, <1>3, <2>1, CartesianBack DEF TwoViews, Init
<1>6. NoAux
  BY <1>1, <1>3, ZeroBoth DEF Init, NoAux, NoState
<1>7. SameIndex
  BY DEF Init, SameIndex
<1> QED
  BY <1>4, <1>5, <1>6, <1>7 DEF IInv

(* A state's fields.                                                        *)
LEMMA Fields ==
  ASSUME NEW s \in State
  PROVE  /\ s.time \in Int /\ s.pos \in Vector /\ s.vel \in Vector /\ s.aux \in Vector
         /\ s = [time |-> s.time, pos |-> s.pos, vel |-> s.vel, aux |-> s.aux]
BY DEF State

LEMMA WithPosVel ==
  ASSUME NEW s \in State, NEW p \in Vector, NEW v \in Vector
  PROVE  [s EXCEPT !.pos = p, !.vel = v] = [time |-> s.time, pos |-> p, vel |-> v, aux |-> s.aux]
<1> DEFINE t == [s EXCEPT !.pos = p, !.vel = v]
<1>1. t \in State
  BY DEF State
<1>2. t.time = s.time /\ t.pos = p /\ t.vel = v /\ t.aux = s.aux
  BY DEF State
<1> HIDE DEF t
<1> QED
  BY <1>1, <1>2, Fields DEF t

LEMMA WithVelAux ==
  ASSUME NEW s \in State, NEW v \in Vector, NEW x \in Vector
  PROVE  [s EXCEPT !.vel = v, !.aux = x] = [time |-> s.time, pos |-> s.pos, vel |-> v, aux |-> x]
<1> DEFINE t == [s EXCEPT !.vel = v, !.aux = x]
<1>1. t \in State
  BY DEF State
<1>2. t.time = s.time /\ t.pos = s.pos /\ t.vel = v /\ t.aux = x
  BY DEF State
<1> HIDE DEF t
<1> QED
  BY <1>1, <1>2, Fields DEF t

LEMMA WithTimePos ==
  ASSUME NEW s \in State, NEW t \in Int, NEW p \in Vector
  PROVE  [s EXCEPT !.time = t, !.pos = p] = [time |-> t, pos |-> p, vel |-> s.vel, aux |-> s.aux]
<1> DEFINE r == [s EXCEPT !.time = t, !.pos = p]
<1>1. r \in State
  BY DEF State
<1>2. r.time = t /\ r.pos = p /\ r.vel = s.vel /\ r.aux = s.aux
  BY DEF State
<1> HIDE DEF r
<1> QED
  BY <1>1, <1>2, Fields DEF r

-----------------------------------------------------------------------------
(* A vector in chain coordinates and one in Cartesian ones that are two     *)
(* views of the same stay so when both are moved by two views of the same.  *)
LEMMA ViewsMove ==
  ASSUME NEW c \in Vector, NEW d \in Vector, NEW idx \in Indices
  PROVE  /\ ToChain(Advance(c, ToCartesian(d, idx), 1), idx) = Advance(ToChain(c, idx), d, 1)
         /\ ToCartesian(Advance(ToChain(c, idx), d, 1), idx) = Advance(c, ToCartesian(d, idx), 1)
<1>1. ToCartesian(d, idx) \in Vector /\ ToChain(c, idx) \in Vector /\ 1 \in Int
  BY ToCartesianType, ToChainType
<1>2. ToChain(ToCartesian(d, idx), idx) = d /\ ToCartesian(ToChain(c, idx), idx) = c
  BY ChainBack, CartesianBack
<1> QED
  BY <1>1, <1>2, ToChainLinear, ToCartesianLinear

(* A drift or a kick by d, in chain coordinates, of both views and of the   *)
(* increment.                                                               *)
Moved(d) ==
  /\ pc = "moving"
  /\ d \in State
  /\ ~velDep => d.aux = Zero
  /\ chain' \in State
  /\ chain'.pos = Advance(chain.pos, d.pos, 1)
  /\ chain'.vel = Advance(chain.vel, d.vel, 1)
  /\ chain'.aux = Advance(chain.aux, d.aux, 1)
  /\ cart' = Plus(cart, InCartesian(d, index))
  /\ Sync(d)
  /\ UNCHANGED <<index, y, pc, velDep, yIndex, incIndex>>

LEMMA MovedInv ==
  ASSUME NEW d, IInv, Moved(d)
  PROVE  /\ IInv'
         /\ InCartesian(increment, incIndex)' =
              IF collecting THEN Plus(InCartesian(increment, incIndex), InCartesian(d, index))
              ELSE InCartesian(increment, incIndex)
<1>1. /\ cart \in State /\ chain \in State /\ increment \in State /\ d \in State
      /\ index \in Indices /\ incIndex = index
  BY DEF IInv, TypeOK, Moved, SameIndex
<1>2. /\ Plus(increment, d) \in State
      /\ InCartesian(d, index) \in State /\ Plus(cart, InCartesian(d, index)) \in State
  BY <1>1, PlusType, InCartesianType
<1>3. /\ chain' \in State
      /\ chain'.pos = Advance(chain.pos, d.pos, 1) /\ chain'.vel = Advance(chain.vel, d.vel, 1)
      /\ chain'.aux = Advance(chain.aux, d.aux, 1)
  BY DEF Moved
<1>4. /\ cart' \in State
      /\ cart'.pos = Advance(cart.pos, ToCartesian(d.pos, index), 1)
      /\ cart'.vel = Advance(cart.vel, ToCartesian(d.vel, index), 1)
      /\ cart'.aux = Advance(cart.aux, ToCartesian(d.aux, index), 1)
  BY <1>2 DEF Moved, Plus, InCartesian
<1>5. increment' \in State
  BY <1>1, <1>2 DEF Moved, Sync
<1>6. TypeOK'
  BY <1>3, <1>4, <1>5 DEF IInv, TypeOK, Moved
<1>7. TwoViews'
  <2>1. /\ chain.pos = ToChain(cart.pos, index) /\ chain.vel = ToChain(cart.vel, index)
        /\ chain.aux = ToChain(cart.aux, index)
    BY DEF IInv, TwoViews, Moved
  <2>2. /\ cart.pos \in Vector /\ cart.vel \in Vector /\ cart.aux \in Vector
        /\ d.pos \in Vector /\ d.vel \in Vector /\ d.aux \in Vector
    BY <1>1, Fields
  <2>3. /\ chain'.pos = ToChain(cart'.pos, index) /\ cart'.pos = ToCartesian(chain'.pos, index)
        /\ chain'.vel = ToChain(cart'.vel, index) /\ cart'.vel = ToCartesian(chain'.vel, index)
        /\ chain'.aux = ToChain(cart'.aux, index) /\ cart'.aux = ToCartesian(chain'.aux, index)
    BY <1>1, <1>3, <1>4, <2>1, <2>2, ViewsMove
  <2>4. index' = index
    BY DEF Moved
  <2> QED BY <2>3, <2>4 DEF TwoViews
<1>8. SameIndex'
  BY DEF IInv, SameIndex, Moved
<1>9. NoAux'
  <2> SUFFICES ASSUME ~velDep
               PROVE  /\ cart'.aux = Zero /\ chain'.aux = Zero
                      /\ y'.aux = Zero /\ increment'.aux = Zero
    BY DEF NoAux, Moved
  <2>1. /\ cart.aux = Zero /\ chain.aux = Zero /\ y.aux = Zero
        /\ increment.aux = Zero /\ d.aux = Zero
    BY DEF IInv, NoAux, Moved
  <2>2. Advance(Zero, Zero, 1) = Zero
    BY AdvanceZero, ZeroType
  <2>3. ToCartesian(Zero, index) = Zero
    BY <1>1, ZeroBoth
  <2>4. increment' = Plus(increment, d) \/ increment' = increment
    BY DEF Moved, Sync
  <2>5. increment'.aux = Zero
    BY <2>1, <2>2, <2>4 DEF Plus
  <2> QED BY <1>3, <1>4, <2>1, <2>2, <2>3, <2>5 DEF Moved
<1>10. InCartesian(increment, incIndex)' =
         IF collecting THEN Plus(InCartesian(increment, incIndex), InCartesian(d, index))
         ELSE InCartesian(increment, incIndex)
  <2>1. incIndex' = incIndex
    BY DEF Moved
  <2>2. InCartesian(Plus(increment, d), incIndex)
          = Plus(InCartesian(increment, incIndex), InCartesian(d, index))
    BY <1>1, InCartesianPlus
  <2>3. InCartesian(increment, incIndex)' = InCartesian(increment', incIndex')
    BY DEF InCartesian
  <2>4. increment' = IF collecting THEN Plus(increment, d) ELSE increment
    BY DEF Moved, Sync
  <2> QED BY <2>1, <2>2, <2>3, <2>4
<1> QED
  BY <1>6, <1>7, <1>8, <1>9, <1>10 DEF IInv

-----------------------------------------------------------------------------
(* A drift and a kick of the chain, as states in chain coordinates.  Their  *)
(* Cartesian views are the drift and the kick of SimpleSystem.              *)
LEMMA SameOperators ==
  /\ CartesianRegu!Zero = Zero /\ CartesianRegu!NoState = NoState
  /\ \A v, a, h : CartesianRegu!Advance(v, a, h) = Advance(v, a, h)
  /\ \A s, d : CartesianRegu!Plus(s, d) = Plus(s, d)
BY DEF CartesianRegu!Zero, CartesianRegu!NoState, CartesianRegu!Advance, CartesianRegu!Plus,
       CartesianRegu!Particles, Zero, NoState, Advance, Plus, Particles

ChainDrift(h) == [NoState EXCEPT !.time = h, !.pos = Advance(Zero, chain.vel, h)]

LEMMA DriftMoves ==
  ASSUME IInv, NEW h \in Int, Drift(h)
  PROVE  /\ Moved(ChainDrift(h))
         /\ InCartesian(ChainDrift(h), index) = CartesianRegu!DriftOf(cart, h)
<1> DEFINE d == [time |-> h, pos |-> Advance(Zero, chain.vel, h), vel |-> Zero, aux |-> Zero]
           e == [time |-> h, pos |-> Advance(Zero, cart.vel, h), vel |-> Zero, aux |-> Zero]
<1>1. /\ cart \in State /\ chain \in State /\ index \in Indices /\ pc = "moving"
      /\ cart.vel \in Vector /\ chain.vel \in Vector /\ chain.pos \in Vector
      /\ cart.pos \in Vector /\ cart.aux \in Vector /\ chain.aux \in Vector
      /\ cart.time \in Int /\ Zero \in Vector
  BY ZeroType, Fields DEF IInv, TypeOK, Drift
<1>2. /\ cart.vel = ToCartesian(chain.vel, index) /\ cart.pos = ToCartesian(chain.pos, index)
  BY DEF IInv, TwoViews
<1>3. Advance(Zero, chain.vel, h) \in Vector /\ Advance(Zero, cart.vel, h) \in Vector
  BY <1>1, AdvanceType
<1>4. ChainDrift(h) = d /\ CartesianRegu!DriftOf(cart, h) = e
  <2>1. [NoState EXCEPT !.time = h, !.pos = Advance(Zero, chain.vel, h)] = d
    BY <1>3, NoStateType, WithTimePos DEF NoState
  <2>2. [NoState EXCEPT !.time = h, !.pos = Advance(Zero, cart.vel, h)] = e
    BY <1>3, NoStateType, WithTimePos DEF NoState
  <2>3. CartesianRegu!DriftOf(cart, h)
          = [NoState EXCEPT !.time = h, !.pos = Advance(Zero, cart.vel, h)]
    BY SameOperators DEF CartesianRegu!DriftOf
  <2> QED BY <2>1, <2>2, <2>3 DEF ChainDrift
<1>5. InCartesian(d, index) = e
  <2>1. ToCartesian(Advance(Zero, chain.vel, h), index) = Advance(Zero, cart.vel, h)
    BY <1>1, <1>2, ToCartesianLinear, ZeroBoth
  <2> QED BY <1>1, <2>1, ZeroBoth DEF InCartesian
<1>6. d \in State
  BY <1>1, <1>3 DEF State
<1>7. /\ chain' \in State
      /\ chain'.pos = Advance(chain.pos, d.pos, 1) /\ chain'.vel = Advance(chain.vel, d.vel, 1)
      /\ chain'.aux = Advance(chain.aux, d.aux, 1)
  <2>1. Advance(chain.pos, chain.vel, h) \in Vector
    BY <1>1, AdvanceType
  <2>2. chain' = [chain EXCEPT !.pos = Advance(chain.pos, chain.vel, h)]
    BY DEF Drift
  <2>3. /\ chain' \in State /\ chain'.pos = Advance(chain.pos, chain.vel, h)
        /\ chain'.vel = chain.vel /\ chain'.aux = chain.aux
    BY <1>1, <2>1, <2>2 DEF State
  <2> QED BY <1>1, <2>3, AdvanceFromZero, AdvanceZero
<1>8. cart' = Plus(cart, e)
  <2>1. chain'.pos = Advance(chain.pos, chain.vel, h)
    BY <1>1 DEF Drift, State
  <2>2. ToCartesian(chain'.pos, index) = Advance(cart.pos, cart.vel, h)
    BY <1>1, <1>2, <2>1, ToCartesianLinear
  <2>3. cart' = [cart EXCEPT !.time = cart.time + h, !.pos = Advance(cart.pos, cart.vel, h)]
    BY <2>2 DEF Drift
  <2>4. Advance(cart.pos, cart.vel, h) \in Vector /\ cart.time + h \in Int
    <3>1. cart.time + h \in Int
      BY <1>1
    <3> QED BY <1>1, <3>1, AdvanceType
  <2>5. cart' = [time |-> cart.time + h, pos |-> Advance(cart.pos, cart.vel, h),
                 vel |-> cart.vel, aux |-> cart.aux]
    BY <1>1, <2>3, <2>4, WithTimePos
  <2> QED BY <1>1, <2>5, AdvanceFromZero, AdvanceZero DEF Plus
<1> HIDE DEF d, e
<1>9. Sync(d) /\ UNCHANGED <<index, y, pc, velDep, yIndex, incIndex>>
  <2>1. Sync(ChainDrift(h))
    BY DEF Drift, ChainDrift
  <2> QED BY <1>4, <2>1 DEF Drift
<1>10. d.aux = Zero
  BY DEF d
<1>11. Moved(d)
  BY <1>1, <1>5, <1>6, <1>7, <1>8, <1>9, <1>10 DEF Moved
<1> QED
  BY <1>4, <1>5, <1>11

(* The kick without velocity dependent forces.                              *)
LEMMA KickVelMoves ==
  ASSUME IInv, AccTypes, NEW h \in Int, ~velDep, Kick(h)
  PROVE  LET d == [NoState EXCEPT !.vel = Advance(Zero, ChainAcc(Zero), h)]
         IN  Moved(d) /\ InCartesian(d, index) = CartesianRegu!KickOf(cart, h)
<1> DEFINE A == Acc(cart.pos, Zero)
           a == ToChain(A, index)
           d == [time |-> 0, pos |-> Zero, vel |-> Advance(Zero, a, h), aux |-> Zero]
           e == [time |-> 0, pos |-> Zero, vel |-> Advance(Zero, A, h), aux |-> Zero]
<1>1. /\ cart \in State /\ chain \in State /\ index \in Indices /\ pc = "moving"
      /\ cart.vel \in Vector /\ chain.vel \in Vector /\ chain.pos \in Vector
      /\ cart.pos \in Vector /\ cart.aux \in Vector /\ chain.aux \in Vector
      /\ cart.time \in Int /\ Zero \in Vector
  BY ZeroType, Fields DEF IInv, TypeOK, Kick
<1>2. A \in Vector /\ a \in Vector /\ ToCartesian(a, index) = A
  BY <1>1, ToChainType, CartesianBack DEF AccTypes
<1>3. a = ChainAcc(Zero)
  BY DEF ChainAcc
<1>4. cart.vel = ToCartesian(chain.vel, index)
  BY DEF IInv, TwoViews
<1>5. [NoState EXCEPT !.vel = Advance(Zero, a, h)] = d
  BY DEF NoState
<1>6. CartesianRegu!KickOf(cart, h) = e
  BY SameOperators DEF CartesianRegu!KickOf, NoState
<1> HIDE DEF A, a
<1>7. Advance(Zero, a, h) \in Vector /\ Advance(Zero, A, h) \in Vector
  BY <1>1, <1>2, AdvanceType
<1>8. InCartesian(d, index) = e
  <2>1. ToCartesian(Advance(Zero, a, h), index) = Advance(Zero, A, h)
    BY <1>1, <1>2, ToCartesianLinear, ZeroBoth
  <2> QED BY <1>1, <2>1, ZeroBoth DEF InCartesian
<1>9. d \in State /\ d.aux = Zero
  BY <1>1, <1>7 DEF State
<1>10. /\ chain' = [chain EXCEPT !.vel = Advance(chain.vel, a, h)]
       /\ cart' = [cart EXCEPT !.vel = ToCartesian(chain'.vel, index)]
       /\ Sync([NoState EXCEPT !.vel = Advance(Zero, a, h)])
       /\ UNCHANGED <<index, y, pc, velDep, yIndex, incIndex>>
  BY <1>3 DEF Kick, KickVel
<1>11. /\ chain' \in State
       /\ chain'.pos = Advance(chain.pos, d.pos, 1) /\ chain'.vel = Advance(chain.vel, d.vel, 1)
       /\ chain'.aux = Advance(chain.aux, d.aux, 1)
  <2>1. Advance(chain.vel, a, h) \in Vector
    BY <1>1, <1>2, AdvanceType
  <2>2. /\ chain' \in State /\ chain'.vel = Advance(chain.vel, a, h)
        /\ chain'.pos = chain.pos /\ chain'.aux = chain.aux
    BY <1>1, <1>10, <2>1 DEF State
  <2> QED BY <1>1, <1>2, <2>2, AdvanceFromZero, AdvanceZero
<1>12. cart' = Plus(cart, e)
  <2>1. chain'.vel = Advance(chain.vel, a, h)
    BY <1>1, <1>10 DEF State
  <2>2. ToCartesian(chain'.vel, index) = Advance(cart.vel, A, h)
    BY <1>1, <1>2, <1>4, <2>1, ToCartesianLinear
  <2>3. cart' = [cart EXCEPT !.vel = Advance(cart.vel, A, h)]
    BY <1>10, <2>2
  <2>4. Advance(cart.vel, A, h) \in Vector
    BY <1>1, <1>2, AdvanceType
  <2>5. cart' = [time |-> cart.time, pos |-> cart.pos,
                 vel |-> Advance(cart.vel, A, h), aux |-> cart.aux]
    BY <1>1, <2>3, <2>4 DEF State
  <2> QED BY <1>1, <1>2, <2>5, AdvanceFromZero, AdvanceZero DEF Plus
<1> HIDE DEF d, e
<1>13. Moved(d)
  BY <1>1, <1>5, <1>8, <1>9, <1>10, <1>11, <1>12 DEF Moved
<1> QED
  BY <1>3, <1>5, <1>6, <1>8, <1>13

(* The kick with them: the forces are those of three Cartesian velocities.  *)
LEMMA KickBothMoves ==
  ASSUME IInv, AccTypes, NEW h \in Int, velDep, Kick(h)
  PROVE  \E d : Moved(d) /\ InCartesian(d, index) = CartesianRegu!KickOf(cart, h)
<1> DEFINE half == h \div 2
           A1 == Acc(cart.pos, cart.aux)
           V1 == Advance(cart.vel, A1, half)
           A2 == Acc(cart.pos, V1)
           X2 == Advance(cart.aux, A2, h)
           A3 == Acc(cart.pos, X2)
           a1 == ToChain(A1, index)
           v1 == Advance(chain.vel, a1, half)
           a2 == ToChain(A2, index)
           x2 == Advance(chain.aux, a2, h)
           a3 == ToChain(A3, index)
           vel == Advance(v1, a3, half)
           dvel == Advance(Advance(Zero, a1, half), a3, half)
           daux == Advance(Zero, a2, h)
           d == [time |-> 0, pos |-> Zero, vel |-> dvel, aux |-> daux]
           evel == Advance(Advance(Zero, A1, half), A3, half)
           eaux == Advance(Zero, A2, h)
           e == [time |-> 0, pos |-> Zero, vel |-> evel, aux |-> eaux]
<1>1. /\ cart \in State /\ chain \in State /\ index \in Indices /\ pc = "moving"
      /\ cart.vel \in Vector /\ chain.vel \in Vector /\ chain.pos \in Vector
      /\ cart.pos \in Vector /\ cart.aux \in Vector /\ chain.aux \in Vector
      /\ cart.time \in Int /\ Zero \in Vector
  BY ZeroType, Fields DEF IInv, TypeOK, Kick
<1>2. half \in Int
  OBVIOUS
<1>3. /\ cart.vel = ToCartesian(chain.vel, index)
      /\ cart.aux = ToCartesian(chain.aux, index)
  BY <1>1 DEF IInv, TwoViews
<1>4. A1 \in Vector /\ V1 \in Vector
  <2>1. A1 \in Vector
    BY <1>1 DEF AccTypes
  <2> HIDE DEF A1, half
  <2> QED BY <1>1, <1>2, <2>1, AdvanceType
<1>5. A2 \in Vector /\ X2 \in Vector
  <2>1. A2 \in Vector
    BY <1>1, <1>4 DEF AccTypes
  <2> HIDE DEF A2
  <2> QED BY <1>1, <2>1, AdvanceType
<1>6. A3 \in Vector
  BY <1>1, <1>5 DEF AccTypes
<1>7. CartesianRegu!KickOf(cart, h) = e
  <2>2. CartesianRegu!KickOf(cart, h) = [NoState EXCEPT !.vel = evel, !.aux = eaux]
    BY SameOperators DEF CartesianRegu!KickOf
  <2>3. evel \in Vector /\ eaux \in Vector
    <3> HIDE DEF A1, A2, A3, half
    <3>1. Advance(Zero, A1, half) \in Vector
      BY <1>1, <1>2, <1>4, AdvanceType
    <3> QED BY <1>1, <1>2, <1>5, <1>6, <3>1, AdvanceType
  <2> HIDE DEF evel, eaux
  <2> QED BY <2>2, <2>3, NoStateType, WithVelAux DEF NoState
<1>8. /\ ChainAcc(cart.aux) = a1
      /\ ChainAcc(ToCartesian(v1, index)) = a2
      /\ ChainAcc(ToCartesian(x2, index)) = a3
      /\ ToCartesian(v1, index) = V1 /\ ToCartesian(x2, index) = X2
  <2>1. ToCartesian(v1, index) = V1
    <3> HIDE DEF A1, half
    <3>1. a1 \in Vector /\ ToCartesian(a1, index) = A1
      BY <1>1, <1>4, ToChainType, CartesianBack
    <3> HIDE DEF a1
    <3> QED BY <1>1, <1>2, <1>3, <3>1, ToCartesianLinear
  <2>2. ToCartesian(x2, index) = X2
    <3> HIDE DEF A2
    <3>1. a2 \in Vector /\ ToCartesian(a2, index) = A2
      BY <1>1, <1>5, ToChainType, CartesianBack
    <3> HIDE DEF a2
    <3> QED BY <1>1, <1>3, <3>1, ToCartesianLinear
  <2> HIDE DEF v1, x2, V1, X2
  <2> QED BY <2>1, <2>2 DEF ChainAcc
<1>9. /\ chain' = [chain EXCEPT !.vel = vel, !.aux = x2]
      /\ cart' = [cart EXCEPT !.vel = ToCartesian(vel, index),
                              !.aux = ToCartesian(x2, index)]
      /\ Sync([NoState EXCEPT !.vel = dvel, !.aux = daux])
      /\ UNCHANGED <<index, y, pc, velDep, yIndex, incIndex>>
  <2>1. KickBoth(h) /\ UNCHANGED <<index, y, pc, velDep, yIndex, incIndex>>
    BY DEF Kick
  <2>2. /\ ChainAcc(ToCartesian(Advance(chain.vel, ChainAcc(cart.aux), half), index)) = a2
        /\ Advance(chain.vel, ChainAcc(cart.aux), half) = v1
    BY <1>8
  <2> HIDE DEF a1, a2, a3, half
  <2> QED BY <1>8, <2>1, <2>2 DEF KickBoth, half
<1>10. a1 \in Vector /\ a2 \in Vector /\ a3 \in Vector
       /\ ToCartesian(a1, index) = A1 /\ ToCartesian(a2, index) = A2
       /\ ToCartesian(a3, index) = A3
  <2> HIDE DEF A1, A2, A3
  <2> QED BY <1>1, <1>4, <1>5, <1>6, ToChainType, CartesianBack
<1> HIDE DEF a1, a2, a3, A1, A2, A3, half
<1>11. /\ v1 \in Vector /\ vel \in Vector /\ x2 \in Vector
       /\ Advance(Zero, a1, half) \in Vector /\ dvel \in Vector /\ daux \in Vector
  <2>1. v1 \in Vector /\ x2 \in Vector /\ Advance(Zero, a1, half) \in Vector /\ daux \in Vector
    BY <1>1, <1>2, <1>10, AdvanceType
  <2> HIDE DEF v1
  <2> QED BY <1>2, <1>10, <2>1, AdvanceType
<1>12. vel = Advance(chain.vel, dvel, 1) /\ x2 = Advance(chain.aux, daux, 1)
  BY <1>1, <1>2, <1>10, AdvanceTwice, AdvanceFromZero
<1>13. ToCartesian(dvel, index) = evel /\ ToCartesian(daux, index) = eaux
  <2>1. ToCartesian(Advance(Zero, a1, half), index) = Advance(Zero, A1, half)
    BY <1>1, <1>2, <1>10, ToCartesianLinear, ZeroBoth
  <2>2. ToCartesian(dvel, index) = evel
    BY <1>1, <1>2, <1>10, <1>11, <2>1, ToCartesianLinear
  <2>3. ToCartesian(daux, index) = eaux
    BY <1>1, <1>10, ToCartesianLinear, ZeroBoth
  <2> QED BY <2>2, <2>3
<1>14. /\ ToCartesian(vel, index) = Advance(cart.vel, evel, 1)
       /\ ToCartesian(x2, index) = Advance(cart.aux, eaux, 1)
  <2>1. /\ ToCartesian(Advance(chain.vel, dvel, 1), index)
             = Advance(ToCartesian(chain.vel, index), ToCartesian(dvel, index), 1)
        /\ ToCartesian(Advance(chain.aux, daux, 1), index)
             = Advance(ToCartesian(chain.aux, index), ToCartesian(daux, index), 1)
    BY <1>1, <1>11, ToCartesianLinear, 1 \in Int
  <2> QED BY <1>3, <1>12, <1>13, <2>1
<1>15. evel \in Vector /\ eaux \in Vector
  BY <1>1, <1>11, <1>13, ToCartesianType
<1> HIDE DEF vel, x2, dvel, daux, evel, eaux, v1
<1>16. InCartesian(d, index) = e
  BY <1>1, <1>13, ZeroBoth DEF InCartesian
<1>17. d \in State
  BY <1>1, <1>11 DEF State
<1>18. /\ chain' \in State
       /\ chain'.pos = Advance(chain.pos, d.pos, 1) /\ chain'.vel = Advance(chain.vel, d.vel, 1)
       /\ chain'.aux = Advance(chain.aux, d.aux, 1)
  <2>1. chain' = [time |-> chain.time, pos |-> chain.pos, vel |-> vel, aux |-> x2]
    BY <1>1, <1>9, <1>11, WithVelAux
  <2>2. chain' \in State
    BY <1>1, <1>11, <2>1 DEF State
  <2> QED BY <1>1, <1>12, <2>1, <2>2, AdvanceZero
<1>19. cart' = Plus(cart, e)
  <2>1. ToCartesian(vel, index) \in Vector /\ ToCartesian(x2, index) \in Vector
    BY <1>1, <1>11, ToCartesianType
  <2>2. cart' = [time |-> cart.time, pos |-> cart.pos, vel |-> ToCartesian(vel, index),
                 aux |-> ToCartesian(x2, index)]
    BY <1>1, <1>9, <2>1, WithVelAux
  <2> QED BY <1>1, <1>14, <2>2, AdvanceZero DEF Plus
<1>20. Sync(d)
  <2>1. [NoState EXCEPT !.vel = dvel, !.aux = daux] = d
    BY <1>11, NoStateType, WithVelAux DEF NoState
  <2> QED BY <1>9, <2>1
<1> HIDE DEF d, e
<1>21. Moved(d)
  BY <1>1, <1>9, <1>16, <1>17, <1>18, <1>19, <1>20 DEF Moved
<1> QED
  BY <1>7, <1>16, <1>21

-----------------------------------------------------------------------------
(* Each action keeps the invariant and is, in Cartesian coordinates, the    *)
(* action of SimpleSystem of the same name.                                 *)
LEMMA PreIterStep == ASSUME IInv, PreIter PROVE IInv' /\ CartesianRegu!PreIter
<1>1. /\ cart \in State /\ chain \in State /\ velDep \in BOOLEAN /\ index \in Indices
      /\ cart' = [cart EXCEPT !.aux = IF velDep THEN cart.vel ELSE cart.aux]
      /\ chain' = [chain EXCEPT !.aux = IF velDep THEN chain.vel ELSE chain.aux]
      /\ UNCHANGED <<index, increment, collecting, y, ops, velDep, yIndex, incIndex>>
  BY DEF IInv, TypeOK, PreIter, RefreshAux
<1>2. /\ cart' \in State /\ cart'.pos = cart.pos /\ cart'.vel = cart.vel
      /\ cart'.aux = (IF velDep THEN cart.vel ELSE cart.aux)
      /\ chain' \in State /\ chain'.pos = chain.pos /\ chain'.vel = chain.vel
      /\ chain'.aux = (IF velDep THEN chain.vel ELSE chain.aux)
  BY <1>1 DEF State
<1>3. TypeOK' /\ SameIndex'
  BY <1>1, <1>2 DEF IInv, TypeOK, SameIndex, PreIter
<1>4. NoAux'
  BY <1>1, <1>2 DEF IInv, NoAux
<1>5. TwoViews'
  BY <1>1, <1>2, ZeroBoth DEF IInv, TwoViews, NoAux
<1>6. CartesianRegu!PreIter
  BY <1>1 DEF PreIter, CartesianRegu!PreIter, InCartesian
<1> QED
  BY <1>3, <1>4, <1>5, <1>6 DEF IInv

LEMMA WriteStep == ASSUME IInv, Write PROVE IInv' /\ CartesianRegu!Write
<1>1. /\ cart \in State /\ chain \in State /\ index \in Indices /\ pc = "prepared"
      /\ y' = [chain EXCEPT !.time = cart.time] /\ yIndex' = index
      /\ UNCHANGED <<cart, chain, index, increment, ops, iters, velDep, incIndex>>
  BY DEF IInv, TypeOK, Write
<1>2. /\ y' \in State /\ y'.time = cart.time /\ y'.pos = chain.pos /\ y'.vel = chain.vel
      /\ y'.aux = chain.aux
  BY <1>1 DEF State
<1>3. IInv'
  <2>1. TypeOK' /\ SameIndex'
    BY <1>1, <1>2 DEF IInv, TypeOK, SameIndex, Write
  <2>2. TwoViews'
    BY <1>1 DEF IInv, TwoViews
  <2>3. NoAux'
    BY <1>1, <1>2 DEF IInv, NoAux
  <2> QED BY <2>1, <2>2, <2>3 DEF IInv
<1>4. InCartesian(y, yIndex)' = cart
  <2>1. InCartesian(y', yIndex') =
          [time |-> cart.time, pos |-> cart.pos, vel |-> cart.vel, aux |-> cart.aux]
    BY <1>1, <1>2 DEF InCartesian, IInv, TwoViews
  <2>2. InCartesian(y, yIndex)' = InCartesian(y', yIndex')
    BY DEF InCartesian
  <2> QED BY <1>1, <2>1, <2>2, Fields
<1>5. InCartesian(increment, incIndex)' = InCartesian(increment, incIndex)
  BY <1>1 DEF InCartesian
<1> QED
  BY <1>3, <1>4, <1>5 DEF Write, CartesianRegu!Write

LEMMA ClearStep == ASSUME IInv, ClearIncrement PROVE IInv' /\ CartesianRegu!ClearIncrement
<1>1. IInv'
  <2>1. /\ increment' = NoState /\ incIndex' = index /\ pc = "written" /\ pc' = "moving"
        /\ UNCHANGED <<cart, chain, index, y, velDep, yIndex>>
    BY DEF ClearIncrement
  <2>2. TypeOK' /\ SameIndex'
    BY <2>1, NoStateType DEF IInv, TypeOK, SameIndex
  <2>3. TwoViews'
    BY <2>1 DEF IInv, TwoViews
  <2>4. NoAux'
    BY <2>1 DEF IInv, NoAux, NoState
  <2> QED BY <2>2, <2>3, <2>4 DEF IInv
<1>2. InCartesian(increment, incIndex)' = CartesianRegu!NoState
  <2>1. index \in Indices /\ increment' = NoState /\ incIndex' = index
    BY DEF IInv, TypeOK, ClearIncrement
  <2>2. InCartesian(increment, incIndex)' = InCartesian(increment', incIndex')
    BY DEF InCartesian
  <2> QED BY <2>1, <2>2, InCartesianNothing, SameOperators
<1>3. InCartesian(y, yIndex)' = InCartesian(y, yIndex)
  BY DEF ClearIncrement, InCartesian
<1> QED
  BY <1>1, <1>2, <1>3 DEF ClearIncrement, CartesianRegu!ClearIncrement

LEMMA DriftStep ==
  ASSUME IInv, NEW h \in Int, Drift(h)
  PROVE  IInv' /\ CartesianRegu!Drift(h)
<1> DEFINE d == ChainDrift(h)
<1>1. Moved(d) /\ InCartesian(d, index) = CartesianRegu!DriftOf(cart, h)
  BY DriftMoves
<1> HIDE DEF d
<1>2. IInv'
  BY <1>1, MovedInv
<1>3. CartesianRegu!Move(CartesianRegu!DriftOf(cart, h))
  BY <1>1, MovedInv, SameOperators DEF CartesianRegu!Move, Moved
<1>4. InCartesian(y, yIndex)' = InCartesian(y, yIndex)
  BY DEF Drift, InCartesian
<1> QED
  BY <1>2, <1>3, <1>4 DEF Drift, CartesianRegu!Drift

LEMMA KickStep ==
  ASSUME IInv, AccTypes, NEW h \in Int, Kick(h)
  PROVE  IInv' /\ CartesianRegu!Kick(h)
<1>1. PICK d : Moved(d) /\ InCartesian(d, index) = CartesianRegu!KickOf(cart, h)
  <2>1. velDep \in BOOLEAN
    BY DEF IInv, TypeOK
  <2>2. CASE velDep
    BY <2>2, KickBothMoves
  <2>3. CASE ~velDep
    BY <2>3, KickVelMoves
  <2> QED BY <2>1, <2>2, <2>3
<1>2. IInv'
  BY <1>1, MovedInv
<1>3. CartesianRegu!Move(CartesianRegu!KickOf(cart, h))
  BY <1>1, MovedInv, SameOperators DEF CartesianRegu!Move, Moved
<1>4. InCartesian(y, yIndex)' = InCartesian(y, yIndex)
  BY DEF Kick, InCartesian
<1> QED
  BY <1>2, <1>3, <1>4 DEF Kick, CartesianRegu!Kick

(* read_from_scalar_array, of a state in the coordinates of the present     *)
(* chain.                                                                   *)
LEMMA ReadViews ==
  ASSUME IInv, NEW s \in State, Read(s), pc' # "between", index' = index
  PROVE  cart' = InCartesian(s, index) /\ cart' \in State /\ chain' \in State /\ TwoViews'
         /\ cart'.aux = ToCartesian(s.aux, index) /\ chain'.aux = s.aux
<1>1. chain \in State /\ index \in Indices /\ chain.time \in Int
  BY Fields DEF IInv, TypeOK
<1>2. cart' = InCartesian(s, index) /\ chain' = [s EXCEPT !.time = chain.time]
  BY DEF Read
<1>3. /\ cart'.pos = ToCartesian(s.pos, index) /\ cart'.vel = ToCartesian(s.vel, index)
      /\ cart'.aux = ToCartesian(s.aux, index)
  BY <1>2 DEF InCartesian
<1>4. /\ chain' \in State
      /\ chain'.pos = s.pos /\ chain'.vel = s.vel /\ chain'.aux = s.aux
  BY <1>1, <1>2 DEF State
<1>5. /\ ToChain(ToCartesian(s.pos, index), index) = s.pos
      /\ ToChain(ToCartesian(s.vel, index), index) = s.vel
      /\ ToChain(ToCartesian(s.aux, index), index) = s.aux
  BY <1>1, Fields, ChainBack
<1> QED
  BY <1>1, <1>2, <1>3, <1>4, <1>5, InCartesianType DEF TwoViews

LEMMA ReadBackStep == ASSUME IInv, ReadBack PROVE IInv' /\ CartesianRegu!ReadBack
<1>1. /\ y \in State /\ index \in Indices /\ yIndex = index
      /\ Read(y) /\ pc' = "written"
      /\ UNCHANGED <<index, increment, collecting, y, ops, iters, velDep, yIndex, incIndex>>
  BY DEF IInv, TypeOK, SameIndex, ReadBack
<1>2. /\ cart' = InCartesian(y, yIndex) /\ cart' \in State /\ chain' \in State /\ TwoViews'
      /\ cart'.aux = ToCartesian(y.aux, index) /\ chain'.aux = y.aux
  BY <1>1, ReadViews
<1>3. NoAux'
  BY <1>1, <1>2, ZeroBoth DEF IInv, NoAux
<1>4. IInv'
  BY <1>1, <1>2, <1>3 DEF IInv, TypeOK, SameIndex
<1>5. /\ InCartesian(y, yIndex)' = InCartesian(y, yIndex)
      /\ InCartesian(increment, incIndex)' = InCartesian(increment, incIndex)
  BY <1>1 DEF InCartesian
<1> QED
  BY <1>1, <1>2, <1>4, <1>5 DEF ReadBack, CartesianRegu!ReadBack

LEMMA AcceptStep == ASSUME IInv, Accept PROVE IInv' /\ CartesianRegu!Accept
<1>1. /\ y \in State /\ increment \in State /\ index \in Indices
      /\ yIndex = index /\ incIndex = index
      /\ y' = Plus(y, increment) /\ Read(y') /\ pc' = "accepted"
      /\ UNCHANGED <<index, increment, ops, iters, velDep, yIndex, incIndex>>
  BY DEF IInv, TypeOK, SameIndex, Accept
<1>2. y' \in State
  BY <1>1, PlusType
<1>3. /\ cart' = InCartesian(y', index) /\ cart' \in State /\ chain' \in State /\ TwoViews'
      /\ cart'.aux = ToCartesian(y'.aux, index) /\ chain'.aux = y'.aux
  <2>1. Read(y') /\ pc' # "between" /\ index' = index
    BY <1>1
  <2> QED BY <1>2, <2>1, ReadViews
<1>4. NoAux'
  <2> SUFFICES ASSUME ~velDep
               PROVE  /\ cart'.aux = Zero /\ chain'.aux = Zero
                      /\ y'.aux = Zero /\ increment'.aux = Zero
    BY <1>1 DEF NoAux
  <2>1. y.aux = Zero /\ increment.aux = Zero
    BY DEF IInv, NoAux
  <2>2. y'.aux = Zero
    BY <1>1, <2>1, AdvanceZero, ZeroType DEF Plus
  <2> QED BY <1>1, <1>3, <2>1, <2>2, ZeroBoth
<1>5. IInv'
  BY <1>1, <1>2, <1>3, <1>4 DEF IInv, TypeOK, SameIndex
<1>6. InCartesian(y, yIndex)'
        = CartesianRegu!Plus(InCartesian(y, yIndex), InCartesian(increment, incIndex))
  <2>1. InCartesian(y, yIndex)' = InCartesian(y', index)
    BY <1>1 DEF InCartesian
  <2>2. InCartesian(y', index) = Plus(InCartesian(y, yIndex), InCartesian(increment, incIndex))
    BY <1>1, InCartesianPlus
  <2> QED BY <2>1, <2>2, SameOperators
<1>7. /\ cart' = InCartesian(y, yIndex)'
      /\ InCartesian(increment, incIndex)' = InCartesian(increment, incIndex)
  BY <1>1, <1>3 DEF InCartesian
<1> QED
  BY <1>5, <1>6, <1>7 DEF Accept, CartesianRegu!Accept

(* A change of the chain leaves the Cartesian coordinates as they are.      *)
LEMMA PostIterStep == ASSUME IInv, PostIter PROVE IInv' /\ CartesianRegu!PostIter
<1>1. /\ cart \in State /\ chain \in State /\ index \in Indices /\ index' \in Indices
      /\ pc' = "between"
      /\ UNCHANGED <<increment, collecting, y, ops, iters, velDep, yIndex, incIndex>>
  BY DEF IInv, TypeOK, PostIter
<1>2. /\ cart' = cart /\ chain' \in State /\ chain'.aux = chain.aux
      /\ chain'.pos = ToChain(cart.pos, index') /\ chain'.vel = ToChain(cart.vel, index')
  <2>1. /\ chain.pos = ToChain(cart.pos, index) /\ chain.vel = ToChain(cart.vel, index)
        /\ cart.pos \in Vector /\ cart.vel \in Vector
    BY <1>1, Fields DEF IInv, TwoViews
  <2>2. CASE index' = index
    BY <1>1, <2>1, <2>2 DEF PostIter
  <2>3. CASE index' # index
    <3> DEFINE p == UpdateChain(chain.pos, cart.pos, index, index')
               v == UpdateChain(chain.vel, cart.vel, index, index')
    <3>1. p = ToChain(cart.pos, index') /\ v = ToChain(cart.vel, index')
      BY <1>1, <2>1, UpdateIsToChain
    <3>2. p \in Vector /\ v \in Vector
      BY <1>1, <2>1, <3>1, ToChainType
    <3>3. /\ chain' = [chain EXCEPT !.pos = p, !.vel = v]
          /\ cart' = [cart EXCEPT !.pos = ToCartesian(chain'.pos, index'),
                                  !.vel = ToCartesian(chain'.vel, index')]
      BY <2>3 DEF PostIter, Reindex
    <3> HIDE DEF p, v
    <3>4. chain' = [time |-> chain.time, pos |-> p, vel |-> v, aux |-> chain.aux]
      BY <1>1, <3>2, <3>3, WithPosVel
    <3>5. chain' \in State /\ chain'.aux = chain.aux /\ chain'.pos = p /\ chain'.vel = v
      BY <1>1, <3>2, <3>4, Fields DEF State
    <3>6. ToCartesian(p, index') = cart.pos /\ ToCartesian(v, index') = cart.vel
      BY <1>1, <2>1, <3>1, CartesianBack
    <3>7. cart' = [cart EXCEPT !.pos = cart.pos, !.vel = cart.vel]
      BY <3>3, <3>5, <3>6
    <3>8. cart' = cart
      <4>1. [cart EXCEPT !.pos = cart.pos, !.vel = cart.vel]
              = [time |-> cart.time, pos |-> cart.pos, vel |-> cart.vel, aux |-> cart.aux]
        BY <1>1, <2>1, WithPosVel, ZenonT(30)
      <4>2. cart = [time |-> cart.time, pos |-> cart.pos, vel |-> cart.vel, aux |-> cart.aux]
        BY <1>1, Fields
      <4> QED BY <3>7, <4>1, <4>2
    <3> QED BY <3>1, <3>5, <3>8
  <2> QED BY <2>2, <2>3
<1>3. TwoViews'
  BY <1>1, <1>2, Fields, CartesianBack DEF TwoViews
<1>4. NoAux'
  BY <1>1, <1>2 DEF IInv, NoAux
<1>5. IInv'
  BY <1>1, <1>2, <1>3, <1>4 DEF IInv, TypeOK, SameIndex
<1>6. /\ InCartesian(y, yIndex)' = InCartesian(y, yIndex)
      /\ InCartesian(increment, incIndex)' = InCartesian(increment, incIndex)
  BY <1>1 DEF InCartesian
<1> QED
  BY <1>1, <1>2, <1>5, <1>6 DEF PostIter, CartesianRegu!PostIter

LEMMA StutterStep == ASSUME IInv, UNCHANGED vars PROVE IInv' /\ UNCHANGED CartesianRegu!vars
<1>1. /\ InCartesian(y, yIndex)' = InCartesian(y, yIndex)
      /\ InCartesian(increment, incIndex)' = InCartesian(increment, incIndex)
  BY DEF vars, InCartesian
<1> QED
  BY <1>1 DEF vars, IInv, TypeOK, TwoViews, SameIndex, NoAux, CartesianRegu!vars

-----------------------------------------------------------------------------
(* The regularization.  omega and bindE get from the chain what they get    *)
(* from the Cartesian system, since the velocities and the forces are the   *)
(* same.                                                                    *)
LEMMA ReguPlusType ==
  ASSUME NEW r \in Regu, NEW d \in Regu
  PROVE  ReguPlus(r, d) \in Regu
BY DEF ReguPlus, Regu

LEMMA TimeTypes ==
  ASSUME IInv, EnergyTypes, ReguTypeOK, NEW h \in Int
  PROVE  /\ PosScale \in Int /\ VelScale \in Int
         /\ PhyTime(h, PosScale) \in Int /\ PhyTime(h, VelScale) \in Int
<1>1. /\ cart.vel \in Vector /\ cart.pos \in Vector
      /\ regu.omega \in Int /\ regu.bindE \in Int /\ scale \in Int
  BY Fields DEF IInv, TypeOK, ReguTypeOK, Regu
<1>2. Kinetic(cart.vel) \in Int /\ Potential(cart.pos) \in Int
  BY <1>1 DEF EnergyTypes
<1>3. PosScale \in Int /\ VelScale \in Int
  BY <1>1, <1>2 DEF PosScale, VelScale
<1>4. \A sc \in Int : Slow(sc) \in Int /\ h * Slow(sc) \in Int
  BY DEF EnergyTypes
<1> QED
  BY <1>3, <1>4 DEF PhyTime

LEMMA ReguAdvanceType ==
  ASSUME IInv, AccTypes, EnergyTypes, NEW v \in Vector, NEW a \in Vector, NEW t \in Int
  PROVE  ReguAdvance(v, a, t) \in Regu
<1>1. cart.pos \in Vector
  BY Fields DEF IInv, TypeOK
<1>2. Newtonian(cart.pos) \in Vector /\ Acc(cart.pos, a) \in Vector /\ -1 \in Int
  BY <1>1 DEF AccTypes, EnergyTypes
<1>3. Advance(Acc(cart.pos, a), Newtonian(cart.pos), -1) \in Vector
  BY <1>2, AdvanceType
<1>4. OmegaRate(v) \in Int /\ BindERate(v, a) \in Int
  BY <1>2, <1>3 DEF EnergyTypes, OmegaRate, BindERate
<1>5. OmegaRate(v) * t \in Int /\ BindERate(v, a) * t \in Int
  BY <1>4
<1> QED
  BY <1>5 DEF ReguAdvance, Regu

(* The Cartesian velocity after a kick of the chain's.                      *)
LEMMA KickedIs ==
  ASSUME IInv, AccTypes, NEW v \in Vector, NEW t \in Int
  PROVE  /\ Kicked(ChainAcc(v), t) = Advance(cart.vel, Acc(cart.pos, v), t)
         /\ Kicked(ChainAcc(v), t) \in Vector
<1> DEFINE A == Acc(cart.pos, v)
<1>1. /\ index \in Indices /\ chain.vel \in Vector /\ cart.vel \in Vector
      /\ cart.pos \in Vector /\ cart.vel = ToCartesian(chain.vel, index)
  BY Fields DEF IInv, TypeOK, TwoViews
<1>2. A \in Vector
  BY <1>1 DEF AccTypes
<1>3. ChainAcc(v) = ToChain(A, index)
  BY DEF ChainAcc
<1> HIDE DEF A
<1>4. ToChain(A, index) \in Vector /\ ToCartesian(ToChain(A, index), index) = A
  BY <1>1, <1>2, ToChainType, CartesianBack
<1>5. ToCartesian(Advance(chain.vel, ToChain(A, index), t), index) = Advance(cart.vel, A, t)
  BY <1>1, <1>4, ToCartesianLinear
<1>6. Advance(cart.vel, A, t) \in Vector
  BY <1>1, <1>2, AdvanceType
<1> QED
  BY <1>3, <1>5, <1>6 DEF Kicked, A

LEMMA ReguAdvanceIs ==
  ASSUME NEW v, NEW a, NEW t
  PROVE  ReguAdvance(v, a, t) = CartesianRegu!Times(CartesianRegu!ReguRate(cart, v, a), t)
BY SameOperators
   DEF ReguAdvance, OmegaRate, BindERate, CartesianRegu!Times, CartesianRegu!ReguRate,
       CartesianRegu!OmegaRate, CartesianRegu!BindERate, CartesianRegu!External

LEMMA ReguKickIs ==
  ASSUME IInv, AccTypes, EnergyTypes, NEW t \in Int
  PROVE  /\ ReguKickOf(t) = CartesianRegu!ReguKickOf(cart, t)
         /\ ReguKickOf(t) \in Regu
<1>1. t \div 2 \in Int
  OBVIOUS
<1>2. cart.vel \in Vector /\ cart.aux \in Vector /\ Zero \in Vector /\ velDep \in BOOLEAN
  BY Fields, ZeroType DEF IInv, TypeOK
<1>3. CASE velDep
  <2> DEFINE mid == Kicked(ChainAcc(cart.aux), t \div 2)
  <2>1. mid = Advance(cart.vel, Acc(cart.pos, cart.aux), t \div 2) /\ mid \in Vector
    BY <1>1, <1>2, KickedIs
  <2>2. ReguKickOf(t) = ReguAdvance(mid, mid, t)
    BY <1>3 DEF ReguKickOf
  <2>3. CartesianRegu!ReguKickOf(cart, t)
          = CartesianRegu!Times(CartesianRegu!ReguRate(cart, mid, mid), t)
    BY <1>3, <2>1, SameOperators DEF CartesianRegu!ReguKickOf
  <2> HIDE DEF mid
  <2> QED BY <2>1, <2>2, <2>3, ReguAdvanceIs, ReguAdvanceType
<1>4. CASE ~velDep
  <2> DEFINE new == Kicked(ChainAcc(Zero), t)
             r == ReguAdvance(cart.vel, Zero, t \div 2)
             s == ReguAdvance(new, Zero, t \div 2)
  <2>1. new = Advance(cart.vel, Acc(cart.pos, Zero), t) /\ new \in Vector
    BY <1>2, KickedIs
  <2>2. ReguKickOf(t) = ReguPlus(r, s)
    BY <1>4 DEF ReguKickOf
  <2>3. CartesianRegu!ReguKickOf(cart, t)
          = CartesianRegu!ReguPlus(
              CartesianRegu!Times(CartesianRegu!ReguRate(cart, cart.vel, Zero), t \div 2),
              CartesianRegu!Times(CartesianRegu!ReguRate(cart, new, Zero), t \div 2))
    BY <1>4, <2>1, SameOperators DEF CartesianRegu!ReguKickOf
  <2> HIDE DEF new
  <2>4. r \in Regu /\ s \in Regu
    BY <1>1, <1>2, <2>1, ReguAdvanceType
  <2>5. /\ r = CartesianRegu!Times(CartesianRegu!ReguRate(cart, cart.vel, Zero), t \div 2)
        /\ s = CartesianRegu!Times(CartesianRegu!ReguRate(cart, new, Zero), t \div 2)
    BY ReguAdvanceIs
  <2>6. ReguPlus(r, s) = CartesianRegu!ReguPlus(r, s)
    BY DEF ReguPlus, CartesianRegu!ReguPlus
  <2> HIDE DEF r, s
  <2> QED BY <2>2, <2>3, <2>4, <2>5, <2>6, ReguPlusType
<1> QED
  BY <1>2, <1>3, <1>4

ReguIInv == IInv /\ ReguTypeOK

LEMMA ReguInitStep == ASSUME EnergyTypes, ReguInit PROVE ReguIInv /\ CartesianRegu!ReguInit
<1>1. IInv /\ Init
  BY InitInv DEF ReguInit
<1>2. cart.pos \in Vector /\ cart.vel \in Vector /\ index \in Indices
  BY <1>1, Fields DEF IInv, TypeOK
<1>3. Potential(cart.pos) \in Int /\ Kinetic(cart.vel) \in Int
  BY <1>2 DEF EnergyTypes
<1>4. ReguTypeOK
  BY <1>3 DEF ReguInit, ReguTypeOK, Regu, NoRegu
<1>5. /\ InCartesian(y, yIndex) = CartesianRegu!NoState
      /\ InCartesian(increment, incIndex) = CartesianRegu!NoState
  BY <1>1, <1>2, InCartesianNothing, SameOperators DEF Init
<1>6. CartesianRegu!Init
  BY <1>1, <1>5, SameOperators DEF Init, CartesianRegu!Init
<1> QED
  BY <1>1, <1>4, <1>6
     DEF ReguInit, ReguIInv, CartesianRegu!ReguInit, CartesianRegu!NoRegu, NoRegu

LEMMA ReguNextStep ==
  ASSUME AccTypes, EnergyTypes, ReguIInv, [ReguNext]_<<vars, reguVars>>
  PROVE  /\ ReguIInv'
         /\ [CartesianRegu!ReguNext]_<<CartesianRegu!vars, CartesianRegu!reguVars>>
<1>1. \A h \in Steps : h \in Int
  BY ChainSystemAssumption
<1>2. CASE ReguPreIter
  BY <1>2, PreIterStep
     DEF ReguPreIter, ReguIInv, ReguTypeOK, reguVars, CartesianRegu!ReguNext,
         CartesianRegu!ReguPreIter, CartesianRegu!reguVars
<1>3. CASE ReguWrite
  BY <1>3, WriteStep
     DEF ReguWrite, ReguIInv, ReguTypeOK, CartesianRegu!ReguNext, CartesianRegu!ReguWrite
<1>4. CASE ReguClear
  <2>1. NoRegu \in Regu /\ CartesianRegu!NoRegu = NoRegu
    BY DEF NoRegu, Regu, CartesianRegu!NoRegu
  <2> QED BY <1>4, <2>1, ClearStep
          DEF ReguClear, ReguIInv, ReguTypeOK, CartesianRegu!ReguNext, CartesianRegu!ReguClear
<1>5. ASSUME NEW h \in Steps, ReguDrift(h)
      PROVE  ReguIInv' /\ CartesianRegu!ReguNext
  <2>1. PosScale \in Int /\ PhyTime(h, PosScale) \in Int
    BY <1>1, TimeTypes DEF ReguIInv
  <2>2. IInv' /\ CartesianRegu!Drift(PhyTime(h, PosScale))
    BY <1>5, <2>1, DriftStep DEF ReguDrift, ReguIInv
  <2>3. /\ PosScale = CartesianRegu!PosScale(cart, regu)
        /\ PhyTime(h, PosScale) = CartesianRegu!PosTime(cart, regu, h)
    BY DEF PosScale, PhyTime, CartesianRegu!PosScale, CartesianRegu!PosTime,
           CartesianRegu!PhyTime
  <2>4. CartesianRegu!ReguDrift(h)
    BY <1>5, <2>2, <2>3 DEF ReguDrift, CartesianRegu!ReguDrift
  <2>5. ReguIInv'
    BY <1>5, <2>1, <2>2 DEF ReguDrift, ReguIInv, ReguTypeOK
  <2> QED BY <2>4, <2>5 DEF CartesianRegu!ReguNext
<1>6. ASSUME NEW h \in Steps, ReguKick(h)
      PROVE  ReguIInv' /\ CartesianRegu!ReguNext
  <2> DEFINE t == PhyTime(h, VelScale)
  <2>1. VelScale \in Int /\ t \in Int
    BY <1>1, TimeTypes DEF ReguIInv
  <2>2. /\ VelScale = CartesianRegu!VelScale(cart)
        /\ t = CartesianRegu!VelTime(cart, h)
    BY DEF VelScale, PhyTime, CartesianRegu!VelScale, CartesianRegu!VelTime,
           CartesianRegu!PhyTime
  <2>3. Kick(t) /\ ReguMove(ReguKickOf(t)) /\ scale' = VelScale /\ UNCHANGED <<regType, yRegu>>
    BY <1>6 DEF ReguKick
  <2> HIDE DEF t
  <2>4. IInv' /\ CartesianRegu!Kick(t)
    BY <2>1, <2>3, KickStep DEF ReguIInv
  <2>5. ReguKickOf(t) = CartesianRegu!ReguKickOf(cart, t) /\ ReguKickOf(t) \in Regu
    BY <2>1, ReguKickIs DEF ReguIInv
  <2>6. CartesianRegu!ReguMove(ReguKickOf(t))
    BY <2>3 DEF ReguMove, ReguPlus, CartesianRegu!ReguMove, CartesianRegu!ReguPlus
  <2>7. CartesianRegu!ReguKick(h)
    BY <2>2, <2>3, <2>4, <2>5, <2>6 DEF CartesianRegu!ReguKick
  <2>8. ReguTypeOK'
    <3>1. regu \in Regu /\ reguInc \in Regu /\ yRegu \in Regu
      BY DEF ReguIInv, ReguTypeOK
    <3>2. ReguPlus(regu, ReguKickOf(t)) \in Regu /\ ReguPlus(reguInc, ReguKickOf(t)) \in Regu
      BY <2>5, <3>1, ReguPlusType
    <3> QED BY <2>1, <2>3, <3>1, <3>2 DEF ReguTypeOK, ReguMove
  <2> QED BY <2>4, <2>7, <2>8 DEF ReguIInv, CartesianRegu!ReguNext
<1>7. CASE ReguReadBack
  BY <1>7, ReadBackStep
     DEF ReguReadBack, ReguIInv, ReguTypeOK, CartesianRegu!ReguNext,
         CartesianRegu!ReguReadBack
<1>8. CASE ReguAccept
  <2>1. ReguPlus(yRegu, reguInc) \in Regu
    BY ReguPlusType DEF ReguIInv, ReguTypeOK
  <2>2. ReguPlus(yRegu, reguInc) = CartesianRegu!ReguPlus(yRegu, reguInc)
    BY DEF ReguPlus, CartesianRegu!ReguPlus
  <2> QED BY <1>8, <2>1, <2>2, AcceptStep
          DEF ReguAccept, ReguIInv, ReguTypeOK, CartesianRegu!ReguNext,
              CartesianRegu!ReguAccept
<1>9. CASE ReguPostIter
  BY <1>9, PostIterStep
     DEF ReguPostIter, ReguIInv, ReguTypeOK, reguVars, CartesianRegu!ReguNext,
         CartesianRegu!ReguPostIter, CartesianRegu!reguVars
<1>10. CASE UNCHANGED <<vars, reguVars>>
  BY <1>10, StutterStep
     DEF ReguIInv, ReguTypeOK, reguVars, CartesianRegu!reguVars
<1> QED
  BY <1>2, <1>3, <1>4, <1>5, <1>6, <1>7, <1>8, <1>9, <1>10 DEF ReguNext

LEMMA ReguInvariance ==
  ASSUME AccTypes, EnergyTypes PROVE ReguSpec => []ReguIInv
BY ReguInitStep, ReguNextStep, PTL DEF ReguSpec

(* The types.                                                               *)
THEOREM ARchainTypes ==
  ASSUME AccTypes, EnergyTypes PROVE ReguSpec => [](TypeOK /\ ReguTypeOK)
BY ReguInvariance, PTL DEF ReguIInv, IInv

(* The chain and the Cartesian coordinates are two views of one state,      *)
(* through drifts, kicks, read-backs and any changes of the chain.          *)
THEOREM ARchainTwoViews ==
  ASSUME AccTypes, EnergyTypes PROVE ReguSpec => []TwoViews
BY ReguInvariance, PTL DEF ReguIInv, IInv

(* ARchainSystem implements RegularizedSystem.                              *)
THEOREM ARchainIsReguSystem ==
  ASSUME AccTypes, EnergyTypes PROVE ReguSpec => IsReguSystem
<1>1. ReguInit => CartesianRegu!ReguInit
  BY ReguInitStep
<1>2. ReguIInv /\ [ReguNext]_<<vars, reguVars>>
        => [CartesianRegu!ReguNext]_<<CartesianRegu!vars, CartesianRegu!reguVars>>
  BY ReguNextStep
<1> QED
  BY <1>1, <1>2, ReguInvariance, PTL DEF ReguSpec, IsReguSystem, CartesianRegu!ReguSpec
-----------------------------------------------------------------------------
(* ChainIndex.                                                              *)
Spent ==
  /\ ~avail[0]
  /\ \A i \in 0..(DistSize - 1) :
       ~avail[i] => dist[i][1] \in Listed /\ dist[i][2] \in Listed

Past == \A i \in 0..(k - 1) : Attachable(i) => i = 1

IndexInv ==
  /\ IndexTypeOK /\ ChainShape /\ Spent /\ Past
  /\ scan = "done" => k = DistSize

-----------------------------------------------------------------------------
LEMMA DistSizeNat == DistSize \in Int
BY ChainAssumption DEF DistSize

(* The pairs are pairs of different particles, and each is in the order.    *)
LEMMA PairFacts ==
  ASSUME NEW o \in Orders
  PROVE  /\ DistSize >= 1
         /\ \A i \in 0..(DistSize - 1) :
              o[i][1] \in Particles /\ o[i][2] \in Particles /\ o[i][1] < o[i][2]
         /\ \A x, z \in Particles : x # z =>
              \E i \in 0..(DistSize - 1) : Joins(o[i], x) /\ Other(o[i], x) = z
<1>1. \A p \in Pairs : p[1] \in Particles /\ p[2] \in Particles /\ p[1] < p[2]
  BY DEF Pairs
<1>2. \A i \in 0..(DistSize - 1) : o[i] \in Pairs
  BY DEF Orders
<1>3. \A p \in Pairs : \E i \in 0..(DistSize - 1) : o[i] = p
  BY DEF Orders
<1>4. <<0, 1>> \in Pairs
  BY ChainAssumption DEF Pairs, Particles
<1>5. DistSize >= 1
  BY <1>3, <1>4, DistSizeNat
<1>6. ASSUME NEW x \in Particles, NEW z \in Particles, x # z
      PROVE  \E i \in 0..(DistSize - 1) : Joins(o[i], x) /\ Other(o[i], x) = z
  <2>1. CASE x < z
    <3>1. <<x, z>> \in Pairs
      BY <2>1 DEF Pairs
    <3>2. PICK i \in 0..(DistSize - 1) : o[i] = <<x, z>>
      BY <1>3, <3>1
    <3> QED BY <3>2 DEF Joins, Other
  <2>2. CASE z < x
    <3>1. <<z, x>> \in Pairs
      BY <2>2 DEF Pairs
    <3>2. PICK i \in 0..(DistSize - 1) : o[i] = <<z, x>>
      BY <1>3, <3>1
    <3> QED BY <1>6, <3>2 DEF Joins, Other
  <2> QED BY <1>6, <2>1, <2>2, ChainAssumption DEF Particles
<1> QED BY <1>1, <1>2, <1>5, <1>6

(* The partner of an end that a pair joins.                                 *)
LEMMA OtherFacts ==
  ASSUME IndexInv, NEW i \in 0..(DistSize - 1), NEW end, Joins(dist[i], end)
  PROVE  /\ Other(dist[i], end) \in Particles
         /\ {dist[i][1], dist[i][2]} = {end, Other(dist[i], end)}
BY PairFacts DEF IndexInv, IndexTypeOK, Joins, Other

(* What a particle put before or behind the list does to it.                *)
LEMMA Prepended ==
  ASSUME NEW S, NEW s \in Seq(S), NEW x \in S
  PROVE  /\ <<x>> \o s \in Seq(S)
         /\ Len(<<x>> \o s) = Len(s) + 1
         /\ (<<x>> \o s)[1] = x
         /\ \A i \in 2..(Len(s) + 1) : (<<x>> \o s)[i] = s[i - 1]
OBVIOUS

LEMMA Appended ==
  ASSUME NEW S, NEW s \in Seq(S), NEW x \in S
  PROVE  /\ Append(s, x) \in Seq(S)
         /\ Len(Append(s, x)) = Len(s) + 1
         /\ Append(s, x)[Len(s) + 1] = x
         /\ \A i \in 1..Len(s) : Append(s, x)[i] = s[i]
OBVIOUS

(* A chain without repetition is no longer than the number of particles.    *)
LEMMA ShortEnough ==
  ASSUME NEW s \in Seq(Particles), \A i, j \in 1..Len(s) : s[i] = s[j] => i = j
  PROVE  Len(s) <= N
<1> SUFFICES ASSUME Len(s) > N PROVE FALSE
  BY ChainAssumption
<1>1. IsFiniteSet(1..Len(s)) /\ Cardinality(1..Len(s)) = Len(s)
  <2>1. Len(s) \in Int /\ ~(1 > Len(s)) /\ Len(s) - 1 + 1 = Len(s)
    BY ChainAssumption
  <2> QED BY <2>1, FS_Interval
<1>2. IsFiniteSet(Particles) /\ Cardinality(Particles) = N
  BY FS_Interval, ChainAssumption DEF Particles
<1>3. s \in [1..Len(s) -> Particles]
  OBVIOUS
<1>4. \E i, j \in 1..Len(s) : i # j /\ s[i] = s[j]
  BY <1>1, <1>2, <1>3, FS_PigeonHole
<1> QED BY <1>4

-----------------------------------------------------------------------------
LEMMA InitInvariant == IndexInit => IndexInv
<1> SUFFICES ASSUME IndexInit PROVE IndexInv
  OBVIOUS
<1>1. dist \in Orders /\ DistSize \in Int /\ DistSize >= 1
  BY DistSizeNat, PairFacts DEF IndexInit
<1>2. head \in Particles /\ tail \in Particles /\ head < tail
  BY <1>1, PairFacts DEF IndexInit
<1>3. IndexTypeOK
  BY <1>1, <1>2 DEF IndexInit, IndexTypeOK
<1>4. head # tail
  BY <1>2 DEF Particles
<1>5. ChainShape
  BY <1>4 DEF IndexInit, ChainShape
<1>6. head \in Listed /\ tail \in Listed
  BY DEF IndexInit, Listed
<1>7. Spent
  <2>1. 0 \in 0..(DistSize - 1)
    BY <1>1
  <2>2. ~avail[0] /\ \A i \in 0..(DistSize - 1) : ~avail[i] => i = 0
    BY <2>1 DEF IndexInit
  <2>3. dist[0][1] \in Listed /\ dist[0][2] \in Listed
    BY <1>6 DEF IndexInit
  <2> QED BY <2>2, <2>3 DEF Spent
<1>8. Past
  BY <1>6 DEF IndexInit, Past, Attachable, Joins, Other
<1> QED BY <1>3, <1>5, <1>7, <1>8 DEF IndexInv, IndexInit

(* A particle is attached at one end of the chain: what the two actions     *)
(* that do it have in common.                                               *)
Attached(x) ==
  /\ x \in Particles \ Listed
  /\ \/ list' = <<x>> \o list /\ head' = x /\ tail' = tail
     \/ list' = Append(list, x) /\ tail' = x /\ head' = head

LEMMA AttachStep ==
  ASSUME IndexInv, NEW x, Attached(x)
  PROVE  /\ list' \in Seq(Particles) /\ head' \in Particles /\ tail' \in Particles
         /\ ChainShape'
         /\ Listed' = Listed \cup {x}
         /\ Len(list) # N
<1>1. x \in Particles /\ \A i \in 1..Len(list) : list[i] # x
  BY DEF Attached, Listed, IndexInv, IndexTypeOK
<1>2. /\ list \in Seq(Particles) /\ Len(list) \in Nat /\ Len(list) >= 2
      /\ head = list[1] /\ tail = list[Len(list)]
      /\ head \in Particles /\ tail \in Particles
      /\ \A i, j \in 1..Len(list) : list[i] = list[j] => i = j
  BY DEF IndexInv, IndexTypeOK, ChainShape
<1>3. CASE list' = <<x>> \o list /\ head' = x /\ tail' = tail
  <2>1. /\ list' \in Seq(Particles) /\ Len(list') = Len(list) + 1
        /\ list'[1] = x
        /\ \A i \in 2..(Len(list) + 1) : list'[i] = list[i - 1]
    BY <1>1, <1>2, <1>3, Prepended
  <2>2. \A i, j \in 1..Len(list') : list'[i] = list'[j] => i = j
    <3> SUFFICES ASSUME NEW i \in 1..Len(list'), NEW j \in 1..Len(list'),
                        list'[i] = list'[j]
                 PROVE  i = j
      OBVIOUS
    <3>1. CASE i = 1 /\ j # 1
      BY <1>1, <1>2, <2>1, <3>1
    <3>2. CASE i # 1 /\ j = 1
      BY <1>1, <1>2, <2>1, <3>2
    <3>3. CASE i # 1 /\ j # 1
      <4>1. i - 1 \in 1..Len(list) /\ j - 1 \in 1..Len(list)
        BY <1>2, <2>1, <3>3
      <4>2. list[i - 1] = list[j - 1]
        BY <1>2, <2>1, <3>3
      <4> QED BY <1>2, <4>1, <4>2
    <3> QED BY <3>1, <3>2, <3>3
  <2>3. \A z : z \in Listed' <=> z = x \/ z \in Listed
    <3>1. x \in Listed'
      BY <1>2, <2>1 DEF Listed
    <3>2. ASSUME NEW i \in 1..Len(list) PROVE list[i] \in Listed'
      <4>1. i + 1 \in 1..Len(list') /\ list'[i + 1] = list[i]
        BY <1>2, <2>1
      <4> QED BY <2>1, <4>1 DEF Listed
    <3>3. ASSUME NEW i \in 1..Len(list') PROVE list'[i] = x \/ list'[i] \in Listed
      <4>1. i = 1 \/ i - 1 \in 1..Len(list)
        BY <1>2, <2>1
      <4>2. i # 1 => list'[i] = list[i - 1]
        BY <1>2, <2>1
      <4> QED BY <2>1, <4>1, <4>2, <1>2 DEF Listed
    <3>4. DOMAIN list = 1..Len(list) /\ DOMAIN list' = 1..Len(list')
      BY <1>2, <2>1
    <3> QED BY <3>1, <3>2, <3>3, <3>4, Zenon DEF Listed
  <2>4. list'[Len(list')] = tail
    BY <1>2, <2>1
  <2>5. ChainShape'
    BY <1>2, <1>3, <2>1, <2>2, <2>4 DEF ChainShape
  <2>6. Len(list) # N
    BY <1>2, <2>1, <2>2, ShortEnough, ChainAssumption
  <2>7. Listed' = Listed \cup {x}
    BY <2>3
  <2> QED BY <1>1, <1>2, <1>3, <2>1, <2>5, <2>6, <2>7
<1>4. CASE list' = Append(list, x) /\ tail' = x /\ head' = head
  <2>1. /\ list' \in Seq(Particles) /\ Len(list') = Len(list) + 1
        /\ list'[Len(list) + 1] = x
        /\ \A i \in 1..Len(list) : list'[i] = list[i]
    BY <1>1, <1>2, <1>4, Appended
  <2>2. \A i, j \in 1..Len(list') : list'[i] = list'[j] => i = j
    <3> SUFFICES ASSUME NEW i \in 1..Len(list'), NEW j \in 1..Len(list'),
                        list'[i] = list'[j]
                 PROVE  i = j
      OBVIOUS
    <3>1. i = Len(list) + 1 \/ i \in 1..Len(list)
      BY <1>2, <2>1
    <3>2. j = Len(list) + 1 \/ j \in 1..Len(list)
      BY <1>2, <2>1
    <3> QED BY <1>1, <1>2, <2>1, <3>1, <3>2
  <2>3. \A z : z \in Listed' <=> z = x \/ z \in Listed
    <3>1. x \in Listed'
      BY <1>2, <2>1 DEF Listed
    <3>2. ASSUME NEW i \in 1..Len(list) PROVE list[i] \in Listed'
      BY <1>2, <2>1 DEF Listed
    <3>3. ASSUME NEW i \in 1..Len(list') PROVE list'[i] = x \/ list'[i] \in Listed
      <4>1. i = Len(list) + 1 \/ i \in 1..Len(list)
        BY <1>2, <2>1
      <4> QED BY <1>2, <2>1, <4>1 DEF Listed
    <3> QED BY <1>2, <2>1, <3>1, <3>2, <3>3 DEF Listed
  <2>4. list'[1] = head
    BY <1>2, <2>1
  <2>5. ChainShape'
    BY <1>2, <1>4, <2>1, <2>2, <2>4 DEF ChainShape
  <2>6. Len(list) # N
    BY <1>2, <2>1, <2>2, ShortEnough, ChainAssumption
  <2>7. Listed' = Listed \cup {x}
    BY <2>3
  <2> QED BY <1>1, <1>2, <1>4, <2>1, <2>5, <2>6, <2>7
<1> QED BY <1>3, <1>4 DEF Attached

(* A pair whose particles are both listed attaches nothing.                 *)
LEMMA ListedPair ==
  ASSUME NEW i, dist[i][1] \in Listed, dist[i][2] \in Listed
  PROVE  ~Attachable(i)
BY DEF Attachable, Other

LEMMA AddStep ==
  ASSUME IndexInv, NEW x, Attached(x), Scanning, avail[k],
         dist[k][1] \in Listed \cup {x}, dist[k][2] \in Listed \cup {x},
         avail' = [avail EXCEPT ![k] = FALSE], k' = AfterAdd, dist' = dist, scan' = scan
  PROVE  IndexInv'
<1>1. /\ list' \in Seq(Particles) /\ head' \in Particles /\ tail' \in Particles
      /\ ChainShape'
      /\ Listed' = Listed \cup {x}
      /\ Len(list) # N
  BY AttachStep
<1>2. /\ k' = 2 /\ k \in 1..(DistSize - 1) /\ DistSize \in Int
      /\ avail \in [0..(DistSize - 1) -> BOOLEAN]
  BY <1>1, DistSizeNat DEF AfterAdd, Scanning, IndexInv, IndexTypeOK
<1>3. Spent'
  BY <1>1, <1>2 DEF IndexInv, Spent
<1>4. k' \in 1..DistSize
  <2>1. DistSize # 1
    BY <1>2
  <2> QED BY <1>2, <2>1
<1>5. avail' \in [0..(DistSize - 1) -> BOOLEAN]
  BY <1>2
<1>6. IndexTypeOK'
  BY <1>1, <1>4, <1>5 DEF IndexInv, IndexTypeOK
<1>7. dist'[0][1] \in Listed' /\ dist'[0][2] \in Listed'
  BY <1>2, <1>3 DEF Spent
<1>8. ~Attachable(0)'
  BY <1>7 DEF Attachable, Other
<1>9. Past'
  <2>1. \A i \in 0..(k' - 1) : i = 0 \/ i = 1
    BY <1>2
  <2> QED BY <1>8, <2>1 DEF Past
<1> QED BY <1>1, <1>3, <1>6, <1>9 DEF IndexInv, Scanning

LEMMA AddFrontStep == IndexInv /\ AddFront => IndexInv'
<1> SUFFICES ASSUME IndexInv, AddFront PROVE IndexInv'
  OBVIOUS
<1> DEFINE x == Other(dist[k], head)
<1>1. k \in 0..(DistSize - 1) /\ Joins(dist[k], head)
  BY DistSizeNat DEF AddFront, Scanning, IndexInv, IndexTypeOK
<1>2. x \in Particles /\ {dist[k][1], dist[k][2]} = {head, x}
  BY <1>1, OtherFacts
<1>3. head \in Listed
  BY DEF IndexInv, ChainShape, Listed, IndexTypeOK
<1>4. Attached(x)
  BY <1>2 DEF AddFront, Attached, NewHead, NotInList
<1>5. dist[k][1] \in Listed \cup {x} /\ dist[k][2] \in Listed \cup {x}
  BY <1>2, <1>3
<1> HIDE DEF x
<1> QED BY <1>4, <1>5, AddStep DEF AddFront

LEMMA AddBackStep == IndexInv /\ AddBack => IndexInv'
<1> SUFFICES ASSUME IndexInv, AddBack PROVE IndexInv'
  OBVIOUS
<1> DEFINE x == Other(dist[k], tail)
<1>1. k \in 0..(DistSize - 1) /\ Joins(dist[k], tail)
  BY DistSizeNat DEF AddBack, Scanning, IndexInv, IndexTypeOK
<1>2. x \in Particles /\ {dist[k][1], dist[k][2]} = {tail, x}
  BY <1>1, OtherFacts
<1>3. tail \in Listed
  BY DEF IndexInv, ChainShape, Listed, IndexTypeOK
<1>4. Attached(x)
  BY <1>2 DEF AddBack, Attached, NotInList
<1>5. dist[k][1] \in Listed \cup {x} /\ dist[k][2] \in Listed \cup {x}
  BY <1>2, <1>3
<1> HIDE DEF x
<1> QED BY <1>4, <1>5, AddStep DEF AddBack

(* A pair that is not attached is behind the scan, and attaches nothing.    *)
LEMMA ScanStep ==
  ASSUME IndexInv, Scanning, ~Attachable(k), k' = k + 1,
         UNCHANGED <<dist, list, head, tail>>
  PROVE  Past' /\ k' \in 1..DistSize /\ Listed' = Listed
<1>1. k \in 1..(DistSize - 1) /\ DistSize \in Int
  BY DistSizeNat DEF Scanning, IndexInv, IndexTypeOK
<1>2. Listed' = Listed
  BY DEF Listed
<1>3. \A i : Attachable(i)' <=> Attachable(i)
  BY <1>2 DEF Attachable
<1>4. \A i \in 0..(k' - 1) : i = k \/ i \in 0..(k - 1)
  BY <1>1
<1> QED BY <1>1, <1>2, <1>3, <1>4 DEF Past, IndexInv

LEMMA EndsListed == IndexInv => head \in Listed /\ tail \in Listed
BY DEF IndexInv, ChainShape, Listed, IndexTypeOK

LEMMA DiscardStep == IndexInv /\ Discard => IndexInv'
<1> SUFFICES ASSUME IndexInv, Discard PROVE IndexInv'
  OBVIOUS
<1>1. k \in 0..(DistSize - 1) /\ k < DistSize
  BY DistSizeNat DEF Discard, Scanning, IndexInv, IndexTypeOK
<1>2. dist[k][1] \in Listed /\ dist[k][2] \in Listed
  <2>1. CASE Joins(dist[k], head) /\ ~NotInList(Other(dist[k], head))
    <3>1. {dist[k][1], dist[k][2]} = {head, Other(dist[k], head)}
      BY <1>1, <2>1, OtherFacts
    <3> QED BY <2>1, <3>1, EndsListed DEF NotInList
  <2>2. CASE Joins(dist[k], tail) /\ ~NotInList(Other(dist[k], tail))
    <3>1. {dist[k][1], dist[k][2]} = {tail, Other(dist[k], tail)}
      BY <1>1, <2>2, OtherFacts
    <3> QED BY <2>2, <3>1, EndsListed DEF NotInList
  <2> QED BY <2>1, <2>2 DEF Discard
<1>3. Past' /\ k' \in 1..DistSize /\ Listed' = Listed
  BY <1>2, ListedPair, ScanStep DEF Discard
<1>4. avail' \in [0..(DistSize - 1) -> BOOLEAN]
  BY <1>1 DEF Discard, IndexInv, IndexTypeOK
<1>5. IndexTypeOK' /\ ChainShape'
  BY <1>3, <1>4 DEF Discard, IndexInv, IndexTypeOK, ChainShape
<1>6. Spent'
  BY <1>1, <1>2, <1>3 DEF Discard, IndexInv, IndexTypeOK, Spent
<1> QED BY <1>3, <1>5, <1>6 DEF IndexInv, Discard, Scanning

LEMMA PassStep == IndexInv /\ Pass => IndexInv'
<1> SUFFICES ASSUME IndexInv, Pass PROVE IndexInv'
  OBVIOUS
<1>1. k \in 0..(DistSize - 1)
  BY DistSizeNat DEF Pass, Scanning, IndexInv, IndexTypeOK
<1>2. ~Attachable(k)
  <2>1. CASE ~avail[k]
    BY <1>1, <2>1, ListedPair DEF IndexInv, Spent
  <2>2. CASE ~Joins(dist[k], head) /\ ~Joins(dist[k], tail)
    BY <2>2 DEF Attachable
  <2> QED BY <2>1, <2>2 DEF Pass
<1>3. Past' /\ k' \in 1..DistSize /\ Listed' = Listed
  BY <1>2, ScanStep DEF Pass, AfterPass
<1>4. IndexTypeOK' /\ ChainShape' /\ Spent'
  BY <1>3 DEF Pass, IndexInv, IndexTypeOK, ChainShape, Spent
<1> QED BY <1>3, <1>4 DEF IndexInv, Pass, Scanning

LEMMA FinishStep == IndexInv /\ Finish => IndexInv'
<1> SUFFICES ASSUME IndexInv, Finish PROVE IndexInv'
  OBVIOUS
<1>1. k = DistSize
  BY DistSizeNat DEF Finish, IndexInv, IndexTypeOK
<1>2. Listed' = Listed
  BY DEF Finish, Listed
<1> QED BY <1>1, <1>2
        DEF Finish, IndexInv, IndexTypeOK, ChainShape, Spent, Past, Attachable

LEMMA ScanStutterStep == IndexInv /\ UNCHANGED indexVars => IndexInv'
BY DEF IndexInv, indexVars, IndexTypeOK, ChainShape, Spent, Past, Attachable, Listed
-----------------------------------------------------------------------------
(* The invariant of the scan.                                               *)
THEOREM ChainIndexInvariant == IndexSpec => []IndexInv
<1>1. IndexInv /\ [IndexNext]_indexVars => IndexInv'
  BY AddFrontStep, AddBackStep, DiscardStep, PassStep, FinishStep, ScanStutterStep
     DEF IndexNext
<1> QED BY InitInvariant, <1>1, PTL DEF IndexSpec

(* The types.                                                               *)
THEOREM ChainIndexTypes == IndexSpec => []IndexTypeOK
<1>1. IndexInv => IndexTypeOK
  BY DEF IndexInv
<1> QED BY ChainIndexInvariant, <1>1, PTL

(* The list has no repetition, and head and tail are its ends.              *)
THEOREM ChainIndexShape == IndexSpec => []ChainShape
<1>1. IndexInv => ChainShape
  BY DEF IndexInv
<1> QED BY ChainIndexInvariant, <1>1, PTL

(* Every particle is in the index in the end: with ChainShape, the index is *)
(* a permutation of the particles.                                          *)
THEOREM ChainIndexComplete == IndexSpec => []Complete
<1>1. IndexInv => Complete
  <2> SUFFICES ASSUME IndexInv, scan = "done", NEW r \in Particles, r \notin Listed
               PROVE  FALSE
    BY DEF Complete, Listed, IndexInv, IndexTypeOK
  <2>1. k = DistSize /\ dist \in Orders
    BY DEF IndexInv, IndexTypeOK
  <2>2. /\ head \in Particles /\ tail \in Particles /\ head # tail
        /\ head \in Listed /\ tail \in Listed
    BY EndsListed DEF IndexInv, IndexTypeOK, ChainShape
  <2>3. PICK i \in 0..(DistSize - 1) : Joins(dist[i], head) /\ Other(dist[i], head) = r
    BY <2>1, <2>2, PairFacts
  <2>4. PICK j \in 0..(DistSize - 1) : Joins(dist[j], tail) /\ Other(dist[j], tail) = r
    BY <2>1, <2>2, PairFacts
  <2>5. i = 1 /\ j = 1
    BY <2>1, <2>3, <2>4 DEF IndexInv, Past, Attachable
  <2>6. {dist[1][1], dist[1][2]} = {head, r} /\ {dist[1][1], dist[1][2]} = {tail, r}
    BY <2>3, <2>4, <2>5, OtherFacts
  <2> QED BY <2>2, <2>6
<1> QED BY ChainIndexInvariant, <1>1, PTL

(* What is attached is attached by the nearest pair that can attach         *)
(* anything, the second nearest of all apart.                               *)
THEOREM ChainIndexNearestFirst == IndexSpec => NearestFirst
<1>1. IndexInv => [list' # list => \A i \in 0..(k - 1) : Attachable(i) => i = 1]_indexVars
  BY DEF IndexInv, Past
<1> QED BY ChainIndexInvariant, <1>1, PTL DEF NearestFirst

(* The list is never longer than the number of particles, so what is left   *)
(* of the scan is a natural number.                                         *)
LEMMA LeftBounded ==
  ASSUME IndexInv
  PROVE  /\ Len(list) \in 2..N /\ k \in 1..DistSize /\ DistSize \in Nat \ {0}
         /\ Left \in 0..((N - 1) * DistSize)
         /\ scan = "scanning" => Left >= 1
<1>1. Len(list) \in 2..N
  <2>1. Len(list) <= N
    BY ShortEnough DEF IndexInv, IndexTypeOK, ChainShape
  <2>2. Len(list) \in Nat /\ Len(list) >= 2
    BY DEF IndexInv, IndexTypeOK, ChainShape
  <2> QED BY <2>1, <2>2, ChainAssumption
<1>2. k \in 1..DistSize /\ DistSize \in Nat \ {0}
  <2>1. k \in 1..DistSize /\ DistSize \in Int
    BY DistSizeNat DEF IndexInv, IndexTypeOK
  <2> QED BY <2>1
<1>3. (N - Len(list)) * DistSize \in 0..((N - 2) * DistSize)
  <2>1. ASSUME NEW a \in Nat, NEW b \in Nat, NEW d \in Nat, a <= b
        PROVE  a * d \in 0..(b * d)
    BY <2>1
  <2>2. N - Len(list) \in Nat /\ N - 2 \in Nat /\ N - Len(list) <= N - 2
    BY <1>1, ChainAssumption
  <2> QED BY <1>2, <2>1, <2>2
<1>4. (N - 1) * DistSize = (N - 2) * DistSize + DistSize
  <2>1. N \in Int
    BY ChainAssumption
  <2> HIDE DEF DistSize
  <2> QED BY <1>2, <2>1
<1>5. /\ (N - 2) * DistSize \in Int
      /\ DistSize - k \in 0..(DistSize - 1)
  BY <1>2, ChainAssumption
<1> DEFINE top == (N - 2) * DistSize
<1> DEFINE rest == (N - Len(list)) * DistSize
<1>6. Left = rest + (DistSize - k) + (IF scan = "scanning" THEN 1 ELSE 0)
  BY DEF Left
<1>7. rest \in 0..top /\ (N - 1) * DistSize = top + DistSize /\ top \in Int
  BY <1>3, <1>4, <1>5
<1> HIDE DEF top, rest
<1>8. Left \in 0..(top + DistSize) /\ (scan = "scanning" => Left >= 1)
  BY <1>2, <1>5, <1>6, <1>7
<1> QED
  BY <1>1, <1>2, <1>7, <1>8

LEMMA LeftNatural == IndexInv => Left >= 0
BY LeftBounded

(* An attachment starts the scan again, at the third pair at the earliest,  *)
(* but with one particle less to attach.                                    *)
LEMMA AttachingShrinks ==
  ASSUME IndexInv, AddFront \/ AddBack
  PROVE  Left' < Left
<1>1. IndexInv'
  BY AddFrontStep, AddBackStep
<1>2. Len(list') = Len(list) + 1
  <2>1. list \in Seq(Particles) /\ head \in Particles /\ tail \in Particles
        /\ dist \in Orders
    BY DEF IndexInv, IndexTypeOK
  <2>2. k \in 0..(DistSize - 1)
    BY DistSizeNat DEF AddFront, AddBack, Scanning, IndexInv, IndexTypeOK
  <2>3. CASE AddFront
    <3>1. Other(dist[k], head) \in Particles
      BY <2>2, <2>3, OtherFacts DEF AddFront
    <3> QED BY <2>1, <2>3, <3>1, Prepended DEF AddFront
  <2>4. CASE AddBack
    <3>1. Other(dist[k], tail) \in Particles
      BY <2>2, <2>4, OtherFacts DEF AddBack
    <3> QED BY <2>1, <2>4, <3>1, Appended DEF AddBack
  <2> QED BY <2>3, <2>4
<1>3. /\ Len(list) \in Int /\ N \in Int /\ DistSize \in Nat \ {0}
      /\ k \in 1..DistSize /\ k' \in 1..DistSize
  BY <1>1, LeftBounded, ChainAssumption DEF IndexInv, IndexTypeOK
<1>4. k' > 1 /\ k < DistSize /\ scan = "scanning" /\ scan' = "scanning"
  <2>1. k' = AfterAdd /\ k < DistSize /\ scan = "scanning" /\ scan' = "scanning"
    BY DEF AddFront, AddBack, Scanning
  <2> QED BY <1>3, <2>1 DEF AfterAdd
<1> DEFINE rest == (N - Len(list)) * DistSize
<1>5. (N - Len(list')) * DistSize = rest - DistSize /\ rest \in Int
  <2>1. ASSUME NEW a \in Int, NEW d \in Int PROVE (a - 1) * d = a * d - d /\ a * d \in Int
    OBVIOUS
  <2>2. N - Len(list') = (N - Len(list)) - 1 /\ N - Len(list) \in Int /\ DistSize \in Int
    BY <1>2, <1>3
  <2> QED BY <2>1, <2>2
<1>6. Left = rest + (DistSize - k) + 1
  BY <1>4 DEF Left
<1>7. Left' = (N - Len(list')) * DistSize + (DistSize - k') + 1
  BY <1>4 DEF Left, DistSize
<1> HIDE DEF rest
<1>8. Left' = (rest - DistSize) + (DistSize - k') + 1
  BY <1>5, <1>7
<1>9. /\ rest \in Int /\ DistSize \in Int /\ k \in Int /\ k' \in Int
      /\ k < DistSize /\ 1 < k'
  BY <1>3, <1>4, <1>5
<1>10. ASSUME NEW r \in Int, NEW d \in Int, NEW a \in Int, NEW b \in Int, a < d, 1 < b
       PROVE  (r - d) + (d - b) + 1 < r + (d - a) + 1
  BY <1>10
<1>11. (rest - DistSize) + (DistSize - k') + 1 < rest + (DistSize - k) + 1
  BY <1>9, <1>10
<1> QED
  BY <1>6, <1>8, <1>11

(* Every pass through the loop leaves less to do than the one before: the   *)
(* loop of calc_chain_index is run at most (N - 1) * DistSize times,        *)
(* whatever the order of the distances.                                     *)
THEOREM ChainIndexShrinks == IndexSpec => ScanShrinks
<1>1. ASSUME IndexInv, IndexNext
      PROVE  Left' < Left /\ Left \in 1..((N - 1) * DistSize) /\ Left' >= 0
  <2>1. scan = "scanning"
    BY <1>1 DEF IndexNext, AddFront, AddBack, Discard, Pass, Scanning, Finish
  <2>2. IndexInv'
    BY <1>1, AddFrontStep, AddBackStep, DiscardStep, PassStep, FinishStep DEF IndexNext
  <2>3. /\ k \in 1..DistSize /\ DistSize \in Nat /\ Left \in 0..((N - 1) * DistSize)
        /\ Left >= 1
    BY <1>1, <2>1, LeftBounded
  <2>4. Left' >= 0
    <3>1. (IndexInv => Left >= 0)'
      BY LeftNatural, PTL
    <3> QED BY <2>2, <3>1
  <2>5. Left \in 1..((N - 1) * DistSize)
    <3> DEFINE m == (N - 1) * DistSize
    <3>1. m \in Int
      BY <2>3, ChainAssumption
    <3>2. Left \in 0..m /\ Left >= 1
      BY <2>3
    <3> HIDE DEF m
    <3>3. Left \in 1..m
      BY <3>1, <3>2
    <3> QED BY <3>3 DEF m
  <2>6. CASE AddFront \/ AddBack
    BY <1>1, <2>4, <2>5, <2>6, AttachingShrinks
  <2> DEFINE rest == (N - Len(list)) * DistSize
  <2>7. rest \in Int
    <3>1. N - Len(list) \in Int
      BY <1>1, LeftBounded, ChainAssumption
    <3> QED BY <2>3, <3>1
  <2>8. CASE Discard \/ Pass
    <3>1. k' = k + 1 /\ scan' = "scanning" /\ list' = list
      BY <2>8 DEF Discard, Pass, AfterPass, Scanning
    <3>2. Left = rest + (DistSize - k) + 1
      BY <2>1 DEF Left
    <3>3. Left' = rest + (DistSize - (k + 1)) + 1
      BY <3>1 DEF Left, DistSize
    <3> HIDE DEF rest
    <3> QED BY <2>3, <2>4, <2>5, <2>7, <3>2, <3>3
  <2>9. CASE Finish
    <3>1. k' = k /\ scan' # "scanning" /\ list' = list
      BY <2>9 DEF Finish
    <3>2. Left = rest + (DistSize - k) + 1
      BY <2>1 DEF Left
    <3>3. Left' = rest + (DistSize - k)
      <4>1. Left' = rest + (DistSize - k) + 0
        BY <3>1 DEF Left, DistSize
      <4> HIDE DEF rest
      <4> QED BY <2>3, <2>7, <4>1
    <3> HIDE DEF rest
    <3> QED BY <2>3, <2>4, <2>5, <2>7, <3>2, <3>3
  <2> QED BY <1>1, <2>6, <2>8, <2>9 DEF IndexNext
<1>2. IndexInv /\ [IndexNext]_indexVars =>
        [Left' < Left /\ Left \in 1..((N - 1) * DistSize) /\ Left' >= 0]_indexVars
  BY <1>1
<1> QED
  BY ChainIndexInvariant, <1>2, PTL DEF IndexSpec, ScanShrinks

(* What is left of the scan, the list read as a function from places to     *)
(* particles, is one of the indices that ChainSystem may change to.         *)
TheIndex == [i \in Particles |-> list[i + 1]]

(* The list holds every particle once, so it is as long as there are        *)
(* particles.                                                               *)
LEMMA LongEnough ==
  ASSUME NEW s \in Seq(Particles), \A p \in Particles : \E i \in 1..Len(s) : s[i] = p
  PROVE  N <= Len(s)
<1> SUFFICES ASSUME Len(s) < N PROVE FALSE
  BY ChainAssumption
<1> DEFINE place == [p \in Particles |-> CHOOSE i \in 1..Len(s) : s[i] = p]
<1>1. \A p \in Particles : place[p] \in 1..Len(s) /\ s[place[p]] = p
  OBVIOUS
<1>2. place \in [Particles -> 1..Len(s)]
  BY <1>1
<1>3. IsFiniteSet(1..Len(s)) /\ Cardinality(1..Len(s)) = Len(s)
  <2>1. Len(s) \in Int /\ Len(s) >= 0 /\ Len(s) - 1 + 1 = Len(s)
    OBVIOUS
  <2>2. IsFiniteSet(1..Len(s)) /\ Cardinality(1..Len(s)) = IF 1 > Len(s) THEN 0 ELSE Len(s) - 1 + 1
    BY <2>1, FS_Interval
  <2>3. (IF 1 > Len(s) THEN 0 ELSE Len(s) - 1 + 1) = Len(s)
    BY <2>1
  <2> QED BY <2>2, <2>3
<1>4. IsFiniteSet(Particles) /\ Cardinality(Particles) = N
  BY FS_Interval, ChainAssumption DEF Particles
<1> HIDE DEF place
<1>5. \E p, q \in Particles : p # q /\ place[p] = place[q]
  BY <1>2, <1>3, <1>4, FS_PigeonHole
<1> QED BY <1>1, <1>5

(* What a finished scan leaves is an index of the kind that post_iter       *)
(* changes to in ChainSystem: there, any permutation is allowed.            *)
THEOREM ChainIndexIsIndex == IndexSpec => [](scan = "done" => TheIndex \in Indices)
<1>1. ChainShape /\ IndexTypeOK /\ Complete => (scan = "done" => TheIndex \in Indices)
  <2> SUFFICES ASSUME ChainShape, IndexTypeOK, Complete, scan = "done"
               PROVE  TheIndex \in Indices
    OBVIOUS
  <2>1. list \in Seq(Particles) /\ \A i, j \in 1..Len(list) : list[i] = list[j] => i = j
    BY DEF ChainShape, IndexTypeOK
  <2>2. \A p \in Particles : \E i \in 1..Len(list) : list[i] = p
    BY <2>1 DEF Complete, Listed
  <2>3. Len(list) = N
    <3>1. Len(list) <= N
      BY <2>1, ShortEnough
    <3>2. N <= Len(list)
      BY <2>1, <2>2, LongEnough
    <3> QED BY <2>1, <3>1, <3>2, ChainAssumption
  <2>4. \A i \in Particles : i + 1 \in 1..Len(list) /\ i \in Int
    BY <2>3, ChainAssumption DEF Particles
  <2>5. TheIndex \in [Particles -> Particles]
    BY <2>1, <2>4 DEF TheIndex
  <2>6. \A i, j \in Particles : TheIndex[i] = TheIndex[j] => i = j
    <3>1. SUFFICES ASSUME NEW i \in Particles, NEW j \in Particles, list[i + 1] = list[j + 1]
                   PROVE  i = j
      BY DEF TheIndex
    <3>2. i + 1 = j + 1
      BY <2>1, <2>4, <3>1
    <3> QED BY <2>4, <3>2
  <2>7. ASSUME NEW p \in Particles
        PROVE  \E i \in Particles : TheIndex[i] = p
    <3>1. PICK i \in 1..Len(list) : list[i] = p
      BY <2>2
    <3>2. i - 1 \in Particles /\ (i - 1) + 1 = i
      BY <2>3, ChainAssumption DEF Particles
    <3> QED BY <3>1, <3>2 DEF TheIndex
  <2> QED
    BY <2>5, <2>6, <2>7 DEF Indices, Bijection, Injection, IsInjective, Surjection
<1> QED
  BY <1>1, ChainIndexShape, ChainIndexTypes, ChainIndexComplete, PTL
=============================================================================
