---------------------------- MODULE IAS15_proofs ----------------------------
(***************************************************************************)
(* Proofs of IAS15 and its Gauss-Radau integrator, for every number of     *)
(* stages that est_b is written for and every prime: what the correction   *)
(* leaves passes through all the values found, and a prediction is the     *)
(* same polynomial.                                                        *)
(*                                                                         *)
(* The coefficients are kept twice, b as multiples of the powers of the    *)
(* time and g as multiples of the products of differences with the nodes   *)
(* (Newton).  The invariant is that the two agree at every node            *)
(* (TablesAgree).  A correction at one node changes g in one place, by     *)
(* what makes the polynomial right there (UpdateAt) and, as the product    *)
(* vanishes at the nodes before (NewtonZero), leaves it right at those;    *)
(* the same multiple is added to b.  A prediction multiplies b by powers   *)
(* and by the triangle of est_b, which is that of the binomial             *)
(* coefficients: extrapolated expands the polynomial in 1 + q s            *)
(* (PowersOfSum), and transform_b2g takes b to a g that agrees with it.    *)
(*                                                                         *)
(* The sums, products and tables are recursive functions, which are        *)
(* reasoned about by induction over the numbers (Induction, from the       *)
(* library's theorem WFMin) after it is shown that there are such          *)
(* functions (Recursion).                                                  *)
(***************************************************************************)
EXTENDS IAS15, TLAPS, WellFoundedInduction

-----------------------------------------------------------------------------
(* Induction over the numbers.                                              *)
Below == OpToRel(<, Nat)

(* A set of numbers that is not empty has a least member.                   *)
LEMMA Least ==
  ASSUME NEW S \in SUBSET Nat, S # {}
  PROVE  \E m \in S : \A n \in S : m <= n
<1>1. IsWellFoundedOn(Below, Nat)
  BY NatLessThanWellFounded DEF Below
<1>2. PICK m \in S : \A n \in S : ~(<<n, m>> \in Below)
  BY <1>1, WFMin
<1>3. ASSUME NEW n \in S PROVE m <= n
  <2>1. ~(<<n, m>> \in Below) /\ n \in Nat /\ m \in Nat
    BY <1>2
  <2>2. n < m => <<n, m>> \in Below
    BY <2>1 DEF Below, OpToRel
  <2> QED BY <2>1, <2>2
<1> QED
  BY <1>3

LEMMA FromBelow ==
  ASSUME NEW T \in SUBSET Nat, \A n \in Nat : (\A i \in 0..(n - 1) : i \in T) => n \in T
  PROVE  T = Nat
<1> SUFFICES ASSUME T # Nat PROVE FALSE
  OBVIOUS
<1>1. PICK m \in Nat \ T : \A n \in Nat \ T : m <= n
  BY Least
<1>2. ASSUME NEW i \in 0..(m - 1) PROVE i \in T
  BY <1>1
<1> QED
  BY <1>1, <1>2

LEMMA Induction ==
  ASSUME NEW T \in SUBSET Nat, 0 \in T, \A n \in T : n + 1 \in T
  PROVE  T = Nat
<1>1. ASSUME NEW n \in Nat, \A i \in 0..(n - 1) : i \in T PROVE n \in T
  <2>1. CASE n = 0
    BY <2>1
  <2>2. CASE n # 0
    <3>1. n - 1 \in T /\ (n - 1) + 1 = n
      BY <1>1, <2>2
    <3> QED BY <3>1
  <2> QED BY <2>1, <2>2
<1> QED
  BY <1>1, FromBelow

-----------------------------------------------------------------------------
(* Whatever goes on from a value step by step is a function of the number   *)
(* of steps.                                                                *)
IsRun(f, base, step, m) ==
  f[0] = base /\ \A n \in 1..m : f[n] = step[n][f[n - 1]]

(* There is a run from any value through any steps.                         *)
LEMMA Recursion ==
  ASSUME NEW V, NEW base \in V, NEW m \in Nat, NEW step \in [1..m -> [V -> V]]
  PROVE  \E f \in [0..m -> V] : IsRun(f, base, step, m)
<1> DEFINE Is(f, k) == /\ f \in [0..k -> V]
                       /\ f = [n \in 0..k |-> IF n = 0 THEN base ELSE step[n][f[n - 1]]]
           T == {k \in Nat : k <= m => \E f : Is(f, k)}
<1>1. 0 \in T
  <2>1. Is([n \in 0..0 |-> base], 0)
    OBVIOUS
  <2> QED BY <2>1
<1>2. ASSUME NEW k \in T PROVE k + 1 \in T
  <2> HIDE DEF Is
  <2> SUFFICES ASSUME k + 1 <= m PROVE \E f : Is(f, k + 1)
    OBVIOUS
  <2> USE DEF Is
  <2>1. PICK f : Is(f, k)
    OBVIOUS
  <2> DEFINE g == [n \in 0..(k + 1) |-> IF n <= k THEN f[n] ELSE step[k + 1][f[k]]]
  <2>2. step[k + 1][f[k]] \in V
    <3>1. k + 1 \in 1..m /\ f[k] \in V
      BY <2>1
    <3>2. step[k + 1] \in [V -> V]
      BY <3>1
    <3> HIDE DEF Is
    <3> QED BY <3>1, <3>2
  <2>3. g \in [0..(k + 1) -> V]
    <3>1. ASSUME NEW n \in 0..(k + 1) PROVE g[n] \in V
      <4>1. n <= k => n \in 0..k
        OBVIOUS
      <4> QED BY <2>1, <2>2, <4>1
    <3> QED BY <3>1
  <2>4. ASSUME NEW n \in 0..(k + 1) PROVE g[n] = IF n = 0 THEN base ELSE step[n][g[n - 1]]
    <3>1. CASE n = k + 1
      <4>1. g[n] = step[k + 1][f[k]] /\ g[n - 1] = f[k]
        BY <3>1
      <4> QED BY <3>1, <4>1
    <3>2. CASE n \in 1..k
      <4>1. g[n] = f[n] /\ g[n - 1] = f[n - 1] /\ n \in 0..k
        BY <3>2
      <4> QED BY <2>1, <3>2, <4>1
    <3>3. CASE n = 0
      BY <2>1, <3>3
    <3> QED BY <3>1, <3>2, <3>3
  <2>5. g = [n \in 0..(k + 1) |-> IF n = 0 THEN base ELSE step[n][g[n - 1]]]
    BY <2>4
  <2> HIDE DEF g
  <2>6. Is(g, k + 1)
    BY <2>3, <2>5
  <2> HIDE DEF Is
  <2> QED BY <2>6
<1>3. T \in SUBSET Nat
  OBVIOUS
<1>4. T = Nat
  <2> HIDE DEF T
  <2> QED BY <1>1, <1>2, <1>3, Induction
<1>5. \E f : Is(f, m)
  <2>1. m \in T
    BY <1>4
  <2> HIDE DEF Is
  <2> QED BY <2>1
<1>6. PICK f : Is(f, m)
  <2> HIDE DEF Is
  <2> QED BY <1>5
<1>7. f \in [0..m -> V] /\ \A n \in 0..m : f[n] = IF n = 0 THEN base ELSE step[n][f[n - 1]]
  BY <1>6
<1>8. IsRun(f, base, step, m)
  <2>1. 0 \in 0..m /\ \A n \in 1..m : n \in 0..m /\ n # 0
    OBVIOUS
  <2> HIDE DEF Is, T
  <2> QED BY <1>7, <2>1 DEF IsRun
<1> HIDE DEF Is, T
<1> QED
  BY <1>7, <1>8

(* Two runs that are alike up to k - 1 are alike at k.                      *)
StepAlike(f, g, k) ==
  f[0] = g[0] /\ \A n \in 1..k : f[n - 1] = g[n - 1] => f[n] = g[n]

LEMMA RunsAgree ==
  ASSUME NEW f, NEW g, NEW k \in Nat, StepAlike(f, g, k)
  PROVE  \A n \in 0..k : f[n] = g[n]
<1> DEFINE T == {n \in Nat : n <= k => f[n] = g[n]}
<1>1. 0 \in T
  BY DEF StepAlike
<1>2. ASSUME NEW n \in T PROVE n + 1 \in T
  <2>1. CASE n + 1 <= k
    <3>1. n + 1 \in 1..k /\ (n + 1) - 1 = n /\ f[n] = g[n]
      BY <2>1
    <3>2. f[n + 1] = g[n + 1]
      BY <3>1 DEF StepAlike
    <3> QED BY <3>2
  <2>2. CASE ~(n + 1 <= k)
    BY <2>2
  <2> QED BY <2>1, <2>2
<1>3. T \in SUBSET Nat
  OBVIOUS
<1>4. T = Nat
  <2> HIDE DEF T
  <2> QED BY <1>1, <1>2, <1>3, Induction
<1> QED
  BY <1>4

-----------------------------------------------------------------------------
(* Sums.                                                                    *)

(* The function a sum of m terms is taken from.                             *)
Sums(f, a, m) ==
  CHOOSE s : s = [n \in 0..m |-> IF n = 0 THEN 0 ELSE s[n - 1] + f[a + n - 1]]

LEMMA SumsExist ==
  ASSUME NEW f, NEW a \in Int, NEW m \in Nat, \A i \in a..(a + m - 1) : f[i] \in Int
  PROVE  LET s == Sums(f, a, m)
         IN  s \in [0..m -> Int] /\ s[0] = 0 /\ \A n \in 1..m : s[n] = s[n - 1] + f[a + n - 1]
<1> DEFINE step == [n \in 1..m |-> [v \in Int |-> v + f[a + n - 1]]]
           Is(s) == s = [n \in 0..m |-> IF n = 0 THEN 0 ELSE s[n - 1] + f[a + n - 1]]
           s == Sums(f, a, m)
<1>1. ASSUME NEW n \in 1..m PROVE a + n - 1 \in a..(a + m - 1)
  OBVIOUS
<1>2. step \in [1..m -> [Int -> Int]]
  BY <1>1
<1>3. \E g \in [0..m -> Int] : IsRun(g, 0, step, m)
  <2> HIDE DEF step
  <2>1. 0 \in Int
    OBVIOUS
  <2> QED BY <1>2, <2>1, Recursion
<1>4. PICK g \in [0..m -> Int] : IsRun(g, 0, step, m)
  BY <1>3
<1>5. g[0] = 0 /\ \A n \in 1..m : g[n] = g[n - 1] + f[a + n - 1]
  <2>1. g[0] = 0
    BY <1>4 DEF IsRun
  <2>2. ASSUME NEW n \in 1..m PROVE g[n] = g[n - 1] + f[a + n - 1]
    <3>1. g[n] = step[n][g[n - 1]]
      <4> HIDE DEF step
      <4> QED BY <1>4 DEF IsRun
    <3>2. g[n - 1] \in Int
      <4>1. n - 1 \in 0..m
        OBVIOUS
      <4> QED BY <1>4, <4>1
    <3> QED BY <3>1, <3>2
  <2> QED BY <2>1, <2>2
<1>6. Is(g)
  BY <1>4, <1>5
<1>7. Is(s)
  BY <1>6 DEF Sums
<1> HIDE DEF s
<1>8. s[0] = 0 /\ \A n \in 1..m : s[n] = s[n - 1] + f[a + n - 1]
  BY <1>7
<1>9. \A n \in 0..m : s[n] = g[n]
  <2>1. \A n \in 1..m : s[n - 1] = g[n - 1] => s[n] = g[n]
    BY <1>5, <1>8
  <2>2. StepAlike(s, g, m)
    BY <1>5, <1>8, <2>1 DEF StepAlike
  <2> QED BY <1>1, <2>2, RunsAgree
<1>10. s \in [0..m -> Int]
  BY <1>4, <1>7, <1>9
<1> QED
  BY <1>8, <1>10 DEF s

LEMMA SumIs ==
  ASSUME NEW f, NEW a \in Int, NEW b \in Int, b >= a - 1
  PROVE  SumOver(f, a, b) = Sums(f, a, b - a + 1)[b - a + 1]
BY DEF SumOver, Sums

(* A sum from a to a - 1 has no term.                                       *)
LEMMA SumNone ==
  ASSUME NEW f, NEW a \in Int
  PROVE  SumOver(f, a, a - 1) = 0
<1>1. a - 1 - a + 1 = 0 /\ a - 1 >= a - 1 /\ a - 1 \in Int
  OBVIOUS
<1>2. Sums(f, a, 0)[0] = 0
  <2>1. \A i \in a..(a + 0 - 1) : f[i] \in Int
    OBVIOUS
  <2> QED BY <2>1, SumsExist
<1> QED
  BY <1>1, <1>2, SumIs

LEMMA SumType ==
  ASSUME NEW f, NEW a \in Int, NEW b \in Int, b >= a - 1, \A i \in a..b : f[i] \in Int
  PROVE  SumOver(f, a, b) \in Int
<1> DEFINE m == b - a + 1
<1>1. m \in Nat /\ a + m - 1 = b
  OBVIOUS
<1>2. SumOver(f, a, b) = Sums(f, a, m)[m]
  BY SumIs
<1> HIDE DEF m
<1>3. Sums(f, a, m) \in [0..m -> Int]
  BY <1>1, SumsExist
<1> QED
  BY <1>1, <1>2, <1>3

(* A term more.                                                             *)
LEMMA SumGrows ==
  ASSUME NEW f, NEW a \in Int, NEW b \in Int, b >= a, \A i \in a..b : f[i] \in Int
  PROVE  SumOver(f, a, b) = SumOver(f, a, b - 1) + f[b]
<1> DEFINE m == b - a
           F == Sums(f, a, m + 1)
           G == Sums(f, a, m)
<1>1. /\ m \in Nat /\ m + 1 \in Nat /\ a + (m + 1) - 1 = b /\ a + m - 1 = b - 1
      /\ b - a + 1 = m + 1 /\ (b - 1) - a + 1 = m /\ b - 1 \in Int /\ b - 1 >= a - 1
      /\ b >= a - 1
  OBVIOUS
<1>2. SumOver(f, a, b) = F[m + 1]
  BY <1>1, SumIs
<1>3. SumOver(f, a, b - 1) = G[m]
  <2>1. SumOver(f, a, b - 1) = Sums(f, a, (b - 1) - a + 1)[(b - 1) - a + 1]
    BY <1>1, SumIs
  <2> QED BY <1>1, <2>1
<1> HIDE DEF m
<1>4. /\ F \in [0..(m + 1) -> Int] /\ F[0] = 0
      /\ \A n \in 1..(m + 1) : F[n] = F[n - 1] + f[a + n - 1]
  BY <1>1, SumsExist
<1>5. /\ G \in [0..m -> Int] /\ G[0] = 0
      /\ \A n \in 1..m : G[n] = G[n - 1] + f[a + n - 1]
  <2>1. \A i \in a..(a + m - 1) : f[i] \in Int
    BY <1>1
  <2> QED BY <1>1, <2>1, SumsExist
<1> HIDE DEF F, G
<1>6. \A n \in 0..m : F[n] = G[n]
  <2>1. \A n \in 1..m : F[n - 1] = G[n - 1] => F[n] = G[n]
    BY <1>1, <1>4, <1>5
  <2>2. StepAlike(F, G, m)
    BY <1>1, <1>4, <1>5, <2>1 DEF StepAlike
  <2> QED BY <1>1, <2>2, RunsAgree
<1>7. F[m + 1] = F[m] + f[b]
  <2>1. m + 1 \in 1..(m + 1) /\ (m + 1) - 1 = m
    BY <1>1
  <2>2. F[m + 1] = F[(m + 1) - 1] + f[a + (m + 1) - 1]
    BY <1>4, <2>1
  <2> QED BY <1>1, <2>1, <2>2
<1>8. F[m] = G[m]
  BY <1>1, <1>6
<1> QED
  BY <1>2, <1>3, <1>7, <1>8

-----------------------------------------------------------------------------
(* Products.                                                                *)

(* The function a product of m factors is taken from.                       *)
Products(f, a, m) ==
  CHOOSE p : p = [n \in 0..m |-> IF n = 0 THEN 1 ELSE (p[n - 1] * f[a + n - 1]) % P]

LEMMA ProductsExist ==
  ASSUME NEW f, NEW a \in Int, NEW m \in Nat, \A i \in a..(a + m - 1) : f[i] \in Int
  PROVE  LET p == Products(f, a, m)
         IN  /\ p \in [0..m -> Field] /\ p[0] = 1
             /\ \A n \in 1..m : p[n] = (p[n - 1] * f[a + n - 1]) % P
<1> DEFINE step == [n \in 1..m |-> [v \in Field |-> (v * f[a + n - 1]) % P]]
           Is(p) == p = [n \in 0..m |-> IF n = 0 THEN 1 ELSE (p[n - 1] * f[a + n - 1]) % P]
           p == Products(f, a, m)
<1>1. ASSUME NEW n \in 1..m PROVE f[a + n - 1] \in Int
  <2>1. a + n - 1 \in a..(a + m - 1)
    OBVIOUS
  <2> QED BY <2>1
<1>2. \A v \in Field, w \in Int : (v * w) % P \in Field
  BY PrimeFieldAssumption DEF Field
<1>3. step \in [1..m -> [Field -> Field]] /\ 1 \in Field
  <2>1. 1 \in Field
    BY PrimeFieldAssumption DEF Field
  <2> QED BY <1>1, <1>2, <2>1
<1>4. \E g \in [0..m -> Field] : IsRun(g, 1, step, m)
  <2> HIDE DEF step
  <2> QED BY <1>3, Recursion
<1>5. PICK g \in [0..m -> Field] : IsRun(g, 1, step, m)
  BY <1>4
<1>6. g[0] = 1 /\ \A n \in 1..m : g[n] = (g[n - 1] * f[a + n - 1]) % P
  <2>1. g[0] = 1
    BY <1>5 DEF IsRun
  <2>2. ASSUME NEW n \in 1..m PROVE g[n] = (g[n - 1] * f[a + n - 1]) % P
    <3>1. g[n] = step[n][g[n - 1]]
      <4> HIDE DEF step
      <4> QED BY <1>5 DEF IsRun
    <3>2. g[n - 1] \in Field
      BY <1>5
    <3> QED BY <3>1, <3>2
  <2> QED BY <2>1, <2>2
<1>7. Is(g)
  BY <1>5, <1>6
<1>8. Is(p)
  BY <1>7 DEF Products
<1> HIDE DEF p
<1>9. p[0] = 1 /\ \A n \in 1..m : p[n] = (p[n - 1] * f[a + n - 1]) % P
  <2>1. 0 \in 0..m /\ \A n \in 1..m : n \in 0..m /\ n # 0
    OBVIOUS
  <2> QED BY <1>8, <2>1, Zenon
<1>10. \A n \in 0..m : p[n] = g[n]
  <2>1. \A n \in 1..m : p[n - 1] = g[n - 1] => p[n] = g[n]
    BY <1>6, <1>9
  <2>2. StepAlike(p, g, m)
    BY <1>6, <1>9, <2>1 DEF StepAlike
  <2> QED BY <1>1, <2>2, RunsAgree
<1>11. p \in [0..m -> Field]
  BY <1>5, <1>8, <1>10
<1> QED
  BY <1>9, <1>11 DEF p

LEMMA ProductIs ==
  ASSUME NEW f, NEW a \in Int, NEW b \in Int, b >= a - 1
  PROVE  ProductOver(f, a, b) = Products(f, a, b - a + 1)[b - a + 1]
BY DEF ProductOver, Products

LEMMA ProductNone ==
  ASSUME NEW f, NEW a \in Int
  PROVE  ProductOver(f, a, a - 1) = 1
<1>1. a - 1 - a + 1 = 0 /\ a - 1 >= a - 1 /\ a - 1 \in Int
  OBVIOUS
<1>2. Products(f, a, 0)[0] = 1
  <2>1. \A i \in a..(a + 0 - 1) : f[i] \in Int
    OBVIOUS
  <2> QED BY <2>1, ProductsExist
<1> QED
  BY <1>1, <1>2, ProductIs

LEMMA ProductType ==
  ASSUME NEW f, NEW a \in Int, NEW b \in Int, b >= a - 1, \A i \in a..b : f[i] \in Int
  PROVE  ProductOver(f, a, b) \in Field
<1> DEFINE m == b - a + 1
<1>1. m \in Nat /\ a + m - 1 = b
  OBVIOUS
<1>2. ProductOver(f, a, b) = Products(f, a, m)[m]
  BY ProductIs
<1> HIDE DEF m
<1>3. Products(f, a, m) \in [0..m -> Field]
  BY <1>1, ProductsExist
<1> QED
  BY <1>1, <1>2, <1>3

(* A factor more.                                                           *)
LEMMA ProductGrows ==
  ASSUME NEW f, NEW a \in Int, NEW b \in Int, b >= a, \A i \in a..b : f[i] \in Int
  PROVE  ProductOver(f, a, b) = (ProductOver(f, a, b - 1) * f[b]) % P
<1> DEFINE m == b - a
           F == Products(f, a, m + 1)
           G == Products(f, a, m)
<1>1. /\ m \in Nat /\ m + 1 \in Nat /\ a + (m + 1) - 1 = b /\ a + m - 1 = b - 1
      /\ b - a + 1 = m + 1 /\ (b - 1) - a + 1 = m /\ b - 1 \in Int /\ b - 1 >= a - 1
      /\ b >= a - 1
  OBVIOUS
<1>2. ProductOver(f, a, b) = F[m + 1]
  BY <1>1, ProductIs
<1>3. ProductOver(f, a, b - 1) = G[m]
  <2>1. ProductOver(f, a, b - 1) = Products(f, a, (b - 1) - a + 1)[(b - 1) - a + 1]
    BY <1>1, ProductIs
  <2> QED BY <1>1, <2>1
<1> HIDE DEF m
<1>4. /\ F[0] = 1
      /\ \A n \in 1..(m + 1) : F[n] = (F[n - 1] * f[a + n - 1]) % P
  BY <1>1, ProductsExist
<1>5. /\ G[0] = 1
      /\ \A n \in 1..m : G[n] = (G[n - 1] * f[a + n - 1]) % P
  <2>1. \A i \in a..(a + m - 1) : f[i] \in Int
    BY <1>1
  <2> QED BY <1>1, <2>1, ProductsExist
<1> HIDE DEF F, G
<1>6. \A n \in 0..m : F[n] = G[n]
  <2>1. \A n \in 1..m : F[n - 1] = G[n - 1] => F[n] = G[n]
    BY <1>1, <1>4, <1>5
  <2>2. StepAlike(F, G, m)
    BY <1>1, <1>4, <1>5, <2>1 DEF StepAlike
  <2> QED BY <1>1, <2>2, RunsAgree
<1>7. F[m + 1] = (F[m] * f[b]) % P
  <2>1. m + 1 \in 1..(m + 1) /\ (m + 1) - 1 = m
    BY <1>1
  <2>2. F[m + 1] = (F[(m + 1) - 1] * f[a + (m + 1) - 1]) % P
    BY <1>4, <2>1
  <2> QED BY <1>1, <2>1, <2>2
<1>8. F[m] = G[m]
  BY <1>1, <1>6
<1> QED
  BY <1>2, <1>3, <1>7, <1>8

-----------------------------------------------------------------------------
(* Numbers modulo P.                                                        *)

Rem(x) == x % P

LEMMA RemIs ==
  ASSUME NEW x \in Int
  PROVE  /\ Rem(x) \in Field /\ Rem(x) \in Int
         /\ \E k \in Int : x = Rem(x) + k * P
<1>1. P \in Nat \ {0}
  BY PrimeFieldAssumption
<1>2. x = P * (x \div P) + (x % P) /\ x % P \in 0..(P - 1) /\ x \div P \in Int
  BY <1>1
<1>3. x = Rem(x) + (x \div P) * P
  BY <1>1, <1>2 DEF Rem
<1> QED
  BY <1>2, <1>3 DEF Rem, Field

(* Numbers of the field that differ by a multiple of P are the same.        *)
LEMMA RestsEqual ==
  ASSUME NEW x \in Field, NEW y \in Field, NEW i \in Int, x = y + i * P
  PROVE  x = y
<1>1. P \in Nat \ {0}
  BY PrimeFieldAssumption
<1>2. x \in Int /\ y \in Int /\ 0 <= x /\ x < P /\ 0 <= y /\ y < P
  BY <1>1 DEF Field
<1> DEFINE ip == i * P
<1>3. ip \in Int /\ (i >= 1 => ip >= P) /\ (i <= -1 => ip <= -P) /\ (i = 0 => ip = 0)
  BY <1>1
<1>4. i >= 1 \/ i <= -1 \/ i = 0
  OBVIOUS
<1>5. x = y + ip
  OBVIOUS
<1> HIDE DEF ip
<1> QED BY <1>1, <1>2, <1>3, <1>4, <1>5

LEMMA RemSame ==
  ASSUME NEW x \in Int, NEW y \in Int, NEW k \in Int, x = y + k * P
  PROVE  Rem(x) = Rem(y)
<1>1. P \in Int
  BY PrimeFieldAssumption
<1>2. PICK i \in Int : x = Rem(x) + i * P
  BY RemIs
<1>3. PICK j \in Int : y = Rem(y) + j * P
  BY RemIs
<1>4. Rem(x) \in Field /\ Rem(y) \in Field /\ Rem(x) \in Int /\ Rem(y) \in Int
  BY RemIs
<1>5. j + k - i \in Int /\ (j + k - i) * P = j * P + k * P - i * P
  BY <1>1
<1>6. Rem(x) = Rem(y) + (j + k - i) * P
  <2>1. i * P \in Int /\ j * P \in Int /\ k * P \in Int
    BY <1>1
  <2> DEFINE ip == i * P
             jp == j * P
             kp == k * P
  <2>2. /\ ip \in Int /\ jp \in Int /\ kp \in Int
        /\ x = Rem(x) + ip /\ y = Rem(y) + jp /\ x = y + kp
        /\ (j + k - i) * P = jp + kp - ip
    BY <1>2, <1>3, <1>5, <2>1
  <2> HIDE DEF ip, jp, kp
  <2> QED BY <1>4, <2>2
<1> QED
  BY <1>4, <1>5, <1>6, RestsEqual

LEMMA RemOfField ==
  ASSUME NEW x \in Field
  PROVE  Rem(x) = x /\ x \in Int
<1>1. x \in Int
  BY PrimeFieldAssumption DEF Field
<1>2. PICK k \in Int : x = Rem(x) + k * P
  BY <1>1, RemIs
<1>3. Rem(x) \in Field
  BY <1>1, RemIs
<1> QED
  BY <1>1, <1>2, <1>3, RestsEqual

LEMMA RemOfRem == ASSUME NEW x \in Int PROVE Rem(Rem(x)) = Rem(x)
BY RemIs, RemOfField

(* Sums, differences and products of congruent numbers are congruent.       *)
LEMMA RemOps ==
  ASSUME NEW x \in Int, NEW y \in Int, NEW u \in Int, NEW v \in Int,
         Rem(x) = Rem(u), Rem(y) = Rem(v)
  PROVE  /\ Rem(x + y) = Rem(u + v) /\ Rem(x - y) = Rem(u - v)
         /\ Rem(x * y) = Rem(u * v)
<1>1. P \in Int
  BY PrimeFieldAssumption
<1>2. PICK i \in Int : x = Rem(x) + i * P
  BY RemIs
<1>3. PICK j \in Int : y = Rem(y) + j * P
  BY RemIs
<1>4. PICK k \in Int : u = Rem(u) + k * P
  BY RemIs
<1>5. PICK l \in Int : v = Rem(v) + l * P
  BY RemIs
<1> DEFINE c == i - k
           d == j - l
<1>6. c \in Int /\ d \in Int /\ c * P = i * P - k * P /\ d * P = j * P - l * P
  BY <1>1
<1>7. i * P \in Int /\ j * P \in Int /\ k * P \in Int /\ l * P \in Int
  BY <1>1
<1> HIDE DEF c, d
<1>8. x = u + c * P /\ y = v + d * P
  <2> DEFINE ip == i * P
             jp == j * P
             kp == k * P
             lp == l * P
  <2>1. /\ ip \in Int /\ jp \in Int /\ kp \in Int /\ lp \in Int
        /\ x = Rem(x) + ip /\ y = Rem(y) + jp /\ u = Rem(x) + kp /\ v = Rem(y) + lp
        /\ c * P = ip - kp /\ d * P = jp - lp /\ Rem(x) \in Int /\ Rem(y) \in Int
    BY <1>2, <1>3, <1>4, <1>5, <1>6, <1>7, RemIs
  <2> HIDE DEF ip, jp, kp, lp
  <2> QED BY <2>1
<1>9. Rem(x + y) = Rem(u + v)
  <2>1. x + y = (u + v) + (c + d) * P /\ c + d \in Int /\ x + y \in Int /\ u + v \in Int
    BY <1>1, <1>6, <1>8
  <2> QED BY <2>1, RemSame
<1>10. Rem(x - y) = Rem(u - v)
  <2>1. x - y = (u - v) + (c - d) * P /\ c - d \in Int /\ x - y \in Int /\ u - v \in Int
    BY <1>1, <1>6, <1>8
  <2> QED BY <2>1, RemSame
<1>11. Rem(x * y) = Rem(u * v)
  <2> DEFINE w == u * d + c * v + c * (d * P)
  <2>1. x * y = u * v + w * P /\ w \in Int /\ x * y \in Int /\ u * v \in Int
    BY <1>1, <1>6, <1>8
  <2> HIDE DEF w
  <2> QED BY <2>1, RemSame
<1> QED
  BY <1>9, <1>10, <1>11

(* Congruent numbers differ by a multiple of P.                             *)
LEMMA Multiple ==
  ASSUME NEW x \in Int, NEW y \in Int, Rem(x) = Rem(y)
  PROVE  \E k \in Int : x = y + k * P
<1>1. P \in Int
  BY PrimeFieldAssumption
<1>2. PICK i \in Int : x = Rem(x) + i * P
  BY RemIs
<1>3. PICK j \in Int : y = Rem(y) + j * P
  BY RemIs
<1>4. (i - j) * P = i * P - j * P /\ i * P \in Int /\ j * P \in Int /\ i - j \in Int
  BY <1>1
<1>5. x = y + (i - j) * P
  <2> DEFINE ip == i * P
             jp == j * P
  <2>1. /\ x = Rem(x) + ip /\ y = Rem(x) + jp /\ ip \in Int /\ jp \in Int
        /\ (i - j) * P = ip - jp /\ Rem(x) \in Int
    BY <1>2, <1>3, <1>4, RemIs
  <2> HIDE DEF ip, jp
  <2> QED BY <2>1
<1> QED
  BY <1>4, <1>5

(* Two numbers that are a multiple of P apart have one remainder.           *)
Apart(x, y, k) == x \in Int /\ y \in Int /\ k \in Int /\ x = y + k * P

LEMMA ApartSame == ASSUME NEW x, NEW y, NEW k, Apart(x, y, k) PROVE Rem(x) = Rem(y)
BY RemSame DEF Apart

(* Numbers with the same remainder may be added, and multiplied, for each   *)
(* other.                                                                   *)
LEMMA RemPlus ==
  ASSUME NEW x \in Int, NEW y \in Int, NEW v \in Int, Rem(x) = Rem(y)
  PROVE  Rem(x + v) = Rem(y + v) /\ Rem(v + x) = Rem(v + y) /\ Rem(x - v) = Rem(y - v)
         /\ Rem(v - x) = Rem(v - y)
<1>1. PICK k \in Int : x = y + k * P
  BY Multiple
<1>2. P \in Int /\ k * P \in Int /\ (-k) * P = -(k * P) /\ -k \in Int
  BY PrimeFieldAssumption
<1> DEFINE m == k * P
           l == (-k) * P
<1>3. m \in Int /\ l = -m /\ x = y + m
  BY <1>1, <1>2
<1>4. x + v \in Int /\ y + v \in Int /\ v + x \in Int /\ v + y \in Int /\ x - v \in Int
      /\ y - v \in Int /\ v - x \in Int /\ v - y \in Int
  OBVIOUS
<1> HIDE DEF m, l
<1>5. x + v = (y + v) + m /\ v + x = (v + y) + m /\ x - v = (y - v) + m /\ v - x = (v - y) + l
  BY <1>3
<1>6. /\ Apart(x + v, y + v, k) /\ Apart(v + x, v + y, k) /\ Apart(x - v, y - v, k)
      /\ Apart(v - x, v - y, -k)
  BY <1>2, <1>4, <1>5 DEF m, l, Apart
<1> QED BY <1>6, ApartSame

LEMMA RemTimes ==
  ASSUME NEW x \in Int, NEW y \in Int, NEW v \in Int, Rem(x) = Rem(y)
  PROVE  Rem(x * v) = Rem(y * v) /\ Rem(v * x) = Rem(v * y)
<1>1. PICK k \in Int : x = y + k * P
  BY Multiple
<1>2. P \in Int
  BY PrimeFieldAssumption
<1>3. x * v = y * v + (k * v) * P /\ v * x = x * v /\ v * y = y * v
  <2>1. (y + k * P) * v = y * v + (k * P) * v /\ (k * P) * v = (k * v) * P
    BY <1>2
  <2> QED BY <1>1, <2>1
<1>4. k * v \in Int /\ x * v \in Int /\ y * v \in Int
  OBVIOUS
<1>5. Apart(x * v, y * v, k * v) /\ Apart(v * x, v * y, k * v)
  BY <1>3, <1>4 DEF Apart
<1> QED BY <1>5, ApartSame

(* Every number but 0 has a reciprocal: the least number d that is          *)
(* congruent to one of its multiples divides P, for otherwise the rest of P *)
(* by d would be a smaller one; and so d is 1.                              *)
LEMMA ReciprocalIs ==
  ASSUME NEW x \in Field \ {0}
  PROVE  /\ Reciprocal(x) \in Field /\ Reciprocal(x) \in Int
         /\ Rem(x * Reciprocal(x)) = 1
<1> DEFINE S == {n \in Nat : n >= 1 /\ \E a \in Int : Rem(a * x) = Rem(n)}
<1>1. P \in Nat /\ P >= 2 /\ x \in Nat /\ x >= 1 /\ x < P
  BY PrimeFieldAssumption DEF Field
<1>2. x \in S
  <2>1. 1 * x = x
    BY <1>1
  <2>2. Rem(1 * x) = Rem(x)
    BY <2>1
  <2> QED BY <1>1, <2>2
<1>3. PICK d \in S : \A n \in S : d <= n
  <2>1. S \in SUBSET Nat /\ S # {}
    BY <1>2
  <2> HIDE DEF S
  <2> QED BY <2>1, Least
<1>4. d \in Nat /\ d >= 1 /\ d < P
  BY <1>1, <1>2, <1>3
<1>5. PICK a \in Int : Rem(a * x) = Rem(d)
  BY <1>3
<1> DEFINE q == P \div d
           r == P % d
<1>6. q \in Int /\ r \in 0..(d - 1) /\ P = d * q + r
  BY <1>1, <1>4
<1> HIDE DEF q
<1>7. r = 0
  <2> SUFFICES ASSUME r >= 1 PROVE FALSE
    BY <1>4, <1>6
  <2> HIDE DEF r
  <2> DEFINE m == -(q * a)
  <2>1. a * x \in Int /\ q * (a * x) \in Int /\ q * d \in Int /\ m \in Int
        /\ m * x = 0 - q * (a * x) /\ d * q = q * d
    BY <1>1, <1>4, <1>6
  <2>2. Rem(q * (a * x)) = Rem(q * d)
    <3>1. Rem(q) = Rem(q) /\ d \in Int
      BY <1>4
    <3> QED BY <1>5, <1>6, <2>1, <3>1, RemOps
  <2>3. Rem(0 - q * (a * x)) = Rem(0 - q * d)
    <3>1. 0 \in Int /\ Rem(0) = Rem(0)
      OBVIOUS
    <3> QED BY <2>1, <2>2, <3>1, RemOps
  <2>4. Rem(0 - q * d) = Rem(r)
    <3>1. 0 - q * d = r + (-1) * P
      BY <1>1, <1>6, <2>1
    <3>2. 0 - q * d \in Int /\ r \in Int /\ -1 \in Int
      BY <1>6, <2>1
    <3> QED BY <3>1, <3>2, RemSame
  <2>5. r \in S
    <3>1. Rem(m * x) = Rem(r)
      BY <2>1, <2>3, <2>4
    <3> HIDE DEF m
    <3>2. r \in Nat
      BY <1>6
    <3> QED BY <2>1, <3>1, <3>2
  <2>6. d <= r
    <3> HIDE DEF S
    <3> QED BY <1>3, <2>5
  <2> QED BY <1>4, <1>6, <2>6
<1>8. d = 1
  <2> SUFFICES ASSUME d >= 2 PROVE FALSE
    BY <1>4
  <2>1. d \in 2..(P - 1)
    BY <1>1, <1>4
  <2> QED BY <1>7, <2>1, PrimeFieldAssumption
<1>9. 1 \in Field
  BY <1>1 DEF Field
<1>10. Rem(a * x) = 1
  BY <1>5, <1>8, <1>9, RemOfField
<1> DEFINE y == Rem(a)
<1>11. y \in Field /\ y \in Int /\ Rem(y) = Rem(a)
  BY RemIs, RemOfRem
<1>12. Rem(x * y) = 1
  <2>1. x * a = a * x /\ x \in Int
    BY <1>1
  <2> HIDE DEF y
  <2>2. Rem(x * y) = Rem(x * a)
    BY <1>11, <2>1, RemOps
  <2> QED BY <1>10, <2>1, <2>2
<1> HIDE DEF y
<1>13. \E z \in Field : (x * z) % P = 1
  BY <1>11, <1>12 DEF Rem
<1> DEFINE z == CHOOSE z \in Field : (x * z) % P = 1
<1>14. z \in Field /\ (x * z) % P = 1
  BY <1>13
<1>15. Reciprocal(x) = z
  BY Zenon DEF Reciprocal, Inverses
<1> HIDE DEF z
<1> QED
  BY <1>14, <1>15, RemOfField DEF Rem

-----------------------------------------------------------------------------
(* Sums term by term.                                                       *)

Ints(f, a, b) == \A i \in a..b : f[i] \in Int

(* What holds for no terms and is passed on from c - 1 to c holds for all.  *)
LEMMA TermByTerm ==
  ASSUME NEW a \in Int, NEW b \in Int, b >= a - 1, NEW S \in SUBSET Int,
         a - 1 \in S, \A c \in a..b : c - 1 \in S => c \in S
  PROVE  b \in S
<1> DEFINE T == {m \in Nat : a - 1 + m <= b => a - 1 + m \in S}
<1>1. 0 \in T
  OBVIOUS
<1>2. ASSUME NEW m \in T PROVE m + 1 \in T
  <2>1. CASE a - 1 + (m + 1) <= b
    <3> DEFINE c == a - 1 + (m + 1)
    <3>1. c \in a..b /\ c - 1 = a - 1 + m /\ a - 1 + m <= b
      BY <2>1
    <3>2. c - 1 \in S
      BY <3>1
    <3> HIDE DEF c
    <3>3. c \in S
      BY <3>1, <3>2
    <3> QED BY <3>3 DEF c
  <2>2. CASE ~(a - 1 + (m + 1) <= b)
    BY <2>2
  <2> QED BY <2>1, <2>2
<1>3. T \in SUBSET Nat
  OBVIOUS
<1>4. T = Nat
  <2> HIDE DEF T
  <2> QED BY <1>1, <1>2, <1>3, Induction
<1>5. b - a + 1 \in Nat /\ a - 1 + (b - a + 1) = b
  OBVIOUS
<1>6. b - a + 1 \in T
  BY <1>4, <1>5
<1> QED
  BY <1>5, <1>6

LEMMA SumTerm ==
  ASSUME NEW f, NEW a \in Int, NEW c \in Int, c >= a, Ints(f, a, c)
  PROVE  /\ SumOver(f, a, c) = SumOver(f, a, c - 1) + f[c]
         /\ SumOver(f, a, c - 1) \in Int /\ f[c] \in Int /\ SumOver(f, a, c) \in Int
<1>1. c - 1 \in Int /\ c - 1 >= a - 1 /\ c \in a..c /\ c >= a - 1
  OBVIOUS
<1>2. (\A i \in a..c : f[i] \in Int) /\ (\A i \in a..(c - 1) : f[i] \in Int)
  BY DEF Ints
<1> QED
  BY <1>1, <1>2, SumGrows, SumType

LEMMA SumSame ==
  ASSUME NEW f, NEW g, NEW a \in Int, NEW b \in Int, b >= a - 1,
         Ints(f, a, b), Ints(g, a, b), \A i \in a..b : Rem(f[i]) = Rem(g[i])
  PROVE  Rem(SumOver(f, a, b)) = Rem(SumOver(g, a, b))
<1> DEFINE S == {c \in Int : Rem(SumOver(f, a, c)) = Rem(SumOver(g, a, c))}
<1>1. a - 1 \in S
  BY SumNone
<1>2. ASSUME NEW c \in a..b, c - 1 \in S PROVE c \in S
  <2>1. c \in Int /\ c >= a /\ Ints(f, a, c) /\ Ints(g, a, c)
    BY DEF Ints
  <2>2. /\ SumOver(f, a, c) = SumOver(f, a, c - 1) + f[c]
        /\ SumOver(f, a, c - 1) \in Int /\ f[c] \in Int
    BY <2>1, SumTerm
  <2>3. /\ SumOver(g, a, c) = SumOver(g, a, c - 1) + g[c]
        /\ SumOver(g, a, c - 1) \in Int /\ g[c] \in Int
    BY <2>1, SumTerm
  <2>4. Rem(SumOver(f, a, c - 1)) = Rem(SumOver(g, a, c - 1)) /\ Rem(f[c]) = Rem(g[c])
    BY <1>2
  <2>5. Rem(SumOver(f, a, c - 1) + f[c]) = Rem(SumOver(g, a, c - 1) + g[c])
    <3> DEFINE x == SumOver(f, a, c - 1)
               y == f[c]
               u == SumOver(g, a, c - 1)
               v == g[c]
    <3>1. x \in Int /\ y \in Int /\ u \in Int /\ v \in Int /\ Rem(x) = Rem(u) /\ Rem(y) = Rem(v)
      BY <2>2, <2>3, <2>4
    <3> HIDE DEF x, y, u, v
    <3>2. Rem(x + y) = Rem(u + v)
      BY <3>1, RemOps
    <3> QED BY <3>2 DEF x, y, u, v
  <2>6. Rem(SumOver(f, a, c)) = Rem(SumOver(g, a, c))
    BY <2>2, <2>3, <2>5, Zenon
  <2> QED BY <2>1, <2>6
<1>3. S \in SUBSET Int
  OBVIOUS
<1>4. b \in S
  <2> HIDE DEF S
  <2> QED BY <1>1, <1>2, <1>3, TermByTerm
<1> QED
  BY <1>4

(* A sum of sums and multiples.                                             *)
LEMMA SumLinear ==
  ASSUME NEW f, NEW g, NEW h, NEW k \in Int, NEW a \in Int, NEW b \in Int, b >= a - 1,
         Ints(f, a, b), Ints(g, a, b), \A i \in a..b : h[i] = f[i] + k * g[i]
  PROVE  SumOver(h, a, b) = SumOver(f, a, b) + k * SumOver(g, a, b)
<1> DEFINE S == {c \in Int : SumOver(h, a, c) = SumOver(f, a, c) + k * SumOver(g, a, c)}
<1>0. Ints(h, a, b)
  BY DEF Ints
<1>1. a - 1 \in S
  BY SumNone
<1>2. ASSUME NEW c \in a..b, c - 1 \in S PROVE c \in S
  <2>1. c \in Int /\ c >= a /\ Ints(f, a, c) /\ Ints(g, a, c) /\ Ints(h, a, c)
    BY <1>0 DEF Ints
  <2>2. /\ SumOver(f, a, c) = SumOver(f, a, c - 1) + f[c]
        /\ SumOver(f, a, c - 1) \in Int /\ f[c] \in Int
    BY <2>1, SumTerm
  <2>3. /\ SumOver(g, a, c) = SumOver(g, a, c - 1) + g[c]
        /\ SumOver(g, a, c - 1) \in Int /\ g[c] \in Int
    BY <2>1, SumTerm
  <2>4. SumOver(h, a, c) = SumOver(h, a, c - 1) + h[c]
    BY <2>1, SumTerm
  <2>5. SumOver(h, a, c - 1) = SumOver(f, a, c - 1) + k * SumOver(g, a, c - 1)
    BY <1>2
  <2>6. h[c] = f[c] + k * g[c]
    OBVIOUS
  <2> DEFINE G == SumOver(g, a, c - 1)
             F == SumOver(f, a, c - 1)
  <2>7. k * (G + g[c]) = k * G + k * g[c] /\ k * G \in Int /\ k * g[c] \in Int
    BY <2>3
  <2> HIDE DEF F, G
  <2>8. SumOver(h, a, c) = (F + f[c]) + k * (G + g[c])
    BY <2>2, <2>4, <2>5, <2>6, <2>7 DEF F, G
  <2>9. SumOver(h, a, c) = SumOver(f, a, c) + k * SumOver(g, a, c)
    BY <2>2, <2>3, <2>8 DEF F, G
  <2> QED BY <2>1, <2>9
<1>3. S \in SUBSET Int
  OBVIOUS
<1>4. b \in S
  <2> HIDE DEF S
  <2> QED BY <1>1, <1>2, <1>3, TermByTerm
<1> QED
  BY <1>4

LEMMA SumZero ==
  ASSUME NEW f, NEW a \in Int, NEW b \in Int, b >= a - 1, \A i \in a..b : f[i] = 0
  PROVE  SumOver(f, a, b) = 0
<1> DEFINE S == {c \in Int : SumOver(f, a, c) = 0}
<1>1. a - 1 \in S
  BY SumNone
<1>2. ASSUME NEW c \in a..b, c - 1 \in S PROVE c \in S
  <2>1. c \in Int /\ c >= a /\ Ints(f, a, c)
    BY DEF Ints
  <2>2. SumOver(f, a, c) = SumOver(f, a, c - 1) + f[c]
    BY <2>1, SumTerm
  <2> QED BY <1>2, <2>1, <2>2
<1>3. S \in SUBSET Int
  OBVIOUS
<1>4. b \in S
  <2> HIDE DEF S
  <2> QED BY <1>1, <1>2, <1>3, TermByTerm
<1> QED
  BY <1>4

LEMMA SumEqual ==
  ASSUME NEW f, NEW g, NEW a \in Int, NEW b \in Int, b >= a - 1,
         Ints(f, a, b), \A i \in a..b : f[i] = g[i]
  PROVE  SumOver(f, a, b) = SumOver(g, a, b)
<1> DEFINE S == {c \in Int : SumOver(f, a, c) = SumOver(g, a, c)}
<1>1. a - 1 \in S
  BY SumNone
<1>2. ASSUME NEW c \in a..b, c - 1 \in S PROVE c \in S
  <2>1. c \in Int /\ c >= a /\ Ints(f, a, c) /\ Ints(g, a, c)
    BY DEF Ints
  <2>2. SumOver(f, a, c) = SumOver(f, a, c - 1) + f[c]
    BY <2>1, SumTerm
  <2>3. SumOver(g, a, c) = SumOver(g, a, c - 1) + g[c]
    BY <2>1, SumTerm
  <2> QED BY <1>2, <2>1, <2>2, <2>3
<1>3. S \in SUBSET Int
  OBVIOUS
<1>4. b \in S
  <2> HIDE DEF S
  <2> QED BY <1>1, <1>2, <1>3, TermByTerm
<1> QED
  BY <1>4

(* Leading zeros and zeros at the end change nothing.                       *)
LEMMA SumFrom ==
  ASSUME NEW f, NEW a \in Int, NEW m \in Int, NEW b \in Int, a <= m, m <= b + 1,
         Ints(f, a, b), \A i \in a..(m - 1) : f[i] = 0
  PROVE  SumOver(f, a, b) = SumOver(f, m, b)
<1> DEFINE S == {c \in Int : SumOver(f, a, c) = SumOver(f, m, c)}
<1>1. m - 1 \in S
  BY SumNone, SumZero
<1>2. ASSUME NEW c \in m..b, c - 1 \in S PROVE c \in S
  <2>1. c \in Int /\ c >= a /\ c >= m /\ Ints(f, a, c) /\ Ints(f, m, c)
    BY DEF Ints
  <2>2. SumOver(f, a, c) = SumOver(f, a, c - 1) + f[c]
    BY <2>1, SumTerm
  <2>3. SumOver(f, m, c) = SumOver(f, m, c - 1) + f[c]
    BY <2>1, SumTerm
  <2> QED BY <1>2, <2>1, <2>2, <2>3
<1>3. S \in SUBSET Int
  OBVIOUS
<1>4. b \in S
  <2> HIDE DEF S
  <2> QED BY <1>1, <1>2, <1>3, TermByTerm
<1> QED
  BY <1>4

LEMMA SumUpTo ==
  ASSUME NEW f, NEW a \in Int, NEW m \in Int, NEW b \in Int, a <= m + 1, m <= b,
         Ints(f, a, b), \A i \in (m + 1)..b : Rem(f[i]) = 0
  PROVE  Rem(SumOver(f, a, b)) = Rem(SumOver(f, a, m))
<1> DEFINE S == {c \in Int : Rem(SumOver(f, a, c)) = Rem(SumOver(f, a, m))}
           n == m + 1
<1>1. n - 1 \in S
  OBVIOUS
<1>2. ASSUME NEW c \in n..b, c - 1 \in S PROVE c \in S
  <2>1. c \in Int /\ c >= a /\ Ints(f, a, c) /\ Rem(f[c]) = 0
    BY DEF Ints
  <2>2. /\ SumOver(f, a, c) = SumOver(f, a, c - 1) + f[c]
        /\ SumOver(f, a, c - 1) \in Int /\ f[c] \in Int
    BY <2>1, SumTerm
  <2>3. Rem(SumOver(f, a, c - 1)) = Rem(SumOver(f, a, m))
    BY <1>2
  <2>4. 0 \in Int /\ Rem(0) = 0 /\ SumOver(f, a, c - 1) + 0 = SumOver(f, a, c - 1)
    <3>1. 0 \in Field
      BY PrimeFieldAssumption DEF Field
    <3> QED BY <2>2, <3>1, RemOfField
  <2>5. Rem(SumOver(f, a, c - 1) + f[c]) = Rem(SumOver(f, a, c - 1) + 0)
    <3>1. Rem(f[c]) = Rem(0)
      BY <2>1, <2>4
    <3> QED BY <2>2, <2>4, <3>1, RemOps
  <2>6. Rem(SumOver(f, a, c)) = Rem(SumOver(f, a, m))
    BY <2>2, <2>3, <2>4, <2>5
  <2> QED BY <2>1, <2>6
<1>3. S \in SUBSET Int /\ n \in Int /\ b >= n - 1
  OBVIOUS
<1>4. b \in S
  <2> HIDE DEF S, n
  <2> QED BY <1>1, <1>2, <1>3, TermByTerm
<1> QED
  BY <1>4
-----------------------------------------------------------------------------
(* Sums of products over the stages.                                        *)
LastStage == Stages - 1

Dot(c, w) == SumOver([i \in Stage |-> c[i] * w[i]], 0, LastStage)

LEMMA StageIs ==
  /\ Stages \in 1..7 /\ LastStage \in Int /\ LastStage >= 0 /\ LastStage >= 0 - 1
  /\ Stage = 0..LastStage /\ 0 \in Stage /\ LastStage \in Stage
BY GaussRadauAssumption DEF Stage, LastStage

LEMMA FieldIs ==
  /\ Field \subseteq Int /\ 0 \in Field /\ 1 \in Field /\ P \in Int
  /\ Rem(0) = 0 /\ Rem(1) = 1
<1>1. Field \subseteq Int /\ 0 \in Field /\ 1 \in Field /\ P \in Int
  BY PrimeFieldAssumption DEF Field
<1> QED BY <1>1, RemOfField

LEMMA DotTerms ==
  ASSUME NEW c, NEW w, Ints(c, 0, LastStage), Ints(w, 0, LastStage)
  PROVE  Ints([i \in Stage |-> c[i] * w[i]], 0, LastStage)
BY StageIs DEF Ints

LEMMA DotType ==
  ASSUME NEW c, NEW w, Ints(c, 0, LastStage), Ints(w, 0, LastStage)
  PROVE  Dot(c, w) \in Int
<1> DEFINE f == [i \in Stage |-> c[i] * w[i]]
<1>1. \A i \in 0..LastStage : f[i] \in Int
  BY DotTerms DEF Ints
<1> HIDE DEF f
<1>2. SumOver(f, 0, LastStage) \in Int
  BY <1>1, StageIs, SumType
<1> QED BY <1>2 DEF f, Dot

(* What has the same remainders has sums with the same remainder, and sums  *)
(* are linear.                                                              *)
LEMMA DotSame ==
  ASSUME NEW c, NEW w, NEW d, NEW v, Ints(c, 0, LastStage), Ints(w, 0, LastStage),
         Ints(d, 0, LastStage), Ints(v, 0, LastStage),
         \A i \in Stage : Rem(c[i]) = Rem(d[i]) /\ Rem(w[i]) = Rem(v[i])
  PROVE  Rem(Dot(c, w)) = Rem(Dot(d, v))
<1> DEFINE f == [i \in Stage |-> c[i] * w[i]]
           g == [i \in Stage |-> d[i] * v[i]]
<1>1. Ints(f, 0, LastStage) /\ Ints(g, 0, LastStage)
  BY DotTerms
<1>2. ASSUME NEW i \in 0..LastStage PROVE Rem(f[i]) = Rem(g[i])
  <2>1. i \in Stage /\ f[i] = c[i] * w[i] /\ g[i] = d[i] * v[i]
    BY StageIs
  <2>2. c[i] \in Int /\ w[i] \in Int /\ d[i] \in Int /\ v[i] \in Int
    BY DEF Ints
  <2>3. Rem(c[i] * w[i]) = Rem(d[i] * v[i])
    <3> DEFINE x == c[i]
               y == w[i]
               u == d[i]
               t == v[i]
    <3>1. x \in Int /\ y \in Int /\ u \in Int /\ t \in Int /\ Rem(x) = Rem(u) /\ Rem(y) = Rem(t)
      BY <2>1, <2>2
    <3> HIDE DEF x, y, u, t
    <3>2. Rem(x * y) = Rem(u * t)
      BY <3>1, RemOps
    <3> QED BY <3>2 DEF x, y, u, t
  <2> QED BY <2>1, <2>3
<1> HIDE DEF f, g
<1>3. Rem(SumOver(f, 0, LastStage)) = Rem(SumOver(g, 0, LastStage))
  BY <1>1, <1>2, StageIs, SumSame
<1> QED BY <1>3 DEF f, g, Dot

LEMMA DotLinear ==
  ASSUME NEW f, NEW g, NEW h, NEW w, NEW k \in Int, Ints(f, 0, LastStage),
         Ints(g, 0, LastStage), Ints(w, 0, LastStage),
         \A i \in Stage : h[i] = f[i] + k * g[i]
  PROVE  Dot(h, w) = Dot(f, w) + k * Dot(g, w)
<1> DEFINE fw == [i \in Stage |-> f[i] * w[i]]
           gw == [i \in Stage |-> g[i] * w[i]]
           hw == [i \in Stage |-> h[i] * w[i]]
<1>1. Ints(fw, 0, LastStage) /\ Ints(gw, 0, LastStage)
  BY DotTerms
<1>2. ASSUME NEW i \in 0..LastStage PROVE hw[i] = fw[i] + k * gw[i]
  <2>1. i \in Stage /\ h[i] = f[i] + k * g[i]
    BY StageIs
  <2>2. f[i] \in Int /\ g[i] \in Int /\ w[i] \in Int
    BY DEF Ints
  <2> QED BY <2>1, <2>2
<1> HIDE DEF fw, gw, hw
<1>3. SumOver(hw, 0, LastStage) = SumOver(fw, 0, LastStage) + k * SumOver(gw, 0, LastStage)
  BY <1>1, <1>2, StageIs, SumLinear
<1> QED BY <1>3 DEF fw, gw, hw, Dot

(* One row of a table after another: when the weights go on with w[i + 1] = *)
(* m[i] * w[i], a row of which each entry is the one before it in c, and    *)
(* r - m[i] times the one above it, has r times the sum, and z * w[0] for   *)
(* the value z at the start.                                                *)
RowGoesOn(S, D, r, m, M, E, c, C, w, W, n, z) ==
  /\ S \in Int /\ D \in Int /\ r \in Int /\ m \in Int /\ M \in Int /\ E \in Int
  /\ c \in Int /\ C \in Int /\ w \in Int /\ W \in Int /\ n \in Int /\ z \in Int
  /\ Rem(S) = Rem(r * D + z - m * (c * w)) /\ Rem(W) = Rem(m * w)
  /\ Rem(n) = Rem(c + E * C) /\ M + E = r

LEMMA RowIdentity ==
  ASSUME NEW S, NEW D, NEW r, NEW m, NEW M, NEW E, NEW c, NEW C, NEW w, NEW W, NEW n, NEW z,
         RowGoesOn(S, D, r, m, M, E, c, C, w, W, n, z)
  PROVE  Rem(S + n * W) = Rem(r * (D + C * W) + z - M * (C * W))
<1> USE DEF RowGoesOn
<1>1. P \in Int
  BY FieldIs
<1>2. r * D + z - m * (c * w) \in Int /\ m * w \in Int /\ c + E * C \in Int
  OBVIOUS
<1>3. PICK i \in Int : S = (r * D + z - m * (c * w)) + i * P
  BY <1>2, Multiple
<1>4. PICK j \in Int : W = m * w + j * P
  BY <1>2, Multiple
<1>5. PICK k \in Int : n = (c + E * C) + k * P
  BY <1>2, Multiple
<1>6. E = r - M
  OBVIOUS
<1>7. r * (D + C * W) + z - M * (C * W) = r * D + z + (r * (C * W) - M * (C * W))
  OBVIOUS
<1>8. n * W = c * W + ((r - M) * C) * W + (k * P) * W
  BY <1>1, <1>5, <1>6
<1>9. c * W = c * (m * w) + c * (j * P)
  BY <1>1, <1>4
<1>10. ((r - M) * C) * W = r * (C * W) - M * (C * W)
  OBVIOUS
<1>11. c * (j * P) = (c * j) * P /\ (k * P) * W = (k * W) * P /\ c * (m * w) = m * (c * w)
  <2>1. ASSUME NEW x \in Int, NEW y \in Int, NEW t \in Int
        PROVE  x * (y * t) = (x * y) * t /\ (x * y) * t = (x * t) * y /\ x * (y * t) = y * (x * t)
    OBVIOUS
  <2> QED BY <1>1, <2>1
<1> DEFINE K == i + c * j + k * W
<1>12. K * P = i * P + (c * j) * P + (k * W) * P /\ K \in Int
  <2>1. ASSUME NEW x \in Int, NEW y \in Int, NEW t \in Int, NEW p \in Int
        PROVE  (x + y + t) * p = x * p + y * p + t * p
    OBVIOUS
  <2>2. c * j \in Int /\ k * W \in Int
    OBVIOUS
  <2> QED BY <1>1, <2>1, <2>2
<1> HIDE DEF K
<1>13. S + n * W = (r * (D + C * W) + z - M * (C * W)) + K * P
  <2> DEFINE a1 == r * D
             a2 == m * (c * w)
             a3 == r * (C * W)
             a4 == M * (C * W)
             a5 == i * P
             a6 == (c * j) * P
             a7 == (k * W) * P
             a8 == n * W
             a9 == K * P
             a10 == r * (D + C * W)
  <2>1. /\ a1 \in Int /\ a2 \in Int /\ a3 \in Int /\ a4 \in Int /\ a5 \in Int
        /\ a6 \in Int /\ a7 \in Int /\ a8 \in Int /\ a10 \in Int
    BY <1>1
  <2>2. S = a1 + z - a2 + a5 /\ a8 = (a2 + a6) + (a3 - a4) + a7 /\ a9 = a5 + a6 + a7
    BY <1>3, <1>8, <1>9, <1>10, <1>11, <1>12
  <2>3. a10 = a1 + a3
    OBVIOUS
  <2> HIDE DEF a1, a2, a3, a4, a5, a6, a7, a8, a9, a10
  <2>4. S + a8 = (a10 + z - a4) + a9
    BY <2>1, <2>2, <2>3
  <2> QED BY <2>4 DEF a4, a8, a9, a10
<1>14. S + n * W \in Int /\ r * (D + C * W) + z - M * (C * W) \in Int
  OBVIOUS
<1> QED BY <1>12, <1>13, <1>14, RemSame

RowAfter(c, new, w, m, e, r, z) ==
  /\ r \in Int /\ z \in Int
  /\ Ints(c, 0, LastStage) /\ Ints(new, 0, LastStage) /\ Ints(w, 0, LastStage)
  /\ Ints(m, 0, LastStage) /\ Ints(e, 0, LastStage) /\ c[LastStage] = 0
  /\ \A i \in Stage : m[i] + e[i] = r
  /\ \A i \in 0..(LastStage - 1) : Rem(w[i + 1]) = Rem(m[i] * w[i])
  /\ Rem(new[0]) = Rem(z + e[0] * c[0])
  /\ \A i \in 1..LastStage : Rem(new[i]) = Rem(c[i - 1] + e[i] * c[i])

LEMMA DotRow ==
  ASSUME NEW c, NEW new, NEW w, NEW m, NEW e, NEW r, NEW z, RowAfter(c, new, w, m, e, r, z)
  PROVE  Rem(Dot(new, w)) = Rem(r * Dot(c, w) + z * w[0])
<1> USE DEF RowAfter
<1> DEFINE f == [i \in Stage |-> new[i] * w[i]]
           g == [i \in Stage |-> c[i] * w[i]]
           F(n) == SumOver(f, 0, n)
           G(n) == SumOver(g, 0, n)
           S == {n \in Int : n >= 0 => Rem(F(n)) = Rem(r * G(n) + z * w[0] - m[n] * (c[n] * w[n]))}
<1>1. Ints(f, 0, LastStage) /\ Ints(g, 0, LastStage)
  BY DotTerms
<1>2. \A i \in Stage : /\ f[i] = new[i] * w[i] /\ g[i] = c[i] * w[i] /\ i \in 0..LastStage
                       /\ c[i] \in Int /\ w[i] \in Int /\ new[i] \in Int /\ m[i] \in Int
                       /\ e[i] \in Int /\ f[i] \in Int /\ g[i] \in Int
  BY <1>1, StageIs DEF Ints
<1> HIDE DEF f, g
<1>3. ASSUME NEW n \in 0..LastStage
      PROVE  F(n) = F(n - 1) + f[n] /\ G(n) = G(n - 1) + g[n]
             /\ F(n - 1) \in Int /\ G(n - 1) \in Int
  <2>1. n \in Int /\ n >= 0 /\ \A i \in 0..n : i \in 0..LastStage
    BY StageIs
  <2>2. Ints(f, 0, n) /\ Ints(g, 0, n)
    BY <1>1, <2>1 DEF Ints
  <2> QED BY <2>1, <2>2, SumTerm
<1>4. F(0 - 1) = 0 /\ G(0 - 1) = 0
  BY SumNone
<1> HIDE DEF F, G
<1>5. 0 - 1 \in S
  OBVIOUS
<1>6. ASSUME NEW n \in 0..LastStage, n - 1 \in S PROVE n \in S
  <2>1. CASE n = 0
    <3>1. F(0) = new[0] * w[0] /\ G(0) = c[0] * w[0]
      <4>1. 0 \in Stage /\ 0 \in 0..LastStage
        BY StageIs
      <4>2. F(0) = F(0 - 1) + f[0] /\ G(0) = G(0 - 1) + g[0]
        BY <1>3, <4>1
      <4> QED BY <1>2, <1>4, <4>1, <4>2
    <3>2. Rem(new[0] * w[0]) = Rem(r * (c[0] * w[0]) + z * w[0] - m[0] * (c[0] * w[0]))
      <4> DEFINE x == new[0]
                 y == z + e[0] * c[0]
                 v == w[0]
                 C == c[0]
                 M == m[0]
                 E == e[0]
      <4>1. /\ x \in Int /\ y \in Int /\ v \in Int /\ C \in Int /\ M \in Int /\ E \in Int
            /\ y = z + E * C /\ M + E = r /\ Rem(x) = Rem(y)
        BY <1>2, StageIs
      <4> HIDE DEF x, y, v, C, M, E
      <4>2. Rem(x * v) = Rem(y * v)
        BY <4>1, RemTimes
      <4>3. y * v = r * (C * v) + z * v - M * (C * v)
        <5>1. y * v = z * v + (r - M) * (C * v)
          <6>1. E = r - M
            BY <4>1
          <6>2. (z + E * C) * v = z * v + E * (C * v)
            BY <4>1
          <6> QED BY <4>1, <6>1, <6>2
        <5>2. (r - M) * (C * v) = r * (C * v) - M * (C * v)
          BY <4>1
        <5> QED BY <4>1, <5>1, <5>2
      <4>4. Rem(x * v) = Rem(r * (C * v) + z * v - M * (C * v))
        BY <4>2, <4>3
      <4> QED BY <4>4 DEF x, v, C, M
    <3> QED BY <2>1, <3>1, <3>2
  <2>2. CASE n # 0
    <3> DEFINE p == n - 1
    <3>1. p \in Stage /\ n \in Stage /\ p \in 0..(LastStage - 1) /\ p + 1 = n /\ n \in 1..LastStage
          /\ p \in 0..LastStage
      BY <2>2, StageIs
    <3> DEFINE SS == F(p)
               D == G(p)
               mm == m[p]
               M == m[n]
               E == e[n]
               cc == c[p]
               C == c[n]
               ww == w[p]
               W == w[n]
               nn == new[n]
               zz == z * w[0]
    <3>2. Rem(SS) = Rem(r * D + zz - mm * (cc * ww))
      BY <1>6, <3>1
    <3>3. Rem(W) = Rem(mm * ww) /\ Rem(nn) = Rem(cc + E * C) /\ M + E = r
      BY <3>1
    <3>4. /\ SS \in Int /\ D \in Int /\ mm \in Int /\ M \in Int /\ E \in Int /\ cc \in Int
          /\ C \in Int /\ ww \in Int /\ W \in Int /\ nn \in Int
      BY <1>2, <1>3, <3>1
    <3>5. zz \in Int
      <4>1. w[0] \in Int
        BY <1>2, StageIs
      <4> QED BY <4>1
    <3>6. F(n) = SS + nn * W /\ G(n) = D + C * W
      BY <1>2, <1>3, <3>1
    <3> HIDE DEF SS, D, mm, M, E, cc, C, ww, W, nn, zz
    <3>7. Rem(SS + nn * W) = Rem(r * (D + C * W) + zz - M * (C * W))
      <4>1. RowGoesOn(SS, D, r, mm, M, E, cc, C, ww, W, nn, zz)
        BY <3>2, <3>3, <3>4, <3>5 DEF RowGoesOn
      <4> QED BY <4>1, RowIdentity
    <3>8. Rem(F(n)) = Rem(r * G(n) + zz - M * (C * W))
      BY <3>6, <3>7
    <3> QED BY <3>1, <3>8 DEF M, C, W, zz
  <2> QED BY <2>1, <2>2
<1>7. S \in SUBSET Int
  OBVIOUS
<1>8. LastStage \in S
  <2> HIDE DEF S
  <2> QED BY <1>5, <1>6, <1>7, StageIs, TermByTerm
<1>9. Rem(F(LastStage)) = Rem(r * G(LastStage) + z * w[0] - m[LastStage] * (c[LastStage] * w[LastStage]))
  BY <1>8, StageIs
<1>10. m[LastStage] * (c[LastStage] * w[LastStage]) = 0
  <2>1. m[LastStage] \in Int /\ w[LastStage] \in Int
    BY <1>2, StageIs
  <2> QED BY <2>1
<1>11. F(LastStage) = Dot(new, w) /\ G(LastStage) = Dot(c, w)
  BY DEF F, G, f, g, Dot
<1>12. r * G(LastStage) + z * w[0] - 0 = r * G(LastStage) + z * w[0]
  <2>1. G(LastStage) \in Int
    BY <1>11, DotType
  <2>2. w[0] \in Int
    BY <1>2, StageIs
  <2> QED BY <2>1, <2>2
<1> QED BY <1>9, <1>10, <1>11, <1>12
-----------------------------------------------------------------------------
LEMMA FieldOf == ASSUME NEW x \in Int PROVE x % P \in Field /\ x % P = Rem(x) /\ x % P \in Int
BY RemIs DEF Rem

LEMMA RemTimesOf ==
  ASSUME NEW x \in Int, NEW v \in Int, NEW y \in Int, Rem(x) = y
  PROVE  /\ y = 0 => Rem(x * v) = 0 /\ Rem(v * x) = 0
         /\ y = 1 => Rem(x * v) = Rem(v) /\ Rem(v * x) = Rem(v)
<1>1. y = 0 \/ y = 1 => Rem(y) = y
  BY FieldIs
<1>2. ASSUME y = 0 \/ y = 1 PROVE Rem(x * v) = Rem(y * v) /\ Rem(v * x) = Rem(v * y)
  BY <1>1, <1>2, RemTimes
<1>3. (y = 0 => y * v = 0 /\ v * y = 0) /\ (y = 1 => y * v = v /\ v * y = v)
  OBVIOUS
<1> QED BY <1>2, <1>3, FieldIs

(* Numbers with the same remainder.                                         *)
Like(x, y) == x \in Int /\ y \in Int /\ Rem(x) = Rem(y)

LEMMA LikeOps ==
  ASSUME NEW x, NEW y, NEW u, NEW v, Like(x, y), Like(u, v)
  PROVE  Like(x + u, y + v) /\ Like(x - u, y - v) /\ Like(x * u, y * v)
<1>1. x \in Int /\ y \in Int /\ u \in Int /\ v \in Int /\ Rem(x) = Rem(y) /\ Rem(u) = Rem(v)
  BY DEF Like
<1>2. Rem(x + u) = Rem(y + v) /\ Rem(x - u) = Rem(y - v) /\ Rem(x * u) = Rem(y * v)
  BY <1>1, RemOps
<1>3. /\ x + u \in Int /\ y + v \in Int /\ x - u \in Int /\ y - v \in Int
      /\ x * u \in Int /\ y * v \in Int
  BY <1>1
<1> QED BY <1>2, <1>3, Zenon DEF Like

(* A sum of sums in the other order.                                        *)
SumsOfSums(b, B, w, d, T) ==
  /\ Ints(b, 0, LastStage) /\ Ints(w, 0, LastStage) /\ Ints(d, 0, LastStage)
  /\ \A j \in Stage : Ints(B[j], 0, LastStage)
  /\ T = [i \in Stage |-> SumOver([j \in Stage |-> b[j] * B[j][i]], 0, LastStage)]
  /\ \A j \in Stage : Rem(d[j]) = Rem(Dot(B[j], w))

LEMMA Exchange ==
  ASSUME NEW b, NEW B, NEW w, NEW d, NEW T, SumsOfSums(b, B, w, d, T)
  PROVE  Rem(Dot(b, d)) = Rem(Dot(T, w)) /\ Ints(T, 0, LastStage)
<1> USE DEF SumsOfSums
<1> DEFINE col(i) == [j \in Stage |-> b[j] * B[j][i]]
           part(n) == [i \in Stage |-> SumOver(col(i), 0, n)]
           v == [j \in Stage |-> Dot(B[j], w)]
           bv == [j \in Stage |-> b[j] * v[j]]
           S == {n \in Int : n <= LastStage => SumOver(bv, 0, n) = Dot(part(n), w)}
<1>1. Ints(v, 0, LastStage) /\ \A j \in Stage : v[j] = Dot(B[j], w)
  <2>1. ASSUME NEW j \in 0..LastStage PROVE v[j] \in Int
    <3>1. j \in Stage
      BY StageIs
    <3>2. Dot(B[j], w) \in Int
      BY <3>1, DotType
    <3> QED BY <3>1, <3>2
  <2> QED BY <2>1 DEF Ints
<1>2. ASSUME NEW i \in Stage, NEW n \in Int, n <= LastStage PROVE Ints(col(i), 0, n)
  <2> DEFINE f == col(i)
  <2>1. ASSUME NEW j \in 0..n PROVE f[j] \in Int
    <3>1. j \in Stage /\ j \in 0..LastStage /\ i \in 0..LastStage
      BY <1>2, StageIs
    <3>2. b[j] \in Int /\ B[j][i] \in Int
      BY <3>1 DEF Ints
    <3> QED BY <3>1, <3>2
  <2> HIDE DEF f
  <2>2. Ints(f, 0, n)
    BY <2>1 DEF Ints
  <2> QED BY <2>2 DEF f
<1>3. ASSUME NEW n \in Int, 0 - 1 <= n, n <= LastStage PROVE Ints(part(n), 0, LastStage)
  <2>1. ASSUME NEW i \in 0..LastStage PROVE part(n)[i] \in Int
    <3>1. i \in Stage
      BY StageIs
    <3>2. \A j \in 0..n : col(i)[j] \in Int
      BY <1>2, <1>3, <3>1 DEF Ints
    <3> HIDE DEF col
    <3>3. SumOver(col(i), 0, n) \in Int
      BY <1>3, <3>2, SumType
    <3> QED BY <3>1, <3>3
  <2> QED BY <2>1 DEF Ints
<1>4. Ints(bv, 0, LastStage)
  BY <1>1, DotTerms
<1>5. \A j \in Stage : bv[j] = b[j] * v[j]
  OBVIOUS
<1> HIDE DEF v, bv
<1>6. 0 - 1 \in S
  <2>1. SumOver(bv, 0, 0 - 1) = 0
    BY SumNone
  <2>2. Dot(part(0 - 1), w) = 0
    <3> DEFINE p == part(0 - 1)
               f == [i \in Stage |-> p[i] * w[i]]
    <3>1. ASSUME NEW i \in Stage PROVE p[i] = 0
      <4> HIDE DEF col
      <4>1. SumOver(col(i), 0, 0 - 1) = 0
        BY SumNone
      <4> QED BY <4>1
    <3>2. ASSUME NEW i \in 0..LastStage PROVE f[i] = 0
      <4>1. i \in Stage /\ w[i] \in Int
        BY StageIs DEF Ints
      <4> HIDE DEF p
      <4> QED BY <3>1, <4>1
    <3> HIDE DEF f, p
    <3>3. SumOver(f, 0, LastStage) = 0
      BY <3>2, StageIs, SumZero
    <3> QED BY <3>3 DEF f, p, Dot
  <2> HIDE DEF part
  <2> QED BY <2>1, <2>2
<1>7. ASSUME NEW n \in 0..LastStage, n - 1 \in S PROVE n \in S
  <2>1. n \in Stage /\ n - 1 \in Int /\ 0 - 1 <= n - 1 /\ n - 1 <= LastStage /\ n \in Int /\ n >= 0
        /\ n <= LastStage /\ \A i \in 0..n : i \in 0..LastStage
    BY StageIs
  <2>2. SumOver(bv, 0, n) = SumOver(bv, 0, n - 1) + bv[n]
    <3>1. Ints(bv, 0, n)
      BY <1>4, <2>1 DEF Ints
    <3> QED BY <2>1, <3>1, SumTerm
  <2>3. SumOver(bv, 0, n - 1) = Dot(part(n - 1), w)
    <3> HIDE DEF part
    <3> QED BY <1>7, <2>1
  <2> DEFINE p == part(n - 1)
             q == part(n)
  <2>4. ASSUME NEW i \in Stage PROVE q[i] = p[i] + b[n] * B[n][i]
    <3>1. Ints(col(i), 0, n)
      <4> HIDE DEF col
      <4> QED BY <1>2, <2>1
    <3>2. col(i)[n] = b[n] * B[n][i]
      BY <2>1
    <3> HIDE DEF col
    <3>3. SumOver(col(i), 0, n) = SumOver(col(i), 0, n - 1) + col(i)[n]
      BY <2>1, <3>1, SumTerm
    <3> QED BY <3>2, <3>3
  <2>5. Ints(p, 0, LastStage)
    BY <1>3, <2>1
  <2>6. b[n] \in Int /\ Ints(B[n], 0, LastStage)
    BY <2>1 DEF Ints
  <2> HIDE DEF p, q
  <2>7. Dot(q, w) = Dot(p, w) + b[n] * Dot(B[n], w)
    BY <2>4, <2>5, <2>6, DotLinear
  <2>8. bv[n] = b[n] * Dot(B[n], w)
    BY <1>1, <1>5, <2>1
  <2>9. SumOver(bv, 0, n) = Dot(q, w)
    BY <2>2, <2>3, <2>7, <2>8 DEF p
  <2> HIDE DEF part
  <2> QED BY <2>1, <2>9 DEF q
<1>8. LastStage \in S
  <2>1. S \in SUBSET Int
    OBVIOUS
  <2> HIDE DEF S
  <2> QED BY <1>6, <1>7, <2>1, StageIs, TermByTerm
<1>9. SumOver(bv, 0, LastStage) = Dot(part(LastStage), w)
  <2> HIDE DEF part
  <2> QED BY <1>8, StageIs
<1>10. part(LastStage) = T
  OBVIOUS
<1>11. SumOver(bv, 0, LastStage) = Dot(b, v)
  BY DEF Dot, bv
<1>12. Rem(Dot(b, d)) = Rem(Dot(b, v))
  BY <1>1, DotSame
<1>13. Ints(T, 0, LastStage)
  <2> HIDE DEF part
  <2>1. LastStage \in Int /\ 0 - 1 <= LastStage /\ LastStage <= LastStage
    BY StageIs
  <2>2. Ints(part(LastStage), 0, LastStage)
    BY <1>3, <2>1
  <2> QED BY <1>10, <2>2
<1> QED BY <1>9, <1>10, <1>11, <1>12, <1>13

-----------------------------------------------------------------------------
(* The tables.                                                              *)
Triangle(t) ==
  /\ t \in [Stage -> [Stage -> Field]]
  /\ t[0][0] = 1
  /\ \A n, j \in Stage : n < j => t[n][j] = 0

LEMMA NodeIs == ASSUME NEW n \in Stage PROVE Node[n] \in Field /\ Node[n] \in Int /\ Node[n] # 0
BY GaussRadauAssumption, FieldIs

(* Each row of g2b is the one before, shifted and less a node times it:     *)
(* the product of one difference more.                                      *)
LEMMA g2bIs ==
  /\ Triangle(g2b)
  /\ \A n \in Stage \ {0}, j \in Stage : n >= j =>
       g2b[n][j] = ((IF j = 0 THEN 0 ELSE g2b[n - 1][j - 1]) - Node[n - 1] * g2b[n - 1][j]) % P
<1> DEFINE V == [Stage -> Field]
           base == [j \in Stage |-> IF j = 0 THEN 1 ELSE 0]
           row(n, c) == [j \in Stage |->
              IF n < j THEN 0
              ELSE ((IF j = 0 THEN 0 ELSE c[j - 1]) - Node[n - 1] * c[j]) % P]
           step == [n \in 1..LastStage |-> [c \in V |-> row(n, c)]]
           Is(t) == t = [n \in Stage |-> [j \in Stage |->
                       CASE n < j -> 0
                         [] n = 0 /\ j = 0 -> 1
                         [] OTHER -> ((IF j = 0 THEN 0 ELSE t[n - 1][j - 1])
                                       - Node[n - 1] * t[n - 1][j]) % P]]
<1>1. base \in V
  BY FieldIs
<1>2. ASSUME NEW n \in 1..LastStage, NEW c \in V PROVE row(n, c) \in V
  <2>1. ASSUME NEW j \in Stage PROVE row(n, c)[j] \in Field
    <3>1. n - 1 \in Stage /\ (j # 0 => j - 1 \in Stage)
      BY StageIs
    <3>2. Node[n - 1] \in Int /\ c[j] \in Int /\ (j # 0 => c[j - 1] \in Int)
      BY <3>1, NodeIs, FieldIs
    <3> DEFINE x == (IF j = 0 THEN 0 ELSE c[j - 1]) - Node[n - 1] * c[j]
    <3>3. x \in Int
      BY <3>2
    <3> HIDE DEF x
    <3>4. x % P \in Field
      BY <3>3, FieldOf
    <3>5. row(n, c)[j] = IF n < j THEN 0 ELSE x % P
      BY DEF x
    <3> HIDE DEF row
    <3> QED BY <3>4, <3>5, FieldIs
  <2> QED BY <2>1
<1>3. step \in [1..LastStage -> [V -> V]]
  <2> HIDE DEF row, V
  <2> QED BY <1>2
<1>4. PICK t \in [0..LastStage -> V] : IsRun(t, base, step, LastStage)
  <2>1. LastStage \in Nat
    BY StageIs
  <2> HIDE DEF base, step, V
  <2> QED BY <1>1, <1>3, <2>1, Recursion
<1>5. t \in [Stage -> V] /\ t[0] = base
  BY <1>4, StageIs DEF IsRun
<1>6. ASSUME NEW n \in 1..LastStage PROVE t[n] = row(n, t[n - 1])
  <2>1. t[n] = step[n][t[n - 1]]
    <3> HIDE DEF step, base, V
    <3> QED BY <1>4 DEF IsRun
  <2>2. n - 1 \in Stage
    BY StageIs
  <2>3. t[n - 1] \in V
    <3> HIDE DEF V
    <3> QED BY <1>5, <2>2
  <2> HIDE DEF row, V
  <2> QED BY <2>1, <2>3
<1>7. Is(t)
  <2>1. ASSUME NEW n \in Stage
        PROVE  t[n] = [j \in Stage |->
                       CASE n < j -> 0
                         [] n = 0 /\ j = 0 -> 1
                         [] OTHER -> ((IF j = 0 THEN 0 ELSE t[n - 1][j - 1])
                                       - Node[n - 1] * t[n - 1][j]) % P]
    <3>1. CASE n = 0
      <4>1. \A j \in Stage : 0 < j <=> j # 0
        BY StageIs
      <4>2. t[0] = [j \in Stage |-> IF 0 < j THEN 0 ELSE 1]
        BY <1>5, <4>1
      <4>3. ASSUME NEW j \in Stage
            PROVE  (IF n < j THEN 0 ELSE 1)
                     = CASE n < j -> 0
                         [] n = 0 /\ j = 0 -> 1
                         [] OTHER -> ((IF j = 0 THEN 0 ELSE t[n - 1][j - 1])
                                       - Node[n - 1] * t[n - 1][j]) % P
        BY <3>1, StageIs
      <4> QED BY <3>1, <4>2, <4>3
    <3>2. CASE n # 0
      <4>1. n \in 1..LastStage
        BY <3>2, StageIs
      <4>2. t[n] = row(n, t[n - 1])
        BY <1>6, <4>1
      <4> QED BY <3>2, <4>2
    <3> QED BY <3>1, <3>2
  <2> QED BY <1>5, <2>1
<1>8. Is(g2b)
  <2> HIDE DEF Is
  <2>1. \E u : Is(u)
    BY <1>7
  <2>2. g2b = CHOOSE u : Is(u)
    BY DEF g2b, Is
  <2> QED BY <2>1, <2>2
<1>9. ASSUME NEW n \in 1..LastStage PROVE g2b[n] = row(n, g2b[n - 1])
  <2>1. n \in Stage /\ n # 0
    BY StageIs
  <2>2. g2b[n] = [j \in Stage |->
                    CASE n < j -> 0
                      [] n = 0 /\ j = 0 -> 1
                      [] OTHER -> ((IF j = 0 THEN 0 ELSE g2b[n - 1][j - 1])
                                    - Node[n - 1] * g2b[n - 1][j]) % P]
    BY <1>8, <2>1
  <2> QED BY <2>1, <2>2
<1>10. g2b[0] = base
  <2>1. 0 \in Stage /\ \A j \in Stage : 0 < j <=> j # 0
    BY StageIs
  <2>2. g2b[0] = [j \in Stage |-> IF 0 < j THEN 0 ELSE 1]
    <3>1. g2b[0] = [j \in Stage |->
                      CASE 0 < j -> 0
                        [] 0 = 0 /\ j = 0 -> 1
                        [] OTHER -> ((IF j = 0 THEN 0 ELSE g2b[0 - 1][j - 1])
                                      - Node[0 - 1] * g2b[0 - 1][j]) % P]
      BY <1>8, <2>1
    <3>2. ASSUME NEW j \in Stage
          PROVE  (IF 0 < j THEN 0 ELSE 1)
                   = CASE 0 < j -> 0
                       [] 0 = 0 /\ j = 0 -> 1
                       [] OTHER -> ((IF j = 0 THEN 0 ELSE g2b[0 - 1][j - 1])
                                     - Node[0 - 1] * g2b[0 - 1][j]) % P
      BY StageIs
    <3> QED BY <3>1, <3>2
  <2> QED BY <2>1, <2>2
<1>11. g2b = t
  <2>1. StepAlike(g2b, t, LastStage)
    <3>1. ASSUME NEW n \in 1..LastStage, g2b[n - 1] = t[n - 1] PROVE g2b[n] = t[n]
      <4> HIDE DEF row
      <4> QED BY <1>6, <1>9, <3>1
    <3> HIDE DEF base
    <3> QED BY <1>5, <1>10, <3>1 DEF StepAlike
  <2>2. LastStage \in Nat
    BY StageIs
  <2>3. \A n \in Stage : g2b[n] = t[n]
    BY <2>1, <2>2, RunsAgree, StageIs
  <2>4. g2b = [n \in Stage |-> g2b[n]] /\ t = [n \in Stage |-> t[n]]
    BY <1>5, <1>8
  <2> QED BY <2>3, <2>4, Zenon
<1>12. g2b[0][0] = 1 /\ g2b \in [Stage -> V]
  BY <1>5, <1>10, <1>11, StageIs
<1>13. ASSUME NEW n \in Stage, NEW j \in Stage, n < j PROVE g2b[n][j] = 0
  <2>1. CASE n = 0
    <3>1. j # 0
      BY <1>13, <2>1
    <3> QED BY <1>10, <2>1, <3>1
  <2>2. CASE n # 0
    <3>1. n \in 1..LastStage
      BY <2>2, StageIs
    <3>2. g2b[n] = row(n, g2b[n - 1])
      BY <1>9, <3>1
    <3> QED BY <1>13, <3>2
  <2> QED BY <2>1, <2>2
<1>14. ASSUME NEW n \in Stage \ {0}, NEW j \in Stage, n >= j
       PROVE g2b[n][j] = ((IF j = 0 THEN 0 ELSE g2b[n - 1][j - 1]) - Node[n - 1] * g2b[n - 1][j]) % P
  <2>1. n \in 1..LastStage /\ ~(n < j)
    BY <1>14, StageIs
  <2>2. g2b[n] = row(n, g2b[n - 1])
    BY <1>9, <2>1
  <2> QED BY <2>1, <2>2
<1> QED BY <1>12, <1>13, <1>14 DEF Triangle

(* Each row of b2g writes one power more in terms of the products.          *)
LEMMA b2gIs ==
  /\ Triangle(b2g)
  /\ \A n \in Stage \ {0}, j \in Stage : n >= j =>
       b2g[n][j] = ((IF j = 0 THEN 0 ELSE b2g[n - 1][j - 1]) + Node[j] * b2g[n - 1][j]) % P
<1> DEFINE V == [Stage -> Field]
           base == [j \in Stage |-> IF j = 0 THEN 1 ELSE 0]
           row(n, c) == [j \in Stage |->
              IF n < j THEN 0
              ELSE ((IF j = 0 THEN 0 ELSE c[j - 1]) + Node[j] * c[j]) % P]
           step == [n \in 1..LastStage |-> [c \in V |-> row(n, c)]]
           Is(t) == t = [n \in Stage |-> [j \in Stage |->
                       CASE n < j -> 0
                         [] n = 0 /\ j = 0 -> 1
                         [] OTHER -> ((IF j = 0 THEN 0 ELSE t[n - 1][j - 1])
                                       + Node[j] * t[n - 1][j]) % P]]
<1>1. base \in V
  BY FieldIs
<1>2. ASSUME NEW n \in 1..LastStage, NEW c \in V PROVE row(n, c) \in V
  <2>1. ASSUME NEW j \in Stage PROVE row(n, c)[j] \in Field
    <3>1. n - 1 \in Stage /\ (j # 0 => j - 1 \in Stage)
      BY StageIs
    <3>2. Node[j] \in Int /\ c[j] \in Int /\ (j # 0 => c[j - 1] \in Int)
      BY <3>1, NodeIs, FieldIs
    <3> DEFINE x == (IF j = 0 THEN 0 ELSE c[j - 1]) + Node[j] * c[j]
    <3>3. x \in Int
      BY <3>2
    <3> HIDE DEF x
    <3>4. x % P \in Field
      BY <3>3, FieldOf
    <3>5. row(n, c)[j] = IF n < j THEN 0 ELSE x % P
      BY DEF x
    <3> HIDE DEF row
    <3> QED BY <3>4, <3>5, FieldIs
  <2> QED BY <2>1
<1>3. step \in [1..LastStage -> [V -> V]]
  <2> HIDE DEF row, V
  <2> QED BY <1>2
<1>4. PICK t \in [0..LastStage -> V] : IsRun(t, base, step, LastStage)
  <2>1. LastStage \in Nat
    BY StageIs
  <2> HIDE DEF base, step, V
  <2> QED BY <1>1, <1>3, <2>1, Recursion
<1>5. t \in [Stage -> V] /\ t[0] = base
  BY <1>4, StageIs DEF IsRun
<1>6. ASSUME NEW n \in 1..LastStage PROVE t[n] = row(n, t[n - 1])
  <2>1. t[n] = step[n][t[n - 1]]
    <3> HIDE DEF step, base, V
    <3> QED BY <1>4 DEF IsRun
  <2>2. n - 1 \in Stage
    BY StageIs
  <2>3. t[n - 1] \in V
    <3> HIDE DEF V
    <3> QED BY <1>5, <2>2
  <2> HIDE DEF row, V
  <2> QED BY <2>1, <2>3
<1>7. Is(t)
  <2>1. ASSUME NEW n \in Stage
        PROVE  t[n] = [j \in Stage |->
                       CASE n < j -> 0
                         [] n = 0 /\ j = 0 -> 1
                         [] OTHER -> ((IF j = 0 THEN 0 ELSE t[n - 1][j - 1])
                                       + Node[j] * t[n - 1][j]) % P]
    <3>1. CASE n = 0
      <4>1. \A j \in Stage : 0 < j <=> j # 0
        BY StageIs
      <4>2. t[0] = [j \in Stage |-> IF 0 < j THEN 0 ELSE 1]
        BY <1>5, <4>1
      <4>3. ASSUME NEW j \in Stage
            PROVE  (IF n < j THEN 0 ELSE 1)
                     = CASE n < j -> 0
                         [] n = 0 /\ j = 0 -> 1
                         [] OTHER -> ((IF j = 0 THEN 0 ELSE t[n - 1][j - 1])
                                       + Node[j] * t[n - 1][j]) % P
        BY <3>1, StageIs
      <4> QED BY <3>1, <4>2, <4>3
    <3>2. CASE n # 0
      <4>1. n \in 1..LastStage
        BY <3>2, StageIs
      <4>2. t[n] = row(n, t[n - 1])
        BY <1>6, <4>1
      <4> QED BY <3>2, <4>2
    <3> QED BY <3>1, <3>2
  <2> QED BY <1>5, <2>1
<1>8. Is(b2g)
  <2> HIDE DEF Is
  <2>1. \E u : Is(u)
    BY <1>7
  <2>2. b2g = CHOOSE u : Is(u)
    BY DEF b2g, Is
  <2> QED BY <2>1, <2>2
<1>9. ASSUME NEW n \in 1..LastStage PROVE b2g[n] = row(n, b2g[n - 1])
  <2>1. n \in Stage /\ n # 0
    BY StageIs
  <2>2. b2g[n] = [j \in Stage |->
                    CASE n < j -> 0
                      [] n = 0 /\ j = 0 -> 1
                      [] OTHER -> ((IF j = 0 THEN 0 ELSE b2g[n - 1][j - 1])
                                    + Node[j] * b2g[n - 1][j]) % P]
    BY <1>8, <2>1
  <2> QED BY <2>1, <2>2
<1>10. b2g[0] = base
  <2>1. 0 \in Stage /\ \A j \in Stage : 0 < j <=> j # 0
    BY StageIs
  <2>2. b2g[0] = [j \in Stage |-> IF 0 < j THEN 0 ELSE 1]
    <3>1. b2g[0] = [j \in Stage |->
                      CASE 0 < j -> 0
                        [] 0 = 0 /\ j = 0 -> 1
                        [] OTHER -> ((IF j = 0 THEN 0 ELSE b2g[0 - 1][j - 1])
                                      + Node[j] * b2g[0 - 1][j]) % P]
      BY <1>8, <2>1
    <3>2. ASSUME NEW j \in Stage
          PROVE  (IF 0 < j THEN 0 ELSE 1)
                   = CASE 0 < j -> 0
                       [] 0 = 0 /\ j = 0 -> 1
                       [] OTHER -> ((IF j = 0 THEN 0 ELSE b2g[0 - 1][j - 1])
                                     + Node[j] * b2g[0 - 1][j]) % P
      BY StageIs
    <3> QED BY <3>1, <3>2
  <2> QED BY <2>1, <2>2
<1>11. b2g = t
  <2>1. StepAlike(b2g, t, LastStage)
    <3>1. ASSUME NEW n \in 1..LastStage, b2g[n - 1] = t[n - 1] PROVE b2g[n] = t[n]
      <4> HIDE DEF row
      <4> QED BY <1>6, <1>9, <3>1
    <3> HIDE DEF base
    <3> QED BY <1>5, <1>10, <3>1 DEF StepAlike
  <2>2. LastStage \in Nat
    BY StageIs
  <2>3. \A n \in Stage : b2g[n] = t[n]
    BY <2>1, <2>2, RunsAgree, StageIs
  <2>4. b2g = [n \in Stage |-> b2g[n]] /\ t = [n \in Stage |-> t[n]]
    BY <1>5, <1>8
  <2> QED BY <2>3, <2>4, Zenon
<1>12. b2g[0][0] = 1 /\ b2g \in [Stage -> V]
  BY <1>5, <1>10, <1>11, StageIs
<1>13. ASSUME NEW n \in Stage, NEW j \in Stage, n < j PROVE b2g[n][j] = 0
  <2>1. CASE n = 0
    <3>1. j # 0
      BY <1>13, <2>1
    <3> QED BY <1>10, <2>1, <3>1
  <2>2. CASE n # 0
    <3>1. n \in 1..LastStage
      BY <2>2, StageIs
    <3>2. b2g[n] = row(n, b2g[n - 1])
      BY <1>9, <3>1
    <3> QED BY <1>13, <3>2
  <2> QED BY <2>1, <2>2
<1>14. ASSUME NEW n \in Stage \ {0}, NEW j \in Stage, n >= j
       PROVE b2g[n][j] = ((IF j = 0 THEN 0 ELSE b2g[n - 1][j - 1]) + Node[j] * b2g[n - 1][j]) % P
  <2>1. n \in 1..LastStage /\ ~(n < j)
    BY <1>14, StageIs
  <2>2. b2g[n] = row(n, b2g[n - 1])
    BY <1>9, <2>1
  <2> QED BY <2>1, <2>2
<1> QED BY <1>12, <1>13, <1>14 DEF Triangle
-----------------------------------------------------------------------------
(* Powers and the polynomials with the first nodes as roots.                *)
Powers(s) == [i \in Stage |-> power(s, i + 1)]

(* Powers, from one to the next.                                            *)
LEMMA PowerIs ==
  ASSUME NEW s \in Field
  PROVE  /\ power(s, 1) = s
         /\ \A n \in 0..Stages : power(s, n) \in Field /\ power(s, n) \in Int
         /\ \A n \in 0..LastStage : power(s, n + 1) = Rem(power(s, n) * s)
         /\ power(s, 0) = 1
<1> DEFINE f == [i \in 1..Stages |-> s]
           Q(n) == ProductOver(f, 1, n)
<1>1. s \in Int /\ Stages \in Int /\ Stages >= 1 /\ LastStage = Stages - 1
  BY FieldIs, StageIs DEF LastStage
<1>2. \A i \in 1..Stages : f[i] = s
  OBVIOUS
<1> HIDE DEF f
<1>3. ASSUME NEW n \in 0..Stages PROVE Q(n) \in Field
  <2>1. n \in Int /\ n >= 1 - 1 /\ \A i \in 1..n : f[i] \in Int
    BY <1>1, <1>2
  <2> QED BY <2>1, ProductType
<1>4. ASSUME NEW n \in 0..LastStage PROVE Q(n + 1) = Rem(Q(n) * s)
  <2> DEFINE k == n + 1
  <2>1. k \in Int /\ k >= 1 /\ k \in 1..Stages /\ k - 1 = n /\ \A i \in 1..k : f[i] \in Int
    BY <1>1, <1>2
  <2> HIDE DEF k
  <2>2. Q(k) = (Q(k - 1) * f[k]) % P
    BY <2>1, ProductGrows
  <2>3. f[k] = s /\ Q(k - 1) = Q(n)
    BY <1>2, <2>1
  <2> HIDE DEF Q
  <2> QED BY <2>2, <2>3 DEF k, Rem
<1>5. Q(0) = 1
  <2>1. 1 - 1 = 0 /\ 1 \in Int
    OBVIOUS
  <2> QED BY <2>1, ProductNone
<1>6. \A n : power(s, n) = Q(n)
  BY DEF power, f
<1> HIDE DEF Q
<1>7. power(s, 1) = s
  <2>1. Q(0 + 1) = Rem(Q(0) * s) /\ 0 + 1 = 1
    BY <1>1, <1>4
  <2>2. Q(0) * s = s
    BY <1>1, <1>5
  <2> QED BY <1>6, <2>1, <2>2, RemOfField
<1>8. \A n \in 0..Stages : power(s, n) \in Field /\ power(s, n) \in Int
  BY <1>3, <1>6, FieldIs
<1>9. \A n \in 0..LastStage : power(s, n + 1) = Rem(power(s, n) * s)
  BY <1>4, <1>6
<1> QED BY <1>5, <1>6, <1>7, <1>8, <1>9

LEMMA PowersAre ==
  ASSUME NEW s \in Field
  PROVE  /\ Ints(Powers(s), 0, LastStage) /\ Powers(s)[0] = s
         /\ \A i \in 0..LastStage : Powers(s)[i] \in Field
         /\ \A i \in 0..(LastStage - 1) : Powers(s)[i + 1] = Rem(Powers(s)[i] * s)
<1>1. \A i \in 0..LastStage : i \in Stage /\ i + 1 \in 0..Stages /\ Powers(s)[i] = power(s, i + 1)
  BY StageIs DEF Powers, LastStage
<1>2. \A i \in 0..LastStage : Powers(s)[i] \in Field /\ Powers(s)[i] \in Int
  BY <1>1, PowerIs
<1>3. Powers(s)[0] = s
  <2>1. 0 \in 0..LastStage /\ 0 + 1 = 1
    BY StageIs
  <2> QED BY <1>1, <2>1, PowerIs
<1>4. ASSUME NEW i \in 0..(LastStage - 1) PROVE Powers(s)[i + 1] = Rem(Powers(s)[i] * s)
  <2>1. i \in 0..LastStage /\ i + 1 \in 0..LastStage
    BY StageIs
  <2> DEFINE k == i + 1
  <2>2. Powers(s)[k] = power(s, k + 1) /\ Powers(s)[i] = power(s, k) /\ k \in 0..LastStage
    BY <1>1, <2>1
  <2> HIDE DEF k
  <2>3. power(s, k + 1) = Rem(power(s, k) * s)
    BY <2>2, PowerIs
  <2>4. Powers(s)[k] = Rem(Powers(s)[i] * s)
    BY <2>2, <2>3
  <2> QED BY <2>4 DEF k
<1> QED BY <1>2, <1>3, <1>4 DEF Ints

(* The product of the differences of s with the first n nodes, as g2b       *)
(* writes it, times s.                                                      *)
Newton(s) == [n \in Stage |-> Dot(g2b[n], Powers(s))]

LEMMA TriangleRows ==
  ASSUME NEW t, Triangle(t)
  PROVE  /\ \A n \in Stage : Ints(t[n], 0, LastStage)
         /\ \A n \in 0..(LastStage - 1) : t[n][LastStage] = 0
         /\ \A n, j \in Stage : t[n][j] \in Field /\ t[n][j] \in Int
<1>1. \A n, j \in Stage : t[n][j] \in Field /\ t[n][j] \in Int
  BY FieldIs DEF Triangle
<1>2. ASSUME NEW n \in 0..(LastStage - 1) PROVE t[n][LastStage] = 0
  <2>1. n \in Stage /\ LastStage \in Stage /\ n < LastStage
    BY StageIs
  <2> QED BY <2>1 DEF Triangle
<1> QED BY <1>1, <1>2, StageIs DEF Ints

LEMMA NewtonIs ==
  ASSUME NEW s \in Field
  PROVE  Ints(Newton(s), 0, LastStage) /\ \A n \in Stage : Newton(s)[n] = Dot(g2b[n], Powers(s))
<1>1. \A n \in Stage : Newton(s)[n] = Dot(g2b[n], Powers(s))
  BY DEF Newton
<1>2. ASSUME NEW n \in Stage PROVE Dot(g2b[n], Powers(s)) \in Int
  BY g2bIs, TriangleRows, PowersAre, DotType
<1> QED BY <1>1, <1>2, StageIs DEF Ints

LEMMA DotFirst ==
  ASSUME NEW t, NEW w, Triangle(t), Ints(w, 0, LastStage)
  PROVE  Rem(Dot(t[0], w)) = Rem(w[0])
<1> DEFINE f == [i \in Stage |-> t[0][i] * w[i]]
<1>1. Dot(t[0], w) = SumOver(f, 0, LastStage)
  BY DEF Dot
<1>2. Ints(f, 0, LastStage)
  BY TriangleRows, DotTerms, StageIs
<1>3. f[0] = w[0]
  <2>1. t[0][0] = 1
    BY DEF Triangle
  <2>2. w[0] \in Int
    BY StageIs DEF Ints
  <2>3. f[0] = t[0][0] * w[0]
    BY StageIs
  <2> HIDE DEF f
  <2> QED BY <2>1, <2>2, <2>3
<1>4. ASSUME NEW i \in (0 + 1)..LastStage PROVE Rem(f[i]) = 0
  <2>1. i \in Stage /\ 0 < i /\ 0 \in Stage /\ i \in 0..LastStage
    BY StageIs
  <2>2. t[0][i] = 0
    BY <2>1 DEF Triangle
  <2>3. w[i] \in Int
    BY <2>1 DEF Ints
  <2>4. f[i] = 0
    BY <2>1, <2>2, <2>3
  <2> HIDE DEF f
  <2> QED BY <2>4, FieldIs
<1> HIDE DEF f
<1>5. Rem(SumOver(f, 0, LastStage)) = Rem(SumOver(f, 0, 0))
  <2>1. 0 <= 0 + 1 /\ 0 <= LastStage /\ 0 \in Int
    BY StageIs
  <2> QED BY <1>2, <1>4, <2>1, StageIs, SumUpTo
<1>6. SumOver(f, 0, 0) = f[0]
  <2>1. Ints(f, 0, 0)
    BY <1>2, StageIs DEF Ints
  <2>2. SumOver(f, 0, 0) = SumOver(f, 0, 0 - 1) + f[0] /\ f[0] \in Int
    BY <2>1, SumTerm
  <2>3. SumOver(f, 0, 0 - 1) = 0
    BY SumNone
  <2> QED BY <2>2, <2>3
<1> QED BY <1>1, <1>3, <1>5, <1>6

LEMMA NewtonFirst ==
  ASSUME NEW s \in Field
  PROVE  Rem(Newton(s)[0]) = s
<1>1. Newton(s)[0] = Dot(g2b[0], Powers(s))
  BY NewtonIs, StageIs
<1>2. Rem(Dot(g2b[0], Powers(s))) = Rem(Powers(s)[0])
  BY g2bIs, PowersAre, DotFirst
<1> QED BY <1>1, <1>2, PowersAre, RemOfField
-----------------------------------------------------------------------------
(* The products go on with one difference more.                             *)
LEMMA NewtonNext ==
  ASSUME NEW s \in Field, NEW n \in 0..(LastStage - 1)
  PROVE  Rem(Newton(s)[n + 1]) = Rem((s - Node[n]) * Newton(s)[n])
<1> DEFINE c == g2b[n]
           new == g2b[n + 1]
           w == Powers(s)
           m == [i \in Stage |-> s]
           e == [i \in Stage |-> -Node[n]]
           r == s - Node[n]
<1>1. /\ n \in Stage /\ n + 1 \in Stage \ {0} /\ (n + 1) - 1 = n /\ n + 1 \in Stage
      /\ n \in Int /\ s \in Int /\ Node[n] \in Int /\ -Node[n] \in Int
  BY StageIs, NodeIs, FieldIs
<1>2. /\ Ints(c, 0, LastStage) /\ Ints(new, 0, LastStage) /\ Ints(w, 0, LastStage)
      /\ c[LastStage] = 0 /\ \A i \in Stage : c[i] \in Int
  BY <1>1, g2bIs, TriangleRows, PowersAre
<1>3. /\ Ints(m, 0, LastStage) /\ Ints(e, 0, LastStage)
      /\ \A i \in Stage : m[i] = s /\ e[i] = -Node[n] /\ m[i] + e[i] = r
  BY <1>1, StageIs DEF Ints
<1>4. ASSUME NEW i \in Stage, n + 1 >= i
      PROVE  new[i] = ((IF i = 0 THEN 0 ELSE c[i - 1]) - Node[n] * c[i]) % P
  BY <1>1, <1>4, g2bIs
<1>5. ASSUME NEW i \in Stage, n + 1 < i PROVE new[i] = 0 /\ c[i] = 0 /\ c[i - 1] = 0
  <2>1. i - 1 \in Stage /\ n < i - 1 /\ n < i
    BY <1>1, <1>5, StageIs
  <2> QED BY <1>1, <1>5, <2>1, g2bIs DEF Triangle
<1> HIDE DEF c, new, m, e
<1>6. Rem(new[0]) = Rem(0 + e[0] * c[0])
  <2>1. 0 \in Stage /\ n + 1 >= 0
    BY <1>1, StageIs
  <2>2. new[0] = (0 - Node[n] * c[0]) % P
    BY <1>4, <2>1
  <2>3. 0 + e[0] * c[0] = 0 - Node[n] * c[0] /\ 0 - Node[n] * c[0] \in Int
    <3>1. e[0] = -Node[n] /\ c[0] \in Int
      BY <1>2, <1>3, <2>1
    <3> QED BY <1>1, <3>1
  <2> DEFINE x == 0 - Node[n] * c[0]
  <2> HIDE DEF x
  <2>4. new[0] = Rem(x) /\ x \in Int
    BY <2>2, <2>3 DEF Rem, x
  <2>5. Rem(new[0]) = Rem(x)
    BY <2>4, RemOfRem
  <2> QED BY <2>3, <2>5 DEF x
<1>7. ASSUME NEW i \in 1..LastStage PROVE Rem(new[i]) = Rem(c[i - 1] + e[i] * c[i])
  <2>1. i \in Stage /\ i # 0 /\ i - 1 \in Stage
    BY StageIs
  <2>2. e[i] = -Node[n] /\ c[i] \in Int /\ c[i - 1] \in Int
    BY <1>2, <1>3, <2>1
  <2>3. CASE n + 1 >= i
    <3>1. new[i] = (c[i - 1] - Node[n] * c[i]) % P
      BY <1>4, <2>1, <2>3
    <3>2. c[i - 1] + e[i] * c[i] = c[i - 1] - Node[n] * c[i] /\ c[i - 1] - Node[n] * c[i] \in Int
      <4>1. (-Node[n]) * c[i] = -(Node[n] * c[i]) /\ Node[n] * c[i] \in Int
        BY <1>1, <2>2
      <4> QED BY <2>2, <4>1
    <3> DEFINE x == c[i - 1] - Node[n] * c[i]
    <3> HIDE DEF x
    <3>3. new[i] = Rem(x) /\ x \in Int
      BY <3>1, <3>2 DEF Rem, x
    <3>4. Rem(new[i]) = Rem(x)
      BY <3>3, RemOfRem
    <3> QED BY <3>2, <3>4 DEF x
  <2>4. CASE n + 1 < i
    <3>1. new[i] = 0 /\ c[i] = 0 /\ c[i - 1] = 0
      BY <1>5, <2>1, <2>4
    <3>2. c[i - 1] + e[i] * c[i] = 0
      BY <1>1, <2>2, <3>1
    <3> QED BY <3>1, <3>2
  <2> QED BY <1>1, <2>1, <2>3, <2>4, StageIs
<1>8. ASSUME NEW i \in 0..(LastStage - 1) PROVE Rem(w[i + 1]) = Rem(m[i] * w[i])
  <2>1. i \in Stage /\ i \in 0..LastStage
    BY StageIs
  <2>2. w[i + 1] = Rem(w[i] * s) /\ w[i] \in Int /\ m[i] = s
    BY <1>3, <2>1, PowersAre, FieldIs
  <2>3. m[i] * w[i] = w[i] * s /\ w[i] * s \in Int
    BY <1>1, <2>2
  <2> QED BY <2>2, <2>3, RemOfRem
<1>9. RowAfter(c, new, w, m, e, r, 0)
  BY <1>1, <1>2, <1>3, <1>6, <1>7, <1>8 DEF RowAfter
<1> HIDE DEF r, w
<1>10. Rem(Dot(new, w)) = Rem(r * Dot(c, w) + 0 * w[0])
  BY <1>9, DotRow
<1>11. r * Dot(c, w) + 0 * w[0] = r * Dot(c, w)
  <2>1. Dot(c, w) \in Int /\ r \in Int /\ w[0] \in Int
    BY <1>1, <1>2, DotType, StageIs DEF r, Ints
  <2> QED BY <2>1
<1>12. Newton(s)[n + 1] = Dot(new, w) /\ Newton(s)[n] = Dot(c, w)
  BY <1>1, NewtonIs DEF new, c, w
<1> QED BY <1>10, <1>11, <1>12 DEF r
-----------------------------------------------------------------------------
(* The rows of b2g, of these products, go on with one power more.           *)
LEMMA NewtonRow ==
  ASSUME NEW s \in Field, NEW n \in 0..(LastStage - 1)
  PROVE  Rem(Dot(b2g[n + 1], Newton(s))) = Rem(s * Dot(b2g[n], Newton(s)))
<1> DEFINE c == b2g[n]
           new == b2g[n + 1]
           w == Newton(s)
           m == [i \in Stage |-> s - Node[i]]
           e == [i \in Stage |-> Node[i]]
<1>1. /\ n \in Stage /\ n + 1 \in Stage \ {0} /\ (n + 1) - 1 = n /\ n + 1 \in Stage
      /\ n \in Int /\ s \in Int
  BY StageIs, FieldIs
<1>2. /\ Ints(c, 0, LastStage) /\ Ints(new, 0, LastStage) /\ Ints(w, 0, LastStage)
      /\ c[LastStage] = 0 /\ \A i \in Stage : c[i] \in Int
  BY <1>1, b2gIs, TriangleRows, NewtonIs
<1>3. \A i \in Stage : /\ m[i] = s - Node[i] /\ e[i] = Node[i] /\ Node[i] \in Int
                       /\ m[i] + e[i] = s /\ i \in 0..LastStage
  BY <1>1, NodeIs, StageIs
<1>4. Ints(m, 0, LastStage) /\ Ints(e, 0, LastStage)
  BY <1>1, <1>3, StageIs DEF Ints
<1>5. ASSUME NEW i \in Stage, n + 1 >= i
      PROVE  new[i] = ((IF i = 0 THEN 0 ELSE c[i - 1]) + Node[i] * c[i]) % P
  BY <1>1, <1>5, b2gIs
<1>6. ASSUME NEW i \in Stage, n + 1 < i PROVE new[i] = 0 /\ c[i] = 0 /\ c[i - 1] = 0
  <2>1. i - 1 \in Stage /\ n < i - 1 /\ n < i
    BY <1>1, <1>6, StageIs
  <2> QED BY <1>1, <1>6, <2>1, b2gIs DEF Triangle
<1> HIDE DEF c, new, m, e
<1>7. Rem(new[0]) = Rem(0 + e[0] * c[0])
  <2>1. 0 \in Stage /\ n + 1 >= 0
    BY <1>1, StageIs
  <2> DEFINE x == 0 + Node[0] * c[0]
  <2>2. new[0] = x % P
    BY <1>5, <2>1
  <2>3. x \in Int /\ x = 0 + e[0] * c[0]
    BY <1>2, <1>3, <2>1
  <2> HIDE DEF x
  <2>4. Rem(new[0]) = Rem(x)
    BY <2>2, <2>3, RemOfRem DEF Rem
  <2> QED BY <2>3, <2>4
<1>8. ASSUME NEW i \in 1..LastStage PROVE Rem(new[i]) = Rem(c[i - 1] + e[i] * c[i])
  <2>1. i \in Stage /\ i # 0 /\ i - 1 \in Stage
    BY StageIs
  <2>2. e[i] = Node[i] /\ c[i] \in Int /\ c[i - 1] \in Int /\ Node[i] \in Int
    BY <1>2, <1>3, <2>1
  <2>3. CASE n + 1 >= i
    <3> DEFINE x == c[i - 1] + Node[i] * c[i]
    <3>1. new[i] = x % P
      BY <1>5, <2>1, <2>3
    <3>2. c[i - 1] + e[i] * c[i] = x /\ x \in Int
      BY <2>2
    <3> HIDE DEF x
    <3>3. Rem(new[i]) = Rem(x)
      BY <3>1, <3>2, RemOfRem DEF Rem
    <3> QED BY <3>2, <3>3
  <2>4. CASE n + 1 < i
    <3>1. new[i] = 0 /\ c[i] = 0 /\ c[i - 1] = 0
      BY <1>6, <2>1, <2>4
    <3>2. c[i - 1] + e[i] * c[i] = 0
      BY <2>2, <3>1
    <3> QED BY <3>1, <3>2
  <2> QED BY <1>1, <2>1, <2>3, <2>4, StageIs
<1>9. ASSUME NEW i \in 0..(LastStage - 1) PROVE Rem(w[i + 1]) = Rem(m[i] * w[i])
  <2>1. i \in Stage /\ m[i] = s - Node[i]
    BY <1>3, StageIs
  <2>2. Rem(Newton(s)[i + 1]) = Rem((s - Node[i]) * Newton(s)[i])
    BY NewtonNext
  <2> QED BY <2>1, <2>2
<1>10. RowAfter(c, new, w, m, e, s, 0)
  BY <1>1, <1>2, <1>3, <1>4, <1>7, <1>8, <1>9 DEF RowAfter
<1> HIDE DEF w
<1>11. Rem(Dot(new, w)) = Rem(s * Dot(c, w) + 0 * w[0])
  BY <1>10, DotRow
<1>12. s * Dot(c, w) + 0 * w[0] = s * Dot(c, w)
  <2>1. Dot(c, w) \in Int /\ s \in Int /\ w[0] \in Int
    BY <1>1, <1>2, DotType, StageIs DEF Ints
  <2> QED BY <2>1
<1> QED BY <1>11, <1>12 DEF c, w, new

(* Each power is the sum of the polynomials with its row of b2g.            *)
LEMMA PowersFromNewton ==
  ASSUME NEW s \in Field
  PROVE  \A n \in Stage : Rem(Powers(s)[n]) = Rem(Dot(b2g[n], Newton(s)))
<1> DEFINE T == {n \in Nat : n <= LastStage => Rem(Powers(s)[n]) = Rem(Dot(b2g[n], Newton(s)))}
<1>1. 0 \in T
  <2>1. Rem(Dot(b2g[0], Newton(s))) = Rem(Newton(s)[0])
    BY b2gIs, NewtonIs, DotFirst
  <2>2. Rem(Powers(s)[0]) = s
    BY PowersAre, RemOfField
  <2> QED BY <2>1, <2>2, NewtonFirst
<1>2. ASSUME NEW n \in T PROVE n + 1 \in T
  <2>1. SUFFICES ASSUME n + 1 <= LastStage
                 PROVE  Rem(Powers(s)[n + 1]) = Rem(Dot(b2g[n + 1], Newton(s)))
    OBVIOUS
  <2>2. n \in 0..(LastStage - 1) /\ n <= LastStage /\ n \in Stage /\ n \in 0..LastStage
    BY <2>1, StageIs
  <2>3. Rem(Powers(s)[n]) = Rem(Dot(b2g[n], Newton(s)))
    BY <2>2
  <2>4. s \in Int /\ Powers(s)[n] \in Int /\ Dot(b2g[n], Newton(s)) \in Int
    BY <2>2, FieldIs, PowersAre, NewtonIs, b2gIs, TriangleRows, DotType
  <2>5. Powers(s)[n + 1] = Rem(Powers(s)[n] * s)
    BY <2>2, PowersAre
  <2> DEFINE x == Powers(s)[n]
             y == Dot(b2g[n], Newton(s))
  <2> HIDE DEF x, y
  <2>6. Rem(x * s) = Rem(y * s) /\ x * s \in Int /\ y * s = s * y
    <3>1. Rem(x) = Rem(y) /\ x \in Int /\ y \in Int
      BY <2>3, <2>4 DEF x, y
    <3> QED BY <2>4, <3>1, RemTimes
  <2>7. Rem(Dot(b2g[n + 1], Newton(s))) = Rem(s * y)
    BY <2>2, NewtonRow DEF y
  <2>8. Rem(Powers(s)[n + 1]) = Rem(x * s)
    BY <2>5, <2>6, RemOfRem DEF x
  <2> QED BY <2>6, <2>7, <2>8
<1>3. T \in SUBSET Nat
  OBVIOUS
<1>4. T = Nat
  <2> HIDE DEF T
  <2> QED BY <1>1, <1>2, <1>3, Induction
<1> QED BY <1>4, StageIs
-----------------------------------------------------------------------------
(* A product modulo P that vanishes has a factor that does: the assumption  *)
(* on the field gives every number but 0 a reciprocal.                      *)
LEMMA NoZeroDivisors ==
  ASSUME NEW x \in Field \ {0}, NEW y \in Int, Rem(x * y) = 0
  PROVE  Rem(y) = 0
<1> DEFINE r == Reciprocal(x)
<1>1. r \in Int /\ x \in Int /\ Rem(x * r) = 1
  BY ReciprocalIs, FieldIs
<1> HIDE DEF r
<1> DEFINE u == x * r
           v == x * y
<1>2. u \in Int /\ v \in Int /\ u * y = r * v /\ Rem(u) = 1 /\ Rem(v) = 0 /\ 0 \in Int /\ 1 \in Int
  BY <1>1
<1> HIDE DEF u, v
<1>3. Rem(u * y) = Rem(y)
  BY <1>2, RemTimesOf
<1>4. Rem(r * v) = 0
  BY <1>1, <1>2, RemTimesOf
<1> QED BY <1>2, <1>3, <1>4

LEMMA ProductNotZero ==
  ASSUME NEW f, NEW a \in Int, NEW b \in Int, b >= a - 1, \A i \in a..b : f[i] \in Field \ {0}
  PROVE  ProductOver(f, a, b) \in Field \ {0}
<1> DEFINE S == {c \in Int : ProductOver(f, a, c) \in Field \ {0}}
<1>1. a - 1 \in S
  BY ProductNone, FieldIs
<1>2. ASSUME NEW c \in a..b, c - 1 \in S PROVE c \in S
  <2> DEFINE Q == ProductOver(f, a, c - 1)
  <2>1. c \in Int /\ c >= a /\ \A i \in a..c : f[i] \in Int
    <3>1. c \in Int /\ c >= a /\ \A i \in a..c : i \in a..b
      OBVIOUS
    <3>2. \A i \in a..b : f[i] \in Int
      BY FieldIs
    <3> QED BY <3>1, <3>2
  <2>2. Q \in Field \ {0}
    BY <1>2
  <2>3. ProductOver(f, a, c) = (Q * f[c]) % P
    BY <2>1, ProductGrows
  <2>4. f[c] \in Field \ {0} /\ f[c] \in Int /\ Q \in Int
    BY <2>1, <2>2, FieldIs
  <2> HIDE DEF Q
  <2>5. Q * f[c] \in Int
    BY <2>4
  <2>6. (Q * f[c]) % P \in Field /\ (Q * f[c]) % P = Rem(Q * f[c])
    <3> DEFINE x == Q * f[c]
    <3> HIDE DEF x
    <3>1. x % P \in Field /\ x % P = Rem(x)
      BY <2>5, FieldOf DEF x
    <3> QED BY <3>1 DEF x
  <2>7. Rem(Q * f[c]) # 0
    <3> SUFFICES ASSUME Rem(Q * f[c]) = 0 PROVE FALSE
      OBVIOUS
    <3>1. Rem(f[c]) = 0
      <4> DEFINE y == f[c]
      <4> HIDE DEF y
      <4>1. y \in Int /\ Rem(Q * y) = 0
        BY <2>4 DEF y
      <4>2. Rem(y) = 0
        BY <2>2, <4>1, NoZeroDivisors
      <4> QED BY <4>2 DEF y
    <3>2. Rem(f[c]) = f[c]
      BY <2>4, RemOfField
    <3> QED BY <2>4, <3>1, <3>2
  <2>8. ProductOver(f, a, c) \in Field \ {0}
    BY <2>3, <2>6, <2>7
  <2> QED BY <2>1, <2>8
<1>3. S \in SUBSET Int
  OBVIOUS
<1>4. b \in S
  <2> HIDE DEF S
  <2> QED BY <1>1, <1>2, <1>3, TermByTerm
<1> QED BY <1>4

LEMMA DifferenceIs ==
  ASSUME NEW m \in Stage, NEW n \in Stage
  PROVE  /\ Difference(m, n) \in Field /\ Difference(m, n) \in Int
         /\ Difference(m, n) = Rem(Node[m] - Node[n])
         /\ m # n => Difference(m, n) # 0
<1>1. Node[m] \in Field /\ Node[n] \in Field /\ Node[m] \in Int /\ Node[n] \in Int
  BY NodeIs
<1> DEFINE x == Node[m] - Node[n]
<1>2. x \in Int
  BY <1>1
<1>3. Difference(m, n) = x % P
  BY DEF Difference
<1>4. ASSUME m # n, Rem(x) = 0 PROVE FALSE
  <2>1. Rem(x + Node[n]) = Rem(0 + Node[n])
    <3> HIDE DEF x
    <3>1. Rem(x) = Rem(0) /\ 0 \in Int
      BY <1>4, FieldIs
    <3> QED BY <1>1, <1>2, <3>1, RemPlus
  <2>2. x + Node[n] = Node[m] /\ 0 + Node[n] = Node[n]
    BY <1>1
  <2>3. Node[m] = Node[n]
    BY <1>1, <2>1, <2>2, RemOfField
  <2> QED BY <1>4, <2>3, GaussRadauAssumption
<1> HIDE DEF x
<1> QED BY <1>2, <1>3, <1>4, FieldOf DEF x

(* The polynomial with the first n nodes as roots, at a node.               *)
LEMMA NewtonZero ==
  ASSUME NEW m \in Stage, NEW n \in Stage, m < n
  PROVE  Rem(Newton(Node[m])[n]) = 0
<1> DEFINE N(k) == Newton(Node[m])[k]
           S == {k \in Int : k <= LastStage => Rem(N(k)) = 0}
<1>1. /\ Node[m] \in Field /\ Node[m] \in Int /\ m \in Int /\ n \in Int /\ m <= LastStage - 1
      /\ n <= LastStage /\ 0 <= m
  BY NodeIs, StageIs
<1>2. \A k \in 0..LastStage : N(k) \in Int
  BY <1>1, NewtonIs, StageIs DEF Ints
<1>3. ASSUME NEW k \in 0..(LastStage - 1)
      PROVE  Rem(N(k + 1)) = Rem((Node[m] - Node[k]) * N(k))
  BY <1>1, NewtonNext
<1>4. m \in 0..(LastStage - 1) /\ m \in 0..LastStage
  BY <1>1, StageIs
<1> HIDE DEF N
<1>5. Rem(N(m + 1)) = 0
  <2>1. (Node[m] - Node[m]) * N(m) = 0
    <3>1. Node[m] - Node[m] = 0 /\ N(m) \in Int
      BY <1>1, <1>2, <1>4
    <3> QED BY <3>1
  <2> QED BY <1>3, <1>4, <2>1, FieldIs
<1>6. ASSUME NEW k \in (m + 2)..n, k - 1 \in S PROVE k \in S
  <2> DEFINE p == k - 1
  <2>1. p \in 0..(LastStage - 1) /\ p \in 0..LastStage /\ p + 1 = k /\ p \in Stage /\ p <= LastStage
    BY <1>1, StageIs
  <2>2. Rem(N(p)) = 0
    BY <1>6, <2>1
  <2> HIDE DEF p
  <2>3. Rem(N(p + 1)) = Rem((Node[m] - Node[p]) * N(p))
    BY <1>3, <2>1
  <2>4. Rem((Node[m] - Node[p]) * N(p)) = 0
    <3> DEFINE d == Node[m] - Node[p]
               x == N(p)
    <3>1. d \in Int /\ x \in Int /\ Rem(x) = 0 /\ 0 \in Int
      BY <1>1, <1>2, <2>1, <2>2, NodeIs, FieldIs
    <3> HIDE DEF d, x
    <3>2. Rem(d * x) = 0
      BY <3>1, RemTimesOf
    <3> QED BY <3>2 DEF d, x
  <2> QED BY <2>1, <2>3, <2>4
<1>7. S \in SUBSET Int /\ (m + 2) - 1 \in S /\ m + 2 \in Int /\ n >= (m + 2) - 1
  <2>1. (m + 2) - 1 = m + 1
    BY <1>1
  <2> QED BY <1>1, <1>5, <2>1
<1>8. n \in S
  <2> HIDE DEF S
  <2> QED BY <1>1, <1>6, <1>7, TermByTerm
<1> QED BY <1>1, <1>8 DEF N

(* From the j-th polynomial to the k-th at node n, and what rs is for.      *)
LEMMA NewtonAt ==
  ASSUME NEW n \in Stage, NEW j \in 0..n, NEW d, d = [k \in Stage |-> Difference(n, k)]
  PROVE  /\ Rem(Newton(Node[n])[n]) = Rem(Newton(Node[n])[j] * ProductOver(d, j, n - 1))
         /\ ProductOver(d, j, n - 1) \in Field \ {0}
<1> DEFINE N(k) == Newton(Node[n])[k]
           Q(k) == ProductOver(d, j, k)
           S == {k \in Int : Rem(N(k + 1)) = Rem(N(j) * Q(k))}
<1>1. /\ Node[n] \in Field /\ Node[n] \in Int /\ n \in Int /\ j \in Int /\ n <= LastStage
      /\ 0 <= j /\ j <= n /\ n - 1 >= j - 1
  BY NodeIs, StageIs
<1>2. \A k \in 0..LastStage : N(k) \in Int
  BY <1>1, NewtonIs, StageIs DEF Ints
<1>3. ASSUME NEW k \in 0..(LastStage - 1)
      PROVE  Rem(N(k + 1)) = Rem((Node[n] - Node[k]) * N(k))
  BY <1>1, NewtonNext
<1>4. ASSUME NEW k \in j..(n - 1)
      PROVE  /\ k \in Stage /\ k \in 0..(LastStage - 1) /\ k \in 0..LastStage
             /\ d[k] \in Field \ {0} /\ d[k] \in Int /\ d[k] = Rem(Node[n] - Node[k])
  <2>1. k \in Stage /\ k # n /\ k \in 0..(LastStage - 1) /\ k \in 0..LastStage
    BY <1>1, StageIs
  <2> QED BY <2>1, DifferenceIs
<1>5. Q(j - 1) = 1 /\ N(j) \in Int
  <2>1. j \in 0..LastStage
    BY <1>1, StageIs
  <2> QED BY <1>1, <1>2, <2>1, ProductNone
<1>6. j - 1 \in S
  <2> HIDE DEF N, Q
  <2>1. N((j - 1) + 1) = N(j) /\ N(j) * Q(j - 1) = N(j)
    <3>1. (j - 1) + 1 = j
      BY <1>1
    <3> QED BY <1>5, <3>1
  <2> QED BY <2>1
<1>7. ASSUME NEW k \in j..(n - 1), k - 1 \in S PROVE k \in S
  <2> DEFINE x == N(k)
             y == N(j)
             q == Q(k - 1)
             e == d[k]
             m == Node[n] - Node[k]
  <2>1. k \in Int /\ k >= j /\ \A i \in j..k : d[i] \in Int /\ i \in j..(n - 1)
    BY <1>1, <1>4
  <2>2. Q(k) = (q * e) % P
    BY <1>1, <2>1, ProductGrows
  <2>3. q \in Int
    <3>1. k - 1 >= j - 1 /\ k - 1 \in Int /\ \A i \in j..(k - 1) : d[i] \in Int
      BY <2>1
    <3> QED BY <1>1, <3>1, ProductType, FieldIs
  <2> HIDE DEF N, Q
  <2>4. Rem(x) = Rem(y * q)
    <3>1. (k - 1) + 1 = k
      BY <2>1
    <3> QED BY <1>7, <3>1
  <2>5. x \in Int /\ y \in Int /\ e \in Int /\ m \in Int /\ Rem(m) = e /\ e \in Field
    BY <1>1, <1>2, <1>4, <1>5, NodeIs
  <2>6. Rem(N(k + 1)) = Rem(m * x)
    BY <1>3, <1>4
  <2> HIDE DEF x, y, q, e, m
  <2>7. Rem(m * x) = Rem(e * x)
    <3>1. Rem(e) = Rem(m)
      BY <2>5, RemOfField
    <3> QED BY <2>5, <3>1, RemTimes
  <2>8. Rem(e * x) = Rem(e * (y * q))
    <3> DEFINE yq == y * q
    <3>1. yq \in Int /\ Rem(x) = Rem(yq)
      BY <2>3, <2>4, <2>5
    <3> HIDE DEF yq
    <3>2. Rem(e * x) = Rem(e * yq)
      BY <2>5, <3>1, RemTimes
    <3> QED BY <3>2 DEF yq
  <2>9. Rem(y * Q(k)) = Rem(y * (q * e))
    <3> DEFINE qe == q * e
    <3>1. qe \in Int
      BY <2>3, <2>5
    <3> HIDE DEF qe
    <3>2. Q(k) = Rem(qe) /\ Q(k) \in Int /\ Rem(Q(k)) = Rem(qe)
      BY <2>2, <3>1, RemIs, RemOfRem DEF Rem, qe
    <3>3. Rem(y * Q(k)) = Rem(y * qe)
      BY <2>5, <3>1, <3>2, RemTimes, ZenonT(30)
    <3> QED BY <3>3 DEF qe
  <2>10. e * (y * q) = y * (q * e)
    BY <2>3, <2>5
  <2>11. Rem(N(k + 1)) = Rem(N(j) * Q(k))
    BY <2>6, <2>7, <2>8, <2>9, <2>10 DEF y
  <2> QED BY <2>1, <2>11
<1>8. S \in SUBSET Int /\ n - 1 \in Int
  BY <1>1
<1>9. n - 1 \in S
  <2> HIDE DEF S
  <2> QED BY <1>1, <1>6, <1>7, <1>8, TermByTerm
<1>10. Rem(N(n)) = Rem(N(j) * Q(n - 1))
  <2> HIDE DEF N, Q
  <2>1. (n - 1) + 1 = n
    BY <1>1
  <2> QED BY <1>9, <2>1
<1>11. Q(n - 1) \in Field \ {0}
  BY <1>1, <1>4, <1>8, ProductNotZero
<1> QED BY <1>10, <1>11
-----------------------------------------------------------------------------
(* Division.                                                                *)
LEMMA ReciprocalTimes ==
  ASSUME NEW x \in Field \ {0}, NEW y \in Int, NEW z \in Int, Rem(z) = Rem(y * x)
  PROVE  /\ Reciprocal(x) \in Int
         /\ Rem(Reciprocal(x) * z) = Rem(y)
<1> DEFINE r == Reciprocal(x)
           u == x * r
           v == y * x
<1>1. r \in Int /\ x \in Int /\ Rem(u) = 1
  BY ReciprocalIs, FieldIs
<1> HIDE DEF r
<1>2. u \in Int /\ v \in Int /\ r * v = y * u
  BY <1>1
<1>3. Rem(z) = Rem(v)
  OBVIOUS
<1> HIDE DEF u, v
<1>4. Rem(r * z) = Rem(r * v)
  BY <1>1, <1>2, <1>3, RemTimes
<1>5. Rem(y * u) = Rem(y)
  BY <1>1, <1>2, RemTimesOf
<1> QED BY <1>1, <1>2, <1>4, <1>5 DEF r

LEMMA rsIs ==
  ASSUME NEW n \in Stage
  PROVE  /\ rs(n, 0) \in Int /\ Rem(rs(n, 0) * Newton(Node[n])[n]) = 1
         /\ \A j \in 0..(n - 1) :
              /\ rs(n, j + 1) \in Int
              /\ Rem(rs(n, j + 1) * Newton(Node[n])[n]) = Rem(Newton(Node[n])[j])
<1> DEFINE N == Newton(Node[n])
           d == [k \in Stage |-> Difference(n, k)]
<1>1. /\ Node[n] \in Field \ {0} /\ Node[n] \in Int /\ n \in Int /\ 0 <= n /\ n <= LastStage
      /\ \A k \in 0..LastStage : N[k] \in Int
  BY NodeIs, StageIs, NewtonIs DEF Ints
<1>2. /\ rs(n, 0) = Reciprocal((Node[n] * ProductOver(d, 0, n - 1)) % P)
      /\ \A j \in 0..(n - 1) : rs(n, j + 1) = Reciprocal(ProductOver(d, j, n - 1))
  <2>1. ASSUME NEW j \in 0..(n - 1) PROVE j + 1 # 0 /\ (j + 1) - 1 = j
    OBVIOUS
  <2>2. \A j : rs(n, j) = IF j = 0 THEN Reciprocal((Node[n] * ProductOver(d, 0, n - 1)) % P)
                                 ELSE Reciprocal(ProductOver(d, j - 1, n - 1))
    BY Zenon DEF rs
  <2> HIDE DEF d
  <2> QED BY <2>1, <2>2
<1>3. ASSUME NEW j \in 0..n
      PROVE  Rem(N[n]) = Rem(N[j] * ProductOver(d, j, n - 1)) /\ ProductOver(d, j, n - 1) \in Field \ {0}
  <2> HIDE DEF d
  <2> QED BY NewtonAt DEF d
<1>4. N[n] \in Int /\ Rem(N[0]) = Node[n] /\ N[0] \in Int
  BY <1>1, NewtonFirst, StageIs
<1> HIDE DEF d, N
<1>5. rs(n, 0) \in Int /\ Rem(rs(n, 0) * N[n]) = 1
  <2> DEFINE Q == ProductOver(d, 0, n - 1)
             a == Node[n]
             v == a * Q
             x == v % P
  <2>1. 0 \in 0..n
    BY <1>1
  <2>2. Q \in Field \ {0} /\ Q \in Int /\ Rem(N[n]) = Rem(N[0] * Q)
    BY <1>3, <2>1, FieldIs
  <2>3. a \in Field \ {0} /\ a \in Int /\ Rem(N[0]) = Rem(a)
    BY <1>1, <1>4, RemOfField
  <2>4. rs(n, 0) = Reciprocal(x)
    BY <1>2
  <2> HIDE DEF Q, a
  <2>5. v \in Int /\ Rem(N[0] * Q) = Rem(v)
    BY <1>4, <2>2, <2>3, RemTimes
  <2>6. Rem(v) # 0
    <3>1. Rem(v) = 0 => Rem(Q) = 0
      BY <2>2, <2>3, NoZeroDivisors
    <3> QED BY <2>2, <3>1, RemOfField
  <2> HIDE DEF v
  <2>7. x \in Field \ {0} /\ x = Rem(v) /\ x \in Int
    BY <2>5, <2>6, FieldOf
  <2> HIDE DEF x
  <2>8. Rem(N[n]) = Rem(1 * x) /\ 1 \in Int
    <3>1. 1 * x = x /\ Rem(x) = x
      BY <2>7, RemOfField
    <3> QED BY <2>2, <2>5, <2>7, <3>1
  <2>9. Reciprocal(x) \in Int /\ Rem(Reciprocal(x) * N[n]) = Rem(1)
    BY <1>4, <2>7, <2>8, ReciprocalTimes
  <2> QED BY <2>4, <2>9, FieldIs
<1>6. ASSUME NEW j \in 0..(n - 1)
      PROVE  rs(n, j + 1) \in Int /\ Rem(rs(n, j + 1) * N[n]) = Rem(N[j])
  <2> DEFINE Q == ProductOver(d, j, n - 1)
  <2>1. j \in 0..n /\ j \in 0..LastStage
    BY <1>1, StageIs
  <2>2. Q \in Field \ {0} /\ Rem(N[n]) = Rem(N[j] * Q) /\ N[j] \in Int
    BY <1>1, <1>3, <2>1 DEF N
  <2>3. rs(n, j + 1) = Reciprocal(Q)
    BY <1>2
  <2> HIDE DEF Q
  <2>4. Reciprocal(Q) \in Int /\ Rem(Reciprocal(Q) * N[n]) = Rem(N[j])
    BY <1>4, <2>2, ReciprocalTimes
  <2> QED BY <2>3, <2>4
<1> QED BY <1>5, <1>6 DEF N

LEMMA SumScaled ==
  ASSUME NEW f, NEW h, NEW k \in Int, NEW a \in Int, NEW b \in Int, b >= a - 1,
         Ints(f, a, b), \A i \in a..b : h[i] = k * f[i]
  PROVE  SumOver(h, a, b) = k * SumOver(f, a, b)
<1> DEFINE z == [i \in a..b |-> 0]
<1>1. Ints(z, a, b) /\ \A i \in a..b : z[i] = 0
  BY DEF Ints
<1> HIDE DEF z
<1>2. \A i \in a..b : h[i] = z[i] + k * f[i]
  <2>1. \A i \in a..b : f[i] \in Int
    BY DEF Ints
  <2> QED BY <1>1, <2>1
<1>3. SumOver(h, a, b) = SumOver(z, a, b) + k * SumOver(f, a, b)
  BY <1>1, <1>2, SumLinear
<1>4. SumOver(z, a, b) = 0
  BY <1>1, SumZero
<1>5. SumOver(f, a, b) \in Int
  BY SumType DEF Ints
<1> QED BY <1>3, <1>4, <1>5

(* Only one term.                                                           *)
LEMMA DotUnit ==
  ASSUME NEW n \in Stage, NEW u, NEW w, Ints(u, 0, LastStage), Ints(w, 0, LastStage),
         \A i \in Stage : u[i] = IF i = n THEN 1 ELSE 0
  PROVE  Rem(Dot(u, w)) = Rem(w[n])
<1> DEFINE f == [i \in Stage |-> u[i] * w[i]]
<1>1. n \in Int /\ 0 <= n /\ n <= LastStage
  BY StageIs
<1>2. Ints(f, 0, LastStage)
  BY DotTerms
<1>3. ASSUME NEW i \in 0..LastStage PROVE f[i] = IF i = n THEN w[n] ELSE 0
  <2>1. i \in Stage /\ w[i] \in Int /\ u[i] = IF i = n THEN 1 ELSE 0
    BY StageIs DEF Ints
  <2>2. f[i] = u[i] * w[i]
    BY <2>1
  <2> HIDE DEF f
  <2> QED BY <2>1, <2>2
<1>4. Dot(u, w) = SumOver(f, 0, LastStage)
  BY DEF Dot
<1> HIDE DEF f
<1>5. Rem(SumOver(f, 0, LastStage)) = Rem(SumOver(f, 0, n))
  <2>1. ASSUME NEW i \in (n + 1)..LastStage PROVE Rem(f[i]) = 0
    <3>1. i \in 0..LastStage /\ i # n
      BY <1>1, StageIs
    <3> QED BY <1>3, <3>1, FieldIs
  <2>2. 0 <= n + 1
    BY <1>1
  <2> QED BY <1>1, <1>2, <2>1, <2>2, StageIs, SumUpTo
<1>6. SumOver(f, 0, n) = SumOver(f, 0, n - 1) + f[n] /\ f[n] \in Int
  <2>1. Ints(f, 0, n)
    BY <1>1, <1>2, StageIs DEF Ints
  <2> QED BY <1>1, <2>1, SumTerm
<1>7. SumOver(f, 0, n - 1) = 0
  <2>1. ASSUME NEW i \in 0..(n - 1) PROVE f[i] = 0
    <3>1. i \in 0..LastStage /\ i # n
      BY <1>1, StageIs
    <3> QED BY <1>3, <3>1
  <2>2. n - 1 \in Int /\ n - 1 >= 0 - 1 /\ 0 \in Int
    BY <1>1
  <2> QED BY <2>1, <2>2, SumZero
<1>8. f[n] = w[n]
  BY <1>1, <1>3, StageIs
<1> QED BY <1>4, <1>5, <1>6, <1>7, <1>8
-----------------------------------------------------------------------------
(* The two tables are one polynomial, at the nodes.                         *)
TablesAgree(t) ==
  \A m \in Stage : Rem(Dot(t.b, Powers(Node[m]))) = Rem(Dot(t.g, Newton(Node[m])))

LEMMA CoefficientsAre ==
  ASSUME NEW c \in Coefficients
  PROVE  Ints(c, 0, LastStage) /\ \A i \in Stage : c[i] \in Field /\ c[i] \in Int
BY FieldIs, StageIs DEF Coefficients, Ints

(* What update_b_table subtracts, and the coefficient it finds.             *)
Known(t, n) == SumOver([j \in Stage |-> t.g[j] * rs(n, j + 1)], 0, n - 1)

LEMMA KnownIs ==
  ASSUME NEW t \in Tables, NEW n \in Stage
  PROVE  /\ Known(t, n) \in Int
         /\ Rem(Known(t, n) * Newton(Node[n])[n])
              = Rem(SumOver([j \in Stage |-> t.g[j] * Newton(Node[n])[j]], 0, n - 1))
         /\ SumOver([j \in Stage |-> t.g[j] * Newton(Node[n])[j]], 0, n - 1) \in Int
<1> DEFINE N == Newton(Node[n])
           f == [j \in Stage |-> t.g[j] * rs(n, j + 1)]
           g == [j \in Stage |-> t.g[j] * N[j]]
           h == [j \in Stage |-> N[n] * f[j]]
<1>1. /\ n \in Int /\ 0 <= n /\ n <= LastStage /\ n - 1 \in Int /\ n - 1 >= 0 - 1 /\ 0 \in Int
      /\ \A j \in 0..(n - 1) : j \in Stage /\ j \in 0..LastStage
  BY StageIs
<1>2. \A k \in 0..LastStage : N[k] \in Int
  BY NodeIs, NewtonIs DEF Ints
<1>3. N[n] \in Int
  BY <1>1, <1>2, StageIs
<1>4. ASSUME NEW j \in 0..(n - 1)
      PROVE  /\ rs(n, j + 1) \in Int /\ t.g[j] \in Int /\ Rem(rs(n, j + 1) * N[n]) = Rem(N[j])
             /\ N[j] \in Int
  <2>1. t.g[j] \in Int
    BY <1>1, CoefficientsAre DEF Tables
  <2> QED BY <1>1, <1>2, <2>1, rsIs
<1> HIDE DEF N
<1>5. ASSUME NEW j \in 0..(n - 1)
      PROVE  f[j] \in Int /\ g[j] \in Int /\ h[j] = N[n] * f[j] /\ h[j] \in Int /\ Rem(h[j]) = Rem(g[j])
  <2> DEFINE r == rs(n, j + 1)
             c == t.g[j]
             v == N[n]
             rv == r * v
             x == N[j]
  <2>1. /\ f[j] = c * r /\ g[j] = c * x /\ h[j] = v * f[j]
    BY <1>1
  <2>2. r \in Int /\ c \in Int /\ v \in Int /\ x \in Int /\ Rem(rv) = Rem(x)
    BY <1>3, <1>4
  <2> HIDE DEF r, c, v, x, f, g, h
  <2>3. rv \in Int /\ v * (c * r) = c * rv
    BY <2>2
  <2> HIDE DEF rv
  <2>4. Rem(c * rv) = Rem(c * x)
    BY <2>2, <2>3, RemTimes
  <2>5. c * r \in Int /\ c * x \in Int /\ v * (c * r) \in Int
    BY <2>2
  <2> QED BY <2>1, <2>3, <2>4, <2>5 DEF v
<1> HIDE DEF f, g, h
<1>6. Ints(f, 0, n - 1) /\ Ints(g, 0, n - 1) /\ Ints(h, 0, n - 1)
  BY <1>5 DEF Ints
<1>7. SumOver(h, 0, n - 1) = N[n] * SumOver(f, 0, n - 1)
  BY <1>1, <1>3, <1>5, <1>6, SumScaled
<1>8. Rem(SumOver(h, 0, n - 1)) = Rem(SumOver(g, 0, n - 1))
  BY <1>1, <1>5, <1>6, SumSame
<1>9. SumOver(f, 0, n - 1) \in Int /\ SumOver(g, 0, n - 1) \in Int
  BY <1>1, <1>5, SumType
<1>10. Known(t, n) = SumOver(f, 0, n - 1)
  BY DEF Known, f
<1>11. Known(t, n) * N[n] = SumOver(h, 0, n - 1)
  BY <1>3, <1>7, <1>9, <1>10
<1> QED BY <1>8, <1>9, <1>10, <1>11 DEF g, N

New(t, y, n) == (y * rs(n, 0) - Known(t, n)) % P

(* What update_b_table does: a new g[n], and its difference with the old    *)
(* one, times a row of g2b, added to b.                                     *)
LEMMA UpdateIs ==
  ASSUME NEW t \in Tables, NEW n \in Stage, NEW y \in Field
  PROVE  LET u == update_b_table(t, y, n)
             dg == New(t, y, n) - t.g[n]
         IN  /\ u \in Tables /\ dg \in Int /\ New(t, y, n) \in Field
             /\ New(t, y, n) = Rem(y * rs(n, 0) - Known(t, n))
             /\ \A i \in Stage : /\ Rem(u.b[i]) = Rem(t.b[i] + dg * g2b[n][i])
                                 /\ u.g[i] = IF i = n THEN New(t, y, n) ELSE t.g[i]
<1> DEFINE new == New(t, y, n)
           dg == new - t.g[n]
           u == [b |-> [i \in Stage |-> IF i <= n THEN (t.b[i] + dg * g2b[n][i]) % P ELSE t.b[i]],
                 g |-> [t.g EXCEPT ![n] = new],
                 old |-> t.old]
<1>1. update_b_table(t, y, n) = u
  BY Zenon DEF update_b_table, New, Known
<1>2. /\ t.b \in Coefficients /\ t.g \in Coefficients /\ t.old \in Coefficients
      /\ \A i \in Stage : /\ t.b[i] \in Field /\ t.b[i] \in Int /\ t.g[i] \in Field /\ t.g[i] \in Int
                          /\ g2b[n][i] \in Int
  BY CoefficientsAre, g2bIs, TriangleRows DEF Tables
<1>3. y * rs(n, 0) - Known(t, n) \in Int
  <2>1. Known(t, n) \in Int /\ rs(n, 0) \in Int /\ y \in Int
    BY KnownIs, rsIs, FieldIs
  <2> QED BY <2>1
<1>4. new \in Field /\ new = Rem(y * rs(n, 0) - Known(t, n)) /\ new \in Int
  <2> DEFINE x == y * rs(n, 0) - Known(t, n)
  <2> HIDE DEF x
  <2>1. x \in Int
    BY <1>3 DEF x
  <2>2. x % P \in Field /\ x % P = Rem(x) /\ x % P \in Int
    BY <2>1, FieldOf
  <2> QED BY <2>2 DEF x, New
<1> HIDE DEF new
<1>5. dg \in Int
  BY <1>2, <1>4
<1> HIDE DEF dg
<1>6. ASSUME NEW i \in Stage
      PROVE  u.b[i] \in Field /\ Rem(u.b[i]) = Rem(t.b[i] + dg * g2b[n][i])
  <2> DEFINE x == t.b[i] + dg * g2b[n][i]
  <2>1. x \in Int
    BY <1>2, <1>5
  <2>2. i \in Int /\ n \in Int
    BY StageIs
  <2>3. CASE i <= n
    <3>1. u.b[i] = x % P
      BY <2>3
    <3> HIDE DEF x, u
    <3>2. x % P \in Field /\ x % P = Rem(x)
      BY <2>1, FieldOf
    <3>3. Rem(u.b[i]) = Rem(x)
      BY <2>1, <3>1, <3>2, RemOfRem
    <3> QED BY <3>1, <3>2, <3>3 DEF x
  <2>4. CASE ~(i <= n)
    <3>1. u.b[i] = t.b[i]
      BY <2>4
    <3>2. g2b[n][i] = 0
      BY <2>2, <2>4, g2bIs DEF Triangle
    <3>3. x = t.b[i]
      BY <1>2, <1>5, <3>2
    <3> HIDE DEF x, u
    <3> QED BY <1>2, <3>1, <3>3 DEF x
  <2> QED BY <2>3, <2>4
<1>7. \A i \in Stage : u.g[i] = (IF i = n THEN new ELSE t.g[i])
  BY <1>2 DEF Coefficients
<1>8. u \in Tables
  <2>1. u.b \in Coefficients
    <3>1. u.b = [i \in Stage |-> u.b[i]]
      OBVIOUS
    <3> HIDE DEF u
    <3> QED BY <1>6, <3>1 DEF Coefficients
  <2>2. u.g \in Coefficients
    BY <1>2, <1>4 DEF Coefficients
  <2>3. u.old \in Coefficients /\ u = [b |-> u.b, g |-> u.g, old |-> u.old]
    BY <1>2
  <2> HIDE DEF u
  <2> QED BY <2>1, <2>2, <2>3 DEF Tables
<1> HIDE DEF u
<1> QED BY <1>1, <1>4, <1>5, <1>6, <1>7, <1>8 DEF dg, new

(* A stage leaves b and g in agreement; the polynomial then has the value   *)
(* y at its node, and the same values as before at the nodes before it.     *)
LEMMA UpdateAt ==
  ASSUME NEW t \in Tables, NEW n \in Stage, NEW y \in Field, TablesAgree(t), NEW m \in Stage, NEW u,
         u = update_b_table(t, y, n)
  PROVE  /\ Rem(Dot(u.b, Powers(Node[m]))) = Rem(Dot(u.g, Newton(Node[m])))
         /\ m < n => Rem(Dot(u.b, Powers(Node[m]))) = Rem(Dot(t.b, Powers(Node[m])))
<1> DEFINE w == Powers(Node[m])
           v == Newton(Node[m])
           dg == New(t, y, n) - t.g[n]
           row == g2b[n]
           unit == [i \in Stage |-> IF i = n THEN 1 ELSE 0]
           hb == [i \in Stage |-> t.b[i] + dg * row[i]]
           b0 == t.b
           g0 == t.g
           b1 == u.b
           g1 == u.g
<1>1. /\ u \in Tables /\ dg \in Int /\ New(t, y, n) \in Int
      /\ \A i \in Stage : /\ Rem(b1[i]) = Rem(hb[i])
                          /\ g1[i] = IF i = n THEN New(t, y, n) ELSE t.g[i]
  <2>1. \A i \in Stage : hb[i] = t.b[i] + dg * g2b[n][i]
    OBVIOUS
  <2>2. /\ u \in Tables /\ dg \in Int /\ New(t, y, n) \in Field
        /\ \A i \in Stage : /\ Rem(u.b[i]) = Rem(t.b[i] + dg * g2b[n][i])
                            /\ u.g[i] = IF i = n THEN New(t, y, n) ELSE t.g[i]
    BY UpdateIs
  <2> HIDE DEF hb, dg
  <2> QED BY <2>1, <2>2, FieldIs
<1>2. /\ Ints(b0, 0, LastStage) /\ Ints(g0, 0, LastStage) /\ Ints(b1, 0, LastStage)
      /\ Ints(g1, 0, LastStage) /\ \A i \in Stage : g0[i] \in Int /\ b0[i] \in Int
  BY <1>1, CoefficientsAre DEF Tables
<1>3. Ints(w, 0, LastStage) /\ Ints(v, 0, LastStage)
  BY NodeIs, PowersAre, NewtonIs
<1>4. Ints(row, 0, LastStage) /\ \A i \in Stage : row[i] \in Int
  BY g2bIs, TriangleRows
<1>5. Ints(unit, 0, LastStage) /\ \A i \in Stage : unit[i] = IF i = n THEN 1 ELSE 0
  BY StageIs DEF Ints
<1>6. v[n] = Dot(row, w)
  BY NodeIs, NewtonIs
<1>7. Rem(Dot(b0, w)) = Rem(Dot(g0, v))
  BY DEF TablesAgree
<1>8. \A i \in Stage : g1[i] = g0[i] + dg * unit[i]
  BY <1>1, <1>2, <1>5
<1>9. \A i \in Stage : hb[i] = b0[i] + dg * row[i]
  OBVIOUS
<1> HIDE DEF dg
<1>10. Ints(hb, 0, LastStage)
  <2>1. \A i \in Stage : hb[i] \in Int
    BY <1>1, <1>2, <1>4
  <2> HIDE DEF hb
  <2> QED BY <2>1, StageIs DEF Ints
<1> HIDE DEF w, v, row, unit, hb, b0, g0, b1, g1
<1> DEFINE D == Dot(b0, w)
           E == Dot(g0, v)
           x == v[n]
           U == Dot(unit, v)
<1>11. D \in Int /\ E \in Int /\ U \in Int /\ x \in Int
  BY <1>2, <1>3, <1>5, DotType, StageIs DEF Ints
<1>12. Rem(U) = Rem(x)
  BY <1>3, <1>5, DotUnit
<1>13. Rem(Dot(b1, w)) = Rem(D + dg * x)
  <2>1. Rem(Dot(b1, w)) = Rem(Dot(hb, w))
    BY <1>1, <1>2, <1>3, <1>10, DotSame
  <2>2. Dot(hb, w) = Dot(b0, w) + dg * Dot(row, w)
    BY <1>1, <1>2, <1>3, <1>4, <1>9, DotLinear
  <2> QED BY <1>6, <2>1, <2>2
<1>14. Dot(g1, v) = E + dg * U
  BY <1>1, <1>2, <1>3, <1>5, <1>8, DotLinear
<1>15. Rem(D) = Rem(E)
  BY <1>7
<1> HIDE DEF D, E, x, U
<1>16. Rem(D + dg * x) = Rem(E + dg * U)
  <2>1. Like(D, E) /\ Like(x, U) /\ Like(dg, dg)
    BY <1>1, <1>11, <1>12, <1>15 DEF Like
  <2>2. Like(dg * x, dg * U)
    BY <2>1, LikeOps
  <2>3. Like(D + dg * x, E + dg * U)
    BY <2>1, <2>2, LikeOps
  <2> QED BY <2>3 DEF Like
<1>17. ASSUME m < n PROVE Rem(D + dg * x) = Rem(D)
  <2> DEFINE z == 0
  <2>1. Rem(x) = 0
    BY <1>17, NewtonZero DEF x, v
  <2>2. Like(D, D) /\ Like(x, z) /\ Like(dg, dg) /\ D + dg * z = D
    BY <1>1, <1>11, <2>1, FieldIs DEF Like
  <2> HIDE DEF z
  <2>3. Like(dg * x, dg * z)
    BY <2>2, LikeOps
  <2>4. Like(D + dg * x, D + dg * z)
    BY <2>2, <2>3, LikeOps
  <2> QED BY <2>2, <2>4 DEF Like
<1> QED BY <1>13, <1>14, <1>16, <1>17 DEF b1, w, g1, v, D, b0
-----------------------------------------------------------------------------
(* After an update at a node the polynomial has the value given there.      *)
LEMMA UpdateFits ==
  ASSUME NEW t \in Tables, NEW n \in Stage, NEW y \in Field, TablesAgree(t), NEW u,
         u = update_b_table(t, y, n)
  PROVE  Rem(Dot(u.b, Powers(Node[n]))) = y
<1> DEFINE N == Newton(Node[n])
           new == New(t, y, n)
           known == Known(t, n)
           r == rs(n, 0)
           f == [i \in Stage |-> u.g[i] * N[i]]
           g == [j \in Stage |-> t.g[j] * N[j]]
           G == SumOver(g, 0, n - 1)
           x == N[n]
<1>1. n \in Int /\ 0 <= n /\ n <= LastStage /\ n \in 0..LastStage /\ y \in Int
  BY StageIs, FieldIs
<1>2. /\ known \in Int /\ G \in Int /\ Rem(known * x) = Rem(G) /\ r \in Int /\ Rem(r * x) = 1
  BY KnownIs, rsIs
<1>3. u \in Tables /\ new \in Int /\ new = Rem(y * r - known)
      /\ \A i \in Stage : u.g[i] = IF i = n THEN new ELSE t.g[i]
  <2>1. /\ u \in Tables /\ New(t, y, n) \in Field
        /\ New(t, y, n) = Rem(y * rs(n, 0) - Known(t, n))
        /\ \A i \in Stage : u.g[i] = IF i = n THEN New(t, y, n) ELSE t.g[i]
    BY UpdateIs
  <2> QED BY <2>1, FieldIs
<1>4. Ints(N, 0, LastStage) /\ x \in Int
  BY <1>1, NodeIs, NewtonIs DEF Ints
<1>5. Rem(Dot(u.b, Powers(Node[n]))) = Rem(SumOver(f, 0, LastStage))
  <2>1. Rem(Dot(u.b, Powers(Node[n]))) = Rem(Dot(u.g, Newton(Node[n])))
    BY UpdateAt
  <2> QED BY <2>1 DEF Dot
<1>6. Ints(f, 0, LastStage)
  <2>1. Ints(u.g, 0, LastStage)
    BY <1>3, CoefficientsAre DEF Tables
  <2> HIDE DEF N
  <2> QED BY <1>4, <2>1, DotTerms
<1>7. ASSUME NEW i \in (n + 1)..LastStage PROVE Rem(f[i]) = 0
  <2>1. i \in Stage /\ n < i /\ i \in 0..LastStage
    BY <1>1, StageIs
  <2>2. Rem(N[i]) = 0 /\ N[i] \in Int
    BY <1>4, <2>1, NewtonZero DEF Ints
  <2>3. u.g[i] \in Int
    BY <1>3, <2>1, CoefficientsAre DEF Tables
  <2> DEFINE a == u.g[i]
             b == N[i]
  <2>4. f[i] = a * b
    BY <2>1
  <2>5. a \in Int /\ b \in Int /\ Rem(b) = 0 /\ 0 \in Int
    BY <2>2, <2>3
  <2> HIDE DEF a, b, f
  <2>6. Rem(a * b) = 0
    BY <2>5, RemTimesOf
  <2> QED BY <2>4, <2>6
<1>8. f[n] = new * x
  BY <1>3
<1>9. SumOver(f, 0, n - 1) = G
  <2>1. ASSUME NEW i \in 0..(n - 1) PROVE f[i] = g[i]
    <3>1. i \in Stage /\ i # n
      BY <1>1, StageIs
    <3> QED BY <1>3, <3>1
  <2>2. Ints(f, 0, n - 1) /\ n - 1 \in Int /\ n - 1 >= 0 - 1 /\ 0 \in Int
    BY <1>1, <1>6, StageIs DEF Ints
  <2> HIDE DEF f, g
  <2> QED BY <2>1, <2>2, SumEqual
<1> HIDE DEF f, g, N, G, new, known, r, x
<1>10. Rem(SumOver(f, 0, LastStage)) = Rem(SumOver(f, 0, n))
  <2>1. 0 <= n + 1 /\ 0 \in Int
    BY <1>1
  <2> QED BY <1>1, <1>6, <1>7, <2>1, StageIs, SumUpTo
<1>11. SumOver(f, 0, n) = G + new * x
  <2>1. Ints(f, 0, n)
    BY <1>1, <1>6, StageIs DEF Ints
  <2>2. SumOver(f, 0, n) = SumOver(f, 0, n - 1) + f[n]
    BY <1>1, <2>1, SumTerm
  <2> QED BY <1>8, <1>9, <2>2
<1>12. Rem(G + new * x) = Rem(y)
  <2> DEFINE e == y * r - known
             kx == known * x
             rx == r * x
             one == 1
  <2>1. e \in Int /\ kx \in Int /\ rx \in Int /\ e * x = y * rx - kx /\ one \in Int
    <3>1. (y * r - known) * x = (y * r) * x - known * x /\ (y * r) * x = y * (r * x)
      BY <1>1, <1>2, <1>4
    <3> QED BY <1>1, <1>2, <1>4, <3>1
  <2>2. Like(new, e) /\ Like(x, x) /\ Like(kx, G) /\ Like(rx, one) /\ Like(y, y) /\ Like(G, G)
    <3> HIDE DEF e
    <3>1. Rem(new) = Rem(e)
      BY <1>3, <2>1, RemOfRem DEF e
    <3> HIDE DEF kx, rx
    <3> QED BY <1>1, <1>2, <1>3, <1>4, <2>1, <3>1, FieldIs DEF Like, kx, rx
  <2>3. y * one = y
    BY <1>1
  <2> HIDE DEF e, kx, rx, one
  <2>4. Like(new * x, e * x) /\ Like(y * rx, y * one)
    BY <2>2, LikeOps
  <2>5. Like(y * rx - kx, y * one - G)
    BY <2>2, <2>4, LikeOps
  <2>6. Like(new * x, y - G)
    BY <2>1, <2>3, <2>4, <2>5 DEF Like
  <2>7. Like(G + new * x, G + (y - G))
    BY <2>2, <2>6, LikeOps
  <2>8. G + (y - G) = y
    BY <1>1, <1>2
  <2> QED BY <2>7, <2>8 DEF Like
<1>13. Rem(y) = y
  BY RemOfField
<1> QED BY <1>5, <1>10, <1>11, <1>12, <1>13

-----------------------------------------------------------------------------
(* All stages.                                                              *)
Corrected(t, dy) ==
  CHOOSE c : c = [n \in 0..Stages |->
                    IF n = 0 THEN t ELSE update_b_table(c[n - 1], dy[n - 1], n - 1)]

LEMMA CorrectedIs ==
  ASSUME NEW t \in Tables, NEW dy \in [Stage -> Field]
  PROVE  /\ correct(t, dy) = Corrected(t, dy)[Stages]
         /\ Corrected(t, dy) \in [0..Stages -> Tables] /\ Corrected(t, dy)[0] = t
         /\ \A n \in 1..Stages :
              Corrected(t, dy)[n] = update_b_table(Corrected(t, dy)[n - 1], dy[n - 1], n - 1)
<1> DEFINE step == [n \in 1..Stages |-> [s \in Tables |-> update_b_table(s, dy[n - 1], n - 1)]]
           Is(c) == c = [n \in 0..Stages |->
                           IF n = 0 THEN t ELSE update_b_table(c[n - 1], dy[n - 1], n - 1)]
           c == Corrected(t, dy)
<1>1. ASSUME NEW n \in 1..Stages PROVE n - 1 \in Stage /\ dy[n - 1] \in Field
  <2>1. n - 1 \in Stage
    BY StageIs DEF LastStage
  <2> QED BY <2>1
<1>2. step \in [1..Stages -> [Tables -> Tables]]
  <2>1. ASSUME NEW n \in 1..Stages, NEW s \in Tables
        PROVE  update_b_table(s, dy[n - 1], n - 1) \in Tables
    BY <1>1, UpdateIs
  <2> QED BY <2>1
<1>3. PICK g \in [0..Stages -> Tables] : IsRun(g, t, step, Stages)
  <2>1. Stages \in Nat
    BY StageIs
  <2> HIDE DEF step
  <2> QED BY <1>2, <2>1, Recursion
<1>4. g[0] = t /\ \A n \in 1..Stages : g[n] = update_b_table(g[n - 1], dy[n - 1], n - 1)
  <2>1. g[0] = t
    BY <1>3 DEF IsRun
  <2>2. ASSUME NEW n \in 1..Stages PROVE g[n] = update_b_table(g[n - 1], dy[n - 1], n - 1)
    <3>1. g[n] = step[n][g[n - 1]]
      <4> HIDE DEF step
      <4> QED BY <1>3 DEF IsRun
    <3>2. n - 1 \in 0..Stages
      BY StageIs
    <3>3. g[n - 1] \in Tables
      BY <1>3, <3>2
    <3> QED BY <3>1, <3>3
  <2> QED BY <2>1, <2>2
<1>5. Is(g)
  <2>1. \A n \in 0..Stages : n # 0 => n \in 1..Stages
    BY StageIs
  <2> QED BY <1>3, <1>4, <2>1
<1>6. Is(c)
  BY <1>5 DEF Corrected
<1> HIDE DEF c
<1>7. c[0] = t /\ \A n \in 1..Stages : c[n] = update_b_table(c[n - 1], dy[n - 1], n - 1)
  <2>1. 0 \in 0..Stages /\ \A n \in 1..Stages : n \in 0..Stages /\ n # 0
    BY StageIs
  <2> QED BY <1>6, <2>1
<1>8. \A n \in 0..Stages : c[n] = g[n]
  <2>1. StepAlike(c, g, Stages)
    BY <1>4, <1>7 DEF StepAlike
  <2>2. Stages \in Nat
    BY StageIs
  <2> QED BY <2>1, <2>2, RunsAgree
<1>9. c \in [0..Stages -> Tables]
  BY <1>3, <1>6, <1>8
<1>10. correct(t, dy) = Corrected(t, dy)[Stages]
  BY DEF correct, Corrected
<1> QED BY <1>7, <1>9, <1>10 DEF c

(* The polynomial goes through all the values.                              *)
(* The polynomial has the values dy at the first n nodes.                   *)
Fits(b, dy, n) == \A m \in Stage : m < n => Rem(Dot(b, Powers(Node[m]))) = dy[m]

LEMMA CorrectFits ==
  ASSUME NEW t \in Tables, NEW dy \in [Stage -> Field], TablesAgree(t)
  PROVE  correct(t, dy) \in Tables /\ TablesAgree(correct(t, dy)) /\ Fits(correct(t, dy).b, dy, Stages)
<1> DEFINE c == Corrected(t, dy)
           T == {n \in Nat : n <= Stages => TablesAgree(c[n]) /\ Fits(c[n].b, dy, n)}
<1>1. /\ c \in [0..Stages -> Tables] /\ c[0] = t /\ correct(t, dy) = c[Stages]
      /\ \A n \in 1..Stages : c[n] = update_b_table(c[n - 1], dy[n - 1], n - 1)
  BY CorrectedIs
<1> HIDE DEF c
<1>2. 0 \in T
  <2>1. \A m \in Stage : ~(m < 0)
    BY StageIs
  <2> QED BY <1>1, <2>1 DEF Fits
<1>3. ASSUME NEW n \in T PROVE n + 1 \in T
  <2>1. SUFFICES ASSUME n + 1 <= Stages PROVE TablesAgree(c[n + 1]) /\ Fits(c[n + 1].b, dy, n + 1)
    OBVIOUS
  <2>2. n \in Stage /\ n + 1 \in 1..Stages /\ (n + 1) - 1 = n /\ n \in 0..Stages /\ n <= Stages
    BY <2>1, StageIs DEF LastStage
  <2> DEFINE s == c[n]
             u == c[n + 1]
  <2>3. s \in Tables /\ TablesAgree(s) /\ Fits(s.b, dy, n)
    BY <1>1, <2>2
  <2>4. u = update_b_table(s, dy[n], n) /\ dy[n] \in Field
    BY <1>1, <2>2
  <2> HIDE DEF s, u
  <2>5. \A m \in Stage :
          /\ Rem(Dot(u.b, Powers(Node[m]))) = Rem(Dot(u.g, Newton(Node[m])))
          /\ m < n => Rem(Dot(u.b, Powers(Node[m]))) = Rem(Dot(s.b, Powers(Node[m])))
    BY <2>2, <2>3, <2>4, UpdateAt
  <2>6. Rem(Dot(u.b, Powers(Node[n]))) = dy[n]
    BY <2>2, <2>3, <2>4, UpdateFits
  <2>7. TablesAgree(u)
    BY <2>5 DEF TablesAgree
  <2>8. ASSUME NEW m \in Stage, m < n + 1 PROVE Rem(Dot(u.b, Powers(Node[m]))) = dy[m]
    <3>1. m = n \/ m < n
      BY <2>2, <2>8, StageIs
    <3> QED BY <2>3, <2>5, <2>6, <3>1 DEF Fits
  <2> QED BY <2>7, <2>8 DEF Fits, u
<1>4. T \in SUBSET Nat
  OBVIOUS
<1>5. T = Nat
  <2> HIDE DEF T
  <2> QED BY <1>2, <1>3, <1>4, Induction
<1>6. Stages \in Nat /\ Stages \in 0..Stages
  BY StageIs
<1>7. TablesAgree(c[Stages]) /\ Fits(c[Stages].b, dy, Stages) /\ c[Stages] \in Tables
  BY <1>1, <1>5, <1>6
<1> QED BY <1>1, <1>7
-----------------------------------------------------------------------------
(* transform_b2g writes b in terms of the polynomials.                      *)
LEMMA TransformAgrees ==
  ASSUME NEW c \in Coefficients
  PROVE  /\ transform_b2g(c) \in Coefficients
         /\ \A s \in Field : Rem(Dot(c, Powers(s))) = Rem(Dot(transform_b2g(c), Newton(s)))
<1> DEFINE col(i) == [j \in Stage |-> c[j] * b2g[j][i]]
           T == [i \in Stage |-> SumOver([j \in Stage |-> c[j] * b2g[j][i]], 0, LastStage)]
           g == transform_b2g(c)
<1>1. \A i \in Stage : g[i] = SumOver(col(i), i, LastStage) % P /\ T[i] = SumOver(col(i), 0, LastStage)
  BY DEF transform_b2g, LastStage
<1>2. g = [i \in Stage |-> g[i]]
  BY DEF transform_b2g
<1>3. ASSUME NEW i \in Stage PROVE Ints(col(i), 0, LastStage) /\ \A j \in 0..(i - 1) : col(i)[j] = 0
  <2> DEFINE f == col(i)
  <2>1. \A j \in Stage : c[j] \in Int /\ b2g[j][i] \in Int /\ (j < i => b2g[j][i] = 0)
    BY CoefficientsAre, b2gIs, TriangleRows DEF Triangle
  <2>2. \A j \in Stage : f[j] = c[j] * b2g[j][i]
    OBVIOUS
  <2>3. \A j \in 0..(i - 1) : j \in Stage /\ j < i
    BY StageIs
  <2> HIDE DEF f
  <2>4. ASSUME NEW j \in Stage PROVE f[j] \in Int /\ (j < i => f[j] = 0)
    BY <2>1, <2>2
  <2>5. Ints(f, 0, LastStage)
    BY <2>4, StageIs DEF Ints
  <2> QED BY <2>3, <2>4, <2>5 DEF f
<1> HIDE DEF col
<1>4. ASSUME NEW i \in Stage
      PROVE  SumOver(col(i), 0, LastStage) = SumOver(col(i), i, LastStage)
             /\ SumOver(col(i), 0, LastStage) \in Int
  <2>1. i \in Int /\ 0 <= i /\ i <= LastStage + 1 /\ 0 \in Int
    BY StageIs
  <2>2. SumOver(col(i), 0, LastStage) = SumOver(col(i), i, LastStage)
    BY <1>3, <2>1, StageIs, SumFrom
  <2>3. \A j \in 0..LastStage : col(i)[j] \in Int
    BY <1>3 DEF Ints
  <2> QED BY <2>2, <2>3, StageIs, SumType
<1> HIDE DEF g, T
<1>5. ASSUME NEW i \in Stage PROVE g[i] \in Field /\ g[i] \in Int /\ Rem(g[i]) = Rem(T[i])
  <2> DEFINE x == SumOver(col(i), 0, LastStage)
  <2>1. x \in Int /\ g[i] = x % P /\ T[i] = x
    BY <1>1, <1>4
  <2> HIDE DEF x
  <2> QED BY <2>1, FieldOf, RemOfRem
<1>6. g \in Coefficients
  BY <1>2, <1>5 DEF Coefficients
<1>7. ASSUME NEW s \in Field PROVE Rem(Dot(c, Powers(s))) = Rem(Dot(g, Newton(s)))
  <2> DEFINE w == Newton(s)
             d == Powers(s)
  <2>1. Ints(c, 0, LastStage) /\ Ints(w, 0, LastStage) /\ Ints(d, 0, LastStage)
    BY CoefficientsAre, NewtonIs, PowersAre
  <2>2. \A j \in Stage : Ints(b2g[j], 0, LastStage)
    BY b2gIs, TriangleRows
  <2>3. \A j \in Stage : Rem(d[j]) = Rem(Dot(b2g[j], w))
    BY PowersFromNewton
  <2>4. T = [i \in Stage |-> SumOver([j \in Stage |-> c[j] * b2g[j][i]], 0, LastStage)]
    BY DEF T
  <2> HIDE DEF w, d
  <2>5. Rem(Dot(c, d)) = Rem(Dot(T, w)) /\ Ints(T, 0, LastStage)
    <3>1. SumsOfSums(c, b2g, w, d, T)
      BY <2>1, <2>2, <2>3, <2>4 DEF SumsOfSums
    <3> QED BY <3>1, Exchange
  <2>6. Ints(g, 0, LastStage)
    BY <1>6, CoefficientsAre
  <2>7. Rem(Dot(g, w)) = Rem(Dot(T, w))
    BY <1>5, <2>1, <2>5, <2>6, DotSame
  <2> QED BY <2>5, <2>7 DEF w, d
<1> QED BY <1>6, <1>7 DEF g

-----------------------------------------------------------------------------
(* est_b is the triangle of the binomial coefficients but for its border.   *)
LEMMA EstValues ==
  /\ est_b(0, 0) = 1
  /\ est_b(1, 0) = 2 /\ est_b(1, 1) = 1
  /\ est_b(2, 0) = 3 /\ est_b(2, 1) = 3 /\ est_b(2, 2) = 1
  /\ est_b(3, 0) = 4 /\ est_b(3, 1) = 6 /\ est_b(3, 2) = 4 /\ est_b(3, 3) = 1
  /\ est_b(4, 0) = 5 /\ est_b(4, 1) = 10 /\ est_b(4, 2) = 10 /\ est_b(4, 3) = 5
  /\ est_b(4, 4) = 1
  /\ est_b(5, 0) = 6 /\ est_b(5, 1) = 15 /\ est_b(5, 2) = 20 /\ est_b(5, 3) = 15
  /\ est_b(5, 4) = 6 /\ est_b(5, 5) = 1
  /\ est_b(6, 0) = 7 /\ est_b(6, 1) = 21 /\ est_b(6, 2) = 35 /\ est_b(6, 3) = 35
  /\ est_b(6, 4) = 21 /\ est_b(6, 5) = 7 /\ est_b(6, 6) = 1
<1>1. /\ (0 * (0 + 1)) \div 2 = 0 /\ (1 * (1 + 1)) \div 2 = 1 /\ (2 * (2 + 1)) \div 2 = 3
      /\ (3 * (3 + 1)) \div 2 = 6 /\ (4 * (4 + 1)) \div 2 = 10 /\ (5 * (5 + 1)) \div 2 = 15
      /\ (6 * (6 + 1)) \div 2 = 21
  OBVIOUS
<1> QED BY <1>1 DEF est_b, EstTable

LEMMA EstIs ==
  /\ \A n \in Stage, j \in Stage : j <= n => est_b(n, j) \in Int
  /\ est_b(0, 0) = 1
  /\ \A n \in 0..(LastStage - 1) : est_b(n + 1, 0) = est_b(n, 0) + 1
  /\ \A n \in 0..(LastStage - 1), j \in Stage :
       /\ j >= 1 /\ j <= n => est_b(n + 1, j) = est_b(n, j - 1) + est_b(n, j)
       /\ j = n + 1 => est_b(n + 1, j) = est_b(n, j - 1)
<1>1. \A n \in 0..6, j \in 0..6 : j <= n => est_b(n, j) \in Int
  BY EstValues
<1>2. \A n \in 0..5 : est_b(n + 1, 0) = est_b(n, 0) + 1
  BY EstValues
<1>3. ASSUME NEW n \in 0..5, NEW j \in 1..6, j <= n
      PROVE  est_b(n + 1, j) = est_b(n, j - 1) + est_b(n, j)
  BY <1>3, EstValues
<1>4. ASSUME NEW n \in 0..5
      PROVE  est_b(n + 1, n + 1) = est_b(n, (n + 1) - 1)
  BY EstValues
<1>5. /\ \A n \in Stage : n \in 0..6 /\ n \in Int
      /\ \A n \in 0..(LastStage - 1) : n \in 0..5
  BY StageIs DEF LastStage
<1>6. \A j \in Stage : j >= 1 => j \in 1..6
  BY <1>5
<1> QED BY <1>1, <1>2, <1>3, <1>4, <1>5, <1>6, EstValues
-----------------------------------------------------------------------------
(* The sum that extrapolated multiplies by a power.                         *)
EstSum(b, i) == SumOver([j \in Stage |-> b[j] * est_b(j, i)], i, LastStage)

LEMMA ExtrapolatedIs ==
  ASSUME NEW b \in Coefficients, NEW q \in Field
  PROVE  /\ extrapolated(b, q) \in Coefficients
         /\ \A i \in Stage : /\ EstSum(b, i) \in Int /\ power(q, i + 1) \in Int
                             /\ extrapolated(b, q)[i] = Rem(power(q, i + 1) * EstSum(b, i))
<1> DEFINE f(i) == [j \in Stage |-> b[j] * est_b(j, i)]
           old == extrapolated(b, q)
<1>1. old = [i \in Stage |-> (power(q, i + 1) * EstSum(b, i)) % P]
  BY DEF extrapolated, EstSum, LastStage
<1>2. ASSUME NEW i \in Stage PROVE EstSum(b, i) \in Int
  <2>1. ASSUME NEW j \in i..LastStage PROVE f(i)[j] \in Int
    <3>1. j \in Stage /\ i <= j
      BY StageIs
    <3>2. b[j] \in Int /\ est_b(j, i) \in Int
      BY <3>1, CoefficientsAre, EstIs
    <3> QED BY <3>1, <3>2
  <2>2. i \in Int /\ LastStage >= i - 1
    BY StageIs
  <2> HIDE DEF f
  <2>3. SumOver(f(i), i, LastStage) \in Int
    BY <2>1, <2>2, StageIs, SumType
  <2> QED BY <2>3 DEF f, EstSum
<1>3. ASSUME NEW i \in Stage PROVE power(q, i + 1) \in Int
  <2>1. i + 1 \in 0..Stages
    BY StageIs DEF LastStage
  <2> QED BY <2>1, PowerIs
<1> HIDE DEF old
<1>4. ASSUME NEW i \in Stage
      PROVE  old[i] \in Field /\ old[i] = Rem(power(q, i + 1) * EstSum(b, i))
  <2> DEFINE p == power(q, i + 1)
             e == EstSum(b, i)
             x == p * e
  <2>1. p \in Int /\ e \in Int /\ old[i] = x % P
    BY <1>1, <1>2, <1>3
  <2> HIDE DEF p, e
  <2>2. x \in Int
    BY <2>1
  <2> HIDE DEF x
  <2>3. old[i] \in Field /\ old[i] = Rem(x)
    BY <2>1, <2>2, FieldOf
  <2> QED BY <2>3 DEF x, p, e
<1>5. old \in Coefficients
  BY <1>1, <1>4 DEF Coefficients
<1> QED BY <1>2, <1>3, <1>4, <1>5 DEF old

LEMMA PredictAgrees ==
  ASSUME NEW t \in Tables, NEW q \in Field
  PROVE  predict(t, q) \in Tables /\ TablesAgree(predict(t, q))
<1> DEFINE old == extrapolated(t.b, q)
           c == carried(t, old)
<1>1. t.b \in Coefficients /\ t.old \in Coefficients
  BY DEF Tables
<1>2. old \in Coefficients
  BY <1>1, ExtrapolatedIs
<1> HIDE DEF old
<1>3. c \in Coefficients
  <2>1. ASSUME NEW i \in Stage PROVE (old[i] + t.b[i] - t.old[i]) % P \in Field
    <3> DEFINE x == old[i] + t.b[i] - t.old[i]
    <3>1. old[i] \in Int /\ t.b[i] \in Int /\ t.old[i] \in Int
      BY <1>1, <1>2, CoefficientsAre
    <3>2. x \in Int
      BY <3>1
    <3> HIDE DEF x
    <3>3. x % P \in Field
      BY <3>2, FieldOf
    <3> QED BY <3>3 DEF x
  <2> QED BY <2>1 DEF carried, Coefficients
<1> HIDE DEF c
<1>4. predict(t, q) = [b |-> c, g |-> transform_b2g(c), old |-> old]
  BY Zenon DEF predict, old, c
<1>5. predict(t, q) \in Tables
  BY <1>2, <1>3, <1>4, TransformAgrees DEF Tables
<1>6. predict(t, q).b = c /\ predict(t, q).g = transform_b2g(c)
  BY <1>4
<1>7. \A m \in Stage : Rem(Dot(c, Powers(Node[m]))) = Rem(Dot(transform_b2g(c), Newton(Node[m])))
  BY <1>3, NodeIs, TransformAgrees
<1> QED BY <1>5, <1>6, <1>7 DEF TablesAgree

LEMMA NoTablesAgree == NoTables \in Tables /\ TablesAgree(NoTables)
<1> DEFINE zero == [i \in Stage |-> 0]
<1>1. NoTables = [b |-> zero, g |-> zero, old |-> zero]
  BY DEF NoTables
<1>2. zero \in Coefficients /\ \A i \in Stage : zero[i] = 0
  BY FieldIs DEF Coefficients
<1>3. NoTables \in Tables /\ NoTables.b = zero /\ NoTables.g = zero
  BY <1>1, <1>2 DEF Tables
<1> HIDE DEF zero
<1>4. ASSUME NEW w, Ints(w, 0, LastStage) PROVE Dot(zero, w) = 0
  <2> DEFINE f == [i \in Stage |-> zero[i] * w[i]]
  <2>1. ASSUME NEW i \in 0..LastStage PROVE f[i] = 0
    <3>1. i \in Stage /\ w[i] \in Int
      BY <1>4, StageIs DEF Ints
    <3> QED BY <1>2, <3>1
  <2> HIDE DEF f
  <2>2. SumOver(f, 0, LastStage) = 0
    BY <2>1, StageIs, SumZero
  <2> QED BY <2>2 DEF f, Dot
<1>5. ASSUME NEW m \in Stage
      PROVE  Rem(Dot(zero, Powers(Node[m]))) = Rem(Dot(zero, Newton(Node[m])))
  <2>1. Ints(Powers(Node[m]), 0, LastStage) /\ Ints(Newton(Node[m]), 0, LastStage)
    BY NodeIs, PowersAre, NewtonIs
  <2>2. Dot(zero, Powers(Node[m])) = 0 /\ Dot(zero, Newton(Node[m])) = 0
    BY <1>4, <2>1
  <2> QED BY <2>2
<1> QED BY <1>3, <1>5 DEF TablesAgree

-----------------------------------------------------------------------------
(* The coefficients agree, and the polynomial goes through what was found.  *)
RadauTables ==
  /\ tables \in Tables /\ TablesAgree(tables)
  /\ radauPc = "once" => fitted = Unfitted
  /\ fitted # Unfitted => Fits(tables.b, fitted, Stages)

LEMMA RadauTablesInit == RadauInit => RadauTables
BY NoTablesAgree DEF RadauInit, RadauTables

LEMMA RadauTablesStep == RadauTables /\ [RadauNext]_radauVars => RadauTables'
<1> SUFFICES ASSUME RadauTables, [RadauNext]_radauVars PROVE RadauTables'
  OBVIOUS
<1> USE DEF RadauTables
<1>1. CASE RadauBegin
  BY <1>1 DEF RadauBegin
<1>2. CASE Correct
  <2>1. PICK dy \in Forces : tables' = correct(tables, dy) /\ fitted' = dy
    BY <1>2 DEF Correct
  <2>2. radauPc' \in {"judge", "correct"}
    BY <1>2 DEF Correct, Converge
  <2>3. dy \in [Stage -> Field]
    BY IAS15Assumption
  <2>4. tables' \in Tables /\ TablesAgree(tables') /\ Fits(tables'.b, dy, Stages)
    BY <2>1, <2>3, CorrectFits
  <2>5. TablesAgree(tables)' /\ Fits(tables.b, fitted, Stages)'
    BY <2>1, <2>4 DEF TablesAgree, Fits, Dot, Powers, Newton
  <2> QED BY <2>2, <2>4, <2>5
<1>3. CASE RadauAccept
  <2>1. PICK q \in Ratios : tables' = predict(tables, q)
    BY <1>3 DEF RadauAccept
  <2>2. q \in Field
    BY IAS15Assumption
  <2>3. tables' \in Tables /\ TablesAgree(tables')
    BY <2>1, <2>2, PredictAgrees
  <2>4. TablesAgree(tables)'
    BY <2>3 DEF TablesAgree
  <2>5. fitted' = Unfitted
    BY <1>3 DEF RadauAccept
  <2> QED BY <2>3, <2>4, <2>5 DEF Unfitted
<1>4. CASE RadauReject
  <2>1. PICK q \in Ratios : tables' = IF warmed_up THEN predict(tables, q) ELSE tables
    BY <1>4 DEF RadauReject
  <2>2. q \in Field
    BY IAS15Assumption
  <2>3. tables' \in Tables /\ TablesAgree(tables')
    BY <2>1, <2>2, PredictAgrees
  <2>4. TablesAgree(tables)'
    BY <2>3 DEF TablesAgree
  <2>5. fitted' = Unfitted
    BY <1>4 DEF RadauReject
  <2> QED BY <2>3, <2>4, <2>5 DEF Unfitted
<1>8. CASE CorrectNaN
  <2>1. UNCHANGED <<tables, fitted>> /\ radauPc' \in {"judge", "correct"}
    BY <1>8 DEF CorrectNaN, Converge
  <2> QED BY <2>1, <1>8 DEF CorrectNaN, TablesAgree, Fits, Dot, Powers, Newton
<1>5. CASE RadauAbort
  BY <1>5 DEF RadauAbort, TablesAgree, Fits, Dot, Powers, Newton
<1>6. CASE IntegrateOnce
  <2>1. PICK dy \in Forces : tables' = predict(correct(tables, dy), 1)
    BY <1>6 DEF IntegrateOnce
  <2>2. dy \in [Stage -> Field]
    BY IAS15Assumption
  <2>3. correct(tables, dy) \in Tables
    BY <2>2, CorrectFits
  <2>4. tables' \in Tables /\ TablesAgree(tables')
    BY <2>1, <2>3, PredictAgrees, FieldIs
  <2>5. TablesAgree(tables)'
    BY <2>4 DEF TablesAgree
  <2>6. fitted' = Unfitted
    BY <1>6 DEF IntegrateOnce, Unfitted
  <2> QED BY <2>4, <2>5, <2>6 DEF Unfitted
<1>7. CASE UNCHANGED radauVars
  BY <1>7 DEF radauVars
<1> QED BY <1>1, <1>2, <1>3, <1>4, <1>5, <1>6, <1>7, <1>8 DEF RadauNext

LEMMA DerivativeIs ==
  ASSUME NEW b \in Coefficients, NEW s \in Int
  PROVE  Derivative(b, s) = Rem(Dot(b, Powers(Rem(s))))
<1> DEFINE w == Powers(Rem(s))
<1>1. \A i \in Stage : w[i] = power(s % P, i + 1)
  BY DEF Powers, Rem
<1> HIDE DEF w
<1>2. [i \in Stage |-> b[i] * power(s % P, i + 1)] = [i \in Stage |-> b[i] * w[i]]
  BY <1>1
<1> QED BY <1>2 DEF Derivative, Dot, Rem, LastStage, w

(* What the two checked properties need of the invariant.                   *)
LEMMA RadauInterpolates == RadauTables => Interpolates
<1> SUFFICES ASSUME RadauTables, fitted # Unfitted, NEW n \in Stage
             PROVE  Derivative(tables.b, Node[n]) = fitted[n]
  BY DEF Interpolates
<1>1. tables.b \in Coefficients /\ Fits(tables.b, fitted, Stages)
  BY DEF RadauTables, Tables
<1>2. Node[n] \in Field /\ Node[n] \in Int /\ Rem(Node[n]) = Node[n]
  BY NodeIs, RemOfField
<1>3. Derivative(tables.b, Node[n]) = Rem(Dot(tables.b, Powers(Node[n])))
  BY <1>1, <1>2, DerivativeIs
<1>4. n < Stages
  BY StageIs DEF LastStage
<1> QED BY <1>1, <1>3, <1>4 DEF Fits
-----------------------------------------------------------------------------
(* What a prediction is.  First, powers of 1, of products and of sums.      *)
LEMMA PowersOfOne == \A i \in Stage : Powers(1)[i] = 1
<1> DEFINE T == {n \in Nat : n <= LastStage => Powers(1)[n] = 1}
<1>1. 1 \in Field
  BY FieldIs
<1>2. 0 \in T
  BY <1>1, PowersAre
<1>3. ASSUME NEW n \in T PROVE n + 1 \in T
  <2>1. SUFFICES ASSUME n + 1 <= LastStage PROVE Powers(1)[n + 1] = 1
    OBVIOUS
  <2>2. n \in 0..(LastStage - 1) /\ Powers(1)[n] = 1
    BY <2>1, StageIs
  <2>3. Powers(1)[n + 1] = Rem(Powers(1)[n] * 1)
    BY <1>1, <2>2, PowersAre
  <2>4. Powers(1)[n] * 1 = 1
    BY <2>2
  <2> QED BY <2>3, <2>4, FieldIs
<1>4. T \in SUBSET Nat
  OBVIOUS
<1>5. T = Nat
  <2> HIDE DEF T
  <2> QED BY <1>2, <1>3, <1>4, Induction
<1> QED BY <1>5, StageIs

LEMMA PowersOfProduct ==
  ASSUME NEW q \in Field, NEW s \in Field, NEW u, u = Rem(q * s)
  PROVE  \A i \in Stage : Like(Powers(u)[i], Powers(q)[i] * Powers(s)[i])
<1> DEFINE T == {n \in Nat : n <= LastStage => Like(Powers(u)[n], Powers(q)[n] * Powers(s)[n])}
<1>1. q \in Int /\ s \in Int /\ q * s \in Int
  BY FieldIs
<1>2. u \in Field /\ u \in Int /\ Like(u, q * s)
  <2> DEFINE x == q * s
  <2>1. x \in Int /\ u = Rem(x)
    BY <1>1
  <2> HIDE DEF x
  <2>2. u \in Field /\ u \in Int /\ Like(u, x)
    BY <2>1, RemIs, RemOfRem DEF Like
  <2> QED BY <2>2 DEF x
<1>3. 0 \in T
  <2>1. Powers(u)[0] = u /\ Powers(q)[0] = q /\ Powers(s)[0] = s
    BY <1>2, PowersAre
  <2> QED BY <1>2, <2>1
<1>4. ASSUME NEW n \in T PROVE n + 1 \in T
  <2>1. SUFFICES ASSUME n + 1 <= LastStage
                 PROVE  Like(Powers(u)[n + 1], Powers(q)[n + 1] * Powers(s)[n + 1])
    OBVIOUS
  <2>2. n \in 0..(LastStage - 1) /\ n \in 0..LastStage /\ n + 1 \in 0..LastStage
    BY <2>1, StageIs
  <2> DEFINE a == Powers(u)[n]
             b == Powers(q)[n]
             c == Powers(s)[n]
             A == Powers(u)[n + 1]
             B == Powers(q)[n + 1]
             C == Powers(s)[n + 1]
  <2>3. Like(a, b * c)
    BY <2>2
  <2>4. /\ a \in Int /\ b \in Int /\ c \in Int
        /\ A = Rem(a * u) /\ B = Rem(b * q) /\ C = Rem(c * s)
    BY <1>2, <2>2, PowersAre, FieldIs
  <2> HIDE DEF a, b, c, A, B, C
  <2> DEFINE au == a * u
             bq == b * q
             cs == c * s
  <2>5. au \in Int /\ bq \in Int /\ cs \in Int
    BY <1>1, <1>2, <2>4
  <2> HIDE DEF au, bq, cs
  <2>6. Like(A, au) /\ Like(B, bq) /\ Like(C, cs)
    BY <2>4, <2>5, RemIs, RemOfRem DEF Like, au, bq, cs
  <2>7. Like(au, (b * c) * (q * s))
    BY <1>2, <2>3, LikeOps DEF au
  <2>8. Like(B * C, bq * cs)
    BY <2>6, LikeOps
  <2>9. (b * c) * (q * s) = bq * cs
    <3>1. ASSUME NEW x \in Int, NEW y \in Int, NEW z \in Int, NEW t \in Int
          PROVE  (x * y) * (z * t) = (x * z) * (y * t)
      OBVIOUS
    <3> QED BY <1>1, <2>4, <3>1 DEF bq, cs
  <2>10. Like(A, B * C)
    BY <2>6, <2>7, <2>8, <2>9 DEF Like
  <2> QED BY <2>10 DEF A, B, C
<1>5. T \in SUBSET Nat
  OBVIOUS
<1>6. T = Nat
  <2> HIDE DEF T
  <2> QED BY <1>3, <1>4, <1>5, Induction
<1> QED BY <1>6, StageIs

(* est_b with zeros beyond the diagonal.                                    *)
Est == [n \in Stage |-> [j \in Stage |-> IF j <= n THEN est_b(n, j) ELSE 0]]

LEMMA EstRows ==
  /\ \A n \in Stage : Ints(Est[n], 0, LastStage)
  /\ \A n, j \in Stage : /\ Est[n][j] \in Int
                         /\ j <= n => Est[n][j] = est_b(n, j)
                         /\ ~(j <= n) => Est[n][j] = 0
<1>1. \A n, j \in Stage : Est[n][j] = IF j <= n THEN est_b(n, j) ELSE 0
  BY DEF Est
<1>2. \A n, j \in Stage : Est[n][j] \in Int
  BY <1>1, EstIs
<1> QED BY <1>1, <1>2, StageIs DEF Ints

(* The rows of est_b, times the powers of s: each goes on as the powers of  *)
(* 1 + s do, less 1.                                                        *)
LEMMA EstNext ==
  ASSUME NEW u \in Field, NEW n \in 0..(LastStage - 1)
  PROVE  Rem(Dot(Est[n + 1], Powers(u))) = Rem((u + 1) * Dot(Est[n], Powers(u)) + u)
<1> DEFINE c == Est[n]
           new == Est[n + 1]
           w == Powers(u)
           m == [i \in Stage |-> u]
           e == [i \in Stage |-> 1]
           r == u + 1
<1>1. n \in Stage /\ n + 1 \in Stage /\ n \in Int /\ u \in Int /\ n < LastStage
  BY StageIs, FieldIs
<1>2. /\ Ints(c, 0, LastStage) /\ Ints(new, 0, LastStage) /\ Ints(w, 0, LastStage)
      /\ w[0] = u /\ \A i \in 0..LastStage : w[i] \in Int
      /\ \A i \in 0..(LastStage - 1) : w[i + 1] = Rem(w[i] * u)
  BY <1>1, EstRows, PowersAre, FieldIs
<1>3. c[LastStage] = 0
  BY <1>1, EstRows, StageIs
<1>4. \A i \in Stage : m[i] = u /\ e[i] = 1 /\ m[i] + e[i] = r /\ i \in 0..LastStage
  BY <1>1, StageIs
<1>5. Ints(m, 0, LastStage) /\ Ints(e, 0, LastStage)
  BY <1>1, <1>4, StageIs DEF Ints
<1>6. new[0] = 1 + 1 * c[0] /\ e[0] = 1
  <2>1. 0 \in Stage /\ 0 <= n /\ 0 <= n + 1
    BY <1>1, StageIs
  <2>2. new[0] = est_b(n + 1, 0) /\ c[0] = est_b(n, 0) /\ c[0] \in Int
    BY <1>1, <2>1, EstRows
  <2>3. est_b(n + 1, 0) = est_b(n, 0) + 1
    BY EstIs
  <2> QED BY <2>1, <2>2, <2>3
<1>7. ASSUME NEW i \in 1..LastStage PROVE new[i] = c[i - 1] + 1 * c[i] /\ e[i] = 1
  <2>1. i \in Stage /\ i - 1 \in Stage /\ i >= 1 /\ i \in Int
    BY StageIs
  <2>2. c[i] \in Int /\ c[i - 1] \in Int
    BY <1>1, <2>1, EstRows
  <2>3. CASE i <= n
    <3>1. new[i] = est_b(n + 1, i) /\ c[i] = est_b(n, i) /\ c[i - 1] = est_b(n, i - 1)
      <4>1. i <= n + 1 /\ i - 1 <= n
        BY <1>1, <2>1, <2>3
      <4> QED BY <1>1, <2>1, <2>3, <4>1, EstRows
    <3>2. est_b(n + 1, i) = est_b(n, i - 1) + est_b(n, i)
      BY <2>1, <2>3, EstIs
    <3> QED BY <2>1, <2>2, <3>1, <3>2
  <2>4. CASE i = n + 1
    <3>1. new[i] = est_b(n + 1, i) /\ c[i] = 0 /\ c[i - 1] = est_b(n, i - 1)
      <4>1. i <= n + 1 /\ i - 1 <= n /\ ~(i <= n)
        BY <1>1, <2>1, <2>4
      <4> QED BY <1>1, <2>1, <4>1, EstRows
    <3>2. est_b(n + 1, i) = est_b(n, i - 1)
      BY <2>1, <2>4, EstIs
    <3> QED BY <2>1, <2>2, <3>1, <3>2
  <2>5. CASE i > n + 1
    <3>1. ~(i <= n + 1) /\ ~(i <= n) /\ ~(i - 1 <= n)
      BY <1>1, <2>1, <2>5
    <3>2. new[i] = 0 /\ c[i] = 0 /\ c[i - 1] = 0
      BY <1>1, <2>1, <3>1, EstRows
    <3> QED BY <2>1, <3>2
  <2> QED BY <1>1, <2>1, <2>3, <2>4, <2>5
<1> HIDE DEF c, new, m, e, w
<1>8. RowAfter(c, new, w, m, e, r, 1)
  <2>1. Rem(new[0]) = Rem(1 + e[0] * c[0])
    BY <1>6
  <2>2. \A i \in 1..LastStage : Rem(new[i]) = Rem(c[i - 1] + e[i] * c[i])
    BY <1>7
  <2>3. ASSUME NEW i \in 0..(LastStage - 1) PROVE Rem(w[i + 1]) = Rem(m[i] * w[i])
    <3>1. i \in Stage /\ i \in 0..LastStage
      BY StageIs
    <3>2. w[i + 1] = Rem(w[i] * u) /\ w[i] \in Int /\ m[i] = u
      BY <1>2, <1>4, <3>1
    <3>3. m[i] * w[i] = w[i] * u /\ w[i] * u \in Int
      BY <1>1, <3>2
    <3> QED BY <3>2, <3>3, RemOfRem
  <2>4. r \in Int /\ 1 \in Int
    BY <1>1
  <2> QED BY <1>2, <1>3, <1>4, <1>5, <2>1, <2>2, <2>3, <2>4 DEF RowAfter
<1> HIDE DEF r
<1>9. Rem(Dot(new, w)) = Rem(r * Dot(c, w) + 1 * w[0])
  BY <1>8, DotRow
<1>10. 1 * w[0] = u
  BY <1>1, <1>2
<1> QED BY <1>9, <1>10 DEF c, new, w, r

(* The binomial theorem, without the first power of 1.                      *)
LEMMA PowersOfSum ==
  ASSUME NEW u \in Field, NEW r, r = Rem(u + 1)
  PROVE  \A n \in Stage : Like(Powers(r)[n] - 1, Dot(Est[n], Powers(u)))
<1> DEFINE T == {n \in Nat : n <= LastStage => Like(Powers(r)[n] - 1, Dot(Est[n], Powers(u)))}
           v == u + 1
<1>1. u \in Int /\ v \in Int
  BY FieldIs
<1>2. r \in Field /\ r \in Int /\ Like(r, v)
  <2>1. r = Rem(v)
    OBVIOUS
  <2> HIDE DEF v
  <2> QED BY <1>1, <2>1, RemIs, RemOfRem DEF Like
<1>3. \A n \in Stage : Dot(Est[n], Powers(u)) \in Int
  BY EstRows, PowersAre, DotType
<1>4. 0 \in T
  <2>1. Powers(r)[0] = r /\ Powers(u)[0] = u
    BY <1>2, PowersAre
  <2>2. \A i \in Stage : Est[0][i] = IF i = 0 THEN 1 ELSE 0
    BY EstRows, EstIs, StageIs
  <2>3. Rem(Dot(Est[0], Powers(u))) = Rem(u)
    BY <2>1, <2>2, EstRows, PowersAre, StageIs, DotUnit
  <2> DEFINE one == 1
  <2>4. Like(one, one) /\ v - one = u
    BY <1>1 DEF Like
  <2> HIDE DEF one, v
  <2>5. Like(r - one, u)
    BY <1>2, <2>4, LikeOps
  <2>6. Like(r - one, Dot(Est[0], Powers(u)))
    BY <1>3, <2>3, <2>5, StageIs DEF Like
  <2> QED BY <2>1, <2>6 DEF one
<1>5. ASSUME NEW n \in T PROVE n + 1 \in T
  <2>1. SUFFICES ASSUME n + 1 <= LastStage
                 PROVE  Like(Powers(r)[n + 1] - 1, Dot(Est[n + 1], Powers(u)))
    OBVIOUS
  <2>2. /\ n \in 0..(LastStage - 1) /\ n \in 0..LastStage /\ n + 1 \in 0..LastStage /\ n \in Stage
        /\ n + 1 \in Stage
    BY <2>1, StageIs
  <2> DEFINE y == Powers(r)[n]
             Y == Powers(r)[n + 1]
             d == Dot(Est[n], Powers(u))
             D == Dot(Est[n + 1], Powers(u))
             one == 1
  <2>3. Like(y - one, d)
    BY <2>2
  <2>4. y \in Int /\ Y = Rem(y * r) /\ d \in Int /\ D \in Int /\ Rem(D) = Rem(v * d + u)
    BY <1>2, <1>3, <2>2, PowersAre, FieldIs, EstNext
  <2>5. Like(one, one) /\ Like(u, u) /\ Like(v, v) /\ one \in Int
    BY <1>1 DEF Like
  <2> HIDE DEF y, Y, d, D
  <2>6. v * (y - one) + u = y * v - one
    <3>1. v * (y - 1) = v * y - v /\ v * y = y * v /\ y * v \in Int
      BY <1>1, <2>4
    <3> QED BY <1>1, <3>1
  <2> HIDE DEF one, v
  <2>7. Like(Y, y * r)
    <3> DEFINE x == y * r
    <3>1. x \in Int /\ Y = Rem(x)
      BY <1>2, <2>4
    <3> HIDE DEF x
    <3>2. Like(Y, x)
      BY <3>1, RemIs, RemOfRem DEF Like
    <3> QED BY <3>2 DEF x
  <2>8. Like(y * r, y * v)
    <3>1. Like(y, y)
      BY <2>4 DEF Like
    <3> QED BY <1>2, <3>1, LikeOps
  <2>9. Like(Y, y * v)
    BY <2>7, <2>8 DEF Like
  <2>10. Like(Y - one, y * v - one)
    BY <2>5, <2>9, LikeOps
  <2>11. Like(v * (y - one), v * d)
    BY <2>3, <2>5, LikeOps
  <2>12. Like(v * (y - one) + u, v * d + u)
    BY <2>5, <2>11, LikeOps
  <2>13. Like(Y - one, D)
    BY <2>4, <2>6, <2>10, <2>12 DEF Like
  <2> QED BY <2>13 DEF one, Y, D
<1>6. T \in SUBSET Nat
  OBVIOUS
<1>7. T = Nat
  <2> HIDE DEF T
  <2> QED BY <1>4, <1>5, <1>6, Induction
<1> QED BY <1>7, StageIs

(* A sum of products, either way round.                                     *)
LEMMA DotSwap ==
  ASSUME NEW b, NEW w, Ints(b, 0, LastStage), Ints(w, 0, LastStage)
  PROVE  Dot(b, w) = Dot(w, b)
<1>1. \A i \in Stage : b[i] * w[i] = w[i] * b[i]
  BY StageIs DEF Ints
<1>2. [i \in Stage |-> b[i] * w[i]] = [i \in Stage |-> w[i] * b[i]]
  BY <1>1
<1> QED BY <1>2 DEF Dot

LEMMA EstSums ==
  ASSUME NEW b \in Coefficients, NEW i \in Stage
  PROVE  SumOver([j \in Stage |-> b[j] * Est[j][i]], 0, LastStage) = EstSum(b, i)
<1> DEFINE f == [j \in Stage |-> b[j] * Est[j][i]]
           g == [j \in Stage |-> b[j] * est_b(j, i)]
<1>1. i \in Int /\ 0 <= i /\ i <= LastStage + 1 /\ LastStage >= i - 1 /\ 0 \in Int
  BY StageIs
<1>2. \A j \in Stage : /\ f[j] = b[j] * Est[j][i] /\ g[j] = b[j] * est_b(j, i) /\ b[j] \in Int
                       /\ Est[j][i] \in Int
  BY EstRows, CoefficientsAre
<1> HIDE DEF f, g
<1>3. Ints(f, 0, LastStage)
  BY <1>2, StageIs DEF Ints
<1>4. ASSUME NEW j \in 0..(i - 1) PROVE f[j] = 0
  <2>1. j \in Stage /\ ~(i <= j)
    BY StageIs
  <2> QED BY <1>2, <2>1, EstRows
<1>5. ASSUME NEW j \in i..LastStage PROVE f[j] = g[j]
  <2>1. j \in Stage /\ i <= j
    BY StageIs
  <2> QED BY <1>2, <2>1, EstRows
<1>6. Ints(f, i, LastStage)
  BY <1>1, <1>3, StageIs DEF Ints
<1>7. SumOver(f, 0, LastStage) = SumOver(f, i, LastStage)
  BY <1>1, <1>3, <1>4, StageIs, SumFrom
<1>8. SumOver(f, i, LastStage) = SumOver(g, i, LastStage)
  BY <1>1, <1>5, <1>6, StageIs, SumEqual
<1> QED BY <1>7, <1>8 DEF f, g, EstSum

(* The extrapolated coefficients continue the polynomial of the others.     *)
LEMMA ExtrapolatedContinues ==
  ASSUME NEW b \in Coefficients, NEW q \in Field, NEW s \in Field, NEW r, r = Rem(1 + q * s)
  PROVE  Rem(Dot(extrapolated(b, q), Powers(s))) = Rem(Dot(b, Powers(r)) - Dot(b, Powers(1)))
<1> DEFINE u == Rem(q * s)
           w == Powers(u)
           T == [i \in Stage |-> SumOver([j \in Stage |-> b[j] * Est[j][i]], 0, LastStage)]
           old == extrapolated(b, q)
           ps == Powers(s)
           pq == Powers(q)
           pr == Powers(r)
           p1 == Powers(1)
           d == [j \in Stage |-> pr[j] + (-1) * p1[j]]
<1>1. /\ q \in Int /\ s \in Int /\ u \in Field /\ u \in Int /\ Like(u, q * s) /\ 1 \in Field
      /\ \A i \in Stage : i \in 0..LastStage
  <2> DEFINE x == q * s
  <2>1. q \in Int /\ s \in Int /\ x \in Int /\ 1 \in Field
    BY FieldIs
  <2> HIDE DEF x
  <2>2. Rem(x) \in Field /\ Rem(x) \in Int /\ Like(Rem(x), x)
    BY <2>1, RemIs, RemOfRem DEF Like
  <2> QED BY <2>1, <2>2, StageIs DEF x
<1> HIDE DEF u
<1>2. r = Rem(u + 1) /\ r \in Field
  <2> DEFINE one == 1
  <2>1. Like(one, one) /\ 1 + q * s = q * s + one /\ u + one \in Int
    BY <1>1 DEF Like
  <2>2. Like(u + one, q * s + one)
    <3> HIDE DEF one
    <3> QED BY <1>1, <2>1, LikeOps
  <2>3. Rem(u + one) \in Field
    <3> HIDE DEF one
    <3> QED BY <2>1, RemIs
  <2> QED BY <2>1, <2>2, <2>3 DEF Like
<1>3. /\ Ints(ps, 0, LastStage) /\ Ints(pr, 0, LastStage) /\ Ints(p1, 0, LastStage)
      /\ Ints(pq, 0, LastStage) /\ Ints(w, 0, LastStage) /\ Ints(b, 0, LastStage)
      /\ \A i \in Stage : p1[i] = 1
  BY <1>1, <1>2, PowersAre, PowersOfOne, CoefficientsAre
<1>4. \A j \in Stage : Like(pr[j] - 1, Dot(Est[j], w))
  BY <1>1, <1>2, PowersOfSum
<1>5. \A j \in Stage : d[j] = pr[j] + (-1) * p1[j]
  OBVIOUS
<1>6. \A i \in Stage : old[i] = Rem(pq[i] * EstSum(b, i)) /\ pq[i] \in Int /\ EstSum(b, i) \in Int
  <2>1. \A i \in Stage : pq[i] = power(q, i + 1)
    BY DEF Powers
  <2> QED BY <2>1, ExtrapolatedIs
<1>7. old \in Coefficients
  BY ExtrapolatedIs
<1>8. \A i \in Stage : T[i] = EstSum(b, i)
  BY EstSums
<1>9. \A i \in Stage : Like(w[i], pq[i] * ps[i])
  BY PowersOfProduct DEF u
<1> HIDE DEF ps, pq, pr, p1, w, d, old
<1>10. ASSUME NEW j \in Stage
       PROVE  d[j] = pr[j] - 1 /\ d[j] \in Int /\ Rem(d[j]) = Rem(Dot(Est[j], w))
  <2>1. pr[j] \in Int /\ p1[j] = 1
    BY <1>1, <1>3 DEF Ints
  <2>2. d[j] = pr[j] - 1
    BY <1>5, <2>1
  <2> QED BY <1>4, <2>1, <2>2 DEF Like
<1>11. Ints(d, 0, LastStage)
  BY <1>10, StageIs DEF Ints
<1>12. SumsOfSums(b, Est, w, d, T)
  BY <1>3, <1>10, <1>11, EstRows DEF SumsOfSums
<1> HIDE DEF T
<1>13. Rem(Dot(b, d)) = Rem(Dot(T, w)) /\ Ints(T, 0, LastStage)
  BY <1>12, Exchange
<1>14. Dot(b, d) = Dot(b, pr) - Dot(b, p1)
  <2>1. Dot(d, b) = Dot(pr, b) + (-1) * Dot(p1, b)
    <3>1. -1 \in Int
      OBVIOUS
    <3> QED BY <1>3, <1>5, <3>1, DotLinear
  <2>2. Dot(d, b) = Dot(b, d) /\ Dot(pr, b) = Dot(b, pr) /\ Dot(p1, b) = Dot(b, p1)
    BY <1>3, <1>11, DotSwap
  <2>3. Dot(b, pr) \in Int /\ Dot(b, p1) \in Int
    BY <1>3, DotType
  <2> QED BY <2>1, <2>2, <2>3
<1>15. Rem(Dot(old, ps)) = Rem(Dot(T, w))
  <2> DEFINE f == [i \in Stage |-> old[i] * ps[i]]
             g == [i \in Stage |-> T[i] * w[i]]
  <2>1. Ints(old, 0, LastStage)
    BY <1>7, CoefficientsAre
  <2>2. Ints(f, 0, LastStage) /\ Ints(g, 0, LastStage)
    BY <1>3, <1>13, <2>1, DotTerms
  <2>3. ASSUME NEW i \in 0..LastStage PROVE Rem(f[i]) = Rem(g[i])
    <3> DEFINE a == pq[i]
               e == EstSum(b, i)
               c == ps[i]
               o == old[i]
               x == w[i]
    <3>1. i \in Stage
      BY StageIs
    <3>2. f[i] = o * c /\ g[i] = e * x
      BY <1>8, <3>1
    <3>3. a \in Int /\ e \in Int /\ c \in Int /\ o = Rem(a * e) /\ Like(x, a * c)
      BY <1>3, <1>6, <1>9, <3>1 DEF Ints
    <3> HIDE DEF a, e, c, o, x, f, g
    <3>4. Like(o, a * e)
      <4> DEFINE z == a * e
      <4>1. z \in Int /\ o = Rem(z)
        BY <3>3
      <4> HIDE DEF z
      <4>2. Like(o, z)
        BY <4>1, RemIs, RemOfRem DEF Like
      <4> QED BY <4>2 DEF z
    <3>5. Like(c, c) /\ Like(e, e)
      BY <3>3 DEF Like
    <3>6. Like(o * c, (a * e) * c) /\ Like(e * x, e * (a * c))
      BY <3>3, <3>4, <3>5, LikeOps
    <3>7. (a * e) * c = e * (a * c)
      BY <3>3
    <3> QED BY <3>2, <3>6, <3>7 DEF Like
  <2> HIDE DEF f, g
  <2>4. Rem(SumOver(f, 0, LastStage)) = Rem(SumOver(g, 0, LastStage))
    BY <2>2, <2>3, StageIs, SumSame
  <2> QED BY <2>4 DEF f, g, Dot
<1> QED BY <1>13, <1>14, <1>15 DEF old, ps, pr, p1

LEMMA RadauPredicts == RadauTables => PredictsSame
<1> SUFFICES ASSUME RadauTables, NEW q \in Ratios, NEW s \in Field
             PROVE  Derivative(predict(tables, q).old, s)
                      = (Derivative(tables.b, 1 + q * s) - Derivative(tables.b, 1)) % P
  BY DEF PredictsSame
<1> DEFINE b == tables.b
           v == 1 + q * s
           r == Rem(v)
           A == Dot(b, Powers(r))
           B == Dot(b, Powers(1))
           old == extrapolated(b, q)
<1>1. tables \in Tables /\ b \in Coefficients
  BY DEF RadauTables, Tables
<1>2. q \in Field /\ q \in Int /\ s \in Int /\ v \in Int /\ 1 \in Field /\ 1 \in Int /\ Rem(1) = 1
  BY IAS15Assumption, FieldIs
<1>3. predict(tables, q).old = old /\ old \in Coefficients
  BY <1>1, <1>2, ExtrapolatedIs DEF predict
<1>4. Derivative(old, s) = Rem(Dot(old, Powers(s)))
  <2>1. Rem(s) = s
    BY RemOfField
  <2> QED BY <1>2, <1>3, <2>1, DerivativeIs
<1>5. Derivative(b, v) = Rem(A) /\ Derivative(b, 1) = Rem(B)
  BY <1>1, <1>2, DerivativeIs
<1>6. Rem(Dot(old, Powers(s))) = Rem(A - B)
  BY <1>1, <1>2, ExtrapolatedContinues
<1>7. A \in Int /\ B \in Int
  <2>1. r \in Field
    <3> HIDE DEF v
    <3> QED BY <1>2, RemIs
  <2> QED BY <1>1, <1>2, <2>1, CoefficientsAre, PowersAre, DotType
<1> HIDE DEF A, B, old, v, b
<1>8. Rem(A - B) = Rem(Rem(A) - Rem(B))
  <2> DEFINE ra == Rem(A)
             rb == Rem(B)
  <2>1. Like(A, ra) /\ Like(B, rb)
    BY <1>7, RemIs, RemOfRem DEF Like
  <2> HIDE DEF ra, rb
  <2>2. Like(A - B, ra - rb)
    BY <2>1, LikeOps
  <2> QED BY <2>2 DEF Like, ra, rb
<1>9. Derivative(old, s) = (Derivative(b, v) - Derivative(b, 1)) % P
  BY <1>4, <1>5, <1>6, <1>8 DEF Rem
<1> QED BY <1>3, <1>9 DEF b, v
=============================================================================
