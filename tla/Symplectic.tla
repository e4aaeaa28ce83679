----------------------------- MODULE Symplectic -----------------------------
(***************************************************************************)
(* integrator/symplectic: the leapfrogs and the symplectic methods of      *)
(* order 4 to 10, as ConstOdeIterator uses them.  A method is a sequence   *)
(* of drifts and kicks by fractions of the step; the fractions are the     *)
(* code's, in units of 10^-8.  The system a step moves is one position and *)
(* one velocity modulo a prime, where every fraction is exact, so that     *)
(* only a step that is really undone comes back to where it started.       *)
(***************************************************************************)
EXTENDS Sequences, FiniteSum

CONSTANTS
  Modulus,          (* coordinates are numbers modulo this                    *)
  Acceleration(_),  (* the acceleration at a position                         *)
  SymStarts         (* the records [pos, vel] a step may start from           *)

ASSUME SymplecticAssumption ==
  /\ Modulus \in 2..1000
  /\ SymStarts \subseteq [pos : 0..(Modulus - 1), vel : 0..(Modulus - 1)]
  /\ \A x \in 0..(Modulus - 1) : Acceleration(x) \in Int

VARIABLES
  symMethod,     (* the integrator_ of the ConstOdeIterator, never changed   *)
  symPc,         (* "before", "step" or "undoing", of a step and the one back *)
  symAt,         (* the calls of drift and kick made in this step            *)
  particle,      (* the position and the velocity                            *)
  symStart,      (* what they were at the start of the step                  *)
  symMoved       (* the sums of the fractions drifted and kicked             *)

symVars == <<symMethod, symPc, symAt, particle, symStart, symMoved>>

Unit == 100000000

-----------------------------------------------------------------------------
(* The fractions of the methods.                                            *)

Symplectic2nd ==
  <<50000000, 100000000, 50000000>>

LeapFrogKDK ==
  <<50000000, 100000000, 50000000>>

Symplectic4th ==
  <<67560360, 135120719, -17560360, -170241438, -17560360, 135120719,
    67560360>>

Symplectic6th ==
  <<39225681, 78451361, 51004341, 23557321, -47105339, -117767998, 6875317,
    131518632, 6875317, -117767998, -47105339, 23557321, 51004341,
    78451361, 39225681>>

(* Mutant of Symplectic8th: two digits of one fraction exchanged.           *)
Symplectic8thTypo ==
  <<52121310, 104242621, 143131626, 182020631, 98897312, 15773993,
    129888363, 244002733, 121642872, -716989, -122708086, -244699182,
    -203140778, -161582374, -196832618, -178082863, -169832618, -161582374,
    -203140778, -244699182, -122708086, -716989, 121642872, 244002733,
    129888363, 15773993, 98897312, 182020631, 143131626, 104242621,
    52121310>>

Symplectic8th ==
  <<52121310, 104242621, 143131626, 182020631, 98897312, 15773993,
    129888363, 244002733, 121642872, -716989, -122708086, -244699182,
    -203140778, -161582374, -169832618, -178082863, -169832618, -161582374,
    -203140778, -244699182, -122708086, -716989, 121642872, 244002733,
    129888363, 15773993, 98897312, 182020631, 143131626, 104242621,
    52121310>>

Symplectic10th ==
  <<30610967, 61221934, -9401270, -80024474, -66002636, -51980798,
    -15240398, 21500002, -11750569, -45001141, 22250778, 89502697,
    51288848, 13074999, 33095796, 53116593, -6005019, -65126632, -76956706,
    -88786781, -7687223, 73412335, 42477287, 11542239, 43160892, 74779546,
    5543486, -63692573, -19288621, 25115331, 33904387, 42693444, 33904387,
    25115331, -19288621, -63692573, 5543486, 74779546, 43160892, 11542239,
    42477287, 73412335, -7687223, -88786781, -76956706, -65126632,
    -6005019, 53116593, 33095796, 13074999, 51288848, 89502697, 22250778,
    -45001141, -11750569, 21500002, -15240398, -51980798, -66002636,
    -80024474, -9401270, 61221934, 30610967>>

Methods == {"2nd", "KDK", "4th", "6th", "8th", "10th"}

(* The alternating fractions of a method.                                   *)
Fractions(m) ==
  CASE m = "2nd"  -> Symplectic2nd
    [] m = "KDK"  -> LeapFrogKDK
    [] m = "4th"  -> Symplectic4th
    [] m = "6th"  -> Symplectic6th
    [] m = "8th"  -> Symplectic8th
    [] m = "10th" -> Symplectic10th

(* The constant order of the method's class.                                *)
Order(m) ==
  CASE m \in {"2nd", "KDK"} -> 2
    [] m = "4th"  -> 4
    [] m = "6th"  -> 6
    [] m = "8th"  -> 8
    [] m = "10th" -> 10

IsDrift(m, k) == (k % 2 = 1) = (m # "KDK")

-----------------------------------------------------------------------------
SymInit ==
  /\ symMethod \in Methods
  /\ symPc = "before"
  /\ symAt = 0
  /\ particle \in SymStarts
  /\ symStart = particle
  /\ symMoved = [drift |-> 0, kick |-> 0]

SymBegin ==
  /\ symPc = "before"
  /\ symPc' = "step"
  /\ symAt' = 0
  /\ symStart' = particle
  /\ symMoved' = [drift |-> 0, kick |-> 0]
  /\ UNCHANGED <<symMethod, particle>>

Length == Len(Fractions(symMethod))

(* x + h * d                                                                *)
Shifted(x, d, h) == (x + (h % Modulus) * d) % Modulus

(* The particle after a drift or a kick by h.                               *)
MovedBy(isDrift, h, p) ==
  IF isDrift THEN [pos |-> Shifted(p.pos, p.vel, h), vel |-> p.vel]
             ELSE [pos |-> p.pos, vel |-> Shifted(p.vel, Acceleration(p.pos), h)]

(* The next drift or kick, of a step by 1 or, undoing it, by -1.            *)
SymMove ==
  /\ symPc \in {"step", "undoing"} /\ symAt < Length
  /\ LET fraction == Fractions(symMethod)[symAt + 1]
         h == IF symPc = "undoing" THEN -fraction ELSE fraction
         isDrift == IsDrift(symMethod, symAt + 1)
     IN  /\ particle' = MovedBy(isDrift, h, particle)
         /\ symMoved' = IF isDrift THEN [symMoved EXCEPT !.drift = @ + h]
                                   ELSE [symMoved EXCEPT !.kick = @ + h]
  /\ symAt' = symAt + 1
  /\ UNCHANGED <<symMethod, symPc, symStart>>

(* The step is returned as it was given; another one goes back.             *)
SymReturn ==
  /\ symPc \in {"step", "undoing"} /\ symAt = Length
  /\ symPc' = IF symPc = "step" THEN "undoing" ELSE "before"
  /\ symAt' = 0
  /\ UNCHANGED <<symMethod, particle, symStart, symMoved>>

SymNext == SymBegin \/ SymMove \/ SymReturn

-----------------------------------------------------------------------------
(* The fractions of the drifts in a method of leapfrogs, of the kicks in    *)
(* LeapFrogKDK: those at the ends.                                          *)
Outer(m) ==
  LET f == Fractions(m) IN [k \in 1..(Len(f) \div 2 + 1) |-> f[2 * k - 1]]

Inner(m) ==
  LET f == Fractions(m) IN [k \in 1..(Len(f) \div 2) |-> f[2 * k]]

Near(x, y, slack) == x - y \in -slack..slack

(* The product of two numbers in units of 10^-4.                            *)
Product(x, y) == ((x \div 100) * y) \div 100 + ((x % 100) * y) \div 10000

Power(x, n) ==
  LET power[k \in 0..n] == IF k = 0 THEN 10000 ELSE Product(power[k - 1], x)
  IN  power[n]

(* A method is leapfrogs one after the other: each outer fraction is half   *)
(* of the inner ones beside it.  A method of order p has the sums of the    *)
(* odd powers below p of the leapfrogs' lengths 0.                          *)
IsMadeOfLeapfrogs(m) ==
  LET lengths == Inner(m)
      half(k) == IF k \in DOMAIN lengths THEN lengths[k] ELSE 0
      coarse == [k \in DOMAIN lengths |-> (lengths[k] + 5000) \div 10000]
  IN  /\ \A k \in DOMAIN Outer(m) :
           Near(2 * Outer(m)[k], half(k - 1) + half(k), 2)
      /\ \A p \in {3, 5, 7, 9} : p < Order(m) =>
           Near(SumOver([k \in DOMAIN lengths |-> Power(coarse[k], p)], 1, Len(lengths)),
                0, 2000)

(* A step is undone by the step back.                                       *)
Reversible == symPc = "before" => particle = symStart

(* Every step drifts and kicks by the whole step, is made of leapfrogs      *)
(* whose lengths give it the order its class declares, and is undone by the *)
(* step back, because the sequence is the same from both ends: one fraction *)
(* mistyped among the 122 and one of them fails.                            *)
WholeAndReversible ==
  /\ Reversible
  /\ symPc = "step" /\ symAt = Length =>
       /\ Near(symMoved.drift, Unit, Length) /\ Near(symMoved.kick, Unit, Length)
       /\ IsMadeOfLeapfrogs(symMethod)
=============================================================================
