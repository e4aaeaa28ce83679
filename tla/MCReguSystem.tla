---------------------------- MODULE MCReguSystem ----------------------------
(***************************************************************************)
(* Values for the constants of ReguSystem: a force between neighbours, an  *)
(* external one and a drag, energies of either sign, and two triples of    *)
(* particles.                                                              *)
(***************************************************************************)
EXTENDS ReguSystem, Folds

MCNewtonian(p) == [i \in Particles |-> ((p[(i + 1) % N] - p[i]) % 5) - 2]

MCAcc(p, v) == [i \in Particles |-> MCNewtonian(p)[i] + ((p[0] - p[N - 1]) % 3) - (v[i] % 4)]

Total(f(_)) == MapThenFoldSet(+, 0, f, LAMBDA s : CHOOSE i \in s : TRUE, Particles)

MCKinetic(v) == Total(LAMBDA i : (i + 1) * v[i] * v[i]) % 7

MCPotential(p) == (Total(LAMBDA i : (i + 1) * p[i]) % 5) - 7

MCContract(v, a) == Total(LAMBDA i : (i + 1) * v[i] * a[i])

MCSlow(sc) == (sc % 3) - 1

MCStarts ==
  {[pos |-> [i \in Particles |-> i * i - 3], vel |-> [i \in Particles |-> 2 - i]],
   [pos |-> [i \in Particles |-> 5 - 3 * i], vel |-> [i \in Particles |-> i]]}

MCSteps == {2, -4}
=============================================================================
