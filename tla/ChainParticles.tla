---------------------------- MODULE ChainParticles ----------------------------
(***************************************************************************)
(* The particles of a chain, as particle-system/chain.hpp numbers them.    *)
(***************************************************************************)
EXTENDS Integers

CONSTANT N      (* pos.size(), the number of particles                      *)

ASSUME ChainAssumption == N \in Nat /\ N >= 2

Particles == 0..(N - 1)
=============================================================================
