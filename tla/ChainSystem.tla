----------------------------- MODULE ChainSystem -----------------------------
(***************************************************************************)
(* particle-system/chain-system.hpp and the coordinate transformations of  *)
(* chain.hpp: ChainSystem, which integrates the differences between        *)
(* neighbours along a chain of particles and keeps the Cartesian           *)
(* coordinates beside them.  The actions are those of SimpleSystem;        *)
(* ARchainSystem, which extends this module, is shown to implement its     *)
(* regularized counterpart.                                                *)
(*                                                                         *)
(* post_iter_process may find another chain.  The index it computes        *)
(* depends on the positions (it is always a permutation, as ChainIndex and *)
(* its proofs show); here it may be any permutation.                       *)
(***************************************************************************)
EXTENDS ChainParticles, Functions

CONSTANTS Acc(_, _), VelDeps, Steps, Starts, MaxOps, MaxIters
                                                   (* as in SimpleSystem    *)

VARIABLES
  cart,         (* time, positions and velocities in Cartesian coordinates  *)
  chain,        (* chain_pos_, chain_vel_ and chain_aux_vel_, no time       *)
  index,        (* index_                                                   *)
  increment,    (* increment_, in chain coordinates                         *)
  collecting,   (* sync_increment_                                          *)
  y,            (* the iterator's array, in chain coordinates               *)
  pc, ops, iters, velDep,
  yIndex,       (* history: the index that y was written with               *)
  incIndex      (* history: the index the increment was cleared with        *)

vars == <<cart, chain, index, increment, collecting, y, pc, ops, iters, velDep,
          yIndex, incIndex>>

Last == N - 1

Vector == [Particles -> Int]

ASSUME ChainSystemAssumption ==
  /\ VelDeps \subseteq BOOLEAN
  /\ Steps \subseteq Int /\ \A h \in Steps : h % 2 = 0
  /\ \A s \in Starts : s.pos \in Vector /\ s.vel \in Vector
  /\ MaxOps \in Nat /\ MaxIters \in Nat

Zero == [i \in Particles |-> 0]

Advance(v, a, h) == [i \in Particles |-> v[i] + h * a[i]]

NoState == [time |-> 0, pos |-> Zero, vel |-> Zero, aux |-> Zero]

Plus(s, d) ==
  [time |-> s.time + d.time, pos |-> Advance(s.pos, d.pos, 1),
   vel |-> Advance(s.vel, d.vel, 1), aux |-> Advance(s.aux, d.aux, 1)]

Indices == Bijection(Particles, Particles)

-----------------------------------------------------------------------------
(* Chain: the transformations.  A vector in chain coordinates holds the     *)
(* links in 0..N-2 and the first particle of the chain in N-1.              *)

ToChain(c, idx) ==
  [i \in Particles |-> IF i = Last THEN c[idx[0]] ELSE c[idx[i + 1]] - c[idx[i]]]

PlaceOf(p, idx) == CHOOSE i \in Particles : idx[i] = p

(* What a loop adds up: base, and the n links from the one at first.        *)
Summed(base, ch, first, n) ==
  LET sum[i \in 0..n] == IF i = 0 THEN base ELSE sum[i - 1] + ch[first + i - 1]
  IN  sum[n]

ToCartesian(ch, idx) ==
  [p \in Particles |-> Summed(ch[Last], ch, 0, PlaceOf(p, idx))]

(* A whole state in the one or the other coordinates.                       *)
InChain(s, idx) ==
  [time |-> s.time, pos |-> ToChain(s.pos, idx), vel |-> ToChain(s.vel, idx),
   aux |-> ToChain(s.aux, idx)]

InCartesian(s, idx) ==
  [time |-> s.time, pos |-> ToCartesian(s.pos, idx), vel |-> ToCartesian(s.vel, idx),
   aux |-> ToCartesian(s.aux, idx)]

(* get_new_node: the link between the places first and last of the chain.   *)
NewNode(ch, first, last) ==
  IF first < last THEN Summed(0, ch, first, last - first)
                  ELSE -Summed(0, ch, last, first - last)

UpdateChain(ch, c, idx, new) ==
  [i \in Particles |->
     IF i = Last THEN c[new[0]]
     ELSE NewNode(ch, PlaceOf(new[i], idx), PlaceOf(new[i + 1], idx))]

-----------------------------------------------------------------------------
Init ==
  /\ velDep \in VelDeps
  /\ \E s \in Starts :
       cart = [time |-> 0, pos |-> s.pos, vel |-> s.vel,
               aux |-> IF velDep THEN s.vel ELSE Zero]
  /\ index \in Indices
  /\ chain = InChain(cart, index)
  /\ increment = NoState /\ incIndex = index
  /\ collecting = FALSE
  /\ y = NoState /\ yIndex = index
  /\ pc = "between"
  /\ ops = 0 /\ iters = 0

(* Mutant of RefreshAux: the auxiliary velocity is left from the last step. *)
KeepAux == UNCHANGED <<cart, chain>>

RefreshAux ==
  /\ cart' = [cart EXCEPT !.aux = IF velDep THEN cart.vel ELSE @]
  /\ chain' = [chain EXCEPT !.aux = IF velDep THEN chain.vel ELSE @]

PreIter ==
  /\ pc = "between"
  /\ iters < MaxIters
  /\ RefreshAux
  /\ pc' = "prepared"
  /\ iters' = iters + 1
  /\ UNCHANGED <<index, increment, collecting, y, ops, velDep, yIndex, incIndex>>

Write ==
  /\ pc = "prepared"
  /\ y' = [chain EXCEPT !.time = cart.time]
  /\ yIndex' = index
  /\ collecting' = TRUE
  /\ pc' = "written"
  /\ UNCHANGED <<cart, chain, index, increment, ops, iters, velDep, incIndex>>

ClearIncrement ==
  /\ pc = "written"
  /\ increment' = NoState
  /\ incIndex' = index
  /\ pc' = "moving"
  /\ ops' = 0
  /\ UNCHANGED <<cart, chain, index, collecting, y, iters, velDep, yIndex>>

(* The increment by d, in chain coordinates, if it is collected.            *)
Sync(d) == increment' = IF collecting THEN Plus(increment, d) ELSE increment

(* chain_advance moves the chain positions along the chain velocities and   *)
(* derives the Cartesian positions from them.                               *)
Drift(h) ==
  /\ pc = "moving"
  /\ ops < MaxOps
  /\ chain' = [chain EXCEPT !.pos = Advance(@, chain.vel, h)]
  /\ cart' = [cart EXCEPT !.time = @ + h, !.pos = ToCartesian(chain'.pos, index)]
  /\ Sync([NoState EXCEPT !.time = h, !.pos = Advance(Zero, chain.vel, h)])
  /\ ops' = ops + 1
  /\ UNCHANGED <<index, collecting, y, pc, iters, velDep, yIndex, incIndex>>

(* The accelerations in chain coordinates.                                  *)
ChainAcc(v) == ToChain(Acc(cart.pos, v), index)

(* The kicks of the velocity and of the auxiliary velocity.                 *)
KickVel(a, h) ==
  /\ chain' = [chain EXCEPT !.vel = Advance(@, a, h)]
  /\ cart' = [cart EXCEPT !.vel = ToCartesian(chain'.vel, index)]
  /\ Sync([NoState EXCEPT !.vel = Advance(Zero, a, h)])

KickBoth(h) ==
  LET half == h \div 2
      a1 == ChainAcc(cart.aux)
      v1 == Advance(chain.vel, a1, half)
      a2 == ChainAcc(ToCartesian(v1, index))
      aux == Advance(chain.aux, a2, h)
      a3 == ChainAcc(ToCartesian(aux, index))
      vel == Advance(v1, a3, half)
  IN  /\ chain' = [chain EXCEPT !.vel = vel, !.aux = aux]
      /\ cart' = [cart EXCEPT !.vel = ToCartesian(vel, index),
                              !.aux = ToCartesian(aux, index)]
      /\ Sync([NoState EXCEPT !.vel = Advance(Advance(Zero, a1, half), a3, half),
                              !.aux = Advance(Zero, a2, h)])

Kick(h) ==
  /\ pc = "moving"
  /\ ops < MaxOps
  /\ IF velDep THEN KickBoth(h) ELSE KickVel(ChainAcc(Zero), h)
  /\ ops' = ops + 1
  /\ UNCHANGED <<index, collecting, y, pc, iters, velDep, yIndex, incIndex>>

(* read_from_scalar_array.                                                  *)
Read(s) ==
  /\ chain' = [s EXCEPT !.time = chain.time]
  /\ cart' = InCartesian(s, index)

ReadBack ==
  /\ pc = "moving"
  /\ ops = MaxOps
  /\ Read(y)
  /\ pc' = "written"
  /\ UNCHANGED <<index, increment, collecting, y, ops, iters, velDep, yIndex,
                 incIndex>>

Accept ==
  /\ pc = "moving"
  /\ ops = MaxOps
  /\ y' = Plus(y, increment)
  /\ Read(y')
  /\ collecting' = FALSE
  /\ pc' = "accepted"
  /\ UNCHANGED <<index, increment, ops, iters, velDep, yIndex, incIndex>>

(* Positions and velocities move to the new chain, the auxiliary velocity   *)
(* stays in the old one.                                                    *)
Reindex(new) ==
  /\ chain' = [chain EXCEPT !.pos = UpdateChain(@, cart.pos, index, new),
                            !.vel = UpdateChain(@, cart.vel, index, new)]
  /\ cart' = [cart EXCEPT !.pos = ToCartesian(chain'.pos, new),
                          !.vel = ToCartesian(chain'.vel, new)]

PostIter ==
  /\ pc = "accepted"
  /\ index' \in Indices
  /\ IF index' # index THEN Reindex(index') ELSE UNCHANGED <<cart, chain>>
  /\ pc' = "between"
  /\ UNCHANGED <<increment, collecting, y, ops, iters, velDep, yIndex, incIndex>>

Next ==
  \/ PreIter \/ Write \/ ClearIncrement
  \/ \E h \in Steps : Drift(h) \/ Kick(h)
  \/ ReadBack \/ Accept \/ PostIter

Spec == Init /\ [][Next]_vars
-----------------------------------------------------------------------------
(* The chain coordinates and the Cartesian ones are two views of one state; *)
(* the auxiliary velocity's are while it is used.                           *)
TwoViews ==
  /\ chain.pos = ToChain(cart.pos, index) /\ cart.pos = ToCartesian(chain.pos, index)
  /\ chain.vel = ToChain(cart.vel, index) /\ cart.vel = ToCartesian(chain.vel, index)
  /\ pc # "between" =>
       chain.aux = ToChain(cart.aux, index) /\ cart.aux = ToCartesian(chain.aux, index)
=============================================================================
