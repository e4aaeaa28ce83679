------------------------------ MODULE ChainIndex ------------------------------
(***************************************************************************)
(* particle-system/chain.hpp: Chain::calc_chain_index, which orders the    *)
(* particles into a chain by attaching near ones to its two ends.          *)
(*                                                                         *)
(* The pairs of particles come sorted by their distance.  All that the     *)
(* algorithm uses of the distances is this order, and ties and rounding    *)
(* leave any order possible.  The loop over the pairs is one action per    *)
(* pass through its body.                                                  *)
(***************************************************************************)
EXTENDS ChainParticles, Sequences

(* The nodes (i, j) of create_distances_array.                              *)
Pairs == {p \in Particles \X Particles : p[1] < p[2]}

DistSize == (N * (N - 1)) \div 2

Orders ==
  {o \in [0..(DistSize - 1) -> Pairs] :
     \A p \in Pairs : \E i \in 0..(DistSize - 1) : o[i] = p}

VARIABLES
  dist,         (* the pairs, the nearest first                             *)
  avail,        (* their flags avail                                        *)
  list,         (* idx_list                                                 *)
  head, tail,   (* the ends of the chain                                    *)
  k,            (* the pair the loop is at                                  *)
  scan          (* "scanning" or "done"                                     *)

indexVars == <<dist, avail, list, head, tail, k, scan>>

Listed == {list[i] : i \in DOMAIN list}

IndexInit ==
  /\ dist \in Orders
  /\ head = dist[0][1] /\ tail = dist[0][2]
  /\ avail = [i \in 0..(DistSize - 1) |-> i # 0]
  /\ list = <<head, tail>>
  /\ k = 1
  /\ scan = "scanning"

-----------------------------------------------------------------------------
Joins(p, end) == end \in {p[1], p[2]}

Other(p, end) == IF p[1] = end THEN p[2] ELSE p[1]

NotInList(x) == x \notin Listed

(* Mutant of AfterAdd: k is set to 2 before the loop increments it.         *)
RestartLate == IF Len(list) = N THEN DistSize ELSE 3

(* Mutant of AfterAdd: the particles are counted, from 2, and compared with *)
(* the number of links.                                                     *)
StopShort == IF Len(list) + 1 = N - 1 THEN DistSize ELSE 2

(* After an attachment k is set to 1 and then incremented.  chained_num     *)
(* counts the links and is compared with the number of particles.           *)
AfterAdd == IF Len(list) = N THEN DistSize ELSE 2

NewHead(x) == head' = x

Scanning == scan = "scanning" /\ k < DistSize

(* The pair joins the head to a particle that is not in the list.           *)
AddFront ==
  /\ Scanning
  /\ avail[k] /\ Joins(dist[k], head)
  /\ LET x == Other(dist[k], head)
     IN  /\ NotInList(x)
         /\ list' = <<x>> \o list
         /\ NewHead(x)
  /\ avail' = [avail EXCEPT ![k] = FALSE]
  /\ k' = AfterAdd
  /\ UNCHANGED <<dist, tail, scan>>

(* The pair does not join the head but the tail.                            *)
AddBack ==
  /\ Scanning
  /\ avail[k] /\ ~Joins(dist[k], head) /\ Joins(dist[k], tail)
  /\ LET x == Other(dist[k], tail)
     IN  /\ NotInList(x)
         /\ list' = Append(list, x)
         /\ tail' = x
  /\ avail' = [avail EXCEPT ![k] = FALSE]
  /\ k' = AfterAdd
  /\ UNCHANGED <<dist, head, scan>>

(* The pair joins an end to a particle that is in the list.                 *)
Discard ==
  /\ Scanning
  /\ avail[k]
  /\ \/ Joins(dist[k], head) /\ ~NotInList(Other(dist[k], head))
     \/ /\ ~Joins(dist[k], head)
        /\ Joins(dist[k], tail) /\ ~NotInList(Other(dist[k], tail))
  /\ avail' = [avail EXCEPT ![k] = FALSE]
  /\ k' = k + 1
  /\ UNCHANGED <<dist, list, head, tail, scan>>

(* Mutant of AfterPass: the scan starts again whatever try_add returned.    *)
StartAgain == IF avail[k] THEN 2 ELSE k + 1

AfterPass == k + 1

(* The pair was used before or joins neither end.                           *)
Pass ==
  /\ Scanning
  /\ ~avail[k] \/ (~Joins(dist[k], head) /\ ~Joins(dist[k], tail))
  /\ k' = AfterPass
  /\ UNCHANGED <<dist, avail, list, head, tail, scan>>

Finish ==
  /\ scan = "scanning" /\ k >= DistSize
  /\ scan' = "done"
  /\ UNCHANGED <<dist, avail, list, head, tail, k>>

IndexNext == AddFront \/ AddBack \/ Discard \/ Pass \/ Finish

IndexSpec == IndexInit /\ [][IndexNext]_indexVars /\ WF_indexVars(IndexNext)
-----------------------------------------------------------------------------
(* The types.                                                               *)
IndexTypeOK ==
  /\ dist \in Orders
  /\ avail \in [0..(DistSize - 1) -> BOOLEAN]
  /\ list \in Seq(Particles)
  /\ head \in Particles /\ tail \in Particles
  /\ k \in 1..DistSize
  /\ scan \in {"scanning", "done"}

(* head and tail are the ends of the list, which holds no particle twice.   *)
ChainShape ==
  /\ Len(list) >= 2
  /\ head = list[1] /\ tail = list[Len(list)]
  /\ \A i, j \in 1..Len(list) : list[i] = list[j] => i = j

(* The index holds every particle, although each new scan begins at the     *)
(* third pair and never comes back to the second one.                       *)
Complete == scan = "done" => Listed = Particles

(* A pair that would attach a particle to an end of the chain.              *)
Attachable(i) ==
  \/ Joins(dist[i], head) /\ Other(dist[i], head) \notin Listed
  \/ Joins(dist[i], tail) /\ Other(dist[i], tail) \notin Listed

(* A particle is attached by the nearest pair that could attach one; the    *)
(* only pair that is passed over is the second nearest of all, which is     *)
(* looked at once.                                                          *)
NearestFirst ==
  [][list' # list => \A i \in 0..(k - 1) : Attachable(i) => i = 1]_indexVars

(* How much of the scan is left at most: once through the pairs for every   *)
(* particle that is not in the list yet, and what this time has not reached.*)
Left ==
  (N - Len(list)) * DistSize + (DistSize - k) + (IF scan = "scanning" THEN 1 ELSE 0)

(* Every pass leaves less of the scan, from (N - 1) * DistSize down: what   *)
(* is lost by starting again is won by the particle that was attached.      *)
ScanShrinks ==
  [][Left' < Left /\ Left \in 1..((N - 1) * DistSize) /\ Left' >= 0]_indexVars

(* The loop ends, although it starts again after every attachment.          *)
Terminates == <>(scan = "done")
=============================================================================
