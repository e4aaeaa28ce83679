---------------------------- MODULE LoopPartition ----------------------------
(***************************************************************************)
(* multi-thread/multi-thread.hpp: multi_threads_loop, which hands the      *)
(* indices 0..total_len-1 out to thread_num threads in equal slices and    *)
(* waits for them.  A thread runs task(begin, end), here a loop over the   *)
(* indices from begin up to end that does something for each of them.      *)
(***************************************************************************)
EXTENDS Integers

CONSTANTS
  Lengths,      (* the values of total_len                                  *)
  ThreadNums    (* the values of thread_num                                 *)

ASSUME LoopPartitionAssumption ==
  Lengths \subseteq Nat /\ ThreadNums \subseteq Nat \ {0}

VARIABLES
  total_len, thread_num,
  th_id,        (* how many threads the loop has started                    *)
  at,           (* for a thread that was started, the index it does next    *)
  end,          (* where it ends                                            *)
  joined,       (* how many threads were joined                             *)
  done          (* history: how often the task was done for an index        *)

loopVars == <<total_len, thread_num, th_id, at, end, joined, done>>

len_pth == total_len \div thread_num

Threads == 0..(thread_num - 1)

LoopInit ==
  /\ total_len \in Lengths /\ thread_num \in ThreadNums
  /\ th_id = 0 /\ joined = 0
  /\ at = [t \in Threads |-> 0] /\ end = [t \in Threads |-> 0]
  /\ done = [i \in 0..(total_len - 1) |-> 0]

Begin(t) == t * len_pth

(* Mutant of End: the last slice is not stretched to the end.               *)
EndOfSlice(t) == Begin(t) + len_pth

(* A slice that another one of the same length would not fit behind goes to *)
(* the end.                                                                 *)
End(t) ==
  LET slice == Begin(t) + len_pth
  IN  IF slice + len_pth > total_len THEN total_len ELSE slice

Start ==
  /\ th_id < thread_num
  /\ at' = [at EXCEPT ![th_id] = Begin(th_id)]
  /\ end' = [end EXCEPT ![th_id] = End(th_id)]
  /\ th_id' = th_id + 1
  /\ UNCHANGED <<total_len, thread_num, joined, done>>

(* A thread that was started does one index.                                *)
Work(t) ==
  /\ t < th_id
  /\ at[t] < end[t]
  /\ done' = [done EXCEPT ![at[t]] = @ + 1]
  /\ at' = [at EXCEPT ![t] = @ + 1]
  /\ UNCHANGED <<total_len, thread_num, th_id, end, joined>>

Finished(t) == at[t] >= end[t]

Join ==
  /\ th_id = thread_num
  /\ joined < thread_num
  /\ Finished(joined)
  /\ joined' = joined + 1
  /\ UNCHANGED <<total_len, thread_num, th_id, at, end, done>>

LoopNext == Start \/ Join \/ \E t \in Threads : Work(t)

LoopSpec == LoopInit /\ [][LoopNext]_loopVars
-----------------------------------------------------------------------------
Returned == joined = thread_num

(* Nothing is done after the call has returned: what its caller does next   *)
(* with the indices does not meet a thread.                                 *)
ReturnsLast == [][Returned => UNCHANGED done]_loopVars

(* Every index is done once before the call returns if the rest of the      *)
(* division is smaller than a slice; otherwise no thread does the rest.     *)
RestIsLost ==
  Returned =>
    \A i \in DOMAIN done :
      done[i] = IF i >= thread_num * len_pth /\ total_len % thread_num >= len_pth
                THEN 0 ELSE 1
=============================================================================
