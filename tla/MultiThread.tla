----------------------------- MODULE MultiThread -----------------------------
(***************************************************************************)
(* multi-thread/multi-thread.hpp: the two ways to work with several        *)
(* threads, a loop cut into slices or the same job several times, the jobs *)
(* sharing a ConcurrentFile.  A program uses one of them at a time.        *)
(***************************************************************************)
EXTENDS LoopPartition, ConcurrentFile

VARIABLE used      (* "loop" or "jobs"                                      *)

MultiInit == used \in {"loop", "jobs"} /\ LoopInit /\ FileInit

MultiNext ==
  \/ used = "loop" /\ LoopNext /\ UNCHANGED <<used, fileVars>>
  \/ used = "jobs" /\ FileNext /\ UNCHANGED <<used, loopVars>>

(* What is not used has one value.                                          *)
OneInit ==
  /\ MultiInit
  /\ used = "loop" => mode = "out"
  /\ used = "jobs" =>
       /\ total_len = CHOOSE n \in Lengths : TRUE
       /\ thread_num = CHOOSE n \in ThreadNums : TRUE

MultiSpec == OneInit /\ [][MultiNext]_<<used, loopVars, fileVars>>
=============================================================================
