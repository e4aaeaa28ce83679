----------------------------- MODULE OrderedLog -----------------------------
(***************************************************************************)
(* What an asynchronous output stream promises: records are written once,  *)
(* in the order in which they were offered, and the log is closed only     *)
(* when everything offered has been written.  A record is named by its     *)
(* place in the order of the offers.                                       *)
(***************************************************************************)
EXTENDS Naturals, Sequences

VARIABLES
  offered,   (* how many records were offered  *)
  written,   (* the records written so far     *)
  closed     (* the stream is gone             *)

logVars == <<offered, written, closed>>

Init == offered = 0 /\ written = <<>> /\ closed = FALSE

Offer ==
  /\ ~closed
  /\ offered' = offered + 1
  /\ UNCHANGED <<written, closed>>

Write ==
  /\ Len(written) < offered
  /\ written' = Append(written, Len(written) + 1)
  /\ UNCHANGED <<offered, closed>>

Close ==
  /\ Len(written) = offered
  /\ closed' = TRUE
  /\ UNCHANGED <<offered, written>>

Next == Offer \/ Write \/ Close

Spec == Init /\ [][Next]_logVars
=============================================================================
