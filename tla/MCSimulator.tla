---------------------------- MODULE MCSimulator ----------------------------
(***************************************************************************)
(* Two runs of one simulator with the same RunArgs, to 4 and then to 9, or *)
(* one to 9.                                                               *)
(* The LogTimeSlice is as it was made, made for too short a time, or reset *)
(* to a later and to an earlier start.                                     *)
(***************************************************************************)
EXTENDS Simulator

MCEndTimes == <<4, 9>>

MCOneEnd == <<9>>

MCLogSlice == LogTimeSliceMade(0, 2)

MCLogSlices ==
  {MCLogSlice, LogTimeSliceMade(0, 1),
   LogTimeSliceReset(MCLogSlice, 1, 2), LogTimeSliceReset(MCLogSlice, -2, 2)}

MCOneLogSlice == {MCLogSlice}
=============================================================================
