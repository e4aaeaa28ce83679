------------------------------ MODULE Simulator ------------------------------
(***************************************************************************)
(* simulator.hpp: Simulator::run drives an ODE iterator to an end time,    *)
(* calling the operations of RunArgs on the way, until the time is reached *)
(* or a stop condition holds.                                              *)
(*                                                                         *)
(* Time is counted in units.  The iterator is known here by what run uses  *)
(* of it (advance_one_step): it takes a step of at most the size it is     *)
(* given (ConstOdeIterator and SequentOdeIterator the whole of it, the     *)
(* others a shorter one after a rejection), in the same direction, and     *)
(* returns a next size of the same sign.                                   *)
(* slip is by how much the elapsed time may differ from the step, which is *)
(* 0 for a system without regularization (step_scale() is 1) and unknown   *)
(* for a regularized one, whose step is not a time.                        *)
(*                                                                         *)
(* RunArgs holds three operations, a StepSlice, a TimeSlice and a          *)
(* LogTimeSlice around a writer, and one stop condition, a StepSlice       *)
(* around "is it late enough".                                             *)
(* The callbacks keep their state in RunArgs from one run to the next.     *)
(***************************************************************************)
EXTENDS Integers, Sequences, Slices

CONSTANTS
  EndTimes,     (* the end time of each run, one after the other            *)
  StartTimes,   (* the initial times of the particle system                 *)
  TimeTol,      (* time_rtol * |end time|                                   *)
  FirstSteps,   (* the sizes run may begin with                             *)
  NextSteps,    (* the sizes the iterator may propose                       *)
  Slips,        (* by how much time and step of a system may differ         *)
  MaxIters,     (* bound of the model: how many steps are made              *)
  WriteEvery,   (* interval of the operation's StepSlice                    *)
  SliceEvery,   (* interval of the operation's TimeSlice, which starts at 0 *)
  SliceEnd,     (* end of the operation's TimeSlice and LogTimeSlice        *)
  LogSlices,    (* the LogTimeSlices to consider                            *)
  CheckEvery,   (* interval of the stop condition's StepSlice               *)
  StopAfter     (* the stop condition: time() > StopAfter                   *)

Abs(n) == IF n < 0 THEN -n ELSE n

Sign(n) == IF n < 0 THEN -1 ELSE 1

ASSUME SimulatorAssumption ==
  /\ EndTimes \in Seq(Int \ {0}) /\ EndTimes # <<>>
  /\ StartTimes \subseteq Int
  /\ TimeTol \in Nat
  /\ FirstSteps \subseteq Nat \ {0}
  /\ NextSteps \subseteq Nat \ {0}
  /\ Slips \subseteq Nat
  /\ MaxIters \in Nat
  /\ WriteEvery \in Nat \ {0} /\ SliceEvery \in Nat \ {0} /\ CheckEvery \in Nat \ {0}
  /\ SliceEnd \in Int /\ StopAfter \in Int
  /\ LogSlices \subseteq [start_time_ : Int, opt_time_ : Int, interval : Int]

VARIABLES
  slip,         (* how far time and step of this system may differ          *)
  run,          (* which run this is                                        *)
  time,         (* particles_.time()                                        *)
  step,         (* step_size_                                               *)
  phase,        (* where run is                                             *)
  writeStep,    (* step_ of the operation's StepSlice                       *)
  sliceTime,    (* opt_time_ of the operation's TimeSlice                   *)
  logSlice,     (* the state of the operation's LogTimeSlice                *)
  checkStep,    (* step_ of the StepSlice registered as stop condition      *)
  iters,        (* history: the steps made                                  *)
  ops,          (* history: the calls of operations()                       *)
  writes,       (* history: the calls the StepSlice passed on               *)
  slices,       (* history: the times of the calls the TimeSlice passed on  *)
  logs,         (* history: the times of the calls the LogTimeSlice passed  *)
  checks,       (* history: the calls of check_stops()                      *)
  evals         (* history: the evaluations of the user's stop condition    *)

vars == <<slip, run, time, step, phase, writeStep, sliceTime, logSlice, checkStep,
          iters, ops, writes, slices, logs, checks, evals>>

callbacks == <<writeStep, sliceTime, logSlice, ops, writes, slices, logs>>

EndTime == EndTimes[run]

(* The types; a step size is never zero while the loop runs.                *)
TypeOK ==
  /\ slip \in Slips
  /\ run \in 1..Len(EndTimes)
  /\ time \in Int /\ step \in Int
  /\ phase \in {"starting", "testing", "advancing", "stopping", "done",
               "stuck", "refused"}
  /\ writeStep \in Nat /\ sliceTime \in Int /\ checkStep \in Nat
  /\ iters \in Nat /\ ops \in Nat /\ writes \in Nat /\ checks \in Nat /\ evals \in Nat
  /\ slices \in Seq(Int) /\ logs \in Seq(Int)
  /\ logSlice \in [start_time_ : Int, opt_time_ : Int, interval : Int]
  /\ phase \notin {"starting", "refused"} => step # 0

Init ==
  /\ slip \in Slips
  /\ run = 1
  /\ time \in StartTimes
  /\ step = 0
  /\ phase = "starting"
  /\ writeStep = 0 /\ sliceTime = 0 /\ checkStep = 0
  /\ iters = 0 /\ ops = 0 /\ writes = 0 /\ slices = <<>> /\ checks = 0 /\ evals = 0
  /\ logSlice \in LogSlices /\ logs = <<>>

-----------------------------------------------------------------------------
(* operations(): the callbacks are invoked in the order of registration;    *)
(* each is called through a reference to what RunArgs stores.               *)

CountedWrite == writeStep + 1

(* Mutant of SliceDue: the next call is not made due later.                 *)
SliceStaysDue == sliceTime

SliceDue == TimeSliceNext(sliceTime, SliceEnd, SliceEvery, time)

LogFires == LogTimeSliceFires(logSlice, SliceEnd, time)

Operations ==
  /\ ~(LogFires /\ LogTimeSliceStuck(logSlice))
  /\ logSlice' = IF LogFires
                 THEN [logSlice EXCEPT !.opt_time_ = LogTimeSliceNext(logSlice, time)]
                 ELSE logSlice
  /\ logs' = IF LogFires THEN Append(logs, time) ELSE logs
  /\ ops' = ops + 1
  /\ writeStep' = CountedWrite
  /\ writes' = IF StepSliceFires(writeStep, WriteEvery) THEN writes + 1 ELSE writes
  /\ sliceTime' = SliceDue
  /\ slices' = IF TimeSliceFires(sliceTime, SliceEnd, time)
               THEN Append(slices, time) ELSE slices

(* The loop of the LogTimeSlice does not end, and operations() with it.     *)
Stuck ==
  /\ phase \in {"advancing", "stopping"}
  /\ LogFires /\ LogTimeSliceStuck(logSlice)
  /\ phase' = "stuck"
  /\ UNCHANGED <<slip, run, time, step, checkStep, iters, checks, evals, callbacks>>

FirstSize == FirstSteps

(* The beginning of run: the size of the first step, the warning that       *)
(* changes nothing, and start_operations.                                   *)
Start ==
  /\ phase = "starting"
  /\ step' \in FirstSize
  /\ phase' = "testing"
  /\ UNCHANGED <<slip, run, time, checkStep, iters, checks, evals, callbacks>>

(* The regularization function vanishes: run returns before anything was    *)
(* called, and so would every later run.                                    *)
Refuse ==
  /\ phase = "starting" /\ slip # 0
  /\ step' \in FirstSize \cup {0}
  /\ phase' = "refused"
  /\ UNCHANGED <<slip, run, time, checkStep, iters, checks, evals, callbacks>>

(* Mutant of AtEnd: only a time beyond the end stops the loop.              *)
BeyondEnd == time > EndTime

AtEnd == Abs(time - EndTime) <= TimeTol

(* The first half of the loop's condition.                                  *)
ReachEnd ==
  /\ phase = "testing"
  /\ AtEnd
  /\ phase' = "stopping"
  /\ UNCHANGED <<slip, run, time, step, checkStep, iters, checks, evals, callbacks>>

CheckFires == StepSliceFires(checkStep, CheckEvery)

StopHolds == CheckFires /\ time > StopAfter

(* The second half, check_stops(): the lambda of any_of takes the condition *)
(* by value, so the StepSlice counts in a copy and what RunArgs stores      *)
(* stays as it was.                                                         *)
CheckStops ==
  /\ phase = "testing"
  /\ ~AtEnd
  /\ checks' = checks + 1
  /\ checkStep' = checkStep
  /\ evals' = IF CheckFires THEN evals + 1 ELSE evals
  /\ phase' = IF StopHolds THEN "stopping" ELSE "advancing"
  /\ UNCHANGED <<slip, run, time, step, iters, callbacks>>

(* Mutant of StepToTake: the last step is not cut to the rest.              *)
WholeStep == step

(* A step larger than the rest is replaced by the rest, whatever its sign.  *)
StepToTake == IF Abs(step) <= Abs(EndTime - time) THEN step ELSE EndTime - time

(* What the iterator may do with a step of size h: (time elapsed, next size) *)
Elapsed(h) == {Sign(h) * a + s : a \in 1..Abs(h), s \in -slip..slip}

Proposed(h) == {Sign(h) * n : n \in NextSteps}

(* The loop's body: the operations see the state before the step.           *)
Advance ==
  /\ phase = "advancing"
  /\ iters < MaxIters
  /\ Operations
  /\ \E e \in Elapsed(StepToTake) : time' = time + e
  /\ step' \in Proposed(StepToTake)
  /\ iters' = iters + 1
  /\ phase' = "testing"
  /\ UNCHANGED <<slip, run, checkStep, checks, evals>>

(* Mutant of Finish: the last state is not passed to the operations.        *)
FinishAtOnce ==
  /\ phase = "stopping"
  /\ phase' = "done"
  /\ UNCHANGED <<slip, run, time, step, checkStep, iters, checks, evals, callbacks>>

(* After the loop: the operations once more, then the stop operations.      *)
Finish ==
  /\ phase = "stopping"
  /\ Operations
  /\ phase' = "done"
  /\ UNCHANGED <<slip, run, time, step, checkStep, iters, checks, evals>>

(* The same RunArgs are given a later end time and used again.              *)
RunAgain ==
  /\ phase = "done"
  /\ run < Len(EndTimes)
  /\ run' = run + 1
  /\ step' = 0
  /\ phase' = "starting"
  /\ UNCHANGED <<slip, time, checkStep, iters, checks, evals, callbacks>>

Next ==
  \/ Start \/ Refuse \/ ReachEnd \/ CheckStops \/ Advance \/ Finish \/ Stuck \/ RunAgain

(* run is one thread of control; nobody has to call it a second time.       *)
Spec ==
  Init /\ [][Next]_vars
  /\ WF_vars(Start \/ Refuse \/ ReachEnd \/ CheckStops \/ Advance \/ Finish \/ Stuck)
-----------------------------------------------------------------------------
(* Without regularization the integration never passes the end time, if the *)
(* end of each run is ahead: the last step is cut to what is left, and a    *)
(* step is never made longer by the iterator.                               *)
NeverPastEnd == slip = 0 => time <= EndTime

(* Nor does a step cross the end from either side: a run begun past its     *)
(* end, which is only warned about, goes further away until a step is       *)
(* longer than the way back, turns round with it, and comes to its end      *)
(* backwards, unless a stop condition holds before.                         *)
NeverAcross ==
  [][slip = 0 /\ run' = run =>
       /\ time <= EndTime => time' <= EndTime
       /\ time >= EndTime => time' >= EndTime]_vars

(* The operations see every state once, the first one and the one after     *)
(* each step, and the one that stop_operations gets is the last they saw;   *)
(* the StepSlice among them writes every N-th of them, counted on from one  *)
(* run to the next.                                                         *)
EveryStateOnce ==
  LET finished == IF phase = "done" THEN run ELSE run - 1
  IN  /\ ops = iters + finished
      /\ writes = (ops + WriteEvery - 1) \div WriteEvery

(* The TimeSlice never runs ahead of the time: what it passed on is not     *)
(* more than the instants that were due, counted from its start.            *)
SlicesNotAhead ==
  \A i \in 1..Len(slices) : slices[i] >= (i - 1) * SliceEvery

(* Without regularization a run ends: every step brings the time nearer, or *)
(* in a run that goes away from its end nearer to the stop condition.       *)
(* Except over a LogTimeSlice that was made for an end at most 1 after the  *)
(* start, or reset to a start so early that its first call is due at or     *)
(* before the start it was made with.                                       *)
RunEnds ==
  (slip = 0 /\ phase = "starting" /\ ~LogTimeSliceStuck(logSlice)) ~> (phase = "done")

(* How much of a run is left at most: two phases for every unit of the time *)
(* to the end, and those of the way into and out of the loop.               *)
RunLeft ==
  2 * (EndTime - time) + CASE phase = "starting" -> 4
                           [] phase = "testing" -> 3
                           [] phase = "advancing" -> 2
                           [] phase = "stopping" -> 1
                           [] OTHER -> 0

(* Without regularization everything that run does leaves less of the run   *)
(* to do, with the phases of RunEnds: no pass through the loop is in vain.  *)
RunShrinks ==
  [][slip = 0 /\ run' = run => RunLeft' \in 0..(RunLeft - 1)]_vars

(* Between two calls that a LogTimeSlice passes on there is an instant of   *)
(* its geometric sequence, however long the steps were: unlike a TimeSlice  *)
(* it never catches up.  A reset one follows the sequence of its old start. *)
LogOncePerInstant ==
  LET start == logSlice.start_time_
      due == logSlice.opt_time_ - start
      isInstant(x) == \E m \in 0..due : (x - start) * Power(logSlice.interval, m) = due
  IN  \A i \in 2..Len(logs) : \E x \in (logs[i - 1] + 1)..logs[i] : isInstant(x)

(* What the tutorial says of a StepSlice as a stop condition ("check it     *)
(* every 1000 steps"): the user's condition is evaluated at every N-th      *)
(* check.                                                                   *)
EvaluatedEveryNth == evals <= (checks + CheckEvery - 1) \div CheckEvery

(* What the documentation says of TimeSlice: invoked for equal spacing time *)
(* intervals, so at most once in each.                                      *)
OncePerInterval ==
  \A i, j \in 1..Len(slices) :
    slices[i] \div SliceEvery = slices[j] \div SliceEvery => i = j
=============================================================================
