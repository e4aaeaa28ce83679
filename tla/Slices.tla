------------------------------- MODULE Slices -------------------------------
(***************************************************************************)
(* args-callback/callbacks.hpp: the wrappers StepSlice, TimeSlice and      *)
(* LogTimeSlice, as functions of their state.  Each wraps a callback and   *)
(* decides, when it is invoked, whether to pass the invocation on.         *)
(***************************************************************************)
EXTENDS Integers

(* StepSlice: step_ counts the invocations.                                 *)
StepSliceFires(step_, interval) == step_ % interval = 0

(* TimeSlice: opt_time_ is when the next call is due; a call moves it on by *)
(* one interval, however late the call came.                                *)
TimeSliceFires(opt_time_, end_time_, t) == opt_time_ <= t /\ t <= end_time_

TimeSliceNext(opt_time_, end_time_, interval, t) ==
  IF TimeSliceFires(opt_time_, end_time_, t) THEN opt_time_ + interval ELSE opt_time_

(* LogTimeSlice: a call multiplies the distance of opt_time_ from           *)
(* start_time_ until it is past the time.  The constructor makes the first  *)
(* call due one interval after the start; reset_slice_params does that for  *)
(* another start and leaves start_time_ at the old one.                     *)
LogTimeSliceFires(l, end_time_, t) == l.opt_time_ <= t /\ t <= end_time_

LogTimeSliceMade(start, interval) ==
  [start_time_ |-> start, opt_time_ |-> start + interval, interval |-> interval]

LogTimeSliceReset(l, start, interval) ==
  [l EXCEPT !.opt_time_ = start + interval, !.interval = interval]

(* The multiplication does not get anywhere.                                *)
LogTimeSliceStuck(l) == l.interval <= 1 \/ l.opt_time_ <= l.start_time_

(* b * ... * b, n times.                                                    *)
Power(b, n) == LET p[i \in 0..n] == IF i = 0 THEN 1 ELSE b * p[i - 1] IN p[n]

LogTimeSliceAfter(l, m) ==
  l.start_time_ + (l.opt_time_ - l.start_time_) * Power(l.interval, m)

(* Mutant of LogTimeSliceNext: one multiplication, like TimeSlice's.        *)
LogTimeSliceNextOnce(l, t) == LogTimeSliceAfter(l, 1)

LogTimeSliceNext(l, t) ==
  LogTimeSliceAfter(l,
    CHOOSE m \in 1..(t - l.start_time_ + 1) :
      /\ LogTimeSliceAfter(l, m) > t
      /\ \A n \in 1..(m - 1) : LogTimeSliceAfter(l, n) <= t)
=============================================================================
