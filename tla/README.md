# SpaceHub: a TLA+ model of the integrator and its threads

SpaceHub integrates the motion of a few gravitating bodies to high precision.
A simulation is a loop (`simulator.hpp`) around an ODE iterator
(`ode-iterator/`), which moves a particle system (`particle-system/`) by drifts
and kicks; user callbacks (`args-callback/`) watch it. Campaigns run many
simulations in threads (`multi-thread/`), which share pools, queues and files.

Paths below are relative to `src/src/`.

## 1. Inventory

| component | state | operations | talks to | what is hard |
|---|---|---|---|---|
| `simulator.hpp` Simulator, RunArgs | `step_size_`, particles, iterator, the registered callbacks and conditions | `run`, `advance_one_step`, `operations`, `check_stops` | iterator, particle system, callbacks | the last step, the end within a tolerance, callbacks that keep state and are copied |
| `args-callback/callbacks.hpp` | StepSlice `step_`, TimeSlice `opt_time_`, LogTimeSlice | `operator()`, `reset_slice_params` | invoked by RunArgs | slices against steps of any size |
| `ode-iterator/Bulirsch-Stoer.hpp` | order, table of rows, work, first step, rejection | `iterate`, `set_next_iteration`, `is_diverged_anyhow` | particle system | indices of the tables, retries, mixing of attempts |
| `ode-iterator/IAS15.hpp`, `integrator/Gauss-Radau.hpp` | b and g tables, `last_PC_error_`, `warmed_up` | `iterate`, `correct`, `predict` | particle system | convergence loop that is restarted |
| `ode-iterator/sequent-iterator.hpp`, `const-iterator.hpp` | arrays | `iterate` | particle system, integrators | which array is the result |
| `ode-iterator/step-controller`, `error-checker` | tables of limits | `next`, `limiter`, `error` | iterators | numerics |
| `particle-system/base-system.hpp` SimpleSystem | Cartesian state, auxiliary velocity, increment | `drift`, `kick`, `pre/post_iter_process`, `read/write_scalar_array`, `collect/clear_increment` | interactions | increment beside state, velocity dependent forces |
| `particle-system/chain-system.hpp`, `chain.hpp` | the same in chain coordinates, `index_` | the same, and the change of the chain | interactions, Chain | two copies of the state in two coordinate systems |
| `particle-system/regu-system.hpp`, `archain.hpp` | the same, `omega_`, `bindE_`, `scale_` | the same | interactions | time as a dependent variable |
| `multi-thread/thread_pool.h` | queue, `stop_`, workers, mutex, condition | `commit`, destructor | client threads | lost wake-ups, dropped tasks |
| `multi-thread/ciostream.hpp` Opip, Ipip | queue, flags, thread, file | `<<`, `>>`, constructor, destructor | client threads, file | a thread that starts before the flags are initialised |
| `multi-thread/multi-thread.hpp` | threads; ConcurrentFile's mutex | loops, `execute`, `<<`, `>>` | client threads | the partition of the indices |
| `multi-thread/concurrent-queue.h` | deque, `stop_` | `emplace_*`, `try_pop_*` | client threads | as ThreadPool; the pops do not compile when instantiated |
| `tools/`, `IO.hpp`, `orbits/`, `scattering/`, `interaction/`, `particles/`, numerics | little | formulas, parsing, formatting | | rounding |

What makes each correct: the loop ends for a reason, at its end time, and shows
every state to the operations once; the iterator accepts only what converged in
one attempt and stays inside its tables; the increment is what was done to the
state; the chain and the Cartesian coordinates are one state; the chain is a
permutation; a pool runs each accepted task once and in order, and can be
destroyed; a pipe moves records once and in order. The places where each of
these could go wrong are the hazards of `PROJECT.json`.

## 2. Modules

| part | modules | proofs |
|---|---|---|
| pool | `ThreadPool` | `MultiThread_proofs` |
| pipes | `OrderedLog` (what an output stream promises), `Opip`, which implements it, `Ipip` | `Opip_proofs`, `Ipip_proofs` |
| loop of a simulation | `Slices` (operators), `Simulator`, `MCSimulator` | `Simulator_proofs` |
| Bulirsch-Stoer | `BulirschStoer` (which order, which length, accept or not), `Extrapolation` (what the table computes) | `Iterators_proofs` |
| chain | `ChainParticles` (how they are numbered), `ChainIndex` | `Chain_proofs` |
| particle systems | `SimpleSystem`, extended by `ReguSystem` (`MCReguSystem`); `ChainSystem`, extended by `ARchainSystem` (`MCARchainSystem`), which implements `ReguSystem` | `SimpleSystem_proofs` for the first two, `Chain_proofs` for the others |
| other iterators, numbers | `FiniteSum`, which `PrimeField` and `Symplectic` extend; `PrimeField`, extended by `GaussRadau`, extended by `IAS15`; `SequentIterator`; `Symplectic`; `CompensatedSum`; with `Extrapolation` the alternatives of `Iterators` (`MCIterators`) | `IAS15_proofs` for what Gauss-Radau computes, `Iterators_proofs`, which extends it, for the rest |
| threads without a queue | `LoopPartition`, `ConcurrentFile`, the alternatives of `MultiThread` | `MultiThread_proofs` |

`Iterators` and `MultiThread` only choose one of parts that share nothing, so that
one run asks one kind of question of all of them. `ARchainSystem` and `ReguSystem`
contain `ChainSystem` and `SimpleSystem` as the case of no regularization, and are
checked in their place.

Left, in this order:

1. The step controllers and error checkers as functions over a small
   floating-point format, as `CompensatedSum` does for sums: what the limiters do
   with a zero and an infinite error.
2. `Simulator` composed with the abstract behaviour of an iterator (the particles
   leave a step in the state of one attempt, or the run stops).
3. `Timer` (pause and restart), the configuration reader's tolerance of malformed
   lines, `ConcurrentDeque` without its pops.

## 3. How the models correspond to the code

`PROJECT.json` maps each definition to its lines; what follows is what is not
obvious from there.

**ThreadPool.** A step is a critical section, since nothing inside one can be
seen from outside, with one exception: the destructor stores `stop_` without the
mutex, so a worker between its test and `cv_.wait` is a state of its own
(`"blocking"`). Spurious wake-ups may happen and are never relied on. Tasks are
numbered by their commits. `missed` records which workers were between test
and wait at `notify_all`: exactly those may sleep for ever, so the destructor's
liveness is stated without them. Tasks that are still queued when the pool is
destroyed are not run; this is the code's behaviour and the properties are
worded accordingly (`NothingCutShort` is about tasks that were started).

**Opip, Ipip.** Members are initialised in the order of their declaration and
`thread_` comes before `stop_` (and `eoq_`). The thread may therefore read an
uninitialised flag: the constants `StopGarbage` and `Garbage` are the values it
may find. `owner = "constructing"` ends when the constructor stores the flags.
For `Opip` the consequences are that the thread may leave its loop (`early`) or
use the front of an empty queue (`"undefined"`). The stream implements
`OrderedLog` in any build, with the one exception that the refinement mapping
names: an object whose thread left early is destroyed without the log being
closed, since records pushed later may never be written. For `Ipip` the
constructor may also overwrite the `eoq_` that the loader has already set
(`overwritten`); after that a reader may wait for ever. The destructor of `Ipip` joins
the loader and destroys the members, whoever is still in a call: `CallReturns`
excepts the calls that are destroyed so, and `DestructorEnds` says that no reader is
then asleep on a condition variable. Whether the end of the
file is noticed with the last record or one extraction later is the kind of the
file; a missing file never sets `eof`, and the loader then queues default
records until it is stopped.

**Simulator.** Times are whole units. The iterator is known by what `run` uses
of it: the elapsed time has the sign of the step and is at most the step
(without regularization), and the next size is any one of a set. `RunArgs` holds
a StepSlice, a TimeSlice and a LogTimeSlice as operations and a StepSlice as a stop
condition; operations are invoked through references, conditions are copied for the
call (line 319). The LogTimeSlice has an interval that is a whole number; with an interval of at most 1 its loop never passes the time, and the run is then
in the phase `"stuck"`, which nothing leaves: `RunEnds` excepts exactly the slices
of which `LogTimeSliceStuck` holds. It may be reset between two runs, to a later or an earlier start.
`slip` is by how much the time of a
regularized system may differ from a step; it is chosen at the beginning and kept,
so that one run holds both kinds of system, and what holds only without it is
stated under `slip = 0`. A run may begin past its end, which is only
warned about, and goes away from it, until the stop condition holds, or turns round: no step crosses
the end (`NeverAcross`). `NeverPastEnd` and `RunShrinks` are about runs whose end is ahead. A regularization
function that vanishes ends the run before it began (`"refused"`). The tolerances given to
the iterator are left out.

**BulirschStoer.** An error is one of four classes, the ones that the
comparisons of `iterate` and `is_diverged_anyhow` tell apart, including a
not-a-number, which all of them answer with false. Errors depend only on the
input and the step length, so an attempt that is repeated unchanged finds the
same errors. The work of the columns is arbitrary within a set that lets each
comparison go either way. `rows` records which attempt wrote a row of the table
and whether it started from the step's input. The two `"undefined"` outcomes
(column 8 of tables with 8 columns in the default, and coefficients past the
end) are reached when the first step is accepted at the last column, because
line 494 does not clamp the order; `OverrunCause` says that nothing else leads
there.

**ChainIndex.** The pairs come in an arbitrary order, one for each choice of
distances. The scan restarts with `k = 1`, which the loop increments to 2, so the
second nearest pair is looked at only once, when the chain is still the nearest
pair; `NearestFirst` names this exception and `Complete` shows that the chain
still becomes complete. The comparison of the number of links with the number of
particles (line 272) is never true, and the loop ends by running out of pairs.

**SimpleSystem, ChainSystem.** Coordinates are integers, one for each particle
(the three components never mix), the steps are even so that half a kick is
exact, and the forces are an arbitrary operator. `velDep`, which in the code is a
property of the system's type, is a variable that never changes, so that one run
holds systems of both kinds. The actions are the calls of
one step: pre-processing, writing the array, attempts of drifts and kicks with
read-backs, the accepted result, post-processing. The accepted result is the
array plus the increment of the last attempt, where the iterator adds an
extrapolated increment; what matters here is in which coordinates array and
increment are. `ChainSystem` has the same actions in chain coordinates;
`post_iter_process` may change to any chain. Its refinement maps the array and
the increment through the chain they were written in.

**ReguSystem, ARchainSystem.** They extend the two systems by `omega_`, `bindE_`
and the conversion of a step to a time. The energies and the time a step is worth
(`Slow`) are arbitrary functions, as the forces are. `regType`, like `velDep`, is a
property of the type and never changes; `None` is the plain system. The systems
considered have external forces; one without never changes `bindE`.
The scalar array is one variable per part in the actions; its layout as one array,
with the read-back that counts from the end with a truncating division, is the
subject of `ArrayRoundTrip`. `StepReversible` undoes a drift or a kick by the opposite one, although the time
either takes depends on the state. `DerivativeIsRate` compares the derivative an iterator of functions asks
for with what drifts and kicks do: each part of the state, the auxiliary velocity,
`omega` and `bindE` included, changes by the size of the step times the derivative at
the velocities that the move meets (the auxiliary one for the halves of a kick with
velocity dependent forces, the one in the middle for the rest of it, and those
before and after it without such forces). Under LogH the code takes the derivative of `bindE`
of the total acceleration where the kick takes that of the external forces; the
property states what that makes, the power of the Newtonian accelerations. `ARchainSystem` changes the chain after the step and is mapped to
`ReguSystem` through the chain its array was written in.

**GaussRadau, IAS15.** Coefficients are numbers modulo a prime: there, as with
real numbers, the identities of the method are exact, while a test in floating
point can tell a wrong constant only by its size. The tables of constants that
the code spells out in decimals are given here by the recurrences they come from;
the decimals of the code agree with the recurrences at the nodes of the code to
within their last digits (compared outside of TLA+). The model keeps one
variable of the system, as the code treats each alone. A step length is the number
of times it can still be quartered, or a not-a-number after an infinite error over an
infinite scale: the tables are then left out, and what may follow if such a step is
accepted is not modelled. Errors are in classes that include infinity
and a not-a-number. The loop's counter is set to 0 by a rejection and then
incremented by the loop. `ConstOdeIterator` with the same integrator is the call
that corrects once.

**SequentIterator.** A state is the call that it belongs to and the sub-steps that
were made from this call's input, each with its length; an array holds such a state. If no
refinement agrees the second finest result is taken, after one more swap;
`TakesTheFinest` says so.

**Symplectic.** The fractions are those of the code in units of 10^-8 (they are
given with more digits there; a wrong digit among the first eight is seen). The
particle lives modulo a small prime, so that a step and the step back with the
opposite length return exactly or not at all.

**Extrapolation.** The order control is left open: an attempt may end at any column
and for any reason, `BulirschStoer` says which. The system moved is one whose
solution is a polynomial of degree four. A row of a leapfrog is then the solution and
a multiple of the square of the sub-step, so that two rows give the solution exactly.
What the method divides by must not be 0 modulo the prime (`DivisorsAssumption`); with
real numbers it is not. The midpoint rule of the overload for functions has rows that are a
polynomial in the square of the sub-step for odd numbers of sub-steps and another
for even ones; the code's sequence 1, 2, 3, 5, 8, 12, ... has both, and its rows
extrapolate to zero but not to the solution (with even numbers alone they would).
The property therefore claims the solution of the leapfrogs only. The overload also
advances its caller's time with each row it evaluates; the function here ignores
the time, so this is not modelled.

**CompensatedSum.** A floating-point format of a few digits over integers, with
rounding to nearest and ties to even. `due` is what the number should be and
`outgrown` remembers the one case Kahan's sum does not cover, a summand larger than
the number; both are histories. The precise simulators use Kahan alone. Products and the
unary minus, which leave or drop the error, are not modelled.

**LoopPartition, ConcurrentFile.** The loop over the slice stands for the caller's
task. A tuple is written or read field by field under the file's mutex, by jobs as
`multi_thread` starts them.

## 4. Runs

| run | question | bounds, and why they are enough |
|---|---|---|
| `thread_pool` | order, exclusivity, shutdown, liveness of the pool | two workers can miss a stop separately or together, two clients race; a limit of one with four commits reaches the full queue and a refusal |
| `opip` | implements `OrderedLog`; termination | two producers, four records, both values of the garbage |
| `ipip` | sharing of the records, termination of calls | three records loaded by two: a full and a short batch; every kind of file; two readers |
| `simulator` | end of the run, operations, slices | two runs, with a slip of 0 and of 1; steps 1, 2, 4 against slices of 2 and a tolerance of 1: short of, on and beyond a slice and the end; four LogTimeSlices: as made, with too small an interval, reset to a later and to an earlier start; a run begun at 6, past its end of 4, that turns round at once or later or is ended by the stop condition at 8 |
| `simulator_stop_slice` | violation: a sliced stop condition is evaluated every time | as `simulator`, slip 0 |
| `simulator_time_slice` | violation: a late TimeSlice passes on several calls in one interval | as `simulator`, slip 0, one run from 0, where the slice starts, to 9: a step of 4 is longer than the interval of 2 |
| `bulirsch_stoer` | order control, tables, retries | depth 5: the window is smaller than the table at both ends; three steps: the first, the one after it, a regular one; three attempts; costs that make each comparison true and false |
| `chain_index` | the chain is complete and built from near pairs | four particles, all 720 orders: the smallest number with a pair that joins neither end |
| `regu_system` | increments, reversible steps, layout of the array, derivative | three particles, a force on positions and velocities, steps forward and back, attempts of two moves, two steps, the three regularizations, both values of `velDep` |
| `archain_system` | the two views; refinement of `ReguSystem` | as above, all chains of three |
| `iterators` | what each iterator and number computes | IAS15 with seven nodes modulo 31, four corrections, lengths quartered twice; sequent with two calls and ten refinements, so that the second call finds the arrays of the first; every start modulo 7 for the symplectic methods; a table of eight columns, two lengths, so that a rejected attempt leaves rows; sums of three-digit numbers up to 40, four binades |
| `multi_thread` | which indices are done; whole tuples | lengths with a rest smaller than, equal to and larger than a slice, fewer indices than threads, and none; three jobs with two tuples of two fields |

Type invariants, and `QueueBound`, `NothingStartsAfterStop`, `WorkConserved`,
`OnlyTowardsExit`, `WriterNotLeftAsleep`, `NobodyLeftAsleep`, `RankInRange`,
`ReturnsLast`, `ChainShape`, `ScanShrinks`, `NeverPastEnd`, `RunShrinks` and `FileFollowsPushes`, are
proved for all constants and not run again.

Deadlock is not checked where the modelled object may be destroyed, the run may
be over, or the code may hang: that holds of every run here, and what must not
hang is stated as liveness (`Terminates`, `RunEnds`, `DestroyEnds`,
`DestructorEnds`, `CallReturns`).

Two runs end in a violation of something a comment or tutorial says; they are
the findings of `PROJECT.json`:

* `EvaluatedEveryNth`: tutorials 2_5 and 2_7 wrap a stop condition in a StepSlice
  to "check it every 1000 steps", but `check_stops` takes it by value and its
  counter never moves.
* `OncePerInterval`: TimeSlice is documented to be invoked for equal intervals;
  after a step longer than the interval it catches up one interval per call, so that two
  calls are passed on within one (steps of 4 and 1: the calls at 4 and at 5).

Some behaviours met on the way are part of the models and named by their
properties rather than listed as disagreements: in its first step the
Bulirsch-Stoer iterator repeats an attempt unchanged until it aborts
(`ExhaustedCause`), it can then overrun its tables (`OverrunCause`), a loop loses
the rest of its indices (`RestIsLost`), a pool's destructor can hang on a worker
that misses the wake-up (`OnlyMissedSleep`), and readers of a short file can wait
for ever (`CallReturns` excludes exactly `overwritten`).

## 5. Fairness

Threads are scheduled (weak fairness of each thread's steps), a task or a record
in hand is finished, and notifications that a thread is about to make are made.
Nobody is obliged to commit, push, read or destroy, and spurious wake-ups are not
owed. In `Ipip` a reader's critical sections are taken under strong fairness,
because readers and loader contend for one mutex again and again; this is the
only place where it is needed, and it says no more than that a thread that
competes for the mutex infinitely often gets it. `run` and `create_index_from_dist_array`
are single threads of control: weak fairness of their steps, none of a new call.
The iterators promise an end by a measure instead: `CountsDown` says that each
step of a call of IAS15 ends it, shortens the length, or leaves less of the loop at the same
length. The
other models have no fairness and claim no liveness.

## 6. Proofs

All theorems are of the form `Spec => []P`, `Spec => [][A]_vars` or, for a
refinement, `Spec => Abstract!Spec`. They hold for every value of the constants that
the named assumptions of the modules allow. The theorems about particle systems have
three hypotheses besides, which say what kind of functions the constant operators
are and which TLC cannot evaluate: forces are vectors (`AccTypes`), energies and times
are integers (`EnergyTypes`), and the sum of products `Contract` is linear in its second
argument, the accelerations (`ContractLinear`, for the derivative of `bindE` only). The code's functions are of these
kinds, and so are those of the runs.

**Induction over numbers.** What a sum along a chain, a power, a table of
coefficients or the path of a particle is, is defined by a recursive function. The
library's theorem on well-founded orders (`WFMin`) gives that a set of natural numbers
with 0 and each successor has all of them, without a hypothesis that is an
operator; with it `Recursion` and its like show that the recursive functions exist, and
what they compute is proved one number after the other. RECURSIVE operators are not
used in any module that is proved about.

`MultiThread_proofs`:

* The pool, for any finite set of workers, any clients and limits: types, `QueueBound`,
  `FifoQueue`, `RunsOnce`, `NothingCutShort`, `OnlyMissedSleep`, `NothingStartsAfterStop`,
  `WorkConserved`, `OnlyTowardsExit`. The
  invariant adds to these where a worker can be for each value of the destructor's
  state; one lemma per action shows that it is preserved. `WorkConserved` counts: while
  a worker sleeps, the queue is no longer than the workers on their way to it and the
  commits that are still to notify. It needs that the queue is empty while a worker is
  between its test and its wait (the destructor apart), and what a step does to the
  number of these workers (`LockingLess`, `LockingMore`).
* The loop, for any length and number of threads: `RestIsLost` and `ReturnsLast`. The
  slices are disjoint intervals, and what they leave is the rest of the division,
  which the last thread takes only if it is smaller than a slice.
* The file, for any number of jobs, tuples and fields: `TuplesWhole`. The invariant
  (`FileInv`) is that for some `K` the file is `K` tuples, each held by one job, and
  then what the holder of the mutex has of one more (`Follows`); with a reader it is
  the part of the file up to `position`.

`Opip_proofs`, for any producers and any garbage in `stop_`: types,
`FileFollowsPushes`, and the refinement `IsOrderedLog`. Inductive together with
the types is that file, record in hand and queue are the pushed records in order;
the refinement needs besides where the writer can be after its loop (`Leaving`):
unless it left early nothing is pushed after that, and its queue is empty when it
exits. `WriterNotLeftAsleep`: a sleeping writer has an empty queue and no stop, or
somebody who is still to notify it.

`Ipip_proofs`, for any readers, file, batch and garbage: types, `ReadsTheFile`,
`EndComesLast`. What the readers got and what is queued are the records up to the
loader's position (`Reading`), and `eoq_` is set, while the stream is alive, only after
the end of the file was noticed or an uninitialised flag was believed (`Ending`).
`NobodyLeftAsleep`, the same as for the writer but for readers and loader, who sleep over
opposite states of the queue and so never together; a reader sleeps after the loader
has ended only if the constructor cleared what the loader had stored (`Announced`).

`Simulator_proofs`, for any steps, slices and intervals: types, `EveryStateOnce`,
`SlicesNotAhead`, `LogOncePerInstant`, `NeverAcross`, and `NeverPastEnd` and `RunShrinks` under
`EndsAhead` (the ends are given in order, as they are in the run but for its begin at 6). The slices are counted against the operations: the writer's counter
is the number of calls, and the TimeSlice has moved on by one interval for each call
it passed. For the LogTimeSlice, which multiplies, the invariant names the time at
which it was due between two of its calls and the power of the interval that leads from
there to the present one. `NeverPastEnd` needs that the time moves towards the end
and that a step is cut to what is left. `RunShrinks` adds that a step is never
nothing, so that a run has at most two phases for every unit of time to its end.

`SimpleSystem_proofs`, for any number of particles, any forces and energies, any even
steps and attempts of any length: types, `IncrementTracksState`, `KickReversible`, and of
`ReguSystem` `ReguTracksState`, `StepReversible`, `ArrayRoundTrip` and
`DerivativeIsRate`. The increment is right because states add up associatively and
the attempt begins in the state of the array while increments are collected
(`Attempts`); a kick is reversible because the three force evaluations of the way
back meet, in the opposite order, the velocities of the way there; with a
regularization also because a drift does not change the scale of drifts, nor a kick
that of kicks; for the same reason a move is its step times the derivative, and the parts
of the derivative of `bindE` add up because the contraction is linear (`BindEParts`). The array is read as it was written because the two numbers at its end
are fewer than the three coordinates of one more vector, and the division drops them.

`Chain_proofs`:

* The chain of a particle system, for any number of particles and any changes of the
  chain: types, `TwoViews`, and the refinement `IsReguSystem`. That Cartesian and chain
  coordinates determine each other is an induction along the chain; since the
  transformations are linear, sums of states and increments may be taken in either;
  and a change of the chain keeps the Cartesian state, which is what the refinement
  mapping sees.
* The scan for a chain, for any number of particles (at least 2) and any order of
  the pairs: types, `ChainShape`, `Complete`, `NearestFirst`, and that the result is a
  permutation (`ChainIndexIsIndex`), which is what `ChainSystem` takes for granted of it.
  The heart of the invariant is that every pair before `k` except the second can
  attach nothing, and that a used pair never can again; at the end of the scan every
  pair is before `k`, so if a particle were missing its pairs with head and tail, of
  which there are two, would both have to be the second pair. `ScanShrinks` bounds the
  loop by `(N - 1) * DistSize` passes: each attachment starts the scan again, but the list
  has one particle more, and no more than `N` (`ShortEnough`, by the pigeonhole principle).

`Iterators_proofs`:

* The order control of BulirschStoer, for any depth of at least 3, number of attempts
  and set of costs of one sign: types, `RankInRange`, `OverrunCause`,
  `NoUnexpectedAbort`, `ExhaustedCause`, `AcceptsConverged`. The order alone is not
  inductive: the invariant also bounds the column by the order while an attempt runs,
  ties the rows of the table to the attempt, and counts the rejections against the
  attempts. The run takes positive costs; the theorems also cover integration
  backwards in time, where the costs are negative and every comparison of them is
  turned round (the order may then stay at 1, `LowestRank`).
* `TakesTheFinest`, for any number of calls and refinements, and `CountsDown`, for any
  bounds on corrections and lengths.
* A symplectic step is undone by the step back (`Reversible`), for each of the six
  methods, any modulus and any force. While the step is undone the particle comes
  through the states of the way there (`OnItsPath`), since the fractions are the same
  from both ends and a drift or a kick is undone by its opposite.
* `WholeAndReversible`: besides, the fractions of each method make up one step, drifts and
  kicks alike, and its inner leapfrogs meet the conditions of the order its class
  declares, to the digits the model gives them. These are facts about the 122 constants. The
  sums and powers in them are recursive functions, which the provers do not compute, so
  `Iterators_proofs` lists the intermediate values (`Outer2nd` and its like) and shows that
  each follows from the one before (`TableSum`, `PowerNext`).
* `ExtrapolatesToZero`, for any depth of the table up to 10, any prime that divides none
  of the divisors, and any states, lengths and number of steps. The invariant (`BsInv`)
  says what the whole list holds during an attempt: at place `j` the value at 0 of the
  polynomial through the rows from `j` to the last. That a column makes it so is
  Neville's rule, proved from the weights of Lagrange's formula, of which the
  property is made (`WeightsOfAll`, `Neville`, `ColumnIs`); that an earlier attempt's rows
  do not matter follows from the order in which a column overwrites the list. For the
  leapfrogs, the state after any number of sub-steps has a closed form
  (`DriftKickDriftIs`, `KickDriftKickIs`), its difference from the solution is a multiple of
  the square of the sub-step (`RowIsExact`), and such a difference is extrapolated to
  nothing by two rows or more (`RowsExact`).
* `NothingRoundedOff`, for any even size of the mantissas and any summands: the three sums
  keep beside the number what was rounded off. The lemmas are those of the
  error-free sum of two numbers: the last digit of a sum is a multiple of the last digit
  of a summand or the other way round (`UlpChain`), and what is rounded off is itself a
  number (`RoundedOffIs`), so that the correction is computed exactly (`FastTwoSum`).

`IAS15_proofs`, for one to seven stages, any different nodes and any prime: the
lemmas of `Interpolates` and `PredictsSame`, which `Iterators_proofs` states as
theorems. A correction changes `g` at one place; that the polynomial then has the
values found at this node and keeps those at the nodes before is true because the
product of the differences with the nodes vanishes there, and that `b` follows is true
only if `b` and `g` agreed at the nodes before. So the invariant (`RadauTables`) is that
they agree (`TablesAgree`), whatever they were predicted from. The tables `g2b` and `b2g`
are shown to be those of the change between the two bases row by row, `rs` the
reciprocals of the products, and `est_b` the binomial coefficients, from which
`PredictsSame` follows by expanding the powers of `1 + q s`.

Only model-checked are the liveness properties: liveness under fairness is out of the
prover's reach. What each of them rests on is a safety property, and that is proved;
what remains to TLC is that fairness takes the steps that are left:

| liveness | why it can hold | what is left to fairness |
|---|---|---|
| `AcceptedIsTaken` | `WorkConserved`, `FifoQueue` | workers and notifiers take their steps |
| `DestroyEnds` | `OnlyMissedSleep`, `OnlyTowardsExit` | each worker's steps to its exit, at most two |
| `PushedIsWritten`, `DestructorEnds` of Opip | `WriterNotLeftAsleep`, `FileFollowsPushes` | the notification, then the writer's steps |
| `CallReturns`, `DestructorEnds` of Ipip | `NobodyLeftAsleep` | the notification, then the mutex |
| `Terminates` | `ScanShrinks` | one thread's steps |
| `RunEnds` | `RunShrinks` | one thread's steps |

## 7. Not modelled

* Third-party code in the tree: `mpfr.hpp`, `small-vector.hpp`, `taskflow/` and
  `catch.hpp`. They are most of the lines, and no model of SpaceHub can stand for them.
* Formulas in floating point without control of their own: forces, orbits,
  scattering, stellar and secular physics, the step controllers and error checkers
  (used by the models as sets of possible errors and ratios), and rounding outside of
  `CompensatedSum`.
* Formatting and parsing: writers, `IO.hpp`, the configuration reader; `Timer`.
* The parallel sub-steps behind `BS_SUBSTEP_PARALLEL`, which no build file sets.
* The blocking pops of ConcurrentDeque, which do not compile when instantiated.
* `octree`, which nothing uses.
