----------------------------- MODULE ThreadPool -----------------------------
(***************************************************************************)
(* multi-thread/thread_pool.h: a fixed set of workers that take tasks from *)
(* a shared queue under one mutex and one condition variable, client       *)
(* threads that commit tasks, and the destructor that stops and joins the  *)
(* workers.                                                                *)
(*                                                                         *)
(* A step of the model is what a thread does between two points at which   *)
(* another thread can see it.  A critical section is one step, except that *)
(* a worker that found the queue empty keeps the mutex until cv_.wait      *)
(* releases it: the destructor sets stop_ without the mutex, so it can run *)
(* in between.  That worker is at "blocking"; it is the only place where   *)
(* the mutex is held between two steps.  (The store of stop_ may also fall *)
(* between a commit's or a worker's last test of stop_ and the push or pop *)
(* behind it.  The store reads nothing and the mutex is held, so nobody    *)
(* sees which came first: the model lets the test count.)                  *)
(***************************************************************************)
EXTENDS Naturals, Sequences, FiniteSets

CONSTANTS
  Workers,      (* the threads the constructor creates                      *)
  Clients,      (* the threads that call commit                             *)
  MaxTasks,     (* max_tasks_                                               *)
  MaxCommits    (* bound of the model: how many commits may be accepted     *)

ASSUME PoolAssumption ==
  /\ Workers # {} /\ IsFiniteSet(Workers)
  /\ MaxTasks \in Nat
  /\ MaxCommits \in Nat

VARIABLES
  tasks,        (* tasks_: the accepted tasks, by the number of their commit *)
  stop,         (* stop_                                                     *)
  pc,           (* where each worker is                                      *)
  task,         (* the task each worker runs, 0 for none                     *)
  client,       (* where each client is                                      *)
  dtor,         (* where the destructor is                                   *)
  accepted,     (* history: how many commits were accepted                   *)
  started,      (* history: how many tasks were taken off the queue          *)
  finished,     (* history: the tasks that ran to their end                  *)
  missed        (* history: the workers past their test at notify_all        *)

vars == <<tasks, stop, pc, task, client, dtor, accepted, started, finished,
          missed>>

workerVars == <<pc, task, started, finished>>

(* The types of the variables.                                              *)
TypeOK ==
  /\ tasks \in Seq(Nat \ {0})
  /\ stop \in BOOLEAN
  /\ pc \in [Workers -> {"locking", "blocking", "waiting", "running", "exited"}]
  /\ task \in [Workers -> Nat]
  /\ client \in [Clients -> {"idle", "notifying"}]
  /\ dtor \in {"alive", "notifying", "joining", "done"}
  /\ accepted \in Nat
  /\ started \in Nat
  /\ finished \in SUBSET (Nat \ {0})
  /\ missed \in SUBSET Workers

Init ==
  /\ tasks = <<>>
  /\ stop = FALSE
  /\ pc = [w \in Workers |-> "locking"]
  /\ task = [w \in Workers |-> 0]
  /\ client = [c \in Clients |-> "idle"]
  /\ dtor = "alive"
  /\ accepted = 0
  /\ started = 0
  /\ finished = {}
  /\ missed = {}

LockFree == \A w \in Workers : pc[w] # "blocking"

Waiters == {w \in Workers : pc[w] = "waiting"}

-----------------------------------------------------------------------------
(* The worker loop.                                                         *)

(* The queue is empty and the pool is not stopped: the worker will wait.    *)
FindEmpty(w) ==
  /\ pc[w] = "locking"
  /\ LockFree
  /\ ~stop /\ tasks = <<>>
  /\ pc' = [pc EXCEPT ![w] = "blocking"]
  /\ UNCHANGED <<tasks, stop, task, client, dtor, accepted, started, finished,
                 missed>>

(* cv_.wait releases the mutex and joins the waiters atomically.            *)
Block(w) ==
  /\ pc[w] = "blocking"
  /\ pc' = [pc EXCEPT ![w] = "waiting"]
  /\ UNCHANGED <<tasks, stop, task, client, dtor, accepted, started, finished,
                 missed>>

(* A wake-up nobody asked for; the standard allows it, nothing promises it. *)
SpuriousWakeup(w) ==
  /\ pc[w] = "waiting"
  /\ pc' = [pc EXCEPT ![w] = "locking"]
  /\ UNCHANGED <<tasks, stop, task, client, dtor, accepted, started, finished,
                 missed>>

(* Mutant of Popped: front() without pop().                                 *)
NotPopped == tasks

Popped == Tail(tasks)

Take(w) ==
  /\ pc[w] = "locking"
  /\ LockFree
  /\ ~stop /\ tasks # <<>>
  /\ task' = [task EXCEPT ![w] = Head(tasks)]
  /\ tasks' = Popped
  /\ pc' = [pc EXCEPT ![w] = "running"]
  /\ started' = started + 1
  /\ UNCHANGED <<stop, client, dtor, accepted, finished, missed>>

(* stop_ is tested first: the tasks still queued are not run.               *)
Exit(w) ==
  /\ pc[w] = "locking"
  /\ LockFree
  /\ stop
  /\ pc' = [pc EXCEPT ![w] = "exited"]
  /\ UNCHANGED <<tasks, stop, task, client, dtor, accepted, started, finished,
                 missed>>

Finish(w) ==
  /\ pc[w] = "running"
  /\ finished' = finished \cup {task[w]}
  /\ task' = [task EXCEPT ![w] = 0]
  /\ pc' = [pc EXCEPT ![w] = "locking"]
  /\ UNCHANGED <<tasks, stop, client, dtor, accepted, started, missed>>

-----------------------------------------------------------------------------
(* commit.  A refused commit throws and changes nothing.                    *)

Accepts == ~stop /\ ~(Len(tasks) > MaxTasks)

Ticket == accepted + 1

(* Mutant of Pushed: the new task overtakes the others.                     *)
PushedInFront == <<Ticket>> \o tasks

Pushed == Append(tasks, Ticket)

Commit(c) ==
  /\ client[c] = "idle" /\ dtor # "done"
  /\ accepted < MaxCommits
  /\ LockFree
  /\ Accepts
  /\ accepted' = accepted + 1
  /\ tasks' = Pushed
  /\ client' = [client EXCEPT ![c] = "notifying"]
  /\ UNCHANGED <<stop, dtor, missed, workerVars>>

(* Mutant of NotifyOne: commit forgets to notify.                           *)
NotifyNobody(c) ==
  /\ client[c] = "notifying"
  /\ client' = [client EXCEPT ![c] = "idle"]
  /\ UNCHANGED <<tasks, stop, dtor, accepted, missed, workerVars>>

(* notify_one after the mutex is released: any one waiter, if there is one. *)
NotifyOne(c) ==
  /\ client[c] = "notifying"
  /\ client' = [client EXCEPT ![c] = "idle"]
  /\ \/ Waiters = {} /\ pc' = pc
     \/ \E w \in Waiters : pc' = [pc EXCEPT ![w] = "locking"]
  /\ UNCHANGED <<tasks, stop, task, dtor, accepted, started, finished, missed>>

-----------------------------------------------------------------------------
(* The destructor: one thread, while clients may still be calling commit.   *)

SetStop ==
  /\ dtor = "alive"
  /\ dtor' = "notifying"
  /\ stop' = TRUE
  /\ UNCHANGED <<tasks, client, accepted, missed, workerVars>>

(* Mutant of WokenByStop: notify_one in place of notify_all.                *)
OneWokenByStop == IF Waiters = {} THEN {} ELSE {CHOOSE w \in Waiters : TRUE}

WokenByStop == Waiters

NotifyAll ==
  /\ dtor = "notifying"
  /\ dtor' = "joining"
  /\ pc' = [w \in Workers |-> IF w \in WokenByStop THEN "locking" ELSE pc[w]]
  /\ missed' = {w \in Workers : pc[w] = "blocking"}
  /\ UNCHANGED <<tasks, stop, task, client, accepted, started, finished>>

(* Mutant of AllJoined: the threads are detached.                           *)
AllDetached == TRUE

AllJoined == \A w \in Workers : pc[w] = "exited"

(* Every join returns, the calls in progress have left, and the members are *)
(* destroyed: the queue goes with the tasks that were never taken.          *)
Destroy ==
  /\ dtor = "joining"
  /\ AllJoined
  /\ \A c \in Clients : client[c] = "idle"
  /\ dtor' = "done"
  /\ tasks' = <<>>
  /\ UNCHANGED <<stop, client, accepted, missed, workerVars>>

-----------------------------------------------------------------------------
WorkerStep(w) ==
  FindEmpty(w) \/ Block(w) \/ Take(w) \/ Exit(w) \/ Finish(w)

Next ==
  \/ \E w \in Workers :
       \/ FindEmpty(w) \/ Block(w) \/ SpuriousWakeup(w)
       \/ Take(w) \/ Exit(w) \/ Finish(w)
  \/ \E c \in Clients : Commit(c) \/ NotifyOne(c)
  \/ SetStop \/ NotifyAll \/ Destroy

(* Threads are scheduled and tasks end; nobody has to commit a task or to   *)
(* destroy the pool, and no spurious wake-up is owed.  The mutex is not     *)
(* fair, so a worker may lose it again and again, but not for ever while    *)
(* the others sleep: weak fairness per worker is enough, because a worker   *)
(* that holds it ("blocking") releases it in its next step.                 *)
Fairness ==
  /\ \A w \in Workers : WF_vars(WorkerStep(w))
  /\ \A c \in Clients : WF_vars(NotifyOne(c))
  /\ WF_vars(NotifyAll) /\ WF_vars(Destroy)

Spec == Init /\ [][Next]_vars /\ Fairness
-----------------------------------------------------------------------------
(* The queue never holds more than max_tasks_ + 1 tasks: commit compares    *)
(* with >, so the queue grows by one past the limit it was given.           *)
QueueBound == Len(tasks) <= MaxTasks + 1

(* Tasks are taken in the order of their commits, each once: what is queued *)
(* is exactly what was accepted and not yet taken, in commit order.         *)
FifoQueue ==
  dtor # "done" => /\ accepted = started + Len(tasks)
                   /\ \A i \in 1..Len(tasks) : tasks[i] = started + i

(* A task that left the queue is run by exactly one worker or has finished, *)
(* never both, and no two workers run the same task.                        *)
RunsOnce ==
  /\ \A w \in Workers : (pc[w] = "running") <=> (task[w] # 0)
  /\ \A w \in Workers : task[w] # 0 => task[w] <= started /\ task[w] \notin finished
  /\ \A v, w \in Workers : task[v] = task[w] /\ task[v] # 0 => v = w
  /\ \A t \in 1..started : t \in finished \/ \E w \in Workers : task[w] = t

(* When the destructor is done no worker is left and no task was cut short: *)
(* every task that was started has finished.                                *)
NothingCutShort ==
  dtor = "done" => /\ \A w \in Workers : pc[w] = "exited"
                   /\ finished = 1..started

(* After notify_all only a worker that had already tested stop_, and held   *)
(* the mutex on its way into cv_.wait, can be asleep: those are the workers *)
(* that the unlocked store of stop_ loses.                                  *)
OnlyMissedSleep ==
  dtor \in {"joining", "done"} =>
    \A w \in Workers : pc[w] \in {"blocking", "waiting"} => w \in missed

Locking == {w \in Workers : pc[w] = "locking"}

Notifying == {c \in Clients : client[c] = "notifying"}

(* No worker sleeps over work: while one is asleep, each queued task has a  *)
(* worker on its way to the queue or a commit that is still to notify one.  *)
(* This is what makes one notify_one per commit enough (AcceptedIsTaken).   *)
WorkConserved ==
  ~stop /\ Waiters # {} =>
    Len(tasks) <= Cardinality(Locking) + Cardinality(Notifying)

(* A stopped pool accepts nothing, takes nothing and starts nothing.        *)
NothingStartsAfterStop ==
  [][stop => accepted' = accepted /\ started' = started]_vars

(* While the destructor joins, a worker that was not missed only goes on to *)
(* its end: it finishes the task it runs, finds stop_ set, and leaves.      *)
OnlyTowardsExit ==
  [][dtor = "joining" =>
       \A w \in Workers \ missed :
         \/ pc'[w] = pc[w]
         \/ pc[w] = "running" /\ pc'[w] = "locking"
         \/ pc[w] = "locking" /\ pc'[w] = "exited"]_vars

(* A task accepted by a pool that is not stopped is taken: the notify_one   *)
(* after the unlock is never lost, since commit and the test of the queue   *)
(* exclude each other.                                                      *)
AcceptedIsTaken ==
  \A n \in 1..MaxCommits : (accepted >= n) ~> (started >= n \/ stop)

(* Unless a worker was caught between its test and its wait, destroying the *)
(* pool ends.                                                               *)
DestroyEnds == (dtor = "joining" /\ missed = {}) ~> (dtor = "done")
=============================================================================
