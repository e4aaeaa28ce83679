-------------------------- MODULE MultiThread_proofs --------------------------
(***************************************************************************)
(* Proofs about the modules of the multi-thread directory.                 *)
(*                                                                         *)
(* ThreadPool, for every set of workers and clients and every limit.  The  *)
(* inductive invariant is PoolInv: the types, the queue's numbering, the   *)
(* disjoint places of a task, two facts about the destructor (stop_ is set *)
(* once it has begun, and its wake-up reached everybody but the workers in *)
(* missed), and that no worker sleeps over a task nobody comes for.        *)
(*                                                                         *)
(* multi_threads_loop, for any length and any number of threads: which     *)
(* indices it does, that it does each of them once whatever the order of   *)
(* the threads, and that nothing is done after it has returned.            *)
(*                                                                         *)
(* ConcurrentFile, for any number of jobs, tuples and fields: the file is  *)
(* whole tuples but for what the holder of the mutex has put or got of     *)
(* one, and each tuple is one job's.                                       *)
(***************************************************************************)
EXTENDS MultiThread, ThreadPool, FiniteSetTheorems, TLAPS

-----------------------------------------------------------------------------
(* ThreadPool.                                                              *)

(* stop_ is set by the destructor and by nothing else, and a worker leaves  *)
(* only then.                                                               *)
StopIsDestructor ==
  /\ stop <=> dtor # "alive"
  /\ \A w \in Workers : pc[w] = "exited" => stop
  /\ dtor = "done" => \A w \in Workers : pc[w] = "exited"

(* The finished tasks are among the started ones.                           *)
FinishedStarted == finished \subseteq 1..started

(* A worker on its way into cv_.wait keeps the mutex, so nothing is queued  *)
(* until it sleeps; what is queued later is not slept over.                 *)
Asleep ==
  /\ \A w \in Workers : pc[w] = "blocking" /\ ~stop => tasks = <<>>
  /\ IsFiniteSet(Notifying)
  /\ WorkConserved

PoolInv ==
  /\ TypeOK
  /\ QueueBound
  /\ FifoQueue
  /\ RunsOnce
  /\ FinishedStarted
  /\ StopIsDestructor
  /\ OnlyMissedSleep
  /\ Asleep

-----------------------------------------------------------------------------
(* Every step keeps the types of the variables; that a running worker has a *)
(* task (RunsOnce) is what types the set of finished tasks.                 *)
LEMMA TypeStep == TypeOK /\ RunsOnce /\ [Next]_vars => TypeOK'
<1> SUFFICES ASSUME TypeOK, RunsOnce, [Next]_vars PROVE TypeOK'
  OBVIOUS
<1> USE PoolAssumption DEF TypeOK
<1>1. ASSUME NEW w \in Workers, FindEmpty(w) PROVE TypeOK'
  BY <1>1 DEF FindEmpty
<1>2. ASSUME NEW w \in Workers, Block(w) PROVE TypeOK'
  BY <1>2 DEF Block
<1>3. ASSUME NEW w \in Workers, SpuriousWakeup(w) PROVE TypeOK'
  BY <1>3 DEF SpuriousWakeup
<1>4. ASSUME NEW w \in Workers, Take(w) PROVE TypeOK'
  BY <1>4 DEF Take, Popped
<1>5. ASSUME NEW w \in Workers, Exit(w) PROVE TypeOK'
  BY <1>5 DEF Exit
<1>6. ASSUME NEW w \in Workers, Finish(w) PROVE TypeOK'
  <2>1. task[w] \in Nat \ {0}
    BY <1>6 DEF Finish, RunsOnce
  <2>2. QED BY <1>6, <2>1 DEF Finish
<1>7. ASSUME NEW c \in Clients, Commit(c) PROVE TypeOK'
  BY <1>7 DEF Commit, Pushed, Ticket, workerVars
<1>8. ASSUME NEW c \in Clients, NotifyOne(c) PROVE TypeOK'
  BY <1>8 DEF NotifyOne, Waiters
<1>9. CASE SetStop
  BY <1>9 DEF SetStop, workerVars
<1>10. CASE NotifyAll
  BY <1>10 DEF NotifyAll
<1>11. CASE Destroy
  BY <1>11 DEF Destroy, workerVars
<1>12. CASE UNCHANGED vars
  BY <1>12 DEF vars
<1> QED
  BY <1>1, <1>2, <1>3, <1>4, <1>5, <1>6, <1>7, <1>8, <1>9, <1>10, <1>11,
     <1>12 DEF Next

(* Every step keeps the queue in commit order and within its bound.         *)
LEMMA PoolQueueStep ==
  TypeOK /\ QueueBound /\ FifoQueue /\ [Next]_vars => QueueBound' /\ FifoQueue'
<1> SUFFICES ASSUME TypeOK, QueueBound, FifoQueue, [Next]_vars
             PROVE  QueueBound' /\ FifoQueue'
  OBVIOUS
<1> USE PoolAssumption DEF TypeOK, QueueBound, FifoQueue
<1>1. ASSUME UNCHANGED <<tasks, dtor, accepted, started>>
      PROVE  QueueBound' /\ FifoQueue'
  BY <1>1
<1>2. ASSUME NEW w \in Workers, Take(w) PROVE QueueBound' /\ FifoQueue'
  <2>1. /\ tasks # <<>> /\ tasks' = Tail(tasks)
        /\ started' = started + 1
        /\ UNCHANGED <<dtor, accepted>>
    BY <1>2 DEF Take, Popped
  <2>2. /\ Len(tasks') = Len(tasks) - 1
        /\ \A i \in 1..Len(tasks') : tasks'[i] = tasks[i + 1]
    BY <2>1
  <2>3. QueueBound'
    BY <2>2
  <2>4. ASSUME dtor' # "done", NEW i \in 1..Len(tasks')
        PROVE  tasks'[i] = started' + i
    <3>1. i + 1 \in 1..Len(tasks)
      BY <2>1, <2>2
    <3>2. tasks[i + 1] = started + (i + 1)
      BY <2>1, <2>4, <3>1
    <3> QED BY <2>1, <2>2, <3>2
  <2> QED BY <2>1, <2>2, <2>3, <2>4
<1>3. ASSUME NEW c \in Clients, Commit(c) PROVE QueueBound' /\ FifoQueue'
  <2>1. /\ ~(Len(tasks) > MaxTasks) /\ dtor # "done"
        /\ accepted' = accepted + 1
        /\ tasks' = Append(tasks, accepted + 1)
        /\ UNCHANGED <<dtor, started>>
    BY <1>3 DEF Commit, Pushed, Ticket, Accepts, workerVars
  <2>2. /\ Len(tasks') = Len(tasks) + 1
        /\ tasks'[Len(tasks) + 1] = accepted + 1
        /\ \A i \in 1..Len(tasks) : tasks'[i] = tasks[i]
    BY <2>1
  <2>3. QueueBound'
    BY <2>1, <2>2
  <2>4. ASSUME NEW i \in 1..Len(tasks')
        PROVE  tasks'[i] = started' + i
    <3>1. CASE i = Len(tasks) + 1
      BY <2>1, <2>2, <3>1
    <3>2. CASE i \in 1..Len(tasks)
      BY <2>1, <2>2, <3>2
    <3> QED BY <2>2, <3>1, <3>2
  <2> QED BY <2>1, <2>2, <2>3, <2>4
<1>4. CASE SetStop \/ NotifyAll
  BY <1>4 DEF SetStop, NotifyAll, workerVars
<1>5. CASE Destroy
  BY <1>5 DEF Destroy, workerVars
<1> QED
  BY <1>1, <1>2, <1>3, <1>4, <1>5
  DEF Next, vars, FindEmpty, Block, SpuriousWakeup, Exit, Finish, NotifyOne

(* Every step keeps each task in one place: taking a task uses the numbering *)
(* of the queue, since the task at its front has not been started before.   *)
LEMMA RunsOnceStep ==
  TypeOK /\ FifoQueue /\ RunsOnce /\ FinishedStarted /\ StopIsDestructor
    /\ [Next]_vars => RunsOnce' /\ FinishedStarted'
<1> SUFFICES ASSUME TypeOK, FifoQueue, RunsOnce, FinishedStarted,
                    StopIsDestructor, [Next]_vars
             PROVE  RunsOnce' /\ FinishedStarted'
  OBVIOUS
<1> USE DEF TypeOK, RunsOnce, FinishedStarted
<1>1. ASSUME NEW w \in Workers, Take(w) PROVE RunsOnce' /\ FinishedStarted'
  <2>1. dtor # "done"
    BY <1>1 DEF Take, StopIsDestructor
  <2>2. task[w] = 0 /\ started' = started + 1
    BY <1>1 DEF Take
  <2>3. task' = [task EXCEPT ![w] = started + 1]
    <3>1. 1 \in 1..Len(tasks) /\ Head(tasks) = tasks[1]
      BY <1>1 DEF Take
    <3> QED BY <1>1, <2>1, <3>1 DEF Take, FifoQueue
  <2>4. /\ pc' = [pc EXCEPT ![w] = "running"]
        /\ finished' = finished
    BY <1>1 DEF Take
  <2>5. \A t \in 1..started' : t \in finished' \/ \E v \in Workers : task'[v] = t
    <3> SUFFICES ASSUME NEW t \in 1..started',
                        t \notin finished'
                 PROVE  \E v \in Workers : task'[v] = t
      OBVIOUS
    <3>1. CASE t = started + 1
      BY <3>1, <2>3
    <3>2. CASE t # started + 1
      <4>1. PICK v \in Workers : task[v] = t
        BY <3>2, <2>2, <2>4
      <4>2. v # w
        BY <4>1, <2>2
      <4> QED BY <4>1, <4>2, <2>3
    <3> QED BY <3>1, <3>2
  <2>6. \A v \in Workers : task'[v] # 0 => task'[v] <= started' /\ task'[v] \notin finished'
    BY <2>2, <2>3, <2>4
  <2>7. \A u, v \in Workers : task'[u] = task'[v] /\ task'[u] # 0 => u = v
    BY <2>2, <2>3
  <2>8. \A v \in Workers : (pc'[v] = "running") <=> (task'[v] # 0)
    BY <2>3, <2>4
  <2>9. FinishedStarted'
    BY <2>2, <2>4
  <2> QED BY <2>5, <2>6, <2>7, <2>8, <2>9
<1>2. ASSUME NEW w \in Workers, Finish(w) PROVE RunsOnce' /\ FinishedStarted'
  <2>1. /\ pc' = [pc EXCEPT ![w] = "locking"]
        /\ task' = [task EXCEPT ![w] = 0]
        /\ finished' = finished \cup {task[w]}
        /\ started' = started
        /\ task[w] # 0
    BY <1>2 DEF Finish
  <2>2. \A t \in 1..started' : t \in finished' \/ \E v \in Workers : task'[v] = t
    <3> SUFFICES ASSUME NEW t \in 1..started', t \notin finished'
                 PROVE  \E v \in Workers : task'[v] = t
      OBVIOUS
    <3>1. PICK v \in Workers : task[v] = t
      BY <2>1
    <3>2. v # w
      BY <3>1, <2>1
    <3> QED BY <3>1, <3>2, <2>1
  <2>3. \A v \in Workers : task'[v] # 0 => task'[v] <= started' /\ task'[v] \notin finished'
    BY <2>1
  <2>4. FinishedStarted'
    <3>1. task[w] \in 1..started
      BY <2>1
    <3> QED BY <2>1, <3>1
  <2>5. \A u, v \in Workers : task'[u] = task'[v] /\ task'[u] # 0 => u = v
    BY <2>1
  <2>6. \A v \in Workers : (pc'[v] = "running") <=> (task'[v] # 0)
    BY <2>1
  <2> QED BY <2>2, <2>3, <2>4, <2>5, <2>6
<1>3. ASSUME UNCHANGED <<task, started, finished>>,
             \A w \in Workers : (pc'[w] = "running") <=> (pc[w] = "running")
      PROVE  RunsOnce' /\ FinishedStarted'
  BY <1>3
<1>4. ASSUME NEW w \in Workers, FindEmpty(w) \/ Block(w) \/ SpuriousWakeup(w) \/ Exit(w)
      PROVE  RunsOnce' /\ FinishedStarted'
  BY <1>3, <1>4 DEF FindEmpty, Block, SpuriousWakeup, Exit
<1>5. ASSUME NEW c \in Clients, Commit(c) \/ NotifyOne(c)
      PROVE  RunsOnce' /\ FinishedStarted'
  BY <1>3, <1>5 DEF Commit, NotifyOne, Waiters, workerVars
<1>6. CASE SetStop \/ NotifyAll \/ Destroy
  BY <1>3, <1>6 DEF SetStop, NotifyAll, WokenByStop, Waiters, Destroy, workerVars
<1>7. CASE UNCHANGED vars
  BY <1>3, <1>7 DEF vars
<1> QED
  BY <1>1, <1>2, <1>4, <1>5, <1>6, <1>7 DEF Next

(* Every step keeps what is known of the destructor.                        *)
LEMMA DestructorStep ==
  TypeOK /\ RunsOnce /\ StopIsDestructor /\ OnlyMissedSleep /\ [Next]_vars
    => StopIsDestructor' /\ OnlyMissedSleep'
<1> SUFFICES ASSUME TypeOK, RunsOnce, StopIsDestructor, OnlyMissedSleep, [Next]_vars
             PROVE  StopIsDestructor' /\ OnlyMissedSleep'
  OBVIOUS
<1> USE DEF TypeOK, StopIsDestructor, OnlyMissedSleep
<1>1. ASSUME NEW w \in Workers,
             FindEmpty(w) \/ Block(w) \/ SpuriousWakeup(w) \/ Take(w) \/ Exit(w) \/ Finish(w)
      PROVE  StopIsDestructor' /\ OnlyMissedSleep'
  BY <1>1 DEF FindEmpty, Block, SpuriousWakeup, Take, Exit, Finish
<1>2. ASSUME NEW c \in Clients, Commit(c) \/ NotifyOne(c)
      PROVE  StopIsDestructor' /\ OnlyMissedSleep'
  BY <1>2 DEF Commit, NotifyOne, Waiters, workerVars
<1>3. CASE SetStop
  BY <1>3 DEF SetStop, workerVars
<1>4. CASE NotifyAll
  BY <1>4 DEF NotifyAll, WokenByStop, Waiters
<1>5. CASE Destroy
  BY <1>5 DEF Destroy, AllJoined, workerVars
<1>6. CASE UNCHANGED vars
  BY <1>6 DEF vars
<1> QED
  BY <1>1, <1>2, <1>3, <1>4, <1>5, <1>6 DEF Next

-----------------------------------------------------------------------------
(* No worker sleeps over work.                                              *)
LEMMA LockingFinite ==
  IsFiniteSet(Locking) /\ Cardinality(Locking) \in Nat
<1>1. Locking \subseteq Workers
  BY DEF Locking
<1>2. IsFiniteSet(Locking)
  BY <1>1, PoolAssumption, FS_Subset
<1> QED BY <1>2, FS_CardinalityType

(* One worker less on its way to the queue is one less.                     *)
LEMMA LockingLess ==
  ASSUME TypeOK, NEW w \in Locking, NEW to,
         to \in {"blocking", "running", "exited"},
         pc' = [pc EXCEPT ![w] = to]
  PROVE  Locking' = Locking \ {w} /\ Cardinality(Locking') = Cardinality(Locking) - 1
<1>1. Locking' = Locking \ {w}
  BY DEF Locking, TypeOK
<1>2. Cardinality(Locking \ {w}) = Cardinality(Locking) - 1
  BY LockingFinite, FS_RemoveElement
<1> QED BY <1>1, <1>2

(* One more is one more.                                                    *)
LEMMA LockingMore ==
  ASSUME TypeOK, NEW w \in Workers, pc[w] # "locking", pc' = [pc EXCEPT ![w] = "locking"]
  PROVE  Locking' = Locking \cup {w} /\ Cardinality(Locking') = Cardinality(Locking) + 1
<1>1. Locking' = Locking \cup {w} /\ w \notin Locking
  BY DEF Locking, TypeOK
<1>2. Cardinality(Locking \cup {w}) = Cardinality(Locking) + 1
  BY <1>1, LockingFinite, FS_AddElement
<1> QED BY <1>1, <1>2

(* A worker that is neither on its way to the queue before nor after its    *)
(* step does not count.                                                     *)
LEMMA AsleepWorker ==
  ASSUME TypeOK, Asleep, NEW w \in Workers,
         FindEmpty(w) \/ Block(w) \/ SpuriousWakeup(w) \/ Take(w) \/ Exit(w) \/ Finish(w)
  PROVE  Asleep'
<1>1. /\ Notifying' = Notifying /\ stop' = stop
      /\ IsFiniteSet(Notifying) /\ Cardinality(Notifying) \in Nat
  BY FS_CardinalityType
  DEF Asleep, FindEmpty, Block, SpuriousWakeup, Take, Exit, Finish, Notifying
<1>2. tasks \in Seq(Nat \ {0}) /\ Len(tasks) \in Nat /\ stop \in BOOLEAN
  BY DEF TypeOK
<1>3. Cardinality(Locking) \in Nat /\ Cardinality(Locking)' \in Nat
  <2>1. Locking' \subseteq Workers
    BY DEF Locking
  <2>2. IsFiniteSet(Locking')
    BY <2>1, PoolAssumption, FS_Subset
  <2> QED BY <2>2, LockingFinite, FS_CardinalityType
<1>4. ~stop /\ Waiters # {} => Len(tasks) <= Cardinality(Locking) + Cardinality(Notifying)
  BY DEF Asleep, WorkConserved
<1>5. CASE FindEmpty(w)
  <2>1. tasks' = <<>> /\ Len(<<>>) = 0
    BY <1>5 DEF FindEmpty
  <2> QED BY <1>1, <1>3, <2>1 DEF Asleep, WorkConserved
<1>6. CASE Block(w)
  <2>1. ~stop => tasks' = <<>> /\ Len(<<>>) = 0
    BY <1>6 DEF Block, Asleep
  <2> QED BY <1>1, <1>3, <2>1 DEF Asleep, WorkConserved
<1>7. CASE SpuriousWakeup(w) \/ Finish(w)
  <2>1. pc[w] # "locking" /\ pc' = [pc EXCEPT ![w] = "locking"] /\ tasks' = tasks
    BY <1>7 DEF SpuriousWakeup, Finish
  <2>2. Cardinality(Locking') = Cardinality(Locking) + 1
    BY <2>1, LockingMore
  <2>3. Waiters' \subseteq Waiters
    BY <2>1 DEF Waiters, TypeOK
  <2>4. \A v \in Workers : pc'[v] = "blocking" => pc[v] = "blocking"
    BY <2>1 DEF TypeOK
  <2> QED BY <1>1, <1>2, <1>3, <1>4, <2>1, <2>2, <2>3, <2>4 DEF Asleep, WorkConserved
<1>8. CASE Take(w)
  <2>1. /\ w \in Locking /\ pc' = [pc EXCEPT ![w] = "running"]
        /\ tasks # <<>> /\ tasks' = Tail(tasks) /\ \A v \in Workers : pc[v] # "blocking"
    BY <1>8 DEF Take, Popped, Locking, LockFree
  <2>2. Cardinality(Locking') = Cardinality(Locking) - 1
    BY <2>1, LockingLess
  <2>3. Waiters' \subseteq Waiters /\ \A v \in Workers : pc'[v] # "blocking"
    BY <2>1 DEF Waiters, TypeOK
  <2>4. Len(tasks') = Len(tasks) - 1
    BY <1>2, <2>1
  <2> QED BY <1>1, <1>2, <1>3, <1>4, <2>2, <2>3, <2>4 DEF Asleep, WorkConserved
<1>9. CASE Exit(w)
  BY <1>1, <1>9 DEF Exit, Asleep, WorkConserved
<1> QED
  BY <1>5, <1>6, <1>7, <1>8, <1>9

LEMMA AsleepClient ==
  ASSUME TypeOK, Asleep, NEW c \in Clients, Commit(c) \/ NotifyOne(c)
  PROVE  Asleep'
<1>1. IsFiniteSet(Notifying) /\ Cardinality(Notifying) \in Nat /\ stop' = stop
  BY FS_CardinalityType DEF Asleep, Commit, NotifyOne
<1>2. tasks \in Seq(Nat \ {0}) /\ Len(tasks) \in Nat /\ stop \in BOOLEAN
  BY DEF TypeOK
<1>3. ~stop /\ Waiters # {} => Len(tasks) <= Cardinality(Locking) + Cardinality(Notifying)
  BY DEF Asleep, WorkConserved
<1>4. CASE Commit(c)
  <2>1. /\ client[c] = "idle" /\ client' = [client EXCEPT ![c] = "notifying"]
        /\ pc' = pc /\ \A w \in Workers : pc[w] # "blocking"
        /\ tasks' = Append(tasks, accepted + 1) /\ accepted \in Nat
    BY <1>4 DEF Commit, Pushed, Ticket, LockFree, workerVars, TypeOK
  <2>2. Notifying' = Notifying \cup {c} /\ c \notin Notifying
    BY <2>1 DEF Notifying, TypeOK
  <2>3. IsFiniteSet(Notifying') /\ Cardinality(Notifying') = Cardinality(Notifying) + 1
    BY <1>1, <2>2, FS_AddElement
  <2>4. Len(tasks') = Len(tasks) + 1
    BY <1>2, <2>1
  <2>5. Locking' = Locking /\ Waiters' = Waiters
    BY <2>1 DEF Locking, Waiters
  <2> QED BY <1>1, <1>2, <1>3, <2>1, <2>3, <2>4, <2>5, LockingFinite DEF Asleep, WorkConserved
<1>5. CASE NotifyOne(c)
  <2>1. /\ client[c] = "notifying" /\ client' = [client EXCEPT ![c] = "idle"]
        /\ tasks' = tasks
    BY <1>5 DEF NotifyOne
  <2>2. Notifying' = Notifying \ {c} /\ c \in Notifying
    BY <2>1 DEF Notifying, TypeOK
  <2>3. IsFiniteSet(Notifying') /\ Cardinality(Notifying') = Cardinality(Notifying) - 1
    BY <1>1, <2>2, FS_RemoveElement
  <2>4. CASE Waiters = {} /\ pc' = pc
    <3>1. Waiters' = {}
      BY <2>4 DEF Waiters
    <3> QED BY <1>1, <2>1, <2>3, <2>4, <3>1 DEF Asleep, WorkConserved
  <2>5. CASE \E w \in Waiters : pc' = [pc EXCEPT ![w] = "locking"]
    <3>1. PICK w \in Waiters : pc' = [pc EXCEPT ![w] = "locking"]
      BY <2>5
    <3>2. w \in Workers /\ pc[w] # "locking"
      BY DEF Waiters
    <3>3. Cardinality(Locking') = Cardinality(Locking) + 1
      BY <3>1, <3>2, LockingMore
    <3>4. \A v \in Workers : pc'[v] = "blocking" => pc[v] = "blocking"
      BY <3>1, <3>2 DEF TypeOK
    <3> QED BY <1>1, <1>2, <1>3, <2>1, <2>3, <3>1, <3>3, <3>4, LockingFinite
            DEF Asleep, WorkConserved
  <2> QED BY <1>5, <2>4, <2>5 DEF NotifyOne
<1> QED
  BY <1>4, <1>5

LEMMA AsleepStep == TypeOK /\ StopIsDestructor /\ Asleep /\ [Next]_vars => Asleep'
<1> SUFFICES ASSUME TypeOK, StopIsDestructor, Asleep, [Next]_vars PROVE Asleep'
  OBVIOUS
<1>1. ASSUME SetStop \/ NotifyAll \/ Destroy PROVE Asleep'
  <2>1. stop' /\ Notifying' = Notifying
    BY <1>1 DEF SetStop, NotifyAll, Destroy, StopIsDestructor, Notifying, TypeOK
  <2> QED BY <2>1 DEF Asleep, WorkConserved
<1>2. CASE UNCHANGED vars
  BY <1>2 DEF vars, Asleep, WorkConserved, Waiters, Locking, Notifying
<1> QED
  BY <1>1, <1>2, AsleepWorker, AsleepClient DEF Next

-----------------------------------------------------------------------------
(* The inductive invariant holds in every behaviour of the pool.            *)
THEOREM PoolInvariant == Spec => []PoolInv
<1>1. Init => PoolInv
  <2> SUFFICES ASSUME Init PROVE PoolInv
    OBVIOUS
  <2> USE PoolAssumption DEF Init
  <2>1. TypeOK
    <3>1. tasks \in Seq(Nat \ {0})
      OBVIOUS
    <3> QED BY <3>1 DEF TypeOK
  <2>2. QueueBound /\ FifoQueue
    BY DEF QueueBound, FifoQueue
  <2>3. RunsOnce
    BY DEF RunsOnce
  <2>4. FinishedStarted /\ StopIsDestructor /\ OnlyMissedSleep
    BY DEF FinishedStarted, StopIsDestructor, OnlyMissedSleep
  <2>5. Asleep
    <3>1. Notifying = {} /\ Waiters = {} /\ \A w \in Workers : pc[w] # "blocking"
      BY DEF Notifying, Waiters
    <3> QED BY <3>1, FS_EmptySet DEF Asleep, WorkConserved
  <2> QED BY <2>1, <2>2, <2>3, <2>4, <2>5 DEF PoolInv
<1>2. PoolInv /\ [Next]_vars => PoolInv'
  BY TypeStep, PoolQueueStep, RunsOnceStep, DestructorStep, AsleepStep DEF PoolInv
<1> QED
  BY <1>1, <1>2, PTL DEF Spec

(* The variables keep their types (thread_pool.h:40-45).                    *)
THEOREM PoolTypes == Spec => []TypeOK
BY PoolInvariant, PTL DEF PoolInv

(* commit's test lets the queue grow to max_tasks_ + 1 and no further.      *)
THEOREM PoolQueueBound == Spec => []QueueBound
BY PoolInvariant, PTL DEF PoolInv

(* Tasks leave the queue in the order of their commits; none is lost while  *)
(* the pool exists.                                                         *)
THEOREM PoolFifo == Spec => []FifoQueue
BY PoolInvariant, PTL DEF PoolInv

(* No task is run twice or by two workers.                                  *)
THEOREM PoolRunsOnce == Spec => []RunsOnce
BY PoolInvariant, PTL DEF PoolInv

(* The destructor returns only when every started task has finished.        *)
THEOREM PoolNothingCutShort == Spec => []NothingCutShort
<1>1. PoolInv => NothingCutShort
  <2> SUFFICES ASSUME PoolInv, dtor = "done"
               PROVE  finished = 1..started /\ \A w \in Workers : pc[w] = "exited"
    BY DEF NothingCutShort
  <2>1. \A w \in Workers : pc[w] = "exited" /\ task[w] = 0
    BY DEF PoolInv, StopIsDestructor, RunsOnce, TypeOK
  <2>2. \A t \in 1..started : t \in finished
    BY <2>1 DEF PoolInv, RunsOnce, TypeOK
  <2> QED BY <2>1, <2>2 DEF PoolInv, FinishedStarted
<1> QED
  BY <1>1, PoolInvariant, PTL

(* After notify_all only the workers caught between test and wait sleep.    *)
THEOREM PoolOnlyMissedSleep == Spec => []OnlyMissedSleep
BY PoolInvariant, PTL DEF PoolInv

(* While a worker is asleep every queued task has a worker on its way to it *)
(* or a notification to come (thread_pool.h:53-95): no wake-up is lost.     *)
THEOREM PoolWorkConserved == Spec => []WorkConserved
BY PoolInvariant, PTL DEF PoolInv, Asleep

(* While the destructor joins, each worker that its notify_all reached runs *)
(* its task to the end, if it has one, and leaves: it does not sleep again, *)
(* nor take another task (thread_pool.h:53-77).                             *)
THEOREM PoolOnlyTowardsExit == Spec => OnlyTowardsExit
<1> DEFINE Forth == dtor = "joining" =>
             \A w \in Workers \ missed :
               \/ pc'[w] = pc[w]
               \/ pc[w] = "running" /\ pc'[w] = "locking"
               \/ pc[w] = "locking" /\ pc'[w] = "exited"
<1>1. ASSUME PoolInv, [Next]_vars, dtor = "joining", NEW v \in Workers \ missed
      PROVE  \/ pc'[v] = pc[v]
             \/ pc[v] = "running" /\ pc'[v] = "locking"
             \/ pc[v] = "locking" /\ pc'[v] = "exited"
  <2>1. stop /\ pc \in [Workers -> {"locking", "blocking", "waiting", "running", "exited"}]
    BY <1>1 DEF PoolInv, StopIsDestructor, TypeOK
  <2>2. pc[v] \notin {"blocking", "waiting"}
    BY <1>1 DEF PoolInv, OnlyMissedSleep
  <2>3. ASSUME NEW w \in Workers,
               FindEmpty(w) \/ Block(w) \/ SpuriousWakeup(w) \/ Take(w) \/ Exit(w) \/ Finish(w)
        PROVE  \/ pc'[v] = pc[v]
               \/ pc[v] = "running" /\ pc'[v] = "locking"
               \/ pc[v] = "locking" /\ pc'[v] = "exited"
    BY <2>1, <2>2, <2>3 DEF FindEmpty, Block, SpuriousWakeup, Take, Exit, Finish
  <2>4. ASSUME NEW c \in Clients, Commit(c) \/ NotifyOne(c) PROVE pc'[v] = pc[v]
    BY <2>1, <2>2, <2>4 DEF Commit, NotifyOne, Waiters, workerVars
  <2>5. CASE SetStop \/ NotifyAll \/ Destroy
    BY <1>1, <2>5 DEF SetStop, NotifyAll, Destroy, workerVars
  <2>6. CASE UNCHANGED vars
    BY <2>6 DEF vars
  <2> QED BY <1>1, <2>3, <2>4, <2>5, <2>6 DEF Next
<1>2. PoolInv /\ [Next]_vars => [Forth]_vars
  BY <1>1
<1> QED
  BY <1>2, PoolInvariant, PTL DEF Spec, OnlyTowardsExit

(* Once stop_ is set nothing is accepted and nothing is started.            *)
THEOREM PoolNothingStartsAfterStop == Spec => NothingStartsAfterStop
<1>1. [Next]_vars => [stop => accepted' = accepted /\ started' = started]_vars
  BY DEF Next, vars, workerVars, FindEmpty, Block, SpuriousWakeup, Take, Exit, Finish,
         Commit, Accepts, NotifyOne, SetStop, NotifyAll, Destroy
<1> QED
  BY <1>1, PTL DEF Spec, NothingStartsAfterStop

-----------------------------------------------------------------------------
(* multi_threads_loop.                                                      *)
(* The slices: disjoint, in order, and covering what is not lost.           *)

Parameters == total_len \in Lengths /\ thread_num \in ThreadNums

Rest == total_len % thread_num

RestDone == Rest < len_pth

LEMMA Division ==
  ASSUME Parameters
  PROVE  /\ total_len \in Nat /\ thread_num \in Nat \ {0} /\ len_pth \in Nat
         /\ thread_num * len_pth \in Nat /\ Rest \in 0..(thread_num - 1)
         /\ total_len = thread_num * len_pth + Rest
BY LoopPartitionAssumption DEF Parameters, len_pth, Rest

LEMMA Monotonic ==
  ASSUME NEW a \in Int, NEW b \in Int, a <= b, NEW l \in Nat
  PROVE  a * l <= b * l /\ a * l \in Int /\ b * l \in Int /\ (a + 1) * l = a * l + l
OBVIOUS

LEMMA SliceEnds ==
  ASSUME Parameters, NEW t \in Threads
  PROVE  /\ Begin(t) = t * len_pth /\ Begin(t) \in Nat
         /\ End(t) = IF t = thread_num - 1 /\ RestDone THEN total_len ELSE (t + 1) * len_pth
         /\ End(t) \in Begin(t)..total_len
<1> DEFINE l == len_pth
           n == thread_num
<1>1. /\ total_len \in Nat /\ n \in Nat \ {0} /\ l \in Nat /\ n * l \in Nat
      /\ Rest \in Nat /\ total_len = n * l + Rest /\ t \in Int /\ t >= 0 /\ t <= n - 1
  BY Division DEF Threads
<1>2. /\ End(t) = IF t * l + l + l > total_len THEN total_len ELSE t * l + l
      /\ Begin(t) = t * l
  BY DEF End, Begin
<1>3. RestDone <=> Rest < l
  BY DEF RestDone
<1> HIDE DEF l, n
<1>4. /\ t * l \in Nat /\ (t + 1) * l = t * l + l
  <2>1. 0 * l <= t * l /\ t * l \in Int /\ (t + 1) * l = t * l + l
    <3>1. 0 * l <= t * l
      BY <1>1, Monotonic
    <3>2. t * l \in Int /\ (t + 1) * l = t * l + l
      BY <1>1, Monotonic
    <3> QED BY <3>1, <3>2
  <2> QED BY <1>1, <2>1
<1>5. (t + 1) * l <= n * l
  BY <1>1, Monotonic
<1>6. CASE t = n - 1
  <2>1. (t + 1) * l = n * l
    BY <1>1, <1>6
  <2>2. (t * l + l + l > total_len) <=> Rest < l
    BY <1>1, <1>4, <2>1
  <2> QED BY <1>1, <1>2, <1>3, <1>4, <1>6, <2>1, <2>2 DEF l, n
<1>7. CASE t # n - 1
  <2>1. t + 1 + 1 <= n
    BY <1>1, <1>7
  <2>2. (t + 1 + 1) * l <= n * l /\ (t + 1 + 1) * l = (t + 1) * l + l
    BY <1>1, <2>1, Monotonic
  <2>3. ~(t * l + l + l > total_len)
    BY <1>1, <1>4, <2>2
  <2> QED BY <1>1, <1>2, <1>4, <1>5, <1>7, <2>3 DEF l, n
<1> QED
  BY <1>6, <1>7

LEMMA SlicesApart ==
  ASSUME Parameters, NEW t \in Threads, NEW u \in Threads, t < u
  PROVE  End(t) <= Begin(u)
<1>1. t \in Int /\ u \in Int /\ t + 1 <= u /\ t # thread_num - 1 /\ len_pth \in Nat
  BY Division DEF Threads
<1>2. (t + 1) * len_pth <= u * len_pth
  <2>1. ASSUME NEW l \in Nat PROVE (t + 1) * l <= u * l
    BY <1>1, Monotonic
  <2> QED BY <1>1, <2>1
<1> QED
  BY <1>1, <1>2, SliceEnds

Covered(i) == \E t \in Threads : Begin(t) <= i /\ i < End(t)

LEMMA WhatIsCovered ==
  ASSUME Parameters, NEW i \in 0..(total_len - 1)
  PROVE  Covered(i) <=> ~(i >= thread_num * len_pth /\ total_len % thread_num >= len_pth)
<1> DEFINE l == len_pth
           n == thread_num
<1>1. /\ total_len \in Nat /\ n \in Nat \ {0} /\ l \in Nat /\ n * l \in Nat
      /\ Rest \in Nat /\ total_len = n * l + Rest
  BY Division
<1>2. (n - 1) + 1 = n /\ n - 1 \in Threads /\ (n - 1) * l <= n * l
  <2>1. (n - 1) + 1 = n /\ n - 1 \in Threads
    BY <1>1 DEF Threads
  <2> HIDE DEF n, l
  <2> QED BY <1>1, <2>1, Monotonic
<1>3. CASE i < n * l
  <2> DEFINE t == i \div l
  <2>1. i \in Nat /\ l \in Nat \ {0}
    BY <1>1, <1>3
  <2>2. t \in Nat /\ i = l * t + (i % l) /\ i % l \in 0..(l - 1)
    <3> HIDE DEF l
    <3> QED BY <2>1
  <2> HIDE DEF t
  <2>3. t * l <= i /\ i < t * l + l /\ t * l + l = (t + 1) * l
    <3> HIDE DEF l
    <3> QED BY <2>1, <2>2
  <2>4. t < n
    <3>1. ASSUME n <= t PROVE FALSE
      <4> HIDE DEF l, n
      <4>1. n * l <= t * l
        BY <1>1, <2>2, <3>1, Monotonic
      <4> QED BY <1>1, <1>3, <2>1, <2>2, <2>3, <4>1
    <3> QED BY <1>1, <2>2, <3>1
  <2>5. t \in Threads
    BY <1>1, <2>2, <2>4 DEF Threads
  <2>6. Begin(t) <= i /\ i < End(t)
    BY <1>1, <2>1, <2>3, <2>5, SliceEnds
  <2> QED BY <1>1, <1>3, <2>1, <2>5, <2>6 DEF Covered
<1>4. CASE i >= n * l /\ RestDone
  <2>1. End(n - 1) = total_len /\ Begin(n - 1) = (n - 1) * l
    BY <1>2, <1>4, SliceEnds
  <2>2. Begin(n - 1) <= i /\ i < End(n - 1)
    <3>1. (n - 1) * l \in Int
      BY <1>1
    <3> QED BY <1>1, <1>2, <1>4, <2>1, <3>1
  <2>3. Covered(i)
    BY <1>2, <2>2 DEF Covered
  <2> QED BY <1>1, <1>4, <2>3 DEF RestDone, Rest
<1>5. CASE i >= n * l /\ ~RestDone
  <2>1. ASSUME NEW t \in Threads PROVE ~(i < End(t))
    <3>1. End(t) = (t + 1) * l /\ t + 1 <= n /\ t \in Int
      BY <1>1, <1>5, SliceEnds DEF Threads
    <3>2. (t + 1) * l <= n * l /\ (t + 1) * l \in Int
      <4> HIDE DEF l, n
      <4> QED BY <1>1, <3>1, Monotonic
    <3> QED BY <1>1, <1>5, <3>1, <3>2
  <2> QED BY <1>1, <1>5, <2>1 DEF Covered, RestDone, Rest
<1> QED
  BY <1>1, <1>3, <1>4, <1>5

-----------------------------------------------------------------------------
(* The invariant: a thread that was started is within its slice, what was   *)
(* joined has finished it, and an index was done once if a thread is past   *)
(* it, and not otherwise.                                                   *)
Types ==
  /\ Parameters
  /\ th_id \in 0..thread_num /\ joined \in 0..thread_num
  /\ at \in [Threads -> Int] /\ end \in [Threads -> Int]
  /\ done \in [0..(total_len - 1) -> Nat]

Within ==
  \A t \in Threads : t < th_id => end[t] = End(t) /\ Begin(t) <= at[t] /\ at[t] <= End(t)

JoinedDone ==
  /\ joined > 0 => th_id = thread_num
  /\ \A t \in Threads : t < joined => at[t] >= end[t]

Past(i) == \E t \in Threads : t < th_id /\ Begin(t) <= i /\ i < at[t]

DoneOnce == \A i \in 0..(total_len - 1) : done[i] = IF Past(i) THEN 1 ELSE 0

LoopInv == Types /\ Within /\ JoinedDone /\ DoneOnce

LEMMA InitInv == LoopInit => LoopInv
<1> SUFFICES ASSUME LoopInit PROVE LoopInv
  OBVIOUS
<1>1. total_len \in Nat /\ thread_num \in Nat \ {0} /\ Parameters
  BY LoopPartitionAssumption DEF LoopInit, Parameters
<1>2. \A t \in Threads : t \in Int /\ t >= 0
  BY <1>1 DEF Threads
<1>3. Types
  BY <1>1 DEF LoopInit, Types
<1>4. \A t \in Threads : ~(t < th_id) /\ ~(t < joined)
  BY <1>2 DEF LoopInit
<1>5. Within /\ JoinedDone
  BY <1>4 DEF LoopInit, Within, JoinedDone
<1>6. DoneOnce
  BY <1>4 DEF LoopInit, DoneOnce, Past
<1> QED
  BY <1>3, <1>5, <1>6 DEF LoopInv

LEMMA StartInv == LoopInv /\ Start => LoopInv'
<1> SUFFICES ASSUME LoopInv, Start PROVE LoopInv'
  OBVIOUS
<1>1. /\ Parameters /\ th_id \in Nat /\ thread_num \in Nat \ {0} /\ th_id \in Threads
      /\ at \in [Threads -> Int] /\ end \in [Threads -> Int] /\ th_id' = th_id + 1
      /\ UNCHANGED <<total_len, thread_num, joined, done>>
  BY Division DEF LoopInv, Types, Start, Threads
<1>2. /\ Threads' = Threads /\ len_pth' = len_pth
  BY <1>1 DEF Threads, len_pth
<1>3. \A t \in Threads : Begin(t)' = Begin(t) /\ End(t)' = End(t)
  BY <1>1, <1>2 DEF Begin, End
<1>4. Begin(th_id) \in Nat /\ End(th_id) \in Int /\ Begin(th_id) <= End(th_id)
  BY <1>1, SliceEnds, Division
<1>5. /\ at' \in [Threads -> Int] /\ end' \in [Threads -> Int]
      /\ at'[th_id] = Begin(th_id) /\ end'[th_id] = End(th_id)
      /\ \A t \in Threads : t # th_id => at'[t] = at[t] /\ end'[t] = end[t]
  BY <1>1, <1>4 DEF Start
<1>6. Types'
  BY <1>1, <1>2, <1>5 DEF LoopInv, Types, Start, Parameters
<1>7. Within'
  <2>1. ASSUME NEW t \in Threads, t < th_id'
        PROVE  end'[t] = End(t) /\ Begin(t) <= at'[t] /\ at'[t] <= End(t)
    <3>1. t = th_id \/ t < th_id
      BY <1>1, <2>1 DEF Threads
    <3> QED BY <1>1, <1>4, <1>5, <3>1 DEF LoopInv, Within
  <2> QED BY <1>2, <1>3, <2>1 DEF Within
<1>8. JoinedDone'
  <2>1. joined = 0
    BY <1>1 DEF LoopInv, JoinedDone, Types, Start
  <2> QED BY <1>1, <1>2, <2>1 DEF JoinedDone, Threads
<1>9. DoneOnce'
  <2>1. ASSUME NEW i \in 0..(total_len - 1) PROVE Past(i)' <=> Past(i)
    <3>1. ASSUME NEW t \in Threads
          PROVE  (t < th_id' /\ Begin(t) <= i /\ i < at'[t])
                   <=> (t < th_id /\ Begin(t) <= i /\ i < at[t])
      <4>1. CASE t = th_id
        <5>1. ~(t < th_id) /\ ~(Begin(t) <= i /\ i < at'[t])
          BY <1>1, <1>4, <1>5, <4>1
        <5> QED BY <5>1
      <4>2. CASE t # th_id
        <5>1. t < th_id' <=> t < th_id
          BY <1>1, <4>2 DEF Threads
        <5> QED BY <1>5, <4>2, <5>1
      <4> QED BY <4>1, <4>2
    <3> QED BY <1>2, <1>3, <3>1 DEF Past
  <2> QED BY <1>1, <2>1 DEF LoopInv, DoneOnce
<1> QED
  BY <1>6, <1>7, <1>8, <1>9 DEF LoopInv

LEMMA WorkInv == ASSUME NEW t \in Threads PROVE LoopInv /\ Work(t) => LoopInv'
<1> SUFFICES ASSUME LoopInv, Work(t) PROVE LoopInv'
  OBVIOUS
<1>0. PICK k : k = at[t]
  OBVIOUS
<1>1. /\ Parameters /\ at \in [Threads -> Int] /\ done \in [0..(total_len - 1) -> Nat]
      /\ UNCHANGED <<total_len, thread_num, th_id, end, joined>>
      /\ t < th_id /\ at[t] < end[t] /\ thread_num \in Nat /\ joined \in Nat /\ th_id \in Nat
  BY Division, SMTT(30) DEF LoopInv, Types, Work
<1>2. /\ Threads' = Threads /\ len_pth' = len_pth
  BY <1>1 DEF Threads, len_pth
<1>3. \A u \in Threads : Begin(u)' = Begin(u) /\ End(u)' = End(u)
  BY <1>1, <1>2 DEF Begin, End
<1>4. /\ end[t] = End(t) /\ Begin(t) <= k /\ k < End(t) /\ k \in Int
      /\ Begin(t) \in Nat /\ End(t) \in Int /\ End(t) <= total_len /\ total_len \in Nat
  BY <1>0, <1>1, SliceEnds, Division, SMTT(30) DEF LoopInv, Within
<1>5. /\ at' \in [Threads -> Int] /\ at'[t] = k + 1
      /\ \A u \in Threads : u # t => at'[u] = at[u]
  BY <1>0, <1>1 DEF Work
<1>6. k \in 0..(total_len - 1)
  BY <1>4
<1>7. ASSUME NEW u \in Threads, u < th_id, u # t, Begin(u) <= k, k < at[u] PROVE FALSE
  <2>1. at[u] <= End(u) /\ Begin(u) \in Nat /\ End(u) \in Int /\ at[u] \in Int
    BY <1>1, <1>7, SliceEnds, Division DEF LoopInv, Within
  <2>2. u < t \/ t < u
    BY <1>7 DEF Threads
  <2>3. End(u) <= Begin(t) \/ End(t) <= Begin(u)
    BY <1>1, <2>2, SlicesApart
  <2> QED BY <1>4, <1>7, <2>1, <2>3
<1>8. ~Past(k)
  BY <1>0, <1>4, <1>7 DEF Past
<1>9. done[k] = 0
  BY <1>6, <1>8 DEF LoopInv, DoneOnce
<1>10. done' = [done EXCEPT ![k] = @ + 1]
  BY <1>0 DEF Work
<1>11. /\ done' \in [0..(total_len - 1) -> Nat] /\ done'[k] = 1
       /\ \A i \in 0..(total_len - 1) : i # k => done'[i] = done[i]
  BY <1>1, <1>6, <1>9, <1>10
<1>12. Types'
  BY <1>1, <1>2, <1>5, <1>11 DEF LoopInv, Types, Parameters
<1>13. Within'
  BY <1>1, <1>2, <1>3, <1>4, <1>5 DEF LoopInv, Within
<1>14. JoinedDone'
  <2>1. ~(t < joined)
    BY <1>0, <1>1, <1>4 DEF LoopInv, JoinedDone
  <2>2. \A u \in Threads : u < joined => at'[u] >= end[u]
    BY <1>5, <2>1 DEF LoopInv, JoinedDone
  <2> QED BY <1>1, <1>2, <2>2 DEF LoopInv, JoinedDone
<1>15. DoneOnce'
  <2>1. ASSUME NEW i \in 0..(total_len - 1), i # k PROVE Past(i)' <=> Past(i)
    <3>1. ASSUME NEW u \in Threads
          PROVE  (u < th_id' /\ Begin(u) <= i /\ i < at'[u])
                   <=> (u < th_id /\ Begin(u) <= i /\ i < at[u])
      <4>1. CASE u = t
        <5>1. i < k + 1 <=> i < k
          BY <1>4, <2>1
        <5> QED BY <1>0, <1>1, <1>5, <4>1, <5>1
      <4>2. CASE u # t
        BY <1>1, <1>5, <4>2
      <4> QED BY <4>1, <4>2
    <3> QED BY <1>2, <1>3, <3>1 DEF Past
  <2>2. Past(k)'
    <3>1. t \in Threads' /\ t < th_id' /\ Begin(t)' <= k /\ k < at'[t]
      BY <1>1, <1>2, <1>3, <1>4, <1>5
    <3> QED BY <3>1 DEF Past
  <2>3. ASSUME NEW i \in 0..(total_len - 1) PROVE done'[i] = IF Past(i)' THEN 1 ELSE 0
    BY <1>11, <2>1, <2>2 DEF LoopInv, DoneOnce
  <2>4. total_len' = total_len
    BY <1>1
  <2> QED BY <2>3, <2>4 DEF DoneOnce
<1> QED
  BY <1>12, <1>13, <1>14, <1>15 DEF LoopInv

LEMMA JoinInv == LoopInv /\ Join => LoopInv'
<1> SUFFICES ASSUME LoopInv, Join PROVE LoopInv'
  OBVIOUS
<1>1. /\ UNCHANGED <<total_len, thread_num, th_id, at, end, done>> /\ joined' = joined + 1
      /\ th_id = thread_num /\ joined < thread_num /\ at[joined] >= end[joined]
      /\ joined \in Nat /\ thread_num \in Nat
  BY Division DEF LoopInv, Types, Join, Finished
<1>2. Threads' = Threads /\ len_pth' = len_pth
  BY <1>1 DEF Threads, len_pth
<1>3. \A t \in Threads : Begin(t)' = Begin(t) /\ End(t)' = End(t)
  BY <1>1, <1>2 DEF Begin, End
<1>4. Types' /\ Within'
  BY <1>1, <1>2, <1>3 DEF LoopInv, Types, Within, Parameters
<1>5. JoinedDone'
  <2>1. \A t \in Threads : t < joined' => t = joined \/ t < joined
    BY <1>1 DEF Threads
  <2> QED BY <1>1, <1>2, <2>1 DEF LoopInv, JoinedDone
<1>6. DoneOnce'
  <2>1. \A i \in 0..(total_len - 1) : Past(i)' <=> Past(i)
    BY <1>1, <1>2, <1>3 DEF Past
  <2> QED BY <1>1, <2>1 DEF LoopInv, DoneOnce
<1> QED
  BY <1>4, <1>5, <1>6 DEF LoopInv

LEMMA NextInv == LoopInv /\ [LoopNext]_loopVars => LoopInv'
<1> SUFFICES ASSUME LoopInv, [LoopNext]_loopVars PROVE LoopInv'
  OBVIOUS
<1>1. CASE UNCHANGED loopVars
  <2>1. Threads' = Threads /\ len_pth' = len_pth
    BY <1>1 DEF Threads, len_pth, loopVars
  <2>2. \A t \in Threads : Begin(t)' = Begin(t) /\ End(t)' = End(t)
    BY <1>1, <2>1 DEF Begin, End, loopVars
  <2>3. \A i \in 0..(total_len - 1) : Past(i)' <=> Past(i)
    BY <1>1, <2>1, <2>2 DEF Past, loopVars
  <2> QED BY <1>1, <2>1, <2>2, <2>3
          DEF loopVars, LoopInv, Types, Parameters, Within, JoinedDone, DoneOnce
<1> QED
  BY <1>1, StartInv, JoinInv, WorkInv DEF LoopNext

LEMMA Invariance == LoopSpec => []LoopInv
BY InitInv, NextInv, PTL DEF LoopSpec

-----------------------------------------------------------------------------
(* When the loop has returned every index was done once, but for the rest   *)
(* of the division where it is not smaller than a slice: nobody does it.    *)
THEOREM LoopDoesAllButTheRest == LoopSpec => []RestIsLost
<1>1. LoopInv => RestIsLost
  <2> SUFFICES ASSUME LoopInv, Returned, NEW i \in DOMAIN done
               PROVE  done[i] = IF i >= thread_num * len_pth
                                     /\ total_len % thread_num >= len_pth THEN 0 ELSE 1
    BY DEF RestIsLost
  <2>1. /\ Parameters /\ i \in 0..(total_len - 1) /\ thread_num \in Nat \ {0}
        /\ joined = thread_num /\ th_id = thread_num
    BY Division DEF LoopInv, Types, Returned, JoinedDone
  <2>2. ASSUME NEW t \in Threads PROVE t < th_id /\ at[t] = End(t)
    <3>1. t < th_id /\ t < joined
      BY <2>1 DEF Threads
    <3>2. at[t] >= End(t) /\ at[t] <= End(t) /\ at[t] \in Int /\ End(t) \in Int
      BY <2>1, <3>1, SliceEnds, Division DEF LoopInv, Types, Within, JoinedDone
    <3> QED BY <3>1, <3>2
  <2>3. Past(i) <=> Covered(i)
    BY <2>2 DEF Past, Covered
  <2> QED BY <2>1, <2>3, WhatIsCovered DEF LoopInv, DoneOnce
<1> QED
  BY <1>1, Invariance, PTL

(* No thread of the loop does anything after the call has returned.         *)
THEOREM LoopReturnsLast == LoopSpec => ReturnsLast
<1>1. LoopInv /\ [LoopNext]_loopVars => [Returned => UNCHANGED done]_loopVars
  <2> SUFFICES ASSUME LoopInv, LoopNext, Returned PROVE UNCHANGED done
    OBVIOUS
  <2>1. ASSUME NEW t \in Threads, Work(t) PROVE FALSE
    <3>1. t < joined /\ at[t] \in Int /\ end[t] \in Int
      BY Division, SMTT(30) DEF LoopInv, Types, Returned, Threads
    <3> QED BY <2>1, <3>1 DEF LoopInv, JoinedDone, Work
  <2> QED BY <2>1 DEF LoopNext, Start, Join
<1> QED
  BY <1>1, Invariance, PTL DEF LoopSpec, ReturnsLast

-----------------------------------------------------------------------------
(* ConcurrentFile.                                                          *)

FieldSet == Int \X Int \X Int

FileTypes ==
  /\ mode \in {"out", "in"}
  /\ file \in Seq(FieldSet)
  /\ position \in 0..Len(file)
  /\ mutex \in Jobs \cup {-1}
  /\ launched \in 0..JobNum /\ waited \in 0..JobNum
  /\ tuple \in [Jobs -> Seq(FieldSet)]
  /\ tuples \in [Jobs -> Seq(Seq(FieldSet))]
  /\ over \subseteq Jobs
  /\ mutex # -1 => Len(tuple[mutex]) <= Fields

(* What the holder of the mutex has of its tuple, and how many fields went  *)
(* to or came from the file.                                                *)
Partial == IF mutex = -1 THEN <<>> ELSE tuple[mutex]

Seen == IF mode = "out" THEN Len(file) ELSE position

(* These are the first K tuples of the file, which are what the jobs are    *)
(* through with, and the fields of the partial one.                         *)
Follows(K) ==
  /\ Seen = K * Fields + Len(Partial)
  /\ \A i \in 1..Len(Partial) : Partial[i] = file[K * Fields + i]
  /\ \A j \in Jobs : \A n \in 1..Len(tuples[j]) : \E b \in 1..K : tuples[j][n] = InFile(b)
  /\ \A b \in 1..K : \E j \in Jobs : \E n \in 1..Len(tuples[j]) : tuples[j][n] = InFile(b)

(* The n-th tuple of the job j, or of a file that is read (j is 0).         *)
TupleOf(j, n) == [f \in 1..Fields |-> <<j, n, f>>]

(* Writers write their tuples.                                              *)
Written ==
  mode = "out" =>
    /\ \A j \in Jobs : \A n \in 1..Len(tuples[j]) : tuples[j][n] = TupleOf(j, n)
    /\ mutex # -1 => \A i \in 1..Len(tuple[mutex]) :
                       tuple[mutex][i] = <<mutex, Len(tuples[mutex]) + 1, i>>

(* Readers find the whole file, and no two of them the same tuple.          *)
Read ==
  mode = "in" =>
    /\ file = FullFile
    /\ \A j, k \in Jobs : \A n \in 1..Len(tuples[j]) : \A m \in 1..Len(tuples[k]) :
         tuples[j][n] = tuples[k][m] => j = k /\ n = m

(* Jobs that have ended hold nothing, readers only end at the end of the    *)
(* file, and who is joined has ended.                                       *)
Ended ==
  /\ mutex \notin over
  /\ mode = "in" /\ over # {} => position = Len(file)
  /\ \A j \in 0..(waited - 1) : j \in over

FileInv ==
  /\ FileTypes /\ Written /\ Read /\ Ended
  /\ \E K \in Nat : Follows(K)

-----------------------------------------------------------------------------
(* Where a field of a tuple is in the file, and the way back.               *)
LEMMA FieldsPositive == Fields \in Nat \ {0} /\ JobNum \in Nat \ {0} /\ PerJob \in Nat
BY ConcurrentFileAssumption

LEMMA Multiples ==
  ASSUME NEW a \in Int, NEW b \in Int, NEW l \in Nat
  PROVE  /\ a * l \in Int /\ b * l \in Int
         /\ (a + 1) * l = a * l + l /\ (a - 1) * l = a * l - l
         /\ a <= b => a * l <= b * l
         /\ a < b => a * l + l <= b * l
<1>1. a * l \in Int /\ b * l \in Int /\ (a + 1) * l = a * l + l /\ (a - 1) * l = a * l - l
  OBVIOUS
<1>2. a <= b => a * l <= b * l
  BY Monotonic
<1>3. a + 1 <= b => (a + 1) * l <= b * l
  BY Monotonic
<1> QED
  BY <1>1, <1>2, <1>3

LEMMA FieldIndex ==
  ASSUME NEW K \in Nat, NEW b \in 1..K, NEW f \in 1..Fields
  PROVE  (b - 1) * Fields + f \in 1..(K * Fields)
<1>1. Fields \in Nat /\ b \in Int /\ b - 1 \in Int /\ 0 <= b - 1 /\ b - 1 < K
  BY FieldsPositive
<1>2. (b - 1) * Fields + Fields <= K * Fields /\ 0 * Fields <= (b - 1) * Fields
      /\ (b - 1) * Fields \in Int /\ K * Fields \in Int
  BY <1>1, Multiples
<1> QED
  BY <1>1, <1>2

LEMMA DivMod ==
  ASSUME NEW q \in Nat, NEW r \in 0..(Fields - 1)
  PROVE  (q * Fields + r) \div Fields = q /\ (q * Fields + r) % Fields = r
<1> DEFINE n == q * Fields + r
           d == n \div Fields
           m == n % Fields
<1>1. /\ Fields \in Nat \ {0} /\ q * Fields \in Int /\ 0 * Fields <= q * Fields
      /\ r \in Int /\ 0 <= r /\ r < Fields
  BY FieldsPositive, Multiples
<1>2. n \in Nat
  BY <1>1
<1> HIDE DEF n
<1>3. d \in Nat /\ m \in 0..(Fields - 1) /\ n = d * Fields + m
  BY <1>1, <1>2
<1>4. d * Fields \in Int
  BY <1>1, <1>3, Multiples
<1> HIDE DEF d, m
<1>5. d * Fields + m = q * Fields + r
  BY <1>3 DEF n
<1>6. ~(d < q)
  <2>1. d < q => d * Fields + Fields <= q * Fields
    BY <1>1, <1>3, Multiples
  <2> QED BY <1>1, <1>3, <1>4, <1>5, <2>1
<1>7. ~(q < d)
  <2>1. q < d => q * Fields + Fields <= d * Fields
    BY <1>1, <1>3, Multiples
  <2> QED BY <1>1, <1>3, <1>4, <1>5, <2>1
<1>8. d = q
  BY <1>3, <1>6, <1>7
<1>9. m = r
  BY <1>1, <1>3, <1>5, <1>8
<1> QED
  BY <1>8, <1>9 DEF d, m, n

(* The tuples of the file that is read.                                     *)
LEMMA FullFileTuples ==
  /\ PerJob * JobNum \in Nat
  /\ FullFile \in Seq(FieldSet) /\ Len(FullFile) = (PerJob * JobNum) * Fields
  /\ \A b \in 1..(PerJob * JobNum) : \A f \in 1..Fields :
       FullFile[(b - 1) * Fields + f] = <<0, b, f>>
<1> DEFINE M == PerJob * JobNum
<1>1. M \in Nat
  BY FieldsPositive
<1> HIDE DEF M
<1>2. M * Fields \in Nat
  BY <1>1, FieldsPositive
<1>3. ASSUME NEW i \in 1..(M * Fields)
      PROVE  <<0, ((i - 1) \div Fields) + 1, ((i - 1) % Fields) + 1>> \in FieldSet
  <2>1. i - 1 \in Int /\ Fields \in Nat \ {0}
    BY <1>2, FieldsPositive
  <2>2. ((i - 1) \div Fields) + 1 \in Int /\ ((i - 1) % Fields) + 1 \in Int
    BY <2>1
  <2> QED BY <2>2 DEF FieldSet
<1>4. FullFile = [i \in 1..(M * Fields) |->
                    <<0, ((i - 1) \div Fields) + 1, ((i - 1) % Fields) + 1>>]
  BY DEF FullFile, M
<1>5. FullFile \in [1..(M * Fields) -> FieldSet]
  BY <1>3, <1>4
<1>6. FullFile \in Seq(FieldSet) /\ Len(FullFile) = M * Fields
  BY <1>2, <1>5
<1>7. ASSUME NEW b \in 1..M, NEW f \in 1..Fields
      PROVE  FullFile[(b - 1) * Fields + f] = <<0, b, f>>
  <2> DEFINE i == (b - 1) * Fields + f
  <2>1. i \in 1..(M * Fields)
    BY <1>1, FieldIndex
  <2>2. b - 1 \in Nat /\ f - 1 \in 0..(Fields - 1) /\ b \in Int /\ f \in Int
    BY <1>1, FieldsPositive
  <2>3. (b - 1) * Fields \in Int
    BY <2>2, FieldsPositive
  <2>4. i - 1 = (b - 1) * Fields + (f - 1)
    BY <2>2, <2>3
  <2>5. (i - 1) \div Fields = b - 1 /\ (i - 1) % Fields = f - 1
    BY <2>2, <2>4, DivMod
  <2>6. ((i - 1) \div Fields) + 1 = b /\ ((i - 1) % Fields) + 1 = f
    BY <2>2, <2>5
  <2> QED BY <1>4, <2>1, <2>6
<1> QED
  BY <1>1, <1>6, <1>7 DEF M

-----------------------------------------------------------------------------
(* The invariant holds at the start and is kept.                            *)
LEMMA FileInitInv == FileInit => FileInv
<1> SUFFICES ASSUME FileInit PROVE FileInv
  OBVIOUS
<1>1. \A j \in Jobs : tuple[j] = <<>> /\ tuples[j] = <<>>
  BY DEF FileInit
<1>2. -1 \notin Jobs /\ JobNum \in Nat
  BY FieldsPositive DEF Jobs
<1>3. FileTypes
  <2>1. file \in Seq(FieldSet)
    BY FullFileTuples DEF FileInit
  <2>2. Len(file) \in Nat
    BY <2>1
  <2>3. tuple \in [Jobs -> Seq(FieldSet)] /\ tuples \in [Jobs -> Seq(Seq(FieldSet))]
    BY DEF FileInit
  <2> QED BY <1>2, <2>1, <2>2, <2>3 DEF FileInit, FileTypes
<1>4. Written /\ Read /\ Ended
  BY <1>1, <1>2 DEF FileInit, Written, Read, Ended
<1>5. Follows(0)
  <2>1. Partial = <<>> /\ Seen = 0 /\ 0 * Fields = 0
    BY FieldsPositive DEF FileInit, Partial, Seen
  <2>2. 1..0 = {} /\ Len(<<>>) = 0
    OBVIOUS
  <2> QED BY <1>1, <2>1, <2>2 DEF Follows
<1> QED
  BY <1>3, <1>4, <1>5 DEF FileInv

(* Steps that leave the file, the tuples and what is seen of them.          *)
LEMMA FollowsSame ==
  ASSUME NEW K \in Nat, Follows(K), Seen' = Seen, Partial' = Partial, UNCHANGED <<file, tuples>>
  PROVE  Follows(K)'
<1>1. \A b \in 1..K : InFile(b)' = InFile(b)
  BY DEF InFile
<1> QED
  BY <1>1 DEF Follows

LEMMA StartJoinInv == FileInv /\ (StartJob \/ JoinJob) => FileInv'
<1> SUFFICES ASSUME FileInv, StartJob \/ JoinJob PROVE FileInv'
  OBVIOUS
<1>1. /\ UNCHANGED <<mode, file, position, mutex, tuple, tuples, over>>
      /\ launched' \in 0..JobNum /\ waited' \in 0..JobNum
      /\ \A j \in 0..(waited' - 1) : j \in over
  <2>1. JobNum \in Nat
    BY FieldsPositive
  <2>2. over \subseteq Jobs /\ launched \in 0..JobNum /\ waited \in 0..JobNum
    BY DEF FileInv, FileTypes
  <2>3. CASE StartJob
    BY <2>1, <2>2, <2>3 DEF StartJob, Jobs, FileInv, Ended
  <2>4. CASE JoinJob
    <3>1. waited' = waited + 1 /\ waited \in over /\ waited \in 0..(JobNum - 1)
      BY <2>2, <2>4 DEF JoinJob, Jobs
    <3>2. \A j \in 0..(waited' - 1) : j = waited \/ j \in 0..(waited - 1)
      BY <3>1
    <3> QED BY <2>1, <2>2, <2>4, <3>1, <3>2 DEF JoinJob, FileInv, Ended
  <2> QED BY <2>3, <2>4
<1>2. PICK K \in Nat : Follows(K)
  BY DEF FileInv
<1>3. Follows(K)'
  <2>1. Seen' = Seen /\ Partial' = Partial
    BY <1>1 DEF Seen, Partial
  <2> QED BY <1>1, <1>2, <2>1, FollowsSame
<1>4. FileTypes' /\ Written' /\ Read'
  BY <1>1 DEF FileInv, FileTypes, Written, Read
<1>5. Ended'
  BY <1>1 DEF FileInv, Ended
<1> QED
  BY <1>3, <1>4, <1>5 DEF FileInv

LEMMA LockInv == ASSUME NEW j \in Jobs PROVE FileInv /\ LockFile(j) => FileInv'
<1> SUFFICES ASSUME FileInv, LockFile(j) PROVE FileInv'
  OBVIOUS
<1>1. /\ mutex = -1 /\ mutex' = j /\ tuple' = [tuple EXCEPT ![j] = <<>>]
      /\ j \notin over
      /\ UNCHANGED <<mode, file, position, launched, waited, tuples, over>>
  BY DEF LockFile, Unlocked
<1>2. tuple' \in [Jobs -> Seq(FieldSet)] /\ tuple'[j] = <<>> /\ j # -1
  BY <1>1, FieldsPositive DEF FileInv, FileTypes, Jobs
<1>3. FileTypes'
  BY <1>1, <1>2, FieldsPositive DEF FileInv, FileTypes
<1>4. Written' /\ Read' /\ Ended'
  BY <1>1, <1>2 DEF FileInv, Written, Read, Ended
<1>5. PICK K \in Nat : Follows(K)
  BY DEF FileInv
<1>6. Follows(K)'
  <2>1. Seen' = Seen /\ Partial' = Partial
    BY <1>1, <1>2 DEF Seen, Partial
  <2> QED BY <1>1, <1>5, <2>1, FollowsSame
<1> QED
  BY <1>3, <1>4, <1>6 DEF FileInv

(* The fields of the first tuples are those before the partial one.         *)
LEMMA BeforePartial ==
  ASSUME FileTypes, NEW K \in Nat, Follows(K)
  PROVE  /\ K * Fields \in Nat /\ Len(Partial) \in Nat /\ Seen \in 0..Len(file)
         /\ \A b \in 1..K : \A f \in 1..Fields : (b - 1) * Fields + f \in 1..Len(file)
         /\ \A i \in 1..Len(Partial) : K * Fields + i \in 1..Len(file)
<1>1. K * Fields \in Nat
  BY FieldsPositive
<1>2. Len(Partial) \in Nat
  <2>1. Partial \in Seq(FieldSet)
    BY DEF Partial, FileTypes
  <2> QED BY <2>1
<1>3. Len(file) \in Nat /\ Seen \in 0..Len(file)
  BY DEF Seen, FileTypes
<1>4. Seen = K * Fields + Len(Partial)
  BY DEF Follows
<1>5. ASSUME NEW b \in 1..K, NEW f \in 1..Fields
      PROVE  (b - 1) * Fields + f \in 1..Len(file)
  <2>1. (b - 1) * Fields + f \in 1..(K * Fields)
    BY FieldIndex
  <2> QED BY <1>1, <1>2, <1>3, <1>4, <2>1
<1> QED
  BY <1>1, <1>2, <1>3, <1>4, <1>5

LEMMA PutInv == ASSUME NEW j \in Jobs PROVE FileInv /\ PutField(j) => FileInv'
<1> SUFFICES ASSUME FileInv, PutField(j) PROVE FileInv'
  OBVIOUS
<1> DEFINE field == <<j, Len(tuples[j]) + 1, Len(tuple[j]) + 1>>
<1>1. /\ mode = "out" /\ mutex = j /\ Len(tuple[j]) < Fields /\ j # -1
      /\ file' = Append(file, field) /\ tuple' = [tuple EXCEPT ![j] = Append(@, field)]
      /\ UNCHANGED <<mode, position, mutex, launched, waited, tuples, over>>
  BY DEF PutField, Inside, Jobs
<1>2. /\ FileTypes /\ tuple[j] \in Seq(FieldSet) /\ tuples[j] \in Seq(Seq(FieldSet))
      /\ file \in Seq(FieldSet) /\ position \in 0..Len(file)
  BY DEF FileInv, FileTypes
<1>3. field \in FieldSet
  BY <1>2 DEF FieldSet, Jobs
<1> HIDE DEF field
<1>4. /\ file' \in Seq(FieldSet) /\ Len(file') = Len(file) + 1
      /\ \A i \in 1..Len(file) : file'[i] = file[i]
      /\ file'[Len(file) + 1] = field
  BY <1>1, <1>2, <1>3
<1>5. tuple'[j] = Append(tuple[j], field) /\ tuple' \in [Jobs -> Seq(FieldSet)]
  <2>1. tuple \in [Jobs -> Seq(FieldSet)] /\ Append(tuple[j], field) \in Seq(FieldSet)
    BY <1>2, <1>3 DEF FileTypes
  <2> QED BY <1>1, <2>1
<1>6. /\ Len(tuple'[j]) = Len(tuple[j]) + 1 /\ Len(tuple[j]) \in Nat
      /\ \A i \in 1..Len(tuple[j]) : tuple'[j][i] = tuple[j][i]
      /\ tuple'[j][Len(tuple[j]) + 1] = field
  BY <1>2, <1>3, <1>5
<1>7. FileTypes'
  <2>1. Len(tuple'[j]) <= Fields
    BY <1>1, <1>6, FieldsPositive
  <2>2. position' \in 0..Len(file')
    BY <1>1, <1>2, <1>4
  <2> QED BY <1>1, <1>2, <1>4, <1>5, <2>1, <2>2 DEF FileTypes
<1>8. Written'
  <2>1. ASSUME NEW i \in 1..Len(tuple'[j])
        PROVE  tuple'[j][i] = <<j, Len(tuples[j]) + 1, i>>
    <3>1. CASE i = Len(tuple[j]) + 1
      BY <1>6, <3>1 DEF field
    <3>2. CASE i # Len(tuple[j]) + 1
      <4>1. i \in 1..Len(tuple[j])
        BY <1>6, <2>1, <3>2
      <4> QED BY <1>1, <1>6, <4>1 DEF FileInv, Written
    <3> QED BY <3>1, <3>2
  <2> QED BY <1>1, <2>1 DEF FileInv, Written
<1>9. Read' /\ Ended'
  BY <1>1 DEF FileInv, Read, Ended
<1>10. PICK K \in Nat : Follows(K)
  BY DEF FileInv
<1>11. /\ K * Fields \in Nat /\ Partial = tuple[j] /\ Seen = Len(file)
       /\ \A b \in 1..K : \A f \in 1..Fields : (b - 1) * Fields + f \in 1..Len(file)
       /\ \A i \in 1..Len(tuple[j]) : K * Fields + i \in 1..Len(file)
  BY <1>1, <1>2, <1>10, BeforePartial DEF Partial, Seen
<1>12. Follows(K)'
  <2>1. Partial' = tuple'[j] /\ Seen' = Len(file') /\ Len(file) = K * Fields + Len(tuple[j])
    BY <1>1, <1>10, <1>11 DEF Partial, Seen, Follows
  <2>2. Seen' = K * Fields + Len(Partial')
    BY <1>4, <1>6, <1>11, <2>1
  <2>3. ASSUME NEW i \in 1..Len(tuple'[j]) PROVE tuple'[j][i] = file'[K * Fields + i]
    <3>1. CASE i = Len(tuple[j]) + 1
      <4>1. K * Fields + i = Len(file) + 1
        BY <1>6, <1>11, <2>1, <3>1
      <4> QED BY <1>4, <1>6, <3>1, <4>1
    <3>2. CASE i # Len(tuple[j]) + 1
      <4>1. i \in 1..Len(tuple[j])
        BY <1>6, <2>3, <3>2
      <4> QED BY <1>4, <1>6, <1>10, <1>11, <4>1 DEF Follows
    <3> QED BY <3>1, <3>2
  <2>4. \A b \in 1..K : InFile(b)' = InFile(b)
    BY <1>4, <1>11 DEF InFile
  <2>5. \A i \in 1..Len(Partial') : Partial'[i] = file'[K * Fields + i]
    BY <2>1, <2>3
  <2>6. ASSUME NEW i \in Jobs, NEW n \in 1..Len(tuples'[i])
        PROVE  \E b \in 1..K : tuples'[i][n] = InFile(b)'
    <3>1. \E b \in 1..K : tuples[i][n] = InFile(b)
      BY <1>1, <1>10, <2>6 DEF Follows
    <3> QED BY <1>1, <2>4, <3>1
  <2>7. ASSUME NEW b \in 1..K
        PROVE  \E i \in Jobs : \E n \in 1..Len(tuples'[i]) : tuples'[i][n] = InFile(b)'
    <3>1. \E i \in Jobs : \E n \in 1..Len(tuples[i]) : tuples[i][n] = InFile(b)
      BY <1>10 DEF Follows
    <3> QED BY <1>1, <2>4, <3>1
  <2> QED BY <2>2, <2>5, <2>6, <2>7 DEF Follows
<1> QED
  BY <1>7, <1>8, <1>9, <1>12 DEF FileInv

LEMMA GetInv == ASSUME NEW j \in Jobs PROVE FileInv /\ GetField(j) => FileInv'
<1> SUFFICES ASSUME FileInv, GetField(j) PROVE FileInv'
  OBVIOUS
<1> DEFINE field == file[position + 1]
<1>1. /\ mode = "in" /\ mutex = j /\ Len(tuple[j]) < Fields /\ j # -1
      /\ position < Len(file) /\ position' = position + 1
      /\ tuple' = [tuple EXCEPT ![j] = Append(@, field)]
      /\ UNCHANGED <<mode, file, mutex, launched, waited, tuples, over>>
  BY DEF GetField, Inside, Jobs
<1>2. /\ FileTypes /\ tuple[j] \in Seq(FieldSet)
      /\ file \in Seq(FieldSet) /\ position \in 0..Len(file)
  BY DEF FileInv, FileTypes
<1>3. field \in FieldSet /\ position' \in 0..Len(file)
  BY <1>1, <1>2
<1> HIDE DEF field
<1>4. tuple'[j] = Append(tuple[j], field) /\ tuple' \in [Jobs -> Seq(FieldSet)]
  <2>1. tuple \in [Jobs -> Seq(FieldSet)] /\ Append(tuple[j], field) \in Seq(FieldSet)
    BY <1>2, <1>3 DEF FileTypes
  <2> QED BY <1>1, <2>1
<1>5. /\ Len(tuple'[j]) = Len(tuple[j]) + 1 /\ Len(tuple[j]) \in Nat
      /\ \A i \in 1..Len(tuple[j]) : tuple'[j][i] = tuple[j][i]
      /\ tuple'[j][Len(tuple[j]) + 1] = field
  BY <1>2, <1>3, <1>4
<1>6. FileTypes'
  <2>1. Len(tuple'[j]) <= Fields
    BY <1>1, <1>5, FieldsPositive
  <2> QED BY <1>1, <1>2, <1>3, <1>4, <2>1 DEF FileTypes
<1>7. Written' /\ Read'
  BY <1>1 DEF FileInv, Written, Read
<1>8. Ended'
  <2>1. over = {}
    BY <1>1, <1>2 DEF FileInv, Ended
  <2> QED BY <1>1, <2>1 DEF FileInv, Ended
<1>9. PICK K \in Nat : Follows(K)
  BY DEF FileInv
<1>10. K * Fields \in Nat /\ Partial = tuple[j] /\ position = K * Fields + Len(tuple[j])
  BY <1>1, <1>2, <1>9, BeforePartial DEF Partial, Seen, Follows
<1>11. Follows(K)'
  <2>1. Partial' = tuple'[j] /\ Seen' = position + 1
    BY <1>1 DEF Partial, Seen
  <2>2. Seen' = K * Fields + Len(Partial')
    BY <1>5, <1>10, <2>1
  <2>3. ASSUME NEW i \in 1..Len(tuple'[j]) PROVE tuple'[j][i] = file[K * Fields + i]
    <3>1. CASE i = Len(tuple[j]) + 1
      <4>1. K * Fields + i = position + 1
        BY <1>5, <1>10, <3>1
      <4> QED BY <1>5, <3>1, <4>1 DEF field
    <3>2. CASE i # Len(tuple[j]) + 1
      <4>1. i \in 1..Len(tuple[j])
        BY <1>5, <2>3, <3>2
      <4> QED BY <1>5, <1>9, <1>10, <4>1 DEF Follows
    <3> QED BY <3>1, <3>2
  <2>4. \A b \in 1..K : InFile(b)' = InFile(b)
    BY <1>1 DEF InFile
  <2>5. \A i \in 1..Len(Partial') : Partial'[i] = file'[K * Fields + i]
    BY <1>1, <2>1, <2>3
  <2>6. ASSUME NEW i \in Jobs, NEW n \in 1..Len(tuples'[i])
        PROVE  \E b \in 1..K : tuples'[i][n] = InFile(b)'
    <3>1. \E b \in 1..K : tuples[i][n] = InFile(b)
      BY <1>1, <1>9, <2>6 DEF Follows
    <3> QED BY <1>1, <2>4, <3>1
  <2>7. ASSUME NEW b \in 1..K
        PROVE  \E i \in Jobs : \E n \in 1..Len(tuples'[i]) : tuples'[i][n] = InFile(b)'
    <3>1. \E i \in Jobs : \E n \in 1..Len(tuples[i]) : tuples[i][n] = InFile(b)
      BY <1>9 DEF Follows
    <3> QED BY <1>1, <2>4, <3>1
  <2> QED BY <2>2, <2>5, <2>6, <2>7 DEF Follows
<1> QED
  BY <1>6, <1>7, <1>8, <1>11 DEF FileInv


(* The tuples of the file that was seen, for readers.                       *)
LEMMA ReadTuples ==
  ASSUME FileTypes, Read, mode = "in", NEW K \in Nat, K * Fields <= Len(file), NEW b \in 1..K
  PROVE  b \in 1..(PerJob * JobNum) /\ InFile(b) = TupleOf(0, b)
<1> DEFINE M == PerJob * JobNum
<1>1. M \in Nat /\ file = FullFile /\ Len(file) = M * Fields
  BY FullFileTuples DEF Read
<1> HIDE DEF M
<1>2. K <= M
  <2>1. M < K => M * Fields + Fields <= K * Fields
    BY <1>1, FieldsPositive, Multiples
  <2>2. M * Fields \in Int /\ K * Fields \in Int
    BY <1>1, FieldsPositive
  <2> QED BY <1>1, <2>1, <2>2, FieldsPositive
<1>3. b \in 1..M
  BY <1>1, <1>2
<1>4. \A f \in 1..Fields : file[(b - 1) * Fields + f] = <<0, b, f>>
  BY <1>1, <1>3, FullFileTuples DEF M
<1> QED
  BY <1>3, <1>4 DEF InFile, TupleOf, M

LEMMA ThroughInv == ASSUME NEW j \in Jobs PROVE FileInv /\ Through(j) => FileInv'
<1> SUFFICES ASSUME FileInv, Through(j) PROVE FileInv'
  OBVIOUS
<1> DEFINE t == tuple[j]
           m == Len(tuples[j]) + 1
<1>1. /\ mutex = j /\ Len(t) = Fields /\ j # -1 /\ mutex' = -1
      /\ tuples' = [tuples EXCEPT ![j] = Append(@, t)]
      /\ UNCHANGED <<mode, file, position, launched, waited, tuple, over>>
  BY DEF Through, Jobs
<1>2. /\ FileTypes /\ t \in Seq(FieldSet) /\ tuples[j] \in Seq(Seq(FieldSet))
      /\ -1 \notin Jobs /\ Len(file) \in Nat
  BY DEF FileInv, FileTypes, Jobs
<1> HIDE DEF t
<1>3. tuples'[j] = Append(tuples[j], t) /\ tuples' \in [Jobs -> Seq(Seq(FieldSet))]
  <2>1. tuples \in [Jobs -> Seq(Seq(FieldSet))] /\ Append(tuples[j], t) \in Seq(Seq(FieldSet))
    BY <1>2 DEF FileTypes
  <2> QED BY <1>1, <2>1
<1>4. /\ Len(tuples'[j]) = m /\ m \in Nat \ {0} /\ Len(tuples[j]) = m - 1
      /\ \A n \in 1..(m - 1) : tuples'[j][n] = tuples[j][n]
      /\ tuples'[j][m] = t
  BY <1>2, <1>3
<1> HIDE DEF m
<1>5. \A k \in Jobs : k # j => tuples'[k] = tuples[k]
  BY <1>1, <1>2 DEF FileTypes
(* Every tuple a job is through with now it was through with, or it is t.   *)
<1>6. ASSUME NEW k \in Jobs, NEW n \in 1..Len(tuples'[k])
      PROVE  \/ n \in 1..Len(tuples[k]) /\ tuples'[k][n] = tuples[k][n] /\ ~(k = j /\ n = m)
             \/ k = j /\ n = m /\ tuples'[k][n] = t
  <2>1. CASE k = j
    BY <1>4, <1>6, <2>1
  <2>2. CASE k # j
    BY <1>5, <1>6, <2>2
  <2> QED BY <2>1, <2>2
<1>7. ASSUME NEW k \in Jobs, NEW n \in 1..Len(tuples[k])
      PROVE  n \in 1..Len(tuples'[k]) /\ tuples'[k][n] = tuples[k][n]
  <2>1. CASE k = j
    BY <1>4, <1>7, <2>1
  <2>2. CASE k # j
    BY <1>5, <1>7, <2>2
  <2> QED BY <2>1, <2>2
<1>8. FileTypes'
  BY <1>1, <1>2, <1>3 DEF FileTypes
<1>9. Ended'
  BY <1>1, <1>2 DEF FileInv, FileTypes, Ended
<1>10. PICK K \in Nat : Follows(K)
  BY DEF FileInv
<1>11. /\ K * Fields \in Nat /\ Partial = t /\ Seen = K * Fields + Fields /\ Seen <= Len(file)
       /\ \A i \in 1..Fields : t[i] = file[K * Fields + i]
  <2>1. K * Fields \in Nat /\ Seen \in 0..Len(file)
    BY <1>2, <1>10, BeforePartial
  <2>2. Partial = t
    BY <1>1 DEF Partial, t
  <2>3. Seen = K * Fields + Fields /\ \A i \in 1..Fields : t[i] = file[K * Fields + i]
    BY <1>1, <1>10, <2>2 DEF Follows
  <2> QED BY <1>2, <2>1, <2>2, <2>3
<1>12. /\ K + 1 \in Nat /\ (K + 1) * Fields = K * Fields + Fields
       /\ (K + 1) * Fields <= Len(file)
  BY <1>11, FieldsPositive, Multiples
<1>13. t = InFile(K + 1)
  <2>1. (K + 1) - 1 = K
    OBVIOUS
  <2>2. InFile(K + 1) = [f \in 1..Fields |-> file[K * Fields + f]]
    BY <2>1 DEF InFile
  <2>3. t \in [1..Fields -> FieldSet]
    BY <1>1, <1>2
  <2> QED BY <1>11, <2>2, <2>3
<1>14. \A b \in 1..(K + 1) : InFile(b)' = InFile(b)
  BY <1>1 DEF InFile
<1>15. Follows(K + 1)'
  <2>1. Seen' = Seen /\ Partial' = <<>> /\ Len(Partial') = 0
    BY <1>1 DEF Seen, Partial
  <2>2. Seen' = (K + 1) * Fields + Len(Partial')
    BY <1>11, <1>12, <2>1
  <2>3. \A i \in 1..Len(Partial') : Partial'[i] = file'[(K + 1) * Fields + i]
    BY <2>1
  <2>4. ASSUME NEW k \in Jobs, NEW n \in 1..Len(tuples'[k])
        PROVE  \E b \in 1..(K + 1) : tuples'[k][n] = InFile(b)'
    <3>1. CASE n \in 1..Len(tuples[k]) /\ tuples'[k][n] = tuples[k][n]
      <4>1. PICK b \in 1..K : tuples[k][n] = InFile(b)
        BY <1>10, <3>1 DEF Follows
      <4>2. b \in 1..(K + 1)
        OBVIOUS
      <4> QED BY <1>14, <3>1, <4>1, <4>2
    <3>2. CASE tuples'[k][n] = t
      <4>1. K + 1 \in 1..(K + 1)
        OBVIOUS
      <4> QED BY <1>13, <1>14, <3>2, <4>1
    <3> QED BY <1>6, <2>4, <3>1, <3>2
  <2>5. ASSUME NEW b \in 1..(K + 1)
        PROVE  \E k \in Jobs : \E n \in 1..Len(tuples'[k]) : tuples'[k][n] = InFile(b)'
    <3>1. CASE b = K + 1
      <4>1. m \in 1..Len(tuples'[j])
        BY <1>4
      <4> QED BY <1>4, <1>13, <1>14, <3>1, <4>1
    <3>2. CASE b # K + 1
      <4>1. b \in 1..K
        BY <3>2
      <4>2. PICK k \in Jobs : \E n \in 1..Len(tuples[k]) : tuples[k][n] = InFile(b)
        BY <1>10, <4>1 DEF Follows
      <4>3. PICK n \in 1..Len(tuples[k]) : tuples[k][n] = InFile(b)
        BY <4>2
      <4> QED BY <1>7, <1>14, <4>3
    <3> QED BY <3>1, <3>2
  <2> QED BY <2>2, <2>3, <2>4, <2>5 DEF Follows
<1>16. Written'
  <2> SUFFICES ASSUME mode = "out"
               PROVE  \A k \in Jobs : \A n \in 1..Len(tuples'[k]) : tuples'[k][n] = TupleOf(k, n)
    BY <1>1 DEF Written
  <2>1. t = TupleOf(j, m)
    <3>1. \A i \in 1..Fields : t[i] = <<j, m, i>>
      BY <1>1 DEF FileInv, Written, t, m
    <3>2. t \in [1..Fields -> FieldSet]
      BY <1>1, <1>2
    <3> QED BY <3>1, <3>2 DEF TupleOf
  <2> QED BY <1>6, <2>1 DEF FileInv, Written
<1>17. Read'
  <2> SUFFICES ASSUME mode = "in"
               PROVE  \A k, l \in Jobs : \A n \in 1..Len(tuples'[k]) : \A q \in 1..Len(tuples'[l]) :
                        tuples'[k][n] = tuples'[l][q] => k = l /\ n = q
    BY <1>1 DEF FileInv, Read
  <2>1. ASSUME NEW k \in Jobs, NEW n \in 1..Len(tuples[k]) PROVE tuples[k][n] # t
    <3>1. PICK b \in 1..K : tuples[k][n] = InFile(b)
      BY <1>10 DEF Follows
    <3>2. b \in 1..(K + 1) /\ K + 1 \in 1..(K + 1)
      OBVIOUS
    <3>3. InFile(b) = TupleOf(0, b) /\ InFile(K + 1) = TupleOf(0, K + 1)
      BY <1>2, <1>12, <3>2, ReadTuples DEF FileInv
    <3>4. 1 \in 1..Fields
      BY FieldsPositive
    <3>5. TupleOf(0, b)[1] = <<0, b, 1>> /\ TupleOf(0, K + 1)[1] = <<0, K + 1, 1>>
      BY <3>4 DEF TupleOf
    <3>6. b # K + 1
      OBVIOUS
    <3> QED BY <1>13, <3>1, <3>3, <3>5, <3>6
  <2>2. \A k, l \in Jobs : \A n \in 1..Len(tuples[k]) : \A q \in 1..Len(tuples[l]) :
          tuples[k][n] = tuples[l][q] => k = l /\ n = q
    BY DEF FileInv, Read
  <2> SUFFICES ASSUME NEW k \in Jobs, NEW l \in Jobs, NEW n \in 1..Len(tuples'[k]),
                      NEW q \in 1..Len(tuples'[l]), tuples'[k][n] = tuples'[l][q]
               PROVE  k = l /\ n = q
    OBVIOUS
  <2>3. \/ n \in 1..Len(tuples[k]) /\ tuples'[k][n] = tuples[k][n]
        \/ k = j /\ n = m /\ tuples'[k][n] = t
    BY <1>6
  <2>4. \/ q \in 1..Len(tuples[l]) /\ tuples'[l][q] = tuples[l][q]
        \/ l = j /\ q = m /\ tuples'[l][q] = t
    BY <1>6
  <2> QED BY <2>1, <2>2, <2>3, <2>4
<1> QED
  BY <1>8, <1>9, <1>12, <1>15, <1>16, <1>17 DEF FileInv

(* A reader that finds the end of the file has no field of a tuple.         *)
LEMMA NothingPartial ==
  ASSUME FileTypes, Read, mode = "in", NEW K \in Nat, Follows(K),
         position = Len(file), Len(Partial) < Fields
  PROVE  Len(Partial) = 0
<1> DEFINE M == PerJob * JobNum
           p == Len(Partial)
<1>1. M \in Nat /\ Len(file) = M * Fields
  BY FullFileTuples DEF Read
<1>2. p \in 0..(Fields - 1) /\ Len(file) = K * Fields + p
  BY BeforePartial, FieldsPositive DEF Seen, Follows
<1> HIDE DEF M, p
<1>3. 0 \in 0..(Fields - 1) /\ M * Fields \in Int /\ M * Fields + 0 = M * Fields
  BY <1>1, FieldsPositive
<1>4. (M * Fields + 0) % Fields = 0 /\ (K * Fields + p) % Fields = p
  BY <1>1, <1>2, <1>3, DivMod
<1> QED
  BY <1>1, <1>2, <1>3, <1>4 DEF p

LEMMA EndInv == ASSUME NEW j \in Jobs PROVE FileInv /\ EndJob(j) => FileInv'
<1> SUFFICES ASSUME FileInv, EndJob(j) PROVE FileInv'
  OBVIOUS
<1>1. /\ over' = over \cup {j} /\ j # -1 /\ -1 \notin Jobs /\ FileTypes
      /\ UNCHANGED <<mode, file, position, launched, waited, tuple, tuples>>
  BY DEF EndJob, Jobs, FileInv
<1>2. PICK K \in Nat : Follows(K)
  BY DEF FileInv
<1>3. CASE mode = "out"
  <2>1. mutex # j /\ mutex' = mutex
    BY <1>3 DEF EndJob
  <2>2. FileTypes' /\ Written' /\ Read'
    BY <1>1, <1>3, <2>1 DEF FileInv, FileTypes, Written, Read
  <2>3. Ended'
    BY <1>1, <1>3, <2>1 DEF FileInv, Ended
  <2>4. Follows(K)'
    <3>1. Seen' = Seen /\ Partial' = Partial
      BY <1>1, <2>1 DEF Seen, Partial
    <3> QED BY <1>1, <1>2, <3>1, FollowsSame
  <2> QED BY <2>2, <2>3, <2>4 DEF FileInv
<1>4. CASE mode = "in"
  <2>1. mutex = j /\ Len(tuple[j]) < Fields /\ position = Len(file) /\ mutex' = -1
    BY <1>4 DEF EndJob, Inside
  <2>2. FileTypes'
    BY <1>1, <2>1 DEF FileTypes
  <2>3. Written' /\ Read'
    BY <1>1, <1>4, <2>1 DEF FileInv, Written, Read
  <2>4. Ended'
    BY <1>1, <2>1 DEF FileInv, FileTypes, Ended
  <2>5. Follows(K)'
    <3>1. Partial = tuple[j] /\ tuple[j] \in Seq(FieldSet)
      BY <1>1, <2>1 DEF Partial, FileTypes
    <3>2. Len(Partial) = 0
      BY <1>1, <1>2, <1>4, <2>1, <3>1, NothingPartial DEF FileInv
    <3>3. Partial = <<>>
      BY <3>1, <3>2
    <3>4. Seen' = Seen /\ Partial' = Partial
      BY <1>1, <2>1, <3>3 DEF Seen, Partial
    <3> QED BY <1>1, <1>2, <3>4, FollowsSame
  <2> QED BY <2>2, <2>3, <2>4, <2>5 DEF FileInv
<1> QED
  BY <1>1, <1>3, <1>4 DEF FileTypes

LEMMA FileNextInv == FileInv /\ [FileNext]_fileVars => FileInv'
<1> SUFFICES ASSUME FileInv, [FileNext]_fileVars PROVE FileInv'
  OBVIOUS
<1>1. CASE UNCHANGED fileVars
  <2>1. PICK K \in Nat : Follows(K)
    BY DEF FileInv
  <2>2. Follows(K)'
    <3>1. Seen' = Seen /\ Partial' = Partial
      BY <1>1 DEF Seen, Partial, fileVars
    <3> QED BY <1>1, <2>1, <3>1, FollowsSame DEF fileVars
  <2> QED BY <1>1, <2>2 DEF fileVars, FileInv, FileTypes, Written, Read, Ended
<1> QED
  BY <1>1, StartJoinInv, LockInv, PutInv, GetInv, ThroughInv, EndInv DEF FileNext

LEMMA FileInvariance == MultiSpec => []FileInv
<1>1. OneInit => FileInv
  BY FileInitInv DEF OneInit, MultiInit
<1>2. FileInv /\ [MultiNext]_<<used, loopVars, fileVars>> => FileInv'
  <2>1. [MultiNext]_<<used, loopVars, fileVars>> => [FileNext]_fileVars
    BY DEF MultiNext
  <2> QED BY <2>1, FileNextInv
<1> QED
  BY <1>1, <1>2, PTL DEF MultiSpec

-----------------------------------------------------------------------------
LEMMA InHeld ==
  ASSUME NEW h
  PROVE  h \in Held <=> \E j \in Jobs : \E n \in 1..Len(tuples[j]) : h = <<j, n>>
BY DEF Held

(* Whatever jobs write or read together, however many, their tuples are     *)
(* whole, each is one job's, and in the end they are those of the file.     *)
THEOREM JobsShareTheFile == MultiSpec => []TuplesWhole
<1>1. FileInv => TuplesWhole
  <2> SUFFICES ASSUME FileInv PROVE TuplesWhole
    OBVIOUS
  <2>1. PICK K \in Nat : Follows(K)
    BY DEF FileInv
  <2>2. FileTypes /\ Written /\ Read /\ Ended /\ 1 \in 1..Fields /\ Fields \in Nat \ {0}
    BY FieldsPositive DEF FileInv
  <2>3. /\ K * Fields \in Nat /\ Len(Partial) \in Nat /\ Seen <= Len(file) /\ Seen \in Nat
        /\ Seen = K * Fields + Len(Partial) /\ Len(file) \in Nat
    <3>1. /\ K * Fields \in Nat /\ Len(Partial) \in Nat /\ Seen \in 0..Len(file)
      BY <2>1, <2>2, BeforePartial
    <3>2. Seen = K * Fields + Len(Partial)
      BY <2>1 DEF Follows
    <3>3. Len(file) \in Nat
      BY <2>2 DEF FileTypes
    <3> QED BY <3>1, <3>2, <3>3
  <2>4. K * Fields <= Len(file)
    BY <2>3
  <2>5. ASSUME NEW j, NEW n PROVE Whole(TupleOf(j, n))
    BY <2>2 DEF Whole, TupleOf
  <2>6. ASSUME NEW b \in 1..K PROVE Whole(InFile(b))
    <3>1. CASE mode = "in"
      BY <2>2, <2>4, <2>5, <3>1, ReadTuples
    <3>2. CASE mode = "out"
      <4>1. PICK j \in Jobs : \E n \in 1..Len(tuples[j]) : tuples[j][n] = InFile(b)
        BY <2>1 DEF Follows
      <4>2. PICK n \in 1..Len(tuples[j]) : tuples[j][n] = InFile(b)
        BY <4>1
      <4> QED BY <2>2, <2>5, <3>2, <4>2 DEF Written
    <3> QED BY <2>2, <3>1, <3>2 DEF FileTypes
  <2>7. ASSUME NEW h \in Held PROVE Whole(HeldTuple(h))
    <3>1. PICK j \in Jobs : \E n \in 1..Len(tuples[j]) : h = <<j, n>>
      BY InHeld
    <3>2. PICK n \in 1..Len(tuples[j]) : h = <<j, n>>
      BY <3>1
    <3>3. PICK b \in 1..K : tuples[j][n] = InFile(b)
      BY <2>1 DEF Follows
    <3> QED BY <2>6, <3>2, <3>3 DEF HeldTuple
  <2>8. ASSUME NEW h \in Held, NEW g \in Held, HeldTuple(h) = HeldTuple(g) PROVE h = g
    <3>1. PICK j \in Jobs : \E n \in 1..Len(tuples[j]) : h = <<j, n>>
      BY InHeld
    <3>2. PICK n \in 1..Len(tuples[j]) : h = <<j, n>>
      BY <3>1
    <3>3. PICK k \in Jobs : \E m \in 1..Len(tuples[k]) : g = <<k, m>>
      BY InHeld
    <3>4. PICK m \in 1..Len(tuples[k]) : g = <<k, m>>
      BY <3>3
    <3>5. tuples[j][n] = tuples[k][m]
      BY <2>8, <3>2, <3>4 DEF HeldTuple
    <3>6. CASE mode = "in"
      BY <2>2, <3>2, <3>4, <3>5, <3>6 DEF Read
    <3>7. CASE mode = "out"
      <4>1. TupleOf(j, n) = TupleOf(k, m)
        BY <2>2, <3>5, <3>7 DEF Written
      <4>2. TupleOf(j, n)[1] = <<j, n, 1>> /\ TupleOf(k, m)[1] = <<k, m, 1>>
        BY <2>2 DEF TupleOf
      <4> QED BY <3>2, <3>4, <4>1, <4>2
    <3> QED BY <2>2, <3>6, <3>7 DEF FileTypes
  <2>9. ASSUME Len(file) = K * Fields
        PROVE  Len(file) \div Fields = K /\ Len(file) % Fields = 0
    <3>1. 0 \in 0..(Fields - 1) /\ K * Fields + 0 = K * Fields
      BY <2>2, <2>3
    <3> QED BY <2>9, <3>1, DivMod
  <2>10. ASSUME mutex = -1, NEW n \in 1..(Len(file) \div Fields) PROVE Whole(InFile(n))
    <3>1. CASE mode = "out"
      <4>1. Len(file) = K * Fields
        BY <2>3, <2>10, <3>1 DEF Partial, Seen
      <4> QED BY <2>6, <2>9, <2>10, <4>1
    <3>2. CASE mode = "in"
      <4> DEFINE M == PerJob * JobNum
      <4>1. M \in Nat /\ Len(file) = M * Fields
        BY <2>2, <3>2, FullFileTuples DEF Read
      <4> HIDE DEF M
      <4>2. 0 \in 0..(Fields - 1) /\ M * Fields \in Int /\ M * Fields + 0 = M * Fields
        BY <2>2, <4>1
      <4>3. Len(file) \div Fields = M
        BY <4>1, <4>2, DivMod
      <4>4. M * Fields <= Len(file)
        BY <4>1, <4>2
      <4>5. n \in 1..M
        BY <2>10, <4>3
      <4> QED BY <2>2, <2>5, <3>2, <4>1, <4>4, <4>5, ReadTuples
    <3> QED BY <2>2, <3>1, <3>2 DEF FileTypes
  <2>11. ASSUME waited \notin Jobs
         PROVE  /\ Len(file) % Fields = 0
                /\ {HeldTuple(h) : h \in Held} = {InFile(n) : n \in 1..(Len(file) \div Fields)}
    <3>1. JobNum \in Nat \ {0} /\ waited \in 0..JobNum
      BY <2>2, FieldsPositive DEF FileTypes
    <3>2. waited = JobNum
      BY <2>11, <3>1 DEF Jobs
    <3>3. \A j \in Jobs : j \in over
      BY <2>2, <3>1, <3>2 DEF Ended, Jobs
    <3>4. mutex = -1
      BY <2>2, <3>3 DEF Ended, FileTypes
    <3>5. Seen = Len(file)
      <4>1. 0 \in Jobs
        BY <3>1 DEF Jobs
      <4>2. over # {}
        BY <3>3, <4>1
      <4> QED BY <2>2, <4>2 DEF Ended, Seen, FileTypes
    <3>6. Len(file) = K * Fields
      BY <2>3, <3>4, <3>5 DEF Partial
    <3>7. Len(file) \div Fields = K /\ Len(file) % Fields = 0
      BY <2>9, <3>6
    <3>8. ASSUME NEW h \in Held PROVE HeldTuple(h) \in {InFile(n) : n \in 1..K}
      <4>1. PICK j \in Jobs : \E n \in 1..Len(tuples[j]) : h = <<j, n>>
        BY InHeld
      <4>2. PICK n \in 1..Len(tuples[j]) : h = <<j, n>>
        BY <4>1
      <4>3. PICK b \in 1..K : tuples[j][n] = InFile(b)
        BY <2>1 DEF Follows
      <4> QED BY <4>2, <4>3 DEF HeldTuple
    <3>9. ASSUME NEW b \in 1..K PROVE InFile(b) \in {HeldTuple(h) : h \in Held}
      <4>1. PICK j \in Jobs : \E n \in 1..Len(tuples[j]) : tuples[j][n] = InFile(b)
        BY <2>1 DEF Follows
      <4>2. PICK n \in 1..Len(tuples[j]) : tuples[j][n] = InFile(b)
        BY <4>1
      <4>3. <<j, n>> \in Held /\ HeldTuple(<<j, n>>) = InFile(b)
        BY <4>2, InHeld DEF HeldTuple
      <4> QED BY <4>3
    <3>10. {HeldTuple(h) : h \in Held} = {InFile(n) : n \in 1..K}
      BY <3>8, <3>9
    <3> QED BY <3>7, <3>10
  <2> QED BY <2>7, <2>8, <2>10, <2>11 DEF TuplesWhole
<1> QED
  BY <1>1, FileInvariance, PTL
=============================================================================
