----------------------------- MODULE Opip_proofs -----------------------------
(***************************************************************************)
(* The safety of Opip for every set of producers and whatever stop_ holds  *)
(* before it is initialised: the types, the order of the records, and that *)
(* the stream implements OrderedLog.  The inductive invariant adds to the  *)
(* types and the order where the writer can be once it has left its loop.  *)
(* That the writer is never left asleep is inductive beside it.            *)
(***************************************************************************)
EXTENDS Opip, TLAPS

(* A writer leaves its loop once; unless it did so on the garbage it leaves *)
(* after the destructor has begun, when nothing is pushed any more, and has *)
(* drained the queue when it exits; the object is gone only after that.     *)
Leaving ==
  /\ early => writer \in {"draining", "exited", "undefined"}
  /\ writer \in {"draining", "exited"} /\ ~early =>
       owner \in {"notifying", "joining", "done"}
  /\ writer = "exited" /\ ~early => queue = <<>>
  /\ owner = "done" => writer = "exited"

IInv == TypeOK /\ FileFollowsPushes /\ Leaving

-----------------------------------------------------------------------------
(* The initial states satisfy the invariant.                                *)
LEMMA InitInv == Init => IInv
<1> SUFFICES ASSUME Init PROVE IInv
  OBVIOUS
<1>1. TypeOK
  <2>1. stop \in BOOLEAN /\ early \in BOOLEAN
    BY OpipAssumption, Zenon DEF Init
  <2>2. /\ queue \in Seq(Nat) /\ file \in Seq(Nat) /\ data \in Nat /\ sent \in Nat
        /\ data = 0 /\ writer = "testing" /\ owner = "constructing"
    BY DEF Init
  <2>3. producer \in [Producers -> {"idle", "notifying"}]
    BY DEF Init
  <2> QED BY <2>1, <2>2, <2>3 DEF TypeOK
<1>2. FileFollowsPushes
  BY DEF Init, FileFollowsPushes, InHand
<1>3. Leaving
  BY DEF Init, Leaving
<1> QED
  BY <1>1, <1>2, <1>3 DEF IInv

(* A queue that holds the numbers from a on, less its head, holds those     *)
(* from a + 1 on.                                                           *)
LEMMA TailFollows ==
  ASSUME NEW q \in Seq(Nat), NEW a \in Nat, q # <<>>,
         \A i \in 1..Len(q) : q[i] = a + i
  PROVE  /\ Head(q) = a + 1 /\ Tail(q) \in Seq(Nat)
         /\ Len(Tail(q)) = Len(q) - 1
         /\ \A i \in 1..Len(Tail(q)) : Tail(q)[i] = a + 1 + i
<1>1. /\ Len(q) \in Nat \ {0} /\ Head(q) = q[1] /\ Len(Tail(q)) = Len(q) - 1
      /\ Tail(q) \in Seq(Nat)
      /\ \A i \in 1..Len(Tail(q)) : Tail(q)[i] = q[i + 1]
  OBVIOUS
<1>2. ASSUME NEW i \in 1..Len(Tail(q)) PROVE Tail(q)[i] = a + 1 + i
  <2>1. i + 1 \in 1..Len(q) /\ i \in Nat
    BY <1>1
  <2>2. q[i + 1] = a + (i + 1)
    BY <2>1
  <2> QED BY <1>1, <2>1, <2>2
<1>3. Head(q) = a + 1
  BY <1>1
<1> QED
  BY <1>1, <1>2, <1>3

(* A sequence that counts from 1 goes on counting when its length plus one  *)
(* is appended.                                                             *)
LEMMA AppendCounts ==
  ASSUME NEW s \in Seq(Nat), \A i \in 1..Len(s) : s[i] = i
  PROVE  LET t == Append(s, Len(s) + 1)
         IN  /\ t \in Seq(Nat) /\ Len(t) = Len(s) + 1
             /\ \A i \in 1..Len(t) : t[i] = i
<1> DEFINE t == Append(s, Len(s) + 1)
<1>1. /\ t \in Seq(Nat) /\ Len(s) \in Nat /\ Len(t) = Len(s) + 1
      /\ t[Len(s) + 1] = Len(s) + 1
      /\ \A i \in 1..Len(s) : t[i] = s[i]
  OBVIOUS
<1>2. ASSUME NEW i \in 1..Len(t) PROVE t[i] = i
  <2>1. i = Len(s) + 1 \/ i \in 1..Len(s)
    BY <1>1
  <2> QED BY <1>1, <2>1
<1> QED
  BY <1>1, <1>2

-----------------------------------------------------------------------------
(* The steps that move a record.                                            *)
LEMMA TakeInv == IInv /\ Take => IInv'
<1> SUFFICES ASSUME IInv, Take PROVE IInv'
  OBVIOUS
<1> USE DEF IInv, TypeOK, Take, Taken
<1>1. /\ \A i \in 1..Len(queue) : queue[i] = Len(file) + i
      /\ sent = Len(file) + Len(queue)
      /\ \A i \in 1..Len(file) : file[i] = i
      /\ Len(file) \in Nat
  BY DEF FileFollowsPushes, InHand
<1>2. /\ data' = Len(file) + 1 /\ queue' \in Seq(Nat)
      /\ Len(queue') = Len(queue) - 1
      /\ \A i \in 1..Len(queue') : queue'[i] = Len(file) + 1 + i
  BY <1>1, TailFollows
<1>3. TypeOK'
  BY <1>1, <1>2
<1>4. FileFollowsPushes'
  BY <1>1, <1>2 DEF FileFollowsPushes, InHand
<1>5. Leaving'
  BY DEF Leaving
<1> QED
  BY <1>3, <1>4, <1>5

LEMMA WriteOutInv == IInv /\ WriteOut => IInv'
<1> SUFFICES ASSUME IInv, WriteOut PROVE IInv'
  OBVIOUS
<1> USE DEF IInv, TypeOK, WriteOut, Released
<1>1. /\ \A i \in 1..Len(queue) : queue[i] = Len(file) + 1 + i
      /\ sent = Len(file) + 1 + Len(queue)
      /\ \A i \in 1..Len(file) : file[i] = i
      /\ data = Len(file) + 1 /\ Len(file) \in Nat
  BY DEF FileFollowsPushes, InHand
<1>2. /\ file' \in Seq(Nat) /\ Len(file') = Len(file) + 1
      /\ \A i \in 1..Len(file') : file'[i] = i
  BY <1>1, AppendCounts
<1>3. TypeOK'
  BY <1>2
<1>4. FileFollowsPushes'
  BY <1>1, <1>2 DEF FileFollowsPushes, InHand
<1>5. Leaving'
  BY DEF Leaving
<1> QED
  BY <1>3, <1>4, <1>5

LEMMA DrainInv == IInv /\ Drain => IInv'
<1> SUFFICES ASSUME IInv, Drain PROVE IInv'
  OBVIOUS
<1> USE DEF IInv, TypeOK, Drain
<1>1. /\ \A i \in 1..Len(queue) : queue[i] = Len(file) + i
      /\ sent = Len(file) + Len(queue)
      /\ \A i \in 1..Len(file) : file[i] = i
      /\ Len(file) \in Nat
  BY DEF FileFollowsPushes, InHand
<1>2. CASE queue # <<>>
  <2>1. /\ Head(queue) = Len(file) + 1 /\ queue' \in Seq(Nat)
        /\ Len(queue') = Len(queue) - 1
        /\ \A i \in 1..Len(queue') : queue'[i] = Len(file) + 1 + i
    <3>1. queue \in Seq(Nat) /\ queue' = Tail(queue)
      BY <1>2
    <3> HIDE DEF IInv, TypeOK, Drain
    <3> QED BY <1>1, <1>2, <3>1, TailFollows
  <2>2. /\ file' \in Seq(Nat) /\ Len(file') = Len(file) + 1
        /\ \A i \in 1..Len(file') : file'[i] = i
    BY <1>1, <1>2, <2>1, AppendCounts
  <2>3. TypeOK'
    BY <1>2, <2>1, <2>2
  <2>4. FileFollowsPushes'
    BY <1>1, <1>2, <2>1, <2>2 DEF FileFollowsPushes, InHand
  <2>5. Leaving'
    BY <1>2 DEF Leaving
  <2> QED BY <2>3, <2>4, <2>5
<1>3. CASE queue = <<>>
  BY <1>1, <1>3 DEF FileFollowsPushes, InHand, Leaving
<1> QED
  BY <1>2, <1>3

LEMMA PushInv == ASSUME NEW p \in Producers PROVE IInv /\ Push(p) => IInv'
<1> SUFFICES ASSUME IInv, Push(p) PROVE IInv'
  OBVIOUS
<1> USE DEF IInv, TypeOK, Push
<1>1. /\ queue' \in Seq(Nat) /\ Len(queue') = Len(queue) + 1 /\ Len(queue) \in Nat
      /\ queue'[Len(queue) + 1] = sent + 1
      /\ \A i \in 1..Len(queue) : queue'[i] = queue[i]
  OBVIOUS
<1>2. TypeOK'
  BY <1>1
<1>3. FileFollowsPushes'
  <2> SUFFICES ASSUME writer # "undefined" PROVE FileFollowsPushes'
    BY DEF FileFollowsPushes
  <2>1. /\ \A i \in 1..Len(queue) : queue[i] = Len(file) + InHand + i
        /\ sent = Len(file) + InHand + Len(queue)
        /\ InHand \in Nat /\ InHand' = InHand /\ Len(file) \in Nat
    BY DEF FileFollowsPushes, InHand
  <2>2. ASSUME NEW i \in 1..Len(queue')
        PROVE  queue'[i] = Len(file) + InHand + i
    <3>1. i = Len(queue) + 1 \/ i \in 1..Len(queue)
      BY <1>1
    <3>2. CASE i = Len(queue) + 1
      BY <1>1, <2>1, <3>2
    <3>3. CASE i \in 1..Len(queue)
      BY <1>1, <2>1, <3>3
    <3> QED BY <3>1, <3>2, <3>3
  <2>3. sent' = Len(file') + InHand' + Len(queue')
    BY <1>1, <2>1
  <2> QED BY <2>1, <2>2, <2>3 DEF FileFollowsPushes
<1>4. Leaving'
  BY DEF Leaving, LockFree
<1> QED
  BY <1>2, <1>3, <1>4

-----------------------------------------------------------------------------
(* Every other step leaves the records where they are.                      *)
LEMMA OtherInv ==
  ASSUME IInv,
         \/ Sleep \/ SeeStop \/ Break \/ FrontAfterGarbage \/ DrainRaces
         \/ SpuriousWakeup \/ Constructed \/ SetStop \/ NotifyAll \/ Destroyed
         \/ UNCHANGED vars
         \/ \E p \in Producers : Notify(p)
  PROVE  IInv'
<1> USE DEF IInv, TypeOK
<1>1. /\ UNCHANGED <<queue, file, data, sent>>
      /\ writer = "undefined" => writer' = "undefined"
  BY DEF Sleep, SeeStop, Break, FrontAfterGarbage, DrainRaces, SpuriousWakeup,
         Constructed, SetStop, NotifyAll, Destroyed, vars, Notify, Woken
<1>2. FileFollowsPushes'
  BY <1>1 DEF FileFollowsPushes, InHand
<1>3. TypeOK' /\ Leaving'
  <2>1. CASE Sleep \/ SeeStop \/ FrontAfterGarbage \/ SpuriousWakeup
    BY <2>1 DEF Sleep, SeeStop, FrontAfterGarbage, SpuriousWakeup, Leaving
  <2>2. CASE Break
    <3>1. /\ writer = "woken" /\ writer' = "draining" /\ data = 0
          /\ UNCHANGED <<queue, stop, file, data, producer, owner, sent>>
      BY <2>2 DEF Break
    <3>2. early' \in BOOLEAN /\ (early' <=> owner \in {"constructing", "alive"})
      <4>1. early' = (owner \in {"constructing", "alive"})
        BY <2>2 DEF Break
      <4> HIDE DEF IInv, TypeOK
      <4>2. CASE owner \in {"constructing", "alive"}
        BY <4>1, <4>2, Zenon
      <4>3. CASE owner \notin {"constructing", "alive"}
        <5>1. (owner \in {"constructing", "alive"}) = FALSE
          BY <4>3
        <5> QED BY <4>1, <5>1, <4>3
      <4> QED BY <4>2, <4>3
    <3>3. owner # "done"
      BY <3>1 DEF Leaving
    <3>4. TypeOK'
      BY <3>1, <3>2
    <3> QED BY <3>1, <3>2, <3>3, <3>4 DEF Leaving
  <2>3. CASE DrainRaces
    BY <2>3 DEF DrainRaces, Leaving
  <2>4. CASE Constructed \/ SetStop
    <3>1. stop' \in BOOLEAN
      BY <2>4, Zenon DEF Constructed, SetStop
    <3>2. /\ UNCHANGED <<queue, file, writer, data, producer, sent, early>>
          /\ \/ owner = "constructing" /\ owner' = "alive"
             \/ owner = "alive" /\ owner' = "notifying"
      BY <2>4 DEF Constructed, SetStop
    <3>3. TypeOK'
      BY <3>1, <3>2
    <3> QED BY <3>2, <3>3 DEF Leaving
  <2>5. CASE NotifyAll
    BY <2>5 DEF NotifyAll, Woken, Leaving
  <2>6. CASE Destroyed
    BY <2>6 DEF Destroyed, Joined, Leaving
  <2>7. CASE UNCHANGED vars
    BY <2>7 DEF vars, Leaving
  <2>8. ASSUME NEW p \in Producers, Notify(p) PROVE TypeOK' /\ Leaving'
    BY <2>8 DEF Notify, Woken, Leaving
  <2> QED
    BY <2>1, <2>2, <2>3, <2>4, <2>5, <2>6, <2>7, <2>8
<1> QED
  BY <1>2, <1>3

-----------------------------------------------------------------------------
(* Every step preserves the invariant.                                      *)
LEMMA NextInv == IInv /\ [Next]_vars => IInv'
BY TakeInv, WriteOutInv, DrainInv, PushInv, OtherInv DEF Next

(* The invariant holds in every reachable state.                            *)
LEMMA Invariance == Spec => []IInv
BY InitInv, NextInv, PTL DEF Spec

-----------------------------------------------------------------------------
(* The variables keep their types, and a record is in the writer's hand     *)
(* exactly while it is written.                                             *)
THEOREM OpipTypes == Spec => []TypeOK
BY Invariance, PTL DEF IInv

(* In any build, whatever stop_ held: the file, the record in hand and the  *)
(* queue are the pushed records in order, unless the writer used the front  *)
(* of an empty queue.                                                       *)
THEOREM OpipFileFollowsPushes == Spec => []FileFollowsPushes
BY Invariance, PTL DEF IInv

-----------------------------------------------------------------------------
(* The step that falls asleep finds nothing queued and no stop_; a record   *)
(* that is queued later comes with the notification still to be given, and  *)
(* the destructor, which begins when no producer has one left, with its own.*)
LEMMA AsleepStep ==
  ASSUME IInv, WriterNotLeftAsleep, [Next]_vars
  PROVE  WriterNotLeftAsleep'
<1> SUFFICES ASSUME writer' = "waiting"
             PROVE  /\ queue' # <<>> => \E p \in Producers : producer'[p] = "notifying"
                    /\ stop' => owner' = "notifying"
  BY DEF WriterNotLeftAsleep
<1>1. CASE Sleep
  BY <1>1 DEF Sleep
<1>2. ASSUME writer = "waiting", NEW p \in Producers, Push(p)
      PROVE  producer'[p] = "notifying" /\ UNCHANGED <<stop, owner>>
  BY <1>2 DEF Push, IInv, TypeOK
<1>3. ASSUME writer = "waiting", SetStop
      PROVE  queue' = <<>> /\ owner' = "notifying"
  BY <1>3 DEF SetStop, WriterNotLeftAsleep
<1>4. CASE Constructed
  BY <1>4 DEF Constructed, WriterNotLeftAsleep
<1>5. CASE UNCHANGED vars
  BY <1>5 DEF vars, WriterNotLeftAsleep
<1>6. ~(SeeStop \/ Break \/ FrontAfterGarbage \/ Take \/ WriteOut \/ Drain
        \/ DrainRaces \/ SpuriousWakeup \/ NotifyAll \/ Destroyed)
  BY DEF SeeStop, Break, FrontAfterGarbage, Take, WriteOut, Drain, DrainRaces,
         SpuriousWakeup, NotifyAll, Woken, Destroyed, Joined
<1>7. ~ \E p \in Producers : Notify(p)
  BY DEF Notify, Woken
<1>8. ASSUME NEW p \in Producers, Push(p) PROVE writer = "waiting"
  BY <1>8 DEF Push
<1>9. SetStop => writer = "waiting"
  BY DEF SetStop
<1>10. ASSUME NEW p \in Producers, Push(p)
       PROVE  /\ \E q \in Producers : producer'[q] = "notifying"
              /\ stop' => owner' = "notifying"
  <2>1. writer = "waiting"
    BY <1>8, <1>10
  <2> QED BY <1>2, <1>10, <2>1 DEF WriterNotLeftAsleep
<1> QED
  BY <1>1, <1>3, <1>4, <1>5, <1>6, <1>7, <1>9, <1>10 DEF Next

(* The writer never sleeps over a record whose producer has left operator<<,*)
(* nor over a stop_ whose destructor is past its notify_all: the test of    *)
(* the predicate and the wait are one step under mutex_, and push and       *)
(* destructor notify after they have changed what it reads.                 *)
THEOREM OpipWriterNotLeftAsleep == Spec => []WriterNotLeftAsleep
<1>1. Init => WriterNotLeftAsleep
  BY DEF Init, WriterNotLeftAsleep
<1> QED
  BY <1>1, AsleepStep, Invariance, PTL DEF Spec

-----------------------------------------------------------------------------
(* The refinement: each step writes the next record, offers one, closes the *)
(* log with everything written, or changes nothing of it.                   *)
LEMMA LogInit == Init => Log!Init
BY DEF Init, Log!Init

LEMMA LogStep == IInv /\ [Next]_vars => [Log!Next]_(Log!logVars)
<1> SUFFICES ASSUME IInv, [Next]_vars PROVE [Log!Next]_(Log!logVars)
  OBVIOUS
<1> USE DEF IInv, TypeOK, Log!logVars, Log!Next
<1>1. CASE WriteOut
  <2>1. data = Len(file) + 1 /\ Len(file) < sent
    BY <1>1 DEF WriteOut, FileFollowsPushes, InHand
  <2> QED BY <1>1, <2>1 DEF WriteOut, Log!Write
<1>2. CASE Drain
  <2>1. CASE queue # <<>>
    <3>1. Head(queue) = Len(file) + 1 /\ Len(file) < sent
      BY <1>2, <2>1 DEF Drain, FileFollowsPushes, InHand
    <3> QED BY <1>2, <2>1, <3>1 DEF Drain, Log!Write
  <2>2. CASE queue = <<>>
    BY <1>2, <2>2 DEF Drain
  <2> QED BY <2>1, <2>2
<1>3. ASSUME NEW p \in Producers, Push(p) PROVE [Log!Next]_(Log!logVars)
  BY <1>3 DEF Push, Log!Offer
<1>4. CASE Destroyed
  <2>1. CASE early
    BY <1>4, <2>1 DEF Destroyed
  <2>2. CASE ~early
    <3>1. queue = <<>> /\ data = 0 /\ writer = "exited"
      BY <1>4, <2>2 DEF Destroyed, Joined, Leaving
    <3>2. Len(file) = sent
      BY <3>1 DEF FileFollowsPushes, InHand
    <3> QED BY <1>4, <2>2, <3>2 DEF Destroyed, Log!Close
  <2> QED BY <2>1, <2>2
<1>5. CASE Break
  BY <1>5 DEF Break, Leaving
<1>6. CASE \/ Sleep \/ SeeStop \/ FrontAfterGarbage \/ Take \/ DrainRaces
           \/ SpuriousWakeup \/ UNCHANGED vars
  BY <1>6 DEF Sleep, SeeStop, FrontAfterGarbage, Take, DrainRaces,
              SpuriousWakeup, vars
<1>7. CASE Constructed \/ SetStop \/ NotifyAll
  BY <1>7 DEF Constructed, SetStop, NotifyAll
<1>8. ASSUME NEW p \in Producers, Notify(p) PROVE [Log!Next]_(Log!logVars)
  BY <1>8 DEF Notify
<1> QED
  BY <1>1, <1>2, <1>3, <1>4, <1>5, <1>6, <1>7, <1>8 DEF Next

(* Opip is an ordered log: records are written once and in order, and the   *)
(* object is gone after the last write, unless the writer had left its loop *)
(* on the uninitialised stop_.                                              *)
THEOREM OpipIsOrderedLog == Spec => IsOrderedLog
BY LogInit, LogStep, Invariance, PTL DEF Spec, IsOrderedLog, Log!Spec
=============================================================================
