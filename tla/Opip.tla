-------------------------------- MODULE Opip --------------------------------
(***************************************************************************)
(* multi-thread/ciostream.hpp, class Opip: producers push records into a   *)
(* queue and one thread writes them to a file.                             *)
(*                                                                         *)
(* The member thread_ is declared before stop_ (lines 60-61), so the       *)
(* thread starts while stop_ holds whatever the storage held; the          *)
(* constructor gives stop_ its value afterwards.  StopGarbage is the set   *)
(* of values the storage may hold: {FALSE} is a build in which the memory  *)
(* happens to be zero, BOOLEAN is any build.                               *)
(*                                                                         *)
(* A record is named by its place in the order of the pushes.  A step is   *)
(* a critical section; the writer that left cv_.wait because of stop_ is   *)
(* at "woken" and still holds the mutex, since it reads stop_ once more    *)
(* and the constructor stores stop_ without the mutex.                     *)
(***************************************************************************)
EXTENDS Naturals, Sequences

CONSTANTS
  Producers,    (* the threads that call operator<<                         *)
  StopGarbage,  (* what an uninitialised stop_ may hold                     *)
  MaxSent       (* bound of the model: how many records are pushed          *)

ASSUME OpipAssumption ==
  /\ StopGarbage \subseteq BOOLEAN
  /\ MaxSent \in Nat

VARIABLES
  queue,        (* queue_                                                   *)
  stop,         (* stop_                                                    *)
  file,         (* what was written to file_                                *)
  writer,       (* where the writer thread is                               *)
  data,         (* the record the writer holds, 0 for none                  *)
  producer,     (* where each producer is                                   *)
  owner,        (* where the thread that owns the object is                 *)
  sent,         (* history: how many records were pushed                    *)
  early         (* history: the writer left its loop on the garbage         *)

vars == <<queue, stop, file, writer, data, producer, owner, sent, early>>

(* The types; the writer holds a record exactly while it writes it out.     *)
TypeOK ==
  /\ queue \in Seq(Nat)
  /\ stop \in BOOLEAN
  /\ file \in Seq(Nat)
  /\ writer \in {"testing", "woken", "waiting", "writing", "draining", "exited",
                 "undefined"}
  /\ data \in Nat
  /\ producer \in [Producers -> {"idle", "notifying"}]
  /\ owner \in {"constructing", "alive", "notifying", "joining", "done"}
  /\ sent \in Nat
  /\ early \in BOOLEAN
  /\ data # 0 <=> writer = "writing"

Init ==
  /\ queue = <<>>
  /\ stop \in StopGarbage
  /\ file = <<>>
  /\ writer = "testing"
  /\ data = 0
  /\ producer = [p \in Producers |-> "idle"]
  /\ owner = "constructing"
  /\ sent = 0
  /\ early = FALSE

LockFree == writer # "woken"
-----------------------------------------------------------------------------
(* The writer thread.                                                       *)

(* The predicate is false: the writer waits.                                *)
Sleep ==
  /\ writer = "testing"
  /\ ~stop /\ queue = <<>>
  /\ writer' = "waiting"
  /\ UNCHANGED <<queue, stop, file, data, producer, owner, sent, early>>

(* The predicate is true because of stop_.                                  *)
SeeStop ==
  /\ writer = "testing"
  /\ stop
  /\ writer' = "woken"
  /\ UNCHANGED <<queue, stop, file, data, producer, owner, sent, early>>

(* if (stop_) break;                                                        *)
Break ==
  /\ writer = "woken"
  /\ stop
  /\ writer' = "draining"
  /\ early' = (owner \in {"constructing", "alive"})
  /\ UNCHANGED <<queue, stop, file, data, producer, owner, sent>>

(* The constructor has stored FALSE since the predicate read the garbage:   *)
(* the front of a queue that may be empty is used.                          *)
FrontAfterGarbage ==
  /\ writer = "woken"
  /\ ~stop
  /\ writer' = "undefined"
  /\ UNCHANGED <<queue, stop, file, data, producer, owner, sent, early>>

Taken == Head(queue)

Take ==
  /\ writer = "testing"
  /\ ~stop /\ queue # <<>>
  /\ data' = Taken
  /\ queue' = Tail(queue)
  /\ writer' = "writing"
  /\ UNCHANGED <<stop, file, producer, owner, sent, early>>

Released == 0

WriteOut ==
  /\ writer = "writing"
  /\ file' = Append(file, data)
  /\ data' = Released
  /\ writer' = "testing"
  /\ UNCHANGED <<queue, stop, producer, owner, sent, early>>

(* The loop after the break runs without the mutex.  Nobody else uses the   *)
(* queue then, unless the writer left too early: see DrainRaces.            *)
Drain ==
  /\ writer = "draining"
  /\ IF queue # <<>>
     THEN /\ file' = Append(file, Head(queue))
          /\ queue' = Tail(queue)
          /\ UNCHANGED writer
     ELSE /\ writer' = "exited"
          /\ UNCHANGED <<file, queue>>
  /\ UNCHANGED <<stop, data, producer, owner, sent, early>>

(* Two threads in the queue at once, one of them without the mutex.         *)
DrainRaces ==
  /\ writer = "draining"
  /\ early /\ owner = "alive" /\ queue # <<>>
  /\ writer' = "undefined"
  /\ UNCHANGED <<queue, stop, file, data, producer, owner, sent, early>>

-----------------------------------------------------------------------------
(* operator<<, between the end of the constructor and the destructor.       *)
Push(p) ==
  /\ owner = "alive"
  /\ producer[p] = "idle"
  /\ sent < MaxSent
  /\ LockFree
  /\ sent' = sent + 1
  /\ queue' = Append(queue, sent + 1)
  /\ producer' = [producer EXCEPT ![p] = "notifying"]
  /\ UNCHANGED <<stop, file, writer, data, owner, early>>

(* Mutant of Woken: the notification is forgotten.                          *)
NotWoken == writer

Woken == IF writer = "waiting" THEN "testing" ELSE writer

Notify(p) ==
  /\ producer[p] = "notifying"
  /\ producer' = [producer EXCEPT ![p] = "idle"]
  /\ writer' = Woken
  /\ UNCHANGED <<queue, stop, file, data, owner, sent, early>>

SpuriousWakeup ==
  /\ writer = "waiting"
  /\ writer' = "testing"
  /\ UNCHANGED <<queue, stop, file, data, producer, owner, sent, early>>

-----------------------------------------------------------------------------
(* The owner: the end of the constructor, and the destructor, which the     *)
(* owner calls when no producer is in operator<<.                           *)
Constructed ==
  /\ owner = "constructing"
  /\ stop' = FALSE
  /\ owner' = "alive"
  /\ UNCHANGED <<queue, file, writer, data, producer, sent, early>>

SetStop ==
  /\ owner = "alive"
  /\ \A p \in Producers : producer[p] = "idle"
  /\ LockFree
  /\ stop' = TRUE
  /\ owner' = "notifying"
  /\ UNCHANGED <<queue, file, writer, data, producer, sent, early>>

NotifyAll ==
  /\ owner = "notifying"
  /\ writer' = Woken
  /\ owner' = "joining"
  /\ UNCHANGED <<queue, stop, file, data, producer, sent, early>>

(* Mutant of Joined: the thread is not waited for.                          *)
JoinedAtOnce == TRUE

Joined == writer = "exited"

Destroyed ==
  /\ owner = "joining"
  /\ Joined
  /\ owner' = "done"
  /\ UNCHANGED <<queue, stop, file, writer, data, producer, sent, early>>

-----------------------------------------------------------------------------
WriterStep ==
  Sleep \/ SeeStop \/ Break \/ FrontAfterGarbage \/ Take \/ WriteOut \/ Drain

Next ==
  \/ Sleep \/ SeeStop \/ Break \/ FrontAfterGarbage \/ Take \/ WriteOut
  \/ Drain \/ DrainRaces \/ SpuriousWakeup
  \/ \E p \in Producers : Push(p) \/ Notify(p)
  \/ Constructed \/ SetStop \/ NotifyAll \/ Destroyed

(* Threads are scheduled; nobody has to push or to destroy the object.      *)
Fairness ==
  /\ WF_vars(WriterStep)
  /\ \A p \in Producers : WF_vars(Notify(p))
  /\ WF_vars(Constructed) /\ WF_vars(NotifyAll) /\ WF_vars(Destroyed)

Spec == Init /\ [][Next]_vars /\ Fairness
-----------------------------------------------------------------------------
InHand == IF data = 0 THEN 0 ELSE 1

(* No record is lost, doubled or overtaken on its way: the file holds the   *)
(* first records, then comes the one in the writer's hand, then the queue.  *)
FileFollowsPushes ==
  writer # "undefined" =>
    /\ \A i \in 1..Len(file) : file[i] = i
    /\ data # 0 => data = Len(file) + 1
    /\ \A i \in 1..Len(queue) : queue[i] = Len(file) + InHand + i
    /\ sent = Len(file) + InHand + Len(queue)

(* The destructor returns: stop_ is stored under the mutex, so the writer   *)
(* cannot miss it between its test and its wait.                            *)
DestructorEnds == (owner = "notifying") ~> (owner = "done" \/ writer = "undefined")

(* A pushed record is written.                                              *)
PushedIsWritten ==
  \A n \in 1..MaxSent :
    (sent >= n) ~> (Len(file) >= n \/ early \/ writer = "undefined")

(* The writer is never left asleep: while it waits, a record that is queued *)
(* has a producer that is still to notify it, and a stop_ that is set has   *)
(* the destructor.  This is what makes PushedIsWritten and DestructorEnds   *)
(* hold.                                                                    *)
WriterNotLeftAsleep ==
  writer = "waiting" =>
    /\ queue # <<>> => \E p \in Producers : producer[p] = "notifying"
    /\ stop => owner = "notifying"

(* The stream is an ordered log: records are written once and in order, and *)
(* destroying the stream comes after the last write.  The one exception is  *)
(* a writer that had left its loop on the garbage in stop_ before the       *)
(* constructor stored FALSE: then the log is never properly closed.         *)
Log == INSTANCE OrderedLog WITH
         offered <- sent, written <- file, closed <- (owner = "done" /\ ~early)

IsOrderedLog == Log!Spec
=============================================================================
