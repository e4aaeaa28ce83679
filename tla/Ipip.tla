-------------------------------- MODULE Ipip --------------------------------
(***************************************************************************)
(* multi-thread/ciostream.hpp, class Ipip: one thread loads a file in      *)
(* batches into a queue, readers take the records off it with operator>>.  *)
(*                                                                         *)
(* The file holds the records 1..NumRecords.  Whether something follows    *)
(* the last one (a newline, in practice) decides how the end is noticed: a *)
(* stream sets eof when an extraction runs into the end, which is the      *)
(* extraction of the last record in a "bare" file and one extraction later *)
(* in a "newline" file.  The failed extraction still queues a record, here *)
(* the record 0.  A "missing" file sets fail and never eof.                *)
(*                                                                         *)
(* As in Opip the thread starts before stop_ and eoq_ have their values;   *)
(* Garbage is what their storage may hold until the constructor ends.      *)
(***************************************************************************)
EXTENDS Naturals, Sequences

CONSTANTS
  Readers,      (* the threads that call operator>>                         *)
  FileKinds,    (* the kinds of file, of "bare", "newline", "missing"       *)
  NumRecords,   (* how many records the file holds                          *)
  Batch,        (* how many records are loaded at once: 100 in the code     *)
  Garbage,      (* what uninitialised flags may hold                        *)
  MaxGot        (* bound of the model: how many records are read            *)

ASSUME IpipAssumption ==
  /\ FileKinds \subseteq {"bare", "newline", "missing"}
  /\ NumRecords \in Nat
  /\ Batch \in Nat \ {0}
  /\ Garbage \subseteq BOOLEAN
  /\ MaxGot \in Nat

VARIABLES
  kind,         (* what file_ was opened on                                 *)
  pos,          (* how many records were extracted                          *)
  eof,          (* file_.eof()                                              *)
  queue,        (* queue_                                                   *)
  stop,         (* stop_                                                    *)
  eoq,          (* eoq_                                                     *)
  loader,       (* where the loading thread is                              *)
  reader,       (* where each reader is                                     *)
  owner,        (* where the thread that owns the object is                 *)
  got,          (* history: the records the readers took, in order          *)
  early,        (* history: the loader left its loop on the garbage         *)
  overwritten   (* history: the constructor cleared the loader's eoq_       *)

vars == <<kind, pos, eof, queue, stop, eoq, loader, reader, owner, got, early,
          overwritten>>

fileVars == <<kind, pos, eof>>

history == <<early, overwritten>>

Init ==
  /\ kind \in FileKinds
  /\ pos = 0 /\ eof = FALSE
  /\ queue = <<>>
  /\ stop \in Garbage /\ eoq \in Garbage
  /\ loader = "testing"
  /\ reader = [r \in Readers |-> "idle"]
  /\ owner = "constructing"
  /\ got = <<>>
  /\ early = FALSE /\ overwritten = FALSE

(* The mutex may be taken: the loader does not hold it on its way out of    *)
(* its wait, and the object that it belongs to has not been destroyed.      *)
LockFree == loader # "woken" /\ owner # "done"

-----------------------------------------------------------------------------
(* The loading thread.                                                      *)

Smaller(a, b) == IF a <= b THEN a ELSE b

(* Mutant of LoadedRecords: every batch starts the file again.              *)
LoadedFromStart ==
  [i \in 1..Smaller(Batch, NumRecords) |-> i]

(* The records one batch extracts: whole records while there are any, then  *)
(* one failed extraction if the batch goes on and eof was not yet noticed.  *)
LoadedRecords ==
  IF kind = "missing" THEN [i \in 1..Batch |-> 0]
  ELSE LET whole == Smaller(Batch, NumRecords - pos)
           atEnd == kind = "bare" /\ pos + whole = NumRecords /\ whole > 0
           failed == IF whole < Batch /\ ~atEnd THEN 1 ELSE 0
       IN  [i \in 1..(whole + failed) |-> IF i <= whole THEN pos + i ELSE 0]

(* Whether an extraction of the batch runs into the end of the file.        *)
NoticesEnd ==
  /\ kind # "missing"
  /\ \/ pos + Batch > NumRecords
     \/ kind = "bare" /\ pos + Batch = NumRecords

PosAfter ==
  IF kind = "missing" THEN pos ELSE pos + Smaller(Batch, NumRecords - pos)

LoadBatch ==
  /\ \/ loader = "testing" /\ ~stop /\ queue = <<>>
     \/ loader = "woken" /\ ~stop
  /\ queue' = queue \o LoadedRecords
  /\ pos' = PosAfter
  /\ eof' = NoticesEnd
  /\ loader' = "notifying"
  /\ UNCHANGED <<kind, stop, eoq, reader, owner, got, history>>

Sleep ==
  /\ loader = "testing"
  /\ ~stop /\ queue # <<>>
  /\ loader' = "waiting"
  /\ UNCHANGED <<fileVars, queue, stop, eoq, reader, owner, got, history>>

SeeStop ==
  /\ loader = "testing"
  /\ stop
  /\ loader' = "woken"
  /\ UNCHANGED <<fileVars, queue, stop, eoq, reader, owner, got, history>>

(* if (stop_) break;                                                        *)
Break ==
  /\ loader = "woken"
  /\ stop
  /\ loader' = "ending"
  /\ early' = (owner \in {"constructing", "alive"})
  /\ UNCHANGED <<fileVars, queue, stop, eoq, reader, owner, got, overwritten>>

(* Mutant of WokenReaders: notify_one in place of notify_all.               *)
OneWokenReader ==
  LET asleep == {r \in Readers : reader[r] = "waiting"}
  IN  [r \in Readers |-> IF asleep # {} /\ r = CHOOSE a \in asleep : TRUE
                         THEN "testing" ELSE reader[r]]

WokenReaders ==
  [r \in Readers |-> IF reader[r] = "waiting" THEN "testing" ELSE reader[r]]

(* cv_io_.notify_all() after a batch, and the test of eof that follows.     *)
NotifyReaders ==
  /\ loader = "notifying"
  /\ reader' = WokenReaders
  /\ loader' = IF eof THEN "ending" ELSE "testing"
  /\ UNCHANGED <<fileVars, queue, stop, eoq, owner, got, history>>

SetEoq ==
  /\ loader = "ending"
  /\ eoq' = TRUE
  /\ loader' = "leaving"
  /\ UNCHANGED <<fileVars, queue, stop, reader, owner, got, history>>

Leave ==
  /\ loader = "leaving"
  /\ reader' = WokenReaders
  /\ loader' = "exited"
  /\ UNCHANGED <<fileVars, queue, stop, eoq, owner, got, history>>

-----------------------------------------------------------------------------
(* operator>>, which a reader calls until it returns false.                 *)

Call(r) ==
  /\ owner # "constructing" /\ owner # "done"
  /\ reader[r] = "idle"
  /\ Len(got) < MaxGot
  /\ reader' = [reader EXCEPT ![r] = "testing"]
  /\ UNCHANGED <<fileVars, queue, stop, eoq, loader, owner, got, history>>

ReaderSleep(r) ==
  /\ reader[r] = "testing"
  /\ LockFree
  /\ ~eoq /\ queue = <<>>
  /\ reader' = [reader EXCEPT ![r] = "waiting"]
  /\ UNCHANGED <<fileVars, queue, stop, eoq, loader, owner, got, history>>

(* Mutant of AtEnd: the end is reported while records are still queued.     *)
AtEndAtOnce == eoq

AtEnd == eoq /\ queue = <<>>

ReturnFalse(r) ==
  /\ reader[r] = "testing"
  /\ LockFree
  /\ AtEnd
  /\ reader' = [reader EXCEPT ![r] = "ended"]
  /\ UNCHANGED <<fileVars, queue, stop, eoq, loader, owner, got, history>>

(* The loader is notified by the reader that empties the queue.             *)
WokenLoader ==
  IF loader = "waiting" /\ Len(queue) = 1 THEN "testing" ELSE loader

TakeRecord(r) ==
  /\ reader[r] = "testing"
  /\ LockFree
  /\ queue # <<>>
  /\ got' = Append(got, Head(queue))
  /\ queue' = Tail(queue)
  /\ loader' = WokenLoader
  /\ reader' = [reader EXCEPT ![r] = "idle"]
  /\ UNCHANGED <<fileVars, stop, eoq, owner, history>>

SpuriousWakeup ==
  \/ /\ loader = "waiting" /\ loader' = "testing"
     /\ UNCHANGED <<fileVars, queue, stop, eoq, reader, owner, got, history>>
  \/ \E r \in Readers :
       /\ reader[r] = "waiting"
       /\ reader' = [reader EXCEPT ![r] = "testing"]
       /\ UNCHANGED <<fileVars, queue, stop, eoq, loader, owner, got, history>>

-----------------------------------------------------------------------------
(* The owner: the end of the constructor gives the flags their values,      *)
(* whatever the thread has stored in them meanwhile.                        *)
Constructed ==
  /\ owner = "constructing"
  /\ owner' = "alive"
  /\ stop' = FALSE /\ eoq' = FALSE
  /\ overwritten' = (loader \in {"leaving", "exited"})
  /\ UNCHANGED <<fileVars, queue, loader, reader, got, early>>

SetStop ==
  /\ owner = "alive"
  /\ LockFree
  /\ stop' = TRUE /\ eoq' = TRUE
  /\ owner' = "notifying"
  /\ UNCHANGED <<fileVars, queue, loader, reader, got, history>>

(* Mutant of LoaderAfterStop: cv_load_ is not notified.                     *)
LoaderLeftAsleep == loader

LoaderAfterStop == IF loader = "waiting" THEN "testing" ELSE loader

NotifyAll ==
  /\ owner = "notifying"
  /\ reader' = WokenReaders
  /\ loader' = LoaderAfterStop
  /\ owner' = "joining"
  /\ UNCHANGED <<fileVars, queue, stop, eoq, got, history>>

(* The join returns, and the members are destroyed with whatever they hold. *)
(* The destructor waits for the loader only: a reader that is still inside  *)
(* a call is left with a mutex that is gone, and does nothing more here.    *)
Destroyed ==
  /\ owner = "joining"
  /\ loader = "exited"
  /\ owner' = "done"
  /\ UNCHANGED <<fileVars, queue, stop, eoq, loader, reader, got, history>>

-----------------------------------------------------------------------------
LoaderStep ==
  LoadBatch \/ Sleep \/ SeeStop \/ Break \/ NotifyReaders \/ SetEoq \/ Leave

ReaderStep(r) == ReaderSleep(r) \/ ReturnFalse(r) \/ TakeRecord(r)

Next ==
  \/ LoadBatch \/ Sleep \/ SeeStop \/ Break \/ NotifyReaders \/ SetEoq \/ Leave
  \/ \E r \in Readers :
       Call(r) \/ ReaderSleep(r) \/ ReturnFalse(r) \/ TakeRecord(r)
  \/ SpuriousWakeup
  \/ Constructed \/ SetStop \/ NotifyAll \/ Destroyed

(* Threads are scheduled; nobody has to call operator>> or the destructor.  *)
(* A reader competes with the others for the mutex and with the loader, who *)
(* both come back to wait: strong fairness stands for a mutex that a        *)
(* waiting thread gets in the end.                                          *)
Fairness ==
  /\ SF_vars(LoaderStep)
  /\ \A r \in Readers : SF_vars(ReaderStep(r))
  /\ WF_vars(Constructed) /\ WF_vars(NotifyAll) /\ WF_vars(Destroyed)

Spec == Init /\ [][Next]_vars /\ Fairness
-----------------------------------------------------------------------------
(* The types; the extracted records never exceed the file.                  *)
TypeOK ==
  /\ kind \in FileKinds
  /\ pos \in 0..NumRecords
  /\ eof \in BOOLEAN /\ stop \in BOOLEAN /\ eoq \in BOOLEAN
  /\ queue \in Seq(0..NumRecords) /\ got \in Seq(0..NumRecords)
  /\ loader \in {"testing", "woken", "waiting", "notifying", "ending", "leaving",
                 "exited"}
  /\ reader \in [Readers -> {"idle", "testing", "waiting", "ended"}]
  /\ owner \in {"constructing", "alive", "notifying", "joining", "done"}
  /\ early \in BOOLEAN /\ overwritten \in BOOLEAN

(* The readers together get the records of the file, each once and in       *)
(* order; after them at most one record that the file does not hold.        *)
ReadsTheFile ==
  kind # "missing" =>
    LET all == got \o queue
    IN  /\ \A i \in 1..Len(all) : all[i] = IF i <= NumRecords THEN i ELSE 0
        /\ Len(all) <= NumRecords + 1

(* A reader is told that the file has ended only after the last record was  *)
(* taken, unless the stream is being destroyed or never began to load.      *)
EndComesLast ==
  (owner = "alive" /\ \E r \in Readers : reader[r] = "ended") =>
    (Len(got) >= NumRecords \/ early)

(* A call of operator>> returns, unless the loader had finished the whole   *)
(* file and set eoq_ before the constructor cleared it again, or the object *)
(* is destroyed under the call.                                             *)
CallReturns ==
  \A r \in Readers :
    (reader[r] = "testing")
      ~> (reader[r] \in {"idle", "ended"} \/ overwritten \/ owner = "done")

(* Nobody is left asleep: a sleeping reader that has something to take, or  *)
(* to be told the end, is about to be notified; a sleeping loader has a     *)
(* queue that a reader will empty, or is about to be stopped; and reader    *)
(* and loader never sleep together.  The exception is the one of            *)
(* CallReturns.                                                             *)
NobodyLeftAsleep ==
  \/ owner = "notifying"
  \/ /\ loader = "waiting" => ~stop /\ queue # <<>>
     /\ \A r \in Readers : reader[r] = "waiting" =>
          /\ queue # <<>> => loader = "notifying"
          /\ eoq => loader = "leaving"
          /\ loader \in {"waiting", "exited"} => overwritten

(* The destructor returns, whether or not readers are asleep in it, and     *)
(* none is asleep on a condition variable that it destroys.                 *)
DestructorEnds ==
  (owner = "notifying")
    ~> (owner = "done" /\ \A r \in Readers : reader[r] # "waiting")
=============================================================================
