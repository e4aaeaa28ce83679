----------------------------- MODULE Ipip_proofs -----------------------------
(***************************************************************************)
(* The safety of Ipip for any set of readers, any length of the file, any  *)
(* size of the batches and whatever the flags hold before they are         *)
(* initialised: the types, that the readers get the file in order, and     *)
(* that the end is reported last.  Added to make these inductive: how far  *)
(* the loader has come (Loaded), and where it is once the end was noticed  *)
(* or the flags were believed (Ending).  That nobody is left asleep needs  *)
(* besides that a loader which has ended had announced it (Announced).     *)
(***************************************************************************)
EXTENDS Ipip, TLAPS

(* The record that stands at place i of what is read.                       *)
Record(i) == IF i <= NumRecords THEN i ELSE 0

Delivered ==
  /\ \A i \in 1..Len(got) : got[i] = Record(i)
  /\ \A i \in 1..Len(queue) : queue[i] = Record(Len(got) + i)

Loaded ==
  LET all == Len(got) + Len(queue)
  IN  IF eof THEN pos = NumRecords /\ all \in NumRecords..(NumRecords + 1)
             ELSE all = pos

Reading == kind # "missing" => Delivered /\ Loaded

Ending ==
  /\ eof => loader \in {"notifying", "ending", "leaving", "exited"} /\ kind # "missing"
  /\ early => loader \in {"ending", "leaving", "exited"}
  /\ loader \in {"ending", "leaving", "exited"} =>
       eof \/ early \/ owner \in {"notifying", "joining", "done"}
  /\ owner = "alive" /\ eoq => eof \/ early
  /\ owner = "constructing" => \A r \in Readers : reader[r] = "idle"

IInv == TypeOK /\ Reading /\ Ending /\ EndComesLast

-----------------------------------------------------------------------------
LEMMA InitInv == Init => IInv
<1> SUFFICES ASSUME Init PROVE IInv
  OBVIOUS
<1>1. stop \in BOOLEAN /\ eoq \in BOOLEAN /\ early \in BOOLEAN /\ overwritten \in BOOLEAN
      /\ eof \in BOOLEAN
  BY IpipAssumption, Zenon DEF Init
<1>2. TypeOK
  BY <1>1, IpipAssumption DEF Init, TypeOK
<1>3. Reading
  BY DEF Init, Reading, Delivered, Loaded
<1>4. Ending /\ EndComesLast
  BY DEF Init, Ending, EndComesLast
<1> QED
  BY <1>2, <1>3, <1>4 DEF IInv

-----------------------------------------------------------------------------
(* Functions on 1..k are sequences, whose elements are in their set.        *)
LEMMA FunctionIsSeq ==
  ASSUME NEW S, NEW k \in Nat, NEW f \in [1..k -> S]
  PROVE  f \in Seq(S) /\ Len(f) = k
OBVIOUS

LEMMA ElementsOf ==
  ASSUME NEW S, NEW q \in Seq(S)
  PROVE  \A i \in 1..Len(q) : q[i] \in S
OBVIOUS

(* A batch goes on where the last one ended; it holds a record too many     *)
(* only when the end of the file is noticed.                                *)
LEMMA BatchFollows ==
  ASSUME NEW p \in 0..NumRecords, pos = p, kind \in FileKinds
  PROVE  /\ LoadedRecords \in Seq(0..NumRecords)
         /\ PosAfter \in 0..NumRecords
         /\ kind # "missing" =>
              /\ \A i \in 1..Len(LoadedRecords) : LoadedRecords[i] = Record(p + i)
              /\ IF NoticesEnd
                 THEN PosAfter = NumRecords
                      /\ p + Len(LoadedRecords) \in NumRecords..(NumRecords + 1)
                 ELSE p + Len(LoadedRecords) = PosAfter
<1>1. NumRecords \in Nat /\ Batch \in Nat \ {0}
  BY IpipAssumption
<1>2. CASE kind = "missing"
  BY <1>1, <1>2 DEF LoadedRecords, PosAfter
<1>3. CASE kind # "missing"
  <2> DEFINE whole == Smaller(Batch, NumRecords - pos)
             atEnd == kind = "bare" /\ pos + whole = NumRecords /\ whole > 0
             failed == IF whole < Batch /\ ~atEnd THEN 1 ELSE 0
  <2>1. /\ whole \in Nat /\ whole <= Batch /\ p + whole <= NumRecords
        /\ whole < Batch => p + whole = NumRecords
        /\ PosAfter = p + whole
    BY <1>1, <1>3 DEF Smaller, PosAfter
  <2>2. failed \in {0, 1} /\ (failed = 1 => whole < Batch)
    OBVIOUS
  <2>3. LoadedRecords = [i \in 1..(whole + failed) |-> IF i <= whole THEN p + i ELSE 0]
    BY <1>3 DEF LoadedRecords
  <2>4. NoticesEnd <=> (p + Batch > NumRecords
                        \/ (kind = "bare" /\ p + Batch = NumRecords))
    BY <1>3 DEF NoticesEnd
  <2>5. whole = IF Batch <= NumRecords - p THEN Batch ELSE NumRecords - p
    BY DEF Smaller
  <2> HIDE DEF whole, failed
  <2>6. whole + failed \in Nat
    BY <2>1, <2>2
  <2>7. LoadedRecords \in Seq(0..NumRecords) /\ Len(LoadedRecords) = whole + failed
    <3>1. \A i \in 1..(whole + failed) : (IF i <= whole THEN p + i ELSE 0) \in 0..NumRecords
      BY <1>1, <2>1, <2>2
    <3> DEFINE k == whole + failed
    <3>2. LoadedRecords \in [1..k -> 0..NumRecords]
      BY <2>3, <3>1
    <3> HIDE DEF k
    <3>3. k \in Nat
      BY <2>6 DEF k
    <3>4. LoadedRecords \in Seq(0..NumRecords) /\ Len(LoadedRecords) = k
      BY <3>2, <3>3, FunctionIsSeq
    <3> QED BY <3>4 DEF k
  <2>8. ASSUME NEW i \in 1..Len(LoadedRecords) PROVE LoadedRecords[i] = Record(p + i)
    <3>1. i \in 1..(whole + failed)
      BY <2>7
    <3>4. LoadedRecords[i] = IF i <= whole THEN p + i ELSE 0
      BY <2>3, <3>1
    <3>2. CASE i <= whole
      BY <1>1, <2>1, <3>1, <3>2, <3>4 DEF Record
    <3>3. CASE ~(i <= whole)
      <4>1. whole < Batch /\ i \in Nat /\ p + i > NumRecords
        BY <1>1, <2>1, <2>2, <2>7, <3>3
      <4>2. p + i \in Nat
        BY <4>1
      <4> QED BY <1>1, <3>3, <3>4, <4>1, <4>2 DEF Record
    <3> QED BY <3>2, <3>3
  <2>9. CASE NoticesEnd
    <3>1. p + whole = NumRecords
      BY <1>1, <2>4, <2>5, <2>9
    <3> QED BY <1>1, <1>3, <2>1, <2>2, <2>7, <2>8, <2>9, <3>1
  <2>10. CASE ~NoticesEnd
    <3>1. whole = Batch /\ failed = 0
      BY <1>1, <2>2, <2>4, <2>5, <2>10
    <3> QED BY <1>1, <1>3, <2>1, <2>7, <2>8, <2>10, <3>1
  <2> QED BY <2>9, <2>10
<1> QED
  BY <1>2, <1>3

LEMMA LoadInv == IInv /\ LoadBatch => IInv'
<1> SUFFICES ASSUME IInv, LoadBatch PROVE IInv'
  OBVIOUS
<1> DEFINE batch == LoadedRecords
<1>1. /\ queue' = queue \o batch /\ pos' = PosAfter /\ eof' = NoticesEnd
      /\ loader' = "notifying" /\ loader \in {"testing", "woken"}
      /\ UNCHANGED <<kind, stop, eoq, reader, owner, got, early, overwritten>>
  BY DEF LoadBatch, history
<1>2. ~eof /\ ~early
  BY <1>1 DEF IInv, Ending
<1>3. /\ pos \in 0..NumRecords /\ NumRecords \in Nat /\ kind \in FileKinds
      /\ queue \in Seq(0..NumRecords) /\ got \in Seq(0..NumRecords)
      /\ Len(got) \in Nat /\ Len(queue) \in Nat
  BY IpipAssumption DEF IInv, TypeOK
<1>4. batch \in Seq(0..NumRecords) /\ PosAfter \in 0..NumRecords /\ Len(batch) \in Nat
  <2>1. batch \in Seq(0..NumRecords) /\ PosAfter \in 0..NumRecords
    BY <1>3, BatchFollows
  <2> HIDE DEF batch
  <2> QED BY <2>1
<1>5. NoticesEnd \in BOOLEAN
  BY Zenon DEF NoticesEnd
<1>6. TypeOK'
  <2> HIDE DEF batch
  <2>1. queue' \in Seq(0..NumRecords)
    BY <1>1, <1>3, <1>4
  <2>2. eof' \in BOOLEAN
    BY <1>1, <1>5, Zenon
  <2> QED BY <1>1, <1>4, <2>1, <2>2 DEF IInv, TypeOK
<1>7. Reading'
  <2> SUFFICES ASSUME kind # "missing" PROVE Delivered' /\ Loaded'
    BY <1>1 DEF Reading
  <2>1. Delivered /\ Len(got) + Len(queue) = pos
    BY <1>2 DEF IInv, Reading, Loaded
  <2>2. /\ \A i \in 1..Len(batch) : batch[i] = Record(pos + i)
        /\ IF NoticesEnd
           THEN PosAfter = NumRecords /\ pos + Len(batch) \in NumRecords..(NumRecords + 1)
           ELSE pos + Len(batch) = PosAfter
    BY <1>3, BatchFollows
  <2> HIDE DEF batch
  <2>3. Len(queue') = Len(queue) + Len(batch)
    BY <1>1, <1>3, <1>4
  <2>4. ASSUME NEW i \in 1..Len(queue') PROVE queue'[i] = Record(Len(got) + i)
    <3>1. CASE i <= Len(queue)
      <4>1. queue'[i] = queue[i]
        BY <1>1, <1>3, <1>4, <2>3, <3>1
      <4> QED BY <1>3, <2>1, <3>1, <4>1 DEF Delivered
    <3>2. CASE i > Len(queue)
      <4>1. queue'[i] = batch[i - Len(queue)] /\ i - Len(queue) \in 1..Len(batch)
        BY <1>1, <1>3, <1>4, <2>3, <3>2
      <4>2. pos + (i - Len(queue)) = Len(got) + i
        BY <1>3, <2>1
      <4> QED BY <2>2, <4>1, <4>2
    <3> QED BY <1>3, <3>1, <3>2
  <2>5. Delivered'
    BY <1>1, <2>1, <2>4 DEF Delivered
  <2>6. Len(got') + Len(queue') = pos + Len(batch)
    <3>1. Len(got') = Len(got)
      BY <1>1
    <3>2. pos \in Nat
      BY <1>3
    <3>3. Len(got) \in Nat /\ Len(queue) \in Nat /\ Len(batch) \in Nat
      BY <1>3, <1>4
    <3>4. Len(got) + Len(queue) = pos
      BY <2>1
    <3> QED BY <2>3, <3>1, <3>2, <3>3, <3>4
  <2> QED BY <1>1, <2>2, <2>5, <2>6 DEF Loaded
<1>8. Ending'
  <2>1. eof' => kind # "missing"
    BY <1>1 DEF NoticesEnd
  <2>2. owner = "alive" => ~eoq
    BY <1>2 DEF IInv, Ending
  <2> QED BY <1>1, <1>2, <2>1, <2>2 DEF IInv, Ending
<1>9. EndComesLast'
  BY <1>1 DEF IInv, EndComesLast
<1> QED
  BY <1>6, <1>7, <1>8, <1>9 DEF IInv

-----------------------------------------------------------------------------
(* A reader takes the next record.                                          *)
LEMMA TakeInv == ASSUME NEW r \in Readers PROVE IInv /\ TakeRecord(r) => IInv'
<1> SUFFICES ASSUME IInv, TakeRecord(r) PROVE IInv'
  OBVIOUS
<1>1. /\ queue # <<>> /\ got' = Append(got, Head(queue)) /\ queue' = Tail(queue)
      /\ reader' = [reader EXCEPT ![r] = "idle"] /\ reader[r] = "testing"
      /\ UNCHANGED <<kind, pos, eof, stop, eoq, owner, early, overwritten>>
      /\ loader' = IF loader = "waiting" /\ Len(queue) = 1 THEN "testing" ELSE loader
  BY DEF TakeRecord, fileVars, history, WokenLoader
<1>2. /\ queue \in Seq(0..NumRecords) /\ got \in Seq(0..NumRecords)
      /\ Len(got) \in Nat /\ Len(queue) \in Nat \ {0}
  BY <1>1 DEF IInv, TypeOK
<1>3. /\ Head(queue) = queue[1] /\ Len(queue') = Len(queue) - 1
      /\ queue' \in Seq(0..NumRecords)
      /\ \A i \in 1..Len(queue') : queue'[i] = queue[i + 1]
  BY <1>1, <1>2
<1>4. Head(queue) \in 0..NumRecords
  <2>1. 1 \in 1..Len(queue)
    BY <1>2
  <2>2. \A i \in 1..Len(queue) : queue[i] \in 0..NumRecords
    BY <1>2, ElementsOf
  <2> QED BY <1>3, <2>1, <2>2
<1>5. /\ got' \in Seq(0..NumRecords) /\ Len(got') = Len(got) + 1
      /\ got'[Len(got) + 1] = Head(queue)
      /\ \A i \in 1..Len(got) : got'[i] = got[i]
  BY <1>1, <1>2, <1>4
<1>6. TypeOK'
  BY <1>1, <1>3, <1>5 DEF IInv, TypeOK
<1>7. Reading'
  <2> SUFFICES ASSUME kind # "missing" PROVE Delivered' /\ Loaded'
    BY <1>1 DEF Reading
  <2>1. Delivered /\ Loaded
    BY DEF IInv, Reading
  <2>2. Head(queue) = Record(Len(got) + 1)
    BY <1>2, <1>3, <2>1 DEF Delivered
  <2>3. ASSUME NEW i \in 1..Len(got') PROVE got'[i] = Record(i)
    <3>1. i = Len(got) + 1 \/ i \in 1..Len(got)
      BY <1>2, <1>5
    <3> QED BY <1>5, <2>1, <2>2, <3>1 DEF Delivered
  <2>4. ASSUME NEW i \in 1..Len(queue') PROVE queue'[i] = Record(Len(got') + i)
    <3>1. i + 1 \in 1..Len(queue) /\ Len(got) + (i + 1) = Len(got') + i
      BY <1>2, <1>3, <1>5
    <3>2. queue[i + 1] = Record(Len(got) + (i + 1))
      BY <2>1, <3>1 DEF Delivered
    <3> QED BY <1>3, <3>1, <3>2
  <2>5. Len(got') + Len(queue') = Len(got) + Len(queue)
    BY <1>2, <1>3, <1>5
  <2> QED BY <1>1, <2>1, <2>3, <2>4, <2>5 DEF Delivered, Loaded
<1>8. reader' \in [Readers -> {"idle", "testing", "waiting", "ended"}]
      /\ \A s \in Readers : reader'[s] = IF s = r THEN "idle" ELSE reader[s]
  BY <1>1 DEF IInv, TypeOK
<1>9. Ending'
  BY <1>1, <1>8 DEF IInv, Ending
<1>10. EndComesLast'
  <2>1. NumRecords \in Nat
    BY IpipAssumption
  <2> QED BY <1>1, <1>2, <1>5, <1>8, <2>1 DEF IInv, EndComesLast
<1> QED
  BY <1>6, <1>7, <1>9, <1>10 DEF IInv

(* A reader is told of the end.                                             *)
LEMMA ReturnFalseInv == ASSUME NEW r \in Readers PROVE IInv /\ ReturnFalse(r) => IInv'
<1> SUFFICES ASSUME IInv, ReturnFalse(r) PROVE IInv'
  OBVIOUS
<1>1. /\ eoq /\ queue = <<>> /\ reader' = [reader EXCEPT ![r] = "ended"]
      /\ reader[r] = "testing"
      /\ UNCHANGED <<kind, pos, eof, queue, stop, eoq, loader, owner, got, early, overwritten>>
  BY DEF ReturnFalse, AtEnd, fileVars, history
<1>2. TypeOK'
  BY <1>1 DEF IInv, TypeOK
<1>3. Reading'
  BY <1>1 DEF IInv, Reading, Delivered, Loaded
<1>4. owner # "constructing"
  BY <1>1 DEF IInv, Ending
<1>5. Ending'
  BY <1>1, <1>4 DEF IInv, Ending
<1>6. EndComesLast'
  <2> SUFFICES ASSUME owner = "alive", ~early PROVE Len(got) >= NumRecords
    BY <1>1 DEF EndComesLast
  <2>1. eof /\ kind # "missing"
    BY <1>1 DEF IInv, Ending
  <2>2. Len(got) + Len(queue) \in NumRecords..(NumRecords + 1)
    BY <2>1 DEF IInv, Reading, Loaded
  <2>3. got \in Seq(0..NumRecords) /\ Len(got) \in Nat /\ Len(queue) = 0
    BY <1>1 DEF IInv, TypeOK
  <2> QED BY <2>2, <2>3, IpipAssumption
<1> QED
  BY <1>2, <1>3, <1>5, <1>6 DEF IInv

-----------------------------------------------------------------------------
(* The other steps move nothing.                                            *)
LEMMA Moving ==
  ASSUME IInv, UNCHANGED <<kind, pos, eof, queue, got>>
  PROVE  Reading'
BY DEF IInv, Reading, Delivered, Loaded

LEMMA NextInv == IInv /\ [Next]_vars => IInv'
<1> SUFFICES ASSUME IInv, [Next]_vars PROVE IInv'
  OBVIOUS
<1> USE DEF fileVars, history
<1>1. CASE LoadBatch
  BY <1>1, LoadInv
<1>2. CASE Sleep \/ SeeStop
  <2>1. Reading'
    BY <1>2, Moving DEF Sleep, SeeStop
  <2> QED BY <1>2, <2>1 DEF Sleep, SeeStop, IInv, TypeOK, Ending, EndComesLast
<1>3. CASE Break
  <2>1. Reading'
    BY <1>3, Moving DEF Break
  <2>2. early' \in BOOLEAN
    <3>1. early' = (owner \in {"constructing", "alive"})
      BY <1>3 DEF Break
    <3> HIDE DEF IInv
    <3>2. CASE owner \in {"constructing", "alive"}
      BY <3>1, <3>2, Zenon
    <3>3. CASE ~(owner \in {"constructing", "alive"})
      <4>1. (owner \in {"constructing", "alive"}) = FALSE
        BY <3>3
      <4> QED BY <3>1, <4>1
    <3> QED BY <3>2, <3>3
  <2>3. ~early /\ ~eof
    BY <1>3 DEF Break, IInv, Ending
  <2>4. owner \in {"constructing", "alive", "notifying", "joining", "done"}
    BY DEF IInv, TypeOK
  <2>5. TypeOK'
    BY <1>3, <2>2 DEF Break, IInv, TypeOK
  <2>6. Ending'
    BY <1>3, <2>3, <2>4 DEF Break, IInv, Ending
  <2>7. EndComesLast'
    BY <1>3, <2>3 DEF Break, IInv, EndComesLast
  <2> QED BY <2>1, <2>5, <2>6, <2>7 DEF IInv
<1>4. CASE NotifyReaders \/ Leave
  <2>1. Reading'
    BY <1>4, Moving DEF NotifyReaders, Leave
  <2>2. /\ reader' \in [Readers -> {"idle", "testing", "waiting", "ended"}]
        /\ \A r \in Readers : reader'[r] = "ended" => reader[r] = "ended"
        /\ \A r \in Readers : reader[r] = "idle" => reader'[r] = "idle"
    BY <1>4 DEF NotifyReaders, Leave, WokenReaders, IInv, TypeOK
  <2>3. TypeOK'
    BY <1>4, <2>2 DEF NotifyReaders, Leave, IInv, TypeOK
  <2>4. Ending'
    BY <1>4, <2>2 DEF NotifyReaders, Leave, IInv, Ending
  <2>5. EndComesLast'
    BY <1>4, <2>2 DEF NotifyReaders, Leave, IInv, EndComesLast
  <2> QED BY <2>1, <2>3, <2>4, <2>5 DEF IInv
<1>5. CASE SetEoq
  <2>1. Reading'
    BY <1>5, Moving DEF SetEoq
  <2> QED BY <1>5, <2>1 DEF SetEoq, IInv, TypeOK, Ending, EndComesLast
<1>6. ASSUME NEW r \in Readers, Call(r) \/ ReaderSleep(r) PROVE IInv'
  <2>1. Reading'
    BY <1>6, Moving DEF Call, ReaderSleep
  <2>2. /\ reader' \in [Readers -> {"idle", "testing", "waiting", "ended"}]
        /\ \A s \in Readers : reader'[s] = "ended" => reader[s] = "ended"
    BY <1>6 DEF Call, ReaderSleep, IInv, TypeOK
  <2>3. owner # "constructing"
    BY <1>6 DEF Call, ReaderSleep, IInv, Ending
  <2>4. UNCHANGED <<kind, pos, eof, queue, stop, eoq, loader, owner, got, early, overwritten>>
    BY <1>6 DEF Call, ReaderSleep
  <2> QED BY <2>1, <2>2, <2>3, <2>4 DEF IInv, TypeOK, Ending, EndComesLast
<1>7. ASSUME NEW r \in Readers, ReturnFalse(r) \/ TakeRecord(r) PROVE IInv'
  BY <1>7, ReturnFalseInv, TakeInv
<1>8. CASE SpuriousWakeup
  <2>1. UNCHANGED <<kind, pos, eof, queue, stop, eoq, owner, got, early, overwritten>>
    BY <1>8 DEF SpuriousWakeup
  <2>2. Reading'
    BY <2>1, Moving
  <2>3. CASE loader = "waiting" /\ loader' = "testing" /\ reader' = reader
    BY <2>1, <2>2, <2>3 DEF IInv, TypeOK, Ending, EndComesLast
  <2>4. ASSUME NEW r \in Readers, reader[r] = "waiting", loader' = loader,
               reader' = [reader EXCEPT ![r] = "testing"]
        PROVE  IInv'
    <3>1. /\ reader' \in [Readers -> {"idle", "testing", "waiting", "ended"}]
          /\ \A s \in Readers : reader'[s] = "ended" => reader[s] = "ended"
      BY <2>4 DEF IInv, TypeOK
    <3>2. owner # "constructing"
      BY <2>4 DEF IInv, Ending
    <3> QED BY <2>1, <2>2, <2>4, <3>1, <3>2 DEF IInv, TypeOK, Ending, EndComesLast
  <2> QED BY <1>8, <2>3, <2>4 DEF SpuriousWakeup
<1>9. CASE Constructed
  <2>1. Reading'
    BY <1>9, Moving DEF Constructed
  <2>2. overwritten' \in BOOLEAN
    <3>1. overwritten' = (loader \in {"leaving", "exited"})
      BY <1>9 DEF Constructed
    <3>2. CASE loader \in {"leaving", "exited"}
      BY <3>1, <3>2, Zenon
    <3>3. CASE ~(loader \in {"leaving", "exited"})
      <4>1. (loader \in {"leaving", "exited"}) = FALSE
        BY <3>3
      <4> QED BY <3>1, <4>1
    <3> QED BY <3>2, <3>3
  <2>3. TypeOK'
    BY <1>9, <2>2 DEF Constructed, IInv, TypeOK
  <2>4. Ending' /\ EndComesLast'
    BY <1>9 DEF Constructed, IInv, Ending, EndComesLast
  <2> QED BY <2>1, <2>3, <2>4 DEF IInv
<1>10. CASE SetStop
  <2>1. Reading'
    BY <1>10, Moving DEF SetStop
  <2> QED BY <1>10, <2>1 DEF SetStop, IInv, TypeOK, Ending, EndComesLast
<1>11. CASE NotifyAll
  <2>1. Reading'
    BY <1>11, Moving DEF NotifyAll
  <2>2. reader' \in [Readers -> {"idle", "testing", "waiting", "ended"}]
    BY <1>11 DEF NotifyAll, WokenReaders, IInv, TypeOK
  <2> QED BY <1>11, <2>1, <2>2
          DEF NotifyAll, LoaderAfterStop, IInv, TypeOK, Ending, EndComesLast
<1>12. CASE Destroyed
  <2>1. Reading'
    BY <1>12, Moving DEF Destroyed
  <2> QED BY <1>12, <2>1 DEF Destroyed, IInv, TypeOK, Ending, EndComesLast
<1>13. CASE UNCHANGED vars
  <2>1. Reading'
    BY <1>13, Moving DEF vars
  <2> QED BY <1>13, <2>1 DEF vars, IInv, TypeOK, Ending, EndComesLast
<1> QED
  BY <1>1, <1>2, <1>3, <1>4, <1>5, <1>6, <1>7, <1>8, <1>9, <1>10, <1>11, <1>12, <1>13
     DEF Next

LEMMA Invariance == Spec => []IInv
BY InitInv, NextInv, PTL DEF Spec

-----------------------------------------------------------------------------
(* The variables keep their types.                                          *)
THEOREM IpipTypes == Spec => []TypeOK
BY Invariance, PTL DEF IInv

(* The readers together get the file, each record once and in order, with   *)
(* at most one record after the last.                                       *)
THEOREM IpipReads == Spec => []ReadsTheFile
<1>1. IInv => ReadsTheFile
  <2> SUFFICES ASSUME IInv, kind # "missing"
               PROVE  LET all == got \o queue
                      IN  /\ \A i \in 1..Len(all) : all[i] = Record(i)
                          /\ Len(all) <= NumRecords + 1
    BY DEF ReadsTheFile, Record
  <2> DEFINE all == got \o queue
  <2>1. /\ got \in Seq(0..NumRecords) /\ queue \in Seq(0..NumRecords)
        /\ Len(got) \in Nat /\ Len(queue) \in Nat /\ NumRecords \in Nat
        /\ pos \in 0..NumRecords
    BY IpipAssumption DEF IInv, TypeOK
  <2>2. Delivered /\ Loaded
    BY DEF IInv, Reading
  <2>3. /\ Len(all) = Len(got) + Len(queue)
        /\ \A i \in 1..Len(all) :
             all[i] = IF i <= Len(got) THEN got[i] ELSE queue[i - Len(got)]
    BY <2>1
  <2> HIDE DEF all
  <2>4. ASSUME NEW i \in 1..Len(all) PROVE all[i] = Record(i)
    <3>1. CASE i <= Len(got)
      <4>1. i \in 1..Len(got) /\ all[i] = got[i]
        BY <2>1, <2>3, <3>1
      <4> QED BY <2>2, <4>1 DEF Delivered
    <3>2. CASE ~(i <= Len(got))
      <4>1. i - Len(got) \in 1..Len(queue) /\ Len(got) + (i - Len(got)) = i
        BY <2>1, <2>3, <3>2
      <4>2. queue[i - Len(got)] = Record(Len(got) + (i - Len(got)))
        BY <2>2, <4>1 DEF Delivered
      <4> QED BY <2>3, <3>2, <4>1, <4>2
    <3> QED BY <3>1, <3>2
  <2>5. Len(all) <= NumRecords + 1
    BY <2>1, <2>2, <2>3 DEF Loaded
  <2> QED BY <2>4, <2>5 DEF all
<1> QED
  BY <1>1, Invariance, PTL

(* The end is reported only after the last record was taken.                *)
THEOREM IpipEndLast == Spec => []EndComesLast
BY Invariance, PTL DEF IInv

-----------------------------------------------------------------------------
(* Added to make NobodyLeftAsleep inductive: a loader that has ended had    *)
(* announced it, unless the constructor cleared what it stored.             *)
Announced == loader \in {"leaving", "exited"} => eoq \/ overwritten

Awake == Announced /\ NobodyLeftAsleep

LEMMA InitAwake == Init => Awake
BY DEF Init, Awake, Announced, NobodyLeftAsleep

LEMMA AnnouncedStep ==
  ASSUME IInv, Announced, [Next]_vars
  PROVE  Announced'
<1> USE DEF Announced
<1>1. CASE SetEoq \/ Constructed \/ SetStop
  BY <1>1 DEF SetEoq, Constructed, SetStop
<1>2. CASE Leave
  BY <1>2 DEF Leave, history
<1>3. CASE \/ LoadBatch \/ Sleep \/ SeeStop \/ Break \/ NotifyReaders
           \/ SpuriousWakeup \/ NotifyAll \/ Destroyed \/ UNCHANGED vars
  BY <1>3 DEF LoadBatch, Sleep, SeeStop, Break, NotifyReaders, SpuriousWakeup,
              NotifyAll, LoaderAfterStop, Destroyed, vars, history
<1>4. ASSUME NEW r \in Readers,
             Call(r) \/ ReaderSleep(r) \/ ReturnFalse(r) \/ TakeRecord(r)
      PROVE  Announced'
  BY <1>4 DEF Call, ReaderSleep, ReturnFalse, TakeRecord, WokenLoader, history
<1> QED
  BY <1>1, <1>2, <1>3, <1>4 DEF Next

(* The steps of the loader: what it loads it announces, and it falls asleep *)
(* over a full queue, over which no reader sleeps.                          *)
LEMMA LoaderAwake ==
  ASSUME IInv, Awake,
         LoadBatch \/ Sleep \/ SeeStop \/ Break \/ NotifyReaders \/ SetEoq \/ Leave
  PROVE  NobodyLeftAsleep'
<1> USE DEF NobodyLeftAsleep, Awake, history
<1>1. owner' = owner
  BY DEF LoadBatch, Sleep, SeeStop, Break, NotifyReaders, SetEoq, Leave
<1>2. CASE LoadBatch
  BY <1>1, <1>2 DEF LoadBatch
<1>3. CASE Sleep
  BY <1>1, <1>3 DEF Sleep
<1>4. CASE SeeStop \/ Break \/ SetEoq
  BY <1>1, <1>4 DEF SeeStop, Break, SetEoq
<1>5. CASE NotifyReaders \/ Leave
  <2>1. \A r \in Readers : reader'[r] # "waiting"
    BY <1>5 DEF NotifyReaders, Leave, WokenReaders
  <2>2. loader' # "waiting"
    BY <1>5 DEF NotifyReaders, Leave
  <2> QED BY <2>1, <2>2
<1> QED
  BY <1>2, <1>3, <1>4, <1>5

(* The steps of a reader: it falls asleep over an empty queue, over which   *)
(* the loader does not sleep, and it wakes the loader when it empties it.   *)
LEMMA ReaderAwake ==
  ASSUME IInv, Awake, NEW r \in Readers,
         Call(r) \/ ReaderSleep(r) \/ ReturnFalse(r) \/ TakeRecord(r)
  PROVE  NobodyLeftAsleep'
<1> USE DEF NobodyLeftAsleep, Awake, history
<1>1. /\ owner' = owner /\ UNCHANGED <<stop, eoq, overwritten>>
      /\ reader \in [Readers -> {"idle", "testing", "waiting", "ended"}]
  BY DEF Call, ReaderSleep, ReturnFalse, TakeRecord, IInv, TypeOK
<1>2. CASE Call(r) \/ ReturnFalse(r)
  <2>1. /\ \A s \in Readers : reader'[s] = "waiting" => reader[s] = "waiting"
        /\ UNCHANGED <<queue, loader>>
    BY <1>1, <1>2 DEF Call, ReturnFalse
  <2> QED BY <1>1, <2>1
<1>3. CASE ReaderSleep(r)
  <2>1. /\ \A s \in Readers : reader'[s] = "waiting" => s = r \/ reader[s] = "waiting"
        /\ UNCHANGED <<queue, loader>> /\ ~eoq /\ queue = <<>>
    BY <1>1, <1>3 DEF ReaderSleep
  <2>2. owner # "notifying" => loader # "waiting"
    BY <2>1
  <2>3. loader = "exited" => overwritten
    BY <2>1 DEF Announced
  <2> QED BY <1>1, <2>1, <2>2, <2>3
<1>4. CASE TakeRecord(r)
  <2>1. /\ \A s \in Readers : reader'[s] = "waiting" => reader[s] = "waiting"
        /\ queue # <<>> /\ queue' = Tail(queue)
        /\ loader' = WokenLoader
    BY <1>1, <1>4 DEF TakeRecord
  <2>2. Len(queue) # 1 => queue' # <<>>
    <3>1. queue \in Seq(0..NumRecords)
      BY DEF IInv, TypeOK
    <3>2. Len(queue) \in Nat \ {0} /\ Len(Tail(queue)) = Len(queue) - 1
      BY <2>1, <3>1
    <3>3. Len(queue') = Len(queue) - 1
      BY <2>1, <3>2
    <3>4. queue' = <<>> => Len(queue') = 0
      OBVIOUS
    <3> QED BY <3>2, <3>3, <3>4
  <2>3. CASE owner = "notifying"
    BY <1>1, <2>3
  <2>4. CASE loader = "waiting" /\ owner # "notifying"
    <3>1. \A s \in Readers : reader'[s] # "waiting"
      BY <2>1, <2>4
    <3> QED BY <1>1, <2>1, <2>2, <2>4, <3>1 DEF WokenLoader
  <2>5. CASE loader # "waiting" /\ owner # "notifying"
    <3>1. loader' = loader
      BY <2>1, <2>5 DEF WokenLoader
    <3> QED BY <1>1, <2>1, <2>5, <3>1
  <2> QED BY <2>3, <2>4, <2>5
<1> QED
  BY <1>2, <1>3, <1>4

(* The steps of the owner, and what happens by itself.                      *)
LEMMA OtherAwake ==
  ASSUME IInv, Awake,
         \/ SpuriousWakeup \/ Constructed \/ SetStop \/ NotifyAll \/ Destroyed
         \/ UNCHANGED vars
  PROVE  NobodyLeftAsleep'
<1> USE DEF NobodyLeftAsleep, Awake, history
<1>1. reader \in [Readers -> {"idle", "testing", "waiting", "ended"}]
  BY DEF IInv, TypeOK
<1>2. CASE SpuriousWakeup
  <2>1. /\ \A s \in Readers : reader'[s] = "waiting" => reader[s] = "waiting"
        /\ \/ loader' = loader
           \/ loader' = "testing" /\ loader = "waiting"
        /\ UNCHANGED <<queue, stop, eoq, owner, overwritten>>
    BY <1>1, <1>2 DEF SpuriousWakeup
  <2> QED BY <2>1
<1>3. CASE Constructed
  <2>1. /\ \A s \in Readers : reader'[s] # "waiting"
        /\ UNCHANGED <<queue, loader>> /\ ~stop' /\ owner # "notifying"
    BY <1>3 DEF Constructed, IInv, Ending
  <2> QED BY <2>1
<1>4. CASE SetStop
  BY <1>4 DEF SetStop
<1>5. CASE NotifyAll
  <2>1. (\A s \in Readers : reader'[s] # "waiting") /\ loader' # "waiting"
    BY <1>5 DEF NotifyAll, WokenReaders, LoaderAfterStop
  <2> QED BY <2>1
<1>6. CASE Destroyed \/ UNCHANGED vars
  BY <1>6 DEF Destroyed, vars
<1> QED
  BY <1>2, <1>3, <1>4, <1>5, <1>6

LEMMA AwakeStep == IInv /\ Awake /\ [Next]_vars => Awake'
BY AnnouncedStep, LoaderAwake, ReaderAwake, OtherAwake DEF Next, Awake

(* No reader sleeps over a record or over the end of the file, the loader   *)
(* does not sleep over an empty queue or a stop_, and the two never sleep   *)
(* together: what wakes a thread is announced by the thread that did it,    *)
(* which is still to do so as long as the other one sleeps.                 *)
THEOREM IpipNobodyLeftAsleep == Spec => []NobodyLeftAsleep
<1>1. Awake => NobodyLeftAsleep
  BY DEF Awake
<1> QED
  BY <1>1, InitAwake, AwakeStep, Invariance, PTL DEF Spec
=============================================================================
