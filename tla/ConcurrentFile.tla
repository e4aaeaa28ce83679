--------------------------- MODULE ConcurrentFile ---------------------------
(***************************************************************************)
(* multi-thread/multi-thread.hpp: a ConcurrentFile shared by the threads   *)
(* of multi_thread (or indexed_multi_thread), which starts the same job    *)
(* several times and waits for all.  A job writes tuples with << or reads  *)
(* them with >> until one fails; a tuple goes to or comes from the stream  *)
(* field by field, under the mutex of the file.                            *)
(***************************************************************************)
EXTENDS Integers, Sequences

CONSTANTS
  JobNum,      (* how many jobs, thread_num                                 *)
  PerJob,      (* how many tuples a job writes, or stand in the file per job *)
  Fields       (* how many fields a tuple has                               *)

ASSUME ConcurrentFileAssumption ==
  /\ JobNum \in Nat \ {0} /\ PerJob \in Nat /\ Fields \in Nat \ {0}

Jobs == 0..(JobNum - 1)

VARIABLES
  mode,        (* "out" or "in"                                             *)
  file,        (* the fields in the file: job, tuple and field              *)
  position,    (* how many of them were read                                *)
  mutex,       (* who holds *mutex_, -1 for nobody                          *)
  launched,    (* how many jobs multi_thread has started                    *)
  waited,      (* how many it has joined                                    *)
  tuple,       (* the fields a job has put or got of its tuple              *)
  tuples,      (* the tuples a job is through with                          *)
  over         (* the jobs that have ended                                  *)

fileVars == <<mode, file, position, mutex, launched, waited, tuple, tuples, over>>

(* The file a run of readers finds: tuples one after the other.             *)
FullFile ==
  [i \in 1..(PerJob * JobNum * Fields) |->
     <<0, ((i - 1) \div Fields) + 1, ((i - 1) % Fields) + 1>>]

FileInit ==
  /\ mode \in {"out", "in"}
  /\ file = IF mode = "in" THEN FullFile ELSE <<>>
  /\ position = 0 /\ mutex = -1 /\ launched = 0 /\ waited = 0
  /\ tuple = [j \in Jobs |-> <<>>]
  /\ tuples = [j \in Jobs |-> <<>>]
  /\ over = {}

StartJob ==
  /\ launched \in Jobs
  /\ launched' = launched + 1
  /\ UNCHANGED <<mode, file, position, mutex, waited, tuple, tuples, over>>

(* Mutant of Unlocked: the mutex of a copy of the file is another one.      *)
UnlockedAlways == TRUE

Unlocked == mutex = -1

(* The lock_guard of << or >>.                                              *)
LockFile(j) ==
  /\ j < launched /\ j \notin over /\ mutex # j
  /\ mode = "out" => Len(tuples[j]) < PerJob
  /\ Unlocked
  /\ mutex' = j
  /\ tuple' = [tuple EXCEPT ![j] = <<>>]
  /\ UNCHANGED <<mode, file, position, launched, waited, tuples, over>>

Inside(j) == mutex = j /\ Len(tuple[j]) < Fields

PutField(j) ==
  /\ mode = "out" /\ Inside(j)
  /\ LET field == <<j, Len(tuples[j]) + 1, Len(tuple[j]) + 1>>
     IN  file' = Append(file, field) /\ tuple' = [tuple EXCEPT ![j] = Append(@, field)]
  /\ UNCHANGED <<mode, position, mutex, launched, waited, tuples, over>>

GetField(j) ==
  /\ mode = "in" /\ Inside(j) /\ position < Len(file)
  /\ tuple' = [tuple EXCEPT ![j] = Append(@, file[position + 1])]
  /\ position' = position + 1
  /\ UNCHANGED <<mode, file, mutex, launched, waited, tuples, over>>

(* The operator returns, for >> with true.                                  *)
Through(j) ==
  /\ mutex = j /\ Len(tuple[j]) = Fields
  /\ tuples' = [tuples EXCEPT ![j] = Append(@, tuple[j])]
  /\ mutex' = -1
  /\ UNCHANGED <<mode, file, position, launched, waited, tuple, over>>

(* A job ends when it has written its tuples, or when >> returns false.     *)
EndJob(j) ==
  /\ j < launched /\ j \notin over
  /\ IF mode = "out"
     THEN mutex # j /\ Len(tuples[j]) = PerJob /\ UNCHANGED mutex
     ELSE Inside(j) /\ position = Len(file) /\ mutex' = -1
  /\ over' = over \cup {j}
  /\ UNCHANGED <<mode, file, position, launched, waited, tuple, tuples>>

JoinJob ==
  /\ launched \notin Jobs
  /\ waited \in over
  /\ waited' = waited + 1
  /\ UNCHANGED <<mode, file, position, mutex, launched, tuple, tuples, over>>

FileNext ==
  \/ StartJob \/ JoinJob
  \/ \E j \in Jobs : LockFile(j) \/ PutField(j) \/ GetField(j) \/ Through(j) \/ EndJob(j)

-----------------------------------------------------------------------------
(* The tuples the jobs are through with, by job and number; the n-th tuple  *)
(* of the file; a tuple all of whose fields are of one tuple, in order.      *)
Held == UNION {{j} \X (1..Len(tuples[j])) : j \in Jobs}

HeldTuple(h) == tuples[h[1]][h[2]]

InFile(n) == [f \in 1..Fields |-> file[(n - 1) * Fields + f]]

Whole(t) == \A f \in 1..Fields : t[f] = <<t[1][1], t[1][2], f>>

(* No tuple is torn, lost or doubled, in either direction: what a job is    *)
(* through with is one tuple from its first field to its last, and no other *)
(* job (nor the same again) has it; the file is such tuples one after the   *)
(* other; and when multi_thread has returned the tuples of the jobs are     *)
(* those of the file.                                                       *)
TuplesWhole ==
  /\ \A h \in Held : Whole(HeldTuple(h))
  /\ \A h, g \in Held : HeldTuple(h) = HeldTuple(g) => h = g
  /\ mutex = -1 => \A n \in 1..(Len(file) \div Fields) : Whole(InFile(n))
  /\ waited \notin Jobs =>
       /\ Len(file) % Fields = 0
       /\ {HeldTuple(h) : h \in Held} = {InFile(n) : n \in 1..(Len(file) \div Fields)}
=============================================================================
