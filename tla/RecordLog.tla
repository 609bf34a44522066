------------------------------ MODULE RecordLog ------------------------------
(***************************************************************************)
(* The record log (measure_record.cc): the measure callback appends the    *)
(* records of a batch to a file, one JSON text per line; readers parse the *)
(* file line by line.  The process that writes may die at any point, and a *)
(* later one appends to what is there.  A text is cut while not all of its *)
(* characters are in the file; what follows on the same line is never read.*)
(***************************************************************************)
EXTENDS Integers, Sequences, FiniteSets, SequencesExt

CONSTANTS
  Records,      \* records a callback may be given, with a field kind
  MaxBatch,     \* measurements of a batch
  MaxSaved,     \* bound on the records handed to the callback
  MaxCrashes    \* bound on the deaths of the writer

ASSUME BoundsAssumption == MaxBatch \in Nat /\ MaxSaved \in Nat /\ MaxCrashes \in Nat

VARIABLES
  log,          \* the file: lines, each a sequence of texts [id, whole]
  newline,      \* the file is empty or ends with a line break
  pending,      \* ids the running callback has still to finish
  saved,        \* history: the records handed to callbacks; ids are positions
  lost,         \* history: ids whose callback died
  crashes       \* history: deaths in the middle of a callback

file == <<log, newline>>
logVars == <<file, pending, saved, lost, crashes>>

InitLog == /\ log = <<>> /\ newline = TRUE
           /\ pending = <<>> /\ saved = <<>> /\ lost = {} /\ crashes = 0

-----------------------------------------------------------------------------
(* Writing. *)

LastText == Last(Last(log))
Begun == pending # <<>> /\ log # <<>> /\ LastText.id = Head(pending)

(* A batch of static measurements, or the one record of a dynamic task. *)
Batches == {b \in SeqOf(Records, MaxBatch) :
              b # <<>> /\ (Len(b) = 1 \/ \A i \in DOMAIN b : b[i].kind = "static")}

FileTruncated == log' = <<>> /\ newline' = TRUE

(* The file is opened for appending (std::ofstream::app). *)
FileOpened == UNCHANGED file

(* RecordToFileNode::Callback. *)
Callback(batch) ==
  /\ pending = <<>> /\ Len(saved) + Len(batch) <= MaxSaved
  /\ FileOpened
  /\ saved' = saved \o batch
  /\ pending' = [i \in DOMAIN batch |-> Len(saved) + i]
  /\ UNCHANGED <<lost, crashes>>

(* The first characters of the next record reach the file. *)
BeginText ==
  /\ pending # <<>> /\ ~Begun
  /\ LET text == [id |-> Head(pending), whole |-> FALSE]
     IN  log' = IF newline THEN Append(log, <<text>>)
                ELSE [log EXCEPT ![Len(log)] = Append(@, text)]
  /\ newline' = FALSE
  /\ UNCHANGED <<pending, saved, lost, crashes>>

EndText ==
  /\ Begun /\ ~LastText.whole
  /\ log' = [log EXCEPT ![Len(log)][Len(Last(log))].whole = TRUE]
  /\ UNCHANGED <<newline, pending, saved, lost, crashes>>

EndLine ==
  /\ Begun /\ LastText.whole
  /\ newline' = TRUE /\ pending' = Tail(pending)
  /\ UNCHANGED <<log, saved, lost, crashes>>

(* The process dies in the callback; what it has not written is gone. *)
Crash ==
  /\ pending # <<>> /\ crashes < MaxCrashes
  /\ pending' = <<>> /\ lost' = lost \cup Range(pending) /\ crashes' = crashes + 1
  /\ UNCHANGED <<file, saved>>

WriterStep == (\E b \in Batches : Callback(b)) \/ BeginText \/ EndText \/ EndLine \/ Crash

LogSpec == InitLog /\ [][WriterStep]_logVars

-----------------------------------------------------------------------------
(* Reading. *)

(* A line is parsed up to the end of its first object; a cut one throws,  *)
(* which ends the reading of the whole file.  What is thrown depends on   *)
(* dmlc's JSONReader, which is not in the repository; if it accepted a cut*)
(* text, only that record would be missing or wrong.                      *)
Readable == \A l \in DOMAIN log : Head(log[l]).whole

ReadIds == [l \in DOMAIN log |-> Head(log[l]).id]

(* read_lines returns static and dynamic records in lists of their own. *)
OfKind(kind) ==
  LET kept[l \in 0 .. Len(log)] ==
        IF l = 0 THEN <<>>
        ELSE LET r == saved[ReadIds[l]]
             IN  IF r.kind = kind THEN Append(kept[l - 1], r) ELSE kept[l - 1]
  IN  kept[Len(log)]

-----------------------------------------------------------------------------
(* Records whose callback returned and that no reader sees. *)
Missed == DOMAIN saved \ (lost \cup Range(pending) \cup Range(ReadIds))

(* A log that can be read shows records in the order they were saved, and  *)
(* of those whose callback returned it lacks at most one per crash, the one *)
(* a successor wrote behind a text without line break.  Only a crash or a   *)
(* callback that is still writing makes a log unreadable.                   *)
CrashCostsOneRecord ==
  IF Readable
  THEN /\ \A k, l \in DOMAIN log : k < l => ReadIds[k] < ReadIds[l]
       /\ Cardinality(Missed) <= crashes
  ELSE crashes > 0 \/ pending # <<>>
=============================================================================
