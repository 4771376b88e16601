--------------------------- MODULE CommandJournal ---------------------------
(***************************************************************************)
(* The append-only journal of mutating daemon commands                     *)
(* (modes/daemon/command-recovery-journal.ts).  The supervisor records a   *)
(* command before it dispatches it and its response when it has one; the   *)
(* client's acknowledgement deletes the entry.  The module models the file *)
(* and the process that writes it: appends that fail or are cut short by   *)
(* a crash, compaction by rename, and the reload at the next start.        *)
(*                                                                         *)
(* A record is abstracted to its kind, its key and its response.  What     *)
(* load() rebuilds from the file is Replayed(file, k, Len(file)).          *)
(***************************************************************************)
EXTENDS Integers, Sequences, FiniteSets

CONSTANTS
  Key,           \* idempotency keys: [clientId, commandId]
  Response,      \* what a command can answer
  None,          \* no entry for the key
  Pending,       \* an entry without a response
  CompactAfter,  \* COMPACT_AFTER_RECORDS
  MaxLines       \* bound of the model: no new command with so many lines in the
                 \* file (crashes can postpone a compaction for ever)

ASSUME EntryAssumption == /\ None \notin Response
                          /\ Pending \notin Response
                          /\ None # Pending
ASSUME KeyAssumption == IsFiniteSet(Key)
ASSUME CompactAssumption == CompactAfter \in Nat \ {0} /\ MaxLines \in Nat

VARIABLES
  file,            \* the complete lines of command-journal.jsonl
  tail,            \* the file ends in bytes that are no complete line
  alive,           \* a supervisor process has loaded the journal
  entries,         \* the Map of the process
  recordCount,     \* its count of the lines in the file
  writeFailure,    \* an append or a compaction has failed: no more writes
  incompleteTail   \* load() met a torn last line: no writes at all

journalVars ==
  << file, tail, alive, entries, recordCount, writeFailure, incompleteTail >>

Entry == {None, Pending} \union Response

Record == [type : {"received", "acknowledged"}, key : Key]
            \union [type : {"result"}, key : Key, response : Response]

Received(k)     == [type |-> "received", key |-> k]
(* Mutant of Result: the response is lost when the line is formatted.      *)
ResultWithoutResponse(k, r) == [type |-> "result", key |-> k]

Result(k, r)    == [type |-> "result", key |-> k, response |-> r]
Acknowledged(k) == [type |-> "acknowledged", key |-> k]

-----------------------------------------------------------------------------
(* The entry load() holds for key k after the first n lines of the file:   *)
(* it is decided by the last of these lines that is about k.               *)

AfterRecord(rec) ==
  IF rec.type = "received" THEN Pending
  ELSE IF rec.type = "result" THEN rec.response ELSE None

LastLine(f, k, n) ==
  CHOOSE i \in 1..n : f[i].key = k /\ \A j \in 1..n : f[j].key = k => j <= i

Replayed(f, k, n) ==
  IF \E i \in 1..n : f[i].key = k THEN AfterRecord(f[LastLine(f, k, n)]) ELSE None

Loaded(f) == [k \in Key |-> Replayed(f, k, Len(f))]

(* load() refuses a receipt of a key it holds, and a result or an          *)
(* acknowledgement of a key it does not hold.                              *)
Acceptable(rec, entry) ==
  IF rec.type = "received" THEN entry = None ELSE entry # None

Accepted(f) == \A i \in 1..Len(f) : Acceptable(f[i], Replayed(f, f[i].key, i - 1))

-----------------------------------------------------------------------------
(* What compact() writes: for every entry its receipt, then its response   *)
(* if there is one.  The entries come in an order that no reader of the    *)
(* file depends on (the insertion order of the Map).                       *)

(* Mutants of SnapshotRecords: no receipt for a command that has its       *)
(* response; nothing for a command that has none.                          *)
SnapshotOfLatest(e) ==
  {IF e[k] = Pending THEN Received(k) ELSE Result(k, e[k]) : k \in {x \in Key : e[x] # None}}

SnapshotOfCompleted(e) ==
  UNION {{Received(k), Result(k, e[k])} : k \in {x \in Key : e[x] \in Response}}

SnapshotRecords(e) ==
  {Received(k) : k \in {x \in Key : e[x] # None}}
    \union {Result(k, e[k]) : k \in {x \in Key : e[x] \in Response}}

Snapshots(e) ==
  {f \in [1..Cardinality(SnapshotRecords(e)) -> SnapshotRecords(e)] :
     /\ \A rec \in SnapshotRecords(e) : \E i \in DOMAIN f : f[i] = rec
     /\ \A i, j \in DOMAIN f : f[i] = f[j] => i = j
     /\ \A i, j \in DOMAIN f :
          (f[i].key = f[j].key /\ f[i].type = "received") => i <= j}

(* What an append leaves in the file when an error or a crash cuts it      *)
(* short: nothing - always so behind a torn line, which append looks for - *)
(* or a torn line, or the whole line.                                      *)
CutShort(rec) ==
  \/ file' = file /\ tail' = tail
  \/ ~tail /\ file' = file /\ tail' = TRUE
  \/ ~tail /\ file' = Append(file, rec) /\ tail' = tail

Writable == alive /\ ~writeFailure /\ ~incompleteTail

AppendFails(rec) ==
  /\ CutShort(rec)
  /\ writeFailure' = TRUE
  /\ UNCHANGED << alive, entries, recordCount, incompleteTail >>

(* append(rec), the change e of the Map, then compact() when it is due.    *)
(* compact() fails before its rename or, at the sync of the directory,     *)
(* after it.                                                               *)
Store(rec, e, due) ==
  /\ Writable /\ ~tail
  /\ entries' = e
  /\ UNCHANGED << tail, alive, incompleteTail >>
  /\ \/ /\ ~due
        /\ file' = Append(file, rec)
        /\ recordCount' = recordCount + 1
        /\ UNCHANGED writeFailure
     \/ /\ due
        /\ file' \in Snapshots(e)
        /\ recordCount' = Len(file')
        /\ UNCHANGED writeFailure
     \/ /\ due
        /\ \/ file' = Append(file, rec)
           \/ file' \in Snapshots(e)
        /\ recordCount' = recordCount + 1
        /\ writeFailure' = TRUE

AllNone(e) == \A k \in Key : e[k] = None

-----------------------------------------------------------------------------
(* The operations.  A call that throws before it writes changes nothing    *)
(* and is no step.                                                         *)

(* Mutant of BeginNew: it does not look whether the key is there.          *)
BeginAgain(k) == Store(Received(k), [entries EXCEPT ![k] = Pending], FALSE)

BeginNew(k) ==
  /\ entries[k] = None
  /\ Store(Received(k), [entries EXCEPT ![k] = Pending], FALSE)

BeginFails(k) ==
  /\ Writable /\ entries[k] = None
  /\ AppendFails(Received(k))

ResultDue == recordCount + 1 >= CompactAfter

RecordResult(k, r) ==
  /\ entries[k] # None
  /\ Store(Result(k, r), [entries EXCEPT ![k] = r], ResultDue)

RecordResultFails(k, r) ==
  /\ Writable /\ entries[k] # None
  /\ AppendFails(Result(k, r))

AcknowledgeDue(e) == AllNone(e) \/ recordCount + 1 >= CompactAfter

Acknowledge(k) ==
  /\ entries[k] # None
  /\ LET e == [entries EXCEPT ![k] = None]
     IN  Store(Acknowledged(k), e, AcknowledgeDue(e))

AcknowledgeFails(k) ==
  /\ Writable /\ entries[k] # None
  /\ AppendFails(Acknowledged(k))

-----------------------------------------------------------------------------
(* Crashes: between two calls, in an append, or between an append and the  *)
(* compaction it makes due (the line is in the file, nothing else).        *)

Forget ==
  /\ alive' = FALSE
  /\ entries' = [k \in Key |-> None]
  /\ recordCount' = 0
  /\ writeFailure' = FALSE
  /\ incompleteTail' = FALSE

Crash == alive /\ Forget /\ UNCHANGED << file, tail >>

CrashInAppend(rec) == Writable /\ Forget /\ CutShort(rec)

CrashInBegin(k) == entries[k] = None /\ CrashInAppend(Received(k))

CrashInResult(k, r) == entries[k] # None /\ CrashInAppend(Result(k, r))

CrashInAcknowledge(k) == entries[k] # None /\ CrashInAppend(Acknowledged(k))

(* Mutants of Load: a torn last line is ignored, or cut off.               *)
LoadIgnoringTail ==
  /\ ~alive /\ Accepted(file)
  /\ alive' = TRUE
  /\ entries' = Loaded(file) /\ recordCount' = Len(file)
  /\ writeFailure' = FALSE /\ incompleteTail' = FALSE
  /\ UNCHANGED << file, tail >>

LoadCuttingTail ==
  /\ ~alive /\ Accepted(file)
  /\ alive' = TRUE
  /\ entries' = Loaded(file) /\ recordCount' = Len(file)
  /\ writeFailure' = FALSE /\ incompleteTail' = FALSE /\ tail' = FALSE
  /\ UNCHANGED file

(* The constructor of the next supervisor: load() replays the file, or     *)
(* throws and the supervisor does not start.                               *)
Load ==
  /\ ~alive
  /\ Accepted(file)
  /\ alive' = TRUE
  /\ entries' = Loaded(file)
  /\ recordCount' = Len(file)
  /\ writeFailure' = FALSE
  /\ incompleteTail' = tail
  /\ UNCHANGED << file, tail >>

JournalInit ==
  /\ file = << >> /\ tail = FALSE
  /\ alive = FALSE
  /\ entries = [k \in Key |-> None]
  /\ recordCount = 0
  /\ writeFailure = FALSE /\ incompleteTail = FALSE

(* The only caller, handleLine, records one response for a receipt; an     *)
(* acknowledgement can come at any time after it.                          *)
KeyStep(k) ==
  \/ Len(file) < MaxLines /\ (BeginNew(k) \/ BeginFails(k) \/ CrashInBegin(k))
  \/ Acknowledge(k) \/ AcknowledgeFails(k) \/ CrashInAcknowledge(k)
  \/ /\ entries[k] = Pending
     /\ \E r \in Response :
          RecordResult(k, r) \/ RecordResultFails(k, r) \/ CrashInResult(k, r)

JournalNext == Crash \/ Load \/ \E k \in Key : KeyStep(k)

JournalSpec == JournalInit /\ [][JournalNext]_journalVars

-----------------------------------------------------------------------------
(* Properties.                                                             *)

(* Types of the journal's state. *)
JournalTypeOK ==
  /\ file \in Seq(Record) /\ tail \in BOOLEAN /\ alive \in BOOLEAN
  /\ entries \in [Key -> Entry] /\ recordCount \in Nat
  /\ writeFailure \in BOOLEAN /\ incompleteTail \in BOOLEAN

(* No sequence of calls, failed writes, compactions and crashes leaves a   *)
(* file that the next supervisor's load() refuses to replay.               *)
FileLoads == Accepted(file)

(* While the journal can write, what lookup() answers is what the next     *)
(* supervisor would answer after a crash at this very moment: the Map is   *)
(* never ahead of the durable file nor behind it, compacted or not.        *)
MapIsDurable ==
  Writable => (entries = Loaded(file) /\ recordCount = Len(file) /\ ~tail)

(* A receipt is forgotten, and a stored response changes or disappears,    *)
(* only through a call about its own key: no failed append, compaction,    *)
(* crash or reload makes a command that was received look new.             *)
KeepsReceipts ==
  \A k \in Key :
    LET before == Loaded(file)[k]
        after  == Loaded(file')[k]
    IN  /\ (before # None /\ after = None)
              => Acknowledge(k) \/ AcknowledgeFails(k) \/ CrashInAcknowledge(k)
        /\ ~ (before \in Response /\ after = Pending)
        /\ (after \in Response /\ after # before)
              => \/ RecordResult(k, after) \/ RecordResultFails(k, after)
                 \/ CrashInResult(k, after)

ReceiptsSurvive == [][KeepsReceipts]_journalVars

(* A torn last line stops every later write, in this process or any later  *)
(* one: nothing is ever appended behind bytes that are no line.            *)
TornTailIsFinal == [][tail => (tail' /\ file' = file)]_journalVars
=============================================================================
