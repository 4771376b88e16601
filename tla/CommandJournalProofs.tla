------------------------ MODULE CommandJournalProofs ------------------------
(***************************************************************************)
(* Proofs about CommandJournal, for any finite set of keys, any responses  *)
(* and any compaction threshold.                                           *)
(*                                                                         *)
(* The argument: what load() rebuilds for a key is decided by the last     *)
(* line about it, so an append changes one key and a compaction none.      *)
(* The inductive invariant JournalInv adds to the three invariants what    *)
(* makes them inductive: they hold together, with the types.               *)
(***************************************************************************)
EXTENDS CommandJournal, FiniteSetTheorems, SequenceTheorems, WellFoundedInduction, TLAPS

(* A nonempty set of line numbers has a greatest element: the least of     *)
(* the distances to n is taken by it.                                      *)
LEMMA GreatestLine ==
  ASSUME NEW n \in Nat, NEW S \in SUBSET (1..n), S # {}
  PROVE  \E i \in S : \A j \in S : j <= i
<1> DEFINE T == {m \in Nat : \E i \in S : m = n - i}
<1>1. T \subseteq Nat
  OBVIOUS
<1>2. T # {}
  <2>1. PICK i \in S : TRUE
    OBVIOUS
  <2>2. n - i \in T
    BY i \in 1..n
  <2> QED BY <2>2
<1>3. PICK x \in T : \A y \in T : <<y, x>> \notin OpToRel(<, Nat)
  <2> HIDE DEF T
  <2> QED BY <1>1, <1>2, NatLessThanWellFounded, WFMin
<1>4. \A y \in T : ~ (y < x)
  BY <1>1, <1>3 DEF OpToRel
<1>5. PICK i \in S : x = n - i
  BY <1>3
<1>6. ASSUME NEW j \in S PROVE j <= i
  <2>1. n - j \in T
    BY j \in 1..n
  <2>2. ~ (n - j < n - i)
    BY <2>1, <1>4, <1>5
  <2> HIDE DEF T
  <2> QED BY <2>2, i \in 1..n, j \in 1..n
<1> QED
  BY <1>5, <1>6

-----------------------------------------------------------------------------
(* If a line about k exists among the first n, LastLine is one of them,    *)
(* and no later one of them is about k.                                    *)
LEMMA LastLineExists ==
  ASSUME NEW f \in Seq(Record), NEW k, NEW n \in 0..Len(f),
         \E i \in 1..n : f[i].key = k
  PROVE  /\ LastLine(f, k, n) \in 1..n
         /\ f[LastLine(f, k, n)].key = k
         /\ \A j \in 1..n : f[j].key = k => j <= LastLine(f, k, n)
<1> DEFINE S == {i \in 1..n : f[i].key = k}
<1>1. PICK i \in S : \A j \in S : j <= i
  <2>1. n \in Nat /\ S \in SUBSET (1..n) /\ S # {}
    OBVIOUS
  <2> HIDE DEF S
  <2> QED BY <2>1, GreatestLine
<1> QED
  BY <1>1 DEF LastLine

(* Only one line is the last about k.                                      *)
LEMMA LastLineUnique ==
  ASSUME NEW f \in Seq(Record), NEW k, NEW n \in 0..Len(f), NEW i \in 1..n,
         f[i].key = k, \A j \in 1..n : f[j].key = k => j <= i
  PROVE  LastLine(f, k, n) = i
<1>1. /\ LastLine(f, k, n) \in 1..n
      /\ f[LastLine(f, k, n)].key = k
      /\ \A j \in 1..n : f[j].key = k => j <= LastLine(f, k, n)
  BY LastLineExists
<1>2. LastLine(f, k, n) <= i /\ i <= LastLine(f, k, n)
  BY <1>1
<1> QED
  BY <1>1, <1>2

(* If the last line about k is line i, the entry is what line i says.      *)
LEMMA ReplayedAt ==
  ASSUME NEW f \in Seq(Record), NEW k, NEW n \in 0..Len(f), NEW i \in 1..n,
         f[i].key = k, \A j \in 1..n : f[j].key = k => j <= i
  PROVE  Replayed(f, k, n) = AfterRecord(f[i])
  BY LastLineUnique DEF Replayed

(* A replay gives every key an entry.                                      *)
LEMMA ReplayedType ==
  ASSUME NEW f \in Seq(Record), NEW k, NEW n \in 0..Len(f)
  PROVE  Replayed(f, k, n) \in Entry
<1>1. CASE \E i \in 1..n : f[i].key = k
  <2>1. LastLine(f, k, n) \in 1..Len(f)
    BY <1>1, LastLineExists
  <2>2. f[LastLine(f, k, n)] \in Record
    BY <2>1, ElementOfSeq
  <2> QED BY <1>1, <2>2 DEF Replayed, AfterRecord, Record, Entry
<1>2. CASE ~ \E i \in 1..n : f[i].key = k
  BY <1>2 DEF Replayed, Entry
<1> QED BY <1>1, <1>2

(* Two files that agree on their first n lines agree on the entries after  *)
(* them.                                                                   *)
LEMMA ReplayedAgree ==
  ASSUME NEW f \in Seq(Record), NEW g \in Seq(Record), NEW k,
         NEW n \in 0..Len(f), n <= Len(g), \A i \in 1..n : f[i] = g[i]
  PROVE  Replayed(f, k, n) = Replayed(g, k, n)
<1>1. CASE \E i \in 1..n : f[i].key = k
  <2> DEFINE l == LastLine(f, k, n)
  <2>1. l \in 1..n /\ f[l].key = k /\ \A j \in 1..n : f[j].key = k => j <= l
    BY <1>1, LastLineExists
  <2>2. g[l].key = k /\ \A j \in 1..n : g[j].key = k => j <= l
    BY <2>1
  <2>3. Replayed(f, k, n) = AfterRecord(f[l])
    BY <1>1 DEF Replayed
  <2>4. Replayed(g, k, n) = AfterRecord(g[l])
    <3> HIDE DEF l
    <3>1. n \in 0..Len(g)
      OBVIOUS
    <3> QED BY <3>1, <2>1, <2>2, ReplayedAt
  <2> QED BY <2>1, <2>3, <2>4
<1>2. CASE ~ \E i \in 1..n : f[i].key = k
  BY <1>2 DEF Replayed
<1> QED BY <1>1, <1>2

-----------------------------------------------------------------------------
(* An append changes the entry of its own key, to what the line says.      *)
LEMMA AppendLoaded ==
  ASSUME NEW f \in Seq(Record), NEW rec \in Record
  PROVE  /\ Append(f, rec) \in Seq(Record)
         /\ Loaded(Append(f, rec)) = [Loaded(f) EXCEPT ![rec.key] = AfterRecord(rec)]
<1> DEFINE g == Append(f, rec)
           n == Len(f)
<1>1. /\ g \in Seq(Record) /\ n \in Nat /\ Len(g) = n + 1
      /\ g[n + 1] = rec /\ \A i \in 1..n : g[i] = f[i]
  BY AppendProperties, LenProperties
<1> HIDE DEF g, n
<1>2. n = Len(f)
  BY DEF n
<1>3. rec.key \in Key
  BY DEF Record
<1>4. ASSUME NEW k \in Key
      PROVE  Replayed(g, k, n + 1)
               = IF k = rec.key THEN AfterRecord(rec) ELSE Replayed(f, k, n)
  <2>1. CASE k = rec.key
    <3>1. n + 1 \in 0..Len(g) /\ n + 1 \in 1..(n + 1) /\ g[n + 1].key = k
      BY <1>1, <2>1
    <3>2. \A j \in 1..(n + 1) : g[j].key = k => j <= n + 1
      OBVIOUS
    <3>3. Replayed(g, k, n + 1) = AfterRecord(g[n + 1])
      BY <1>1, <3>1, <3>2, ReplayedAt
    <3> QED BY <1>1, <2>1, <3>3
  <2>2. CASE k # rec.key
    <3>1. CASE \E i \in 1..n : f[i].key = k
      <4>1. PICK l \in 1..n : f[l].key = k /\ \A j \in 1..n : f[j].key = k => j <= l
        <5>1. n \in 0..Len(f)
          BY <1>1, <1>2
        <5> QED BY <3>1, <5>1, LastLineExists
      <4>2. /\ l \in 1..(n + 1) /\ g[l].key = k
            /\ \A j \in 1..(n + 1) : g[j].key = k => j <= l
        BY <1>1, <2>2, <4>1
      <4>3. n + 1 \in 0..Len(g) /\ n \in 0..Len(f)
        BY <1>1, <1>2
      <4>4. Replayed(g, k, n + 1) = AfterRecord(g[l])
        BY <1>1, <4>2, <4>3, ReplayedAt
      <4>5. Replayed(f, k, n) = AfterRecord(f[l])
        BY <4>1, <4>3, ReplayedAt
      <4> QED BY <1>1, <2>2, <4>1, <4>4, <4>5
    <3>2. CASE ~ \E i \in 1..n : f[i].key = k
      <4>1. ~ \E i \in 1..(n + 1) : g[i].key = k
        BY <1>1, <2>2, <3>2
      <4> QED BY <2>2, <3>2, <4>1 DEF Replayed
    <3> QED BY <3>1, <3>2
  <2> QED BY <2>1, <2>2
<1>5. Loaded(g) = [Loaded(f) EXCEPT ![rec.key] = AfterRecord(rec)]
  BY <1>1, <1>2, <1>3, <1>4 DEF Loaded
<1> QED
  BY <1>1, <1>5 DEF g

(* A file that load() accepts stays acceptable when a line is appended     *)
(* that load() would accept behind it.                                     *)
LEMMA AppendAccepted ==
  ASSUME NEW f \in Seq(Record), NEW rec \in Record,
         Accepted(f), Acceptable(rec, Loaded(f)[rec.key])
  PROVE  Accepted(Append(f, rec))
<1> DEFINE g == Append(f, rec)
           n == Len(f)
<1>1. /\ g \in Seq(Record) /\ n \in Nat /\ Len(g) = n + 1 /\ n = Len(f)
      /\ g[n + 1] = rec /\ \A i \in 1..n : g[i] = f[i]
  BY AppendProperties, LenProperties
<1> HIDE DEF g, n
<1>2. \A k, m : m \in 0..n => Replayed(g, k, m) = Replayed(f, k, m)
  <2> SUFFICES ASSUME NEW k, NEW m \in 0..n
               PROVE  Replayed(f, k, m) = Replayed(g, k, m)
    OBVIOUS
  <2>1. m \in 0..Len(f) /\ m <= Len(g) /\ \A i \in 1..m : f[i] = g[i]
    BY <1>1
  <2> QED BY <1>1, <2>1, ReplayedAgree
<1>3. ASSUME NEW i \in 1..(n + 1)
      PROVE  Acceptable(g[i], Replayed(g, g[i].key, i - 1))
  <2>1. CASE i \in 1..n
    <3>1. i - 1 \in 0..n
      BY <1>1, <2>1
    <3>2. Acceptable(f[i], Replayed(f, f[i].key, i - 1))
      BY <1>1, <2>1 DEF Accepted
    <3> QED BY <1>1, <1>2, <2>1, <3>1, <3>2
  <2>2. CASE i = n + 1
    <3>1. n \in 0..n /\ rec.key \in Key
      BY <1>1 DEF Record
    <3>2. Acceptable(rec, Replayed(f, rec.key, n))
      BY <1>1, <3>1 DEF Loaded
    <3>3. i - 1 = n /\ g[i] = rec
      BY <1>1, <2>2
    <3> QED BY <1>2, <3>1, <3>2, <3>3
  <2> QED BY <1>1, <2>1, <2>2
<1> QED
  BY <1>1, <1>3 DEF Accepted, g

-----------------------------------------------------------------------------
(* A snapshot is a file.                                                   *)
LEMMA SnapshotType ==
  ASSUME NEW e \in [Key -> Entry], NEW s \in Snapshots(e)
  PROVE  s \in Seq(Record) /\ DOMAIN s = 1..Len(s) /\ Len(s) \in Nat
<1>1. SnapshotRecords(e) \subseteq Record
  BY DEF SnapshotRecords, Received, Result, Record
<1>2. IsFiniteSet(SnapshotRecords(e))
  <2> DEFINE A == {x \in Key : e[x] # None}
             B == {x \in Key : e[x] \in Response}
  <2>1. IsFiniteSet(A) /\ IsFiniteSet(B)
    BY KeyAssumption, FS_Subset
  <2>2. IsFiniteSet({Received(k) : k \in A})
    <3> HIDE DEF A
    <3>1. [k \in A |-> Received(k)] \in Surjection(A, {Received(k) : k \in A})
      BY DEF Surjection
    <3> QED BY <2>1, <3>1, FS_Surjection
  <2>3. IsFiniteSet({Result(k, e[k]) : k \in B})
    <3> HIDE DEF B
    <3>1. [k \in B |-> Result(k, e[k])] \in Surjection(B, {Result(k, e[k]) : k \in B})
      BY DEF Surjection
    <3> QED BY <2>1, <3>1, FS_Surjection
  <2> QED BY <2>2, <2>3, FS_Union DEF SnapshotRecords
<1>3. Cardinality(SnapshotRecords(e)) \in Nat
  BY <1>2, FS_CardinalityType
<1>4. s \in [1..Cardinality(SnapshotRecords(e)) -> SnapshotRecords(e)]
  BY DEF Snapshots
<1>5. s \in [1..Cardinality(SnapshotRecords(e)) -> Record]
  BY <1>1, <1>4
<1>6. s \in Seq(Record)
  BY <1>3, <1>5, IsASeq
<1> QED
  BY <1>6, LenProperties

(* The lines of a snapshot about one key.                                  *)
LEMMA SnapshotLines ==
  ASSUME NEW e \in [Key -> Entry], NEW s \in Snapshots(e)
  PROVE  /\ \A i \in 1..Len(s) :
              LET k == s[i].key
              IN  /\ k \in Key
                  /\ \/ s[i] = Received(k) /\ e[k] # None
                     \/ s[i] = Result(k, e[k]) /\ e[k] \in Response
         /\ \A k \in Key : e[k] # None => \E i \in 1..Len(s) : s[i] = Received(k)
         /\ \A k \in Key : e[k] \in Response =>
                             \E i \in 1..Len(s) : s[i] = Result(k, e[k])
         /\ \A i, j \in 1..Len(s) : s[i] = s[j] => i = j
         /\ \A i, j \in 1..Len(s) :
              (s[i].key = s[j].key /\ s[i].type = "received") => i <= j
<1>1. DOMAIN s = 1..Len(s)
  BY SnapshotType
<1>2. \A i \in 1..Len(s) : s[i] \in SnapshotRecords(e)
  BY <1>1 DEF Snapshots
<1>3. \A i \in 1..Len(s) :
        LET k == s[i].key
        IN  /\ k \in Key
            /\ \/ s[i] = Received(k) /\ e[k] # None
               \/ s[i] = Result(k, e[k]) /\ e[k] \in Response
  BY <1>2 DEF SnapshotRecords, Received, Result
<1>4. \A rec \in SnapshotRecords(e) : \E i \in 1..Len(s) : s[i] = rec
  BY <1>1 DEF Snapshots
<1>5. \A k \in Key : e[k] # None => Received(k) \in SnapshotRecords(e)
  BY DEF SnapshotRecords
<1>6. \A k \in Key : e[k] \in Response => Result(k, e[k]) \in SnapshotRecords(e)
  BY DEF SnapshotRecords
<1>7. /\ \A i, j \in 1..Len(s) : s[i] = s[j] => i = j
      /\ \A i, j \in 1..Len(s) :
           (s[i].key = s[j].key /\ s[i].type = "received") => i <= j
  BY <1>1 DEF Snapshots
<1> QED
  BY <1>3, <1>4, <1>5, <1>6, <1>7

(* A snapshot is replayed to the entries it was written from.              *)
LEMMA SnapshotLoaded ==
  ASSUME NEW e \in [Key -> Entry], NEW s \in Snapshots(e)
  PROVE  Loaded(s) = e
<1>1. s \in Seq(Record) /\ Len(s) \in Nat
  BY SnapshotType
<1>2. ASSUME NEW k \in Key PROVE Replayed(s, k, Len(s)) = e[k]
  <2>0. Len(s) \in 0..Len(s)
    BY <1>1
  <2>1. CASE e[k] = None
    <3>1. ~ \E i \in 1..Len(s) : s[i].key = k
      BY <2>1, SnapshotLines, EntryAssumption
    <3> QED BY <2>1, <3>1 DEF Replayed
  <2>2. CASE e[k] \in Response
    <3>1. PICK i \in 1..Len(s) : s[i] = Result(k, e[k])
      BY <2>2, SnapshotLines
    <3>2. ASSUME NEW j \in 1..Len(s), s[j].key = k PROVE j <= i
      <4>1. CASE s[j] = Received(k)
        <5>1. s[j].type = "received" /\ s[i].key = k
          BY <3>1, <4>1 DEF Received, Result
        <5> QED BY <3>2, <5>1, SnapshotLines
      <4>2. CASE s[j] = Result(k, e[k])
        <5>1. s[i] = s[j]
          BY <3>1, <4>2
        <5>2. i = j
          BY <5>1, SnapshotLines
        <5> QED BY <5>2, <1>1
      <4> QED BY <3>2, <4>1, <4>2, SnapshotLines
    <3>3. s[i].key = k /\ AfterRecord(s[i]) = e[k]
      BY <3>1 DEF Result, AfterRecord
    <3> QED BY <1>1, <2>0, <3>2, <3>3, ReplayedAt
  <2>3. CASE e[k] = Pending
    <3>1. PICK i \in 1..Len(s) : s[i] = Received(k)
      BY <2>3, SnapshotLines, EntryAssumption
    <3>2. ASSUME NEW j \in 1..Len(s), s[j].key = k PROVE j <= i
      <4>1. s[j] = Received(k)
        BY <2>3, <3>2, SnapshotLines, EntryAssumption
      <4>2. j = i
        BY <3>1, <4>1, SnapshotLines
      <4> QED BY <4>2, <1>1
    <3>3. s[i].key = k /\ AfterRecord(s[i]) = e[k]
      BY <2>3, <3>1 DEF Received, AfterRecord
    <3> QED BY <1>1, <2>0, <3>2, <3>3, ReplayedAt
  <2> QED BY <2>1, <2>2, <2>3 DEF Entry
<1> QED
  BY <1>2 DEF Loaded

(* load() accepts every snapshot.                                          *)
LEMMA SnapshotAccepted ==
  ASSUME NEW e \in [Key -> Entry], NEW s \in Snapshots(e)
  PROVE  Accepted(s)
<1>1. s \in Seq(Record) /\ Len(s) \in Nat
  BY SnapshotType
<1> SUFFICES ASSUME NEW i \in 1..Len(s)
             PROVE  Acceptable(s[i], Replayed(s, s[i].key, i - 1))
  BY DEF Accepted
<1> DEFINE k == s[i].key
<1>2. i - 1 \in 0..Len(s) /\ k \in Key
  BY <1>1, SnapshotLines
<1>3. CASE s[i] = Received(k)
  <2>1. ASSUME NEW j \in 1..(i - 1), s[j].key = k PROVE FALSE
    <3>1. j \in 1..Len(s) /\ j < i
      BY <1>1
    <3>2. s[i].type = "received" /\ s[i].key = s[j].key
      BY <1>3, <2>1 DEF Received
    <3> QED BY <3>1, <3>2, SnapshotLines
  <2>2. Replayed(s, k, i - 1) = None
    BY <2>1 DEF Replayed
  <2>3. s[i].type = "received"
    BY <1>3 DEF Received
  <2> QED BY <2>2, <2>3 DEF Acceptable
<1>4. CASE s[i] = Result(k, e[k]) /\ e[k] \in Response
  <2>1. PICK j \in 1..Len(s) : s[j] = Received(k)
    BY <1>2, <1>4, SnapshotLines, EntryAssumption
  <2>2. s[j].type = "received" /\ s[j].key = k /\ s[i].type = "result"
    BY <1>4, <2>1 DEF Received, Result
  <2>3. j \in 1..(i - 1)
    <3>1. j <= i
      BY <2>2, SnapshotLines
    <3>2. j # i
      BY <2>2
    <3> QED BY <3>1, <3>2, <1>1
  <2>4. ASSUME NEW m \in 1..(i - 1), s[m].key = k PROVE m <= j
    <3>1. m \in 1..Len(s) /\ m # i
      BY <1>1
    <3>2. s[m] = Received(k)
      BY <1>2, <1>4, <2>4, <3>1, SnapshotLines
    <3>3. m = j
      BY <2>1, <3>1, <3>2, SnapshotLines
    <3> QED BY <3>3, <1>1
  <2>5. Replayed(s, k, i - 1) = AfterRecord(s[j])
    BY <1>1, <1>2, <2>2, <2>3, <2>4, ReplayedAt
  <2>6. Replayed(s, k, i - 1) = Pending
    BY <2>2, <2>5 DEF AfterRecord
  <2> QED BY <2>2, <2>6, EntryAssumption DEF Acceptable
<1> QED
  BY <1>2, <1>3, <1>4, SnapshotLines

-----------------------------------------------------------------------------
(* The inductive invariant.                                                *)

JournalInv == JournalTypeOK /\ FileLoads /\ MapIsDurable

(* A line that may be in the file after a call that was cut short.         *)
LEMMA CutShortKeeps ==
  ASSUME NEW rec \in Record, JournalInv, Writable, Acceptable(rec, entries[rec.key]),
         CutShort(rec)
  PROVE  /\ file' \in Seq(Record) /\ tail' \in BOOLEAN /\ Accepted(file')
         /\ \A k \in Key : \/ Loaded(file')[k] = Loaded(file)[k]
                           \/ k = rec.key /\ Loaded(file')[k] = AfterRecord(rec)
<1>1. file \in Seq(Record) /\ tail \in BOOLEAN /\ Accepted(file)
  BY DEF JournalInv, JournalTypeOK, FileLoads
<1>2. entries = Loaded(file)
  BY DEF JournalInv, MapIsDurable
<1>3. CASE file' = file
  BY <1>1, <1>3 DEF CutShort
<1>4. CASE file' = Append(file, rec) /\ tail' = tail
  <2>1. Accepted(file')
    BY <1>1, <1>2, <1>4, AppendAccepted
  <2>2. /\ file' \in Seq(Record)
        /\ Loaded(file') = [Loaded(file) EXCEPT ![rec.key] = AfterRecord(rec)]
    BY <1>1, <1>4, AppendLoaded
  <2>3. rec.key \in Key
    BY DEF Record
  <2>4. \A k \in Key : \/ Loaded(file')[k] = Loaded(file)[k]
                       \/ k = rec.key /\ Loaded(file')[k] = AfterRecord(rec)
    BY <2>2, <2>3 DEF Loaded
  <2> QED BY <1>1, <1>4, <2>1, <2>2, <2>4
<1> QED
  BY <1>3, <1>4 DEF CutShort

(* A failed append keeps the invariant: no write follows it.               *)
LEMMA AppendFailsKeeps ==
  ASSUME NEW rec \in Record, JournalInv, Writable, Acceptable(rec, entries[rec.key]),
         AppendFails(rec)
  PROVE  JournalInv'
<1>1. file' \in Seq(Record) /\ tail' \in BOOLEAN /\ Accepted(file')
  BY CutShortKeeps DEF AppendFails
<1>2. JournalTypeOK'
  BY <1>1 DEF JournalInv, JournalTypeOK, AppendFails
<1>3. ~ Writable'
  BY DEF AppendFails, Writable
<1> QED
  BY <1>1, <1>2, <1>3 DEF JournalInv, FileLoads, MapIsDurable

(* A crash inside an append keeps the invariant: its process is gone.      *)
LEMMA CrashInAppendKeeps ==
  ASSUME NEW rec \in Record, JournalInv, Acceptable(rec, entries[rec.key]),
         CrashInAppend(rec)
  PROVE  JournalInv'
<1>1. file' \in Seq(Record) /\ tail' \in BOOLEAN /\ Accepted(file')
  BY CutShortKeeps DEF CrashInAppend
<1>2. JournalTypeOK'
  BY <1>1 DEF JournalTypeOK, CrashInAppend, Forget, Entry
<1>3. ~ Writable'
  BY DEF CrashInAppend, Forget, Writable
<1> QED
  BY <1>1, <1>2, <1>3 DEF JournalInv, FileLoads, MapIsDurable

(* A call that writes its line and, when due, compacts: file and Map move  *)
(* together.                                                               *)
LEMMA StoreKeeps ==
  ASSUME NEW rec \in Record, NEW e, NEW due \in BOOLEAN, JournalInv,
         Acceptable(rec, entries[rec.key]),
         e = [entries EXCEPT ![rec.key] = AfterRecord(rec)],
         Store(rec, e, due)
  PROVE  JournalInv' /\ Loaded(file') = e
<1>1. /\ file \in Seq(Record) /\ Accepted(file) /\ Writable /\ ~ tail
      /\ entries \in [Key -> Entry] /\ recordCount \in Nat
      /\ entries = Loaded(file) /\ recordCount = Len(file)
  BY DEF JournalInv, JournalTypeOK, FileLoads, MapIsDurable, Store
<1>2. rec.key \in Key /\ AfterRecord(rec) \in Entry
  BY DEF Record, AfterRecord, Entry
<1>3. e \in [Key -> Entry]
  BY <1>1, <1>2
<1>4. ASSUME file' = Append(file, rec)
      PROVE  /\ file' \in Seq(Record) /\ Loaded(file') = e /\ Accepted(file')
             /\ Len(file') = recordCount + 1
  BY <1>1, <1>4, AppendLoaded, AppendAccepted, AppendProperties
<1>5. ASSUME file' \in Snapshots(e)
      PROVE  file' \in Seq(Record) /\ Loaded(file') = e /\ Accepted(file')
  BY <1>3, <1>5, SnapshotType, SnapshotLoaded, SnapshotAccepted
<1>6. file' \in Seq(Record) /\ Loaded(file') = e /\ Accepted(file')
  BY <1>4, <1>5 DEF Store
<1>7. writeFailure' \in BOOLEAN /\ recordCount' \in Nat
  <2>1. Len(file') \in Nat
    BY <1>6, LenProperties
  <2>2. recordCount' \in Nat
    BY <1>1, <2>1 DEF Store
  <2>3. writeFailure \in BOOLEAN
    BY DEF JournalInv, JournalTypeOK
  <2>4. writeFailure' = writeFailure \/ writeFailure' = TRUE
    BY DEF Store
  <2> QED BY <2>2, <2>3, <2>4
<1>8. ~ writeFailure' => recordCount' = Len(file')
  BY <1>4 DEF Store, Writable
<1>9. entries' = e /\ tail' = tail /\ alive' = alive /\ incompleteTail' = incompleteTail
  BY DEF Store
<1>10. JournalTypeOK'
  BY <1>3, <1>6, <1>7, <1>9 DEF JournalInv, JournalTypeOK
<1> QED
  BY <1>1, <1>6, <1>8, <1>9, <1>10 DEF JournalInv, FileLoads, MapIsDurable, Writable

-----------------------------------------------------------------------------
(* The three kinds of line: their types, their keys, what they leave of an *)
(* entry and which entry they need.                                        *)
LEMMA RecordTypes ==
  ASSUME NEW k \in Key
  PROVE  /\ Received(k) \in Record /\ Received(k).key = k
         /\ AfterRecord(Received(k)) = Pending
         /\ Acknowledged(k) \in Record /\ Acknowledged(k).key = k
         /\ AfterRecord(Acknowledged(k)) = None
         /\ \A r \in Response : /\ Result(k, r) \in Record /\ Result(k, r).key = k
                                /\ AfterRecord(Result(k, r)) = r
         /\ \A e : Acceptable(Received(k), e) <=> e = None
         /\ \A e : Acceptable(Acknowledged(k), e) <=> e # None
         /\ \A r \in Response : \A e : Acceptable(Result(k, r), e) <=> e # None
  BY DEF Received, Acknowledged, Result, Record, AfterRecord, Acceptable

(* What a call about key k can make of the file: at most the entry of k    *)
(* changes, and only to what its line says.                                *)
Changes(k, entry) ==
  \A x \in Key : \/ Loaded(file')[x] = Loaded(file)[x]
                 \/ x = k /\ Loaded(file)[x] = entries[x] /\ Loaded(file')[x] = entry

(* A call that stores a line changes the durable entry of its own key      *)
(* only.                                                                   *)
LEMMA StoreChanges ==
  ASSUME NEW rec \in Record, NEW e, NEW due \in BOOLEAN, JournalInv,
         Acceptable(rec, entries[rec.key]),
         e = [entries EXCEPT ![rec.key] = AfterRecord(rec)],
         Store(rec, e, due)
  PROVE  Changes(rec.key, AfterRecord(rec))
<1>1. Loaded(file') = e
  BY StoreKeeps
<1>2. entries = Loaded(file) /\ entries \in [Key -> Entry]
  BY DEF JournalInv, JournalTypeOK, MapIsDurable, Store
<1> QED
  BY <1>1, <1>2 DEF Changes

(* So does a call that was cut short.                                      *)
LEMMA CutShortChanges ==
  ASSUME NEW rec \in Record, JournalInv, Writable, Acceptable(rec, entries[rec.key]),
         CutShort(rec)
  PROVE  Changes(rec.key, AfterRecord(rec))
<1>1. entries = Loaded(file)
  BY DEF JournalInv, MapIsDurable
<1> QED
  BY <1>1, CutShortKeeps DEF Changes

(* The three ways in which a call can end: it stores its line, it fails,   *)
(* or its process ends in it.  Each keeps the invariant and changes the    *)
(* entry of its key only.                                                  *)
LEMMA CallKeeps ==
  ASSUME NEW rec \in Record, NEW due \in BOOLEAN, JournalInv,
         Acceptable(rec, entries[rec.key]),
         \/ Store(rec, [entries EXCEPT ![rec.key] = AfterRecord(rec)], due)
         \/ Writable /\ AppendFails(rec)
         \/ CrashInAppend(rec)
  PROVE  JournalInv' /\ Changes(rec.key, AfterRecord(rec)) /\ entries = Loaded(file)
<1> DEFINE e == [entries EXCEPT ![rec.key] = AfterRecord(rec)]
<1>1. CASE Store(rec, e, due)
  <2> HIDE DEF e
  <2>1. e = [entries EXCEPT ![rec.key] = AfterRecord(rec)]
    BY DEF e
  <2>2. JournalInv' /\ Changes(rec.key, AfterRecord(rec))
    BY <1>1, <2>1, StoreKeeps, StoreChanges
  <2>3. Writable
    BY <1>1 DEF Store
  <2> QED BY <2>2, <2>3 DEF JournalInv, MapIsDurable
<1>2. CASE Writable /\ AppendFails(rec)
  <2>1. JournalInv' /\ Changes(rec.key, AfterRecord(rec))
    BY <1>2, AppendFailsKeeps, CutShortChanges DEF AppendFails
  <2> QED BY <1>2, <2>1 DEF JournalInv, MapIsDurable
<1>3. CASE CrashInAppend(rec)
  <2>1. JournalInv' /\ Changes(rec.key, AfterRecord(rec))
    BY <1>3, CrashInAppendKeeps, CutShortChanges DEF CrashInAppend
  <2> QED BY <1>3, <2>1 DEF JournalInv, MapIsDurable, CrashInAppend
<1> QED BY <1>1, <1>2, <1>3

(* begin(), however it ends.                                               *)
LEMMA BeginKeeps ==
  ASSUME NEW k \in Key, JournalInv, BeginNew(k) \/ BeginFails(k) \/ CrashInBegin(k)
  PROVE  JournalInv' /\ Changes(k, Pending) /\ entries = Loaded(file)
<1> DEFINE rec == Received(k)
<1>1. /\ rec \in Record /\ rec.key = k /\ AfterRecord(rec) = Pending
      /\ Acceptable(rec, entries[rec.key])
  BY RecordTypes DEF BeginNew, BeginFails, CrashInBegin
<1>2. \/ Store(rec, [entries EXCEPT ![k] = Pending], FALSE)
      \/ Writable /\ AppendFails(rec)
      \/ CrashInAppend(rec)
  BY DEF BeginNew, BeginFails, CrashInBegin
<1> HIDE DEF rec
<1> QED BY <1>1, <1>2, CallKeeps

(* recordResult(), however it ends.                                        *)
LEMMA ResultKeeps ==
  ASSUME NEW k \in Key, NEW r \in Response, JournalInv,
         RecordResult(k, r) \/ RecordResultFails(k, r) \/ CrashInResult(k, r)
  PROVE  JournalInv' /\ Changes(k, r) /\ entries = Loaded(file)
<1> DEFINE rec == Result(k, r)
           due == ResultDue
<1>1. /\ rec \in Record /\ rec.key = k /\ AfterRecord(rec) = r
      /\ Acceptable(rec, entries[rec.key])
  BY RecordTypes DEF RecordResult, RecordResultFails, CrashInResult
<1>2. \/ Store(rec, [entries EXCEPT ![k] = r], due)
      \/ Writable /\ AppendFails(rec)
      \/ CrashInAppend(rec)
  BY DEF RecordResult, RecordResultFails, CrashInResult
<1>3. due \in BOOLEAN
  BY DEF ResultDue
<1> HIDE DEF rec, due
<1> QED BY <1>1, <1>2, <1>3, CallKeeps

(* acknowledge(), however it ends.                                         *)
LEMMA AcknowledgeKeeps ==
  ASSUME NEW k \in Key, JournalInv,
         Acknowledge(k) \/ AcknowledgeFails(k) \/ CrashInAcknowledge(k)
  PROVE  JournalInv' /\ Changes(k, None) /\ entries = Loaded(file)
<1> DEFINE rec == Acknowledged(k)
           e == [entries EXCEPT ![k] = None]
           due == AcknowledgeDue(e)
<1>1. /\ rec \in Record /\ rec.key = k /\ AfterRecord(rec) = None
      /\ Acceptable(rec, entries[rec.key])
  BY RecordTypes DEF Acknowledge, AcknowledgeFails, CrashInAcknowledge
<1>2. \/ Store(rec, e, due)
      \/ Writable /\ AppendFails(rec)
      \/ CrashInAppend(rec)
  BY DEF Acknowledge, AcknowledgeFails, CrashInAcknowledge
<1>3. due \in BOOLEAN
  BY DEF AcknowledgeDue, AllNone
<1>4. e = [entries EXCEPT ![rec.key] = AfterRecord(rec)]
  BY <1>1
<1> HIDE DEF rec, due, e
<1> QED BY <1>1, <1>2, <1>3, <1>4, CallKeeps

(* A crash between two calls.                                              *)
LEMMA CrashKeeps == JournalInv /\ Crash => JournalInv'
<1> SUFFICES ASSUME JournalInv, Crash PROVE JournalInv'
  OBVIOUS
<1> QED BY DEF Crash, Forget, JournalInv, JournalTypeOK, FileLoads, MapIsDurable, Writable,
                Entry

(* The next supervisor loads the file.                                     *)
LEMMA LoadKeeps == JournalInv /\ Load => JournalInv'
<1> SUFFICES ASSUME JournalInv, Load PROVE JournalInv'
  OBVIOUS
<1>1. file \in Seq(Record)
  BY DEF JournalInv, JournalTypeOK
<1>2. Len(file) \in 0..Len(file) /\ Len(file) \in Nat
  BY <1>1, LenProperties
<1>3. Loaded(file) \in [Key -> Entry]
  BY <1>1, <1>2, ReplayedType DEF Loaded
<1> QED BY <1>2, <1>3 DEF Load, JournalInv, JournalTypeOK, FileLoads, MapIsDurable, Writable

(* The invariant holds of the empty file.                                  *)
LEMMA JournalInvInit == JournalInit => JournalInv
<1> SUFFICES ASSUME JournalInit PROVE JournalInv
  OBVIOUS
<1>1. Len(file) = 0 /\ file \in Seq(Record)
  BY DEF JournalInit
<1>2. JournalTypeOK
  BY <1>1 DEF JournalInit, JournalTypeOK, Entry
<1>3. FileLoads
  BY <1>1 DEF FileLoads, Accepted
<1>4. MapIsDurable
  BY DEF JournalInit, MapIsDurable, Writable
<1> QED
  BY <1>2, <1>3, <1>4 DEF JournalInv

(* Every step keeps the invariant.                                         *)
LEMMA JournalInvNext == JournalInv /\ [JournalNext]_journalVars => JournalInv'
<1> SUFFICES ASSUME JournalInv, [JournalNext]_journalVars PROVE JournalInv'
  OBVIOUS
<1>1. CASE Crash
  BY <1>1, CrashKeeps
<1>2. CASE Load
  BY <1>2, LoadKeeps
<1>3. ASSUME NEW k \in Key, KeyStep(k) PROVE JournalInv'
  BY <1>3, BeginKeeps, ResultKeeps, AcknowledgeKeeps DEF KeyStep
<1>4. CASE UNCHANGED journalVars
  BY <1>4 DEF journalVars, JournalInv, JournalTypeOK, FileLoads, MapIsDurable, Writable
<1> QED
  BY <1>1, <1>2, <1>3, <1>4 DEF JournalNext

-----------------------------------------------------------------------------
(* The inductive invariant holds in every reachable state.                 *)
THEOREM JournalInvariant == JournalSpec => []JournalInv
  BY JournalInvInit, JournalInvNext, PTL DEF JournalSpec

(* The state has the declared types in every reachable state.              *)
THEOREM JournalTypes == JournalSpec => []JournalTypeOK
<1>1. JournalInv => JournalTypeOK
  BY DEF JournalInv
<1> QED
  BY <1>1, JournalInvariant, PTL

(* Whatever fails or crashes, the next supervisor can load the file.       *)
THEOREM JournalAlwaysLoads == JournalSpec => []FileLoads
<1>1. JournalInv => FileLoads
  BY DEF JournalInv
<1> QED
  BY <1>1, JournalInvariant, PTL

(* A journal that can write holds in memory exactly what a restart at this *)
(* moment would rebuild from the file.                                     *)
THEOREM JournalMapIsDurable == JournalSpec => []MapIsDurable
<1>1. JournalInv => MapIsDurable
  BY DEF JournalInv
<1> QED
  BY <1>1, JournalInvariant, PTL

(* Nothing is ever written behind a torn line.                             *)
THEOREM JournalTornTail == JournalSpec => TornTailIsFinal
<1>1. JournalInv /\ [JournalNext]_journalVars
        => [tail => (tail' /\ file' = file)]_journalVars
  <2> SUFFICES ASSUME JournalInv, JournalNext, tail
               PROVE  tail' /\ file' = file
    BY DEF journalVars
  <2>1. ~ Writable
    BY DEF JournalInv, MapIsDurable
  <2>2. \A k \in Key : ~ KeyStep(k)
    BY <2>1 DEF KeyStep, BeginNew, BeginFails, CrashInBegin, Acknowledge, AcknowledgeFails,
      CrashInAcknowledge, RecordResult, RecordResultFails, CrashInResult, Store,
      CrashInAppend
  <2>3. Crash \/ Load
    BY <2>2 DEF JournalNext
  <2> QED BY <2>3 DEF Crash, Load
<1> QED
  BY <1>1, JournalInvariant, PTL DEF JournalSpec, TornTailIsFinal

(* No command that was received is forgotten, and no response changes,     *)
(* except by a call about its own key.                                     *)
THEOREM JournalReceiptsSurvive == JournalSpec => ReceiptsSurvive
<1>1. ASSUME JournalInv, JournalNext PROVE KeepsReceipts
  <2>1. CASE Crash \/ Load
    <3>1. file' = file
      BY <2>1 DEF Crash, Load
    <3> QED BY <3>1, EntryAssumption DEF KeepsReceipts
  <2>2. ASSUME NEW k \in Key, BeginNew(k) \/ BeginFails(k) \/ CrashInBegin(k)
        PROVE  KeepsReceipts
    <3>1. Changes(k, Pending)
      BY <1>1, <2>2, BeginKeeps
    <3>2. entries[k] = None
      BY <2>2 DEF BeginNew, BeginFails, CrashInBegin
    <3> QED BY <3>1, <3>2, EntryAssumption DEF KeepsReceipts, Changes
  <2>3. ASSUME NEW k \in Key,
               Acknowledge(k) \/ AcknowledgeFails(k) \/ CrashInAcknowledge(k)
        PROVE  KeepsReceipts
    <3>1. Changes(k, None)
      BY <1>1, <2>3, AcknowledgeKeeps
    <3> QED BY <3>1, <2>3, EntryAssumption DEF KeepsReceipts, Changes
  <2>4. ASSUME NEW k \in Key, NEW r \in Response,
               RecordResult(k, r) \/ RecordResultFails(k, r) \/ CrashInResult(k, r)
        PROVE  KeepsReceipts
    <3>1. Changes(k, r)
      BY <1>1, <2>4, ResultKeeps
    <3> QED BY <3>1, <2>4, EntryAssumption DEF KeepsReceipts, Changes
  <2> QED BY <1>1, <2>1, <2>2, <2>3, <2>4 DEF JournalNext, KeyStep
<1>2. JournalInv /\ [JournalNext]_journalVars => [KeepsReceipts]_journalVars
  BY <1>1
<1> QED
  BY <1>2, JournalInvariant, PTL DEF JournalSpec, ReceiptsSurvive
=============================================================================
