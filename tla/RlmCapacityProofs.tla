--------------------------- MODULE RlmCapacityProofs ---------------------------
(***************************************************************************)
(* Proofs about RlmCapacity, for any workers, reservations and limits and  *)
(* any number of replacements of the supervisor.                           *)
(***************************************************************************)
EXTENDS RlmCapacity, FiniteSetTheorems, TLAPS

(* The order in which a reservation and its two requests move.           *)
Phases ==
  \A r \in Slots :
    /\ slot[r] = "new" => reserveReq[r] = "none" /\ releaseReq[r] = "none"
    /\ reserveReq[r] \in {"granted", "refused"} => slot[r] = "reserving" /\ Current(r)
    /\ releaseReq[r] # "none" => slot[r] \in {"releasing", "leaked"}
    /\ releaseReq[r] = "done" => slot[r] # "leaked"

(* What is marked as released during a recovery was released.            *)
SkipInv == \A r \in skip : Current(r) => slot[r] \in {"releasing", "leaked", "freed"}

(* Between two supervisors nothing is in memory or on the wire.          *)
Down ==
  ~up => /\ \A r \in Slots : claims[r] = "none" /\ reserveReq[r] = "none" /\ releaseReq[r] = "none"
         /\ \A w \in Workers : snapshot[w] = NoSnapshot
         /\ pending = {} /\ skip = {} /\ overtaken = {}

(* A live worker has its descriptor.                                     *)
LiveKnown == live \subseteq known

(* A report names reservations of the worker that made it.               *)
SnapInv == \A w \in Workers : snapshot[w].slots \subseteq SlotsOf(w)

(* Only an open family lets a reservation through, and a grant is a claim. *)
OpenInv ==
  \A r \in Slots :
    /\ reserveReq[r] = "checked" => pending \cap live = {}
    /\ reserveReq[r] = "granted" /\ r \notin mainRoots =>
         pending \cap live = {} /\ claims[r] # "none"

(* Nothing on its way to the table can claim r again.                    *)
Quiet(r) ==
  /\ claims[r] = "none"
  /\ reserveReq[r] # "sent"
  /\ reserveReq[r] \in {"resolving", "checked"} => r \in overtaken
  /\ r \in snapshot[OwnerOf[r]].slots /\ OwnerOf[r] \in pending => r \in skip

(* A reservation the worker does not have, or whose release is acknowledged. *)
GoneInv ==
  \A r \in Slots :
    Current(r) =>
      /\ slot[r] \in {"new", "freed"} => Quiet(r)
      /\ releaseReq[r] = "done" => Quiet(r) /\ (OwnerOf[r] \in pending => r \in skip)

(* A report taken of a worker that is awaited names its resident children. *)
ReportInv ==
  \A r \in Slots \ mainRoots :
    slot[r] = "resident" /\ Current(r) /\ OwnerOf[r] \in pending /\ snapshot[OwnerOf[r]].taken
      => r \in snapshot[OwnerOf[r]].slots

(* A resident child is counted, or its worker is awaited.                *)
CountedInv ==
  up => \A r \in Slots \ mainRoots :
          slot[r] = "resident" /\ Current(r) => claims[r] # "none" \/ OwnerOf[r] \in pending

--------------------------------------------------------------------------------
(* A reply leaves the requests typed.                                    *)
LEMMA AnswerTypes ==
  ASSUME TableTypes, NEW r \in Slots, NEW reply \in {"granted", "refused"}, Answer(r, reply)
  PROVE  reserveReq' \in [Slots -> {"none", "sent", "resolving", "checked", "granted", "refused"}]
<1> DEFINE v == IF slot[r] = "reserving" /\ Current(r) THEN reply ELSE "none"
<1>1. v \in {"none", "granted", "refused"}
  OBVIOUS
<1>2. reserveReq' = [reserveReq EXCEPT ![r] = v]
  BY DEF Answer, Set
<1> HIDE DEF v
<1> QED BY <1>1, <1>2 DEF TableTypes

(* A step of a connection touches nothing else.                          *)
LEMMA LinkStepsRest ==
  ASSUME NEW w \in Workers, LinkStep(w)
  PROVE  UNCHANGED <<worker, wire, up, restarts, table, snapshot>>
  BY DEF LinkStep, Disconnect, Probe, Adopted, ParkIncompatible, Retry

(* Every step keeps the types of requests, tables and reports.           *)
LEMMA TablesTyped ==
  ASSUME TableTypes, Phases, [Next]_vars
  PROVE  TableTypes'
<1> USE CapacityConstants DEF TableTypes, Phases, NoSnapshot, SlotsOf
<1>1. ASSUME NEW r \in Slots, Reserve(r) PROVE TableTypes'
  BY <1>1 DEF Reserve, table, Set, Current
<1>2. ASSUME NEW r \in Slots, Admitted(r) PROVE TableTypes'
  BY <1>2 DEF Admitted, table, Set, Current
<1>3. ASSUME NEW r \in Slots, ReserveFailed(r) PROVE TableTypes'
  BY <1>3 DEF ReserveFailed, SendRelease, table, Set, Current
<1>4. ASSUME NEW r \in Slots, Dispose(r) PROVE TableTypes'
  BY <1>4 DEF Dispose, SendRelease, table, Set, Current
<1>5. ASSUME NEW r \in Slots, Released(r) PROVE TableTypes'
  BY <1>5 DEF Released, table, Set, Current
<1>6. ASSUME NEW r \in Slots, ReleaseFailed(r) PROVE TableTypes'
  BY <1>6 DEF ReleaseFailed, table, Set, Current
<1>7. ASSUME NEW r \in Slots, ReserveArrives(r) PROVE TableTypes'
  BY <1>7 DEF ReserveArrives, worker, table, Set
<1>8. ASSUME NEW r \in Slots, Refuse(r) PROVE TableTypes'
  BY <1>8 DEF Refuse, Answer, Without, worker, Set, Current
<1>9. ASSUME NEW r \in Slots, AdmitMainRoot(r) PROVE TableTypes'
  BY <1>9 DEF AdmitMainRoot, Answer, Without, worker, Set, Current
<1>10. ASSUME NEW r \in Slots, CheckKnown(r) PROVE TableTypes'
  <2>1. pending' \subseteq pending /\ pending' \subseteq known'
    BY <1>10 DEF CheckKnown, ReleaseWorkers
  <2>2. claims' \in [Slots -> {"none", "granted", "restored"}]
    BY <1>10 DEF CheckKnown, ReleaseWorkers
  <2>3. skip' \subseteq {x \in Slots : OwnerOf[x] \in pending'}
    BY <1>10 DEF CheckKnown, ReleaseWorkers
  <2>4. reserveReq' \in [Slots -> {"none", "sent", "resolving", "checked", "granted", "refused"}]
    BY <1>10, AnswerTypes DEF CheckKnown, Set
  <2>5. overtaken' \subseteq {x \in Slots : reserveReq'[x] \in {"resolving", "checked"}}
    BY <1>10 DEF CheckKnown, Answer, Without, Set
  <2> QED BY <1>10, <2>1, <2>2, <2>3, <2>4, <2>5 DEF CheckKnown, worker
<1>11. ASSUME NEW r \in Slots, ReserveDecides(r) PROVE TableTypes'
  <2>1. claims' \in [Slots -> {"none", "granted", "restored"}]
    BY <1>11 DEF ReserveDecides, Set
  <2>2. reserveReq' \in [Slots -> {"none", "sent", "resolving", "checked", "granted", "refused"}]
    BY <1>11, AnswerTypes DEF ReserveDecides
  <2>3. overtaken' \subseteq {x \in Slots : reserveReq'[x] \in {"resolving", "checked"}}
    BY <1>11 DEF ReserveDecides, Answer, Without, Set
  <2> QED BY <1>11, <2>1, <2>2, <2>3 DEF ReserveDecides, worker
<1>12. ASSUME NEW r \in Slots, ReleaseArrives(r) PROVE TableTypes'
  BY <1>12 DEF ReleaseArrives, worker, Set
<1>13. ASSUME NEW w \in Workers, WorkerDies(w) PROVE TableTypes'
  BY <1>13 DEF WorkerDies, table
<1>14. ASSUME NEW w \in Workers, WorkerGone(w) \/ Forget(w) PROVE TableTypes'
  BY <1>14 DEF WorkerGone, Forget, ReleaseWorkers, worker, wire
<1>15. ASSUME NEW w \in Workers, Report(w) PROVE TableTypes'
  BY <1>15 DEF Report, SlotsOf, Reserved, worker, wire, table, Set
<1>16. ASSUME NEW w \in Workers, ProbeFails(w) PROVE TableTypes'
  BY <1>16 DEF ProbeFails, NoSnapshot, worker, wire, table, Set
<1>17. ASSUME NEW w \in Workers, Restore(w) PROVE TableTypes'
  BY <1>17 DEF Restore, SlotsOf, NoSnapshot, worker, wire, Set
<1>18. ASSUME NEW n \in Limits, SetMaxSubagents(n) PROVE TableTypes'
  BY <1>18 DEF SetMaxSubagents, worker, wire
<1>19. ASSUME Crash PROVE TableTypes'
  <2>1. restarts' \in 0 .. MaxRestarts
    BY <1>19 DEF Crash
  <2> QED BY <1>19, <2>1 DEF Crash, worker
<1>20. ASSUME Start PROVE TableTypes'
  BY <1>20 DEF Start, worker, wire
<1>21. CASE UNCHANGED <<worker, wire, up, restarts, table, snapshot>>
  BY <1>21 DEF worker, wire, table
<1> QED
  BY <1>1, <1>2, <1>3, <1>4, <1>5, <1>6, <1>7, <1>8, <1>9, <1>10, <1>11,
     <1>12, <1>13, <1>14, <1>15, <1>16, <1>17, <1>18, <1>19, <1>20, <1>21,
     LinkStepsRest DEF Next, SlotStep, WorkerStep, vars

(* Every step keeps the states of the connections.                       *)
LEMMA LinksTyped ==
  ASSUME LinkTypes, [Next]_vars
  PROVE  LinkTypes'
<1> USE CapacityConstants DEF LinkTypes
<1>1. ASSUME UNCHANGED links PROVE LinkTypes'
  BY <1>1 DEF links
<1>2. ASSUME NEW r \in Slots, SlotStep(r) PROVE LinkTypes'
  BY <1>1, <1>2 DEF SlotStep, Reserve, Admitted, ReserveFailed, Dispose, Released, ReleaseFailed,
     ReserveArrives, Refuse, AdmitMainRoot, CheckKnown, ReserveDecides, ReleaseArrives
<1>3. ASSUME NEW w \in Workers, Forget(w) \/ WorkerGone(w) PROVE LinkTypes'
  BY <1>3 DEF Forget, WorkerGone, Link, Set
<1>4. ASSUME NEW w \in Workers, ProbeFails(w) PROVE LinkTypes'
  <2>1. failures[w] + 1 < MaxFailures => failures[w] + 1 \in 0 .. MaxFailures - 1
    OBVIOUS
  <2>2. CASE failures[w] + 1 < MaxFailures
    BY <1>4, <2>1, <2>2 DEF ProbeFails, Link, Set
  <2>3. CASE ~(failures[w] + 1 < MaxFailures)
    BY <1>4, <2>3 DEF ProbeFails, Link, Set
  <2> QED BY <2>2, <2>3
<1>5. ASSUME NEW w \in Workers, LinkStep(w) PROVE LinkTypes'
  BY <1>5 DEF LinkStep, Disconnect, Probe, Adopted, ParkIncompatible, Retry, Link, Set
<1>6. ASSUME NEW w \in Workers, WorkerDies(w) \/ Report(w) \/ Restore(w) PROVE LinkTypes'
  BY <1>1, <1>6 DEF WorkerDies, Report, Restore
<1>7. ASSUME NEW n \in Limits, SetMaxSubagents(n) PROVE LinkTypes'
  BY <1>1, <1>7 DEF SetMaxSubagents
<1>8. ASSUME Crash PROVE LinkTypes'
  BY <1>8 DEF Crash
<1>9. ASSUME Start PROVE LinkTypes'
  BY <1>1, <1>9 DEF Start
<1>10. CASE UNCHANGED vars
  BY <1>1, <1>10 DEF vars
<1> QED
  BY <1>2, <1>3, <1>4, <1>5, <1>6, <1>7, <1>8, <1>9, <1>10 DEF Next, WorkerStep

(* Every step keeps the types.                                           *)
LEMMA TypesKept ==
  ASSUME TypeOK, Phases, [Next]_vars
  PROVE  TypeOK'
  BY TablesTyped, LinksTyped DEF TypeOK

(* Every step keeps the order of requests.                               *)
LEMMA PhasesKept ==
  ASSUME TableTypes, Phases, [Next]_vars
  PROVE  Phases'
<1> USE DEF TableTypes, Phases, Current
<1>1. ASSUME NEW r \in Slots, Reserve(r) PROVE Phases'
  BY <1>1 DEF Reserve, table, Set, Current
<1>2. ASSUME NEW r \in Slots, Admitted(r) PROVE Phases'
  BY <1>2 DEF Admitted, table, Set, Current
<1>3. ASSUME NEW r \in Slots, ReserveFailed(r) PROVE Phases'
  BY <1>3 DEF ReserveFailed, SendRelease, table, Set, Current
<1>4. ASSUME NEW r \in Slots, Dispose(r) PROVE Phases'
  BY <1>4 DEF Dispose, SendRelease, table, Set, Current
<1>5. ASSUME NEW r \in Slots, Released(r) PROVE Phases'
  BY <1>5 DEF Released, table, Set, Current
<1>6. ASSUME NEW r \in Slots, ReleaseFailed(r) PROVE Phases'
  BY <1>6 DEF ReleaseFailed, table, Set, Current
<1>7. ASSUME NEW r \in Slots, ReserveArrives(r) PROVE Phases'
  BY <1>7 DEF ReserveArrives, worker, table, Set
<1>8. ASSUME NEW r \in Slots, Refuse(r) PROVE Phases'
  BY <1>8 DEF Refuse, Answer, Without, worker, Set, Current
<1>9. ASSUME NEW r \in Slots, AdmitMainRoot(r) PROVE Phases'
  BY <1>9 DEF AdmitMainRoot, Answer, Without, worker, Set, Current
<1>10. ASSUME NEW r \in Slots, CheckKnown(r) PROVE Phases'
  BY <1>10 DEF CheckKnown, Answer, Without, ReleaseWorkers, worker, Set, Current
<1>11. ASSUME NEW r \in Slots, ReserveDecides(r) PROVE Phases'
  BY <1>11 DEF ReserveDecides, Answer, Without, Admissible, worker, Set, Current
<1>12. ASSUME NEW r \in Slots, ReleaseArrives(r) PROVE Phases'
  BY <1>12 DEF ReleaseArrives, worker, Set
<1>13. ASSUME NEW w \in Workers, WorkerDies(w) PROVE Phases'
  BY <1>13 DEF WorkerDies, table
<1>14. ASSUME NEW w \in Workers, WorkerGone(w) \/ Forget(w) PROVE Phases'
  BY <1>14 DEF WorkerGone, Forget, ReleaseWorkers, worker, wire
<1>15. ASSUME NEW w \in Workers, Report(w) PROVE Phases'
  BY <1>15 DEF Report, SlotsOf, Reserved, worker, wire, table, Set
<1>16. ASSUME NEW w \in Workers, ProbeFails(w) PROVE Phases'
  BY <1>16 DEF ProbeFails, NoSnapshot, worker, wire, table, Set
<1>17. ASSUME NEW w \in Workers, Restore(w) PROVE Phases'
  BY <1>17 DEF Restore, SlotsOf, NoSnapshot, worker, wire, Set
<1>18. ASSUME NEW n \in Limits, SetMaxSubagents(n) PROVE Phases'
  BY <1>18 DEF SetMaxSubagents, worker, wire
<1>19. ASSUME Crash PROVE Phases'
  BY <1>19 DEF Crash, NoSnapshot, worker
<1>20. ASSUME Start PROVE Phases'
  BY <1>20 DEF Start, worker, wire
<1>21. CASE UNCHANGED <<worker, wire, up, restarts, table, snapshot>>
  BY <1>21 DEF worker, wire, table
<1> QED
  BY <1>1, <1>2, <1>3, <1>4, <1>5, <1>6, <1>7, <1>8, <1>9, <1>10, <1>11,
     <1>12, <1>13, <1>14, <1>15, <1>16, <1>17, <1>18, <1>19, <1>20, <1>21,
     LinkStepsRest DEF Next, SlotStep, WorkerStep, vars

(* Only a release marks a reservation for a recovery.                    *)
LEMMA SkipKept ==
  ASSUME TableTypes, Phases, SkipInv, [Next]_vars
  PROVE  SkipInv'
<1> USE DEF TableTypes, Phases, SkipInv, Current
<1>1. ASSUME NEW r \in Slots, Reserve(r) PROVE SkipInv'
  BY <1>1 DEF Reserve, table, Set, Current
<1>2. ASSUME NEW r \in Slots, Admitted(r) PROVE SkipInv'
  BY <1>2 DEF Admitted, table, Set, Current
<1>3. ASSUME NEW r \in Slots, ReserveFailed(r) PROVE SkipInv'
  BY <1>3 DEF ReserveFailed, SendRelease, table, Set, Current
<1>4. ASSUME NEW r \in Slots, Dispose(r) PROVE SkipInv'
  BY <1>4 DEF Dispose, SendRelease, table, Set, Current
<1>5. ASSUME NEW r \in Slots, Released(r) PROVE SkipInv'
  BY <1>5 DEF Released, table, Set, Current
<1>6. ASSUME NEW r \in Slots, ReleaseFailed(r) PROVE SkipInv'
  BY <1>6 DEF ReleaseFailed, table, Set, Current
<1>7. ASSUME NEW r \in Slots, ReserveArrives(r) PROVE SkipInv'
  BY <1>7 DEF ReserveArrives, worker, table, Set
<1>8. ASSUME NEW r \in Slots, Refuse(r) PROVE SkipInv'
  BY <1>8 DEF Refuse, Answer, Without, worker, Set, Current
<1>9. ASSUME NEW r \in Slots, AdmitMainRoot(r) PROVE SkipInv'
  BY <1>9 DEF AdmitMainRoot, Answer, Without, worker, Set, Current
<1>10. ASSUME NEW r \in Slots, CheckKnown(r) PROVE SkipInv'
  BY <1>10 DEF CheckKnown, Answer, Without, ReleaseWorkers, worker, Set, Current
<1>11. ASSUME NEW r \in Slots, ReserveDecides(r) PROVE SkipInv'
  BY <1>11 DEF ReserveDecides, Answer, Without, Admissible, worker, Set, Current
<1>12. ASSUME NEW r \in Slots, ReleaseArrives(r) PROVE SkipInv'
  BY <1>12 DEF ReleaseArrives, worker, Set
<1>13. ASSUME NEW w \in Workers, WorkerDies(w) PROVE SkipInv'
  BY <1>13 DEF WorkerDies, table
<1>14. ASSUME NEW w \in Workers, WorkerGone(w) \/ Forget(w) PROVE SkipInv'
  BY <1>14 DEF WorkerGone, Forget, ReleaseWorkers, worker, wire
<1>15. ASSUME NEW w \in Workers, Report(w) PROVE SkipInv'
  BY <1>15 DEF Report, SlotsOf, Reserved, worker, wire, table, Set
<1>16. ASSUME NEW w \in Workers, ProbeFails(w) PROVE SkipInv'
  BY <1>16 DEF ProbeFails, NoSnapshot, worker, wire, table, Set
<1>17. ASSUME NEW w \in Workers, Restore(w) PROVE SkipInv'
  BY <1>17 DEF Restore, SlotsOf, NoSnapshot, worker, wire, Set
<1>18. ASSUME NEW n \in Limits, SetMaxSubagents(n) PROVE SkipInv'
  BY <1>18 DEF SetMaxSubagents, worker, wire
<1>19. ASSUME Crash PROVE SkipInv'
  BY <1>19 DEF Crash, NoSnapshot, worker
<1>20. ASSUME Start PROVE SkipInv'
  BY <1>20 DEF Start, worker, wire
<1>21. CASE UNCHANGED <<worker, wire, up, restarts, table, snapshot>>
  BY <1>21 DEF worker, wire, table
<1> QED
  BY <1>1, <1>2, <1>3, <1>4, <1>5, <1>6, <1>7, <1>8, <1>9, <1>10, <1>11,
     <1>12, <1>13, <1>14, <1>15, <1>16, <1>17, <1>18, <1>19, <1>20, <1>21,
     LinkStepsRest DEF Next, SlotStep, WorkerStep, vars

(* Nothing of one supervisor reaches the next.                           *)
LEMMA DownKept ==
  ASSUME TableTypes, Phases, Down, [Next]_vars
  PROVE  Down'
<1> USE DEF TableTypes, Phases, Down
<1>1. ASSUME NEW r \in Slots, Reserve(r) PROVE Down'
  BY <1>1 DEF Reserve, table, Set, Current
<1>2. ASSUME NEW r \in Slots, Admitted(r) PROVE Down'
  BY <1>2 DEF Admitted, table, Set, Current
<1>3. ASSUME NEW r \in Slots, ReserveFailed(r) PROVE Down'
  BY <1>3 DEF ReserveFailed, SendRelease, table, Set, Current
<1>4. ASSUME NEW r \in Slots, Dispose(r) PROVE Down'
  BY <1>4 DEF Dispose, SendRelease, table, Set, Current
<1>5. ASSUME NEW r \in Slots, Released(r) PROVE Down'
  BY <1>5 DEF Released, table, Set, Current
<1>6. ASSUME NEW r \in Slots, ReleaseFailed(r) PROVE Down'
  BY <1>6 DEF ReleaseFailed, table, Set, Current
<1>7. ASSUME NEW r \in Slots, ReserveArrives(r) PROVE Down'
  BY <1>7 DEF ReserveArrives, worker, table, Set
<1>8. ASSUME NEW r \in Slots, Refuse(r) PROVE Down'
  BY <1>8 DEF Refuse, Answer, Without, worker, Set, Current
<1>9. ASSUME NEW r \in Slots, AdmitMainRoot(r) PROVE Down'
  BY <1>9 DEF AdmitMainRoot, Answer, Without, worker, Set, Current
<1>10. ASSUME NEW r \in Slots, CheckKnown(r) PROVE Down'
  BY <1>10 DEF CheckKnown, Answer, Without, ReleaseWorkers, worker, Set, Current
<1>11. ASSUME NEW r \in Slots, ReserveDecides(r) PROVE Down'
  BY <1>11 DEF ReserveDecides, Answer, Without, Admissible, worker, Set, Current
<1>12. ASSUME NEW r \in Slots, ReleaseArrives(r) PROVE Down'
  BY <1>12 DEF ReleaseArrives, worker, Set
<1>13. ASSUME NEW w \in Workers, WorkerDies(w) PROVE Down'
  BY <1>13 DEF WorkerDies, table
<1>14. ASSUME NEW w \in Workers, WorkerGone(w) \/ Forget(w) PROVE Down'
  BY <1>14 DEF WorkerGone, Forget, ReleaseWorkers, worker, wire
<1>15. ASSUME NEW w \in Workers, Report(w) PROVE Down'
  BY <1>15 DEF Report, SlotsOf, Reserved, worker, wire, table, Set
<1>16. ASSUME NEW w \in Workers, ProbeFails(w) PROVE Down'
  BY <1>16 DEF ProbeFails, NoSnapshot, worker, wire, table, Set
<1>17. ASSUME NEW w \in Workers, Restore(w) PROVE Down'
  BY <1>17 DEF Restore, SlotsOf, NoSnapshot, worker, wire, Set
<1>18. ASSUME NEW n \in Limits, SetMaxSubagents(n) PROVE Down'
  BY <1>18 DEF SetMaxSubagents, worker, wire
<1>19. ASSUME Crash PROVE Down'
  BY <1>19 DEF Crash, NoSnapshot, worker
<1>20. ASSUME Start PROVE Down'
  BY <1>20 DEF Start, worker, wire
<1>21. CASE UNCHANGED <<worker, wire, up, restarts, table, snapshot>>
  BY <1>21 DEF worker, wire, table
<1> QED
  BY <1>1, <1>2, <1>3, <1>4, <1>5, <1>6, <1>7, <1>8, <1>9, <1>10, <1>11,
     <1>12, <1>13, <1>14, <1>15, <1>16, <1>17, <1>18, <1>19, <1>20, <1>21,
     LinkStepsRest DEF Next, SlotStep, WorkerStep, vars

(* Only a dead worker is forgotten.                                      *)
LEMMA KnownKept ==
  ASSUME TableTypes, LiveKnown, [Next]_vars
  PROVE  LiveKnown'
<1> USE DEF TableTypes, LiveKnown
<1>1. ASSUME NEW r \in Slots, Reserve(r) PROVE LiveKnown'
  BY <1>1 DEF Reserve, table, Set, Current
<1>2. ASSUME NEW r \in Slots, Admitted(r) PROVE LiveKnown'
  BY <1>2 DEF Admitted, table, Set, Current
<1>3. ASSUME NEW r \in Slots, ReserveFailed(r) PROVE LiveKnown'
  BY <1>3 DEF ReserveFailed, SendRelease, table, Set, Current
<1>4. ASSUME NEW r \in Slots, Dispose(r) PROVE LiveKnown'
  BY <1>4 DEF Dispose, SendRelease, table, Set, Current
<1>5. ASSUME NEW r \in Slots, Released(r) PROVE LiveKnown'
  BY <1>5 DEF Released, table, Set, Current
<1>6. ASSUME NEW r \in Slots, ReleaseFailed(r) PROVE LiveKnown'
  BY <1>6 DEF ReleaseFailed, table, Set, Current
<1>7. ASSUME NEW r \in Slots, ReserveArrives(r) PROVE LiveKnown'
  BY <1>7 DEF ReserveArrives, worker, table, Set
<1>8. ASSUME NEW r \in Slots, Refuse(r) PROVE LiveKnown'
  BY <1>8 DEF Refuse, Answer, Without, worker, Set, Current
<1>9. ASSUME NEW r \in Slots, AdmitMainRoot(r) PROVE LiveKnown'
  BY <1>9 DEF AdmitMainRoot, Answer, Without, worker, Set, Current
<1>10. ASSUME NEW r \in Slots, CheckKnown(r) PROVE LiveKnown'
  BY <1>10 DEF CheckKnown, Answer, Without, ReleaseWorkers, worker, Set, Current
<1>11. ASSUME NEW r \in Slots, ReserveDecides(r) PROVE LiveKnown'
  BY <1>11 DEF ReserveDecides, Answer, Without, Admissible, worker, Set, Current
<1>12. ASSUME NEW r \in Slots, ReleaseArrives(r) PROVE LiveKnown'
  BY <1>12 DEF ReleaseArrives, worker, Set
<1>13. ASSUME NEW w \in Workers, WorkerDies(w) PROVE LiveKnown'
  BY <1>13 DEF WorkerDies, table
<1>14. ASSUME NEW w \in Workers, WorkerGone(w) \/ Forget(w) PROVE LiveKnown'
  BY <1>14 DEF WorkerGone, Forget, ReleaseWorkers, worker, wire
<1>15. ASSUME NEW w \in Workers, Report(w) PROVE LiveKnown'
  BY <1>15 DEF Report, SlotsOf, Reserved, worker, wire, table, Set
<1>16. ASSUME NEW w \in Workers, ProbeFails(w) PROVE LiveKnown'
  BY <1>16 DEF ProbeFails, NoSnapshot, worker, wire, table, Set
<1>17. ASSUME NEW w \in Workers, Restore(w) PROVE LiveKnown'
  BY <1>17 DEF Restore, SlotsOf, NoSnapshot, worker, wire, Set
<1>18. ASSUME NEW n \in Limits, SetMaxSubagents(n) PROVE LiveKnown'
  BY <1>18 DEF SetMaxSubagents, worker, wire
<1>19. ASSUME Crash PROVE LiveKnown'
  BY <1>19 DEF Crash, NoSnapshot, worker
<1>20. ASSUME Start PROVE LiveKnown'
  BY <1>20 DEF Start, worker, wire
<1>21. CASE UNCHANGED <<worker, wire, up, restarts, table, snapshot>>
  BY <1>21 DEF worker, wire, table
<1> QED
  BY <1>1, <1>2, <1>3, <1>4, <1>5, <1>6, <1>7, <1>8, <1>9, <1>10, <1>11,
     <1>12, <1>13, <1>14, <1>15, <1>16, <1>17, <1>18, <1>19, <1>20, <1>21,
     LinkStepsRest DEF Next, SlotStep, WorkerStep, vars

(* A report names reservations of its own worker.                        *)
LEMMA SnapKept ==
  ASSUME TableTypes, SnapInv, [Next]_vars
  PROVE  SnapInv'
<1> USE DEF TableTypes, SnapInv, NoSnapshot, SlotsOf
<1>1. ASSUME NEW r \in Slots, Reserve(r) PROVE SnapInv'
  BY <1>1 DEF Reserve, table, Set, Current
<1>2. ASSUME NEW r \in Slots, Admitted(r) PROVE SnapInv'
  BY <1>2 DEF Admitted, table, Set, Current
<1>3. ASSUME NEW r \in Slots, ReserveFailed(r) PROVE SnapInv'
  BY <1>3 DEF ReserveFailed, SendRelease, table, Set, Current
<1>4. ASSUME NEW r \in Slots, Dispose(r) PROVE SnapInv'
  BY <1>4 DEF Dispose, SendRelease, table, Set, Current
<1>5. ASSUME NEW r \in Slots, Released(r) PROVE SnapInv'
  BY <1>5 DEF Released, table, Set, Current
<1>6. ASSUME NEW r \in Slots, ReleaseFailed(r) PROVE SnapInv'
  BY <1>6 DEF ReleaseFailed, table, Set, Current
<1>7. ASSUME NEW r \in Slots, ReserveArrives(r) PROVE SnapInv'
  BY <1>7 DEF ReserveArrives, worker, table, Set
<1>8. ASSUME NEW r \in Slots, Refuse(r) PROVE SnapInv'
  BY <1>8 DEF Refuse, Answer, Without, worker, Set, Current
<1>9. ASSUME NEW r \in Slots, AdmitMainRoot(r) PROVE SnapInv'
  BY <1>9 DEF AdmitMainRoot, Answer, Without, worker, Set, Current
<1>10. ASSUME NEW r \in Slots, CheckKnown(r) PROVE SnapInv'
  BY <1>10 DEF CheckKnown, Answer, Without, ReleaseWorkers, worker, Set, Current
<1>11. ASSUME NEW r \in Slots, ReserveDecides(r) PROVE SnapInv'
  BY <1>11 DEF ReserveDecides, Answer, Without, Admissible, worker, Set, Current
<1>12. ASSUME NEW r \in Slots, ReleaseArrives(r) PROVE SnapInv'
  BY <1>12 DEF ReleaseArrives, worker, Set
<1>13. ASSUME NEW w \in Workers, WorkerDies(w) PROVE SnapInv'
  BY <1>13 DEF WorkerDies, table
<1>14. ASSUME NEW w \in Workers, WorkerGone(w) \/ Forget(w) PROVE SnapInv'
  BY <1>14 DEF WorkerGone, Forget, ReleaseWorkers, worker, wire
<1>15. ASSUME NEW w \in Workers, Report(w) PROVE SnapInv'
  BY <1>15 DEF Report, SlotsOf, Reserved, worker, wire, table, Set
<1>16. ASSUME NEW w \in Workers, ProbeFails(w) PROVE SnapInv'
  BY <1>16 DEF ProbeFails, NoSnapshot, worker, wire, table, Set
<1>17. ASSUME NEW w \in Workers, Restore(w) PROVE SnapInv'
  BY <1>17 DEF Restore, SlotsOf, NoSnapshot, worker, wire, Set
<1>18. ASSUME NEW n \in Limits, SetMaxSubagents(n) PROVE SnapInv'
  BY <1>18 DEF SetMaxSubagents, worker, wire
<1>19. ASSUME Crash PROVE SnapInv'
  BY <1>19 DEF Crash, NoSnapshot, worker
<1>20. ASSUME Start PROVE SnapInv'
  BY <1>20 DEF Start, worker, wire
<1>21. CASE UNCHANGED <<worker, wire, up, restarts, table, snapshot>>
  BY <1>21 DEF worker, wire, table
<1> QED
  BY <1>1, <1>2, <1>3, <1>4, <1>5, <1>6, <1>7, <1>8, <1>9, <1>10, <1>11,
     <1>12, <1>13, <1>14, <1>15, <1>16, <1>17, <1>18, <1>19, <1>20, <1>21,
     LinkStepsRest DEF Next, SlotStep, WorkerStep, vars

(* A family does not close while it is served.                           *)
LEMMA OpenKept ==
  ASSUME TableTypes, Phases, OpenInv, Down, [Next]_vars
  PROVE  OpenInv'
<1> USE DEF TableTypes, Phases, OpenInv, Down, Current
<1>1. ASSUME NEW r \in Slots, Reserve(r) PROVE OpenInv'
  BY <1>1 DEF Reserve, table, Set, Current
<1>2. ASSUME NEW r \in Slots, Admitted(r) PROVE OpenInv'
  BY <1>2 DEF Admitted, table, Set, Current
<1>3. ASSUME NEW r \in Slots, ReserveFailed(r) PROVE OpenInv'
  BY <1>3 DEF ReserveFailed, SendRelease, table, Set, Current
<1>4. ASSUME NEW r \in Slots, Dispose(r) PROVE OpenInv'
  BY <1>4 DEF Dispose, SendRelease, table, Set, Current
<1>5. ASSUME NEW r \in Slots, Released(r) PROVE OpenInv'
  BY <1>5 DEF Released, table, Set, Current
<1>6. ASSUME NEW r \in Slots, ReleaseFailed(r) PROVE OpenInv'
  BY <1>6 DEF ReleaseFailed, table, Set, Current
<1>7. ASSUME NEW r \in Slots, ReserveArrives(r) PROVE OpenInv'
  BY <1>7 DEF ReserveArrives, worker, table, Set
<1>8. ASSUME NEW r \in Slots, Refuse(r) PROVE OpenInv'
  BY <1>8 DEF Refuse, Answer, Without, worker, Set, Current
<1>9. ASSUME NEW r \in Slots, AdmitMainRoot(r) PROVE OpenInv'
  BY <1>9 DEF AdmitMainRoot, Answer, Without, worker, Set, Current
<1>10. ASSUME NEW r \in Slots, CheckKnown(r) PROVE OpenInv'
  BY <1>10 DEF CheckKnown, Answer, Without, ReleaseWorkers, worker, Set, Current
<1>11. ASSUME NEW r \in Slots, ReserveDecides(r) PROVE OpenInv'
  BY <1>11 DEF ReserveDecides, Answer, Without, Admissible, worker, Set, Current
<1>12. ASSUME NEW r \in Slots, ReleaseArrives(r) PROVE OpenInv'
  BY <1>12 DEF ReleaseArrives, worker, Set
<1>13. ASSUME NEW w \in Workers, WorkerDies(w) PROVE OpenInv'
  BY <1>13 DEF WorkerDies, table
<1>14. ASSUME NEW w \in Workers, WorkerGone(w) \/ Forget(w) PROVE OpenInv'
  BY <1>14 DEF WorkerGone, Forget, ReleaseWorkers, worker, wire
<1>15. ASSUME NEW w \in Workers, Report(w) PROVE OpenInv'
  BY <1>15 DEF Report, SlotsOf, Reserved, worker, wire, table, Set
<1>16. ASSUME NEW w \in Workers, ProbeFails(w) PROVE OpenInv'
  BY <1>16 DEF ProbeFails, NoSnapshot, worker, wire, table, Set
<1>17. ASSUME NEW w \in Workers, Restore(w) PROVE OpenInv'
  BY <1>17 DEF Restore, SlotsOf, NoSnapshot, worker, wire, Set
<1>18. ASSUME NEW n \in Limits, SetMaxSubagents(n) PROVE OpenInv'
  BY <1>18 DEF SetMaxSubagents, worker, wire
<1>19. ASSUME Crash PROVE OpenInv'
  BY <1>19 DEF Crash, NoSnapshot, worker
<1>20. ASSUME Start PROVE OpenInv'
  BY <1>20 DEF Start, worker, wire
<1>21. CASE UNCHANGED <<worker, wire, up, restarts, table, snapshot>>
  BY <1>21 DEF worker, wire, table
<1> QED
  BY <1>1, <1>2, <1>3, <1>4, <1>5, <1>6, <1>7, <1>8, <1>9, <1>10, <1>11,
     <1>12, <1>13, <1>14, <1>15, <1>16, <1>17, <1>18, <1>19, <1>20, <1>21,
     LinkStepsRest DEF Next, SlotStep, WorkerStep, vars

(* What is gone does not come back.                                      *)
LEMMA GoneKept ==
  ASSUME TableTypes, Phases, Down, SnapInv, GoneInv, [Next]_vars
  PROVE  GoneInv'
<1> USE DEF TableTypes, Phases, Down, SnapInv, GoneInv, Quiet, Current, SlotsOf, NoSnapshot
<1>1. ASSUME NEW r \in Slots, Reserve(r) PROVE GoneInv'
  BY <1>1 DEF Reserve, table, Set, Current
<1>2. ASSUME NEW r \in Slots, Admitted(r) PROVE GoneInv'
  BY <1>2 DEF Admitted, table, Set, Current
<1>3. ASSUME NEW r \in Slots, ReserveFailed(r) PROVE GoneInv'
  BY <1>3 DEF ReserveFailed, SendRelease, table, Set, Current
<1>4. ASSUME NEW r \in Slots, Dispose(r) PROVE GoneInv'
  BY <1>4 DEF Dispose, SendRelease, table, Set, Current
<1>5. ASSUME NEW r \in Slots, Released(r) PROVE GoneInv'
  BY <1>5 DEF Released, table, Set, Current
<1>6. ASSUME NEW r \in Slots, ReleaseFailed(r) PROVE GoneInv'
  BY <1>6 DEF ReleaseFailed, table, Set, Current
<1>7. ASSUME NEW r \in Slots, ReserveArrives(r) PROVE GoneInv'
  BY <1>7 DEF ReserveArrives, worker, table, Set
<1>8. ASSUME NEW r \in Slots, Refuse(r) PROVE GoneInv'
  BY <1>8 DEF Refuse, Answer, Without, worker, Set, Current
<1>9. ASSUME NEW r \in Slots, AdmitMainRoot(r) PROVE GoneInv'
  BY <1>9 DEF AdmitMainRoot, Answer, Without, worker, Set, Current
<1>10. ASSUME NEW r \in Slots, CheckKnown(r) PROVE GoneInv'
  BY <1>10 DEF CheckKnown, Answer, Without, ReleaseWorkers, worker, Set, Current
<1>11. ASSUME NEW r \in Slots, ReserveDecides(r) PROVE GoneInv'
  BY <1>11 DEF ReserveDecides, Answer, Without, Admissible, worker, Set, Current
<1>12. ASSUME NEW r \in Slots, ReleaseArrives(r) PROVE GoneInv'
  BY <1>12 DEF ReleaseArrives, worker, Set
<1>13. ASSUME NEW w \in Workers, WorkerDies(w) PROVE GoneInv'
  BY <1>13 DEF WorkerDies, table
<1>14. ASSUME NEW w \in Workers, WorkerGone(w) \/ Forget(w) PROVE GoneInv'
  BY <1>14 DEF WorkerGone, Forget, ReleaseWorkers, worker, wire
<1>15. ASSUME NEW w \in Workers, Report(w) PROVE GoneInv'
  BY <1>15 DEF Report, SlotsOf, Reserved, worker, wire, table, Set
<1>16. ASSUME NEW w \in Workers, ProbeFails(w) PROVE GoneInv'
  BY <1>16 DEF ProbeFails, NoSnapshot, worker, wire, table, Set
<1>17. ASSUME NEW w \in Workers, Restore(w) PROVE GoneInv'
  BY <1>17 DEF Restore, SlotsOf, NoSnapshot, worker, wire, Set
<1>18. ASSUME NEW n \in Limits, SetMaxSubagents(n) PROVE GoneInv'
  BY <1>18 DEF SetMaxSubagents, worker, wire
<1>19. ASSUME Crash PROVE GoneInv'
  BY <1>19 DEF Crash, NoSnapshot, worker
<1>20. ASSUME Start PROVE GoneInv'
  BY <1>20 DEF Start, worker, wire
<1>21. CASE UNCHANGED <<worker, wire, up, restarts, table, snapshot>>
  BY <1>21 DEF worker, wire, table
<1> QED
  BY <1>1, <1>2, <1>3, <1>4, <1>5, <1>6, <1>7, <1>8, <1>9, <1>10, <1>11,
     <1>12, <1>13, <1>14, <1>15, <1>16, <1>17, <1>18, <1>19, <1>20, <1>21,
     LinkStepsRest DEF Next, SlotStep, WorkerStep, vars

(* A child is not admitted behind a report.                              *)
LEMMA ReportKept ==
  ASSUME TableTypes, Phases, OpenInv, Down, ReportInv, [Next]_vars
  PROVE  ReportInv'
<1> USE DEF TableTypes, Phases, OpenInv, Down, ReportInv, Current, NoSnapshot, SlotsOf, Reserved
<1>1. ASSUME NEW r \in Slots, Reserve(r) PROVE ReportInv'
  BY <1>1 DEF Reserve, table, Set, Current
<1>2. ASSUME NEW r \in Slots, Admitted(r) PROVE ReportInv'
  BY <1>2 DEF Admitted, table, Set, Current
<1>3. ASSUME NEW r \in Slots, ReserveFailed(r) PROVE ReportInv'
  BY <1>3 DEF ReserveFailed, SendRelease, table, Set, Current
<1>4. ASSUME NEW r \in Slots, Dispose(r) PROVE ReportInv'
  BY <1>4 DEF Dispose, SendRelease, table, Set, Current
<1>5. ASSUME NEW r \in Slots, Released(r) PROVE ReportInv'
  BY <1>5 DEF Released, table, Set, Current
<1>6. ASSUME NEW r \in Slots, ReleaseFailed(r) PROVE ReportInv'
  BY <1>6 DEF ReleaseFailed, table, Set, Current
<1>7. ASSUME NEW r \in Slots, ReserveArrives(r) PROVE ReportInv'
  BY <1>7 DEF ReserveArrives, worker, table, Set
<1>8. ASSUME NEW r \in Slots, Refuse(r) PROVE ReportInv'
  BY <1>8 DEF Refuse, Answer, Without, worker, Set, Current
<1>9. ASSUME NEW r \in Slots, AdmitMainRoot(r) PROVE ReportInv'
  BY <1>9 DEF AdmitMainRoot, Answer, Without, worker, Set, Current
<1>10. ASSUME NEW r \in Slots, CheckKnown(r) PROVE ReportInv'
  BY <1>10 DEF CheckKnown, Answer, Without, ReleaseWorkers, worker, Set, Current
<1>11. ASSUME NEW r \in Slots, ReserveDecides(r) PROVE ReportInv'
  BY <1>11 DEF ReserveDecides, Answer, Without, Admissible, worker, Set, Current
<1>12. ASSUME NEW r \in Slots, ReleaseArrives(r) PROVE ReportInv'
  BY <1>12 DEF ReleaseArrives, worker, Set
<1>13. ASSUME NEW w \in Workers, WorkerDies(w) PROVE ReportInv'
  BY <1>13 DEF WorkerDies, table
<1>14. ASSUME NEW w \in Workers, WorkerGone(w) \/ Forget(w) PROVE ReportInv'
  BY <1>14 DEF WorkerGone, Forget, ReleaseWorkers, worker, wire
<1>15. ASSUME NEW w \in Workers, Report(w) PROVE ReportInv'
  BY <1>15 DEF Report, SlotsOf, Reserved, worker, wire, table, Set
<1>16. ASSUME NEW w \in Workers, ProbeFails(w) PROVE ReportInv'
  BY <1>16 DEF ProbeFails, NoSnapshot, worker, wire, table, Set
<1>17. ASSUME NEW w \in Workers, Restore(w) PROVE ReportInv'
  BY <1>17 DEF Restore, SlotsOf, NoSnapshot, worker, wire, Set
<1>18. ASSUME NEW n \in Limits, SetMaxSubagents(n) PROVE ReportInv'
  BY <1>18 DEF SetMaxSubagents, worker, wire
<1>19. ASSUME Crash PROVE ReportInv'
  BY <1>19 DEF Crash, NoSnapshot, worker
<1>20. ASSUME Start PROVE ReportInv'
  BY <1>20 DEF Start, worker, wire
<1>21. CASE UNCHANGED <<worker, wire, up, restarts, table, snapshot>>
  BY <1>21 DEF worker, wire, table
<1> QED
  BY <1>1, <1>2, <1>3, <1>4, <1>5, <1>6, <1>7, <1>8, <1>9, <1>10, <1>11,
     <1>12, <1>13, <1>14, <1>15, <1>16, <1>17, <1>18, <1>19, <1>20, <1>21,
     LinkStepsRest DEF Next, SlotStep, WorkerStep, vars

(* A resident child stays counted or awaited.                            *)
LEMMA CountedKept ==
  ASSUME TableTypes, Phases, Down, SkipInv, LiveKnown, OpenInv, ReportInv, CountedInv, [Next]_vars
  PROVE  CountedInv'
<1> USE DEF TableTypes, Phases, Down, SkipInv, LiveKnown, OpenInv, ReportInv, CountedInv, Current, SlotsOf
<1>1. ASSUME NEW r \in Slots, Reserve(r) PROVE CountedInv'
  BY <1>1 DEF Reserve, table, Set, Current
<1>2. ASSUME NEW r \in Slots, Admitted(r) PROVE CountedInv'
  BY <1>2 DEF Admitted, table, Set, Current
<1>3. ASSUME NEW r \in Slots, ReserveFailed(r) PROVE CountedInv'
  BY <1>3 DEF ReserveFailed, SendRelease, table, Set, Current
<1>4. ASSUME NEW r \in Slots, Dispose(r) PROVE CountedInv'
  BY <1>4 DEF Dispose, SendRelease, table, Set, Current
<1>5. ASSUME NEW r \in Slots, Released(r) PROVE CountedInv'
  BY <1>5 DEF Released, table, Set, Current
<1>6. ASSUME NEW r \in Slots, ReleaseFailed(r) PROVE CountedInv'
  BY <1>6 DEF ReleaseFailed, table, Set, Current
<1>7. ASSUME NEW r \in Slots, ReserveArrives(r) PROVE CountedInv'
  BY <1>7 DEF ReserveArrives, worker, table, Set
<1>8. ASSUME NEW r \in Slots, Refuse(r) PROVE CountedInv'
  BY <1>8 DEF Refuse, Answer, Without, worker, Set, Current
<1>9. ASSUME NEW r \in Slots, AdmitMainRoot(r) PROVE CountedInv'
  BY <1>9 DEF AdmitMainRoot, Answer, Without, worker, Set, Current
<1>10. ASSUME NEW r \in Slots, CheckKnown(r) PROVE CountedInv'
  BY <1>10 DEF CheckKnown, Answer, Without, ReleaseWorkers, worker, Set, Current
<1>11. ASSUME NEW r \in Slots, ReserveDecides(r) PROVE CountedInv'
  BY <1>11 DEF ReserveDecides, Answer, Without, Admissible, worker, Set, Current
<1>12. ASSUME NEW r \in Slots, ReleaseArrives(r) PROVE CountedInv'
  BY <1>12 DEF ReleaseArrives, worker, Set
<1>13. ASSUME NEW w \in Workers, WorkerDies(w) PROVE CountedInv'
  BY <1>13 DEF WorkerDies, table
<1>14. ASSUME NEW w \in Workers, WorkerGone(w) \/ Forget(w) PROVE CountedInv'
  <2>1. w \notin live /\ ReleaseWorkers({w}) /\ UNCHANGED <<worker, up>>
    BY <1>14 DEF WorkerGone, Forget
  <2> QED BY <2>1 DEF ReleaseWorkers, worker
<1>15. ASSUME NEW w \in Workers, Report(w) PROVE CountedInv'
  BY <1>15 DEF Report, SlotsOf, Reserved, worker, wire, table, Set
<1>16. ASSUME NEW w \in Workers, ProbeFails(w) PROVE CountedInv'
  BY <1>16 DEF ProbeFails, NoSnapshot, worker, wire, table, Set
<1>17. ASSUME NEW w \in Workers, Restore(w) PROVE CountedInv'
  <2> SUFFICES ASSUME up, NEW r \in Slots \ mainRoots, slot[r] = "resident", Current(r),
                      claims'[r] = "none", OwnerOf[r] \notin pending'
               PROVE  FALSE
    BY <1>17 DEF Restore, worker
  <2>1. claims[r] = "none" /\ OwnerOf[r] \in pending
    BY <1>17 DEF Restore
  <2>2. w \in pending /\ OwnerOf[r] = w
    BY <1>17, <2>1 DEF Restore
  <2>3. r \in snapshot[w].slots /\ r \notin skip
    BY <1>17, <2>1, <2>2 DEF Restore
  <2> QED BY <1>17, <2>1, <2>2, <2>3 DEF Restore
<1>18. ASSUME NEW n \in Limits, SetMaxSubagents(n) PROVE CountedInv'
  BY <1>18 DEF SetMaxSubagents, worker, wire
<1>19. ASSUME Crash PROVE CountedInv'
  BY <1>19 DEF Crash, NoSnapshot, worker
<1>20. ASSUME Start PROVE CountedInv'
  BY <1>20 DEF Start, worker, wire
<1>21. CASE UNCHANGED <<worker, wire, up, restarts, table, snapshot>>
  BY <1>21 DEF worker, wire, table
<1> QED
  BY <1>1, <1>2, <1>3, <1>4, <1>5, <1>6, <1>7, <1>8, <1>9, <1>10, <1>11,
     <1>12, <1>13, <1>14, <1>15, <1>16, <1>17, <1>18, <1>19, <1>20, <1>21,
     LinkStepsRest DEF Next, SlotStep, WorkerStep, vars

(* Only the decision about a reserve request grants a claim.                 *)
LEMMA OnlyDecisionsGrant ==
  ASSUME TableTypes, [Next]_vars, NEW x \in Slots, claims[x] # "granted", claims'[x] = "granted"
  PROVE  ReserveDecides(x) /\ Fits(x)
<1> USE DEF TableTypes
<1>1. ASSUME NEW r \in Slots, Reserve(r) PROVE ReserveDecides(x) /\ Fits(x)
  BY <1>1 DEF Reserve, table, Set, Current
<1>2. ASSUME NEW r \in Slots, Admitted(r) PROVE ReserveDecides(x) /\ Fits(x)
  BY <1>2 DEF Admitted, table, Set, Current
<1>3. ASSUME NEW r \in Slots, ReserveFailed(r) PROVE ReserveDecides(x) /\ Fits(x)
  BY <1>3 DEF ReserveFailed, SendRelease, table, Set, Current
<1>4. ASSUME NEW r \in Slots, Dispose(r) PROVE ReserveDecides(x) /\ Fits(x)
  BY <1>4 DEF Dispose, SendRelease, table, Set, Current
<1>5. ASSUME NEW r \in Slots, Released(r) PROVE ReserveDecides(x) /\ Fits(x)
  BY <1>5 DEF Released, table, Set, Current
<1>6. ASSUME NEW r \in Slots, ReleaseFailed(r) PROVE ReserveDecides(x) /\ Fits(x)
  BY <1>6 DEF ReleaseFailed, table, Set, Current
<1>7. ASSUME NEW r \in Slots, ReserveArrives(r) PROVE ReserveDecides(x) /\ Fits(x)
  BY <1>7 DEF ReserveArrives, worker, table, Set
<1>8. ASSUME NEW r \in Slots, Refuse(r) PROVE ReserveDecides(x) /\ Fits(x)
  BY <1>8 DEF Refuse, Answer, Without, worker, Set, Current, table
<1>9. ASSUME NEW r \in Slots, AdmitMainRoot(r) PROVE ReserveDecides(x) /\ Fits(x)
  BY <1>9 DEF AdmitMainRoot, Answer, Without, worker, Set, Current, table
<1>10. ASSUME NEW r \in Slots, CheckKnown(r) PROVE ReserveDecides(x) /\ Fits(x)
  BY <1>10 DEF CheckKnown, Answer, Without, ReleaseWorkers, worker, Set, Current, table
<1>11. ASSUME NEW r \in Slots, ReserveDecides(r) PROVE ReserveDecides(x) /\ Fits(x)
  BY <1>11 DEF ReserveDecides, Answer, Without, Admissible, worker, Set, Current, table
<1>12. ASSUME NEW r \in Slots, ReleaseArrives(r) PROVE ReserveDecides(x) /\ Fits(x)
  BY <1>12 DEF ReleaseArrives, worker, Set, table
<1>13. ASSUME NEW w \in Workers, WorkerDies(w) PROVE ReserveDecides(x) /\ Fits(x)
  BY <1>13 DEF WorkerDies, table
<1>14. ASSUME NEW w \in Workers, WorkerGone(w) \/ Forget(w) PROVE ReserveDecides(x) /\ Fits(x)
  BY <1>14 DEF WorkerGone, Forget, ReleaseWorkers, worker, wire, table
<1>15. ASSUME NEW w \in Workers, Report(w) PROVE ReserveDecides(x) /\ Fits(x)
  BY <1>15 DEF Report, SlotsOf, Reserved, worker, wire, table, Set
<1>16. ASSUME NEW w \in Workers, ProbeFails(w) PROVE ReserveDecides(x) /\ Fits(x)
  BY <1>16 DEF ProbeFails, NoSnapshot, worker, wire, table, Set
<1>17. ASSUME NEW w \in Workers, Restore(w) PROVE ReserveDecides(x) /\ Fits(x)
  BY <1>17 DEF Restore, SlotsOf, NoSnapshot, worker, wire, Set, table
<1>18. ASSUME NEW n \in Limits, SetMaxSubagents(n) PROVE ReserveDecides(x) /\ Fits(x)
  BY <1>18 DEF SetMaxSubagents
<1>19. ASSUME Crash PROVE ReserveDecides(x) /\ Fits(x)
  BY <1>19 DEF Crash
<1>20. ASSUME Start PROVE ReserveDecides(x) /\ Fits(x)
  BY <1>20 DEF Start
<1>21. CASE UNCHANGED <<worker, wire, up, restarts, table, snapshot>>
  BY <1>21 DEF table
<1> QED
  BY <1>1, <1>2, <1>3, <1>4, <1>5, <1>6, <1>7, <1>8, <1>9, <1>10, <1>11,
     <1>12, <1>13, <1>14, <1>15, <1>16, <1>17, <1>18, <1>19, <1>20, <1>21,
     LinkStepsRest DEF Next, SlotStep, WorkerStep, vars

--------------------------------------------------------------------------------
(* The inductive invariant and what follows from it.                         *)
CapacityInv ==
  /\ TypeOK /\ Phases /\ SkipInv /\ Down /\ LiveKnown /\ SnapInv
  /\ OpenInv /\ GoneInv /\ ReportInv /\ CountedInv

(* It holds of a fresh supervisor.                                           *)
LEMMA CapacityInvInit == Init => CapacityInv
<1> SUFFICES ASSUME Init PROVE CapacityInv
  OBVIOUS
<1> USE CapacityConstants DEF Init, NoSnapshot, SlotsOf
<1>1. restarts \in 0 .. MaxRestarts
  OBVIOUS
<1>2. TypeOK
  BY <1>1 DEF TypeOK, TableTypes, LinkTypes
<1>3. Phases /\ SkipInv /\ Down /\ LiveKnown /\ SnapInv
  BY DEF Phases, SkipInv, Down, LiveKnown, SnapInv
<1>4. OpenInv /\ GoneInv /\ ReportInv /\ CountedInv
  BY DEF OpenInv, GoneInv, ReportInv, CountedInv, Quiet
<1> QED BY <1>2, <1>3, <1>4 DEF CapacityInv

(* Every step of the workers, the supervisor and its replacement keeps it.   *)
LEMMA CapacityInvNext == CapacityInv /\ [Next]_vars => CapacityInv'
  BY TypesKept, PhasesKept, SkipKept, DownKept, KnownKept, SnapKept,
     OpenKept, GoneKept, ReportKept, CountedKept DEF CapacityInv, TypeOK

(* It holds in every reachable state.                                        *)
LEMMA CapacityInvariant == Spec => []CapacityInv
  BY CapacityInvInit, CapacityInvNext, PTL DEF Spec

(* The requests, the tables and the reports stay well typed, whatever is     *)
(* lost, late or restarted (handleRlmCapacity, DaemonRlmCapacityClient).     *)
THEOREM CapacityTypes == Spec => []TypeOK
<1>1. CapacityInv => TypeOK
  BY DEF CapacityInv
<1> QED BY <1>1, CapacityInvariant, PTL

(* A claim is a reservation its worker has, and a resident child is counted  *)
(* or its worker awaited: neither a reserve under way, nor a report taken    *)
(* before a release, nor a restart undoes what was acknowledged.             *)
THEOREM ClaimsAreReservations == Spec => []ClaimsMatchReservations
<1>1. CapacityInv => ClaimsMatchReservations
  <2> SUFFICES ASSUME CapacityInv, up PROVE ClaimsMatchReservations
    BY DEF ClaimsMatchReservations
  <2>1. \A r \in Slots : claims[r] # "none" /\ Current(r) => Reserved(r)
    BY DEF CapacityInv, GoneInv, Quiet, Current, Reserved, TypeOK, TableTypes
  <2> QED BY <2>1 DEF CapacityInv, CountedInv, ClaimsMatchReservations
<1> QED BY <1>1, CapacityInvariant, PTL

(* While no live worker is awaited, every resident child has a claim.        *)
LEMMA ResidentsAreClaimed ==
  ASSUME CapacityInv, up, pending \cap live = {}
  PROVE  \A r \in Residents : claims[r] # "none"
  BY DEF CapacityInv, CountedInv, Residents, Current

(* A set within a finite set is not larger.                                  *)
LEMMA OccupiedBoundsResidents ==
  ASSUME CapacityInv, up, pending \cap live = {}, NEW r \in Slots
  PROVE  /\ Cardinality(Residents \ {r}) \in Nat /\ Occupied(r) \in Nat
         /\ Cardinality(Residents \ {r}) <= Occupied(r)
<1> DEFINE C == {x \in Slots \ {r} : claims[x] # "none"}
<1>1. IsFiniteSet(C)
  BY CapacityConstants, FS_Subset
<1>2. Residents \ {r} \subseteq C
  BY ResidentsAreClaimed DEF Residents
<1>3. IsFiniteSet(Residents \ {r})
  BY <1>1, <1>2, FS_Subset
<1>4. Cardinality(Residents \ {r}) <= Cardinality(C)
  BY <1>1, <1>2, FS_Subset
<1> QED BY <1>1, <1>3, <1>4, FS_CardinalityType DEF Occupied

(* A child is admitted only below the maximum, counted over the children     *)
(* that are resident in all live workers, across restarts of the supervisor  *)
(* (DaemonRlmCapacityCoordinator.reserve).                                   *)
THEOREM AdmissionsHoldTheLimit == Spec => LimitHolds
<1>1. ASSUME CapacityInv, [Next]_vars, NEW r \in Slots, claims[r] # "granted", claims'[r] = "granted"
      PROVE  Cardinality(Residents \ {r}) < limit
  <2>1. ReserveDecides(r) /\ Fits(r)
    BY <1>1, OnlyDecisionsGrant DEF CapacityInv, TypeOK
  <2>2. up /\ pending \cap live = {}
    BY <1>1, <2>1 DEF ReserveDecides, CapacityInv, OpenInv
  <2>3. Occupied(r) < limit
    BY <1>1, <2>1 DEF Fits
  <2>4. limit \in Nat
    BY <1>1, CapacityConstants DEF CapacityInv, TypeOK, TableTypes
  <2>5. /\ Cardinality(Residents \ {r}) \in Nat /\ Occupied(r) \in Nat
        /\ Cardinality(Residents \ {r}) <= Occupied(r)
    BY <1>1, <2>2, OccupiedBoundsResidents
  <2> QED BY <2>3, <2>4, <2>5
<1>2. CapacityInv /\ [Next]_vars =>
        [\A r \in Slots :
           claims[r] # "granted" /\ claims'[r] = "granted" => Cardinality(Residents \ {r}) < limit]_vars
  BY <1>1
<1> QED BY <1>2, CapacityInvariant, PTL DEF Spec, LimitHolds
================================================================================
