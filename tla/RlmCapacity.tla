------------------------------ MODULE RlmCapacity ------------------------------
(***************************************************************************)
(* How many subagents of one root family may be resident at once.  Each    *)
(* worker holds reservations (DaemonRlmCapacityClient); the supervisor     *)
(* counts claims (DaemonRlmCapacityCoordinator) and answers reserve and    *)
(* release requests.  The supervisor keeps the claims in memory only: a    *)
(* replacement asks every worker it adopts for its reservations before it  *)
(* admits anyone to that family again.                                     *)
(*                                                                         *)
(* A request that is not answered in time has failed for the worker, while *)
(* the supervisor may still serve it.  Requests and replies are one        *)
(* message each way; both ends use one connection per request.  The        *)
(* release of a reservation is sent on a later connection than its         *)
(* reserve, after a fresh hello, so it is handled after it.                *)
(***************************************************************************)
EXTENDS Naturals, FiniteSets

CONSTANTS
    Workers,       \* worker processes, each with one instance id
    Slots,         \* reservation ids
    OwnerOf,       \* reservation -> the worker that makes it
    MainRoots,     \* reservations that may be a main root session's, which count nothing
    Limits,        \* values of the configured maximum
    MaxRestarts,   \* bound: replacements of the supervisor
    MaxFailures,   \* failed attempts to reach a worker after which it is parked
    Unreliable     \* bound: workers the supervisor may fail to reach while they run

ASSUME CapacityConstants ==
    /\ IsFiniteSet(Slots) /\ OwnerOf \in [Slots -> Workers]
    /\ MainRoots \subseteq Slots
    /\ Limits \subseteq Nat /\ Limits # {}
    /\ MaxRestarts \in Nat /\ MaxFailures \in Nat \ {0}
    /\ Unreliable \subseteq Workers

VARIABLES
    live,        \* workers whose process runs
    mainRoots,   \* the reservations that are a main root's
    slot,        \* reservation -> its state in the worker
    reserveReq,  \* reservation -> its reserve request: on the wire, at the supervisor, or its reply
    releaseReq,  \* reservation -> its release request, likewise
    up,          \* a supervisor serves
    restarts,    \* replacements so far
    known,       \* workers with a descriptor
    claims,      \* reservation -> "none", "granted" or "restored" (CapacityClaim)
    limit,       \* the family's maximum
    pending,     \* pendingRlmCapacity: adopted workers whose claims are not known yet
    skip,        \* releasedDuringCapacityRecovery
    overtaken,   \* admissions under way that a release marked
    snapshot,    \* worker -> the reservations it reported, while they are being restored
    link,        \* worker -> the supervisor's connection to it
    failures     \* worker -> failed attempts of this recovery

worker == <<live, mainRoots, slot>>
wire == <<reserveReq, releaseReq>>
table == <<known, claims, limit, pending, skip, overtaken>>
links == <<link, failures>>
vars == <<worker, wire, up, restarts, table, snapshot, links>>

NoSnapshot == [taken |-> FALSE, slots |-> {}]
SlotsOf(w) == {r \in Slots : OwnerOf[r] = w}

\* The records of DaemonRlmCapacityClient.reservations.
Reserved(r) ==
    /\ OwnerOf[r] \in live
    /\ slot[r] \in {"reserving", "resident", "releasing", "leaked"}

TableTypes ==
    /\ live \subseteq Workers /\ known \subseteq Workers /\ mainRoots \subseteq MainRoots
    /\ slot \in [Slots -> {"new", "reserving", "resident", "releasing", "freed", "leaked"}]
    /\ reserveReq \in [Slots -> {"none", "sent", "resolving", "checked", "granted", "refused"}]
    /\ releaseReq \in [Slots -> {"none", "sent", "done"}]
    /\ up \in BOOLEAN /\ restarts \in 0 .. MaxRestarts
    /\ claims \in [Slots -> {"none", "granted", "restored"}]
    /\ limit \in Limits
    /\ pending \subseteq known
    /\ skip \subseteq {r \in Slots : OwnerOf[r] \in pending}
    /\ overtaken \subseteq {r \in Slots : reserveReq[r] \in {"resolving", "checked"}}
    /\ snapshot \in [Workers -> [taken : BOOLEAN, slots : SUBSET Slots]]

LinkTypes ==
    /\ link \in [Workers -> {"connected", "recovering", "probing", "parked", "gone"}]
    /\ failures \in [Workers -> 0 .. MaxFailures - 1]

TypeOK == TableTypes /\ LinkTypes

Init ==
    /\ live = Workers /\ known = Workers
    /\ mainRoots \in SUBSET MainRoots
    /\ slot = [r \in Slots |-> "new"]
    /\ reserveReq = [r \in Slots |-> "none"]
    /\ releaseReq = [r \in Slots |-> "none"]
    /\ up = TRUE /\ restarts = 0
    /\ claims = [r \in Slots |-> "none"]
    /\ limit \in Limits
    /\ pending = {} /\ skip = {} /\ overtaken = {}
    /\ snapshot = [w \in Workers |-> NoSnapshot]
    /\ link = [w \in Workers |-> "connected"] /\ failures = [w \in Workers |-> 0]

Set(f, x, v) == [f EXCEPT ![x] = v]
Reachable(w) == w \in live \ Unreliable
Link(w, state, n) == link' = Set(link, w, state) /\ failures' = Set(failures, w, n)
Current(r) == OwnerOf[r] \in live

--------------------------------------------------------------------------------
(* The worker.                                                               *)

Reserve(r) ==
    /\ slot[r] = "new" /\ Current(r)
    /\ slot' = Set(slot, r, "reserving")
    /\ reserveReq' = IF up THEN Set(reserveReq, r, "sent") ELSE reserveReq
    /\ UNCHANGED <<live, mainRoots, releaseReq, up, restarts, table, snapshot, links>>

\* release(): a request of its own, which may not even reach the supervisor.
SendRelease(r) == releaseReq' = IF up THEN Set(releaseReq, r, "sent") ELSE releaseReq

Admitted(r) ==
    /\ slot[r] = "reserving" /\ Current(r) /\ reserveReq[r] = "granted"
    /\ slot' = Set(slot, r, "resident")
    /\ reserveReq' = Set(reserveReq, r, "none")
    /\ UNCHANGED <<live, mainRoots, releaseReq, up, restarts, table, snapshot, links>>

\* A refusal, a lost connection and a timeout all make reserve() release the same
\* id; after a lost connection the request may still be at the supervisor.
ReserveFailed(r) ==
    /\ slot[r] = "reserving" /\ Current(r)
    /\ slot' = Set(slot, r, "releasing")
    /\ reserveReq' = IF reserveReq[r] \in {"granted", "refused"}
                     THEN Set(reserveReq, r, "none") ELSE reserveReq
    /\ SendRelease(r)
    /\ UNCHANGED <<live, mainRoots, up, restarts, table, snapshot, links>>

\* The child is disposed or passivated.
Dispose(r) ==
    /\ slot[r] = "resident" /\ Current(r)
    /\ slot' = Set(slot, r, "releasing")
    /\ SendRelease(r)
    /\ UNCHANGED <<live, mainRoots, reserveReq, up, restarts, table, snapshot, links>>

Released(r) ==
    /\ slot[r] = "releasing" /\ Current(r) /\ releaseReq[r] = "done"
    /\ slot' = Set(slot, r, "freed")
    /\ releaseReq' = Set(releaseReq, r, "none")
    /\ UNCHANGED <<live, mainRoots, reserveReq, up, restarts, table, snapshot, links>>

\* Nobody calls release again: the child's session keeps the rejected promise and
\* a failed admission has no reservation to give back.  The record stays.
ReleaseFailed(r) ==
    /\ slot[r] = "releasing" /\ Current(r)
    /\ slot' = Set(slot, r, "leaked")
    /\ releaseReq' = IF releaseReq[r] = "done" THEN Set(releaseReq, r, "none") ELSE releaseReq
    /\ UNCHANGED <<live, mainRoots, reserveReq, up, restarts, table, snapshot, links>>

\* Its records go with it, and nobody reads the replies; a request the supervisor
\* has not read yet will fail its authentication.
WorkerDies(w) ==
    /\ w \in live
    /\ live' = live \ {w}
    /\ slot' = [r \in Slots |-> IF OwnerOf[r] = w THEN "freed" ELSE slot[r]]
    /\ reserveReq' = [r \in Slots |-> IF OwnerOf[r] = w /\ reserveReq[r] \notin {"resolving", "checked"}
                                      THEN "none" ELSE reserveReq[r]]
    /\ releaseReq' = [r \in Slots |-> IF OwnerOf[r] = w THEN "none" ELSE releaseReq[r]]
    /\ UNCHANGED <<mainRoots, up, restarts, table, snapshot, links>>

--------------------------------------------------------------------------------
(* The supervisor: handleRlmCapacity.                                        *)

\* A reply whose caller has gone is dropped.
Answer(r, reply) ==
    reserveReq' = Set(reserveReq, r, IF slot[r] = "reserving" /\ Current(r) THEN reply ELSE "none")

\* The admission is registered before the first await.
ReserveArrives(r) ==
    /\ up /\ reserveReq[r] = "sent"
    /\ reserveReq' = Set(reserveReq, r, "resolving")
    /\ UNCHANGED <<worker, releaseReq, up, restarts, table, snapshot, links>>

Without(r) == overtaken' = overtaken \ {r}

\* Ownership is lost, the daemon shuts down or restarts, the worker is stopping.
Refuse(r) ==
    /\ up /\ reserveReq[r] \in {"resolving", "checked"}
    /\ Answer(r, "refused")
    /\ Without(r)
    /\ UNCHANGED <<worker, releaseReq, up, restarts, known, claims, limit, pending, skip, snapshot, links>>

AdmitMainRoot(r) ==
    /\ up /\ reserveReq[r] = "resolving" /\ r \in mainRoots
    /\ Answer(r, "granted")
    /\ Without(r)
    /\ UNCHANGED <<worker, releaseReq, up, restarts, known, claims, limit, pending, skip, snapshot, links>>

(* Mutant of ReleaseWorkers: a worker that has gone stays awaited. *)
ReleaseWorkersAwaited(W) ==
    /\ claims' = [x \in Slots |-> IF OwnerOf[x] \in W THEN "none" ELSE claims[x]]
    /\ pending' = pending
    /\ skip' = {x \in skip : OwnerOf[x] \notin W}


\* releaseWorkerRlmCapacity
ReleaseWorkers(W) ==
    /\ claims' = [x \in Slots |-> IF OwnerOf[x] \in W THEN "none" ELSE claims[x]]
    /\ pending' = pending \ W
    /\ skip' = {x \in skip : OwnerOf[x] \notin W}

\* assertRlmCapacityKnown: dead workers are dropped, a live one that has not
\* reported closes the family.
CheckKnown(r) ==
    /\ up /\ reserveReq[r] = "resolving" /\ r \notin mainRoots
    /\ ReleaseWorkers(pending \ live)
    /\ IF pending \cap live = {}
       THEN reserveReq' = Set(reserveReq, r, "checked") /\ UNCHANGED overtaken
       ELSE Answer(r, "refused") /\ Without(r)
    /\ UNCHANGED <<worker, releaseReq, up, restarts, known, limit, snapshot, links>>

Occupied(r) == Cardinality({x \in Slots \ {r} : claims[x] # "none"})

(* Mutant of Admissible: a release that overtook the admission is not noticed. *)
AdmissibleOvertaken(r) == Current(r) /\ OwnerOf[r] \in known

\* DaemonRlmCapacityCoordinator.reserve, when nothing changed meanwhile.
Admissible(r) == Current(r) /\ OwnerOf[r] \in known /\ r \notin overtaken
Fits(r) == claims[r] = "granted" \/ Occupied(r) < limit

ReserveDecides(r) ==
    /\ up /\ reserveReq[r] = "checked"
    /\ IF Admissible(r) /\ Fits(r)
       THEN Answer(r, "granted") /\ claims' = Set(claims, r, "granted")
       ELSE Answer(r, "refused") /\ UNCHANGED claims
    /\ Without(r)
    /\ UNCHANGED <<worker, releaseReq, up, restarts, known, limit, pending, skip, snapshot, links>>

\* A release marks the admission it overtakes, drops the claim, and is remembered
\* while the worker's own report may still name the reservation.
ReleaseArrives(r) ==
    /\ up /\ releaseReq[r] = "sent" /\ reserveReq[r] # "sent"
    /\ overtaken' = IF reserveReq[r] \in {"resolving", "checked"} THEN overtaken \cup {r} ELSE overtaken
    /\ claims' = Set(claims, r, "none")
    /\ skip' = IF OwnerOf[r] \in pending THEN skip \cup {r} ELSE skip
    /\ releaseReq' = Set(releaseReq, r, IF slot[r] = "releasing" THEN "done" ELSE "none")
    /\ UNCHANGED <<worker, reserveReq, up, restarts, known, limit, pending, snapshot, links>>

\* op "set": a lower maximum stops nobody that is resident.
SetMaxSubagents(n) ==
    /\ up /\ n # limit
    /\ limit' = n
    /\ UNCHANGED <<worker, wire, up, restarts, known, claims, pending, skip, overtaken, snapshot, links>>

\* stopWorker, or the reclaim of a dead worker's session by a client's create.
Forget(w) ==
    /\ up /\ w \in known \ live
    /\ ReleaseWorkers({w})
    /\ known' = known \ {w}
    /\ Link(w, "gone", 0)
    /\ UNCHANGED <<worker, wire, up, restarts, limit, overtaken, snapshot>>

--------------------------------------------------------------------------------
(* A replacement supervisor: start and restoreWorkerRlmCapacity.             *)

\* Everything in memory is gone, and so are the requests.  A reply that was
\* already written is read before the crash or not at all: the worker reads it,
\* or sees the connection close, before it has a new supervisor to report to.
Crash ==
    /\ up /\ restarts < MaxRestarts
    /\ up' = FALSE
    /\ restarts' = restarts + 1
    /\ reserveReq' = [r \in Slots |-> "none"]
    /\ releaseReq' = [r \in Slots |-> "none"]
    /\ claims' = [r \in Slots |-> "none"]
    /\ pending' = {} /\ skip' = {} /\ overtaken' = {}
    /\ snapshot' = [w \in Workers |-> NoSnapshot]
    /\ link' = [w \in Workers |-> "recovering"] /\ failures' = [w \in Workers |-> 0]
    /\ UNCHANGED <<worker, known, limit>>

(* Mutant of Start: the claims of the adopted workers are not awaited. *)
StartOpen ==
    /\ ~up
    /\ up' = TRUE
    /\ pending' = {}
    /\ UNCHANGED <<worker, wire, restarts, known, claims, limit, skip, overtaken, snapshot, links>>

\* Every worker with a descriptor is adopted: its claims are awaited, its
\* connection is made anew.
Start ==
    /\ ~up
    /\ up' = TRUE
    /\ pending' = known
    /\ UNCHANGED <<worker, wire, restarts, known, claims, limit, skip, overtaken, snapshot, links>>

--------------------------------------------------------------------------------
(* The supervisor's connection to a worker: adoptOrRecoverWorker,            *)
(* recoverWorker, connectWorker.                                             *)

\* handleWorkerClose
Disconnect(w) ==
    /\ up /\ link[w] = "connected" /\ ~Reachable(w)
    /\ Link(w, "recovering", 0)
    /\ UNCHANGED <<worker, wire, up, restarts, table, snapshot>>

\* An attempt begins with the process's identity: one that runs is connected to.
Probe(w) ==
    /\ up /\ link[w] = "recovering" /\ w \in live
    /\ Link(w, "probing", failures[w])
    /\ UNCHANGED <<worker, wire, up, restarts, table, snapshot>>

\* One that is gone gives up its slots and waits for a client.  (If its client is
\* connected, a fresh process is launched instead: another worker.)
WorkerGone(w) ==
    /\ up /\ link[w] = "recovering" /\ w \in known \ live
    /\ ReleaseWorkers({w})
    /\ Link(w, "gone", 0)
    /\ UNCHANGED <<worker, wire, up, restarts, known, limit, overtaken, snapshot>>

\* The worker answers worker_get_rlm_capacity with what it has now.
Report(w) ==
    /\ up /\ link[w] = "probing" /\ w \in pending \cap live /\ ~snapshot[w].taken
    /\ snapshot' = Set(snapshot, w, [taken |-> TRUE, slots |-> {r \in SlotsOf(w) : Reserved(r)}])
    /\ UNCHANGED <<worker, wire, up, restarts, table, links>>

\* The families of the reported reservations are resolved meanwhile.
Restore(w) ==
    /\ up /\ snapshot[w].taken
    /\ snapshot' = Set(snapshot, w, NoSnapshot)
    /\ IF w \in pending
       THEN /\ claims' = [r \in Slots |->
                            IF r \in (snapshot[w].slots \ mainRoots) \ skip /\ claims[r] = "none"
                            THEN "restored" ELSE claims[r]]
            /\ pending' = pending \ {w}
            /\ skip' = skip \ SlotsOf(w)
       ELSE UNCHANGED <<claims, pending, skip>>
    /\ UNCHANGED <<worker, wire, up, restarts, known, limit, overtaken, links>>

\* The subscription and the summaries arrived as well: the worker is ready.
Adopted(w) ==
    /\ up /\ link[w] = "probing" /\ w \in live \ pending
    /\ Link(w, "connected", 0)
    /\ UNCHANGED <<worker, wire, up, restarts, table, snapshot>>

\* The connection was refused or closed, or an answer was late: another attempt,
\* until deferWorkerRecovery (a silent worker) or recoverWorker (a failing one)
\* parks it, though its process may run.
ProbeFails(w) ==
    /\ up /\ link[w] = "probing" /\ ~Reachable(w)
    /\ snapshot' = Set(snapshot, w, NoSnapshot)
    /\ IF failures[w] + 1 < MaxFailures
       THEN Link(w, "recovering", failures[w] + 1) ELSE Link(w, "parked", 0)
    /\ UNCHANGED <<worker, wire, up, restarts, table>>

\* parkIncompatibleWorker: such a worker never reports to this supervisor.  (The
\* code refuses its requests too; here they are refused or late like any other.)
ParkIncompatible(w) ==
    /\ up /\ link[w] = "probing" /\ w \in pending \cap Unreliable /\ ~snapshot[w].taken
    /\ Link(w, "parked", 0)
    /\ UNCHANGED <<worker, wire, up, restarts, table, snapshot>>

\* retry_worker: only a client has a parked worker looked at again.
Retry(w) ==
    /\ up /\ w \in known /\ link[w] = "parked"
    /\ Link(w, "recovering", 0)
    /\ UNCHANGED <<worker, wire, up, restarts, table, snapshot>>

SlotStep(r) ==
    \/ Reserve(r) \/ Admitted(r) \/ ReserveFailed(r)
    \/ Dispose(r) \/ Released(r) \/ ReleaseFailed(r)
    \/ ReserveArrives(r) \/ Refuse(r) \/ AdmitMainRoot(r) \/ CheckKnown(r) \/ ReserveDecides(r)
    \/ ReleaseArrives(r)

LinkStep(w) == Disconnect(w) \/ Probe(w) \/ Adopted(w) \/ ParkIncompatible(w) \/ Retry(w)

WorkerStep(w) ==
    \/ WorkerDies(w) \/ Forget(w) \/ WorkerGone(w)
    \/ Report(w) \/ Restore(w) \/ ProbeFails(w) \/ LinkStep(w)

Next ==
    \/ \E r \in Slots : SlotStep(r)
    \/ \E w \in Workers : WorkerStep(w)
    \/ \E n \in Limits : SetMaxSubagents(n)
    \/ Crash \/ Start

(***************************************************************************)
(* A worker that lost its supervisor launches another; without workers     *)
(* nobody does.  The supervisor sees the connection of a dead worker close *)
(* and goes on with a recovery it has begun, which may fail every time:    *)
(* each attempt ends, and so do the attempts.  Nothing is assumed of the   *)
(* workers' own calls, nor of clients: a worker that was parked stays so.  *)
(* (Subscripts name what the steps change; all of vars says the same.)     *)
(***************************************************************************)
Recovery(w) ==
    \/ w \notin live /\ Disconnect(w)
    \/ Probe(w) \/ WorkerGone(w) \/ Report(w) \/ Restore(w) \/ Adopted(w) \/ ProbeFails(w)

Fairness ==
    /\ WF_up(live # {} /\ Start)
    /\ \A w \in Workers : WF_<<links, snapshot>>(Recovery(w))

Spec == Init /\ [][Next]_vars /\ Fairness

--------------------------------------------------------------------------------
(* Properties.                                                               *)

\* A claim is a reservation its worker still has: once a release is acknowledged
\* no reserve under way, no report taken earlier and no restart brings the claim
\* back.  And a resident child is counted, or its worker is one the supervisor
\* still waits for.
ClaimsMatchReservations ==
    up => /\ \A r \in Slots : claims[r] # "none" /\ Current(r) => Reserved(r)
          /\ \A r \in Slots \ mainRoots :
                slot[r] = "resident" /\ Current(r) => claims[r] # "none" \/ OwnerOf[r] \in pending

\* A child is admitted only while fewer children than the maximum are resident in
\* the family, over all live workers and across restarts of the supervisor.
Residents == {r \in Slots \ mainRoots : slot[r] = "resident" /\ Current(r)}
LimitHolds ==
    [][\A r \in Slots :
        claims[r] # "granted" /\ claims'[r] = "granted" => Cardinality(Residents \ {r}) < limit]_vars


\* The slots of workers that died come back and no family waits for them, but for
\* a worker the supervisor had given up while its process still ran: it is not
\* looked at again before a client asks.
Holds(w) == w \in pending \/ \E r \in SlotsOf(w) : claims[r] # "none"
================================================================================
