-------------------------- MODULE SupervisorOwnership --------------------------
(***************************************************************************)
(* Who may run the daemon of one socket: the registry of supervisor        *)
(* owners, the shutdown admission and the startup fence of                 *)
(* daemon-supervisor-ownership.ts, as their processes see them:            *)
(* supervisors starting, serving and quitting, and the commands that stop  *)
(* them ("shutdown", and the coordinator of an update restart).            *)
(*                                                                         *)
(* All of them share a directory and serialise on one guard, a lock        *)
(* directory that a competitor takes over when its holder died or let it   *)
(* go stale for five seconds.  The guarded work is synchronous file I/O    *)
(* and cannot notice the take-over while it is stalled: it is modelled in  *)
(* three steps, "in" (guard just taken), "mid" (files read) and "out"      *)
(* (files written), and the check that follows it decides what the caller  *)
(* is told, not what is on disk.                                           *)
(*                                                                         *)
(* Assumed of the file system and of proper-lockfile (external): the guard *)
(* directory of a take-over is told apart from the one it replaces, so     *)
(* "the guard changed hands" is guard # t; taking the guard and noting its *)
(* identity is one step; so are checking it at the end and removing it.    *)
(***************************************************************************)
EXTENDS Naturals, FiniteSets

CONSTANTS
    Supervisors,   \* daemon processes of one socket, each with its generation
    Stoppers,      \* processes of "shutdown" and of update restart coordinators
    MaxFaults,     \* bound: stalls that cost a guard, crashes, leases run out
    Nobody         \* no admission, no target

ASSUME OwnershipConstants ==
    /\ Supervisors \cap Stoppers = {}
    /\ Nobody \notin Supervisors \cup Stoppers
    /\ MaxFaults \in Nat

Procs == Supervisors \cup Stoppers

\* A process runs its main flow; a holder of the admission also renews it.
Threads == (Procs \X {"main"}) \cup (Stoppers \X {"renew"})
NoThread == <<>>
NoFence == <<>>
NoAdmission == <<>>

VARIABLES
    pc,         \* process -> where its main flow is, or "dead"
    step,       \* thread -> stage of the guarded action it is in
    seen,       \* thread -> what the guarded action read
    guard,      \* thread whose guard directory is on disk
    dirs,       \* supervisors whose owner directory is in the registry
    admission,  \* shutdown admission on disk: <<owner, lease has not run out>>
    fence,      \* startup fence on disk: <<predecessor, coordinator>>
    fenceSeen,  \* process -> the fence of a dead process it wants cleared
    target,     \* stopper -> the supervisor it is connected to
    lost,       \* stopper -> RenewableRegistryRecord.lost
    faults,     \* stalls, crashes and expiries so far
    stolen,     \* a guard was taken from a holder that was alive
    started,    \* history: a supervisor acquired ownership since the admission
    shaken      \* history: a renewal ended with a compromised guard

files == <<dirs, admission, fence>>
flow == <<fenceSeen, target>>
env == <<faults, stolen>>
history == <<started, shaken>>
vars == <<pc, step, seen, guard, files, flow, lost, env, history>>

SupervisorFlow == {"fence", "clear", "acquire", "owner", "failed", "release", "released", "dead"}
StopperFlow == {"new", "admit", "held", "persist", "check", "fence", "clear",
                "recheck", "stopping", "withdraw", "done", "refused", "dead"}

TypeOK ==
    /\ pc \in [Procs -> SupervisorFlow \cup StopperFlow]
    /\ \A s \in Supervisors : pc[s] \in SupervisorFlow
    /\ \A k \in Stoppers : pc[k] \in StopperFlow
    /\ step \in [Threads -> {"idle", "wait", "in", "mid", "out"}]
    /\ seen \in [Threads -> {"none", "go", "no", "gone"}]
    /\ guard \in Threads \cup {NoThread}
    /\ dirs \subseteq Supervisors
    /\ admission \in (Stoppers \X BOOLEAN) \cup {NoAdmission}
    /\ fence \in (Supervisors \X Stoppers) \cup {NoFence}
    /\ fenceSeen \in [Procs -> (Supervisors \X Stoppers) \cup {NoFence}]
    /\ target \in [Stoppers -> Supervisors \cup {Nobody}]
    /\ lost \in [Stoppers -> BOOLEAN]
    /\ faults \in 0 .. MaxFaults /\ stolen \in BOOLEAN
    /\ started \in [Stoppers -> BOOLEAN] /\ shaken \in [Stoppers -> BOOLEAN]

Init ==
    /\ pc = [p \in Procs |-> IF p \in Supervisors THEN "fence" ELSE "new"]
    /\ step = [t \in Threads |-> "idle"]
    /\ seen = [t \in Threads |-> "none"]
    /\ guard = NoThread
    /\ dirs = {} /\ admission = NoAdmission /\ fence = NoFence
    /\ fenceSeen = [p \in Procs |-> NoFence]
    /\ target = [k \in Stoppers |-> Nobody]
    /\ lost = [k \in Stoppers |-> FALSE]
    /\ faults = 0 /\ stolen = FALSE
    /\ started = [k \in Stoppers |-> FALSE] /\ shaken = [k \in Stoppers |-> FALSE]

--------------------------------------------------------------------------------
(* The guard.                                                                *)

\* isProcessIdentityAlive: the process of that pid and start time runs.
Alive(p) == pc[p] # "dead"

Main(p) == <<p, "main">>
Renew(k) == <<k, "renew">>
Inside(t) == step[t] \in {"in", "mid", "out"}

\* A process inside its guarded action is in one synchronous stretch of code.
Awake(p) == Alive(p) /\ \A t \in Threads : t[1] = p => ~Inside(t)

Fault == faults < MaxFaults /\ faults' = faults + 1

\* lockfile.lock: the directory is made when there is none, and taken over when
\* its holder is dead or has not touched it for REGISTRY_LOCK_STALE_MS.
Lock(t) ==
    /\ step[t] = "wait" /\ Awake(t[1])
    /\ \/ guard = NoThread /\ UNCHANGED env
       \/ /\ guard # NoThread /\ ~Alive(guard[1])
          /\ UNCHANGED env
       \/ /\ guard # NoThread /\ Alive(guard[1]) /\ guard[1] # t[1]
          /\ Fault /\ stolen' = TRUE
    /\ guard' = t
    /\ step' = [step EXCEPT ![t] = "in"]
    /\ UNCHANGED <<pc, seen, files, flow, lost, history>>

At(t, stage) == step[t] = stage /\ Alive(t[1])

\* The action reads and refuses, or goes on to write.
Read(t, what) ==
    /\ step' = [step EXCEPT ![t] = "mid"]
    /\ seen' = [seen EXCEPT ![t] = what]

Write(t) ==
    /\ At(t, "mid") /\ seen[t] = "go"
    /\ step' = [step EXCEPT ![t] = "out"]
    /\ UNCHANGED seen

Over(t) == At(t, "out") \/ (At(t, "mid") /\ seen[t] # "go")

\* assertGuardHeld after the action; a guard that changed hands is not removed.
(* Mutant of Held: the check after the action is dropped. *)
HeldUnchecked(t) == t \in Threads
Held(t) == guard = t
Done(t, next) ==
    /\ guard' = IF guard = t THEN NoThread ELSE guard
    /\ step' = [step EXCEPT ![t] = next]
    /\ seen' = [seen EXCEPT ![t] = "none"]

\* The main flow goes on, or calls a guarded action.
Goto(p, where) == pc' = [pc EXCEPT ![p] = where]
Call(p, where) == Goto(p, where) /\ step' = [step EXCEPT ![Main(p)] = "wait"]

--------------------------------------------------------------------------------
(* The startup fence: supervisors wait for it before they acquire, the      *)
(* coordinator before it lets a successor start.                             *)

(* Mutant of AfterFence: every waiter goes on as a supervisor does. *)
AfterFenceAcquire(p) == IF p \in Procs THEN "acquire" ELSE "recheck"

AfterFence(p) == IF p \in Supervisors THEN "acquire" ELSE "recheck"
GiveUp(p) == IF p \in Supervisors THEN "failed" ELSE "stopping"

\* waitForDaemonStartupFence, one poll; a live predecessor times the wait out.
PollFence(p) ==
    /\ pc[p] = "fence" /\ Awake(p)
    /\ \/ /\ fence = NoFence
          /\ IF p \in Supervisors THEN Call(p, "acquire")
             ELSE Goto(p, "recheck") /\ UNCHANGED step
          /\ UNCHANGED fenceSeen
       \/ /\ fence # NoFence /\ ~Alive(fence[1])
          /\ Call(p, "clear")
          /\ fenceSeen' = [fenceSeen EXCEPT ![p] = fence]
       \/ /\ fence # NoFence /\ Alive(fence[1])
          /\ Goto(p, GiveUp(p))
          /\ UNCHANGED <<step, fenceSeen>>
    /\ UNCHANGED <<seen, guard, files, target, lost, env, history>>

ClearRead(p) ==
    /\ pc[p] = "clear" /\ At(Main(p), "in")
    /\ Read(Main(p), IF fence = NoFence THEN "gone"
                     ELSE IF fence = fenceSeen[p] THEN "go" ELSE "no")
    /\ UNCHANGED <<pc, guard, files, flow, lost, env, history>>

ClearWrite(p) ==
    /\ pc[p] = "clear" /\ Write(Main(p))
    /\ fence' = NoFence
    /\ UNCHANGED <<pc, guard, dirs, admission, flow, lost, env, history>>

ClearEnd(p) ==
    LET t == Main(p)
        cleared == Held(t) /\ seen[t] \in {"go", "gone"}
    IN /\ pc[p] = "clear" /\ Over(t)
       /\ Done(t, IF cleared /\ p \in Supervisors THEN "wait" ELSE "idle")
       /\ Goto(p, IF cleared THEN AfterFence(p) ELSE IF Held(t) THEN "fence" ELSE GiveUp(p))
       /\ fenceSeen' = [fenceSeen EXCEPT ![p] = NoFence]
       /\ UNCHANGED <<files, target, lost, env, history>>

\* persistDaemonStartupFenceFromOwner: the only owner on disk must be the live
\* supervisor whose hello the coordinator holds.
PersistRead(k) ==
    /\ pc[k] = "persist" /\ At(Main(k), "in")
    /\ Read(Main(k), IF dirs = {target[k]} /\ Alive(target[k]) THEN "go" ELSE "no")
    /\ UNCHANGED <<pc, guard, files, flow, lost, env, history>>

PersistWrite(k) ==
    /\ pc[k] = "persist" /\ Write(Main(k))
    /\ fence' = <<target[k], k>>
    /\ UNCHANGED <<pc, guard, dirs, admission, flow, lost, env, history>>

PersistEnd(k) ==
    LET t == Main(k)
        ok == Held(t) /\ seen[t] = "go"
    IN /\ pc[k] = "persist" /\ Over(t)
       /\ Done(t, "idle")
       /\ Goto(k, IF ok THEN "check" ELSE "stopping")
       /\ UNCHANGED <<files, flow, lost, env, history>>

--------------------------------------------------------------------------------
(* A supervisor.                                                             *)

\* A stopper has its admission object and has not begun to release it.
Holding == {"held", "persist", "check", "fence", "clear", "recheck"}

AdmissionActive == admission # NoAdmission /\ admission[2] /\ Alive(admission[1])
(* Mutant of Admitted: any record will do, its token is not compared. *)
AdmittedAnyone(k) == k \in Stoppers /\ admission # NoAdmission
Admitted(k) == admission # NoAdmission /\ admission[1] = k

\* acquireDaemonSupervisorOwnership under the guard: an admission that is not
\* active is removed, owners that are dead are renamed away until a live one is
\* met, and then the candidate becomes the owner directory.
AcquireRead(s) ==
    /\ pc[s] = "acquire" /\ At(Main(s), "in")
    /\ \/ /\ AdmissionActive
          /\ Read(Main(s), "no")
          /\ UNCHANGED <<dirs, admission>>
       \/ /\ ~AdmissionActive
          /\ admission' = NoAdmission
          /\ \E d \in dirs : Alive(d)
          /\ Read(Main(s), "no")
          /\ \E met \in SUBSET {d \in dirs : ~Alive(d)} : dirs' = dirs \ met
       \/ /\ ~AdmissionActive
          /\ admission' = NoAdmission
          /\ \A d \in dirs : ~Alive(d)
          /\ Read(Main(s), "go")
          /\ dirs' = {}
    /\ UNCHANGED <<pc, guard, fence, flow, lost, env, history>>

AcquireWrite(s) ==
    /\ pc[s] = "acquire" /\ Write(Main(s))
    /\ dirs' = dirs \cup {s}
    /\ UNCHANGED <<pc, guard, admission, fence, flow, lost, env, history>>

\* A failed start leaves what it wrote: the directory outlives the exception.
AcquireEnd(s) ==
    LET t == Main(s)
        ok == Held(t) /\ seen[t] = "go"
    IN /\ pc[s] = "acquire" /\ Over(t)
       /\ Done(t, "idle")
       /\ Goto(s, IF ok THEN "owner" ELSE "failed")
       /\ started' = [k \in Stoppers |-> started[k] \/ (ok /\ pc[k] \in Holding)]
       /\ UNCHANGED <<files, flow, lost, env, shaken>>

\* Signals, the shutdown command and update restarts end in the same clean-up.
Quit(s) ==
    /\ pc[s] = "owner" /\ Awake(s)
    /\ Call(s, "release")
    /\ UNCHANGED <<seen, guard, files, flow, lost, env, history>>

ReleaseOwner(s) ==
    /\ pc[s] = "release" /\ At(Main(s), "in")
    /\ dirs' = dirs \ {s}
    /\ step' = [step EXCEPT ![Main(s)] = "out"]
    /\ UNCHANGED seen
    /\ UNCHANGED <<pc, guard, admission, fence, flow, lost, env, history>>

ReleaseEnd(s) ==
    /\ pc[s] = "release" /\ At(Main(s), "out")
    /\ Done(Main(s), "idle")
    /\ Goto(s, "released")
    /\ UNCHANGED <<files, flow, lost, env, history>>

--------------------------------------------------------------------------------
(* A stopper: the shutdown admission.                                        *)

CallAdmit(k) ==
    /\ pc[k] = "new" /\ Awake(k)
    /\ Call(k, "admit")
    /\ UNCHANGED <<seen, guard, files, flow, lost, env, history>>

AdmitRead(k) ==
    /\ pc[k] = "admit" /\ At(Main(k), "in")
    /\ Read(Main(k), IF AdmissionActive THEN "no" ELSE "go")
    /\ admission' = IF AdmissionActive THEN admission ELSE NoAdmission
    /\ UNCHANGED <<pc, guard, dirs, fence, flow, lost, env, history>>

AdmitWrite(k) ==
    /\ pc[k] = "admit" /\ Write(Main(k))
    /\ admission' = <<k, TRUE>>
    /\ UNCHANGED <<pc, guard, dirs, fence, flow, lost, env, history>>

\* An active admission of another process is waited for; a guard that changed
\* hands is an exception, and nobody renews what was written.
AdmitEnd(k) ==
    LET t == Main(k)
        ok == Held(t) /\ seen[t] = "go"
        again == Held(t) /\ seen[t] = "no"
    IN /\ pc[k] = "admit" /\ Over(t)
       /\ Done(t, IF again THEN "wait" ELSE "idle")
       /\ Goto(k, IF ok THEN "held" ELSE IF again THEN "admit" ELSE "refused")
       /\ UNCHANGED <<files, flow, lost, env, history>>

\* The command found a daemon to stop, or none.
Connect(k) ==
    /\ pc[k] = "held" /\ Awake(k)
    /\ \/ \E s \in Supervisors :
            /\ pc[s] = "owner" /\ Alive(s)
            /\ target' = [target EXCEPT ![k] = s]
            /\ Call(k, "persist")
       \/ /\ Goto(k, "fence")
          /\ UNCHANGED <<step, target>>
    /\ UNCHANGED <<seen, guard, files, fenceSeen, lost, env, history>>

\* assertOrRenew of a record that is known to be lost.
Refuse(k) ==
    /\ pc[k] \in {"check", "recheck"} /\ Awake(k) /\ lost[k]
    /\ Goto(k, "stopping")
    /\ UNCHANGED <<step, seen, guard, files, flow, lost, env, history>>

\* RenewableRegistryRecord.stopped
Stopped(k) == pc[k] \in {"stopping", "withdraw", "done"}

\* The timer or a caller starts the one renewal that may be under way.
RenewCall(k) ==
    /\ pc[k] \in Holding /\ Awake(k)
    /\ ~lost[k]
    /\ step[Renew(k)] = "idle"
    /\ step' = [step EXCEPT ![Renew(k)] = "wait"]
    /\ UNCHANGED <<pc, seen, guard, files, flow, lost, env, history>>

\* The lease need not be fresh: only a record that is gone or another's is lost.
RenewRead(k) ==
    /\ At(Renew(k), "in")
    /\ Read(Renew(k), IF ~Stopped(k) /\ ~lost[k] /\ Admitted(k) THEN "go" ELSE "no")
    /\ UNCHANGED <<pc, guard, files, flow, lost, env, history>>

RenewWrite(k) ==
    /\ Write(Renew(k))
    /\ admission' = <<k, TRUE>>
    /\ UNCHANGED <<pc, guard, dirs, fence, flow, lost, env, history>>

Renewed(k) == Held(Renew(k)) /\ seen[Renew(k)] = "go"
(* Mutant of OnSuccess: the coordinator does not wait for its predecessor. *)
OnSuccessHurry(where) == IF where = "check" THEN "recheck" ELSE IF where = "recheck" THEN "stopping" ELSE where
OnSuccess(where) == IF where = "check" THEN "fence" ELSE IF where = "recheck" THEN "stopping" ELSE where
OnFailure(where) == IF where \in {"check", "recheck"} THEN "stopping" ELSE where

\* A refusal makes the record lost; a compromised guard only fails this call.
RenewEnd(k) ==
    LET t == Renew(k)
    IN /\ Over(t)
       /\ Done(t, "idle")
       /\ Goto(k, IF Renewed(k) THEN OnSuccess(pc[k]) ELSE OnFailure(pc[k]))
       /\ lost' = [lost EXCEPT ![k] = @ \/ (Held(t) /\ seen[t] = "no")]
       /\ shaken' = [shaken EXCEPT ![k] = @ \/ ~Held(t)]
       /\ UNCHANGED <<files, flow, env, started>>

\* The command has nothing more to stop, or its daemon does not stop in time.
Leave(k) ==
    /\ pc[k] \in {"held", "fence"} /\ Awake(k)
    /\ Goto(k, "stopping")
    /\ UNCHANGED <<step, seen, guard, files, flow, lost, env, history>>

\* release: no renewal starts any more, the one under way is waited for, and
\* then the record goes.
Withdraw(k) ==
    /\ pc[k] = "stopping" /\ Awake(k)
    /\ step[Renew(k)] = "idle"
    /\ Call(k, "withdraw")
    /\ target' = [target EXCEPT ![k] = Nobody]
    /\ started' = [started EXCEPT ![k] = FALSE]
    /\ shaken' = [shaken EXCEPT ![k] = FALSE]
    /\ UNCHANGED <<seen, guard, files, fenceSeen, lost, env>>

(* Mutant of WithdrawRead: the record is removed whosever it is. *)
WithdrawAny(k) ==
    /\ pc[k] = "withdraw" /\ At(Main(k), "in")
    /\ Read(Main(k), IF admission # NoAdmission THEN "go" ELSE "no")
    /\ UNCHANGED <<pc, guard, files, flow, lost, env, history>>

WithdrawRead(k) ==
    /\ pc[k] = "withdraw" /\ At(Main(k), "in")
    /\ Read(Main(k), IF Admitted(k) THEN "go" ELSE "no")
    /\ UNCHANGED <<pc, guard, files, flow, lost, env, history>>

WithdrawWrite(k) ==
    /\ pc[k] = "withdraw" /\ Write(Main(k))
    /\ admission' = NoAdmission
    /\ UNCHANGED <<pc, guard, dirs, fence, flow, lost, env, history>>

WithdrawEnd(k) ==
    /\ pc[k] = "withdraw" /\ Over(Main(k))
    /\ Done(Main(k), "idle")
    /\ Goto(k, "done")
    /\ lost' = [lost EXCEPT ![k] = FALSE]
    /\ UNCHANGED <<files, flow, env, history>>

--------------------------------------------------------------------------------
(* The environment: processes end, leases run out.                           *)

Finished(p) == pc[p] \in {"failed", "released"}

\* What the process knew goes with it; its files and its guard stay.
Forget(f, S, none) == [x \in DOMAIN f |-> IF x \in S THEN none ELSE f[x]]
Die(p) ==
    /\ pc[p] \notin {"new", "done", "refused", "dead"}
    /\ IF Finished(p) THEN UNCHANGED faults ELSE Fault
    /\ Goto(p, "dead")
    /\ step' = Forget(step, {Main(p), Renew(p)}, "idle")
    /\ seen' = Forget(seen, {Main(p), Renew(p)}, "none")
    /\ fenceSeen' = Forget(fenceSeen, {p}, NoFence)
    /\ target' = Forget(target, {p}, Nobody)
    /\ lost' = Forget(lost, {p}, FALSE)
    /\ started' = Forget(started, {p}, FALSE)
    /\ shaken' = Forget(shaken, {p}, FALSE)
    /\ UNCHANGED <<guard, files, stolen>>

\* SHUTDOWN_ADMISSION_LEASE_MS pass without a renewal.
Expire ==
    /\ AdmissionActive /\ Fault
    /\ admission' = <<admission[1], FALSE>>
    /\ UNCHANGED <<pc, step, seen, guard, dirs, fence, flow, lost, stolen, history>>

SupervisorStep(s) ==
    \/ Quit(s)
    \/ AcquireRead(s) \/ AcquireWrite(s) \/ AcquireEnd(s)
    \/ ReleaseOwner(s) \/ ReleaseEnd(s)

StopperStep(k) ==
    \/ CallAdmit(k) \/ AdmitRead(k) \/ AdmitWrite(k) \/ AdmitEnd(k)
    \/ Connect(k) \/ PersistRead(k) \/ PersistWrite(k) \/ PersistEnd(k)
    \/ Refuse(k)
    \/ RenewCall(k) \/ RenewRead(k) \/ RenewWrite(k) \/ RenewEnd(k)
    \/ Leave(k) \/ Withdraw(k) \/ WithdrawRead(k) \/ WithdrawWrite(k) \/ WithdrawEnd(k)

ProcessStep(p) == PollFence(p) \/ ClearRead(p) \/ ClearWrite(p) \/ ClearEnd(p) \/ Die(p)

Next ==
    \/ \E t \in Threads : Lock(t)
    \/ \E p \in Procs : ProcessStep(p)
    \/ \E s \in Supervisors : SupervisorStep(s)
    \/ \E k \in Stoppers : StopperStep(k)
    \/ Expire

Spec == Init /\ [][Next]_vars

--------------------------------------------------------------------------------
(* Properties.                                                               *)

\* This process passes assertCurrent: it acquired, runs and did not let go.
Current(s) == pc[s] = "owner" /\ Alive(s)

\* At most one process serves a socket, whatever holder stalls and whichever
\* guard is taken over, and the record of the one that serves is not taken
\* away while it lives (acquireDaemonSupervisorOwnership, the guard).
SingleOwner ==
    /\ \A s, u \in Supervisors : Current(s) /\ Current(u) => s = u
    /\ \A s \in Supervisors : Current(s) => s \in dirs

\* A renewal that succeeds tells the truth: no supervisor acquired ownership
\* since the admission was given, even when its lease had run out meanwhile.
\* A renewal that ended with a compromised guard may have put a record back that
\* a starting supervisor had removed, so it ends what can be said.
RenewalIsTrue ==
    \A k \in Stoppers :
        At(Renew(k), "out") /\ Renewed(k) /\ started[k] => shaken[k]

\* An active admission stands: until its lease runs out or its process ends,
\* only its own process replaces or removes it, whoever renews, releases, starts
\* or waits meanwhile (while no stalled holder lost the guard).
AdmissionStands ==
    [][~stolen /\ AdmissionActive =>
        LET k == admission[1]
        IN \/ admission' \in {<<k, TRUE>>, <<k, FALSE>>}
           \/ pc[k] = "withdraw"]_vars

\* The coordinator lets a successor start (its last assertOrRenew succeeds) only
\* when the fenced predecessor is dead and no supervisor serves; a fence of a
\* live process is never cleared, whoever waits.  Both hold while no stalled
\* holder lost the guard: a stalled clear removes the fence it finds.
HandOverIsClean ==
    [][~stolen =>
        /\ fence # NoFence /\ Alive(fence[1]) => fence' # NoFence
        /\ \A k \in Stoppers :
              pc[k] = "recheck" /\ At(Renew(k), "out") /\ Renewed(k) /\ target[k] # Nobody =>
                  ~Alive(target[k]) /\ \A s \in Supervisors : ~Current(s)]_vars
================================================================================
