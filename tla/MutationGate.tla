---------------------------- MODULE MutationGate ----------------------------
(***************************************************************************)
(* How the supervisor admits mutating commands next to worker eviction and *)
(* to the preparation of an update restart (daemon-supervisor.ts,          *)
(* mutation-drain-latch.ts).                                               *)
(*                                                                         *)
(* An evictor raises a fence that holds new commands, waits until the      *)
(* latch counts no active command, looks at the worker again and stops it. *)
(* prepare_update_restart is itself a command: it refuses others, waits    *)
(* until it is the only active one, and lets the workers checkpoint.       *)
(*                                                                         *)
(* All of this is one JavaScript process.  A continuation of a resolved    *)
(* promise joins the queue micro, which is served in order and to its end  *)
(* before anything else happens: a line read, a timer, a worker's answer.  *)
(* How many turns of the queue lie between two statements decides races    *)
(* here, so every await of a resolved promise is a turn of its own.        *)
(***************************************************************************)
EXTENDS Integers, Sequences, FiniteSets

CONSTANTS
  Plain,     \* commands that wait for a fence and that a restart refuses
  Release,   \* release_session_input_pause: passes the fence
  Abort,     \* aborts and UI answers: pass the fence and the draining phase
  Ledger,    \* rlm_ledger_mutate, rlm_capacity: pass everything
  Prepare,   \* prepare_update_restart; waits for a fence like a plain command
  Shutdown,  \* shutdown; like a plain command until a restart is prepared
  Evictor,   \* an idle sweep, or the eviction of an empty session on detach
  None       \* nobody

Command == Plain \union Release \union Abort \union Ledger \union Prepare \union Shutdown

WaitsForFence == Plain \union Prepare \union Shutdown

ASSUME KindAssumption ==
  /\ IsFiniteSet(Command) /\ IsFiniteSet(Evictor)
  /\ Command \intersect Evictor = {}
  /\ None \notin Command \union Evictor
  /\ Prepare \intersect (Plain \union Release \union Abort \union Ledger \union Shutdown) = {}
  /\ WaitsForFence \intersect (Release \union Abort \union Ledger) = {}

VARIABLES
  cmd,           \* "idle", "held" (awaits a fence), "active", "done", "refused"
  evict,         \* "idle", "waiting" (for a fence), "fencing" (took it, drains),
                 \* "acting" (asks the worker), "stopping" (stops it), "done"
  fence,         \* idleEvictionFence: the evictor that raised it, or None
  fenceWaiters,  \* who awaits this fence's promise, in order
  drainWaiters,  \* who awaits the next end() of the latch
  phase,         \* updateRestartPhase: "none", "draining", "fencing", "prepared"
  checkpoint,    \* the command inside prepareUpdateRestartFenced, or None
  micro          \* the queue of continuations

gateVars == << cmd, evict, fence, fenceWaiters, drainWaiters, phase, checkpoint, micro >>

Turn(x, at, left) == [who |-> x, at |-> at, left |-> left]

(* Turns between the resolution of a fence and begin(): the handler        *)
(* resumes, and awaits assertCurrent, assertCurrentOwnership and           *)
(* assertServingCurrentOwnership, each already settled.                    *)
OwnershipTurns == 3

Active(c) == {x \in Command : c[x] = "active"}

Remaining(x) == IF x \in Evictor THEN 0 ELSE 1

-----------------------------------------------------------------------------
(* MutationDrainLatch.                                                     *)

(* waitForDrain called, or resumed, by x while the commands in A are       *)
(* active: it returns, or waits for the next end().                        *)
WaitForDrain(x, A, queue) ==
  IF Cardinality(A) <= Remaining(x)
  THEN micro' = Append(queue, Turn(x, "drained", 0)) /\ UNCHANGED drainWaiters
  ELSE micro' = queue /\ drainWaiters' = Append(drainWaiters, x)

(* Mutant of WakeDrainWaiters: end() resumes the first waiter only.        *)
WakeFirstDrainWaiter ==
  IF drainWaiters = << >> THEN UNCHANGED << micro, drainWaiters >>
  ELSE /\ micro' = Append(micro, Turn(Head(drainWaiters), "drain", 0))
       /\ drainWaiters' = Tail(drainWaiters)

(* end(): every waiter is resumed and looks again.                         *)
WakeDrainWaiters ==
  /\ micro' = micro \o [i \in DOMAIN drainWaiters |-> Turn(drainWaiters[i], "drain", 0)]
  /\ drainWaiters' = << >>

-----------------------------------------------------------------------------
(* Commands.                                                               *)

Refused(c) ==
  \/ phase = "draining" /\ c \notin Abort \union Ledger
  \/ phase = "fencing" /\ c \notin Ledger
  \/ phase = "prepared" /\ c \notin Ledger \union Shutdown

(* begin() of the journal and the latch, then handleCommand up to its      *)
(* first wait.  A second prepare_update_restart throws and ends at once.   *)
Begin(c, queue) ==
  IF c \in Prepare /\ phase # "none"
  THEN /\ cmd' = [cmd EXCEPT ![c] = "refused"]
       /\ micro' = queue
       /\ UNCHANGED << drainWaiters, phase >>
  ELSE /\ cmd' = [cmd EXCEPT ![c] = "active"]
       /\ IF c \in Prepare
          THEN phase' = "draining" /\ WaitForDrain(c, Active(cmd'), queue)
          ELSE micro' = queue /\ UNCHANGED << drainWaiters, phase >>

(* Mutant of Arrive: the fence holds aborts and the ledger's commands too. *)
ArriveAllHeld(c) ==
  /\ micro = << >> /\ cmd[c] = "idle" /\ ~ Refused(c)
  /\ IF fence # None
     THEN /\ cmd' = [cmd EXCEPT ![c] = "held"]
          /\ fenceWaiters' = Append(fenceWaiters, c)
          /\ UNCHANGED << drainWaiters, phase, micro >>
     ELSE Begin(c, micro) /\ UNCHANGED fenceWaiters
  /\ UNCHANGED << evict, fence, checkpoint >>

(* handleLine: the phase is looked at before the fence, and not again.     *)
Arrive(c) ==
  /\ micro = << >> /\ cmd[c] = "idle"
  /\ UNCHANGED << evict, fence, checkpoint >>
  /\ \/ /\ Refused(c)
        /\ cmd' = [cmd EXCEPT ![c] = "refused"]
        /\ UNCHANGED << fenceWaiters, drainWaiters, phase, micro >>
     \/ /\ ~ Refused(c) /\ c \in WaitsForFence /\ fence # None
        /\ cmd' = [cmd EXCEPT ![c] = "held"]
        /\ fenceWaiters' = Append(fenceWaiters, c)
        /\ UNCHANGED << drainWaiters, phase, micro >>
     \/ /\ ~ Refused(c) /\ ~ (c \in WaitsForFence /\ fence # None)
        /\ Begin(c, micro)
        /\ UNCHANGED fenceWaiters

(* handleCommand settles; end() of the latch.                              *)
Finish(c) ==
  /\ micro = << >> /\ cmd[c] = "active" /\ c \notin Prepare
  /\ cmd' = [cmd EXCEPT ![c] = "done"]
  /\ WakeDrainWaiters
  /\ UNCHANGED << evict, fence, fenceWaiters, phase, checkpoint >>

(* prepareUpdateRestartFenced has checkpointed, committed and stopped the  *)
(* workers, or has failed and released them.                               *)
PrepareEnds(c) ==
  /\ micro = << >> /\ checkpoint = c
  /\ phase' \in {"prepared", "none"}
  /\ checkpoint' = None
  /\ cmd' = [cmd EXCEPT ![c] = "done"]
  /\ WakeDrainWaiters
  /\ UNCHANGED << evict, fence, fenceWaiters >>

-----------------------------------------------------------------------------
(* Evictors.                                                               *)

(* withEvictionFence; its callers have just seen that no restart is        *)
(* prepared.                                                               *)
Evict(e) ==
  /\ micro = << >> /\ evict[e] = "idle" /\ phase = "none"
  /\ IF fence = None
     THEN /\ evict' = [evict EXCEPT ![e] = "fencing"]
          /\ fence' = e
          /\ micro' = << Turn(e, "fenced", 0) >>
          /\ UNCHANGED fenceWaiters
     ELSE /\ evict' = [evict EXCEPT ![e] = "waiting"]
          /\ fenceWaiters' = Append(fenceWaiters, e)
          /\ UNCHANGED << fence, micro >>
  /\ UNCHANGED << cmd, drainWaiters, phase, checkpoint >>

(* Mutant of ReleaseFence: it resumes the first waiter only.               *)
ReleaseToFirst(e) ==
  /\ evict' = [evict EXCEPT ![e] = "done"]
  /\ fence' = None
  /\ micro' = micro \o [i \in 1..(IF fenceWaiters = << >> THEN 0 ELSE 1) |->
                 LET x == Head(fenceWaiters)
                 IN  Turn(x, IF x \in Evictor THEN "unfenced" ELSE "resumed",
                             IF x \in Evictor THEN 0 ELSE OwnershipTurns)]
  /\ fenceWaiters' = SubSeq(fenceWaiters, 2, Len(fenceWaiters))

ReleaseFence(e) ==
  /\ evict' = [evict EXCEPT ![e] = "done"]
  /\ fence' = IF fence = e THEN None ELSE fence
  /\ micro' = micro \o [i \in DOMAIN fenceWaiters |->
                 LET x == fenceWaiters[i]
                 IN  IF x \in Evictor THEN Turn(x, "unfenced", 0)
                     ELSE Turn(x, "resumed", OwnershipTurns)]
  /\ fenceWaiters' = << >>

(* Mutant of WorkerAnswers: it stops the worker whatever has begun.        *)
StopUnchecked(e) ==
  /\ micro = << >> /\ evict[e] = "acting"
  /\ \/ /\ evict' = [evict EXCEPT ![e] = "stopping"]
        /\ UNCHANGED << fence, fenceWaiters, micro >>
     \/ ReleaseFence(e)
  /\ UNCHANGED << cmd, drainWaiters, phase, checkpoint >>

(* The worker's answer: it is still idle and no restart is being prepared, *)
(* or the eviction is called off.                                          *)
WorkerAnswers(e) ==
  /\ micro = << >> /\ evict[e] = "acting"
  /\ \/ /\ phase = "none"
        /\ evict' = [evict EXCEPT ![e] = "stopping"]
        /\ UNCHANGED << fence, fenceWaiters, micro >>
     \/ ReleaseFence(e)
  /\ UNCHANGED << cmd, drainWaiters, phase, checkpoint >>

WorkerStopped(e) ==
  /\ micro = << >> /\ evict[e] = "stopping"
  /\ ReleaseFence(e)
  /\ UNCHANGED << cmd, drainWaiters, phase, checkpoint >>

Without(s, i) == [j \in 1..(Len(s) - 1) |-> IF j < i THEN s[j] ELSE s[j + 1]]

(* The abort signal of waitForDrain fires: an evictor lowers its fence, a  *)
(* preparation is undone and its command fails.                            *)
DrainTimesOut(x) ==
  /\ micro = << >>
  /\ \E i \in DOMAIN drainWaiters :
       LET others == Without(drainWaiters, i)
       IN  /\ drainWaiters[i] = x
           /\ \/ /\ x \in Evictor
                 /\ drainWaiters' = others
                 /\ ReleaseFence(x)
                 /\ UNCHANGED << cmd, phase >>
              \/ /\ x \in Prepare
                 /\ phase' = "none"
                 /\ cmd' = [cmd EXCEPT ![x] = "done"]
                 /\ micro' = [j \in DOMAIN others |-> Turn(others[j], "drain", 0)]
                 /\ drainWaiters' = << >>
                 /\ UNCHANGED << evict, fence, fenceWaiters >>
  /\ UNCHANGED checkpoint

-----------------------------------------------------------------------------
(* One turn of the queue.                                                  *)

Head1 == Head(micro)
Rest  == Tail(micro)

(* A held command, after its fence: the ownership checks, then begin().    *)
ResumeCommand ==
  /\ micro # << >> /\ Head1.at = "resumed"
  /\ LET c == Head1.who
     IN  IF Head1.left > 0
         THEN /\ micro' = Append(Rest, Turn(c, "resumed", Head1.left - 1))
              /\ UNCHANGED << cmd, drainWaiters, phase >>
         ELSE Begin(c, Rest)
  /\ UNCHANGED << evict, fence, fenceWaiters, checkpoint >>

(* Mutant of ResumeEvictor: it takes the fence without another look at it. *)
TakeFenceUnchecked ==
  /\ micro # << >> /\ Head1.at = "unfenced"
  /\ fence' = Head1.who
  /\ evict' = [evict EXCEPT ![Head1.who] = "fencing"]
  /\ micro' = Append(Rest, Turn(Head1.who, "fenced", 0))
  /\ UNCHANGED << cmd, fenceWaiters, drainWaiters, phase, checkpoint >>

(* acquireIdleEvictionFence: another fence may be up again.                *)
ResumeEvictor ==
  /\ micro # << >> /\ Head1.at = "unfenced"
  /\ LET e == Head1.who
     IN  IF fence = None
         THEN /\ fence' = e
              /\ evict' = [evict EXCEPT ![e] = "fencing"]
              /\ micro' = Append(Rest, Turn(e, "fenced", 0))
              /\ UNCHANGED fenceWaiters
         ELSE /\ fenceWaiters' = Append(fenceWaiters, e)
              /\ micro' = Rest
              /\ UNCHANGED << fence, evict >>
  /\ UNCHANGED << cmd, drainWaiters, phase, checkpoint >>

(* waitForDrain is called with the fence held, or looks again.             *)
ResumeDrain ==
  /\ micro # << >> /\ Head1.at \in {"fenced", "drain"}
  /\ WaitForDrain(Head1.who, Active(cmd), Rest)
  /\ UNCHANGED << cmd, evict, fence, fenceWaiters, phase, checkpoint >>

(* Mutant of ResumeDrained: a preparation checkpoints after one drain.     *)
CheckpointAfterOneDrain ==
  /\ micro # << >> /\ Head1.at = "drained"
  /\ micro' = Rest
  /\ LET x == Head1.who
     IN  IF x \in Evictor
         THEN evict' = [evict EXCEPT ![x] = "acting"] /\ UNCHANGED << phase, checkpoint >>
         ELSE phase' = "fencing" /\ checkpoint' = x /\ UNCHANGED evict
  /\ UNCHANGED << cmd, fence, fenceWaiters, drainWaiters >>

(* waitForDrain has returned: an evictor acts; a preparation refuses what  *)
(* it still let in and drains once more, then checkpoints.                 *)
ResumeDrained ==
  /\ micro # << >> /\ Head1.at = "drained"
  /\ LET x == Head1.who
     IN  \/ /\ x \in Evictor
            /\ evict' = [evict EXCEPT ![x] = "acting"]
            /\ micro' = Rest
            /\ UNCHANGED << drainWaiters, phase, checkpoint >>
         \/ /\ x \in Prepare /\ phase = "draining"
            /\ phase' = "fencing"
            /\ WaitForDrain(x, Active(cmd), Rest)
            /\ UNCHANGED << evict, checkpoint >>
         \/ /\ x \in Prepare /\ phase = "fencing"
            /\ checkpoint' = x
            /\ micro' = Rest
            /\ UNCHANGED << evict, drainWaiters, phase >>
  /\ UNCHANGED << cmd, fence, fenceWaiters >>

MicroStep == ResumeCommand \/ ResumeEvictor \/ ResumeDrain \/ ResumeDrained

Init ==
  /\ cmd = [c \in Command |-> "idle"]
  /\ evict = [e \in Evictor |-> "idle"]
  /\ fence = None /\ fenceWaiters = << >> /\ drainWaiters = << >>
  /\ phase = "none" /\ checkpoint = None /\ micro = << >>

Next ==
  \/ MicroStep
  \/ \E c \in Command : Arrive(c) \/ Finish(c) \/ PrepareEnds(c)
  \/ \E e \in Evictor : Evict(e) \/ WorkerAnswers(e) \/ WorkerStopped(e)
  \/ \E x \in Evictor \union Prepare : DrainTimesOut(x)

(* The queue is served; the requests to a worker and the waits for a drain *)
(* have deadlines.  No command is assumed to finish.                       *)
Fairness ==
  /\ WF_gateVars(MicroStep)
  /\ \A e \in Evictor : WF_gateVars(WorkerAnswers(e)) /\ WF_gateVars(WorkerStopped(e))
  /\ \A x \in Evictor \union Prepare : WF_gateVars(DrainTimesOut(x))

Spec == Init /\ [][Next]_gateVars /\ Fairness

-----------------------------------------------------------------------------
(* Properties. *)

(* Types of the state. *)
TypeOK ==
  /\ cmd \in [Command -> {"idle", "held", "active", "done", "refused"}]
  /\ evict \in [Evictor -> {"idle", "waiting", "fencing", "acting", "stopping", "done"}]
  /\ fence \in Evictor \union {None}
  /\ fenceWaiters \in Seq(Evictor \union WaitsForFence)
  /\ drainWaiters \in Seq(Evictor \union Prepare)
  /\ phase \in {"none", "draining", "fencing", "prepared"}
  /\ checkpoint \in Prepare \union {None}
  /\ micro \in Seq([who : Evictor \union Command,
                    at : {"resumed", "unfenced", "fenced", "drain", "drained"},
                    left : 0..OwnershipTurns])

(* Two evictors never act at once, and the one that acts has its own fence *)
(* up, although several can be resumed by the same release.                *)
EvictorsExclude ==
  \A e \in Evictor : evict[e] \in {"fencing", "acting", "stopping"} => fence = e

(* While the workers checkpoint for an update, no command but the ledger's *)
(* own is active beside the one that prepares it; afterwards only a        *)
(* shutdown can be: nothing a fence held, and nothing that slipped in      *)
(* before the phase was set, runs past the checkpoint.                     *)
CheckpointIsQuiet ==
  /\ checkpoint # None => Active(cmd) \ Ledger = {checkpoint}
  /\ phase = "prepared" => Active(cmd) \ Ledger \subseteq Prepare \union Shutdown

(* A worker is never stopped by an eviction while an update checkpoint is  *)
(* taken, whichever of the two was waiting for the other's fence.          *)
NoStopDuringCheckpoint ==
  ~ (checkpoint # None /\ \E e \in Evictor : evict[e] = "stopping")

(* Nobody sleeps at the latch while what it waits for is true.             *)
NoLostWakeup ==
  micro = << >> => \A i \in DOMAIN drainWaiters :
                     Cardinality(Active(cmd)) > Remaining(drainWaiters[i])

(* Every command that a fence holds goes on: one evictor after the other   *)
(* can raise a fence, but none holds a command twice.                      *)
HeldCommandsGoOn == \A c \in Command : cmd[c] = "held" ~> cmd[c] # "held"

(* daemon-supervisor.ts, evictEmptySessionOnLastDetach: "fence new         *)
(* mutations, drain admitted ones, re-read before deciding": a worker is   *)
(* not stopped while a command that waits for fences is active.            *)
NoStopDuringMutation ==
  (\E e \in Evictor : evict[e] = "stopping") => Active(cmd) \intersect Plain = {}
=============================================================================
