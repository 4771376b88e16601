----------------------------- MODULE ScheduledJobs -----------------------------
(***************************************************************************)
(* Scheduled jobs of one worker: AgentCronJobStore and AgentCronScheduler, *)
(* with the part of the daemon that delivers a prompt (runCronJob).        *)
(*                                                                         *)
(* A job that is due is claimed: its next time is advanced and a dispatch  *)
(* is recorded, in one locked write of the session's file.  The dispatches *)
(* of a session run one after the other; each opens the session if it must *)
(* and checks the job again after every await.  Clients and the session's  *)
(* own tools pause, resume, edit and cancel jobs meanwhile, sessions are   *)
(* closed and opened again, an update stops the scheduler and waits for    *)
(* the dispatches, and the worker may crash between any two steps.         *)
(*                                                                         *)
(* A step is what the worker does between two awaits.  Sessions keep their *)
(* active id: moving jobs to another session file is left out.             *)
(***************************************************************************)
EXTENDS Naturals, Sequences, FiniteSets

CONSTANTS
    Root, Children,     \* the worker's root session and its subagents
    Jobs,
    SessionOf,          \* job -> the session it prompts
    Heartbeats, Once,   \* jobs that are heartbeats, and one-shot jobs; the others recur
    MaxTicks            \* bound: due times of one job

Sessions == {Root} \cup Children

ASSUME JobConstants ==
    /\ Root \notin Children
    /\ IsFiniteSet(Jobs) /\ SessionOf \in [Jobs -> Sessions]
    /\ Heartbeats \subseteq Jobs /\ Once \subseteq Jobs \ Heartbeats
    /\ MaxTicks \in Nat \ {0}

VARIABLES
    \* The session files.
    status,      \* job -> its status; "new" before it is created
    next,        \* job -> nextRunAt: "none", "later" or "due"
    tick,        \* job -> number of its next due time
    claim,       \* job -> due time of its recorded dispatch, 0 for none
    archived,    \* the root's saved info says it is not active; a child's never says it is
    \* The worker.
    up,
    registered,  \* sessions whose file the store knows
    stopped,     \* the scheduler is stopped
    timer,       \* its timer is set
    lane,        \* session -> its dispatches, the first one running
    stage,       \* session -> where the first one is
    edited,      \* sessions where the job at the fence was edited since
    resident, closing, streaming,   \* open sessions, those being closed, those in a turn
    queued,      \* heartbeat -> its follow-up in the session: "none", "current" or "stale"
    archiving,   \* a close of the root has still to archive it
    phase,       \* update restart and shutdown
    parked,      \* the worker's process ended and waits for a client
    \* History.
    last, replays,
    stranded     \* jobs whose dispatch record a failed write left behind

disk == <<status, next, tick, claim, archived>>
scheduler == <<stopped, timer>>
lanes == <<lane, stage, edited>>
sessions == <<resident, closing, streaming, queued, archiving>>
process == <<up, phase, parked>>
history == <<last, replays, stranded>>
vars == <<disk, process, registered, scheduler, lanes, sessions, history>>

Set(f, x, v) == [f EXCEPT ![x] = v]
JobsOf(s) == {j \in Jobs : SessionOf[j] = s}
Dispatch == [job : Jobs, at : 1 .. MaxTicks]

TypeOK ==
    /\ status \in [Jobs -> {"new", "active", "paused", "completed", "cancelled"}]
    /\ next \in [Jobs -> {"none", "later", "due"}]
    /\ \A j \in Jobs : next[j] # "none" => status[j] = "active"
    /\ tick \in [Jobs -> 1 .. MaxTicks] /\ claim \in [Jobs -> 0 .. MaxTicks]
    /\ archived \in BOOLEAN /\ registered \subseteq Sessions
    /\ up \in BOOLEAN /\ stopped \in BOOLEAN /\ timer \in BOOLEAN
    /\ lane \in [Sessions -> Seq(Dispatch)]
    /\ stage \in [Sessions -> {"queued", "opening", "blocked", "opened", "fence", "turn", "ran", "skipped"}]
    /\ edited \subseteq Sessions
    /\ closing \subseteq resident /\ streaming \subseteq resident /\ resident \subseteq Sessions
    /\ queued \in [Heartbeats -> {"none", "current", "stale"}]
    /\ phase \in {"none", "preparing", "prepared", "closing"}
    /\ archiving \in BOOLEAN /\ parked \in BOOLEAN
    /\ last \in [Jobs -> 0 .. MaxTicks]
    /\ replays \subseteq Jobs /\ stranded \subseteq Jobs

Init ==
    /\ status = [j \in Jobs |-> "new"] /\ next = [j \in Jobs |-> "none"]
    /\ tick = [j \in Jobs |-> 1] /\ claim = [j \in Jobs |-> 0]
    /\ archived = FALSE
    /\ up = TRUE /\ registered = {Root} /\ stopped = FALSE /\ timer = FALSE
    /\ lane = [s \in Sessions |-> << >>] /\ stage = [s \in Sessions |-> "queued"] /\ edited = {}
    /\ resident = {Root} /\ closing = {} /\ streaming = {}
    /\ queued = [h \in Heartbeats |-> "none"]
    /\ archiving = FALSE /\ phase = "none" /\ parked = FALSE
    /\ last = [j \in Jobs |-> 0] /\ replays = {} /\ stranded = {}

Running(s) == lane[s] # << >>
Job(s) == Head(lane[s]).job

--------------------------------------------------------------------------------
(* The store.                                                                *)

\* A supervisor serves the commands for a session that no worker has open.
Reachable(j) == up => SessionOf[j] \in registered

\* wake: an immediate timer, unless the scheduler is stopped.
Wake == timer' = (timer \/ (up /\ ~stopped)) /\ UNCHANGED stopped

\* removeQueuedHeartbeatFollowUp
Unqueue(J) == queued' = [h \in Heartbeats |-> IF h \in J THEN "none" ELSE queued[h]]

Live(j) == status[j] \in {"active", "paused"}

\* Mutant of Cancelled: the next time of a cancelled job stays.
CancelledStillDue(J) ==
    /\ status' = [j \in Jobs |-> IF j \in J THEN "cancelled" ELSE status[j]]
    /\ next' = next

Cancelled(J) ==
    /\ status' = [j \in Jobs |-> IF j \in J THEN "cancelled" ELSE status[j]]
    /\ next' = [j \in Jobs |-> IF j \in J THEN "none" ELSE next[j]]

Create(j) ==
    /\ up /\ status[j] = "new" /\ SessionOf[j] \in resident
    /\ status' = Set(status, j, "active") /\ next' = Set(next, j, "later")
    /\ Wake
    /\ UNCHANGED <<tick, claim, archived, process, registered, lanes, sessions, history>>

Pause(j) ==
    /\ Reachable(j) /\ j \in Heartbeats /\ status[j] = "active"
    /\ status' = Set(status, j, "paused") /\ next' = Set(next, j, "none")
    /\ Unqueue({j}) /\ Wake
    /\ UNCHANGED <<tick, claim, archived, process, registered, lanes, resident, closing, streaming,
                   archiving, history>>

\* Also the new interval of an active heartbeat.
Resume(j) ==
    /\ Reachable(j) /\ j \in Heartbeats /\ Live(j)
    /\ status' = Set(status, j, "active") /\ next' = Set(next, j, "later")
    /\ Wake
    /\ UNCHANGED <<tick, claim, archived, process, registered, lanes, sessions, history>>

\* A new instruction or delivery mode.
Edit(j) ==
    /\ up /\ SessionOf[j] \in resident /\ j \in Heartbeats /\ Live(j)
    /\ edited' = edited \cup {s \in Sessions : stage[s] = "fence" /\ Job(s) = j}
    /\ Unqueue({j}) /\ Wake
    /\ UNCHANGED <<disk, process, registered, lane, stage, resident, closing, streaming, archiving, history>>

Cancel(j) ==
    /\ Reachable(j) /\ status[j] \notin {"new", "cancelled"}
    /\ Cancelled({j})
    /\ Unqueue({j}) /\ Wake
    /\ UNCHANGED <<tick, claim, archived, process, registered, lanes, resident, closing, streaming,
                   archiving, history>>

\* Time passes.
FallsDue(j) ==
    /\ next[j] = "later" /\ tick[j] < MaxTicks
    /\ next' = Set(next, j, "due")
    /\ UNCHANGED <<status, tick, claim, archived, process, registered, scheduler, lanes, sessions, history>>

--------------------------------------------------------------------------------
(* The scheduler.                                                            *)


\* scheduleNext
SetTimer == timer' = \E j \in Jobs : SessionOf[j] \in registered /\ next'[j] # "none"

\* The dispatches of a batch are queued in the order of the file.
Batch(J) == CHOOSE q \in [1 .. Cardinality(J) -> J] : \A m, n \in DOMAIN q : q[m] = q[n] => m = n

Due(F) == {j \in Jobs : SessionOf[j] \in F /\ next[j] = "due"}
Fresh(F) == {j \in Due(F) : claim[j] = 0}

\* Mutant of Advance: the job is advanced by its result, not by its claim.
AdvanceLater(J) == UNCHANGED <<next, tick>>

Advance(J) ==
    /\ next' = [j \in Jobs |-> IF j \notin J THEN next[j] ELSE IF j \in Once THEN "none" ELSE "later"]
    /\ tick' = [j \in Jobs |-> IF j \in J THEN tick[j] + 1 ELSE tick[j]]

\* claimDueInState, in the files of the sessions F: every due job is advanced, and
\* its dispatch recorded unless an earlier one still is.
Claimed(F) ==
    /\ claim' = [j \in Jobs |-> IF j \in Fresh(F) THEN tick[j] ELSE claim[j]]
    /\ Advance(Due(F))

\* runDue: what was claimed is dispatched.
RunDue ==
    /\ up /\ timer
    /\ Claimed(registered)
    /\ LET batch(s) == Batch(Fresh(registered) \cap JobsOf(s))
       IN  lane' = [s \in Sessions |->
                      lane[s] \o [n \in DOMAIN batch(s) |-> [job |-> batch(s)[n], at |-> tick[batch(s)[n]]]]]
    /\ SetTimer
    /\ UNCHANGED <<status, archived, process, registered, stopped, stage, edited, sessions, history>>

\* mutateStates writes one file after another, the root's first.  When one cannot be
\* read or written, or the listeners' read after the last fails, runDue does not learn
\* what was claimed before: those claims stay without a dispatch, the others wait
\* for the timer.
RunDueFails ==
    /\ up /\ timer
    /\ \E F \in SUBSET registered :
          Root \in F /\ Claimed(F) /\ stranded' = stranded \cup Fresh(F)
    /\ SetTimer
    /\ UNCHANGED <<status, archived, process, registered, stopped, lanes, sessions, last, replays>>

\* Mutant of Recovered: the dispatch of the earlier worker stays recorded.
RecoveredNothing(J) == UNCHANGED <<claim, status, next>>

\* recoverInterruptedInState
Recovered(J) ==
    LET interrupted == {j \in J : claim[j] # 0}
        finished == {j \in interrupted \cap Once : status[j] = "active"}
    IN  /\ claim' = [j \in Jobs |-> IF j \in interrupted THEN 0 ELSE claim[j]]
        /\ status' = [j \in Jobs |-> IF j \in finished THEN "completed" ELSE status[j]]
        /\ next' = next

\* registerSessionArtifact: what an earlier worker left claimed was interrupted.
Registered(s) ==
    IF s \in registered
    THEN UNCHANGED <<registered, status, next, claim, scheduler>>
    ELSE registered' = registered \cup {s} /\ Recovered(JobsOf(s)) /\ Wake

\* registerPassiveDescendantCronArtifacts
RegisterPassive(s) ==
    /\ up /\ Root \in resident /\ s \in Children \ registered
    /\ Registered(s)
    /\ UNCHANGED <<tick, archived, process, lanes, sessions, stranded, last, replays>>

--------------------------------------------------------------------------------
(* One dispatch: queueDispatch and runCronJob.                               *)

Runnable(j) == status[j] = "active" /\ (claim[j] # 0 \/ next[j] = "due")
Usable(s) == s \in resident \ closing

Goto(s, to) == stage' = Set(stage, s, to)

Begin(s) ==
    /\ up /\ Running(s) /\ stage[s] = "queued"
    /\ Goto(s, IF ~(status[Job(s)] = "active" /\ claim[Job(s)] # 0) THEN "skipped"
               ELSE IF s \in resident THEN "opened" ELSE "opening")
    /\ UNCHANGED <<disk, process, registered, scheduler, lane, edited, sessions, history>>

\* A child's heartbeat wants an active parent; other jobs a session whose saved info
\* says active, which the daemon writes for roots only.
Blocked(j) == archived \/ (SessionOf[j] # Root /\ j \notin Heartbeats)
CancelledWith(j) == IF j \in Heartbeats /\ SessionOf[j] # Root THEN {j} ELSE JobsOf(SessionOf[j])

\* A child is not hydrated beside an update; its heartbeat opens the parent first.
CanOpen(s) == s = Root \/ phase # "preparing"

\* The session's saved info is read; it may be opened meanwhile, by this dispatch or
\* by somebody else, and the open may be refused or fail.
ReadInfo(s) ==
    /\ up /\ stage[s] = "opening"
    /\ IF ~Runnable(Job(s)) THEN Goto(s, "skipped") /\ UNCHANGED <<resident, archived>>
       ELSE IF Blocked(Job(s)) THEN Goto(s, "blocked") /\ UNCHANGED <<resident, archived>>
       ELSE \/ CanOpen(s) /\ Goto(s, "opened") /\ resident' = resident \cup {Root, s} /\ archived' = FALSE
            \/ \E to \in {"skipped", "ran"} : Goto(s, to) /\ UNCHANGED <<resident, archived>>
    /\ UNCHANGED <<status, next, tick, claim, process, registered, scheduler, lane, edited,
                   closing, streaming, queued, archiving, history>>

\* What was read decides, whatever happened to the session since.
CancelBlocked(s) ==
    /\ up /\ stage[s] = "blocked"
    /\ IF Runnable(Job(s))
       THEN Cancelled({j \in CancelledWith(Job(s)) : Live(j)}) /\ Wake
       ELSE UNCHANGED <<status, next, scheduler>>
    /\ Goto(s, "skipped")
    /\ UNCHANGED <<tick, claim, archived, process, registered, lane, edited, sessions, history>>

\* A heartbeat is put off while the session compacts, retries or has work waiting.
Proceed(s) ==
    /\ up /\ stage[s] = "opened"
    /\ IF ~(Usable(s) /\ Runnable(Job(s))) THEN Goto(s, "skipped") /\ UNCHANGED edited
       ELSE \/ /\ Job(s) \in Heartbeats \/ s \notin streaming
               /\ Goto(s, "fence") /\ edited' = edited \ {s}
            \/ Job(s) \in Heartbeats /\ Goto(s, "skipped") /\ UNCHANGED edited
    /\ UNCHANGED <<disk, process, registered, scheduler, lane, sessions, history>>

\* History: the prompt of this due time has reached the session.
Delivered(d) ==
    /\ last' = Set(last, d.job, d.at)
    /\ replays' = IF d.at <= last[d.job] THEN replays \cup {d.job} ELSE replays

\* Any other job that meets a busy session is queued behind its work at once, past
\* the fence; the follow-up may be refused.
FollowUp(s) ==
    /\ up /\ stage[s] = "opened" /\ Usable(s) /\ Runnable(Job(s)) /\ Job(s) \notin Heartbeats
    /\ Goto(s, "ran")
    /\ Delivered(Head(lane[s])) \/ UNCHANGED <<last, replays>>
    /\ UNCHANGED <<disk, process, registered, scheduler, lane, edited, sessions, stranded>>

\* Mutant of StillWanted: an edit made while the admission waits is not noticed.
StillWantedStale(s) == Usable(s) /\ Runnable(Job(s))

\* admissionCommitted, called once the session's admission fence is held.
StillWanted(s) == Usable(s) /\ Runnable(Job(s)) /\ s \notin edited

\* History: whether the text that is queued is the heartbeat's text of now.
Text(s) == IF s \in edited THEN "stale" ELSE "current"

\* A heartbeat that starts its turn keeps the dispatch until the turn ends; one that
\* meets a turn is queued once under its key.
Admit(s) ==
    /\ up /\ stage[s] = "fence" /\ StillWanted(s)
    /\ Delivered(Head(lane[s])) /\ UNCHANGED stranded
    /\ IF Job(s) \in Heartbeats
       THEN IF s \in streaming
            THEN Goto(s, "ran") /\ queued' = Set(queued, Job(s), Text(s)) /\ UNCHANGED streaming
            ELSE Goto(s, "turn") /\ streaming' = streaming \cup {s} /\ UNCHANGED queued
       ELSE Goto(s, "ran") /\ streaming' = streaming \cup {s} /\ UNCHANGED queued
    /\ UNCHANGED <<disk, process, registered, scheduler, lane, edited, resident, closing, archiving>>

\* The admission was aborted, or the job is not what was to be delivered.
Unwanted(s) ==
    /\ up /\ stage[s] = "fence"
    /\ \/ ~StillWanted(s) /\ Goto(s, "skipped")
       \/ Goto(s, "ran")
    /\ UNCHANGED <<disk, process, registered, scheduler, lane, edited, sessions, history>>

\* recordDispatchResult
Recorded(d, outcome) ==
    LET known == claim[d.job] = d.at
        job == known /\ status[d.job] = "active"
    IN  /\ claim' = IF known THEN Set(claim, d.job, 0) ELSE claim
        /\ status' = IF job /\ d.job \in Once THEN Set(status, d.job, "completed") ELSE status
        /\ next' = IF job /\ outcome = "skipped" /\ d.job \notin Once THEN Set(next, d.job, "later") ELSE next

EndDispatch(s) ==
    /\ lane' = Set(lane, s, Tail(lane[s]))
    /\ Goto(s, "queued")
    /\ edited' = edited \ {s}

Settled(s) == stage[s] \in {"ran", "skipped"}

Finish(s) ==
    /\ up /\ Settled(s)
    /\ Recorded(Head(lane[s]), stage[s])
    /\ EndDispatch(s)
    /\ UNCHANGED <<tick, archived, process, registered, scheduler, sessions, history>>

\* The file cannot be locked or written: the dispatch ends and its record stays.
FinishFails(s) ==
    /\ up /\ Settled(s)
    /\ stranded' = stranded \cup {Job(s)}
    /\ EndDispatch(s)
    /\ UNCHANGED <<disk, process, registered, scheduler, sessions, last, replays>>

--------------------------------------------------------------------------------
(* Sessions.                                                                 *)

\* A client opens a session, or the supervisor the root of a worker it recovered.
OpenSession(s) ==
    /\ up /\ phase = "none" /\ s \notin resident /\ (s = Root \/ Usable(Root))
    /\ resident' = resident \cup {s} /\ archived' = (archived /\ s # Root)
    /\ Registered(s)
    /\ UNCHANGED <<tick, process, lanes, closing, streaming, queued, archiving, history>>

\* A turn of the user, of another agent or of the session itself; it matters while a
\* dispatch may meet it.
StartTurn(s) ==
    /\ up /\ phase = "none" /\ Usable(s) /\ s \notin streaming /\ stage[s] \in {"opened", "fence"}
    /\ streaming' = streaming \cup {s}
    /\ UNCHANGED <<disk, process, registered, scheduler, lanes, resident, closing, queued, archiving, history>>

StartQueued(h) ==
    /\ up /\ phase # "prepared" /\ queued[h] # "none" /\ Usable(SessionOf[h])
    /\ queued' = Set(queued, h, "none")
    /\ streaming' = streaming \cup {SessionOf[h]}
    /\ UNCHANGED <<disk, process, registered, scheduler, lanes, resident, closing, archiving, history>>

EndTurn(s) ==
    /\ up /\ s \in streaming
    /\ streaming' = streaming \ {s}
    /\ stage' = IF stage[s] = "turn" THEN Set(stage, s, "ran") ELSE stage
    /\ UNCHANGED <<disk, process, registered, scheduler, lane, edited, resident, closing, queued,
                   archiving, history>>

\* canPassivateSession: an idle child without other jobs than heartbeats.
Passive(s) ==
    /\ s # Root /\ s \notin streaming /\ stage[s] # "fence"
    /\ \A j \in JobsOf(s) : IF j \in Heartbeats THEN queued[j] = "none" ELSE ~Live(j)

\* closeSessionOnce: a killed session loses its jobs, a completed child its
\* heartbeats; both are archived.  A root takes its children with it.
CancelledBy(C, reason) ==
    {j \in Jobs : /\ SessionOf[j] \in C /\ Live(j)
                  /\ \/ reason = "killed"
                     \/ reason = "completed" /\ j \in Heartbeats /\ SessionOf[j] # Root}

BeginClose(s, reason) ==
    /\ up /\ phase = "none" /\ Usable(s)
    /\ reason = "passivated" => Passive(s)
    /\ LET C == IF s = Root THEN resident ELSE {s}
       IN  /\ closing' = closing \cup C
           /\ Cancelled(CancelledBy(C, reason)) /\ Unqueue(CancelledBy(C, reason))
           /\ archiving' = (archiving \/ s = Root)
    /\ Wake
    /\ UNCHANGED <<tick, claim, archived, process, registered, lanes, resident, streaming, history>>

\* archiveSession, once its children are closed.
Archive ==
    /\ up /\ archiving /\ closing = {Root}
    /\ archived' = TRUE /\ archiving' = FALSE
    /\ UNCHANGED <<status, next, tick, claim, process, registered, scheduler, lanes,
                   resident, closing, streaming, queued, history>>

\* Disposing a session rejects its turn and the admissions that wait for it; a
\* dispatch that has not reached the fence finds another session or none.
EndClose(s) ==
    /\ up /\ s \in closing /\ (s = Root => closing = {Root} /\ ~archiving)
    /\ resident' = resident \ {s} /\ closing' = closing \ {s} /\ streaming' = streaming \ {s}
    /\ Unqueue(JobsOf(s))
    /\ stage' = CASE stage[s] \in {"fence", "turn"} -> Set(stage, s, "ran")
                  [] stage[s] = "opened" -> Set(stage, s, "skipped")
                  [] OTHER -> stage
    /\ UNCHANGED <<disk, process, registered, scheduler, lane, edited, archiving, history>>

--------------------------------------------------------------------------------
(* Update, shutdown, crash and recovery of the worker.                       *)

Stop == stopped' = TRUE /\ timer' = FALSE

PrepareUpdate ==
    /\ up /\ phase = "none"
    /\ phase' = "preparing"
    /\ Stop
    /\ UNCHANGED <<disk, up, parked, registered, lanes, sessions, history>>

\* Mutant of Drained: a dispatch that waits for its turn in the lane holds nothing.
DrainedRunning == \A s \in Sessions : stage[s] = "queued"

\* Every dispatch holds the drain latch from its claim to its record.
Drained == \A s \in Sessions : ~Running(s)

Prepared ==
    /\ up /\ phase = "preparing" /\ Drained
    /\ phase' = "prepared"
    /\ UNCHANGED <<disk, up, parked, registered, scheduler, lanes, sessions, history>>

\* The supervisor cancels, or the deadline passes.
CancelUpdate ==
    /\ up /\ phase \in {"preparing", "prepared"}
    /\ phase' = "none" /\ stopped' = FALSE
    /\ UNCHANGED next /\ SetTimer
    /\ UNCHANGED <<status, tick, claim, archived, up, parked, registered, lanes, sessions, history>>

ProcessEnds ==
    /\ up' = FALSE
    /\ registered' = {} /\ Stop
    /\ lane' = [s \in Sessions |-> << >>] /\ stage' = [s \in Sessions |-> "queued"] /\ edited' = {}
    /\ resident' = {} /\ closing' = {} /\ streaming' = {} /\ archiving' = FALSE
    /\ queued' = [h \in Heartbeats |-> "none"]
    /\ phase' = "none" /\ stranded' = {}
    /\ UNCHANGED <<disk, last, replays>>

CommitUpdate == up /\ phase = "prepared" /\ ProcessEnds /\ parked' = FALSE

Shutdown ==
    /\ up /\ phase # "closing"
    /\ phase' = "closing" /\ closing' = resident
    /\ Stop
    /\ UNCHANGED <<disk, up, parked, registered, lanes, resident, streaming, queued, archiving, history>>

\* The dispatches are waited for; a session one of them opened again is not closed.
\* The worker alone is stopped, or the daemon with it, which a client starts again.
Exit ==
    /\ up /\ phase = "closing" /\ closing = {} /\ Drained
    /\ ProcessEnds /\ parked' \in BOOLEAN

\* recoverWorker launches the worker of an owner client again; any other is parked,
\* "Waiting for a client with fresh runtime context".
Crash == up /\ ProcessEnds /\ parked' \in BOOLEAN

\* The supervisor launches the worker, by itself or for a client.
Restart ==
    /\ ~up
    /\ up' = TRUE /\ stopped' = FALSE /\ parked' = FALSE
    /\ UNCHANGED <<disk, registered, timer, lanes, sessions, phase, history>>

--------------------------------------------------------------------------------
JobStep(j) == Create(j) \/ Pause(j) \/ Resume(j) \/ Edit(j) \/ Cancel(j) \/ FallsDue(j)

DispatchStep(s) ==
    /\ Running(s)
    /\ \/ Begin(s) \/ ReadInfo(s) \/ CancelBlocked(s) \/ Proceed(s) \/ FollowUp(s)
       \/ Admit(s) \/ Unwanted(s) \/ Finish(s)

SessionStep(s) ==
    \/ RegisterPassive(s) \/ OpenSession(s) \/ StartTurn(s) \/ EndTurn(s)
    \/ \E reason \in {"killed", "completed", "passivated"} : BeginClose(s, reason)
    \/ EndClose(s) \/ FinishFails(s)

ProcessStep ==
    \/ PrepareUpdate \/ Prepared \/ CancelUpdate \/ CommitUpdate
    \/ Archive \/ Shutdown \/ Exit \/ Crash \/ Restart

Next ==
    \/ RunDue \/ RunDueFails
    \/ \E j \in Jobs : JobStep(j)
    \/ \E h \in Heartbeats : StartQueued(h)
    \/ \E s \in Sessions : DispatchStep(s) \/ SessionStep(s)
    \/ ProcessStep

\* The due jobs the supervisor wakes a worker for: not those of a tree whose worker it
\* parked, for the tree counts as covered, nor those of an archived session.  (A child's
\* heartbeats are cancelled when it is archived alone; its other jobs may stay due.)
Awaited ==
    {j \in JobsOf(Root) \cup Heartbeats : next[j] = "due" /\ ~archived /\ ~parked}

Fault == PrepareUpdate \/ Shutdown \/ Crash

(***************************************************************************)
(* The timer fires and its claims do not fail for ever, the worker runs    *)
(* what it can run, turns end, and an update is committed or its deadline  *)
(* cancels it.  The supervisor wakes a worker for an awaited job           *)
(* (wakeDueScheduledSessions): it is launched, and opens its root.  Faults *)
(* come to an end; nothing is assumed of clients.                          *)
(***************************************************************************)
Fairness ==
    /\ <>[][~Fault]_vars
    /\ WF_<<next, tick>>(Due(registered) # {} /\ RunDue)
    /\ WF_<<up, phase, archiving>>(CancelUpdate \/ Exit \/ Archive)
    /\ WF_<<up, resident>>(Awaited # {} /\ (Restart \/ OpenSession(Root)))
    /\ \A s \in Sessions :
          WF_<<lane, stage, resident, streaming, registered>>(
              DispatchStep(s) \/ EndTurn(s) \/ EndClose(s) \/ RegisterPassive(s))

Spec == Init /\ [][Next]_vars /\ Fairness

--------------------------------------------------------------------------------
(* Properties.                                                               *)

\* No due time of a job is delivered twice, whatever crashes, restarts, updates and
\* edits come between its claim and its record (docs/daemon.md: "A crash therefore
\* does not replay an uncertain prompt").
NoReplay == replays = {}

\* A claim on disk keeps its job from being dispatched again, so each one belongs to
\* a dispatch this worker will still finish, unless a write failed: that of the
\* dispatch's record, or that of another file after this claim was written; and a
\* dispatch in a lane has its claim.
ClaimsAreHeld ==
    up => /\ \A j \in Jobs :
                claim[j] # 0 /\ SessionOf[j] \in registered /\ j \notin stranded
                => \E n \in DOMAIN lane[SessionOf[j]] : lane[SessionOf[j]][n] = [job |-> j, at |-> claim[j]]
          /\ \A s \in Sessions : \A n \in DOMAIN lane[s] : claim[lane[s][n].job] = lane[s][n].at

\* A heartbeat that waits in a session's queue is one that is still active, with the
\* text it has now: pausing, editing and stopping reach what was delivered already.
QueuedHeartbeatsStand == \A h \in Heartbeats : queued[h] # "none" => status[h] = "active" /\ queued[h] = "current"

\* While an update's checkpoint stands, no scheduled prompt is under way and none
\* can start.
UpdateIsQuiet == phase = "prepared" => Drained /\ ~timer /\ \A j \in Jobs : claim[j] # 0 /\ SessionOf[j] \in registered => j \in stranded

================================================================================
