-------------------------- MODULE ScheduledJobsProofs --------------------------
(***************************************************************************)
(* Proofs about ScheduledJobs, for any sessions, jobs and bounds: its      *)
(* types; no due time is delivered twice; the claims on disk and the       *)
(* dispatches in the lanes belong together; a heartbeat that waits in a    *)
(* session is one that still stands; an update's checkpoint is quiet.      *)
(***************************************************************************)
EXTENDS ScheduledJobs, FiniteSetTheorems, TLAPS

-----------------------------------------------------------------------------
(***************************************************************************)
(* The inductive invariant.                                                *)
(***************************************************************************)
Statuses == {"new", "active", "paused", "completed", "cancelled"}
Stages == {"queued", "opening", "blocked", "opened", "fence", "turn", "ran", "skipped"}
Phases == {"none", "preparing", "prepared", "closing"}

(* What a session's file says of its jobs.  A claim is of a due time that *)
(* has passed, and so is a delivery; what is claimed was created, and a   *)
(* one-shot job that was claimed has no next time.                        *)
FileTypes ==
  /\ status \in [Jobs -> Statuses] /\ next \in [Jobs -> {"none", "later", "due"}]
  /\ tick \in [Jobs -> 1 .. MaxTicks] /\ claim \in [Jobs -> 0 .. MaxTicks]
  /\ last \in [Jobs -> 0 .. MaxTicks] /\ archived \in BOOLEAN

Filed(j) ==
  /\ next[j] # "none" => status[j] = "active"
  /\ next[j] = "due" => tick[j] < MaxTicks
  /\ claim[j] < tick[j] /\ last[j] < tick[j]
  /\ claim[j] # 0 => status[j] # "new"
  /\ claim[j] # 0 /\ j \in Once => next[j] = "none"

FileInv == FileTypes /\ \A j \in Jobs : Filed(j)

(* The dispatches of a lane are of jobs of its session, each claimed for  *)
(* the due time it carries, and no job has two.                           *)
LaneTypes ==
  /\ lane \in [Sessions -> Seq(Dispatch)] /\ stage \in [Sessions -> Stages]
  /\ registered \subseteq Sessions

Carried(s) ==
  \A n \in DOMAIN lane[s] :
    /\ SessionOf[lane[s][n].job] = s
    /\ claim[lane[s][n].job] = lane[s][n].at

NoTwo(s) ==
  \A m, n \in DOMAIN lane[s] : lane[s][m].job = lane[s][n].job => m = n

Laned(s) ==
  /\ stage[s] # "queued" => Running(s)
  /\ Running(s) => s \in registered
  /\ Carried(s) /\ NoTwo(s)

LaneInv == LaneTypes /\ \A s \in Sessions : Laned(s)

(* Only the first dispatch of a lane has delivered its due time, and only *)
(* from its turn on.                                                      *)
Given == {"turn", "ran"}

Ungiven(s) ==
  \A n \in DOMAIN lane[s] :
    (n = 1 => stage[s] \notin Given) => last[lane[s][n].job] < lane[s][n].at

FreshInv == replays = {} /\ \A s \in Sessions : Ungiven(s)

(* A claim of a session the store knows has its dispatch, unless a write  *)
(* failed: of the record of that dispatch, or of a file after the claim's. *)
Held(j) ==
  claim[j] # 0 /\ SessionOf[j] \in registered /\ j \notin stranded
    => \E n \in DOMAIN lane[SessionOf[j]] :
         lane[SessionOf[j]][n] = [job |-> j, at |-> claim[j]]

HeldInv == stranded \subseteq Jobs /\ \A j \in Jobs : Held(j)

(* A worker that is down knows no session; update and shutdown stop the   *)
(* scheduler, whose timer is unset while it is stopped.                   *)
ProcessInv ==
  /\ up \in BOOLEAN /\ stopped \in BOOLEAN /\ timer \in BOOLEAN
  /\ phase \in Phases /\ parked \in BOOLEAN
  /\ ~up => registered = {} /\ phase = "none"
  /\ stopped => ~timer
  /\ phase # "none" => stopped
  /\ phase = "prepared" => Drained

(* A heartbeat waits only in an open session, and in none that a dispatch *)
(* of it is opening.                                                      *)
QueueTypes ==
  /\ closing \subseteq resident /\ streaming \subseteq resident /\ resident \subseteq Sessions
  /\ edited \subseteq Sessions /\ queued \in [Heartbeats -> {"none", "current", "stale"}]
  /\ archiving \in BOOLEAN

Waits(h) ==
  queued[h] # "none" => status[h] = "active" /\ queued[h] = "current" /\ SessionOf[h] \in resident

Empty(s) ==
  stage[s] \in {"opening", "blocked"} =>
    \A h \in Heartbeats : SessionOf[h] = s => queued[h] = "none"

QueueInv ==
  QueueTypes /\ (\A h \in Heartbeats : Waits(h)) /\ \A s \in Sessions : Empty(s)

JobsInv == FileInv /\ LaneInv /\ FreshInv /\ HeldInv /\ ProcessInv /\ QueueInv

-----------------------------------------------------------------------------
(***************************************************************************)
(* Sequences and batches.                                                  *)
(***************************************************************************)

(* A lane that runs has a first dispatch, of one of its jobs.            *)
LEMMA FirstOfLane ==
  ASSUME LaneInv, NEW s \in Sessions, Running(s)
  PROVE  /\ Len(lane[s]) \in Nat /\ DOMAIN lane[s] = 1 .. Len(lane[s]) /\ 1 \in DOMAIN lane[s]
         /\ Head(lane[s]) = lane[s][1]
         /\ Head(lane[s]) \in Dispatch /\ Job(s) \in Jobs /\ SessionOf[Job(s)] = s
         /\ claim[Job(s)] = Head(lane[s]).at /\ claim[Job(s)] # 0
<1>1. lane[s] \in Seq(Dispatch) /\ lane[s] # << >>
  BY DEF LaneInv, LaneTypes, Running
<1>2. /\ Len(lane[s]) \in Nat /\ DOMAIN lane[s] = 1 .. Len(lane[s]) /\ 1 \in DOMAIN lane[s]
      /\ Head(lane[s]) = lane[s][1] /\ Head(lane[s]) \in Dispatch
  BY <1>1
<1>3. /\ SessionOf[Job(s)] = s /\ claim[Job(s)] = Head(lane[s]).at
  BY <1>2 DEF LaneInv, Laned, Carried, Job
<1>4. Job(s) \in Jobs /\ Head(lane[s]).at \in 1 .. MaxTicks
  BY <1>2 DEF Dispatch, Job
<1>5. Head(lane[s]).at # 0
  BY <1>4
<1> QED BY <1>2, <1>3, <1>4, <1>5

(* The batch of a set of jobs runs through all of them, through each once. *)
LEMMA BatchRunsThrough ==
  ASSUME NEW J \in SUBSET Jobs
  PROVE  /\ Cardinality(J) \in Nat
         /\ Batch(J) \in [1 .. Cardinality(J) -> J]
         /\ \A m, n \in 1 .. Cardinality(J) : Batch(J)[m] = Batch(J)[n] => m = n
         /\ \A j \in J : \E n \in 1 .. Cardinality(J) : Batch(J)[n] = j
<1> DEFINE k == Cardinality(J)
           OneEach(q) == \A m, n \in DOMAIN q : q[m] = q[n] => m = n
<1>1. IsFiniteSet(J)
  BY JobConstants, FS_Subset
<1>2. k \in Nat /\ ExistsBijection(1 .. k, J)
  BY <1>1, FS_CardinalityType
<1>3. PICK f : f \in Bijection(1 .. k, J)
  BY <1>2 DEF ExistsBijection
<1>4. f \in [1 .. k -> J] /\ OneEach(f)
  BY <1>3 DEF Bijection, Injection, IsInjective
<1>5. \E q \in [1 .. k -> J] : OneEach(q)
  BY <1>4
<1>6. Batch(J) \in [1 .. k -> J] /\ OneEach(Batch(J))
  BY <1>5, Zenon DEF Batch
<1>7. Batch(J) \in Injection(1 .. k, J)
  BY <1>6 DEF Injection, IsInjective
<1>8. Cardinality(1 .. k) = k
  BY <1>2, FS_Interval
<1>9. Batch(J) \in Surjection(1 .. k, J)
  BY <1>1, <1>7, <1>8, FS_Injection
<1>10. \A j \in J : \E n \in 1 .. k : Batch(J)[n] = j
  BY <1>9 DEF Surjection
<1> QED BY <1>2, <1>6, <1>10

(* What runDue dispatches: jobs that are due and not claimed.            *)
Unclaimed == Fresh(registered)

(* runDue keeps what a lane holds, and puts behind it one dispatch of    *)
(* every unclaimed due job of the session, for its due time.             *)
LEMMA LaneOfRunDue ==
  ASSUME FileInv, LaneInv, RunDue, NEW s \in Sessions
  PROVE  /\ lane'[s] \in Seq(Dispatch)
         /\ DOMAIN lane[s] \subseteq DOMAIN lane'[s]
         /\ \A n \in DOMAIN lane[s] : lane'[s][n] = lane[s][n]
         /\ \A n \in DOMAIN lane'[s] \ DOMAIN lane[s] :
              /\ lane'[s][n].job \in Unclaimed /\ SessionOf[lane'[s][n].job] = s
              /\ lane'[s][n].at = tick[lane'[s][n].job]
         /\ \A m, n \in DOMAIN lane'[s] \ DOMAIN lane[s] :
              lane'[s][m].job = lane'[s][n].job => m = n
         /\ \A j \in Unclaimed : SessionOf[j] = s =>
              \E n \in DOMAIN lane'[s] : lane'[s][n] = [job |-> j, at |-> tick[j]]
         /\ lane'[s] # << >> => lane[s] # << >> \/ s \in registered
<1> DEFINE J == Unclaimed \cap JobsOf(s)
           b == Batch(J)
           k == Cardinality(J)
           entry(n) == [job |-> b[n], at |-> tick[b[n]]]
           added == [n \in 1 .. k |-> entry(n)]
           old == lane[s]
<1>1. J \in SUBSET Jobs /\ \A j \in J : SessionOf[j] = s /\ s \in registered
  BY DEF Unclaimed, Fresh, Due, JobsOf
<1>2. /\ k \in Nat /\ b \in [1 .. k -> J]
      /\ \A m, n \in 1 .. k : b[m] = b[n] => m = n
      /\ \A j \in J : \E n \in 1 .. k : b[n] = j
  BY <1>1, BatchRunsThrough
<1>3. lane'[s] = old \o added
  BY <1>2 DEF RunDue, Unclaimed
<1> HIDE DEF b, k
<1>4. \A n \in 1 .. k : b[n] \in J /\ b[n] \in Jobs /\ tick[b[n]] \in 1 .. MaxTicks
  BY <1>1, <1>2 DEF FileInv, FileTypes
<1> HIDE DEF J
<1>5. \A n \in 1 .. k : entry(n) \in Dispatch
  BY <1>4 DEF Dispatch
<1>6. added \in Seq(Dispatch) /\ Len(added) = k /\ \A n \in 1 .. k : added[n] = entry(n)
  <2> HIDE DEF entry
  <2> QED BY <1>2, <1>5
<1>7. old \in Seq(Dispatch)
  BY DEF LaneInv, LaneTypes
<1> HIDE DEF added, old
<1>8. /\ old \o added \in Seq(Dispatch) /\ Len(old) \in Nat
      /\ DOMAIN old = 1 .. Len(old) /\ DOMAIN (old \o added) = 1 .. Len(old) + k
      /\ \A n \in 1 .. Len(old) : (old \o added)[n] = old[n]
      /\ \A n \in 1 .. Len(old) + k :
           n \notin 1 .. Len(old) => n - Len(old) \in 1 .. k /\ (old \o added)[n] = added[n - Len(old)]
      /\ \A n \in 1 .. k : Len(old) + n \in 1 .. Len(old) + k /\ (old \o added)[Len(old) + n] = added[n]
  BY <1>2, <1>6, <1>7
<1>9. /\ lane'[s] \in Seq(Dispatch) /\ DOMAIN old \subseteq DOMAIN lane'[s]
      /\ \A n \in DOMAIN old : lane'[s][n] = old[n]
  BY <1>2, <1>3, <1>8
<1>10. ASSUME NEW n \in DOMAIN lane'[s] \ DOMAIN old
       PROVE  n - Len(old) \in 1 .. k /\ lane'[s][n] = entry(n - Len(old))
  BY <1>3, <1>6, <1>8
<1>11. ASSUME NEW n \in DOMAIN lane'[s] \ DOMAIN old
       PROVE  /\ lane'[s][n].job \in J
              /\ lane'[s][n].at = tick[lane'[s][n].job]
              /\ lane'[s][n].job = b[n - Len(old)]
  <2> DEFINE i == n - Len(old)
  <2>1. i \in 1 .. k /\ lane'[s][n] = entry(i)
    BY <1>10
  <2> HIDE DEF i
  <2>2. b[i] \in J
    BY <1>4, <2>1
  <2>3. lane'[s][n].job = b[i] /\ lane'[s][n].at = tick[b[i]]
    BY <2>1
  <2> QED BY <2>2, <2>3 DEF i
<1>12. ASSUME NEW m \in DOMAIN lane'[s] \ DOMAIN old, NEW n \in DOMAIN lane'[s] \ DOMAIN old,
              lane'[s][m].job = lane'[s][n].job
       PROVE  m = n
  <2>1. m - Len(old) = n - Len(old)
    <3>1. m - Len(old) \in 1 .. k /\ n - Len(old) \in 1 .. k
      BY <1>10
    <3>2. b[m - Len(old)] = b[n - Len(old)]
      BY <1>11, <1>12
    <3> QED BY <1>2, <3>1, <3>2
  <2>2. m \in Int /\ n \in Int /\ Len(old) \in Nat
    <3>1. Len(old) + k \in Nat
      BY <1>2, <1>8
    <3>2. m \in 1 .. Len(old) + k /\ n \in 1 .. Len(old) + k
      BY <1>3, <1>8
    <3> QED BY <1>8, <3>1, <3>2
  <2> QED BY <2>1, <2>2
<1>13. ASSUME NEW j \in J
       PROVE  \E n \in DOMAIN lane'[s] : lane'[s][n] = [job |-> j, at |-> tick[j]]
  <2>1. PICK n \in 1 .. k : b[n] = j
    BY <1>2
  <2>2. Len(old) + n \in DOMAIN lane'[s] /\ lane'[s][Len(old) + n] = entry(n)
    BY <1>3, <1>6, <1>8
  <2> QED BY <2>1, <2>2
<1>14. lane'[s] # << >> => old # << >> \/ s \in registered
  <2>1. J # {} => s \in registered
    BY <1>1
  <2>2. lane'[s] # << >> /\ old = << >> => 1 \in DOMAIN lane'[s] \ DOMAIN old
    BY <1>9
  <2> QED BY <1>11, <2>1, <2>2
<1>15. \A j \in J : j \in Unclaimed /\ SessionOf[j] = s
  BY DEF J, JobsOf
<1>16. \A j \in Unclaimed : SessionOf[j] = s => j \in J
  BY DEF J, JobsOf, Unclaimed, Fresh, Due
<1> QED BY <1>9, <1>11, <1>12, <1>13, <1>14, <1>15, <1>16 DEF old

-----------------------------------------------------------------------------
(***************************************************************************)
(* What a step does to the lanes, the claims and the deliveries.           *)
(***************************************************************************)
Rests == UNCHANGED << lane, stage, claim, tick, last, replays, registered, stranded >>

(* The first dispatch of a lane gets on; it delivers once, at the fence or *)
(* past it.                                                                *)
Moves(s) ==
  /\ Running(s) /\ \E to \in Stages \ {"queued"} : Goto(s, to)
  /\ UNCHANGED << lane, claim, tick, registered, stranded >>
  /\ \/ UNCHANGED << last, replays >> /\ (stage[s] \in Given => stage'[s] \in Given)
     \/ Delivered(Head(lane[s])) /\ stage[s] \notin Given /\ stage'[s] \in Given

Registers(s) ==
  /\ s \notin registered /\ registered' = registered \cup {s}
  /\ claim' = [j \in Jobs |-> IF SessionOf[j] = s THEN 0 ELSE claim[j]]
  /\ UNCHANGED << lane, stage, tick, last, replays, stranded >>

(* The first dispatch of a lane ends, with its record or without.          *)
Ends(s) ==
  /\ Running(s) /\ EndDispatch(s)
  /\ UNCHANGED << tick, last, replays, registered >>
  /\ \/ claim' = Set(claim, Job(s), 0) /\ UNCHANGED stranded
     \/ UNCHANGED claim /\ stranded' = stranded \cup {Job(s)}

(* Claims are written in the files of some sessions, and not dispatched.  *)
Strands(F) ==
  /\ Claimed(F) /\ stranded' = stranded \cup Fresh(F)
  /\ UNCHANGED << lane, stage, last, replays, registered >>

(* Jobs, time and the process move nothing in a lane.                    *)
LEMMA JobsAndProcessRest ==
  ASSUME (\E j \in Jobs : JobStep(j)) \/ (\E h \in Heartbeats : StartQueued(h))
           \/ PrepareUpdate \/ Prepared \/ CancelUpdate \/ Archive \/ Shutdown \/ Restart
  PROVE  Rests
<1>1. ASSUME NEW j \in Jobs, JobStep(j) PROVE Rests
  <2>1. CASE Create(j) \/ Pause(j) \/ Resume(j)
    BY <2>1 DEF Create, Pause, Resume, Rests, lanes, history
  <2>2. CASE Edit(j)
    BY <2>2 DEF Edit, Rests, disk, history
  <2>3. CASE Cancel(j) \/ FallsDue(j)
    BY <2>3 DEF Cancel, FallsDue, Rests, lanes, history
  <2> QED BY <1>1, <2>1, <2>2, <2>3 DEF JobStep
<1>2. ASSUME NEW h \in Heartbeats, StartQueued(h) PROVE Rests
  BY <1>2 DEF StartQueued, Rests, disk, lanes, history
<1>3. CASE PrepareUpdate \/ Prepared \/ CancelUpdate \/ Shutdown \/ Restart
  BY <1>3 DEF PrepareUpdate, Prepared, CancelUpdate, Shutdown, Restart, Rests, disk, lanes, history
<1>4. CASE Archive
  BY <1>4 DEF Archive, Rests, lanes, history
<1> QED BY <1>1, <1>2, <1>3, <1>4

(* A session that is registered anew recovers its claims.                *)
LEMMA RegisteredShape ==
  ASSUME FileInv, NEW s \in Sessions, Registered(s),
         UNCHANGED << lane, stage, tick, last, replays, stranded >>
  PROVE  Rests \/ Registers(s)
<1>1. CASE s \in registered
  BY <1>1 DEF Registered, Rests
<1>2. CASE s \notin registered
  <2>1. registered' = registered \cup {s} /\ Recovered(JobsOf(s))
    BY <1>2 DEF Registered
  <2>2. claim' = [j \in Jobs |-> IF SessionOf[j] = s THEN 0 ELSE claim[j]]
    BY <2>1 DEF Recovered, JobsOf
  <2> QED BY <1>2, <2>1, <2>2 DEF Registers
<1> QED BY <1>1, <1>2

(* A dispatch that is not at its end moves or rests.                     *)
LEMMA DispatchMoves ==
  ASSUME LaneInv, NEW s \in Sessions, DispatchStep(s), ~Finish(s)
  PROVE  Moves(s)
<1> USE DEF Stages, Given
<1>1. CASE Begin(s) \/ ReadInfo(s) \/ CancelBlocked(s) \/ Proceed(s)
  <2>1. Running(s) /\ stage[s] \notin Given
    BY <1>1 DEF Begin, ReadInfo, CancelBlocked, Proceed, LaneInv, Laned
  <2>2. UNCHANGED << lane, claim, tick, registered, stranded, last, replays >>
    BY <1>1 DEF Begin, ReadInfo, CancelBlocked, Proceed, disk, history
  <2>3. \E to \in Stages \ {"queued"} : Goto(s, to)
    BY <1>1 DEF Begin, ReadInfo, CancelBlocked, Proceed
  <2> QED BY <2>1, <2>2, <2>3 DEF Moves
<1>2. CASE Admit(s) \/ Unwanted(s)
  <2>1. Running(s) /\ stage[s] = "fence"
    BY <1>2 DEF Admit, Unwanted, LaneInv, Laned
  <2>2. UNCHANGED << lane, claim, tick, registered, stranded >>
    BY <1>2 DEF Admit, Unwanted, disk, history
  <2>3. stage \in [Sessions -> Stages]
    BY DEF LaneInv, LaneTypes
  <2>4. CASE Admit(s)
    <3>1. \E to \in Given : Goto(s, to)
      BY <2>4 DEF Admit
    <3>2. stage'[s] \in Given
      BY <2>3, <3>1 DEF Goto, Set
    <3> QED BY <2>1, <2>2, <2>4, <3>1, <3>2 DEF Moves, Admit
  <2>5. CASE Unwanted(s)
    BY <2>1, <2>2, <2>5 DEF Moves, Unwanted, history
  <2> QED BY <1>2, <2>4, <2>5
<1>3. CASE FollowUp(s)
  <2>1. Running(s) /\ stage[s] \notin Given /\ stage \in [Sessions -> Stages]
    BY <1>3 DEF FollowUp, LaneInv, LaneTypes, Laned
  <2>2. UNCHANGED << lane, claim, tick, registered, stranded >>
    BY <1>3 DEF FollowUp, disk
  <2>3. Goto(s, "ran") /\ stage'[s] \in Given
    BY <1>3, <2>1 DEF FollowUp, Goto, Set
  <2> QED BY <1>3, <2>1, <2>2, <2>3 DEF Moves, FollowUp
<1> QED BY <1>1, <1>2, <1>3 DEF DispatchStep

(* Sessions that open, take turns and close.                             *)
LEMMA SessionShape ==
  ASSUME FileInv, LaneInv, NEW s \in Sessions, SessionStep(s), ~FinishFails(s)
  PROVE  Rests \/ Moves(s) \/ Registers(s)
<1>1. CASE RegisterPassive(s) \/ OpenSession(s)
  <2>1. /\ Registered(s)
        /\ UNCHANGED << lane, stage, tick, last, replays, stranded >>
    BY <1>1 DEF RegisterPassive, OpenSession, lanes, history
  <2> QED BY <2>1, RegisteredShape
<1>2. CASE StartTurn(s)
  BY <1>2 DEF StartTurn, Rests, disk, lanes, history
<1>3. ASSUME NEW reason, BeginClose(s, reason) PROVE Rests
  BY <1>3 DEF BeginClose, Rests, lanes, history
<1>4. CASE EndTurn(s) \/ EndClose(s)
  <2>1. UNCHANGED << lane, claim, tick, registered, stranded, last, replays >>
    BY <1>4 DEF EndTurn, EndClose, disk, history
  <2>2. CASE UNCHANGED stage
    BY <2>1, <2>2 DEF Rests
  <2>3. CASE stage' # stage
    <3>1. \/ stage[s] \in {"turn", "fence"} /\ Goto(s, "ran")
          \/ stage[s] = "opened" /\ Goto(s, "skipped")
      BY <1>4, <2>3 DEF EndTurn, EndClose, Goto
    <3>2. Running(s) /\ stage \in [Sessions -> Stages]
      BY <3>1 DEF LaneInv, Laned, LaneTypes
    <3>3. stage[s] \in Given => stage'[s] \in Given
      BY <3>1, <3>2 DEF Given, Goto, Set
    <3> QED BY <2>1, <3>1, <3>2, <3>3 DEF Moves, Stages
  <2> QED BY <2>2, <2>3
<1> QED BY <1>1, <1>2, <1>3, <1>4 DEF SessionStep

(* A dispatch ends with its claim taken back, or with its record lost.   *)
LEMMA DispatchEnds ==
  ASSUME LaneInv, NEW s \in Sessions, Finish(s) \/ FinishFails(s)
  PROVE  Ends(s)
<1>1. Running(s)
  BY DEF Finish, FinishFails, Settled, LaneInv, Laned
<1>2. CASE Finish(s)
  <2>1. claim[Job(s)] = Head(lane[s]).at
    BY <1>1, FirstOfLane
  <2>2. claim' = Set(claim, Job(s), 0)
    BY <1>2, <2>1 DEF Finish, Recorded, Job
  <2> QED BY <1>1, <1>2, <2>2 DEF Finish, Ends, history
<1>3. CASE FinishFails(s)
  BY <1>1, <1>3 DEF FinishFails, Ends, disk
<1> QED BY <1>2, <1>3

(* A claim of several files that fails leaves some of them claimed.      *)
LEMMA FailureStrands ==
  ASSUME RunDueFails
  PROVE  \E F \in SUBSET registered : Strands(F)
BY DEF RunDueFails, Strands, lanes

(* Every step is of one of these shapes.                                 *)
LEMMA StepShape ==
  ASSUME FileInv, LaneInv, [Next]_vars
  PROVE  \/ Rests \/ RunDue \/ ProcessEnds \/ \E F \in SUBSET registered : Strands(F)
         \/ \E s \in Sessions : Moves(s) \/ Registers(s) \/ Ends(s)
<1>1. CASE UNCHANGED vars
  BY <1>1 DEF vars, disk, lanes, history, Rests
<1>2. ASSUME NEW s \in Sessions, DispatchStep(s) \/ SessionStep(s)
      PROVE  Rests \/ Moves(s) \/ Registers(s) \/ Ends(s)
  BY <1>2, DispatchMoves, SessionShape, DispatchEnds
<1>3. CASE ProcessStep
  BY <1>3, JobsAndProcessRest DEF ProcessStep, CommitUpdate, Exit, Crash
<1> QED BY <1>1, <1>2, <1>3, JobsAndProcessRest, FailureStrands DEF Next

-----------------------------------------------------------------------------
(***************************************************************************)
(* The lanes.                                                              *)
(***************************************************************************)

(* What a lane holds is a dispatch of one of its jobs, and claimed.      *)
LEMMA EntryOfLane ==
  ASSUME LaneInv, NEW s \in Sessions, NEW n \in DOMAIN lane[s]
  PROVE  /\ lane[s][n].job \in Jobs /\ lane[s][n].at \in 1 .. MaxTicks
         /\ SessionOf[lane[s][n].job] = s
         /\ claim[lane[s][n].job] = lane[s][n].at /\ claim[lane[s][n].job] # 0
<1>1. lane[s] \in Seq(Dispatch)
  BY DEF LaneInv, LaneTypes
<1>2. lane[s][n] \in Dispatch
  BY <1>1
<1>3. lane[s][n].job \in Jobs /\ lane[s][n].at \in 1 .. MaxTicks
  BY <1>2 DEF Dispatch
<1>4. lane[s][n].at # 0
  BY <1>3
<1> QED BY <1>3, <1>4 DEF LaneInv, Laned, Carried

(* A dispatch that ends leaves the rest of its lane, moved up by one.    *)
LEMMA RestOfLane ==
  ASSUME LaneInv, NEW s \in Sessions, Running(s), EndDispatch(s)
  PROVE  /\ lane'[s] \in Seq(Dispatch) /\ stage'[s] = "queued"
         /\ \A n \in DOMAIN lane'[s] :
              n + 1 \in DOMAIN lane[s] /\ n + 1 # 1 /\ lane'[s][n] = lane[s][n + 1]
         /\ \A n \in DOMAIN lane[s] : n # 1 =>
              n - 1 \in DOMAIN lane'[s] /\ lane'[s][n - 1] = lane[s][n]
         /\ \A u \in Sessions : u # s => lane'[u] = lane[u] /\ stage'[u] = stage[u]
<1>1. lane \in [Sessions -> Seq(Dispatch)] /\ stage \in [Sessions -> Stages]
  BY DEF LaneInv, LaneTypes
<1>2. /\ lane'[s] = Tail(lane[s]) /\ stage'[s] = "queued"
      /\ \A u \in Sessions : u # s => lane'[u] = lane[u] /\ stage'[u] = stage[u]
  BY <1>1 DEF EndDispatch, Goto, Set
<1>3. lane[s] \in Seq(Dispatch) /\ lane[s] # << >>
  BY <1>1 DEF Running
<1>4. /\ Tail(lane[s]) \in Seq(Dispatch) /\ Len(Tail(lane[s])) = Len(lane[s]) - 1
      /\ Len(lane[s]) \in Nat /\ DOMAIN lane[s] = 1 .. Len(lane[s])
      /\ DOMAIN Tail(lane[s]) = 1 .. Len(Tail(lane[s]))
      /\ \A n \in 1 .. Len(lane[s]) - 1 : Tail(lane[s])[n] = lane[s][n + 1]
  BY <1>3
<1> QED BY <1>2, <1>4

(* Moves touches no other lane.                                          *)
LEMMA MovesHere ==
  ASSUME LaneTypes, NEW s \in Sessions, Moves(s)
  PROVE  /\ stage' \in [Sessions -> Stages] /\ stage'[s] # "queued"
         /\ \A u \in Sessions : u # s => stage'[u] = stage[u]
BY DEF LaneTypes, Moves, Goto, Set, Stages

(* The lanes hold dispatches that are claimed, of jobs of their session. *)
LEMMA LaneNext ==
  ASSUME FileInv, LaneInv, [Next]_vars
  PROVE  LaneInv'
<1> USE DEF Laned, Carried, NoTwo, Running
<1>1. CASE Rests
  BY <1>1 DEF Rests, LaneInv, LaneTypes
<1>2. ASSUME NEW s \in Sessions, Moves(s) PROVE LaneInv'
  <2>1. /\ UNCHANGED << lane, claim, registered >> /\ lane[s] # << >>
        /\ \A u \in Sessions : u # s => stage'[u] = stage[u]
    BY <1>2, MovesHere DEF Moves, LaneInv
  <2>2. LaneTypes'
    BY <1>2, <2>1, MovesHere DEF LaneInv, LaneTypes
  <2>3. ASSUME NEW u \in Sessions PROVE Laned(u)'
    BY <2>1 DEF LaneInv
  <2> QED BY <2>2, <2>3 DEF LaneInv
<1>3. ASSUME NEW s \in Sessions, Registers(s) PROVE LaneInv'
  <2>1. /\ UNCHANGED << lane, stage >> /\ registered' = registered \cup {s}
        /\ claim' = [j \in Jobs |-> IF SessionOf[j] = s THEN 0 ELSE claim[j]]
    BY <1>3 DEF Registers
  <2>2. LaneTypes'
    BY <2>1 DEF LaneInv, LaneTypes
  <2>3. lane[s] = << >> /\ DOMAIN lane[s] = {}
    <3>1. lane[s] = << >>
      BY <1>3 DEF Registers, LaneInv
    <3> QED BY <3>1
  <2>4. ASSUME NEW u \in Sessions, NEW n \in DOMAIN lane[u]
        PROVE  claim'[lane[u][n].job] = claim[lane[u][n].job]
    <3>1. u # s
      BY <2>3
    <3> QED BY <2>1, <3>1, EntryOfLane
  <2>5. ASSUME NEW u \in Sessions PROVE Laned(u)'
    BY <2>1, <2>4 DEF LaneInv
  <2> QED BY <2>2, <2>5 DEF LaneInv
<1>4. ASSUME NEW s \in Sessions, Ends(s) PROVE LaneInv'
  <2>1. EndDispatch(s) /\ lane[s] # << >> /\ registered' = registered
    BY <1>4 DEF Ends
  <2>2. claim' = claim \/ claim' = [claim EXCEPT ![Job(s)] = 0]
    BY <1>4 DEF Ends, Set
  <2>3. Head(lane[s]) = lane[s][1] /\ 1 \in DOMAIN lane[s] /\ SessionOf[Job(s)] = s
    BY <2>1, FirstOfLane
  <2>4. /\ lane'[s] \in Seq(Dispatch) /\ stage'[s] = "queued"
        /\ \A n \in DOMAIN lane'[s] : n + 1 \in DOMAIN lane[s] /\ n + 1 # 1 /\ lane'[s][n] = lane[s][n + 1]
        /\ \A u \in Sessions : u # s => lane'[u] = lane[u] /\ stage'[u] = stage[u]
    BY <2>1, RestOfLane
  <2>5. LaneTypes'
    BY <2>1, <2>4 DEF LaneInv, LaneTypes, EndDispatch, Goto, Set, Stages
  <2>6. ASSUME NEW j \in Jobs, j # Job(s) PROVE claim'[j] = claim[j]
    BY <2>2, <2>6 DEF FileInv, FileTypes
  <2>7. ASSUME NEW u \in Sessions, u # s PROVE Laned(u)'
    <3>1. \A n \in DOMAIN lane[u] : lane[u][n].job \in Jobs /\ lane[u][n].job # Job(s)
      BY <2>3, <2>7, EntryOfLane
    <3> QED BY <2>1, <2>4, <2>6, <2>7, <3>1 DEF LaneInv
  <2>8. Laned(s)'
    <3>1. ASSUME NEW n \in DOMAIN lane'[s]
          PROVE  /\ SessionOf[lane'[s][n].job] = s /\ lane'[s][n].job # Job(s)
                 /\ claim'[lane'[s][n].job] = lane'[s][n].at
      <4>1. n + 1 \in DOMAIN lane[s] /\ n + 1 # 1 /\ lane'[s][n] = lane[s][n + 1]
        BY <2>4
      <4>2. lane[s][n + 1].job # Job(s)
        BY <2>3, <4>1 DEF LaneInv, Job
      <4> QED BY <2>6, <4>1, <4>2, EntryOfLane
    <3>2. NoTwo(s)'
      <4>1. ASSUME NEW m \in DOMAIN lane'[s], NEW n \in DOMAIN lane'[s],
                   lane'[s][m].job = lane'[s][n].job
            PROVE  m = n
        <5>1. m + 1 = n + 1
          BY <2>4, <4>1 DEF LaneInv
        <5>2. m \in Nat /\ n \in Nat
          BY <2>4
        <5> QED BY <5>1, <5>2
      <4> QED BY <4>1
    <3>3. lane'[s] # << >> => s \in registered
      BY <2>1 DEF LaneInv
    <3> QED BY <2>1, <2>4, <3>1, <3>2, <3>3
  <2> QED BY <2>5, <2>7, <2>8 DEF LaneInv
<1>5. CASE RunDue
  <2>1. /\ UNCHANGED << stage, registered >> /\ lane' = [s \in Sessions |-> lane'[s]]
        /\ claim' = [j \in Jobs |-> IF j \in Unclaimed THEN tick[j] ELSE claim[j]]
    BY <1>5 DEF RunDue, Claimed, Unclaimed
  <2>2. \A s \in Sessions : lane'[s] \in Seq(Dispatch)
    BY <1>5, LaneOfRunDue
  <2>3. LaneTypes'
    BY <2>1, <2>2 DEF LaneInv, LaneTypes
  <2>4. ASSUME NEW s \in Sessions PROVE Laned(s)'
    <3>1. /\ DOMAIN lane[s] \subseteq DOMAIN lane'[s]
          /\ \A n \in DOMAIN lane[s] : lane'[s][n] = lane[s][n]
          /\ \A n \in DOMAIN lane'[s] \ DOMAIN lane[s] :
              /\ lane'[s][n].job \in Unclaimed /\ SessionOf[lane'[s][n].job] = s
              /\ lane'[s][n].at = tick[lane'[s][n].job]
          /\ \A m, n \in DOMAIN lane'[s] \ DOMAIN lane[s] :
              lane'[s][m].job = lane'[s][n].job => m = n
          /\ lane'[s] # << >> => lane[s] # << >> \/ s \in registered
      BY <1>5, LaneOfRunDue
    <3>2. ASSUME NEW n \in DOMAIN lane[s]
          PROVE  /\ SessionOf[lane[s][n].job] = s /\ lane[s][n].job \notin Unclaimed
                 /\ claim'[lane[s][n].job] = lane[s][n].at
      BY <2>1, EntryOfLane DEF Unclaimed, Fresh
    <3>3. \A n \in DOMAIN lane'[s] \ DOMAIN lane[s] : claim'[lane'[s][n].job] = lane'[s][n].at
      BY <2>1, <3>1 DEF Unclaimed, Fresh, Due
    <3>4. Carried(s)'
      BY <3>1, <3>2, <3>3
    <3>5. NoTwo(s)'
      BY <3>1, <3>2 DEF LaneInv
    <3>6. (stage'[s] # "queued" => lane'[s] # << >>) /\ (lane'[s] # << >> => s \in registered')
      <4>1. lane[s] # << >> => lane'[s] # << >>
        BY <3>1 DEF LaneInv, LaneTypes
      <4> QED BY <2>1, <3>1, <4>1 DEF LaneInv
    <3> QED BY <3>4, <3>5, <3>6
  <2> QED BY <2>3, <2>4 DEF LaneInv
<1>6. CASE ProcessEnds
  BY <1>6 DEF ProcessEnds, LaneInv, LaneTypes, Stages
<1>7. ASSUME NEW F \in SUBSET registered, Strands(F) PROVE LaneInv'
  <2>1. /\ UNCHANGED << lane, stage, registered >>
        /\ claim' = [j \in Jobs |-> IF j \in Fresh(F) THEN tick[j] ELSE claim[j]]
    BY <1>7 DEF Strands, Claimed
  <2>2. \A s \in Sessions : \A n \in DOMAIN lane[s] : claim'[lane[s][n].job] = claim[lane[s][n].job]
    BY <2>1, EntryOfLane DEF Fresh
  <2> QED BY <2>1, <2>2 DEF LaneInv, LaneTypes
<1> QED BY <1>1, <1>2, <1>3, <1>4, <1>5, <1>6, <1>7, StepShape

-----------------------------------------------------------------------------
(***************************************************************************)
(* Deliveries.                                                             *)
(***************************************************************************)

(* A due time is delivered after every earlier one of its job, once.     *)
LEMMA FreshNext ==
  ASSUME FileInv, LaneInv, FreshInv, [Next]_vars
  PROVE  FreshInv'
<1> USE DEF Ungiven
<1>1. CASE Rests
  BY <1>1 DEF Rests, FreshInv
<1>2. ASSUME NEW s \in Sessions, Moves(s) PROVE FreshInv'
  <2>1. UNCHANGED lane /\ Running(s) /\ \A u \in Sessions : u # s => stage'[u] = stage[u]
    BY <1>2, MovesHere DEF Moves, LaneInv
  <2>2. CASE UNCHANGED << last, replays >> /\ (stage[s] \in Given => stage'[s] \in Given)
    BY <2>1, <2>2 DEF FreshInv
  <2>3. CASE Delivered(Head(lane[s])) /\ stage[s] \notin Given /\ stage'[s] \in Given
    <3>1. /\ Head(lane[s]) = lane[s][1] /\ 1 \in DOMAIN lane[s]
          /\ Job(s) = lane[s][1].job /\ Job(s) \in Jobs /\ SessionOf[Job(s)] = s
      BY <2>1, FirstOfLane DEF Job
    <3>2. last[Job(s)] < lane[s][1].at /\ last[Job(s)] \in Nat /\ lane[s][1].at \in Nat
      <4>1. stage[s] \notin Given
        BY <2>3
      <4>2. last[Job(s)] < lane[s][1].at
        BY <3>1, <4>1 DEF FreshInv
      <4>3. lane[s][1].at \in 1 .. MaxTicks /\ last[Job(s)] \in 0 .. MaxTicks
        BY <3>1, EntryOfLane DEF FileInv, FileTypes
      <4> QED BY <4>2, <4>3
    <3>3. replays' = replays /\ \A j \in Jobs : j # Job(s) => last'[j] = last[j]
      BY <2>3, <3>1, <3>2 DEF Delivered, Set, Job, FileInv, FileTypes
    <3>4. ASSUME NEW u \in Sessions PROVE Ungiven(u)'
      <4>1. ASSUME NEW n \in DOMAIN lane[u], n = 1 => stage'[u] \notin Given
            PROVE  last'[lane[u][n].job] < lane[u][n].at
        <5>1. u = s => n # 1
          BY <2>3, <4>1
        <5>2. lane[u][n].job # Job(s)
          BY <3>1, <5>1, EntryOfLane DEF LaneInv, Laned, NoTwo
        <5>3. last'[lane[u][n].job] = last[lane[u][n].job]
          BY <3>3, <5>2, EntryOfLane
        <5>4. n = 1 => stage[u] \notin Given
          BY <2>1, <4>1, <5>1
        <5> QED BY <5>3, <5>4 DEF FreshInv
      <4> QED BY <2>1, <4>1
    <3> QED BY <3>3, <3>4 DEF FreshInv
  <2> QED BY <1>2, <2>2, <2>3 DEF Moves
<1>3. ASSUME NEW s \in Sessions, Registers(s) PROVE FreshInv'
  BY <1>3 DEF Registers, FreshInv
<1>4. ASSUME NEW s \in Sessions, Ends(s) PROVE FreshInv'
  <2>1. UNCHANGED << last, replays >> /\ Running(s) /\ EndDispatch(s)
    BY <1>4 DEF Ends
  <2>2. /\ \A n \in DOMAIN lane'[s] : n + 1 \in DOMAIN lane[s] /\ n + 1 # 1 /\ lane'[s][n] = lane[s][n + 1]
        /\ \A u \in Sessions : u # s => lane'[u] = lane[u] /\ stage'[u] = stage[u]
    BY <2>1, RestOfLane
  <2>3. ASSUME NEW n \in DOMAIN lane'[s] PROVE last[lane'[s][n].job] < lane'[s][n].at
    BY <2>2 DEF FreshInv
  <2> QED BY <2>1, <2>2, <2>3 DEF FreshInv
<1>5. CASE RunDue
  <2>1. UNCHANGED << stage, last, replays >>
    BY <1>5 DEF RunDue, history
  <2>2. ASSUME NEW s \in Sessions PROVE Ungiven(s)'
    <3>1. ASSUME NEW n \in DOMAIN lane'[s] \ DOMAIN lane[s]
          PROVE  last[lane'[s][n].job] < lane'[s][n].at
      <4>1. lane'[s][n].job \in Jobs /\ lane'[s][n].at = tick[lane'[s][n].job]
        BY <1>5, LaneOfRunDue DEF Unclaimed, Fresh, Due
      <4> QED BY <4>1 DEF FileInv, Filed
    <3>2. \A n \in DOMAIN lane[s] : lane'[s][n] = lane[s][n]
      BY <1>5, LaneOfRunDue
    <3> QED BY <2>1, <3>1, <3>2 DEF FreshInv
  <2> QED BY <2>1, <2>2 DEF FreshInv
<1>6. CASE ProcessEnds
  BY <1>6 DEF ProcessEnds, FreshInv
<1>7. ASSUME NEW F \in SUBSET registered, Strands(F) PROVE FreshInv'
  BY <1>7 DEF Strands, FreshInv
<1> QED BY <1>1, <1>2, <1>3, <1>4, <1>5, <1>6, <1>7, StepShape

-----------------------------------------------------------------------------
(***************************************************************************)
(* Claims.                                                                 *)
(***************************************************************************)

(* A claim has its dispatch, until its record is written or lost.        *)
LEMMA HeldNext ==
  ASSUME FileInv, LaneInv, HeldInv, [Next]_vars
  PROVE  HeldInv'
<1> USE DEF Held
<1>1. CASE Rests
  BY <1>1 DEF Rests, HeldInv
<1>2. ASSUME NEW s \in Sessions, Moves(s) PROVE HeldInv'
  BY <1>2 DEF Moves, HeldInv
<1>3. ASSUME NEW s \in Sessions, Registers(s) PROVE HeldInv'
  BY <1>3 DEF Registers, HeldInv
<1>4. ASSUME NEW s \in Sessions, Ends(s) PROVE HeldInv'
  <2>1. registered' = registered /\ Running(s) /\ EndDispatch(s)
    BY <1>4 DEF Ends
  <2>2. /\ \A n \in DOMAIN lane[s] : n # 1 => n - 1 \in DOMAIN lane'[s] /\ lane'[s][n - 1] = lane[s][n]
        /\ \A u \in Sessions : u # s => lane'[u] = lane[u] /\ stage'[u] = stage[u]
    BY <2>1, RestOfLane
  <2>3. Head(lane[s]) = lane[s][1] /\ Job(s) \in Jobs /\ SessionOf[Job(s)] = s
    BY <2>1, FirstOfLane
  <2>4. /\ stranded' \subseteq Jobs /\ stranded \subseteq stranded'
        /\ claim'[Job(s)] = 0 \/ Job(s) \in stranded'
        /\ \A j \in Jobs : j # Job(s) => claim'[j] = claim[j]
    BY <1>4, <2>3 DEF Ends, Set, HeldInv, FileInv, FileTypes
  <2>5. ASSUME NEW j \in Jobs PROVE Held(j)'
    <3>1. CASE j = Job(s)
      BY <2>4, <3>1
    <3>2. CASE j # Job(s) /\ SessionOf[j] = s
      <4>1. SUFFICES ASSUME claim[j] # 0, s \in registered, j \notin stranded
                     PROVE  \E n \in DOMAIN lane'[s] : lane'[s][n] = [job |-> j, at |-> claim[j]]
        BY <2>1, <2>4, <3>2
      <4>2. PICK n \in DOMAIN lane[s] : lane[s][n] = [job |-> j, at |-> claim[j]]
        BY <3>2, <4>1 DEF HeldInv
      <4>3. n # 1
        BY <2>3, <3>2, <4>2 DEF Job
      <4> QED BY <2>2, <4>2, <4>3
    <3>3. CASE SessionOf[j] # s
      <4>1. SessionOf[j] \in Sessions
        BY JobConstants
      <4> QED BY <2>1, <2>2, <2>3, <2>4, <3>3, <4>1 DEF HeldInv
    <3> QED BY <3>1, <3>2, <3>3
  <2> QED BY <2>4, <2>5 DEF HeldInv
<1>5. CASE RunDue
  <2>1. /\ UNCHANGED << stranded, registered >>
        /\ claim' = [j \in Jobs |-> IF j \in Unclaimed THEN tick[j] ELSE claim[j]]
    BY <1>5 DEF RunDue, Claimed, Unclaimed, history
  <2>2. ASSUME NEW j \in Jobs PROVE Held(j)'
    <3>1. SessionOf[j] \in Sessions
      BY JobConstants
    <3>2. CASE j \in Unclaimed
      <4>1. \E n \in DOMAIN lane'[SessionOf[j]] : lane'[SessionOf[j]][n] = [job |-> j, at |-> tick[j]]
        BY SMTT(30), <1>5, <3>1, <3>2, LaneOfRunDue
      <4> QED BY <2>1, <3>2, <4>1
    <3>3. CASE j \notin Unclaimed
      <4>1. /\ DOMAIN lane[SessionOf[j]] \subseteq DOMAIN lane'[SessionOf[j]]
            /\ \A n \in DOMAIN lane[SessionOf[j]] : lane'[SessionOf[j]][n] = lane[SessionOf[j]][n]
        BY <1>5, <3>1, LaneOfRunDue
      <4> QED BY <2>1, <3>3, <4>1 DEF HeldInv
    <3> QED BY <3>2, <3>3
  <2> QED BY <2>1, <2>2 DEF HeldInv
<1>6. CASE ProcessEnds
  BY <1>6 DEF ProcessEnds, HeldInv
<1>7. ASSUME NEW F \in SUBSET registered, Strands(F) PROVE HeldInv'
  <2>1. /\ UNCHANGED << lane, registered >> /\ stranded' = stranded \cup Fresh(F)
        /\ claim' = [j \in Jobs |-> IF j \in Fresh(F) THEN tick[j] ELSE claim[j]]
    BY <1>7 DEF Strands, Claimed
  <2>2. Fresh(F) \subseteq Jobs
    BY DEF Fresh, Due
  <2> QED BY <2>1, <2>2 DEF HeldInv
<1> QED BY <1>1, <1>2, <1>3, <1>4, <1>5, <1>6, <1>7, StepShape

-----------------------------------------------------------------------------
(***************************************************************************)
(* The session files.                                                      *)
(***************************************************************************)

(* Cancelled jobs have no next time.                                     *)
LEMMA CancelledFiled ==
  ASSUME FileInv, NEW J \in SUBSET Jobs, Cancelled(J),
         UNCHANGED << tick, claim, last >>, archived' \in BOOLEAN
  PROVE  FileInv'
<1>1. FileTypes'
  BY DEF FileInv, FileTypes, Cancelled, Statuses
<1>2. ASSUME NEW j \in Jobs PROVE Filed(j)'
  BY DEF FileInv, FileTypes, Filed, Cancelled
<1> QED BY <1>1, <1>2 DEF FileInv

(* What a client or the session does to a job leaves its file in order.  *)
LEMMA JobStepFiled ==
  ASSUME FileInv, NEW j \in Jobs, JobStep(j)
  PROVE  FileInv'
<1> USE DEF Set, Statuses
<1>1. CASE Cancel(j)
  <2>1. Cancelled({j}) /\ UNCHANGED << tick, claim, last, archived >>
    BY <1>1 DEF Cancel, history
  <2> QED BY <2>1, CancelledFiled DEF FileInv, FileTypes
<1>2. CASE Create(j) \/ Pause(j) \/ Resume(j) \/ FallsDue(j)
  <2>1. UNCHANGED << tick, claim, last, archived >>
    BY <1>2 DEF Create, Pause, Resume, FallsDue, history
  <2>2. FileTypes'
    BY <1>2, <2>1 DEF FileInv, FileTypes, Create, Pause, Resume, FallsDue
  <2>3. ASSUME NEW i \in Jobs PROVE Filed(i)'
    <3>1. CASE i # j
      <4>1. status'[i] = status[i] /\ next'[i] = next[i]
        BY <1>2, <3>1 DEF FileInv, FileTypes, Create, Pause, Resume, FallsDue
      <4> QED BY <2>1, <4>1 DEF FileInv, Filed
    <3>2. CASE i = j /\ Create(j)
      <4>1. status'[j] = "active" /\ next'[j] = "later" /\ claim[j] = 0
        BY <3>2 DEF FileInv, FileTypes, Filed, Create
      <4> QED BY <2>1, <3>2, <4>1 DEF FileInv, Filed
    <3>3. CASE i = j /\ Pause(j)
      <4>1. status'[j] = "paused" /\ next'[j] = "none"
        BY <3>3 DEF FileInv, FileTypes, Pause
      <4> QED BY <2>1, <3>3, <4>1 DEF FileInv, Filed
    <3>4. CASE i = j /\ Resume(j)
      <4>1. status'[j] = "active" /\ next'[j] = "later" /\ j \notin Once
        BY <3>4, JobConstants DEF FileInv, FileTypes, Resume
      <4> QED BY <2>1, <3>4, <4>1 DEF FileInv, Filed
    <3>5. CASE i = j /\ FallsDue(j)
      <4>1. status'[j] = status[j] /\ next'[j] = "due" /\ next[j] = "later" /\ tick[j] < MaxTicks
        BY <3>5 DEF FileInv, FileTypes, FallsDue
      <4> QED BY <2>1, <3>5, <4>1 DEF FileInv, Filed
    <3> QED BY <1>2, <3>1, <3>2, <3>3, <3>4, <3>5
  <2> QED BY <2>2, <2>3 DEF FileInv
<1>3. CASE Edit(j)
  BY <1>3 DEF Edit, disk, history, FileInv, FileTypes, Filed
<1> QED BY <1>1, <1>2, <1>3 DEF JobStep

(* A claim advances its job, past the due time that is claimed.          *)
LEMMA ClaimedFiled ==
  ASSUME FileInv, NEW F, Claimed(F), UNCHANGED << status, archived, last >>
  PROVE  FileInv'
<1>1. /\ claim' = [j \in Jobs |-> IF j \in Fresh(F) THEN tick[j] ELSE claim[j]]
      /\ next' = [j \in Jobs |-> IF j \notin Due(F) THEN next[j] ELSE IF j \in Once THEN "none" ELSE "later"]
      /\ tick' = [j \in Jobs |-> IF j \in Due(F) THEN tick[j] + 1 ELSE tick[j]]
  BY DEF Claimed, Advance
<1>2. ASSUME NEW j \in Jobs
      PROVE  /\ tick'[j] \in 1 .. MaxTicks /\ claim'[j] \in 0 .. MaxTicks /\ Filed(j)'
             /\ next'[j] \in {"none", "later", "due"}
  <2>1. /\ tick[j] \in 1 .. MaxTicks /\ claim[j] \in 0 .. MaxTicks /\ last[j] \in 0 .. MaxTicks
        /\ next[j] \in {"none", "later", "due"} /\ MaxTicks \in Nat /\ Filed(j)
    BY JobConstants DEF FileInv, FileTypes
  <2>2. CASE j \notin Due(F)
    <3>1. j \notin Fresh(F) /\ claim'[j] = claim[j] /\ tick'[j] = tick[j] /\ next'[j] = next[j]
      BY <1>1, <2>2 DEF Fresh
    <3> QED BY <1>1, <2>1, <3>1 DEF Filed
  <2>3. CASE j \in Due(F)
    <3>1. next[j] = "due" /\ tick'[j] = tick[j] + 1
      BY <1>1, <2>3 DEF Due
    <3>2. claim'[j] \in {claim[j], tick[j]}
      BY <1>1
    <3>3. next'[j] = IF j \in Once THEN "none" ELSE "later"
      BY <1>1, <2>3
    <3>4. tick'[j] \in 1 .. MaxTicks /\ claim'[j] \in 0 .. MaxTicks /\ claim'[j] < tick'[j] /\ last'[j] < tick'[j]
      BY <1>1, <2>1, <3>1, <3>2 DEF Filed
    <3>5. status'[j] = "active"
      BY <1>1, <2>1, <3>1 DEF Filed
    <3> QED BY <3>3, <3>4, <3>5 DEF Filed
  <2> QED BY <2>2, <2>3
<1>3. FileTypes'
  BY <1>1, <1>2 DEF FileInv, FileTypes
<1> QED BY <1>2, <1>3 DEF FileInv

(* Recovery takes claims back; a one-shot job that was claimed is over.  *)
LEMMA RegisteredFiled ==
  ASSUME FileInv, NEW s \in Sessions, Registered(s), UNCHANGED << tick, last >>, archived' \in BOOLEAN
  PROVE  FileInv'
<1>1. CASE s \in registered
  BY <1>1 DEF Registered, FileInv, FileTypes, Filed
<1>2. CASE s \notin registered
  <2> DEFINE interrupted == {j \in JobsOf(s) : claim[j] # 0}
             finished == {j \in interrupted \cap Once : status[j] = "active"}
  <2>1. /\ claim' = [j \in Jobs |-> IF j \in interrupted THEN 0 ELSE claim[j]]
        /\ status' = [j \in Jobs |-> IF j \in finished THEN "completed" ELSE status[j]]
        /\ next' = next
    BY <1>2 DEF Registered, Recovered
  <2>2. FileTypes'
    BY <2>1, JobConstants DEF FileInv, FileTypes, Statuses
  <2>3. ASSUME NEW j \in Jobs PROVE Filed(j)'
    BY <2>1 DEF FileInv, FileTypes, Filed
  <2> QED BY <2>2, <2>3 DEF FileInv
<1> QED BY <1>1, <1>2

(* The result of a dispatch that is on record.                           *)
LEMMA FinishFiled ==
  ASSUME FileInv, LaneInv, NEW s \in Sessions, Finish(s)
  PROVE  FileInv'
<1> DEFINE d == Job(s)
<1>1. Running(s)
  BY DEF Finish, Settled, LaneInv, Laned
<1>2. d \in Jobs /\ claim[d] = Head(lane[s]).at /\ claim[d] # 0
  BY <1>1, FirstOfLane
<1>3. UNCHANGED << tick, archived, last >>
  BY DEF Finish, history
<1>4. /\ claim' = Set(claim, d, 0)
      /\ status' = IF status[d] = "active" /\ d \in Once THEN Set(status, d, "completed") ELSE status
      /\ next' = IF status[d] = "active" /\ stage[s] = "skipped" /\ d \notin Once
                 THEN Set(next, d, "later") ELSE next
  BY <1>2 DEF Finish, Recorded, Job
<1> HIDE DEF d
<1>5. FileTypes'
  BY <1>2, <1>3, <1>4, JobConstants DEF FileInv, FileTypes, Set, Statuses
<1>6. ASSUME NEW j \in Jobs PROVE Filed(j)'
  <2>1. CASE j # d
    <3>1. claim'[j] = claim[j] /\ status'[j] = status[j] /\ next'[j] = next[j]
      BY <1>4, <2>1 DEF FileInv, FileTypes, Set
    <3> QED BY <1>3, <3>1 DEF FileInv, Filed
  <2>2. CASE j = d
    <3>1. claim'[d] = 0 /\ tick[d] \in 1 .. MaxTicks
      BY <1>2, <1>4 DEF FileInv, FileTypes, Set
    <3>2. CASE d \in Once
      <4>1. next'[d] = "none"
        BY <1>2, <1>4, <3>2 DEF FileInv, Filed
      <4> QED BY <1>2, <1>3, <2>2, <3>1, <4>1 DEF FileInv, Filed
    <3>3. CASE d \notin Once
      <4>1. status' = status /\ (next'[d] = next[d] \/ (next'[d] = "later" /\ status[d] = "active"))
        BY <1>2, <1>4, <3>3 DEF FileInv, FileTypes, Set
      <4> QED BY <1>2, <1>3, <2>2, <3>1, <3>3, <4>1 DEF FileInv, Filed
    <3> QED BY <3>2, <3>3
  <2> QED BY <2>1, <2>2
<1> QED BY <1>5, <1>6 DEF FileInv

(* The steps of a dispatch before its end.                               *)
LEMMA DispatchFiled ==
  ASSUME FileInv, LaneInv, NEW s \in Sessions, DispatchStep(s), ~Finish(s)
  PROVE  FileInv'
<1>1. CASE Begin(s) \/ ReadInfo(s) \/ Proceed(s) \/ Unwanted(s)
  <2>1. UNCHANGED << status, next, tick, claim, last >> /\ archived' \in BOOLEAN
    BY <1>1 DEF Begin, ReadInfo, Proceed, Unwanted, disk, history, FileInv, FileTypes
  <2> QED BY <2>1 DEF FileInv, FileTypes, Filed
<1>2. CASE CancelBlocked(s)
  <2>1. UNCHANGED << tick, claim, archived, last >>
    BY <1>2 DEF CancelBlocked, history
  <2>2. CASE UNCHANGED << status, next >>
    BY <2>1, <2>2 DEF FileInv, FileTypes, Filed
  <2>3. ASSUME NEW J \in SUBSET Jobs, Cancelled(J) PROVE FileInv'
    BY <2>1, <2>3, CancelledFiled DEF FileInv, FileTypes
  <2>4. Running(s) /\ Job(s) \in Jobs
    BY <1>2, FirstOfLane DEF CancelBlocked, LaneInv, Laned
  <2>5. {j \in CancelledWith(Job(s)) : Live(j)} \in SUBSET Jobs
    BY <2>4 DEF CancelledWith, JobsOf
  <2> QED BY <1>2, <2>2, <2>3, <2>5 DEF CancelBlocked
<1>3. CASE Admit(s) \/ FollowUp(s)
  <2>1. /\ UNCHANGED << status, next, tick, claim, archived >>
        /\ last' \in {last, Set(last, Job(s), Head(lane[s]).at)}
    BY <1>3 DEF Admit, FollowUp, disk, Delivered, Job
  <2>2. Running(s)
    BY <1>3 DEF Admit, FollowUp, LaneInv, Laned
  <2>3. Job(s) \in Jobs /\ Head(lane[s]).at = claim[Job(s)]
    BY <2>2, FirstOfLane
  <2>4. FileTypes'
    BY <2>1, <2>3 DEF FileInv, FileTypes, Set
  <2>5. ASSUME NEW j \in Jobs PROVE Filed(j)'
    BY <2>1, <2>3 DEF FileInv, FileTypes, Filed, Set
  <2> QED BY <2>4, <2>5 DEF FileInv
<1> QED BY <1>1, <1>2, <1>3 DEF DispatchStep

(* What the files say of the jobs stays in order.                        *)
LEMMA FileNext ==
  ASSUME FileInv, LaneInv, [Next]_vars
  PROVE  FileInv'
<1>1. CASE UNCHANGED << disk, last >>
  BY <1>1 DEF disk, FileInv, FileTypes, Filed
<1>2. CASE UNCHANGED vars
  BY <1>1, <1>2 DEF vars, history
<1>3. ASSUME NEW h \in Heartbeats, StartQueued(h) PROVE FileInv'
  BY <1>1, <1>3 DEF StartQueued, history
<1>4. ASSUME NEW s \in Sessions, DispatchStep(s) PROVE FileInv'
  BY <1>4, DispatchFiled, FinishFiled
<1>5. ASSUME NEW s \in Sessions, SessionStep(s) PROVE FileInv'
  <2>1. CASE RegisterPassive(s) \/ OpenSession(s)
    <3>1. Registered(s) /\ UNCHANGED << tick, last >> /\ archived' \in BOOLEAN
      BY <2>1 DEF RegisterPassive, OpenSession, history, FileInv, FileTypes
    <3> QED BY <3>1, RegisteredFiled
  <2>2. CASE StartTurn(s) \/ EndTurn(s) \/ EndClose(s) \/ FinishFails(s)
    BY <1>1, <2>2 DEF StartTurn, EndTurn, EndClose, FinishFails, history
  <2>3. ASSUME NEW reason, BeginClose(s, reason) PROVE FileInv'
    <3> DEFINE J == CancelledBy(IF s = Root THEN resident ELSE {s}, reason)
    <3>1. /\ Cancelled(J) /\ UNCHANGED << tick, claim, last >>
          /\ archived' \in BOOLEAN
      BY <2>3 DEF BeginClose, history, FileInv, FileTypes
    <3>2. J \in SUBSET Jobs
      BY DEF CancelledBy
    <3> QED BY <3>1, <3>2, CancelledFiled
  <2> QED BY <1>5, <2>1, <2>2, <2>3 DEF SessionStep
<1>6. CASE ProcessStep
  <2>1. CASE Archive
    BY <2>1 DEF Archive, history, FileInv, FileTypes, Filed
  <2>2. CASE ~Archive
    <3>1. UNCHANGED << disk, last >>
      BY <1>6, <2>2 DEF ProcessStep, PrepareUpdate, Prepared, CancelUpdate, CommitUpdate, Shutdown, Exit,
                        Crash, Restart, ProcessEnds, disk, history
    <3> QED BY <1>1, <3>1
  <2> QED BY <2>1, <2>2
<1>7. CASE RunDue \/ RunDueFails
  <2>1. UNCHANGED << status, archived, last >> /\ \E F \in SUBSET registered : Claimed(F)
    BY <1>7 DEF RunDue, RunDueFails, history
  <2> QED BY <2>1, ClaimedFiled
<1> QED BY <1>2, <1>3, <1>4, <1>5, <1>6, <1>7, JobStepFiled DEF Next

-----------------------------------------------------------------------------
(***************************************************************************)
(* The process.                                                            *)
(***************************************************************************)

(* Jobs, dispatches and sessions leave the process as it is; a stopped   *)
(* scheduler's timer they do not set.                                    *)
Steady ==
  /\ UNCHANGED << process, stopped >>
  /\ timer' \in BOOLEAN /\ (timer' => timer \/ ~stopped)
  /\ up \/ registered' = registered

(* wake does not set the timer of a stopped scheduler.                   *)
LEMMA WakeIsSteady ==
  ASSUME ProcessInv, Wake
  PROVE  UNCHANGED stopped /\ timer' \in BOOLEAN /\ (timer' => timer \/ ~stopped)
BY DEF Wake, ProcessInv

(* Every step that is not the process's own is steady.                   *)
LEMMA StepsAreSteady ==
  ASSUME ProcessInv,
         RunDue \/ RunDueFails \/ (\E j \in Jobs : JobStep(j)) \/ (\E h \in Heartbeats : StartQueued(h))
           \/ \E s \in Sessions : DispatchStep(s) \/ SessionStep(s)
  PROVE  Steady
<1>1. timer \in BOOLEAN
  BY DEF ProcessInv
<1>2. CASE RunDue \/ RunDueFails
  <2>1. timer' \in BOOLEAN
    BY <1>2 DEF RunDue, RunDueFails, SetTimer
  <2> QED BY <1>1, <1>2, <2>1 DEF RunDue, RunDueFails, Steady
<1>3. ASSUME NEW j \in Jobs, JobStep(j) PROVE Steady
  <2>1. CASE FallsDue(j)
    BY <1>1, <2>1 DEF FallsDue, Steady, scheduler
  <2>2. CASE ~FallsDue(j)
    <3>1. Wake /\ UNCHANGED << process, registered >>
      BY <1>3, <2>2 DEF JobStep, Create, Pause, Resume, Edit, Cancel
    <3> QED BY <1>1, <3>1, WakeIsSteady DEF Steady
  <2> QED BY <2>1, <2>2
<1>4. ASSUME NEW h \in Heartbeats, StartQueued(h) PROVE Steady
  BY <1>1, <1>4 DEF StartQueued, Steady, scheduler
<1>5. ASSUME NEW s \in Sessions, DispatchStep(s) PROVE Steady
  <2>1. UNCHANGED << process, registered >>
    BY <1>5 DEF DispatchStep, Begin, ReadInfo, CancelBlocked, Proceed, FollowUp, Admit, Unwanted, Finish
  <2>2. Wake \/ UNCHANGED scheduler
    BY <1>5 DEF DispatchStep, Begin, ReadInfo, CancelBlocked, Proceed, FollowUp, Admit, Unwanted, Finish, scheduler
  <2> QED BY <1>1, <2>1, <2>2, WakeIsSteady DEF Steady, scheduler
<1>6. ASSUME NEW s \in Sessions, SessionStep(s) PROVE Steady
  <2>1. CASE RegisterPassive(s) \/ OpenSession(s)
    <3>1. UNCHANGED process /\ up /\ Registered(s)
      BY <2>1 DEF RegisterPassive, OpenSession
    <3>2. Wake \/ UNCHANGED scheduler
      BY <3>1 DEF Registered
    <3> QED BY <1>1, <3>1, <3>2, WakeIsSteady DEF Steady, scheduler
  <2>2. CASE StartTurn(s) \/ EndTurn(s) \/ EndClose(s)
    BY <1>1, <2>2 DEF StartTurn, EndTurn, EndClose, Steady, scheduler
  <2>3. ASSUME NEW reason, BeginClose(s, reason) PROVE Steady
    <3>1. Wake /\ UNCHANGED << process, registered >>
      BY <2>3 DEF BeginClose
    <3> QED BY <1>1, <3>1, WakeIsSteady DEF Steady
  <2>4. CASE FinishFails(s)
    <3>1. UNCHANGED << process, stopped, timer, registered >>
      BY <2>4 DEF FinishFails, scheduler
    <3> QED BY <1>1, <3>1 DEF Steady
  <2> QED BY <1>6, <2>1, <2>2, <2>3, <2>4 DEF SessionStep
<1> QED BY <1>2, <1>3, <1>4, <1>5, <1>6

(* Lanes that are empty stay empty while the timer is not set.           *)
LEMMA LanesStayEmpty ==
  ASSUME FileInv, LaneInv, [Next]_vars, Drained, ~timer
  PROVE  Drained'
<1> USE DEF Drained, Running
<1>1. CASE Rests
  BY <1>1 DEF Rests
<1>2. CASE ProcessEnds
  BY <1>2 DEF ProcessEnds
<1>3. CASE RunDue
  BY <1>3 DEF RunDue
<1>4. ASSUME NEW s \in Sessions, Moves(s) \/ Ends(s) PROVE FALSE
  BY <1>4 DEF Moves, Ends
<1>5. ASSUME NEW s \in Sessions, Registers(s) PROVE Drained'
  BY <1>5 DEF Registers
<1>6. ASSUME NEW F \in SUBSET registered, Strands(F) PROVE Drained'
  BY <1>6 DEF Strands
<1> QED BY <1>1, <1>2, <1>3, <1>4, <1>5, <1>6, StepShape

(* Update, shutdown, crash and restart keep the process in order.        *)
LEMMA ProcessNext ==
  ASSUME FileInv, LaneInv, ProcessInv, [Next]_vars
  PROVE  ProcessInv'
<1>1. phase = "prepared" => Drained'
  BY LanesStayEmpty DEF ProcessInv
<1>2. CASE UNCHANGED << process, stopped, timer, registered >>
  BY <1>1, <1>2 DEF process, ProcessInv
<1>3. CASE Steady
  BY <1>1, <1>3 DEF Steady, process, ProcessInv
<1>4. CASE ProcessEnds /\ parked' \in BOOLEAN
  BY <1>4 DEF ProcessEnds, Stop, ProcessInv, Phases
<1>5. CASE CommitUpdate \/ Exit \/ Crash
  BY <1>4, <1>5 DEF CommitUpdate, Exit, Crash
<1>6. CASE PrepareUpdate \/ Shutdown
  BY <1>6 DEF PrepareUpdate, Shutdown, Stop, ProcessInv, Phases
<1>7. CASE Prepared
  <2>1. Drained'
    BY <1>7 DEF Prepared, lanes, Drained, Running
  <2> QED BY <1>7, <2>1 DEF Prepared, scheduler, ProcessInv, Phases
<1>8. CASE CancelUpdate
  <2>1. timer' \in BOOLEAN
    BY <1>8 DEF CancelUpdate, SetTimer
  <2> QED BY <1>8, <2>1 DEF CancelUpdate, ProcessInv, Phases
<1>9. CASE Restart
  BY <1>1, <1>9 DEF Restart, ProcessInv
<1>10. CASE UNCHANGED vars \/ Archive
  BY <1>2, <1>10 DEF vars, Archive, scheduler
<1> QED
  BY <1>3, <1>5, <1>6, <1>7, <1>8, <1>9, <1>10, StepsAreSteady DEF Next, ProcessStep

-----------------------------------------------------------------------------
(***************************************************************************)
(* Heartbeats that wait in a session.                                      *)
(***************************************************************************)
Asks(s) == stage[s] \in {"opening", "blocked"}

(* No heartbeat comes to wait, those that go on waiting still stand, and *)
(* no dispatch begins to open a session.                                 *)
Stand ==
  /\ QueueTypes'
  /\ \A h \in Heartbeats : queued'[h] # "none" =>
       queued'[h] = queued[h] /\ status'[h] = "active" /\ SessionOf[h] \in resident'
  /\ \A s \in Sessions : Asks(s)' => Asks(s)

(* Such a step keeps the queues in order.                                *)
LEMMA StandingKeeps ==
  ASSUME QueueInv, Stand
  PROVE  QueueInv'
BY DEF QueueInv, Stand, Waits, Empty, Asks

(* A job that is active stays active, or its follow-up is taken back.    *)
LEMMA JobStepStands ==
  ASSUME FileInv, QueueInv, NEW j \in Jobs, JobStep(j)
  PROVE  Stand
<1>1. UNCHANGED << resident, closing, streaming, archiving, stage >>
  BY DEF JobStep, Create, Pause, Resume, Edit, Cancel, FallsDue, sessions, lanes
<1>2. edited' \in SUBSET Sessions
  BY DEF JobStep, Create, Pause, Resume, Edit, Cancel, FallsDue, lanes, QueueInv, QueueTypes
<1>3. queued' = queued \/ queued' = [h \in Heartbeats |-> IF h \in {j} THEN "none" ELSE queued[h]]
  BY DEF JobStep, Create, Pause, Resume, Edit, Cancel, FallsDue, sessions, Unqueue
<1>4. QueueTypes'
  BY <1>1, <1>2, <1>3 DEF QueueInv, QueueTypes
<1>5. \A i \in Jobs : i # j => status'[i] = status[i]
  BY DEF JobStep, Create, Pause, Resume, Edit, Cancel, FallsDue, Cancelled, disk, Set, FileInv, FileTypes
<1>6. (j \in Heartbeats /\ queued'[j] # "none" /\ queued[j] # "none") => status'[j] = "active"
  <2>1. CASE Create(j) \/ Resume(j) \/ FallsDue(j)
    BY <2>1, JobConstants DEF Create, Resume, FallsDue, Set, FileInv, FileTypes, QueueInv, Waits
  <2>2. CASE Pause(j) \/ Edit(j) \/ Cancel(j)
    BY <2>2 DEF Pause, Edit, Cancel, Unqueue
  <2> QED BY <2>1, <2>2 DEF JobStep
<1>7. ASSUME NEW h \in Heartbeats, queued'[h] # "none"
      PROVE  queued'[h] = queued[h] /\ status'[h] = "active" /\ SessionOf[h] \in resident'
  <2>1. queued'[h] = queued[h] /\ h \in Jobs
    BY <1>3, <1>7, JobConstants
  <2> QED BY <1>1, <1>5, <1>6, <1>7, <2>1 DEF QueueInv, Waits
<1> QED BY <1>1, <1>4, <1>7 DEF Stand, Asks

(* The process stops with nothing queued, or leaves the queues alone.    *)
LEMMA ProcessStands ==
  ASSUME QueueInv, ProcessStep
  PROVE  Stand
<1>1. CASE CommitUpdate \/ Exit \/ Crash
  <2>1. /\ resident' = {} /\ closing' = {} /\ streaming' = {} /\ edited' = {} /\ archiving' = FALSE
        /\ queued' = [h \in Heartbeats |-> "none"] /\ stage' = [s \in Sessions |-> "queued"]
    BY <1>1 DEF CommitUpdate, Exit, Crash, ProcessEnds
  <2> QED BY <2>1 DEF Stand, QueueTypes, Asks
<1>2. CASE PrepareUpdate \/ Prepared \/ CancelUpdate \/ Archive \/ Shutdown \/ Restart
  <2>1. /\ UNCHANGED << status, resident, streaming, queued, stage, edited >>
        /\ closing' \in {closing, resident} /\ archiving' \in {archiving, FALSE}
    BY <1>2 DEF PrepareUpdate, Prepared, CancelUpdate, Archive, Shutdown, Restart, disk, sessions, lanes
  <2> QED BY <2>1 DEF Stand, QueueInv, QueueTypes, Waits, Asks
<1> QED BY <1>1, <1>2 DEF ProcessStep

(* What closes or cancels takes back what it finds queued; recovery ends *)
(* one-shot jobs only.                                                   *)
LEMMA SessionStands ==
  ASSUME FileInv, LaneInv, QueueInv, NEW s \in Sessions, SessionStep(s)
  PROVE  Stand
<1> USE DEF Asks
<1>1. CASE RegisterPassive(s) \/ OpenSession(s)
  <2>1. Registered(s) /\ UNCHANGED << closing, streaming, queued, archiving, stage, edited >>
        /\ resident' \in {resident, resident \cup {s}}
    BY <1>1 DEF RegisterPassive, OpenSession, sessions, lanes
  <2>2. \A h \in Heartbeats : status'[h] = status[h]
    <3>1. CASE s \in registered
      BY <2>1, <3>1 DEF Registered
    <3>2. CASE s \notin registered
      BY <2>1, <3>2, JobConstants DEF Registered, Recovered
    <3> QED BY <3>1, <3>2
  <2>3. QueueTypes'
    BY <2>1 DEF QueueInv, QueueTypes
  <2> QED BY <2>1, <2>2, <2>3 DEF Stand, QueueInv, Waits
<1>2. CASE StartTurn(s) \/ EndTurn(s)
  <2>1. UNCHANGED << status, resident, closing, queued, archiving, edited >>
    BY <1>2 DEF StartTurn, EndTurn, disk, lanes
  <2>2. streaming' \subseteq resident
    BY <1>2 DEF StartTurn, EndTurn, Usable, QueueInv, QueueTypes
  <2>3. \A u \in Sessions : stage'[u] = stage[u] \/ stage'[u] = "ran"
    BY <1>2 DEF StartTurn, EndTurn, lanes, Set, LaneInv, LaneTypes
  <2> QED BY <2>1, <2>2, <2>3 DEF Stand, QueueInv, QueueTypes, Waits
<1>3. ASSUME NEW reason, BeginClose(s, reason) PROVE Stand
  <2> DEFINE C == IF s = Root THEN resident ELSE {s}
             J == CancelledBy(C, reason)
  <2>1. /\ UNCHANGED << resident, streaming, stage, edited >> /\ closing' = closing \cup C
        /\ archiving' = (archiving \/ s = Root)
        /\ status' = [j \in Jobs |-> IF j \in J THEN "cancelled" ELSE status[j]]
        /\ queued' = [h \in Heartbeats |-> IF h \in J THEN "none" ELSE queued[h]]
    BY <1>3 DEF BeginClose, lanes, Cancelled, Unqueue
  <2>2. C \subseteq resident
    BY <1>3 DEF BeginClose, Usable
  <2> HIDE DEF C, J
  <2>3. QueueTypes'
    BY <2>1, <2>2 DEF QueueInv, QueueTypes
  <2>4. ASSUME NEW h \in Heartbeats, queued'[h] # "none"
        PROVE  queued'[h] = queued[h] /\ status'[h] = status[h]
    BY <2>1, <2>4, JobConstants
  <2> QED BY <2>1, <2>3, <2>4 DEF Stand, QueueInv, Waits
<1>4. CASE EndClose(s)
  <2>1. /\ UNCHANGED << status, archiving, edited >>
        /\ resident' = resident \ {s} /\ closing' = closing \ {s} /\ streaming' = streaming \ {s}
        /\ queued' = [h \in Heartbeats |-> IF h \in JobsOf(s) THEN "none" ELSE queued[h]]
    BY <1>4 DEF EndClose, disk, Unqueue
  <2>2. \A u \in Sessions : stage'[u] = stage[u] \/ stage'[u] \in {"ran", "skipped"}
    BY <1>4 DEF EndClose, Set, LaneInv, LaneTypes
  <2>3. QueueTypes'
    BY <2>1 DEF QueueInv, QueueTypes
  <2>4. ASSUME NEW h \in Heartbeats, queued'[h] # "none"
        PROVE  queued'[h] = queued[h] /\ SessionOf[h] # s
    BY <2>1, <2>4, JobConstants DEF JobsOf
  <2> QED BY <2>1, <2>2, <2>3, <2>4 DEF Stand, QueueInv, Waits
<1>5. CASE FinishFails(s)
  <2>1. UNCHANGED << status, sessions >> /\ EndDispatch(s)
    BY <1>5 DEF FinishFails, disk
  <2>2. /\ edited' \subseteq edited
        /\ \A u \in Sessions : stage'[u] = stage[u] \/ stage'[u] = "queued"
    BY <2>1 DEF EndDispatch, Goto, Set, LaneInv, LaneTypes
  <2> QED BY <2>1, <2>2 DEF sessions, Stand, QueueInv, QueueTypes, Waits
<1> QED BY <1>1, <1>2, <1>3, <1>4, <1>5 DEF SessionStep

(* A dispatch that opens a session finds nothing waiting there; one that *)
(* is admitted queues the heartbeat that is active, with its text of now. *)
LEMMA DispatchQueues ==
  ASSUME FileInv, LaneInv, QueueInv, NEW s \in Sessions, DispatchStep(s)
  PROVE  QueueInv'
<1> USE DEF Asks
<1> DEFINE j == Job(s)
<1>1. stage \in [Sessions -> Stages]
  BY DEF LaneInv, LaneTypes
<1>2. Running(s)
  BY DEF DispatchStep, Begin, ReadInfo, CancelBlocked, Proceed, FollowUp, Admit, Unwanted, Finish, Settled,
         LaneInv, Laned
<1>3. j \in Jobs /\ SessionOf[j] = s
  BY <1>2, FirstOfLane
<1>4. CASE Begin(s)
  <2>1. UNCHANGED << status, sessions, edited >>
    BY <1>4 DEF Begin, disk
  <2>2. stage'[s] = "opening" => s \notin resident
    BY <1>1, <1>4 DEF Begin, Goto, Set
  <2>3. stage'[s] # "blocked" /\ \A u \in Sessions : u # s => stage'[u] = stage[u]
    BY <1>1, <1>4 DEF Begin, Goto, Set
  <2>4. ASSUME NEW h \in Heartbeats, SessionOf[h] = s, Asks(s)' PROVE queued[h] = "none"
    BY <2>2, <2>3, <2>4 DEF QueueInv, Waits
  <2> QED BY <2>1, <2>3, <2>4 DEF sessions, QueueInv, QueueTypes, Waits, Empty
<1>5. CASE ReadInfo(s)
  <2>1. /\ UNCHANGED << status, closing, streaming, queued, archiving, edited >>
        /\ resident' \in {resident, resident \cup {Root, s}} /\ Asks(s)
    BY <1>5 DEF ReadInfo
  <2>2. \A u \in Sessions : u # s => stage'[u] = stage[u]
    BY <1>1, <1>5 DEF ReadInfo, Goto, Set
  <2>3. Root \in Sessions
    BY DEF Sessions
  <2>4. Stand
    BY <2>1, <2>2, <2>3 DEF Stand, QueueInv, QueueTypes, Waits
  <2> QED BY <2>4, StandingKeeps
<1>6. CASE CancelBlocked(s)
  <2>1. UNCHANGED << sessions, edited >> /\ Asks(s)
    BY <1>6 DEF CancelBlocked
  <2>2. /\ stage'[s] = "skipped" /\ \A u \in Sessions : u # s => stage'[u] = stage[u]
    BY <1>1, <1>6 DEF CancelBlocked, Goto, Set
  <2>3. ASSUME NEW i \in Jobs, SessionOf[i] # s PROVE status'[i] = status[i]
    BY <1>3, <1>6, <2>3 DEF CancelBlocked, Cancelled, CancelledWith, JobsOf
  <2>4. ASSUME NEW h \in Heartbeats, queued[h] # "none" PROVE status'[h] = status[h]
    BY <2>1, <2>3, <2>4, JobConstants DEF QueueInv, Empty
  <2>5. Stand
    BY <2>1, <2>2, <2>4 DEF Stand, sessions, QueueInv, QueueTypes, Waits
  <2> QED BY <2>5, StandingKeeps
<1>7. CASE Proceed(s) \/ FollowUp(s) \/ Unwanted(s) \/ Finish(s)
  <2>1. UNCHANGED sessions
    BY <1>7 DEF Proceed, FollowUp, Unwanted, Finish
  <2>2. edited' \subseteq edited
    BY <1>7 DEF Proceed, FollowUp, Unwanted, Finish, EndDispatch
  <2>3. ~Asks(s)' /\ \A u \in Sessions : u # s => stage'[u] = stage[u]
    BY <1>1, <1>7 DEF Proceed, FollowUp, Unwanted, Finish, EndDispatch, Goto, Set
  <2>4. \A h \in Heartbeats : status'[h] = status[h]
    <3>1. CASE Finish(s)
      <4>1. \A h \in Heartbeats : h \in Jobs /\ h \notin Once
        BY JobConstants
      <4>2. status' \in {status, Set(status, j, "completed")} /\ (j \notin Once => status' = status)
        BY <3>1 DEF Finish, Recorded, Job
      <4> QED BY <4>1, <4>2 DEF Set, FileInv, FileTypes
    <3> QED BY <1>7, <3>1 DEF Proceed, FollowUp, Unwanted, disk
  <2>5. Stand
    BY <2>1, <2>2, <2>3, <2>4 DEF Stand, sessions, QueueInv, QueueTypes, Waits
  <2> QED BY <2>5, StandingKeeps
<1>8. CASE Admit(s)
  <2>1. /\ UNCHANGED << status, resident, closing, archiving, edited >>
        /\ s \in resident /\ status[j] = "active" /\ s \notin edited
    BY <1>8 DEF Admit, disk, StillWanted, Usable, Runnable
  <2>2. ~Asks(s)' /\ \A u \in Sessions : u # s => stage'[u] = stage[u]
    BY <1>1, <1>8 DEF Admit, Goto, Set
  <2>3. streaming' \in {streaming, streaming \cup {s}}
    BY <1>8 DEF Admit
  <2>4. queued' = queued \/ (j \in Heartbeats /\ queued' = Set(queued, j, "current"))
    BY <1>8, <2>1 DEF Admit, Text
  <2> HIDE DEF j
  <2>5. QueueTypes'
    BY <2>1, <2>3, <2>4 DEF Set, QueueInv, QueueTypes
  <2>6. ASSUME NEW h \in Heartbeats PROVE Waits(h)'
    BY <1>3, <2>1, <2>4 DEF Set, QueueInv, QueueTypes, Waits
  <2>7. ASSUME NEW u \in Sessions PROVE Empty(u)'
    BY <1>3, <2>2, <2>4 DEF Set, QueueInv, QueueTypes, Empty
  <2> QED BY <2>5, <2>6, <2>7 DEF QueueInv
<1> QED BY <1>4, <1>5, <1>6, <1>7, <1>8 DEF DispatchStep

(* What waits in a session stays in order.                               *)
LEMMA QueueNext ==
  ASSUME FileInv, LaneInv, QueueInv, [Next]_vars
  PROVE  QueueInv'
<1>1. CASE UNCHANGED << status, sessions, stage, edited >>
  BY <1>1 DEF sessions, QueueInv, QueueTypes, Waits, Empty
<1>2. CASE RunDue \/ RunDueFails \/ UNCHANGED vars
  BY <1>1, <1>2 DEF RunDue, RunDueFails, vars, disk, lanes
<1>3. ASSUME NEW h \in Heartbeats, StartQueued(h) PROVE Stand
  <2>1. /\ UNCHANGED << status, resident, closing, archiving, stage, edited >> /\ queued' = Set(queued, h, "none")
        /\ streaming' = streaming \cup {SessionOf[h]} /\ SessionOf[h] \in resident
    BY <1>3 DEF StartQueued, disk, lanes, Usable
  <2> QED BY <2>1 DEF Set, Stand, QueueInv, QueueTypes, Waits, Asks
<1> QED
  BY <1>2, <1>3, JobStepStands, ProcessStands, SessionStands, DispatchQueues, StandingKeeps DEF Next

-----------------------------------------------------------------------------
(***************************************************************************)
(* The theorems.                                                           *)
(***************************************************************************)

(* The initial states satisfy the inductive invariant.                   *)
LEMMA JobsInvInit ==
  ASSUME Init
  PROVE  JobsInv
<1> USE DEF Init, Sessions
<1>0. 1 \in 1 .. MaxTicks /\ 0 \in 0 .. MaxTicks
  BY JobConstants
<1>1. FileInv
  <2>1. FileTypes
    BY <1>0 DEF FileTypes, Statuses
  <2>2. \A j \in Jobs : Filed(j)
    BY DEF Filed
  <2> QED BY <2>1, <2>2 DEF FileInv
<1>2. LaneInv
  BY DEF LaneInv, LaneTypes, Laned, Carried, NoTwo, Running, Stages
<1>3. FreshInv /\ HeldInv
  BY DEF FreshInv, Ungiven, HeldInv, Held
<1>4. ProcessInv
  BY <1>0 DEF ProcessInv, Phases
<1>5. QueueInv
  BY DEF QueueInv, QueueTypes, Waits, Empty
<1> QED BY <1>1, <1>2, <1>3, <1>4, <1>5 DEF JobsInv

(* Every step keeps the inductive invariant.                             *)
LEMMA JobsInvNext ==
  ASSUME JobsInv, [Next]_vars
  PROVE  JobsInv'
BY FileNext, LaneNext, FreshNext, HeldNext, ProcessNext, QueueNext DEF JobsInv

(* The inductive invariant holds in every reachable state.               *)
LEMMA JobsInvariant == Spec => []JobsInv
<1>1. Init => JobsInv
  BY JobsInvInit
<1>2. JobsInv /\ [Next]_vars => JobsInv'
  BY JobsInvNext
<1> QED BY <1>1, <1>2, PTL DEF Spec

(* The state keeps its types: a due time stays within its bound, only an *)
(* active job has a next time, and what is closed or in a turn is open.  *)
THEOREM JobTypes == Spec => []TypeOK
<1>1. JobsInv => TypeOK
  <2> SUFFICES ASSUME JobsInv PROVE TypeOK
    OBVIOUS
  <2>1. FileTypes /\ LaneTypes /\ QueueTypes /\ ProcessInv /\ \A j \in Jobs : Filed(j)
    BY DEF JobsInv, FileInv, LaneInv, QueueInv
  <2>2. replays \subseteq Jobs /\ stranded \subseteq Jobs
    BY DEF JobsInv, FreshInv, HeldInv
  <2> QED
    BY <2>1, <2>2 DEF TypeOK, FileTypes, LaneTypes, QueueTypes, ProcessInv, Filed, Statuses, Stages, Phases
<1> QED BY <1>1, JobsInvariant, PTL

(* No due time of a job is delivered twice, whatever crashes, restarts,  *)
(* updates and edits come between its claim (claimDueInState) and its    *)
(* record (recordDispatchResult).                                        *)
THEOREM DueTimesRunOnce == Spec => []NoReplay
<1>1. JobsInv => NoReplay
  BY DEF JobsInv, FreshInv, NoReplay
<1> QED BY <1>1, JobsInvariant, PTL

(* A claim on disk belongs to a dispatch this worker will still finish,  *)
(* unless a write failed: that of the dispatch's record                  *)
(* (recordDispatchResult), or of another session's file after this claim *)
(* (mutateStates); and a dispatch in a lane has its claim.               *)
THEOREM ClaimsBelong == Spec => []ClaimsAreHeld
<1>1. JobsInv => ClaimsAreHeld
  BY DEF JobsInv, HeldInv, Held, LaneInv, Laned, Carried, ClaimsAreHeld
<1> QED BY <1>1, JobsInvariant, PTL

(* A heartbeat that waits in a session's queue is active and has its     *)
(* text of now: pausing, editing and stopping reach it there.            *)
THEOREM HeartbeatsStand == Spec => []QueuedHeartbeatsStand
<1>1. JobsInv => QueuedHeartbeatsStand
  BY DEF JobsInv, QueueInv, Waits, QueuedHeartbeatsStand
<1> QED BY <1>1, JobsInvariant, PTL

(* While an update's checkpoint stands, no scheduled prompt is under way *)
(* and none can start.                                                   *)
THEOREM CheckpointIsQuiet == Spec => []UpdateIsQuiet
<1>1. JobsInv => UpdateIsQuiet
  <2> SUFFICES ASSUME JobsInv, phase = "prepared" PROVE UpdateIsQuiet
    BY DEF UpdateIsQuiet
  <2>1. Drained /\ ~timer
    BY DEF JobsInv, ProcessInv
  <2>2. ASSUME NEW j \in Jobs, claim[j] # 0, SessionOf[j] \in registered PROVE j \in stranded
    <3>1. SessionOf[j] \in Sessions /\ lane[SessionOf[j]] = << >>
      BY <2>1, JobConstants DEF Drained, Running
    <3>2. DOMAIN lane[SessionOf[j]] = {}
      BY <3>1
    <3> QED BY <2>2, <3>2 DEF JobsInv, HeldInv, Held
  <2> QED BY <2>1, <2>2 DEF UpdateIsQuiet
<1> QED BY <1>1, JobsInvariant, PTL
================================================================================
