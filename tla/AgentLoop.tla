------------------------------ MODULE AgentLoop ------------------------------
(***************************************************************************)
(* A run of the agent (packages/agent: agent.ts, agent-loop.ts): the       *)
(* queues of messages, the turns, the request to the provider, the batch   *)
(* of tool calls, and the abort that can come at any await.                *)
(*                                                                         *)
(* The loop is one chain of awaits (the tasks of a parallel batch beside   *)
(* it), so phase says at which await it stands.  An event is reduced into  *)
(* the transcript when it is emitted and its listeners are awaited after   *)
(* that: a listener that throws fails the run at the phase it is awaited   *)
(* in.  What the agent hands out is of two kinds: listeners and owner      *)
(* callbacks are awaited to their end; the provider, the tools and the     *)
(* hooks are raced with the abort signal.                                  *)
(*                                                                         *)
(* No output policy and no context owner is bound: the context of a        *)
(* request is the loop's own.                                              *)
(***************************************************************************)
EXTENDS Integers, Sequences, SequencesExt

CONSTANTS
  MaxMessages,    \* bound of the model: messages callers hand over
  MaxAssistants,  \* bound of the model: replies after which no run starts
  MaxCalls,       \* bound of the model: tool calls of one reply
  MaxFaults       \* bound of the model: listeners, owners, streams that fail

ASSUME BoundAssumption ==
  {MaxMessages, MaxAssistants, MaxCalls, MaxFaults} \subseteq Nat

VARIABLES
  phase,        \* the await the run stands at, "idle" without activeRun
  aborted,      \* the signal of the latest run
  transcript,   \* _state.messages
  context,      \* context.messages of the run
  inbox,        \* messages taken and not emitted yet: prompts, pendingMessages
  steering,     \* the batches of steeringQueue
  followUps,    \* the batches of followUpQueue
  call,         \* the calls of the batch: where each is, and its outcome
  results,      \* result messages of the batch, not yet in the context
  more,         \* hasMoreToolCalls
  skipPoll,     \* skipInitialSteeringPoll
  retry,        \* request preparation: "none", "reprepared", "recovered"
  recovered,    \* replies the run omits from its requests
  handed,       \* counts the messages callers handed over
  assistants,   \* counts assistant messages; the latest reply has this number
  runFrom,      \* its value when the run began
  dropped,      \* history: messages removed from a queue, or taken by a run
                \* that was aborted or failed before it emitted them
  toolStarted,  \* history: tools that were executed, as << reply, call >>
  toolFinished, \* history: those whose promise has settled
  ends,         \* history: agent_end events of the run
  faults        \* counts failures

queueVars == << steering, followUps, handed, dropped >>
talkVars  == << transcript, context, inbox >>
toolVars  == << call, results, toolStarted, toolFinished >>
turnVars  == << more, skipPoll, retry >>
runVars   == << recovered, runFrom, assistants, ends >>
vars == << phase, aborted, queueVars, talkVars, toolVars, turnVars, runVars, faults >>

User(n, via)       == [role |-> "user", id |-> n, via |-> via]
Assistant(n, c, s) == [role |-> "assistant", id |-> n, calls |-> c, stop |-> s]
ToolResult(n, i, o) == [role |-> "toolResult", id |-> n, call |-> i, outcome |-> o]

Ids(s) == {s[i].id : i \in DOMAIN s}

QueuedIds(q) == UNION {Ids(q[i]) : i \in DOMAIN q}

(* Mutant of NewBatch: an index that starts at zero.                       *)
NewBatchFromZero(n, via) == [i \in 1..n |-> User(handed + i - 1, via)]

NewBatch(n, via) == [i \in 1..n |-> User(handed + i, via)]

-----------------------------------------------------------------------------
(* PendingMessageQueue.drain: what it returns and what it keeps.  The mode *)
(* can be assigned at any time.                                            *)
Drained(q) == IF q = << >> THEN {<< q, q >>}
              ELSE {<< Head(q), Tail(q) >>, << FlattenSeq(q), << >> >>}

Steer(n) ==
  /\ handed + n <= MaxMessages
  /\ steering' = Append(steering, NewBatch(n, "steer"))
  /\ handed' = handed + n
  /\ UNCHANGED << phase, aborted, followUps, dropped, talkVars, toolVars, turnVars,
                  runVars, faults >>

FollowUp(n) ==
  /\ handed + n <= MaxMessages
  /\ followUps' = Append(followUps, NewBatch(n, "followUp"))
  /\ handed' = handed + n
  /\ UNCHANGED << phase, aborted, steering, dropped, talkVars, toolVars, turnVars,
                  runVars, faults >>

(* The elements of s at the positions of T, in their order.                *)
Picked(s, T) == FlattenSeq([i \in DOMAIN s |-> IF i \in T THEN << s[i] >> ELSE << >>])

(* removeQueuedMessages and the clear functions: whole batches go.         *)
RemoveQueued(S) ==
  LET kept(q)  == Picked(q, {i \in DOMAIN q : Ids(q[i]) \intersect S = {}})
      gone     == (QueuedIds(steering) \union QueuedIds(followUps))
                    \ (QueuedIds(kept(steering)) \union QueuedIds(kept(followUps)))
  IN  /\ gone # {}
      /\ steering' = kept(steering) /\ followUps' = kept(followUps)
      /\ dropped' = dropped \union gone
      /\ UNCHANGED << phase, aborted, handed, talkVars, toolVars, turnVars, runVars,
                      faults >>

Abort ==
  /\ phase # "idle" /\ ~aborted
  /\ aborted' = TRUE
  /\ UNCHANGED << phase, queueVars, talkVars, toolVars, turnVars, runVars, faults >>

-----------------------------------------------------------------------------
(* The beginning and the end of a run.                                     *)

Begin(messages, skip) ==
  /\ phase = "idle" /\ assistants < MaxAssistants
  /\ phase' = "init" /\ aborted' = FALSE
  /\ inbox' = messages
  /\ skipPoll' = skip
  /\ runFrom' = assistants /\ ends' = 0
  /\ UNCHANGED << transcript, context, toolVars, more, retry, recovered, assistants,
                  faults >>

Prompt(n) ==
  /\ handed + n <= MaxMessages
  /\ Begin(NewBatch(n, "prompt"), FALSE)
  /\ handed' = handed + n
  /\ UNCHANGED << steering, followUps, dropped >>

LastRole == IF transcript = << >> THEN "none" ELSE Last(transcript).role

(* continue(): from a user message or a tool result it goes on; from a     *)
(* reply, from nothing, or from a user message of a custom role, it takes  *)
(* what is queued.                                                         *)
ContinueQueued ==
  /\ LastRole # "toolResult"
  /\ \/ \E d \in Drained(steering) :
          /\ d[1] # << >>
          /\ steering' = d[2]
          /\ Begin(d[1], TRUE)
          /\ UNCHANGED followUps
     \/ /\ steering = << >>
        /\ \E d \in Drained(followUps) :
             /\ d[1] # << >>
             /\ followUps' = d[2]
             /\ Begin(d[1], FALSE)
        /\ UNCHANGED steering
  /\ UNCHANGED << handed, dropped >>

ContinueTranscript ==
  /\ LastRole \in {"user", "toolResult"}
  /\ Begin(<< >>, FALSE)
  /\ UNCHANGED queueVars

(* The executor throws: what it had taken is gone.                         *)
Fail ==
  /\ phase' = "failing"
  /\ dropped' = dropped \union Ids(inbox)
  /\ inbox' = << >>

(* agent_end is emitted.  A run that ends on an abort forgets what a poll  *)
(* of the queues has just returned.                                        *)
End ==
  /\ phase' = "ending"
  /\ ends' = ends + 1
  /\ IF aborted THEN dropped' = dropped \union Ids(inbox) /\ inbox' = << >>
     ELSE UNCHANGED << dropped, inbox >>

Goto(p) == phase' = p /\ UNCHANGED << dropped, inbox, ends >>

Ended == /\ phase = "ending" /\ phase' = "closing"
         /\ UNCHANGED << aborted, queueVars, talkVars, toolVars, turnVars, runVars, faults >>

(* handleRunFailure; what its listeners throw is ignored.                  *)
HandleRunFailure ==
  /\ phase = "failing" /\ phase' = "closing"
  /\ assistants' = assistants + 1
  /\ transcript' = Append(transcript,
       Assistant(assistants', 0, IF aborted THEN "aborted" ELSE "error"))
  /\ ends' = ends + 1
  /\ UNCHANGED << aborted, queueVars, context, inbox, toolVars, turnVars, recovered,
                  runFrom, faults >>

(* activeRun is cleared, and with it what was local to the run.            *)
FinishRun ==
  /\ phase = "closing" /\ phase' = "idle"
  /\ context' = << >> /\ call' = << >> /\ results' = << >>
  /\ more' = FALSE /\ skipPoll' = FALSE /\ retry' = "none" /\ recovered' = {}
  /\ UNCHANGED << aborted, queueVars, transcript, inbox, toolStarted, toolFinished,
                  runFrom, assistants, ends, faults >>

CallsAt(S) == \A i \in DOMAIN call : call[i].at \in S

(* A listener or an owner that the loop awaits throws.                     *)
Throw ==
  /\ faults < MaxFaults /\ faults' = faults + 1
  /\ \/ phase \in {"init", "open", "inject", "build", "streaming", "answered",
                   "answering", "turnEnd", "outcome", "continuation", "ending"}
     \/ /\ phase \in {"calling", "preparing"}
        /\ CallsAt({"waiting", "announced", "ready", "published", "answered"})
  /\ Fail
  /\ UNCHANGED << aborted, steering, followUps, handed, transcript, context, toolVars,
                  turnVars, runVars >>

(* isRequestTokenBudgetFailure: the run ends without agent_end.            *)
BudgetFailure ==
  /\ phase \in {"prepare", "streaming"}
  /\ phase' = "closing"
  /\ UNCHANGED << aborted, queueVars, talkVars, toolVars, turnVars, runVars, faults >>

-----------------------------------------------------------------------------
(* runAgentLoop, runAgentLoopContinue and runLoop.                         *)

Initialized ==
  /\ phase = "init"
  /\ IF aborted THEN Fail /\ UNCHANGED << context, ends >>
     ELSE Goto("open") /\ context' = transcript \o inbox
  /\ UNCHANGED << aborted, steering, followUps, handed, transcript, toolVars, turnVars,
                  recovered, runFrom, assistants, faults >>

(* The prompts are emitted; they are in the context already.               *)
OpenRun ==
  /\ phase = "open"
  /\ IF inbox = << >> THEN phase' = "firstPoll" /\ UNCHANGED << transcript, inbox >>
     ELSE /\ transcript' = Append(transcript, Head(inbox))
          /\ inbox' = Tail(inbox)
          /\ UNCHANGED phase
  /\ UNCHANGED << aborted, queueVars, context, toolVars, turnVars, runVars, faults >>

PollSteering ==
  /\ phase \in {"firstPoll", "poll"}
  /\ phase' = IF phase = "poll" THEN "polled" ELSE "turn"
  /\ skipPoll' = FALSE
  /\ IF aborted \/ skipPoll THEN UNCHANGED << steering, inbox >>
     ELSE \E d \in Drained(steering) : inbox' = d[1] /\ steering' = d[2]
  /\ UNCHANGED << aborted, followUps, handed, dropped, transcript, context, toolVars,
                  more, retry, runVars, faults >>

TurnStart ==
  /\ phase = "turn"
  /\ \/ aborted /\ Fail /\ UNCHANGED ends
     \/ ~aborted /\ Goto("inject")
  /\ UNCHANGED << aborted, steering, followUps, handed, transcript, context, toolVars,
                  more, skipPoll, retry, recovered, runFrom, assistants, faults >>

Inject ==
  /\ phase = "inject"
  /\ IF inbox = << >>
     THEN phase' = "build" /\ retry' = "none" /\ UNCHANGED talkVars
     ELSE /\ transcript' = Append(transcript, Head(inbox))
          /\ context' = Append(context, Head(inbox))
          /\ inbox' = Tail(inbox)
          /\ UNCHANGED << phase, retry >>
  /\ UNCHANGED << aborted, queueVars, toolVars, more, skipPoll, runVars, faults >>

(* After turn_end.  The outcome hook says proceed, or the run ends.        *)
TurnEnd ==
  /\ phase = "turnEnd"
  /\ context' = context \o results /\ results' = << >>
  /\ \/ aborted /\ End
     \/ ~aborted /\ Goto("outcome")
  /\ UNCHANGED << aborted, steering, followUps, handed, transcript, call, toolStarted,
                  toolFinished, turnVars, recovered, runFrom, assistants, faults >>

(* getTurnOutcome and shouldStopBeforeTurn.                                *)
Outcome ==
  /\ phase = "outcome"
  /\ End \/ (~aborted /\ Goto("poll"))
  /\ UNCHANGED << aborted, steering, followUps, handed, transcript, context, toolVars,
                  turnVars, recovered, runFrom, assistants, faults >>

(* Mutant of Polled: the run stops although steering was drained.          *)
PolledIgnoringSteering ==
  /\ phase = "polled"
  /\ \/ End
     \/ (more \/ inbox # << >>) /\ Goto("turn")
     \/ ~more /\ inbox = << >> /\ Goto("followPoll")
  /\ UNCHANGED << aborted, steering, followUps, handed, transcript, context, toolVars,
                  turnVars, recovered, runFrom, assistants, faults >>

(* Steering that the poll drained owns the boundary: the run stops here    *)
(* only without it.  An abort ends the run before the next turn.           *)
Polled ==
  /\ phase = "polled"
  /\ \/ (aborted \/ inbox = << >>) /\ End
     \/ (more \/ inbox # << >>) /\ Goto("turn")
     \/ ~more /\ inbox = << >> /\ Goto("followPoll")
  /\ UNCHANGED << aborted, steering, followUps, handed, transcript, context, toolVars,
                  turnVars, recovered, runFrom, assistants, faults >>

PollFollowUps ==
  /\ phase = "followPoll" /\ phase' = "followed"
  /\ IF aborted THEN UNCHANGED << followUps, inbox >>
     ELSE \E d \in Drained(followUps) : inbox' = d[1] /\ followUps' = d[2]
  /\ UNCHANGED << aborted, steering, handed, dropped, transcript, context, toolVars,
                  turnVars, runVars, faults >>

Followed ==
  /\ phase = "followed"
  /\ \/ (aborted \/ inbox = << >>) /\ End
     \/ inbox # << >> /\ Goto("turn")
     \/ inbox = << >> /\ Goto("continuation")
  /\ UNCHANGED << aborted, steering, followUps, handed, transcript, context, toolVars,
                  turnVars, recovered, runFrom, assistants, faults >>

(* getContinuationOutcome can ask for one more turn without a message.     *)
Continuation ==
  /\ phase = "continuation"
  /\ \/ End /\ UNCHANGED handed
     \/ \E n \in 0..1 :
          /\ ~aborted /\ handed + n <= MaxMessages
          /\ phase' = "turn"
          /\ inbox' = NewBatch(n, "continuation")
          /\ handed' = handed + n
          /\ UNCHANGED << dropped, ends >>
  /\ UNCHANGED << aborted, steering, followUps, transcript, context, toolVars, turnVars,
                  recovered, runFrom, assistants, faults >>

-----------------------------------------------------------------------------
(* streamAssistantResponse.                                                *)

HasPartial == context # << >> /\ Last(context).role = "assistant"
                              /\ Last(context).stop = "partial"

(* Mutant of Place: the final message is appended behind the partial one.  *)
PlaceBehind(m) == Append(context, m)

Place(m) == IF HasPartial THEN Append(Front(context), m) ELSE Append(context, m)

ContextBuilt ==
  /\ phase = "build" /\ ~aborted /\ phase' = "prepare"
  /\ UNCHANGED << aborted, queueVars, talkVars, toolVars, turnVars, runVars, faults >>

SendRequest ==
  /\ phase = "prepare" /\ ~aborted /\ assistants < MaxAssistants
  /\ phase' = "streaming"
  /\ assistants' = assistants + 1
  /\ UNCHANGED << aborted, queueVars, talkVars, toolVars, turnVars, recovered, runFrom,
                  ends, faults >>

(* The request cannot be prepared: with an owner for it, and if it has not *)
(* recovered this request before, the owner may change what is sent.       *)
PrepareFails ==
  /\ phase = "prepare" /\ ~aborted
  /\ faults < MaxFaults /\ faults' = faults + 1
  /\ \/ retry # "recovered" /\ Goto("recovering")
     \/ Fail /\ UNCHANGED ends
  /\ UNCHANGED << aborted, steering, followUps, handed, transcript, context, toolVars,
                  turnVars, recovered, runFrom, assistants >>

Recover ==
  /\ phase = "recovering"
  /\ \/ retry = "none" /\ retry' = "reprepared" /\ Goto("build")
     \/ retry' = "recovered" /\ Goto("build")
     \/ Fail /\ UNCHANGED << ends, retry >>
  /\ UNCHANGED << aborted, steering, followUps, handed, transcript, context, toolVars,
                  more, skipPoll, recovered, runFrom, assistants, faults >>

ProviderStarts ==
  /\ phase = "streaming" /\ ~aborted /\ ~HasPartial
  /\ context' = Append(context, Assistant(assistants, 0, "partial"))
  /\ UNCHANGED << phase, aborted, queueVars, transcript, inbox, toolVars, turnVars,
                  runVars, faults >>

Answer(m) ==
  /\ phase' = "answered"
  /\ context' = Place(m)
  /\ transcript' = Append(transcript, m)
  /\ UNCHANGED << aborted, queueVars, inbox, toolVars, turnVars, recovered, runFrom,
                  ends, faults >>

ProviderAnswers(calls, stop) ==
  /\ phase = "streaming" /\ ~aborted
  /\ Answer(Assistant(assistants, calls, stop))
  /\ UNCHANGED assistants

(* finishAbortedMessage keeps the calls of the partial reply.              *)
FinishAborted(calls) ==
  /\ phase \in {"build", "prepare", "streaming"} /\ aborted
  /\ HasPartial \/ calls = 0
  /\ assistants' = IF phase = "streaming" THEN assistants ELSE assistants + 1
  /\ Answer(Assistant(assistants', calls, "aborted"))

(* The reply is in the transcript.  A failed one is recovered by its owner *)
(* or ends the run; one with tool calls starts a batch.                    *)
Answered ==
  /\ phase = "answered"
  /\ LET m == Last(context)
     IN  \/ /\ m.stop = "stop" /\ m.calls = 0
            /\ more' = FALSE /\ Goto("turnEnd")
            /\ UNCHANGED << call, recovered, context >>
         \/ /\ m.stop = "stop" /\ m.calls > 0
            /\ call' = [i \in 1..m.calls |-> [at |-> "waiting", outcome |-> "none"]]
            /\ Goto("calling") \/ Goto("preparing")
            /\ UNCHANGED << more, recovered, context >>
         \/ /\ m.stop # "stop" /\ End
            /\ UNCHANGED << call, more, recovered, context >>
         \/ /\ m.stop = "error" /\ ~aborted
            /\ recovered' = recovered \union {m.id}
            /\ context' = Front(context)
            /\ Goto("turn")
            /\ UNCHANGED << call, more >>
         \/ /\ m.stop = "error" /\ aborted /\ Fail
            /\ UNCHANGED << call, more, recovered, context, ends >>
  /\ results' = << >>
  /\ UNCHANGED << aborted, steering, followUps, handed, transcript, toolStarted,
                  toolFinished, skipPoll, retry, runFrom, assistants, faults >>

-----------------------------------------------------------------------------
(* executeToolCalls.  A sequential batch stays in phase "calling"; a       *)
(* parallel one prepares its calls in order, executes them together, and   *)
(* answers them in order.                                                  *)

batchVars == << aborted, steering, followUps, handed, turnVars, recovered, runFrom,
                assistants >>
stillVars == << phase, inbox, dropped, ends >>

Moved(i, at) == call' = [call EXCEPT ![i].at = at]
Settled(i, o) == call' = [call EXCEPT ![i] = [at |-> "publishing", outcome |-> o]]

Announce(i) ==
  /\ call[i].at = "waiting"
  /\ \/ /\ phase = "calling" /\ ~aborted
        /\ \A j \in 1..(i - 1) : call[j].at = "answered"
     \/ /\ phase = "preparing"
        /\ \A j \in 1..(i - 1) : call[j].at \in {"ready", "published"}
  /\ Moved(i, "announced")
  /\ UNCHANGED << stillVars, batchVars, transcript, context, results, toolStarted,
                  toolFinished, faults >>

(* prepareToolCall: unknown, invalid or blocked calls get a result at once *)
(* and so does one whose hook is aborted.                                  *)
PrepareCall(i) ==
  /\ phase \in {"calling", "preparing"} /\ call[i].at = "announced"
  /\ Moved(i, "ready") \/ Settled(i, "not_started")
  /\ UNCHANGED << stillVars, batchVars, transcript, context, results, toolStarted,
                  toolFinished, faults >>

(* executePreparedToolCall begins, without its owner after an abort.       *)
Launch ==
  /\ \E i \in DOMAIN call : call[i].at = "ready"
  /\ \/ phase = "calling" /\ UNCHANGED phase
     \/ /\ phase = "preparing" /\ CallsAt({"ready", "published"})
        /\ phase' = "executing"
  /\ call' = [i \in DOMAIN call |->
                IF call[i].at # "ready" THEN call[i]
                ELSE IF aborted THEN [at |-> "publishing", outcome |-> "not_started"]
                ELSE [at |-> "admitting", outcome |-> "none"]]
  /\ UNCHANGED << inbox, dropped, ends, batchVars, transcript, context, results,
                  toolStarted, toolFinished, faults >>

ToolPhase == phase \in {"calling", "preparing", "executing"}

(* onToolInvocationStarting has settled; the tool is executed.             *)
Admit(i) ==
  /\ ToolPhase /\ call[i].at = "admitting"
  /\ IF aborted THEN Settled(i, "not_started") /\ UNCHANGED toolStarted
     ELSE /\ Moved(i, "running")
          /\ toolStarted' = toolStarted \union {<< assistants, i >>}
  /\ UNCHANGED << stillVars, batchVars, transcript, context, results, toolFinished, faults >>

(* The tool's own promise, perhaps long after the loop has given it up.    *)
ToolFinishes(t) ==
  /\ t \in toolStarted \ toolFinished
  /\ toolFinished' = toolFinished \union {t}
  /\ UNCHANGED << stillVars, batchVars, transcript, context, call, results, toolStarted,
                  faults >>

CallReturns(i) ==
  /\ ToolPhase /\ call[i].at = "running" /\ << assistants, i >> \in toolFinished
  /\ Settled(i, "completed") \/ (~aborted /\ Settled(i, "failed"))
  /\ UNCHANGED << stillVars, batchVars, transcript, context, results, toolStarted,
                  toolFinished, faults >>

(* Mutants of CallAborted: the result claims that the tool never ran; the  *)
(* tool is awaited instead of raced with the abort.                        *)
CallAbortedAsNotStarted(i) ==
  /\ ToolPhase /\ call[i].at = "running" /\ aborted
  /\ Settled(i, "not_started")
  /\ UNCHANGED << stillVars, batchVars, transcript, context, results, toolStarted,
                  toolFinished, faults >>

CallAbortedAtItsEnd(i) ==
  /\ ToolPhase /\ call[i].at = "running" /\ aborted
  /\ << assistants, i >> \in toolFinished
  /\ Settled(i, "outcome_unknown")
  /\ UNCHANGED << stillVars, batchVars, transcript, context, results, toolStarted,
                  toolFinished, faults >>

CallAborted(i) ==
  /\ ToolPhase /\ call[i].at = "running" /\ aborted
  /\ Settled(i, "outcome_unknown")
  /\ UNCHANGED << stillVars, batchVars, transcript, context, results, toolStarted,
                  toolFinished, faults >>

(* onToolExchangeFinalized and tool_execution_end.                         *)
Publish(i) ==
  /\ ToolPhase /\ call[i].at = "publishing"
  /\ Moved(i, "published")
  /\ UNCHANGED << stillVars, batchVars, transcript, context, results, toolStarted,
                  toolFinished, faults >>

(* The owner of a call throws, when it admits or when it is published; a   *)
(* parallel batch first waits for the others.                              *)
CallRejected(i) ==
  /\ ToolPhase /\ call[i].at \in {"admitting", "publishing"}
  /\ faults < MaxFaults /\ faults' = faults + 1
  /\ IF phase = "executing" THEN Moved(i, "rejected") /\ UNCHANGED stillVars
     ELSE Fail /\ UNCHANGED << call, ends >>
  /\ UNCHANGED << batchVars, transcript, context, results, toolStarted, toolFinished >>

(* Mutant of AllSettled: the first rejection ends the wait (Promise.all).  *)
FirstRejected ==
  /\ \/ phase = "executing" /\ CallsAt({"published", "rejected"})
     \/ phase = "executing" /\ \E i \in DOMAIN call : call[i].at = "rejected"
     \/ phase = "preparing" /\ CallsAt({"published"})
  /\ phase' = "answering"
  /\ UNCHANGED << inbox, dropped, ends, batchVars, transcript, context, toolVars, faults >>

AllSettled ==
  /\ \/ phase = "executing" /\ CallsAt({"published", "rejected"})
     \/ phase = "preparing" /\ CallsAt({"published"})
  /\ phase' = "answering"
  /\ UNCHANGED << inbox, dropped, ends, batchVars, transcript, context, toolVars, faults >>

(* Mutant of AnswerCall: the results come as the calls complete.           *)
AnswerAsCompleted(i) ==
  /\ phase \in {"calling", "answering"} /\ call[i].at = "published"
  /\ Moved(i, "answered")
  /\ LET m == ToolResult(assistants, i, call[i].outcome)
     IN  transcript' = Append(transcript, m) /\ results' = Append(results, m)
  /\ UNCHANGED << stillVars, batchVars, context, toolStarted, toolFinished, faults >>

(* emitToolResultMessage, in the order of the calls.                       *)
AnswerCall(i) ==
  /\ phase \in {"calling", "answering"} /\ call[i].at = "published"
  /\ \A j \in 1..(i - 1) : call[j].at # "published"
  /\ Moved(i, "answered")
  /\ LET m == ToolResult(assistants, i, call[i].outcome)
     IN  transcript' = Append(transcript, m) /\ results' = Append(results, m)
  /\ UNCHANGED << stillVars, batchVars, context, toolStarted, toolFinished, faults >>

(* The batch is over: every call is answered, or an abort came between two *)
(* calls of a sequential batch, or a call was rejected.                    *)
FinishBatch ==
  /\ \/ phase = "answering" /\ CallsAt({"answered", "rejected"})
     \/ phase = "calling" /\ CallsAt({"answered"})
     \/ phase = "calling" /\ aborted /\ CallsAt({"answered", "waiting"})
  /\ IF \E i \in DOMAIN call : call[i].at = "rejected"
     THEN Fail /\ UNCHANGED << more, ends >>
     ELSE /\ Goto("turnEnd")
          /\ more' \in IF results = << >> THEN {TRUE} ELSE BOOLEAN
  /\ call' = << >>
  /\ UNCHANGED << aborted, steering, followUps, handed, transcript, context, results,
                  toolStarted, toolFinished, skipPoll, retry, recovered,
                  runFrom, assistants, faults >>

-----------------------------------------------------------------------------

Init ==
  /\ phase = "idle" /\ aborted = FALSE
  /\ transcript = << >> /\ context = << >> /\ inbox = << >>
  /\ steering = << >> /\ followUps = << >>
  /\ call = << >> /\ results = << >>
  /\ more = FALSE /\ skipPoll = FALSE /\ retry = "none"
  /\ recovered = {} /\ handed = 0 /\ assistants = 0 /\ runFrom = 0 /\ dropped = {}
  /\ toolStarted = {} /\ toolFinished = {} /\ ends = 0 /\ faults = 0

Caller ==
  \/ \E n \in 1..2 : Prompt(n) \/ Steer(n) \/ FollowUp(n)
  \/ ContinueQueued \/ ContinueTranscript \/ Abort
  \/ \E S \in SUBSET (QueuedIds(steering) \union QueuedIds(followUps)) : RemoveQueued(S)

(* What the loop does by itself once listeners and owners have settled.    *)
LoopStep ==
  \/ Initialized \/ OpenRun \/ PollSteering \/ TurnStart \/ Inject \/ ContextBuilt
  \/ Recover \/ TurnEnd \/ Polled \/ PollFollowUps \/ Followed
  \/ Launch \/ AllSettled \/ FinishBatch
  \/ \E i \in DOMAIN call :
       Announce(i) \/ Admit(i) \/ CallAborted(i) \/ Publish(i) \/ AnswerCall(i)
  \/ \E c \in 0..MaxCalls : FinishAborted(c)
  \/ Ended \/ HandleRunFailure \/ FinishRun

(* What waits for a hook, which the abort signal cuts short.               *)
HookStep == Answered \/ Outcome \/ Continuation \/ \E i \in DOMAIN call : PrepareCall(i)

Outside ==
  \/ SendRequest \/ PrepareFails \/ ProviderStarts \/ BudgetFailure \/ Throw
  \/ \E c \in 0..MaxCalls, s \in {"stop", "error"} : ProviderAnswers(c, s)
  \/ \E t \in toolStarted : ToolFinishes(t)
  \/ \E i \in DOMAIN call : CallReturns(i) \/ CallRejected(i)

Next == Caller \/ LoopStep \/ HookStep \/ Outside

(* Listeners and owners settle, hooks do when the run is aborted; nothing  *)
(* is assumed of the provider, of the tools or of the callers.             *)
Fairness == WF_vars(LoopStep) /\ WF_vars(aborted /\ HookStep)

Spec == Init /\ [][Next]_vars /\ Fairness

-----------------------------------------------------------------------------
(* Properties. *)

(* Types of the state. *)
TypeOK ==
  /\ phase \in {"idle", "init", "open", "firstPoll", "turn", "inject", "build",
                "prepare", "recovering", "streaming", "answered", "calling",
                "preparing", "executing", "answering", "turnEnd", "outcome", "poll",
                "polled", "followPoll", "followed", "continuation", "ending",
                "failing", "closing"}
  /\ {aborted, more, skipPoll} \subseteq BOOLEAN
  /\ \A s \in {transcript, context, inbox, results} : \A i \in DOMAIN s :
       s[i].role \in {"user", "assistant", "toolResult"}
  /\ retry \in {"none", "reprepared", "recovered"}
  /\ CallsAt({"waiting", "announced", "ready", "admitting", "running", "publishing",
              "published", "rejected", "answered"})
  /\ {handed, assistants, runFrom, ends, faults} \subseteq Nat
  /\ recovered \subseteq 1..assistants /\ dropped \subseteq 1..handed
  /\ toolFinished \subseteq toolStarted

ThisRun(m) == m.role # "user" /\ m.id > runFrom

(* In what the loop sends to the provider, the calls of a reply of this    *)
(* run are each answered once, directly behind the reply and in its order; *)
(* no other result is there.  However the calls were executed, aborted,    *)
(* blocked or rejected, a batch left open ends the run.                    *)
CallsAnswered ==
  phase = "prepare" =>
    \A j \in DOMAIN context :
      LET m == context[j]
      IN  /\ (ThisRun(m) /\ m.role = "assistant") =>
               \A i \in 1..m.calls :
                 /\ j + i \in DOMAIN context
                 /\ context[j + i].role = "toolResult"
                 /\ context[j + i].id = m.id /\ context[j + i].call = i
          /\ (ThisRun(m) /\ m.role = "toolResult") =>
               \E k \in 1..(j - 1) : /\ context[k].role = "assistant"
                                     /\ context[k].id = m.id /\ j = k + m.call

(* What is sent is what listeners and callers see: the transcript, without *)
(* the failed replies this run recovered from.                             *)
RequestIsTranscript ==
  phase = "prepare" =>
    context = Picked(transcript,
                {i \in DOMAIN transcript :
                   transcript[i].role = "user" \/ transcript[i].id \notin recovered})

(* A message that was handed over is queued, taken by the run that is      *)
(* active, or in the transcript; or it was removed, or taken by a run that *)
(* an abort or a failure ended: no run that ends by itself forgets one.    *)
(* It is in the transcript at most once, in the order of its kind.         *)
MessagesKept ==
  /\ 1..handed = QueuedIds(steering) \union QueuedIds(followUps)
                   \union (IF phase = "idle" THEN {} ELSE Ids(inbox))
                   \union {transcript[i].id :
                             i \in {k \in DOMAIN transcript : transcript[k].role = "user"}}
                   \union dropped
  /\ \A i, j \in DOMAIN transcript :
       (/\ i < j /\ transcript[i].role = "user" /\ transcript[j].role = "user"
        /\ transcript[i].via = transcript[j].via) => transcript[i].id < transcript[j].id

(* No tool of a run is left running when the run goes on or ends, unless   *)
(* it was aborted - even when the owner of another call failed.            *)
StartedToolsSettle ==
  (phase \notin {"calling", "executing"} /\ ~aborted) =>
    \A t \in toolStarted \ toolFinished : t[1] <= runFrom

(* A result says of its tool what is so: not started, finished, or started *)
(* with an unknown outcome.                                                *)
OutcomesAreTrue ==
  \A i \in DOMAIN transcript :
    transcript[i].role = "toolResult" =>
      LET t == << transcript[i].id, transcript[i].call >>
          o == transcript[i].outcome
      IN  /\ o = "not_started" <=> t \notin toolStarted
          /\ o \in {"completed", "failed"} => t \in toolFinished

(* An abort ends the run, although no provider, tool or hook ever answers. *)
AbortSettles == (aborted /\ phase # "idle") ~> phase = "idle"

(* agent.ts, subscribe: "agent_end is the final emitted event for a run".  *)
AgentEndIsFinal == ends <= 1
=============================================================================
