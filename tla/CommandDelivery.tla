--------------------------- MODULE CommandDelivery --------------------------
(***************************************************************************)
(* Mutating commands between a daemon client and the supervisor            *)
(* (modes/daemon/daemon-client.ts, handleLine of daemon-supervisor.ts),    *)
(* over the journal of CommandJournal.                                     *)
(*                                                                         *)
(* The client keeps the envelope of every unanswered request, sends it     *)
(* again under the same id after a reconnect, and acknowledges the         *)
(* response it got.  The supervisor looks a command up before it runs it,  *)
(* records it, runs it, records the response and writes it to the socket   *)
(* the copy came from.  One client is modelled: two clients meet only in   *)
(* the journal, whose keys name the client.                                *)
(*                                                                         *)
(* The two directions of the current socket are sequences.  toSupervisor   *)
(* also holds what the client wrote to an earlier socket and the           *)
(* supervisor, which reads sockets in the order they became readable, has  *)
(* not read yet: it is read before anything the client writes to a later   *)
(* one, because the client writes there only after the hello the           *)
(* supervisor sent when it accepted that socket.                           *)
(***************************************************************************)
EXTENDS CommandJournal

CONSTANTS
  MaxSockets,    \* bound of the model: sockets the client opens
  MaxCrashes     \* bound of the model: supervisor processes that end

ASSUME BoundAssumption == MaxSockets \in Nat /\ MaxCrashes \in Nat

VARIABLES
  socket,        \* number of the client's latest socket
  link,          \* "down", "connecting" (no hello yet) or "up"
  hungUp,        \* the process at the other end of the socket is gone
  pending,       \* pendingRequests: "idle", "sent", "awaiting", "settled"
  verdict,       \* what the request's promise settled with
  toSupervisor,  \* bytes written by the client and not read yet
  toClient,      \* bytes of the current socket the client has not read yet
  mode,          \* "serving", "restarting" (updateRestartPhase), "stopping"
  fence,         \* an eviction fence holds the commands in gate
  gate,          \* commands that await the fence, already looked up
  running,       \* commands inside handleCommand
  runs,          \* history: how often each command entered handleCommand
  answer,        \* history: what its run answered
  crashes        \* counts processes that ended

clientVars == << socket, link, pending, verdict >>
wireVars   == << hungUp, toSupervisor, toClient >>
serverVars == << mode, fence, gate, running >>
history    == << runs, answer >>
vars == << journalVars, clientVars, wireVars, serverVars, history, crashes >>

Copy == [key : Key, socket : 1..MaxSockets]
Line == [type : {"command", "ack"}, key : Key, socket : 1..MaxSockets]

Hello == [type |-> "hello"]
Reply(k, v) == [type |-> "response", key |-> k, verdict |-> v]

(* What settles a request without being the response of a run.             *)
NoAnswer == {"uncertain", "refused", "timedout", "lost"}

ASSUME VerdictAssumption == Response \intersect NoAnswer = {}

Verdict == Response \union NoAnswer

-----------------------------------------------------------------------------
(* The wire. *)

Send(lines) == toSupervisor' = IF hungUp THEN toSupervisor ELSE toSupervisor \o lines

(* write(): a response to a socket that is destroyed goes nowhere.         *)
Write(c, v) ==
  toClient' = IF c.socket = socket /\ link # "down"
              THEN Append(toClient, Reply(c.key, v)) ELSE toClient

-----------------------------------------------------------------------------
(* The client. *)

Command(k, s) == [type |-> "command", key |-> k, socket |-> s]
Ack(k, s)     == [type |-> "ack", key |-> k, socket |-> s]

(* requestWire, after requestUntilResponse has seen a hello.               *)
Request(k) ==
  /\ link = "up" /\ pending[k] = "idle"
  /\ pending' = [pending EXCEPT ![k] = "sent"]
  /\ Send(<< Command(k, socket) >>)
  /\ UNCHANGED << journalVars, socket, link, verdict, hungUp, toClient, serverVars,
                  history, crashes >>

Settle(K, v) ==
  /\ pending' = [k \in Key |-> IF k \in K THEN "settled" ELSE pending[k]]
  /\ verdict' = [k \in Key |-> IF k \in K THEN v ELSE verdict[k]]

(* armPendingRequestTimeout: the timer runs only while the request is on a *)
(* socket.                                                                 *)
Timeout(k) ==
  /\ pending[k] = "sent"
  /\ Settle({k}, "timedout")
  /\ UNCHANGED << journalVars, socket, link, wireVars, serverVars, history, crashes >>

(* notifyClosed and resetTransportForReconnect: what was written and did   *)
(* not reach the supervisor's end is lost, a suffix of what it has not     *)
(* read; so is every unread response.                                      *)
Disconnect ==
  /\ link # "down"
  /\ link' = "down"
  /\ pending' = [k \in Key |-> IF pending[k] = "sent" THEN "awaiting" ELSE pending[k]]
  /\ toClient' = << >>
  /\ \E n \in 0..Len(toSupervisor) : toSupervisor' = SubSeq(toSupervisor, 1, n)
  /\ UNCHANGED << journalVars, socket, verdict, hungUp, serverVars, history, crashes >>

(* connect(); the supervisor accepts the socket and says hello.            *)
Connect ==
  /\ link = "down" /\ alive /\ socket < MaxSockets
  /\ socket' = socket + 1
  /\ link' = "connecting"
  /\ hungUp' = FALSE
  /\ toClient' = << Hello >>
  /\ UNCHANGED << journalVars, pending, verdict, toSupervisor, serverVars, history,
                  crashes >>

(* autoReconnect at its deadline: rejectAll. *)
GiveUp ==
  /\ link = "down"
  /\ \E k \in Key : pending[k] = "awaiting"
  /\ Settle({k \in Key : pending[k] = "awaiting"}, "lost")
  /\ UNCHANGED << journalVars, socket, link, wireVars, serverVars, history, crashes >>

(* Mutant of ReceiveHello: what is sent again gets no timer.               *)
ResendWithoutTimer ==
  /\ toClient # << >> /\ Head(toClient).type = "hello"
  /\ toClient' = Tail(toClient)
  /\ link' = "up"
  /\ LET K == {k \in Key : pending[k] = "awaiting"}
     IN  \E q \in [1..Cardinality(K) -> K] :
           /\ \A k \in K : \E i \in DOMAIN q : q[i] = k
           /\ Send([i \in DOMAIN q |-> Command(q[i], socket)])
  /\ UNCHANGED << journalVars, socket, pending, verdict, hungUp, serverVars, history,
                  crashes >>

(* handleLine of the client: a hello makes it send again what it awaits.   *)
Permutation(S) ==
  {q \in [1..Cardinality(S) -> S] : \A i, j \in DOMAIN q : q[i] = q[j] => i = j}

ReceiveHello ==
  /\ toClient # << >> /\ Head(toClient).type = "hello"
  /\ toClient' = Tail(toClient)
  /\ link' = "up"
  /\ pending' = [k \in Key |-> IF pending[k] = "awaiting" THEN "sent" ELSE pending[k]]
  /\ \E q \in Permutation({k \in Key : pending[k] = "awaiting"}) :
       Send([i \in DOMAIN q |-> Command(q[i], socket)])
  /\ UNCHANGED << journalVars, socket, verdict, hungUp, serverVars, history, crashes >>

(* Mutant of ReceiveResponse: a late response settles its request again.   *)
SettleAgain ==
  /\ toClient # << >> /\ Head(toClient).type = "response"
  /\ toClient' = Tail(toClient)
  /\ LET m == Head(toClient)
     IN  Settle({m.key}, m.verdict) /\ Send(<< Ack(m.key, socket) >>)
  /\ UNCHANGED << journalVars, socket, link, hungUp, serverVars, history, crashes >>

(* A response settles the request and is acknowledged, whatever it says;   *)
(* a response to a request that timed out is dropped, never acknowledged.  *)
ReceiveResponse ==
  /\ toClient # << >> /\ Head(toClient).type = "response"
  /\ toClient' = Tail(toClient)
  /\ LET m == Head(toClient)
     IN  IF pending[m.key] = "sent"
         THEN Settle({m.key}, m.verdict) /\ Send(<< Ack(m.key, socket) >>)
         ELSE UNCHANGED << pending, verdict, toSupervisor >>
  /\ UNCHANGED << journalVars, socket, link, hungUp, serverVars, history, crashes >>

-----------------------------------------------------------------------------
(* The supervisor.  handleLine awaits the fence and, around it, promises   *)
(* that are already resolved: once the fence is released, every command    *)
(* behind it goes on, in its order, before the process reads another line. *)

Reading == alive /\ (gate = << >> \/ fence)

(* begin(), and handleCommand for a command that is new.                   *)
Admit(c) ==
  LET k == c.key
  IN  \/ /\ BeginNew(k)
         /\ running' = running \union {c}
         /\ runs' = [runs EXCEPT ![k] = @ + 1]
         /\ UNCHANGED << toClient, answer >>
      \/ /\ \/ BeginFails(k)
            \/ entries[k] = None /\ ~Writable /\ UNCHANGED journalVars
         /\ Write(c, "refused")
         /\ UNCHANGED << running, history >>
      \/ /\ entries[k] # None
         /\ Write(c, IF entries[k] = Pending THEN "uncertain" ELSE entries[k])
         /\ UNCHANGED << journalVars, running, history >>

Incoming(t) == Reading /\ toSupervisor # << >> /\ Head(toSupervisor).type = t

HeadCopy == [key |-> Head(toSupervisor).key, socket |-> Head(toSupervisor).socket]

(* Mutant of AnswerCommand: a receipt without a response is answered as if *)
(* it had one.                                                             *)
AnswerWithEntry ==
  /\ Incoming("command")
  /\ LET e == entries[HeadCopy.key]
     IN  \/ mode # "serving" /\ e = None /\ Write(HeadCopy, "refused")
         \/ e # None /\ Write(HeadCopy, e)
  /\ toSupervisor' = Tail(toSupervisor)
  /\ UNCHANGED << journalVars, clientVars, hungUp, serverVars, history, crashes >>

(* A line that is answered without begin(): the process is stopping, the   *)
(* journal has the command, or an update restart is being prepared.        *)
AnswerCommand ==
  /\ Incoming("command")
  /\ LET e == entries[HeadCopy.key]
     IN  \/ mode = "stopping" /\ Write(HeadCopy, "refused")
         \/ mode # "stopping" /\ e = Pending /\ Write(HeadCopy, "uncertain")
         \/ mode # "stopping" /\ e \in Response /\ Write(HeadCopy, e)
         \/ mode = "restarting" /\ e = None /\ Write(HeadCopy, "refused")
  /\ toSupervisor' = Tail(toSupervisor)
  /\ UNCHANGED << journalVars, clientVars, hungUp, serverVars, history, crashes >>

NewCommand == Incoming("command") /\ mode = "serving" /\ entries[HeadCopy.key] = None

(* A command that finds the fence up waits; the fence came up at any time  *)
(* before.                                                                 *)
HoldCommand ==
  /\ NewCommand
  /\ fence' = TRUE
  /\ gate' = Append(gate, HeadCopy)
  /\ toSupervisor' = Tail(toSupervisor)
  /\ UNCHANGED << journalVars, clientVars, hungUp, toClient, mode, running, history,
                  crashes >>

AdmitCommand ==
  /\ NewCommand /\ ~fence
  /\ Admit(HeadCopy)
  /\ toSupervisor' = Tail(toSupervisor)
  /\ UNCHANGED << clientVars, hungUp, mode, fence, gate, crashes >>

ReleaseFence ==
  /\ fence
  /\ fence' = FALSE
  /\ UNCHANGED << journalVars, clientVars, wireVars, mode, gate, running, history,
                  crashes >>

AdmitHeld ==
  /\ alive /\ gate # << >> /\ ~fence
  /\ gate' = Tail(gate)
  /\ \/ mode # "stopping" /\ Admit(Head(gate))
     \/ /\ mode = "stopping"
        /\ Write(Head(gate), "refused")
        /\ UNCHANGED << journalVars, running, history >>
  /\ UNCHANGED << clientVars, hungUp, toSupervisor, mode, fence, crashes >>

(* Mutant of FinishCommand: the response changes after it was recorded.    *)
FinishThenChange(c, r) ==
  /\ Reading /\ c \in running
  /\ running' = running \ {c}
  /\ answer' = [answer EXCEPT ![c.key] = r]
  /\ \E recorded \in Response : RecordResult(c.key, recorded)
  /\ Write(c, r)
  /\ UNCHANGED << clientVars, hungUp, toSupervisor, mode, fence, gate, runs, crashes >>

(* handleCommand returns or throws: the response is recorded, then         *)
(* written; a response that cannot be recorded is replaced by a failure.   *)
FinishCommand(c, r) ==
  /\ Reading /\ c \in running
  /\ running' = running \ {c}
  /\ answer' = [answer EXCEPT ![c.key] = r]
  /\ \/ /\ RecordResult(c.key, r)
        /\ Write(c, IF writeFailure' THEN "refused" ELSE r)
     \/ RecordResultFails(c.key, r) /\ Write(c, "refused")
     \/ /\ ~Writable \/ entries[c.key] = None
        /\ Write(c, "refused")
        /\ UNCHANGED journalVars
  /\ UNCHANGED << clientVars, hungUp, toSupervisor, mode, fence, gate, runs, crashes >>

(* It throws that the generation is stale: nothing is recorded.            *)
AbandonCommand(c) ==
  /\ Reading /\ c \in running /\ mode = "stopping"
  /\ running' = running \ {c}
  /\ Write(c, "refused")
  /\ UNCHANGED << journalVars, clientVars, hungUp, toSupervisor, mode, fence, gate,
                  history, crashes >>

(* ack_result; it is no mutation and waits for no fence.                   *)
ReadAck ==
  /\ Incoming("ack")
  /\ LET k == HeadCopy.key
     IN  \/ mode # "stopping" /\ (Acknowledge(k) \/ AcknowledgeFails(k))
         \/ /\ mode = "stopping" \/ ~Writable \/ entries[k] = None
            /\ UNCHANGED journalVars
  /\ toSupervisor' = Tail(toSupervisor)
  /\ UNCHANGED << clientVars, hungUp, toClient, serverVars, history, crashes >>

(* prepareUpdateRestart begins and fails; shutdown begins.                 *)
ChangeMode ==
  /\ Reading /\ mode # "stopping"
  /\ mode' \in {"serving", "restarting", "stopping"} \ {mode}
  /\ UNCHANGED << journalVars, clientVars, wireVars, fence, gate, running, history,
                  crashes >>

(* The process ends, in the middle of a journal call or elsewhere.  What   *)
(* it has not read is gone; what it has written can still be read.         *)
EndProcess ==
  /\ crashes < MaxCrashes
  /\ crashes' = crashes + 1
  /\ \/ Crash /\ UNCHANGED answer
     \/ /\ NewCommand /\ ~fence /\ CrashInBegin(HeadCopy.key)
        /\ UNCHANGED answer
     \/ /\ gate # << >> /\ ~fence /\ CrashInBegin(Head(gate).key)
        /\ UNCHANGED answer
     \/ \E c \in running, r \in Response :
          /\ Reading /\ CrashInResult(c.key, r)
          /\ answer' = [answer EXCEPT ![c.key] = r]
     \/ /\ Incoming("ack") /\ mode # "stopping"
        /\ CrashInAcknowledge(HeadCopy.key)
        /\ UNCHANGED answer
  /\ toSupervisor' = << >> /\ hungUp' = TRUE
  /\ mode' = "serving" /\ fence' = FALSE /\ gate' = << >> /\ running' = {}
  /\ UNCHANGED << clientVars, toClient, runs >>

StartProcess ==
  /\ Load
  /\ UNCHANGED << clientVars, wireVars, serverVars, history, crashes >>

-----------------------------------------------------------------------------

Init ==
  /\ JournalInit
  /\ socket = 0 /\ link = "down"
  /\ pending = [k \in Key |-> "idle"]
  /\ verdict = [k \in Key |-> None]
  /\ hungUp = FALSE /\ toSupervisor = << >> /\ toClient = << >>
  /\ mode = "serving" /\ fence = FALSE /\ gate = << >> /\ running = {}
  /\ runs = [k \in Key |-> 0]
  /\ answer = [k \in Key |-> None]
  /\ crashes = 0

Next ==
  \/ \E k \in Key : Request(k) \/ Timeout(k)
  \/ Disconnect \/ Connect \/ GiveUp \/ ReceiveHello \/ ReceiveResponse
  \/ AnswerCommand \/ HoldCommand \/ AdmitCommand \/ ReleaseFence \/ AdmitHeld
  \/ \E c \in running : AbandonCommand(c) \/ \E r \in Response : FinishCommand(c, r)
  \/ ReadAck \/ ChangeMode \/ EndProcess \/ StartProcess

(* The client's event loop and its timers run; nothing is assumed of the   *)
(* supervisor, of the commands or of the socket.                           *)
Fairness ==
  /\ WF_vars(ReceiveHello) /\ WF_vars(ReceiveResponse) /\ WF_vars(GiveUp)
  /\ \A k \in Key : WF_vars(Timeout(k))

Spec == Init /\ [][Next]_vars

FairSpec == Spec /\ Fairness

-----------------------------------------------------------------------------
(* Properties. *)

(* Types of the state. *)
TypeOK ==
  /\ JournalTypeOK
  /\ socket \in 0..MaxSockets /\ link \in {"down", "connecting", "up"}
  /\ pending \in [Key -> {"idle", "sent", "awaiting", "settled"}]
  /\ verdict \in [Key -> Verdict \union {None}]
  /\ hungUp \in BOOLEAN
  /\ toSupervisor \in Seq(Line)
  /\ toClient \in Seq({Hello} \union [type : {"response"}, key : Key, verdict : Verdict])
  /\ mode \in {"serving", "restarting", "stopping"} /\ fence \in BOOLEAN
  /\ gate \in Seq(Copy) /\ running \subseteq Copy
  /\ runs \in [Key -> Nat] /\ answer \in [Key -> Response \union {None}]
  /\ crashes \in 0..MaxCrashes

(* However often the client sends a command again, and whatever copies of  *)
(* it wait for a fence when its entry is acknowledged away, the command    *)
(* enters handleCommand at most once - across crashes too.                 *)
AtMostOnce == \A k \in Key : runs[k] <= 1

(* As long as the client may still send a command again, a command that    *)
(* has been started has its receipt in the file: no acknowledgement        *)
(* overtakes the request it is about.                                      *)
ReceiptOutlivesRequest ==
  \A k \in Key : (runs[k] > 0 /\ pending[k] \in {"sent", "awaiting"})
                   => Loaded(file)[k] # None

(* The response the file holds for a command is the one its run produced.  *)
StoredIsAnswer ==
  \A k \in Key : Loaded(file)[k] \in Response => Loaded(file)[k] = answer[k]

(* The client and the supervisor together are a service that runs a        *)
(* command at most once and tells the client once, truthfully.             *)
Service == INSTANCE CommandService WITH asked <- {k \in Key : pending[k] # "idle"}

ImplementsService == Service!ServiceSpec

(* Every request settles: no reconnect leaves one behind unsent and        *)
(* without a timer.                                                        *)
RequestsSettle ==
  \A k \in Key : pending[k] \in {"sent", "awaiting"} ~> pending[k] = "settled"

(* docs/daemon.md: "Repeating a completed command returns the stored       *)
(* result."                                                                *)
RepeatReturnsStored ==
  [][(/\ Incoming("command") /\ toSupervisor' = Tail(toSupervisor)
      /\ toClient' # toClient /\ entries[HeadCopy.key] \in Response)
       => toClient' = Append(toClient, Reply(HeadCopy.key, entries[HeadCopy.key]))]_vars
=============================================================================
