----------------------- MODULE CommandDeliveryProofs -----------------------
(***************************************************************************)
(* Proofs about CommandDelivery, for any finite set of keys, any responses *)
(* and any number of sockets and crashes: a command runs at most once, its *)
(* receipt outlives its request, the file holds what its run answered, and *)
(* client and supervisor together implement CommandService.                *)
(*                                                                         *)
(* First what a step can do to each part of the state; then one lemma per  *)
(* part of the invariant.                                                  *)
(***************************************************************************)
EXTENDS CommandDelivery, CommandJournalProofs

(* A request for k is on its way to begin(), or may be sent again.         *)
Unread(k) == \E i \in 1..Len(toSupervisor) :
               toSupervisor[i].type = "command" /\ toSupervisor[i].key = k
Held(k) == \E i \in 1..Len(gate) : gate[i].key = k
Present(k) == pending[k] \in {"sent", "awaiting"} \/ Unread(k) \/ Held(k)

(* A command that was not sent is unknown to the supervisor; a request     *)
(* that is not settled has no verdict.                                     *)
IdleInv ==
  \A k \in Key : /\ pending[k] = "idle" => ~Present(k) /\ runs[k] = 0
                 /\ pending[k] # "settled" => verdict[k] = None

(* Behind an acknowledgement comes no request of its command.              *)
AckInv ==
  \A i \in 1..Len(toSupervisor) :
    toSupervisor[i].type = "ack" =>
      /\ pending[toSupervisor[i].key] = "settled"
      /\ \A j \in 1..Len(toSupervisor) :
           (i < j /\ toSupervisor[j].type = "command")
             => toSupervisor[j].key # toSupervisor[i].key

(* What a fence that is up holds is new to the journal.                    *)
HeldInv ==
  /\ fence => \A i \in 1..Len(gate) : entries[gate[i].key] = None
  /\ ~alive => ~fence /\ running = {}

(* A request that may still reach begin() finds its receipt.               *)
ReceiptInv == \A k \in Key : runs[k] > 0 /\ Present(k) => Loaded(file)[k] # None

(* What runs was started once and has not answered.                        *)
RunInv ==
  /\ \A k \in Key : runs[k] \in {0, 1} /\ (runs[k] = 0 => answer[k] = None)
  /\ \A c \in running : runs[c.key] = 1 /\ answer[c.key] = None
  /\ \A c, d \in running : c.key = d.key => c = d

(* The file, the Map and the responses on the wire are what a run          *)
(* answered.                                                               *)
AnswerInv ==
  \A k \in Key : /\ Loaded(file)[k] \in Response => Loaded(file)[k] = answer[k]
                 /\ entries[k] \in Response => entries[k] = answer[k]
ReplyInv ==
  \A i \in 1..Len(toClient) :
    (toClient[i].type = "response" /\ toClient[i].verdict \in Response)
      => toClient[i].verdict = answer[toClient[i].key]

-----------------------------------------------------------------------------
(* The lines that the supervisor has not read. *)

(* Lines are read or lost: the rest keep their order.                      *)
Shrinks == \E d \in Nat : /\ Len(toSupervisor') + d <= Len(toSupervisor)
                          /\ \A i \in 1..Len(toSupervisor') :
                               toSupervisor'[i] = toSupervisor[i + d]

(* Lines of the set L are written behind the others.                       *)
Grows(L) ==
  /\ Len(toSupervisor) <= Len(toSupervisor')
  /\ \A i \in 1..Len(toSupervisor) : toSupervisor'[i] = toSupervisor[i]
  /\ \A i \in 1..Len(toSupervisor') : i > Len(toSupervisor) => toSupervisor'[i] \in L

(* Send writes its lines, or nothing.                                      *)
LEMMA SendGrows ==
  ASSUME toSupervisor \in Seq(Line), NEW L \in SUBSET Line, NEW s \in Seq(L), Send(s)
  PROVE  toSupervisor' \in Seq(Line) /\ Grows(L)
<1>1. CASE hungUp
  <2>1. toSupervisor' = toSupervisor /\ Len(toSupervisor) \in Nat
    BY <1>1, LenProperties DEF Send
  <2> QED BY <2>1 DEF Grows
<1>2. CASE ~hungUp
  <2>1. toSupervisor' = toSupervisor \o s
    BY <1>2 DEF Send
  <2>2. s \in Seq(Line)
    BY SeqDef
  <2>3. /\ toSupervisor \o s \in Seq(Line)
        /\ Len(toSupervisor \o s) = Len(toSupervisor) + Len(s)
        /\ \A i \in 1..(Len(toSupervisor) + Len(s)) :
             (toSupervisor \o s)[i] = IF i <= Len(toSupervisor) THEN toSupervisor[i]
                                      ELSE s[i - Len(toSupervisor)]
    BY <2>2, ConcatProperties
  <2>4. Len(toSupervisor) \in Nat /\ Len(s) \in Nat /\ \A i \in 1..Len(s) : s[i] \in L
    BY LenProperties, ElementOfSeq
  <2> QED BY <2>1, <2>3, <2>4 DEF Grows
<1> QED BY <1>1, <1>2

(* Reading the first line.                                                 *)
LEMMA ReadShrinks ==
  ASSUME toSupervisor \in Seq(Line), toSupervisor # << >>,
         toSupervisor' = Tail(toSupervisor)
  PROVE  /\ toSupervisor' \in Seq(Line) /\ Shrinks
         /\ Head(toSupervisor) \in Line /\ Head(toSupervisor) = toSupervisor[1]
         /\ 1 \in 1..Len(toSupervisor) /\ Len(toSupervisor') + 1 = Len(toSupervisor)
         /\ \A i \in 1..Len(toSupervisor') : toSupervisor'[i] = toSupervisor[i + 1]
  BY HeadTailProperties, LenProperties, EmptySeq DEF Shrinks

(* The bytes on their way to the client. *)
Message == {Hello} \union [type : {"response"}, key : Key, verdict : Verdict]

(* A response is written behind the others, or nowhere.                    *)
LEMMA WriteGives ==
  ASSUME toClient \in Seq(Message), NEW c \in Copy, NEW v \in Verdict, Write(c, v)
  PROVE  /\ toClient' \in Seq(Message)
         /\ \A i \in 1..Len(toClient') :
              \/ toClient'[i] = Reply(c.key, v)
              \/ \E j \in 1..Len(toClient) : toClient'[i] = toClient[j]
         /\ toClient' # toClient => link # "down"
<1>1. CASE toClient' = toClient
  BY <1>1
<1>2. CASE toClient' = Append(toClient, Reply(c.key, v)) /\ link # "down"
  <2>1. Reply(c.key, v) \in Message
    BY DEF Reply, Message, Copy
  <2> HIDE DEF Message
  <2>2. /\ Append(toClient, Reply(c.key, v)) \in Seq(Message)
        /\ Len(Append(toClient, Reply(c.key, v))) = Len(toClient) + 1
        /\ \A i \in 1..Len(toClient) : Append(toClient, Reply(c.key, v))[i] = toClient[i]
        /\ Append(toClient, Reply(c.key, v))[Len(toClient) + 1] = Reply(c.key, v)
    BY <2>1, AppendProperties
  <2>3. Len(toClient) \in Nat
    BY LenProperties
  <2>4. \A i \in 1..Len(toClient') : i \in 1..Len(toClient) \/ i = Len(toClient) + 1
    BY <1>2, <2>2, <2>3
  <2> QED BY <1>2, <2>2, <2>4
<1> QED BY <1>1, <1>2 DEF Write

(* The client reads the first message.                                     *)
LEMMA ClientReads ==
  ASSUME toClient \in Seq(Message), toClient # << >>, toClient' = Tail(toClient)
  PROVE  /\ toClient' \in Seq(Message)
         /\ \A i \in 1..Len(toClient') : \E j \in 1..Len(toClient) : toClient'[i] = toClient[j]
         /\ Head(toClient) \in Message /\ Head(toClient) = toClient[1]
         /\ 1 \in 1..Len(toClient)
<1> HIDE DEF Message
<1>1. /\ Head(toClient) \in Message /\ Tail(toClient) \in Seq(Message)
      /\ Len(Tail(toClient)) = Len(toClient) - 1
      /\ \A i \in 1..Len(Tail(toClient)) : Tail(toClient)[i] = toClient[i + 1]
  BY HeadTailProperties
<1>2. Len(toClient) \in Nat \ {0}
  BY EmptySeq
<1>3. \A i \in 1..Len(Tail(toClient)) : i + 1 \in 1..Len(toClient)
  BY <1>1, <1>2
<1>4. Head(toClient) = toClient[1]
  BY <1>2
<1> QED BY <1>1, <1>2, <1>3, <1>4

-----------------------------------------------------------------------------
(* What a step does to the client and the wires. *)

ClientInv == socket = 0 => link = "down" /\ toClient = << >>

(* The types of the client and the wires.                                  *)
WireTypes ==
  /\ socket \in 0..MaxSockets /\ link \in {"down", "connecting", "up"}
  /\ pending \in [Key -> {"idle", "sent", "awaiting", "settled"}]
  /\ verdict \in [Key -> Verdict \union {None}]
  /\ hungUp \in BOOLEAN
  /\ toSupervisor \in Seq(Line) /\ toClient \in Seq(Message)

(* The first line, when it is a command, is a copy; and so is what is      *)
(* held.                                                                   *)
LEMMA CopiesPresent ==
  ASSUME toSupervisor \in Seq(Line), gate \in Seq(Copy)
  PROVE  /\ Incoming("command") => HeadCopy \in Copy /\ Present(HeadCopy.key)
         /\ Incoming("ack") => HeadCopy.key \in Key
         /\ gate # << >> => Head(gate) \in Copy /\ Present(Head(gate).key)
<1>1. ASSUME toSupervisor # << >>
      PROVE  /\ Head(toSupervisor) \in Line /\ Head(toSupervisor) = toSupervisor[1]
             /\ 1 \in 1..Len(toSupervisor)
  BY <1>1, HeadTailProperties, LenProperties, EmptySeq
<1>2. ASSUME gate # << >>
      PROVE  Head(gate) \in Copy /\ Head(gate) = gate[1] /\ 1 \in 1..Len(gate)
  BY <1>2, HeadTailProperties, LenProperties, EmptySeq
<1>3. ASSUME gate # << >> PROVE Present(Head(gate).key)
  BY <1>2, <1>3 DEF Present, Held
<1>4. ASSUME Incoming("command") PROVE HeadCopy \in Copy /\ Present(HeadCopy.key)
  BY <1>1, <1>4 DEF Incoming, HeadCopy, Present, Unread, Line, Copy
<1>5. ASSUME Incoming("ack") PROVE HeadCopy.key \in Key
  BY <1>1, <1>5 DEF Incoming, HeadCopy, Line
<1> QED BY <1>2, <1>3, <1>4, <1>5

(* A finite set has a permutation, and only sequences of its elements are. *)
LEMMA PermutationsAreSeqs ==
  ASSUME NEW S \in SUBSET Key, NEW q \in Permutation(S), NEW s
  PROVE  /\ [i \in DOMAIN q |-> Command(q[i], s)] \in Seq({Command(k, s) : k \in S})
<1>1. Cardinality(S) \in Nat
  BY KeyAssumption, FS_Subset, FS_CardinalityType
<1>2. q \in [1..Cardinality(S) -> S]
  BY DEF Permutation
<1> HIDE DEF Permutation
<1>3. DOMAIN q = 1..Cardinality(S) /\ \A i \in 1..Cardinality(S) : q[i] \in S
  BY <1>2
<1>4. [i \in DOMAIN q |-> Command(q[i], s)]
        \in [1..Cardinality(S) -> {Command(k, s) : k \in S}]
  BY <1>3
<1> QED BY <1>1, <1>4, SeqDef

(* A message that is a response names its key and what it says.            *)
LEMMA ResponseFacts ==
  ASSUME toClient \in Seq(Message), toClient # << >>, Head(toClient).type = "response"
  PROVE  /\ Head(toClient).key \in Key /\ Head(toClient).verdict \in Verdict
         /\ Head(toClient) = toClient[1] /\ 1 \in 1..Len(toClient)
<1>1. Head(toClient) \in Message /\ Head(toClient) = toClient[1] /\ 1 \in 1..Len(toClient)
  <2> HIDE DEF Message
  <2> QED BY HeadTailProperties, LenProperties, EmptySeq
<1> QED BY <1>1 DEF Message, Hello

(* What a client's step can do to a request: it is asked for once, it is   *)
(* settled once.                                                           *)
Settling(K) ==
  /\ pending' = [k \in Key |-> IF k \in K THEN "settled" ELSE pending[k]]
  /\ \A k \in K : pending[k] \in {"sent", "awaiting"}
  /\ \E v \in Verdict :
       /\ verdict' = [k \in Key |-> IF k \in K THEN v ELSE verdict[k]]
       /\ v \in Response => \A k \in K : /\ toClient # << >> /\ Head(toClient).key = k
                                         /\ Head(toClient).type = "response"
                                         /\ Head(toClient).verdict = v

Resends(old, new) ==
  /\ pending' = [k \in Key |-> IF pending[k] = old THEN new ELSE pending[k]]
  /\ verdict' = verdict

Asks(k) ==
  /\ pending[k] = "idle" /\ pending' = [pending EXCEPT ![k] = "sent"]
  /\ verdict' = verdict

ClientShape ==
  \/ \E k \in Key : Asks(k) /\ Grows({Command(k, socket)})
  \/ \E K \in SUBSET Key : Settling(K) /\ Shrinks
  \/ \E k \in Key : Settling({k}) /\ Grows({Ack(k, socket)})
  \/ Resends("sent", "awaiting") /\ Shrinks
  \/ /\ Resends("awaiting", "sent")
     /\ Grows({Command(k, socket) : k \in {x \in Key : pending[x] = "awaiting"}})
  \/ UNCHANGED << pending, verdict >> /\ Shrinks

ClientStep ==
  \/ \E k \in Key : Request(k) \/ Timeout(k)
  \/ Disconnect \/ Connect \/ GiveUp \/ ReceiveHello \/ ReceiveResponse

(* Nothing is read or written.                                             *)
LEMMA SameShrinks ==
  ASSUME toSupervisor \in Seq(Line), toSupervisor' = toSupervisor
  PROVE  Shrinks
<1>1. /\ Len(toSupervisor) \in Nat /\ Len(toSupervisor') + 0 <= Len(toSupervisor)
      /\ \A i \in 1..Len(toSupervisor') : toSupervisor'[i] = toSupervisor[i + 0]
  BY LenProperties
<1> QED BY <1>1 DEF Shrinks

(* Each step of the client has one of these shapes, keeps the types, and   *)
(* puts nothing on the wire to the client but a hello.                     *)
LEMMA ClientShapes ==
  ASSUME WireTypes, ClientInv, ClientStep
  PROVE  /\ ClientShape /\ WireTypes' /\ ClientInv'
         /\ \A i \in 1..Len(toClient') :
              toClient'[i] = Hello \/ \E j \in 1..Len(toClient) : toClient'[i] = toClient[j]
<1> DEFINE Kept == \A i \in 1..Len(toClient') :
                     \/ toClient'[i] = Hello
                     \/ \E j \in 1..Len(toClient) : toClient'[i] = toClient[j]
<1> HIDE DEF Message
<1>0. /\ toSupervisor \in Seq(Line) /\ toClient \in Seq(Message)
      /\ toClient' = toClient => Kept
  BY DEF WireTypes
<1>1. ASSUME NEW k \in Key, Request(k) PROVE ClientShape /\ WireTypes' /\ ClientInv' /\ Kept
  <2>1. socket \in 1..MaxSockets
    BY <1>1 DEF Request, ClientInv, WireTypes
  <2>2. Command(k, socket) \in Line
    BY <2>1 DEF Command, Line
  <2>3. << Command(k, socket) >> \in Seq({Command(k, socket)})
    OBVIOUS
  <2>4. toSupervisor' \in Seq(Line) /\ Grows({Command(k, socket)})
    BY <1>0, <1>1, <2>2, <2>3, SendGrows DEF Request
  <2>5. Asks(k)
    BY <1>1 DEF Request, Asks
  <2> QED BY <1>0, <1>1, <2>4, <2>5 DEF Request, ClientShape, WireTypes, ClientInv
<1>2. ASSUME NEW k \in Key, Timeout(k) PROVE ClientShape /\ WireTypes' /\ ClientInv' /\ Kept
  <2>1. Shrinks
    BY <1>0, <1>2, SameShrinks DEF Timeout, wireVars
  <2>2. Settling({k})
    BY <1>2, VerdictAssumption DEF Timeout, Settle, Settling, Verdict, NoAnswer
  <2>3. WireTypes'
    BY <1>2 DEF Timeout, Settle, WireTypes, wireVars, Verdict, NoAnswer
  <2> QED BY <1>0, <1>2, <2>1, <2>2, <2>3 DEF Timeout, ClientShape, ClientInv, wireVars
<1>3. CASE Disconnect
  <2>1. PICK n \in 0..Len(toSupervisor) : toSupervisor' = SubSeq(toSupervisor, 1, n)
    BY <1>3 DEF Disconnect
  <2>2. Len(toSupervisor) \in Nat /\ \A i \in 1..n : toSupervisor[i] \in Line
    BY <1>0, LenProperties, ElementOfSeq
  <2>3. /\ toSupervisor' \in Seq(Line) /\ Len(toSupervisor') = n
        /\ \A i \in 1..n : toSupervisor'[i] = toSupervisor[i]
    BY <2>1, <2>2, SubSeqProperties
  <2>4. Shrinks
    <3>1. /\ Len(toSupervisor') + 0 <= Len(toSupervisor)
          /\ \A i \in 1..Len(toSupervisor') : toSupervisor'[i] = toSupervisor[i + 0]
      BY <2>2, <2>3
    <3> QED BY <3>1 DEF Shrinks
  <2>5. Resends("sent", "awaiting")
    BY <1>3 DEF Disconnect, Resends
  <2>6. toClient' = << >> /\ toClient' \in Seq(Message)
    BY <1>3 DEF Disconnect
  <2>7. WireTypes'
    BY <1>3, <2>3, <2>6 DEF Disconnect, WireTypes
  <2> QED BY <1>3, <2>4, <2>5, <2>6, <2>7 DEF Disconnect, ClientShape, ClientInv
<1>4. CASE Connect
  <2>1. Shrinks
    BY <1>0, <1>4, SameShrinks DEF Connect
  <2>2. /\ toClient' = << Hello >> /\ Hello \in Message
        /\ toClient' \in Seq(Message) /\ \A i \in 1..Len(toClient') : toClient'[i] = Hello
    <3>1. toClient' = << Hello >> /\ Hello \in Message
      BY <1>4 DEF Connect, Message
    <3> HIDE DEF Hello
    <3> QED BY <3>1
  <2>3. socket' \in 0..MaxSockets /\ socket' # 0
    BY <1>4, BoundAssumption DEF Connect, WireTypes
  <2>4. WireTypes' /\ ClientInv'
    <3> HIDE DEF Hello
    <3> QED BY <1>4, <2>2, <2>3 DEF Connect, WireTypes, ClientInv
  <2> QED BY <1>4, <2>1, <2>2, <2>4 DEF Connect, ClientShape
<1>5. CASE GiveUp
  <2> DEFINE K == {k \in Key : pending[k] = "awaiting"}
  <2>1. Shrinks
    BY <1>0, <1>5, SameShrinks DEF GiveUp, wireVars
  <2>2. Settle(K, "lost") /\ K \in SUBSET Key
    BY <1>5 DEF GiveUp
  <2>3. \A k \in K : pending[k] = "awaiting"
    OBVIOUS
  <2> HIDE DEF K
  <2>4. Settling(K)
    BY <2>2, <2>3, VerdictAssumption DEF Settle, Settling, Verdict, NoAnswer
  <2>5. WireTypes'
    BY <1>5, <2>2 DEF GiveUp, Settle, WireTypes, wireVars, Verdict, NoAnswer
  <2> QED BY <1>0, <1>5, <2>1, <2>2, <2>4, <2>5 DEF GiveUp, ClientShape, ClientInv, wireVars
<1>6. CASE ReceiveHello
  <2> DEFINE K == {k \in Key : pending[k] = "awaiting"}
             L == {Command(k, socket) : k \in K}
  <2>1. PICK q \in Permutation(K) : Send([i \in DOMAIN q |-> Command(q[i], socket)])
    BY <1>6 DEF ReceiveHello
  <2>2. socket \in 1..MaxSockets
    BY <1>6 DEF ReceiveHello, ClientInv, WireTypes
  <2>3. L \in SUBSET Line
    BY <2>2 DEF Command, Line
  <2>4. [i \in DOMAIN q |-> Command(q[i], socket)] \in Seq(L)
    BY PermutationsAreSeqs
  <2>5. toSupervisor' \in Seq(Line) /\ Grows(L)
    <3> HIDE DEF L
    <3> QED BY <1>0, <2>1, <2>3, <2>4, SendGrows
  <2>6. Resends("awaiting", "sent")
    BY <1>6 DEF ReceiveHello, Resends
  <2>7. toClient # << >> /\ toClient' = Tail(toClient)
    BY <1>6 DEF ReceiveHello
  <2>8. toClient' \in Seq(Message) /\ Kept
    BY <1>0, <2>7, ClientReads
  <2>9. WireTypes' /\ ClientInv'
    BY <1>6, <2>2, <2>5, <2>8 DEF ReceiveHello, WireTypes, ClientInv
  <2> QED BY <2>5, <2>6, <2>8, <2>9 DEF ClientShape
<1>7. CASE ReceiveResponse
  <2> DEFINE m == Head(toClient)
  <2>1. toClient # << >> /\ toClient' = Tail(toClient) /\ m.type = "response"
    BY <1>7 DEF ReceiveResponse
  <2>2. m.key \in Key /\ m.verdict \in Verdict
    BY <1>0, <2>1, ResponseFacts
  <2>3. toClient' \in Seq(Message) /\ Kept
    BY <1>0, <2>1, ClientReads
  <2>4. socket \in 1..MaxSockets /\ socket' = socket /\ link' = link /\ hungUp' = hungUp
    BY <1>7, <2>1 DEF ReceiveResponse, ClientInv, WireTypes
  <2>5. CASE pending[m.key] = "sent"
    <3>1. Settle({m.key}, m.verdict) /\ Send(<< Ack(m.key, socket) >>)
      BY <1>7, <2>5 DEF ReceiveResponse
    <3>2. Ack(m.key, socket) \in Line
      BY <2>2, <2>4 DEF Ack, Line
    <3>3. << Ack(m.key, socket) >> \in Seq({Ack(m.key, socket)})
      OBVIOUS
    <3>4. toSupervisor' \in Seq(Line) /\ Grows({Ack(m.key, socket)})
      BY <1>0, <3>1, <3>2, <3>3, SendGrows
    <3>5. Settling({m.key})
      BY <2>1, <2>2, <2>5, <3>1 DEF Settle, Settling
    <3>6. WireTypes' /\ ClientInv'
      BY <2>2, <2>3, <2>4, <3>1, <3>4 DEF Settle, WireTypes, ClientInv
    <3> QED BY <2>2, <2>3, <3>4, <3>5, <3>6 DEF ClientShape
  <2>6. CASE pending[m.key] # "sent"
    <3>1. UNCHANGED << pending, verdict, toSupervisor >>
      BY <1>7, <2>6 DEF ReceiveResponse
    <3>2. Shrinks
      BY <1>0, <3>1, SameShrinks
    <3>3. WireTypes' /\ ClientInv'
      BY <2>3, <2>4, <3>1 DEF WireTypes, ClientInv
    <3> QED BY <2>3, <3>1, <3>2, <3>3 DEF ClientShape
  <2> QED BY <2>5, <2>6
<1> QED BY <1>1, <1>2, <1>3, <1>4, <1>5, <1>6, <1>7 DEF ClientStep

-----------------------------------------------------------------------------
(* What a step of the supervisor does. *)

ServerStep ==
  \/ AnswerCommand \/ HoldCommand \/ AdmitCommand \/ ReleaseFence \/ AdmitHeld
  \/ \E c \in running : AbandonCommand(c) \/ \E r \in Response : FinishCommand(c, r)
  \/ ReadAck \/ ChangeMode \/ EndProcess \/ StartProcess

(* What admitting a copy does: it is started, refused, or answered from    *)
(* the journal.                                                            *)
Starts(c) == /\ BeginNew(c.key)
             /\ running' = running \union {c}
             /\ runs' = [runs EXCEPT ![c.key] = @ + 1]
             /\ UNCHANGED << toClient, answer >>
Refuses(c) == /\ BeginFails(c.key) \/ UNCHANGED journalVars
              /\ Write(c, "refused") /\ UNCHANGED << running, history >>
Repeats(c) == /\ entries[c.key] # None
              /\ Write(c, IF entries[c.key] = Pending THEN "uncertain" ELSE entries[c.key])
              /\ UNCHANGED << journalVars, running, history >>

(* Admit has no other outcome.                                             *)
LEMMA AdmitOutcomes == ASSUME NEW c, Admit(c) PROVE Starts(c) \/ Refuses(c) \/ Repeats(c)
  BY DEF Admit, Starts, Refuses, Repeats

(* The outcomes of a run: its response is stored or not, and what is       *)
(* written is the response or a failure.                                   *)
Stores(c, r) == RecordResult(c.key, r) \/ RecordResultFails(c.key, r) \/ UNCHANGED journalVars

LEMMA FinishOutcomes ==
  ASSUME NEW c, NEW r, FinishCommand(c, r)
  PROVE  /\ c \in running /\ running' = running \ {c} /\ runs' = runs
         /\ answer' = [answer EXCEPT ![c.key] = r]
         /\ Stores(c, r) /\ (Write(c, r) \/ Write(c, "refused"))
         /\ UNCHANGED << clientVars, hungUp, toSupervisor, mode, fence, gate, crashes >>
  BY DEF FinishCommand, Stores

(* What a death leaves.                                                    *)
Dies ==
  /\ toSupervisor' = << >> /\ hungUp' = TRUE /\ crashes' = crashes + 1 /\ crashes < MaxCrashes
  /\ mode' = "serving" /\ fence' = FALSE /\ gate' = << >> /\ running' = {}
  /\ UNCHANGED << clientVars, toClient, runs >>
  /\ ~alive' /\ entries' = [k \in Key |-> None]

LEMMA DeathOutcomes ==
  ASSUME EndProcess
  PROVE  Dies
  BY DEF EndProcess, Dies, Crash, Forget, CrashInBegin, CrashInResult, CrashInAcknowledge,
         CrashInAppend

(* The types of the supervisor's state.                                    *)
ServerTypes ==
  /\ mode \in {"serving", "restarting", "stopping"} /\ fence \in BOOLEAN
  /\ gate \in Seq(Copy) /\ running \subseteq Copy
  /\ runs \in [Key -> Nat] /\ answer \in [Key -> Response \union {None}]
  /\ crashes \in 0..MaxCrashes

(* The gate loses what is admitted; a copy that is read joins it.          *)
GateShape ==
  \A i \in 1..Len(gate') : \/ \E j \in 1..Len(gate) : gate'[i] = gate[j]
                           \/ HoldCommand /\ gate'[i] = HeadCopy

LEMMA GateSteps ==
  ASSUME gate \in Seq(Copy), toSupervisor \in Seq(Line), ServerStep
  PROVE  gate' \in Seq(Copy) /\ GateShape
<1>1. CASE gate' = gate
  BY <1>1 DEF GateShape
<1>2. CASE gate' = << >>
  BY <1>2 DEF GateShape
<1>3. CASE gate # << >> /\ gate' = Tail(gate)
  <2>1. /\ Tail(gate) \in Seq(Copy) /\ Len(Tail(gate)) = Len(gate) - 1
        /\ \A i \in 1..Len(Tail(gate)) : Tail(gate)[i] = gate[i + 1]
    BY <1>3, HeadTailProperties
  <2>2. \A i \in 1..Len(Tail(gate)) : i + 1 \in 1..Len(gate)
    BY <2>1, LenProperties
  <2> QED BY <1>3, <2>1, <2>2 DEF GateShape
<1>4. CASE HoldCommand
  <2>1. HeadCopy \in Copy /\ gate' = Append(gate, HeadCopy)
    BY <1>4, CopiesPresent DEF HoldCommand, NewCommand
  <2>2. /\ gate' \in Seq(Copy) /\ Len(gate') = Len(gate) + 1
        /\ \A i \in 1..Len(gate) : gate'[i] = gate[i]
        /\ gate'[Len(gate) + 1] = HeadCopy
    BY <2>1, AppendProperties
  <2>3. \A i \in 1..Len(gate') : i \in 1..Len(gate) \/ i = Len(gate) + 1
    BY <2>2, LenProperties
  <2> QED BY <1>4, <2>2, <2>3 DEF GateShape
<1>5. gate' = gate \/ gate' = << >> \/ (gate # << >> /\ gate' = Tail(gate)) \/ HoldCommand
  BY DeathOutcomes DEF Dies, ServerStep, AnswerCommand, AdmitCommand, ReleaseFence, AdmitHeld,
    AbandonCommand, FinishCommand, ReadAck, ChangeMode, StartProcess, serverVars
<1> QED BY <1>1, <1>2, <1>3, <1>4, <1>5

(* The other variables of the supervisor keep their types; what it reads   *)
(* is the first line; the client does not move.                            *)
LEMMA ServerSteps ==
  ASSUME ServerTypes, toSupervisor \in Seq(Line), JournalTypeOK, ServerStep
  PROVE  /\ ServerTypes' /\ toSupervisor' \in Seq(Line) /\ Shrinks
         /\ UNCHANGED clientVars /\ hungUp' \in {hungUp, TRUE}
<1>0. gate' \in Seq(Copy)
  BY GateSteps DEF ServerTypes
<1>1. toSupervisor' = toSupervisor => toSupervisor' \in Seq(Line) /\ Shrinks
  BY SameShrinks
<1>2. ASSUME Incoming("command") \/ Incoming("ack"), toSupervisor' = Tail(toSupervisor)
      PROVE  toSupervisor' \in Seq(Line) /\ Shrinks
  BY <1>2, ReadShrinks DEF Incoming
<1>3. ASSUME toSupervisor' = << >> PROVE toSupervisor' \in Seq(Line) /\ Shrinks
  <2>1. Len(toSupervisor) \in Nat /\ Len(toSupervisor') = 0 /\ toSupervisor' \in Seq(Line)
    BY <1>3, LenProperties
  <2>2. Len(toSupervisor') + 0 <= Len(toSupervisor) /\ 1..Len(toSupervisor') = {}
    BY <2>1
  <2> QED BY <2>1, <2>2 DEF Shrinks
<1>4. ASSUME NEW c \in Copy, Admit(c)
      PROVE  /\ running' \subseteq Copy /\ runs' \in [Key -> Nat]
             /\ answer' \in [Key -> Response \union {None}]
  <2>1. /\ running \subseteq Copy /\ c.key \in Key /\ runs \in [Key -> Nat]
        /\ answer \in [Key -> Response \union {None}]
    BY DEF ServerTypes, Copy
  <2>2. CASE Starts(c)
    <3>1. runs' \in [Key -> Nat]
      BY <2>1, <2>2 DEF Starts
    <3> HIDE DEF Copy
    <3> QED BY <2>1, <2>2, <3>1 DEF Starts
  <2>3. CASE UNCHANGED << running, history >>
    BY <2>1, <2>3 DEF history
  <2> QED BY <1>4, <2>2, <2>3, AdmitOutcomes DEF Refuses, Repeats
<1>5. CASE AnswerCommand
  BY <1>2, <1>5 DEF AnswerCommand, ServerTypes, serverVars, clientVars, history
<1>6. CASE HoldCommand
  BY <1>0, <1>2, <1>6 DEF HoldCommand, NewCommand, ServerTypes, clientVars, history
<1>7. CASE AdmitCommand
  <2>1. HeadCopy \in Copy
    BY <1>7, CopiesPresent DEF AdmitCommand, NewCommand, ServerTypes
  <2> QED BY <1>2, <1>4, <1>7, <2>1 DEF AdmitCommand, NewCommand, ServerTypes, clientVars
<1>8. CASE ReleaseFence
  BY <1>1, <1>8 DEF ReleaseFence, ServerTypes, clientVars, wireVars, history
<1>9. CASE AdmitHeld
  <2>1. Head(gate) \in Copy
    BY <1>9, CopiesPresent DEF AdmitHeld, ServerTypes
  <2>2. \/ Admit(Head(gate)) \/ UNCHANGED << journalVars, running, history >>
    BY <1>9 DEF AdmitHeld
  <2>3. /\ running' \subseteq Copy /\ runs' \in [Key -> Nat]
        /\ answer' \in [Key -> Response \union {None}]
    BY <1>4, <2>1, <2>2 DEF ServerTypes, history
  <2>4. UNCHANGED << clientVars, hungUp, toSupervisor, mode, fence, crashes >>
    BY <1>9 DEF AdmitHeld
  <2> QED BY <1>0, <1>1, <2>3, <2>4 DEF ServerTypes
<1>10. ASSUME NEW c \in running, AbandonCommand(c)
       PROVE  /\ ServerTypes' /\ toSupervisor' = toSupervisor
              /\ UNCHANGED clientVars /\ hungUp' = hungUp
  BY <1>10 DEF AbandonCommand, ServerTypes, clientVars, history
<1>11. ASSUME NEW c \in running, NEW r \in Response, FinishCommand(c, r)
       PROVE  /\ ServerTypes' /\ toSupervisor' = toSupervisor
              /\ UNCHANGED clientVars /\ hungUp' = hungUp
  BY <1>11, FinishOutcomes DEF ServerTypes, clientVars
<1>12. CASE ReadAck
  BY <1>2, <1>12 DEF ReadAck, ServerTypes, clientVars, serverVars, history
<1>13. CASE ChangeMode
  BY <1>1, <1>13 DEF ChangeMode, ServerTypes, clientVars, wireVars, history
<1>14. CASE EndProcess
  <2>1. Dies
    BY <1>14, DeathOutcomes
  <2>2. answer' \in [Key -> Response \union {None}]
    BY <1>14 DEF EndProcess, ServerTypes
  <2>3. crashes' \in 0..MaxCrashes
    BY <2>1, BoundAssumption DEF Dies, ServerTypes
  <2>4. ServerTypes'
    BY <1>0, <2>1, <2>2, <2>3 DEF Dies, ServerTypes
  <2> QED BY <1>3, <2>1, <2>4 DEF Dies
<1>15. CASE StartProcess
  BY <1>1, <1>15 DEF StartProcess, ServerTypes, clientVars, wireVars, serverVars, history
<1> QED
  BY <1>1, <1>5, <1>6, <1>7, <1>8, <1>9, <1>10, <1>11, <1>12, <1>13, <1>14, <1>15
     DEF ServerStep

-----------------------------------------------------------------------------
(* What a step of the supervisor does to one command. *)

RunsOf(k) == {c \in running : c.key = k}

Rests(k) ==
  /\ runs'[k] = runs[k] /\ answer'[k] = answer[k] /\ RunsOf(k)' \subseteq RunsOf(k)
  /\ Loaded(file')[k] = Loaded(file)[k] /\ entries'[k] \in {entries[k], None, Loaded(file)[k]}

(* It is begun; a receipt that was cut short may be in the file.           *)
Begun(k) ==
  /\ Present(k) /\ Loaded(file)[k] = None /\ answer'[k] = answer[k]
  /\ \/ /\ runs'[k] = runs[k] + 1
        /\ \E c \in Copy : c.key = k /\ RunsOf(k)' = RunsOf(k) \union {c}
        /\ Loaded(file')[k] = Pending /\ entries'[k] = Pending
     \/ /\ runs'[k] = runs[k] /\ RunsOf(k)' \subseteq RunsOf(k)
        /\ Loaded(file')[k] \in {None, Pending} /\ entries'[k] = None

(* Its run answers.                                                        *)
Answered(k, r) ==
  /\ runs'[k] = runs[k] /\ answer'[k] = r /\ RunsOf(k) # {} /\ RunsOf(k)' = {}
  /\ Loaded(file')[k] \in {Loaded(file)[k], r} /\ entries'[k] \in {entries[k], r, None}

(* It is acknowledged.                                                     *)
Forgotten(k) ==
  /\ runs'[k] = runs[k] /\ answer'[k] = answer[k] /\ RunsOf(k)' \subseteq RunsOf(k)
  /\ Incoming("ack") /\ HeadCopy.key = k /\ entries[k] # None
  /\ toSupervisor' \in {Tail(toSupervisor), << >>} /\ gate' \in {gate, << >>}
  /\ Loaded(file')[k] \in {Loaded(file)[k], None} /\ entries'[k] \in {entries[k], None}

Effect(k) ==
  Rests(k) \/ Begun(k) \/ Forgotten(k) \/ \E r \in Response : Answered(k, r)

(* What an append to the Map's own entry means for the others.             *)
LEMMA OthersRest ==
  ASSUME NEW k \in Key, NEW entry, Changes(k, entry), NEW x \in Key, x # k
  PROVE  Loaded(file')[x] = Loaded(file)[x]
  BY DEF Changes

(* A begin that returns: the Map and the file have the receipt.            *)
LEMMA BegunFile ==
  ASSUME NEW k \in Key, JournalInv, BeginNew(k)
  PROVE  /\ JournalInv' /\ Changes(k, Pending) /\ Loaded(file)[k] = None
         /\ Loaded(file')[k] = Pending /\ entries' = [entries EXCEPT ![k] = Pending]
<1>1. JournalInv' /\ Changes(k, Pending) /\ entries = Loaded(file)
  BY BeginKeeps
<1>2. entries' = [entries EXCEPT ![k] = Pending] /\ entries[k] = None
  BY DEF BeginNew, Store
<1>3. Writable'
  BY DEF BeginNew, Store, Writable
<1>4. entries' = Loaded(file') /\ entries \in [Key -> Entry]
  BY <1>1, <1>3 DEF JournalInv, MapIsDurable, JournalTypeOK
<1> QED BY <1>1, <1>2, <1>4

(* A begin that fails or dies: the Map of the process has no receipt.      *)
LEMMA BeginCutShort ==
  ASSUME NEW k \in Key, JournalInv, BeginFails(k) \/ CrashInBegin(k)
  PROVE  /\ JournalInv' /\ Loaded(file)[k] = None
         /\ Loaded(file')[k] \in {None, Pending} /\ entries'[k] = None
         /\ \A x \in Key : x # k => /\ Loaded(file')[x] = Loaded(file)[x]
                                    /\ entries'[x] \in {entries[x], None}
<1>1. JournalInv' /\ Changes(k, Pending) /\ entries = Loaded(file) /\ entries[k] = None
  BY BeginKeeps DEF BeginFails, CrashInBegin
<1>2. \A x \in Key : entries'[x] \in {entries[x], None}
  BY DEF BeginFails, CrashInBegin, AppendFails, CrashInAppend, Forget
<1> QED BY <1>1, <1>2 DEF Changes

(* Admitting a copy: its command is begun, or rests.                       *)
LEMMA AdmitEffects ==
  ASSUME JournalInv, ServerTypes, NEW c \in Copy, Present(c.key), Admit(c)
  PROVE  JournalInv' /\ \A k \in Key : Effect(k)
<1>0. c.key \in Key /\ runs \in [Key -> Nat] /\ running \subseteq Copy
  BY DEF Copy, ServerTypes
<1>1. CASE Starts(c)
  <2>1. /\ JournalInv' /\ Changes(c.key, Pending) /\ Loaded(file)[c.key] = None
        /\ Loaded(file')[c.key] = Pending /\ entries' = [entries EXCEPT ![c.key] = Pending]
    BY <1>0, <1>1, BegunFile DEF Starts
  <2>2. entries \in [Key -> Entry]
    BY DEF JournalInv, JournalTypeOK
  <2>3. ASSUME NEW k \in Key, k # c.key PROVE Rests(k)
    <3>1. Loaded(file')[k] = Loaded(file)[k]
      BY <1>0, <2>1, <2>3, OthersRest
    <3> QED BY <1>0, <1>1, <2>1, <2>2, <2>3, <3>1 DEF Starts, Rests, RunsOf
  <2>4. Begun(c.key)
    <3>1. RunsOf(c.key)' = RunsOf(c.key) \union {c}
      BY <1>1 DEF Starts, RunsOf
    <3>2. runs'[c.key] = runs[c.key] + 1 /\ answer' = answer
      BY <1>0, <1>1 DEF Starts
    <3>3. entries'[c.key] = Pending
      BY <1>0, <2>1, <2>2
    <3> QED BY <2>1, <3>1, <3>2, <3>3 DEF Begun
  <2> QED BY <2>1, <2>3, <2>4 DEF Effect
<1>2. CASE BeginFails(c.key) /\ UNCHANGED << running, history >>
  <2>1. /\ JournalInv' /\ Loaded(file)[c.key] = None
        /\ Loaded(file')[c.key] \in {None, Pending} /\ entries'[c.key] = None
        /\ \A x \in Key : x # c.key => /\ Loaded(file')[x] = Loaded(file)[x]
                                       /\ entries'[x] \in {entries[x], None}
    BY <1>0, <1>2, BeginCutShort
  <2>2. /\ UNCHANGED << runs, answer >> /\ \A k : RunsOf(k)' = RunsOf(k)
    BY <1>2 DEF history, RunsOf
  <2> QED BY <2>1, <2>2 DEF Effect, Rests, Begun
<1>3. CASE UNCHANGED journalVars /\ UNCHANGED << running, history >>
  <2>1. JournalInv'
    BY <1>3 DEF journalVars, JournalInv, JournalTypeOK, FileLoads, MapIsDurable, Writable
  <2> QED BY <1>3, <2>1 DEF Effect, Rests, RunsOf, journalVars, history
<1> QED BY <1>1, <1>2, <1>3, AdmitOutcomes DEF Refuses, Repeats

(* A run that answers, whether or not its response can be stored.          *)
LEMMA FinishEffects ==
  ASSUME JournalInv, ServerTypes, RunInv, NEW c \in running, NEW r \in Response,
         \/ /\ Stores(c, r) /\ running' = running \ {c}
         \/ /\ CrashInResult(c.key, r) /\ running' = {},
         runs' = runs, answer' = [answer EXCEPT ![c.key] = r]
  PROVE  JournalInv' /\ \A k \in Key : Effect(k)
<1>0. /\ c.key \in Key /\ answer \in [Key -> Response \union {None}] /\ running \subseteq Copy
      /\ entries \in [Key -> Entry]
  BY DEF Copy, ServerTypes, JournalInv, JournalTypeOK
<1>1. /\ JournalInv'
      /\ \A x \in Key : /\ x # c.key => Loaded(file')[x] = Loaded(file)[x]
                        /\ x # c.key => entries'[x] \in {entries[x], None}
      /\ Loaded(file')[c.key] \in {Loaded(file)[c.key], r}
      /\ entries'[c.key] \in {entries[c.key], r, None}
  <2>1. CASE RecordResult(c.key, r) \/ RecordResultFails(c.key, r) \/ CrashInResult(c.key, r)
    <3>1. JournalInv' /\ Changes(c.key, r)
      BY <1>0, <2>1, ResultKeeps
    <3>2. CASE RecordResult(c.key, r)
      <4>1. entries' = [entries EXCEPT ![c.key] = r]
        BY <3>2 DEF RecordResult, Store
      <4> QED BY <1>0, <3>1, <4>1 DEF Changes
    <3>3. CASE RecordResultFails(c.key, r) \/ CrashInResult(c.key, r)
      <4>1. \A x \in Key : entries'[x] \in {entries[x], None}
        BY <3>3 DEF RecordResultFails, CrashInResult, AppendFails, CrashInAppend, Forget
      <4> QED BY <1>0, <3>1, <4>1 DEF Changes
    <3> QED BY <2>1, <3>2, <3>3
  <2>2. CASE UNCHANGED journalVars
    <3>1. JournalInv'
      BY <2>2 DEF journalVars, JournalInv, JournalTypeOK, FileLoads, MapIsDurable, Writable
    <3> QED BY <2>2, <3>1 DEF journalVars
  <2> QED BY <2>1, <2>2 DEF Stores
<1>2. RunsOf(c.key)' = {} /\ RunsOf(c.key) # {}
  BY DEF RunsOf, RunInv
<1>3. \A k \in Key : RunsOf(k)' \subseteq RunsOf(k)
  BY DEF RunsOf
<1>4. Answered(c.key, r)
  BY <1>0, <1>1, <1>2 DEF Answered
<1>5. \A k \in Key : k # c.key => Rests(k)
  BY <1>0, <1>1, <1>3 DEF Rests
<1> QED BY <1>1, <1>4, <1>5 DEF Effect

(* An acknowledgement that is read.                                        *)
LEMMA AckEffects ==
  ASSUME JournalInv, toSupervisor \in Seq(Line), gate \in Seq(Copy), Incoming("ack"),
         NEW k, k = HeadCopy.key,
         \/ Acknowledge(k) \/ AcknowledgeFails(k) \/ CrashInAcknowledge(k),
         UNCHANGED << runs, answer >>, running' \subseteq running,
         toSupervisor' \in {Tail(toSupervisor), << >>}, gate' \in {gate, << >>}
  PROVE  JournalInv' /\ \A x \in Key : Effect(x)
<1>1. k \in Key /\ entries \in [Key -> Entry]
  BY CopiesPresent DEF JournalInv, JournalTypeOK
<1>2. JournalInv' /\ Changes(k, None) /\ entries[k] # None
  BY <1>1, AcknowledgeKeeps DEF Acknowledge, AcknowledgeFails, CrashInAcknowledge
<1>3. \A x \in Key : entries'[x] \in {entries[x], None}
  <2>1. CASE Acknowledge(k)
    <3>1. entries' = [entries EXCEPT ![k] = None]
      BY <2>1 DEF Acknowledge, Store
    <3> QED BY <1>1, <3>1
  <2>2. CASE AcknowledgeFails(k) \/ CrashInAcknowledge(k)
    BY <2>2 DEF AcknowledgeFails, CrashInAcknowledge, AppendFails, CrashInAppend, Forget
  <2> QED BY <2>1, <2>2
<1>4. \A x \in Key : RunsOf(x)' \subseteq RunsOf(x)
  BY DEF RunsOf
<1>5. Forgotten(k)
  BY <1>1, <1>2, <1>3, <1>4 DEF Forgotten, Changes
<1>6. \A x \in Key : x # k => Rests(x)
  BY <1>2, <1>3, <1>4 DEF Rests, Changes
<1> QED BY <1>1, <1>2, <1>5, <1>6 DEF Effect

(* A step that leaves journal and history alone.                           *)
LEMMA QuietEffects ==
  ASSUME JournalInv, UNCHANGED journalVars, UNCHANGED history, running' \subseteq running
  PROVE  JournalInv' /\ \A k \in Key : Effect(k)
<1>1. JournalInv'
  BY DEF journalVars, JournalInv, JournalTypeOK, FileLoads, MapIsDurable, Writable
<1> QED BY <1>1 DEF Effect, Rests, RunsOf, journalVars, history

(* Every step of the supervisor has one of these effects on every command. *)
LEMMA Effects ==
  ASSUME JournalInv, ServerTypes, RunInv, toSupervisor \in Seq(Line), ServerStep
  PROVE  JournalInv' /\ \A k \in Key : Effect(k)
<1> DEFINE Goal == JournalInv' /\ \A k \in Key : Effect(k)
<1>0. gate \in Seq(Copy) /\ running \subseteq Copy
  BY DEF ServerTypes
<1>1. CASE AnswerCommand \/ HoldCommand \/ ReleaseFence \/ ChangeMode
  BY <1>1, QuietEffects DEF AnswerCommand, HoldCommand, ReleaseFence, ChangeMode, serverVars
<1>2. CASE AdmitCommand
  BY <1>0, <1>2, CopiesPresent, AdmitEffects DEF AdmitCommand, NewCommand
<1>3. CASE AdmitHeld
  <2>1. CASE Admit(Head(gate))
    BY <1>0, <1>3, <2>1, CopiesPresent, AdmitEffects DEF AdmitHeld
  <2>2. CASE UNCHANGED << journalVars, running, history >>
    BY <2>2, QuietEffects
  <2> QED BY <1>3, <2>1, <2>2 DEF AdmitHeld
<1>4. ASSUME NEW c \in running, AbandonCommand(c) PROVE Goal
  BY <1>4, QuietEffects DEF AbandonCommand
<1>5. ASSUME NEW c \in running, NEW r \in Response, FinishCommand(c, r) PROVE Goal
  BY <1>5, FinishOutcomes, FinishEffects
<1>6. CASE ReadAck
  <2> DEFINE k == HeadCopy.key
  <2>1. CASE Acknowledge(k) \/ AcknowledgeFails(k)
    BY <1>0, <1>6, <2>1, AckEffects DEF ReadAck, serverVars, history
  <2>2. CASE UNCHANGED journalVars
    BY <1>6, <2>2, QuietEffects DEF ReadAck, serverVars
  <2> QED BY <1>6, <2>1, <2>2 DEF ReadAck
<1>7. CASE EndProcess
  <2>1. Dies
    BY <1>7, DeathOutcomes
  <2>2. CASE Crash /\ answer' = answer
    <3>1. JournalInv' /\ file' = file
      BY <2>2, CrashKeeps DEF Crash
    <3> QED BY <2>1, <2>2, <3>1 DEF Dies, Effect, Rests, RunsOf
  <2>3. ASSUME NEW k \in Key, CrashInBegin(k), Present(k), answer' = answer PROVE Goal
    <3>1. /\ JournalInv' /\ Loaded(file)[k] = None
          /\ Loaded(file')[k] \in {None, Pending} /\ entries'[k] = None
          /\ \A x \in Key : x # k => /\ Loaded(file')[x] = Loaded(file)[x]
                                     /\ entries'[x] \in {entries[x], None}
      BY <2>3, BeginCutShort
    <3>2. runs' = runs /\ \A x \in Key : RunsOf(x)' \subseteq RunsOf(x)
      BY <2>1 DEF Dies, RunsOf
    <3> QED BY <2>3, <3>1, <3>2 DEF Effect, Begun, Rests
  <2>4. ASSUME NEW c \in running, NEW r \in Response, CrashInResult(c.key, r),
               answer' = [answer EXCEPT ![c.key] = r]
        PROVE  Goal
    BY <2>1, <2>4, FinishEffects DEF Dies
  <2>5. CASE Incoming("ack") /\ CrashInAcknowledge(HeadCopy.key) /\ answer' = answer
    BY <1>0, <2>1, <2>5, AckEffects DEF Dies
  <2>6. /\ Incoming("command") => HeadCopy.key \in Key /\ Present(HeadCopy.key)
        /\ gate # << >> => Head(gate).key \in Key /\ Present(Head(gate).key)
    BY <1>0, CopiesPresent DEF Copy
  <2> QED BY <1>7, <2>2, <2>3, <2>4, <2>5, <2>6 DEF EndProcess, NewCommand
<1>8. CASE StartProcess
  <2>1. JournalInv' /\ file' = file /\ entries' = Loaded(file)
    BY <1>8, LoadKeeps DEF StartProcess, Load
  <2> QED BY <1>8, <2>1 DEF StartProcess, serverVars, history, Effect, Rests, RunsOf
<1> QED BY <1>1, <1>2, <1>3, <1>4, <1>5, <1>6, <1>7, <1>8 DEF ServerStep

-----------------------------------------------------------------------------
(* Every step keeps every part of the invariant. *)

(* A command comes to be on its way only by being asked for.               *)
LEMMA PresentSteps ==
  ASSUME WireTypes, gate \in Seq(Copy), NEW k \in Key, Present(k)',
         \/ ClientShape /\ gate' = gate
         \/ Shrinks /\ ServerStep /\ UNCHANGED clientVars
  PROVE  Present(k) \/ Asks(k)
<1>0. toSupervisor \in Seq(Line) /\ pending \in [Key -> {"idle", "sent", "awaiting", "settled"}]
  BY DEF WireTypes
<1>1. CASE (pending[k] \in {"sent", "awaiting"})'
  <2>1. ASSUME NEW x \in Key, Asks(x) PROVE Present(k) \/ Asks(k)
    BY <1>0, <1>1, <2>1 DEF Asks, Present
  <2> QED BY <1>0, <1>1, <2>1 DEF ClientShape, Settling, Resends, clientVars, Present
<1>2. CASE Unread(k)'
  <2>1. PICK i \in 1..Len(toSupervisor') :
          toSupervisor'[i].type = "command" /\ toSupervisor'[i].key = k
    BY <1>2 DEF Unread
  <2>2. Len(toSupervisor) \in Nat
    BY <1>0, LenProperties
  <2>3. CASE Shrinks
    <3>1. PICK d \in Nat : /\ Len(toSupervisor') + d <= Len(toSupervisor)
                           /\ toSupervisor'[i] = toSupervisor[i + d]
      BY <2>3 DEF Shrinks
    <3>2. i + d \in 1..Len(toSupervisor)
      BY <2>2, <3>1
    <3> QED BY <2>1, <3>1, <3>2 DEF Present, Unread
  <2>4. ASSUME NEW L, Grows(L), toSupervisor'[i] \notin L PROVE Present(k)
    <3>1. i \in 1..Len(toSupervisor) /\ toSupervisor'[i] = toSupervisor[i]
      BY <2>2, <2>4 DEF Grows
    <3> QED BY <2>1, <3>1 DEF Present, Unread
  <2>5. ASSUME NEW x \in Key, Asks(x), Grows({Command(x, socket)})
        PROVE  Present(k) \/ Asks(k)
    BY <2>1, <2>4, <2>5 DEF Command
  <2>6. ASSUME NEW x \in Key, Grows({Ack(x, socket)}) PROVE Present(k)
    BY <2>1, <2>4, <2>6 DEF Ack
  <2>7. CASE Grows({Command(x, socket) : x \in {y \in Key : pending[y] = "awaiting"}})
    BY <2>1, <2>4, <2>7 DEF Command, Present
  <2> QED BY <2>3, <2>5, <2>6, <2>7 DEF ClientShape
<1>3. CASE Held(k)'
  <2>1. PICK i \in 1..Len(gate') : gate'[i].key = k
    BY <1>3 DEF Held
  <2>2. CASE gate' = gate
    BY <2>1, <2>2 DEF Held, Present
  <2>3. CASE ServerStep
    <3>1. \/ \E j \in 1..Len(gate) : gate'[i] = gate[j]
          \/ HoldCommand /\ gate'[i] = HeadCopy
      BY <1>0, <2>3, GateSteps DEF GateShape
    <3> QED BY <1>0, <2>1, <3>1, CopiesPresent DEF Held, Present, HoldCommand, NewCommand
  <2> QED BY <2>2, <2>3
<1> QED BY <1>1, <1>2, <1>3 DEF Present

(* The step of either side, as the lemmas below use it.                    *)
ByClient == /\ ClientShape
            /\ UNCHANGED << journalVars, serverVars, history, crashes >>
BySupervisor == /\ ServerStep /\ Shrinks /\ UNCHANGED clientVars
                /\ \A k \in Key : Effect(k)

(* A command that is idle was idle, and stays unknown to the supervisor.   *)
LEMMA IdleKept ==
  ASSUME WireTypes, gate \in Seq(Copy), IdleInv, ByClient \/ BySupervisor
  PROVE  IdleInv'
<1> SUFFICES ASSUME NEW k \in Key
             PROVE  /\ pending'[k] = "idle" => ~Present(k)' /\ runs'[k] = 0
                    /\ pending'[k] # "settled" => verdict'[k] = None
  BY DEF IdleInv
<1>0. pending \in [Key -> {"idle", "sent", "awaiting", "settled"}]
  BY DEF WireTypes
<1>1. ASSUME NEW x \in Key, Asks(x)
      PROVE  /\ pending'[k] = "idle" => pending[k] = "idle" /\ ~Asks(k)
             /\ pending'[k] # "settled" => verdict'[k] = None
  BY <1>0, <1>1 DEF Asks, IdleInv
<1>2. ASSUME NEW K \in SUBSET Key, Settling(K)
      PROVE  /\ pending'[k] = "idle" => pending[k] = "idle" /\ ~Asks(k)
             /\ pending'[k] # "settled" => verdict'[k] = None
  BY <1>0, <1>2 DEF Settling, Asks, IdleInv
<1>3. ASSUME \/ Resends("sent", "awaiting") \/ Resends("awaiting", "sent")
             \/ UNCHANGED << pending, verdict >>
      PROVE  /\ pending'[k] = "idle" => pending[k] = "idle" /\ ~Asks(k)
             /\ pending'[k] # "settled" => verdict'[k] = None
  BY <1>0, <1>3 DEF Resends, Asks, IdleInv
<1>4. /\ pending'[k] = "idle" => pending[k] = "idle" /\ ~Asks(k)
      /\ pending'[k] # "settled" => verdict'[k] = None
  BY <1>1, <1>2, <1>3 DEF ByClient, BySupervisor, ClientShape, clientVars
<1>5. ASSUME pending'[k] = "idle" PROVE ~Present(k)' /\ runs'[k] = 0
  <2>1. ~Present(k) /\ runs[k] = 0 /\ ~Asks(k)
    BY <1>4, <1>5 DEF IdleInv
  <2>2. ~Present(k)'
    BY <2>1, PresentSteps DEF ByClient, BySupervisor, serverVars
  <2>3. runs'[k] = runs[k]
    BY <2>1 DEF ByClient, BySupervisor, history, Effect, Rests, Begun, Forgotten, Answered
  <2> QED BY <2>1, <2>2, <2>3
<1> QED BY <1>4, <1>5

(* An acknowledgement stays behind the requests of its command: only a     *)
(* request that is not settled is written again.                           *)
LEMMA AckKept ==
  ASSUME WireTypes, AckInv, ByClient \/ BySupervisor
  PROVE  AckInv'
<1> DEFINE n == Len(toSupervisor)
           m == Len(toSupervisor')
<1>0. /\ n \in Nat /\ pending \in [Key -> {"idle", "sent", "awaiting", "settled"}]
      /\ \A i \in 1..n : toSupervisor[i].key \in Key
  <2>1. /\ toSupervisor \in Seq(Line)
        /\ pending \in [Key -> {"idle", "sent", "awaiting", "settled"}]
    BY DEF WireTypes
  <2>2. n \in Nat /\ \A i \in 1..n : toSupervisor[i] \in Line
    BY <2>1, LenProperties, ElementOfSeq
  <2> QED BY <2>1, <2>2 DEF Line
<1>1. \A k \in Key : pending[k] = "settled" => pending'[k] = "settled"
  <2>1. ASSUME NEW x \in Key, Asks(x)
        PROVE  \A k \in Key : pending[k] = "settled" => pending'[k] = "settled"
    BY <1>0, <2>1 DEF Asks
  <2>2. ASSUME NEW K \in SUBSET Key, Settling(K)
        PROVE  \A k \in Key : pending[k] = "settled" => pending'[k] = "settled"
    BY <1>0, <2>2 DEF Settling
  <2> QED BY <1>0, <2>1, <2>2 DEF ByClient, BySupervisor, ClientShape, Resends, clientVars
<1>2. CASE Shrinks
  <2>1. PICK d \in Nat : m + d <= n /\ \A i \in 1..m : toSupervisor'[i] = toSupervisor[i + d]
    BY <1>2 DEF Shrinks
  <2>2. \A i \in 1..m : i + d \in 1..n
    BY <1>0, <2>1
  <2>3. \A i, j \in 1..m : i < j => i + d < j + d
    BY <1>0, <2>1
  <2> HIDE DEF n, m
  <2>4. \A i \in 1..m : toSupervisor'[i].type = "ack" =>
          /\ pending'[toSupervisor'[i].key] = "settled"
          /\ \A j \in 1..m : (i < j /\ toSupervisor'[j].type = "command")
                               => toSupervisor'[j].key # toSupervisor'[i].key
    BY SMTT(30), <1>0, <1>1, <2>1, <2>2, <2>3 DEF AckInv, n
  <2> QED BY <2>4 DEF AckInv, m
<1>3. ASSUME NEW L, Grows(L), \A l \in L : /\ l.type = "ack" => pending'[l.key] = "settled"
                                           /\ l.type = "command" => pending[l.key] # "settled",
             \A l, o \in L : l.type = "ack" => o.type # "command"
      PROVE  AckInv'
  <2>1. /\ n <= m
        /\ \A i \in 1..n : toSupervisor'[i] = toSupervisor[i]
        /\ \A i \in 1..m : i > n => toSupervisor'[i] \in L
    BY <1>3 DEF Grows
  <2>2. ASSUME NEW i \in 1..m, toSupervisor'[i].type = "ack", NEW j \in 1..m, i < j,
               toSupervisor'[j].type = "command"
        PROVE  toSupervisor'[j].key # toSupervisor'[i].key
    <3>1. CASE j \in 1..n
      <4>1. i \in 1..n
        BY <1>0, <2>2, <3>1
      <4> QED BY <2>1, <2>2, <3>1, <4>1 DEF AckInv
    <3>2. CASE j > n
      <4>1. toSupervisor'[j] \in L
        BY <2>1, <3>2
      <4>2. i \in 1..n
        <5>1. toSupervisor'[i] \notin L
          BY <1>3, <2>2, <4>1
        <5> QED BY <1>0, <2>1, <5>1
      <4>3. pending[toSupervisor'[i].key] = "settled"
        BY <2>1, <2>2, <4>2 DEF AckInv
      <4> QED BY <1>3, <2>2, <4>1, <4>3
    <3> QED BY <1>0, <3>1, <3>2
  <2>3. ASSUME NEW i \in 1..m, toSupervisor'[i].type = "ack"
        PROVE  pending'[toSupervisor'[i].key] = "settled"
    <3>1. CASE i \in 1..n
      BY <1>0, <1>1, <2>1, <2>3, <3>1 DEF AckInv
    <3>2. CASE i > n
      BY <1>3, <2>1, <2>3, <3>2
    <3> QED BY <1>0, <3>1, <3>2
  <2> QED BY <2>2, <2>3 DEF AckInv
<1>4. ASSUME NEW k \in Key, Asks(k), Grows({Command(k, socket)}) PROVE AckInv'
  <2>1. pending[k] # "settled"
    BY <1>4 DEF Asks
  <2> QED BY <1>3, <1>4, <2>1 DEF Command
<1>5. ASSUME NEW k \in Key, Settling({k}), Grows({Ack(k, socket)}) PROVE AckInv'
  <2>1. pending'[k] = "settled"
    BY <1>5 DEF Settling
  <2> QED BY <1>3, <1>5, <2>1 DEF Ack
<1>6. ASSUME Grows({Command(k, socket) : k \in {x \in Key : pending[x] = "awaiting"}})
      PROVE  AckInv'
  BY <1>3, <1>6 DEF Command
<1> QED BY <1>2, <1>4, <1>5, <1>6 DEF ByClient, BySupervisor, ClientShape

(* What a fence holds stays new: while the fence is up, the journal gets   *)
(* no receipt.                                                             *)
LEMMA HeldKept ==
  ASSUME gate \in Seq(Copy), toSupervisor \in Seq(Line), JournalTypeOK,
         HeldInv, running \subseteq Copy,
         \/ UNCHANGED << journalVars, serverVars >>
         \/ ServerStep
  PROVE  HeldInv'
<1>1. CASE UNCHANGED << journalVars, serverVars >>
  BY <1>1 DEF HeldInv, journalVars, serverVars
<1> SUFFICES ASSUME ServerStep PROVE HeldInv'
  BY <1>1
<1>0. entries \in [Key -> Entry] /\ \A i \in 1..Len(gate) : gate[i].key \in Key
  <2>1. \A i \in 1..Len(gate) : gate[i] \in Copy
    BY ElementOfSeq
  <2> QED BY <2>1 DEF JournalTypeOK, Copy
<1>2. CASE AnswerCommand \/ ChangeMode
  BY <1>2 DEF AnswerCommand, ChangeMode, HeldInv, journalVars, serverVars
<1>3. CASE HoldCommand
  <2>1. GateShape
    BY GateSteps
  <2>2. alive /\ (gate = << >> \/ fence) /\ entries[HeadCopy.key] = None
    BY <1>3 DEF HoldCommand, NewCommand, Incoming, Reading
  <2>3. entries' = entries /\ alive' = alive /\ running' = running
    BY <1>3 DEF HoldCommand, journalVars
  <2>4. \A i \in 1..Len(gate) : entries[gate[i].key] = None
    <3>1. gate = << >> => 1..Len(gate) = {}
      OBVIOUS
    <3> QED BY <2>2, <3>1 DEF HeldInv
  <2> QED BY <2>1, <2>2, <2>3, <2>4 DEF HeldInv, GateShape
<1>4. CASE AdmitCommand \/ AdmitHeld
  <2>1. ~fence' /\ alive
    BY <1>4 DEF AdmitCommand, AdmitHeld, NewCommand, Incoming, Reading
  <2>2. alive'
    <3>1. ASSUME NEW c, Admit(c) PROVE alive'
      BY <2>1, <3>1 DEF Admit, BeginNew, BeginFails, Store, AppendFails, journalVars
    <3> QED BY <1>4, <2>1, <3>1 DEF AdmitCommand, AdmitHeld, journalVars
  <2> QED BY <2>1, <2>2 DEF HeldInv
<1>5. CASE ReleaseFence
  BY <1>5 DEF ReleaseFence, HeldInv, journalVars
<1>6. ASSUME NEW c \in running, AbandonCommand(c) PROVE HeldInv'
  BY <1>6 DEF AbandonCommand, HeldInv, journalVars
<1>7. ASSUME NEW c \in running, NEW r \in Response, FinishCommand(c, r) PROVE HeldInv'
  <2>1. alive /\ fence' = fence /\ gate' = gate
    BY <1>7 DEF FinishCommand, Reading
  <2>2. alive' /\ \A k \in Key : entries[k] = None => entries'[k] = None
    BY <1>0, <1>7, <2>1 DEF FinishCommand, RecordResult, RecordResultFails, Store,
                            AppendFails, journalVars
  <2> QED BY <1>0, <2>1, <2>2 DEF HeldInv
<1>8. CASE ReadAck
  <2>1. alive /\ fence' = fence /\ gate' = gate
    BY <1>8 DEF ReadAck, Incoming, Reading, serverVars
  <2>2. alive' /\ \A k \in Key : entries[k] = None => entries'[k] = None
    BY <1>0, <1>8, <2>1 DEF ReadAck, Acknowledge, AcknowledgeFails, Store, AppendFails,
                            journalVars
  <2> QED BY <1>0, <2>1, <2>2 DEF HeldInv
<1>9. CASE EndProcess
  BY <1>9, DeathOutcomes DEF Dies, HeldInv
<1>10. CASE StartProcess
  BY <1>10 DEF StartProcess, Load, HeldInv, serverVars
<1> QED BY <1>2, <1>3, <1>4, <1>5, <1>6, <1>7, <1>8, <1>9, <1>10 DEF ServerStep

(* When an acknowledgement that has an entry is read, no request of its    *)
(* command is left anywhere.                                               *)
LEMMA ForgottenIsGone ==
  ASSUME WireTypes, gate \in Seq(Copy), AckInv, HeldInv, UNCHANGED clientVars,
         NEW k \in Key, Forgotten(k)
  PROVE  ~Present(k)'
<1>0. toSupervisor \in Seq(Line) /\ toSupervisor # << >>
  BY DEF WireTypes, Forgotten, Incoming
<1>1. /\ toSupervisor[1] = Head(toSupervisor) /\ 1 \in 1..Len(toSupervisor)
      /\ toSupervisor[1].type = "ack" /\ toSupervisor[1].key = k
  BY <1>0, LenProperties, EmptySeq DEF Forgotten, Incoming, HeadCopy
<1>2. pending'[k] = "settled"
  BY <1>1 DEF AckInv, clientVars
<1>3. ~Unread(k)'
  <2>1. CASE toSupervisor' = << >>
    BY <2>1 DEF Unread
  <2>2. CASE toSupervisor' = Tail(toSupervisor)
    <3>1. /\ Len(toSupervisor) \in Nat /\ Len(toSupervisor') + 1 = Len(toSupervisor)
          /\ \A i \in 1..Len(toSupervisor') : toSupervisor'[i] = toSupervisor[i + 1]
      BY <1>0, <2>2, ReadShrinks, LenProperties
    <3>2. \A i \in 1..Len(toSupervisor') : i + 1 \in 1..Len(toSupervisor) /\ 1 < i + 1
      BY <3>1
    <3> QED BY <1>1, <3>1, <3>2 DEF Unread, AckInv
  <2> QED BY <2>1, <2>2 DEF Forgotten
<1>4. ~Held(k)'
  <2>1. CASE gate' = << >>
    BY <2>1 DEF Held
  <2>2. CASE gate' = gate /\ gate # << >>
    <3>1. fence /\ entries[k] # None
      BY <2>2 DEF Forgotten, Incoming, Reading
    <3> QED BY <2>2, <3>1 DEF HeldInv, Held
  <2> QED BY <2>1, <2>2 DEF Forgotten
<1> QED BY <1>2, <1>3, <1>4 DEF Present

(* A request that may still reach begin() keeps its receipt.               *)
LEMMA ReceiptKept ==
  ASSUME WireTypes, gate \in Seq(Copy), RunInv, IdleInv, AckInv, HeldInv, ReceiptInv,
         ByClient \/ BySupervisor, runs \in [Key -> Nat]
  PROVE  ReceiptInv'
<1> SUFFICES ASSUME NEW k \in Key, runs'[k] > 0, Present(k)'
             PROVE  Loaded(file')[k] # None
  BY DEF ReceiptInv
<1>1. CASE ByClient
  <2>1. runs' = runs /\ file' = file
    BY <1>1 DEF ByClient, history, journalVars
  <2>2. Present(k) \/ Asks(k)
    BY <1>1, PresentSteps DEF ByClient, serverVars
  <2>3. ~Asks(k)
    BY <2>1 DEF Asks, IdleInv
  <2> QED BY <2>1, <2>2, <2>3 DEF ReceiptInv
<1>2. CASE BySupervisor
  <2>1. Present(k)
    <3>1. Present(k) \/ Asks(k)
      BY <1>2, PresentSteps DEF BySupervisor
    <3>2. pending' = pending /\ pending \in [Key -> {"idle", "sent", "awaiting", "settled"}]
      BY <1>2 DEF BySupervisor, clientVars, WireTypes
    <3>3. ~Asks(k)
      BY <3>2 DEF Asks
    <3> QED BY <3>1, <3>3
  <2>2. runs[k] > 0 => Loaded(file)[k] # None
    BY <2>1 DEF ReceiptInv
  <2>3. CASE Rests(k)
    BY <2>2, <2>3 DEF Rests
  <2>4. CASE Begun(k)
    BY <2>2, <2>4, EntryAssumption DEF Begun
  <2>5. CASE Forgotten(k)
    BY <1>2, <2>5, ForgottenIsGone DEF BySupervisor
  <2>6. ASSUME NEW r \in Response, Answered(k, r) PROVE Loaded(file')[k] # None
    BY <2>2, <2>6, EntryAssumption DEF Answered
  <2> QED BY <1>2, <2>3, <2>4, <2>5, <2>6 DEF BySupervisor, Effect
<1> QED BY <1>1, <1>2

(* What runs was started once: a command that has its receipt missing has  *)
(* never run.                                                              *)
LEMMA RunKept ==
  ASSUME ServerTypes, ServerTypes', ReceiptInv, RunInv, ByClient \/ BySupervisor
  PROVE  RunInv'
<1>0. running \subseteq Copy /\ running' \subseteq Copy /\ runs \in [Key -> Nat]
  BY DEF ServerTypes
<1>1. CASE ByClient
  BY <1>1 DEF ByClient, serverVars, history, RunInv
<1>2. CASE BySupervisor
  <2>1. ASSUME NEW k \in Key
        PROVE  /\ runs'[k] \in {0, 1} /\ (runs'[k] = 0 => answer'[k] = None)
               /\ \A c \in RunsOf(k)' : runs'[k] = 1 /\ answer'[k] = None
               /\ \A c, d \in RunsOf(k)' : c = d
    <3>0. /\ runs[k] \in {0, 1} /\ (runs[k] = 0 => answer[k] = None)
          /\ \A c \in RunsOf(k) : runs[k] = 1 /\ answer[k] = None
          /\ \A c, d \in RunsOf(k) : c = d
      BY DEF RunInv, RunsOf
    <3> HIDE DEF RunsOf
    <3>1. CASE Rests(k) \/ Forgotten(k)
      BY <3>0, <3>1 DEF Rests, Forgotten
    <3>2. CASE Begun(k)
      <4>1. runs[k] = 0
        BY <3>0, <3>2 DEF Begun, ReceiptInv
      <4>2. RunsOf(k) = {}
        BY <3>0, <4>1
      <4> QED BY <3>0, <3>2, <4>1, <4>2 DEF Begun
    <3>3. ASSUME NEW r \in Response, Answered(k, r)
          PROVE  /\ runs'[k] \in {0, 1} /\ runs'[k] # 0 /\ RunsOf(k)' = {}
      BY <3>0, <3>3 DEF Answered
    <3> QED BY <1>2, <3>1, <3>2, <3>3 DEF BySupervisor, Effect
  <2>2. \A c \in running' : c.key \in Key /\ c \in RunsOf(c.key)'
    BY <1>0 DEF Copy, RunsOf
  <2>3. \A c, d \in running' : c.key = d.key => d \in RunsOf(c.key)'
    BY DEF RunsOf
  <2> HIDE DEF RunsOf
  <2> QED BY <2>1, <2>2, <2>3 DEF RunInv
<1> QED BY <1>1, <1>2

(* File and Map say what the run answered; an answer does not change.      *)
LEMMA AnswerKept ==
  ASSUME RunInv, AnswerInv, running \subseteq Copy, ByClient \/ BySupervisor
  PROVE  /\ AnswerInv'
         /\ \A k \in Key : answer[k] # None => answer'[k] = answer[k]
<1>1. CASE ByClient
  BY <1>1 DEF ByClient, journalVars, history, AnswerInv
<1>2. CASE BySupervisor
  <2> SUFFICES ASSUME NEW k \in Key
               PROVE  /\ Loaded(file')[k] \in Response => Loaded(file')[k] = answer'[k]
                      /\ entries'[k] \in Response => entries'[k] = answer'[k]
                      /\ answer[k] # None => answer'[k] = answer[k]
    BY DEF AnswerInv
  <2>0. /\ Loaded(file)[k] \in Response => Loaded(file)[k] = answer[k]
        /\ entries[k] \in Response => entries[k] = answer[k]
    BY DEF AnswerInv
  <2>1. CASE Rests(k) \/ Forgotten(k)
    BY <2>0, <2>1, EntryAssumption DEF Rests, Forgotten
  <2>2. CASE Begun(k)
    BY <2>2, EntryAssumption DEF Begun
  <2>3. ASSUME NEW r \in Response, Answered(k, r)
        PROVE  /\ Loaded(file')[k] \in Response => Loaded(file')[k] = answer'[k]
               /\ entries'[k] \in Response => entries'[k] = answer'[k]
               /\ answer[k] = None
    <3>1. answer[k] = None
      BY <2>3 DEF Answered, RunsOf, RunInv
    <3> QED BY <2>0, <2>3, <3>1, EntryAssumption DEF Answered
  <2> QED BY <1>2, <2>1, <2>2, <2>3 DEF BySupervisor, Effect
<1> QED BY <1>1, <1>2

(* What the supervisor writes is a failure or what the run answered.       *)
LEMMA WritesTrue ==
  ASSUME toSupervisor \in Seq(Line), toClient \in Seq(Message), ServerTypes, JournalTypeOK,
         AnswerInv, ServerStep
  PROVE  \/ toClient' = toClient
         \/ \E c \in Copy, v \in Verdict : /\ Write(c, v)
                                           /\ v \in Response => v = answer'[c.key]
<1> DEFINE Goal == \/ toClient' = toClient
                   \/ \E c \in Copy, v \in Verdict : /\ Write(c, v)
                                                     /\ v \in Response => v = answer'[c.key]
<1>0. /\ gate \in Seq(Copy) /\ running \subseteq Copy /\ \A c \in Copy : c.key \in Key
      /\ entries \in [Key -> Entry] /\ answer \in [Key -> Response \union {None}]
      /\ \A v \in NoAnswer : v \in Verdict /\ v \notin Response
      /\ Response \subseteq Verdict /\ "refused" \in NoAnswer /\ "uncertain" \in NoAnswer
  BY VerdictAssumption DEF ServerTypes, JournalTypeOK, Copy, Verdict, NoAnswer
<1>1. ASSUME NEW c \in Copy, Write(c, "refused") \/ Write(c, "uncertain") PROVE Goal
  BY <1>0, <1>1
<1>2. ASSUME NEW c \in Copy, entries[c.key] \in Response, Write(c, entries[c.key]),
             answer' = answer
      PROVE  Goal
  BY <1>0, <1>2 DEF AnswerInv
<1>3. ASSUME NEW c \in Copy, Admit(c) PROVE Goal
  <2>1. CASE Starts(c)
    BY <2>1 DEF Starts
  <2>2. CASE Refuses(c)
    BY <1>1, <2>2 DEF Refuses
  <2>3. CASE Repeats(c)
    <3>1. entries[c.key] \in Response \/ entries[c.key] = Pending
      BY <1>0, <2>3 DEF Repeats, Entry
    <3>2. answer' = answer
      BY <2>3 DEF Repeats, history
    <3> QED BY <1>1, <1>2, <2>3, <3>1, <3>2, EntryAssumption DEF Repeats
  <2> QED BY <1>3, <2>1, <2>2, <2>3, AdmitOutcomes
<1>4. CASE AnswerCommand
  <2>1. HeadCopy \in Copy
    BY <1>0, <1>4, CopiesPresent DEF AnswerCommand
  <2>2. \/ Write(HeadCopy, "refused") \/ Write(HeadCopy, "uncertain")
        \/ /\ entries[HeadCopy.key] \in Response /\ Write(HeadCopy, entries[HeadCopy.key])
           /\ answer' = answer
    BY <1>4 DEF AnswerCommand, history
  <2> QED BY <1>1, <1>2, <2>1, <2>2
<1>5. CASE AdmitCommand
  BY <1>0, <1>3, <1>5, CopiesPresent DEF AdmitCommand, NewCommand
<1>6. CASE AdmitHeld
  BY <1>0, <1>1, <1>3, <1>6, CopiesPresent DEF AdmitHeld
<1>7. ASSUME NEW c \in running, AbandonCommand(c) PROVE Goal
  BY <1>0, <1>1, <1>7 DEF AbandonCommand
<1>8. ASSUME NEW c \in running, NEW r \in Response, FinishCommand(c, r) PROVE Goal
  <2>1. c \in Copy /\ c.key \in Key /\ answer' = [answer EXCEPT ![c.key] = r]
    BY <1>0, <1>8, FinishOutcomes
  <2>2. CASE Write(c, r)
    BY <1>0, <2>1, <2>2
  <2>3. CASE Write(c, "refused")
    BY <1>1, <2>1, <2>3
  <2> QED BY <1>8, <2>2, <2>3, FinishOutcomes
<1>9. CASE HoldCommand \/ ReleaseFence \/ ReadAck \/ ChangeMode \/ StartProcess
  BY <1>9 DEF HoldCommand, ReleaseFence, ReadAck, ChangeMode, StartProcess, wireVars
<1>10. CASE EndProcess
  BY <1>10, DeathOutcomes DEF Dies
<1> QED BY <1>4, <1>5, <1>6, <1>7, <1>8, <1>9, <1>10 DEF ServerStep

(* The responses on the wire stay true, and the wire well typed.           *)
LEMMA RepliesKept ==
  ASSUME toSupervisor \in Seq(Line), toClient \in Seq(Message), ServerTypes, JournalTypeOK,
         ClientInv, AnswerInv, ReplyInv, ServerStep, UNCHANGED clientVars,
         \A k \in Key : answer[k] # None => answer'[k] = answer[k]
  PROVE  toClient' \in Seq(Message) /\ ReplyInv' /\ ClientInv'
<1>0. \A i \in 1..Len(toClient) : toClient[i] \in Message
  <2> HIDE DEF Message
  <2> QED BY ElementOfSeq
<1>1. \A i \in 1..Len(toClient) :
        (toClient[i].type = "response" /\ toClient[i].verdict \in Response)
          => toClient[i].verdict = answer'[toClient[i].key]
  <2> TAKE i \in 1..Len(toClient)
  <2>1. toClient[i].type = "response" => toClient[i].key \in Key
    BY <1>0 DEF Message, Hello
  <2> QED BY <2>1, EntryAssumption DEF ReplyInv
<1>2. CASE toClient' = toClient
  BY <1>1, <1>2 DEF ReplyInv, ClientInv, clientVars
<1>3. ASSUME NEW c \in Copy, NEW v \in Verdict, Write(c, v), v \in Response => v = answer'[c.key]
      PROVE  toClient' \in Seq(Message) /\ ReplyInv' /\ ClientInv'
  <2>1. /\ toClient' \in Seq(Message)
        /\ \A i \in 1..Len(toClient') :
             \/ toClient'[i] = Reply(c.key, v)
             \/ \E j \in 1..Len(toClient) : toClient'[i] = toClient[j]
        /\ toClient' # toClient => link # "down"
    BY <1>3, WriteGives
  <2>2. ASSUME NEW i \in 1..Len(toClient'), toClient'[i].type = "response",
               toClient'[i].verdict \in Response
        PROVE  toClient'[i].verdict = answer'[toClient'[i].key]
    <3>1. CASE toClient'[i] = Reply(c.key, v)
      BY <1>3, <2>2, <3>1 DEF Reply
    <3>2. ASSUME NEW j \in 1..Len(toClient), toClient'[i] = toClient[j]
          PROVE  toClient'[i].verdict = answer'[toClient'[i].key]
      BY <1>1, <2>2, <3>2
    <3> QED BY <2>1, <3>1, <3>2
  <2>3. ClientInv'
    BY <2>1 DEF ClientInv, clientVars
  <2> QED BY <2>1, <2>2, <2>3 DEF ReplyInv
<1> QED BY <1>2, <1>3, WritesTrue

-----------------------------------------------------------------------------
(* The inductive invariant. *)

DeliveryInv == /\ JournalInv /\ WireTypes /\ ServerTypes /\ ClientInv
               /\ IdleInv /\ AckInv /\ HeldInv /\ ReceiptInv
               /\ RunInv /\ AnswerInv /\ ReplyInv

(* The types of the parts are the types of the whole.                      *)
LEMMA TypesTogether == JournalInv /\ WireTypes /\ ServerTypes => TypeOK
  BY DEF JournalInv, WireTypes, ServerTypes, TypeOK, Message

(* Every step is a step of the client or of the supervisor.                *)
LEMMA WhoseStep ==
  ASSUME Next
  PROVE  \/ ClientStep /\ UNCHANGED << journalVars, serverVars, history, crashes >>
         \/ ServerStep
<1>1. ASSUME ClientStep PROVE UNCHANGED << journalVars, serverVars, history, crashes >>
  BY <1>1 DEF ClientStep, Request, Timeout, Disconnect, Connect, GiveUp, ReceiveHello,
              ReceiveResponse
<1>2. ClientStep \/ ServerStep
  BY DEF Next, ClientStep, ServerStep
<1> QED BY <1>1, <1>2

(* Each step, by its shape.                                                *)
LEMMA StepShapes ==
  ASSUME DeliveryInv, Next
  PROVE  /\ JournalInv' /\ WireTypes' /\ ServerTypes' /\ ClientInv'
         /\ ReplyInv'
         /\ \/ ByClient
            \/ BySupervisor
         /\ UNCHANGED << journalVars, serverVars >> \/ ServerStep
<1> USE DEF DeliveryInv
<1>0. toSupervisor \in Seq(Line) /\ toClient \in Seq(Message) /\ JournalTypeOK
  BY DEF WireTypes, JournalInv
<1>1. CASE ClientStep /\ UNCHANGED << journalVars, serverVars, history, crashes >>
  <2>1. /\ ClientShape /\ WireTypes' /\ ClientInv'
        /\ \A i \in 1..Len(toClient') :
             toClient'[i] = Hello \/ \E j \in 1..Len(toClient) : toClient'[i] = toClient[j]
    BY <1>1, ClientShapes
  <2>2. JournalInv'
    BY <1>1 DEF journalVars, JournalInv, JournalTypeOK, FileLoads, MapIsDurable, Writable
  <2>3. ServerTypes'
    BY <1>1 DEF ServerTypes, serverVars, history
  <2>4. ReplyInv'
    BY <1>1, <2>1 DEF ReplyInv, history, Hello
  <2> QED BY <1>1, <2>1, <2>2, <2>3, <2>4 DEF ByClient
<1>2. CASE ServerStep
  <2>1. JournalInv' /\ \A k \in Key : Effect(k)
    BY <1>0, <1>2, Effects
  <2>2. /\ ServerTypes' /\ toSupervisor' \in Seq(Line) /\ Shrinks
        /\ UNCHANGED clientVars /\ hungUp' \in {hungUp, TRUE}
    BY <1>0, <1>2, ServerSteps
  <2>3. BySupervisor
    BY <1>2, <2>1, <2>2 DEF BySupervisor
  <2>4. \A k \in Key : answer[k] # None => answer'[k] = answer[k]
    BY <2>3, AnswerKept DEF ServerTypes
  <2>5. toClient' \in Seq(Message) /\ ReplyInv' /\ ClientInv'
    BY <1>0, <1>2, <2>2, <2>4, RepliesKept
  <2>6. WireTypes'
    <3> HIDE DEF Message
    <3> QED BY <2>2, <2>5 DEF WireTypes, clientVars
  <2> QED BY <1>2, <2>1, <2>2, <2>3, <2>5, <2>6
<1> QED BY <1>1, <1>2, WhoseStep

(* The invariant holds before anything was sent.                           *)
LEMMA DeliveryInvInit == Init => DeliveryInv
<1> SUFFICES ASSUME Init PROVE DeliveryInv
  OBVIOUS
<1>1. JournalInv
  BY JournalInvInit DEF Init
<1>2. WireTypes /\ ServerTypes
  <2>1. toSupervisor \in Seq(Line) /\ toClient \in Seq(Message) /\ gate \in Seq(Copy)
    BY DEF Init
  <2>2. /\ pending \in [Key -> {"idle", "sent", "awaiting", "settled"}]
        /\ verdict \in [Key -> Verdict \union {None}]
        /\ runs \in [Key -> Nat] /\ answer \in [Key -> Response \union {None}]
    BY DEF Init
  <2>3. /\ socket \in 0..MaxSockets /\ crashes \in 0..MaxCrashes
        /\ link = "down" /\ hungUp = FALSE
    BY BoundAssumption DEF Init
  <2>4. mode = "serving" /\ fence = FALSE /\ running = {}
    BY DEF Init
  <2> QED BY <2>1, <2>2, <2>3, <2>4 DEF WireTypes, ServerTypes
<1>3. 1..Len(toSupervisor) = {} /\ 1..Len(toClient) = {} /\ 1..Len(gate) = {}
  BY DEF Init
<1>4. IdleInv /\ ReceiptInv
  BY <1>3 DEF Init, IdleInv, ReceiptInv, Present, Unread, Held
<1>5. ClientInv /\ AckInv /\ HeldInv /\ RunInv /\ ReplyInv
  BY <1>3 DEF Init, ClientInv, AckInv, HeldInv, RunInv, ReplyInv
<1>6. AnswerInv
  <2>1. \A k \in Key : Loaded(file)[k] = None /\ entries[k] = None
    BY DEF Init, JournalInit, Loaded, Replayed
  <2> QED BY <2>1, EntryAssumption DEF AnswerInv
<1> QED BY <1>1, <1>2, <1>4, <1>5, <1>6 DEF DeliveryInv

(* Every step keeps the invariant.                                         *)
LEMMA DeliveryInvNext == DeliveryInv /\ [Next]_vars => DeliveryInv'
<1>1. ASSUME DeliveryInv, Next PROVE DeliveryInv'
  <2> USE DEF DeliveryInv
  <2>1. /\ JournalInv' /\ WireTypes' /\ ServerTypes' /\ ClientInv' /\ ReplyInv'
        /\ ByClient \/ BySupervisor
        /\ UNCHANGED << journalVars, serverVars >> \/ ServerStep
    BY <1>1, StepShapes
  <2>2. /\ gate \in Seq(Copy) /\ running \subseteq Copy /\ runs \in [Key -> Nat]
        /\ toSupervisor \in Seq(Line) /\ JournalTypeOK
    BY <1>1 DEF ServerTypes, WireTypes, JournalInv
  <2>3. IdleInv' /\ AckInv'
    BY <1>1, <2>1, <2>2, IdleKept, AckKept
  <2>4. HeldInv'
    BY <1>1, <2>1, <2>2, HeldKept
  <2>5. ReceiptInv' /\ RunInv' /\ AnswerInv'
    BY <1>1, <2>1, <2>2, ReceiptKept, RunKept, AnswerKept
  <2> QED BY <2>1, <2>3, <2>4, <2>5
<1>2. ASSUME DeliveryInv, UNCHANGED vars PROVE DeliveryInv'
  BY <1>2 DEF vars, journalVars, clientVars, wireVars, serverVars, history, DeliveryInv,
    JournalInv, JournalTypeOK, FileLoads, MapIsDurable, Writable, WireTypes, ServerTypes,
    ClientInv, IdleInv, Present, Unread, Held, AckInv, HeldInv, ReceiptInv, RunInv, AnswerInv,
    ReplyInv
<1> QED BY <1>1, <1>2

(* The inductive invariant holds in every reachable state.                 *)
LEMMA DeliveryInvariant == Spec => []DeliveryInv
  BY DeliveryInvInit, DeliveryInvNext, PTL DEF Spec

-----------------------------------------------------------------------------
(* The state has the declared types in every reachable state.              *)
THEOREM DeliveryTypes == Spec => []TypeOK
<1>1. DeliveryInv => TypeOK
  BY TypesTogether DEF DeliveryInv
<1> QED BY <1>1, DeliveryInvariant, PTL

(* However often a request is sent again, held by a fence or overtaken by  *)
(* its acknowledgement, and whatever crashes, handleCommand is entered at  *)
(* most once.                                                              *)
THEOREM CommandsRunOnce == Spec => []AtMostOnce
<1>1. DeliveryInv => AtMostOnce
  BY DEF DeliveryInv, RunInv, AtMostOnce
<1> QED BY <1>1, DeliveryInvariant, PTL

(* The receipt of a started command stays in the file as long as the       *)
(* client may send the command again.                                      *)
THEOREM ReceiptsOutlive == Spec => []ReceiptOutlivesRequest
<1>1. DeliveryInv => ReceiptOutlivesRequest
  BY DEF DeliveryInv, ReceiptInv, Present, ReceiptOutlivesRequest
<1> QED BY <1>1, DeliveryInvariant, PTL

(* A response in the file is the one its run produced.                     *)
THEOREM StoredResponsesAreTrue == Spec => []StoredIsAnswer
<1>1. DeliveryInv => StoredIsAnswer
  BY DEF DeliveryInv, AnswerInv, StoredIsAnswer
<1> QED BY <1>1, DeliveryInvariant, PTL

-----------------------------------------------------------------------------
(* The refinement, step by step.  asked stands for the commands that are   *)
(* not idle.                                                               *)

AskedKeys == {k \in Key : pending[k] # "idle"}

(* A step of the client asks, settles or is a step of nobody.              *)
LEMMA ClientImplements ==
  ASSUME DeliveryInv, ByClient
  PROVE  Service!ServiceNext \/ UNCHANGED << AskedKeys, runs, answer, verdict >>
<1>0. /\ pending \in [Key -> {"idle", "sent", "awaiting", "settled"}]
      /\ runs' = runs /\ answer' = answer
  BY DEF DeliveryInv, WireTypes, ByClient, history
<1>1. ASSUME NEW k \in Key, Asks(k) PROVE Service!Ask(k)
  BY <1>0, <1>1 DEF Asks, Service!Ask
<1>2. ASSUME NEW K \in SUBSET Key, Settling(K) PROVE Service!Settle(K)
  <2>1. PICK v \in Verdict :
          /\ verdict' = [k \in Key |-> IF k \in K THEN v ELSE verdict[k]]
          /\ v \in Response => \A k \in K : /\ toClient # << >> /\ Head(toClient).key = k
                                            /\ Head(toClient).type = "response"
                                            /\ Head(toClient).verdict = v
    BY <1>2 DEF Settling
  <2>2. \A k \in K : pending[k] \in {"sent", "awaiting"} /\ verdict[k] = None
    BY <1>2 DEF Settling, DeliveryInv, IdleInv
  <2>3. AskedKeys' = AskedKeys /\ K \subseteq AskedKeys
    BY <1>0, <1>2, <2>2 DEF Settling, AskedKeys
  <2>4. v \in Response => \A k \in K : v = answer[k]
    <3> SUFFICES ASSUME v \in Response, NEW k \in K PROVE v = answer[k]
      OBVIOUS
    <3>1. toClient \in Seq(Message) /\ toClient # << >> /\ Head(toClient).type = "response"
      BY <2>1 DEF DeliveryInv, WireTypes
    <3>2. Head(toClient) = toClient[1] /\ 1 \in 1..Len(toClient)
      BY <3>1, ResponseFacts
    <3> QED BY <2>1, <3>1, <3>2 DEF DeliveryInv, ReplyInv
  <2> DEFINE w == [k \in K |-> v]
  <2>5. /\ w \in [K -> Service!NoAnswer \union Response]
        /\ \A k \in K : w[k] \in Response => w[k] = answer[k]
        /\ verdict' = [k \in Key |-> IF k \in K THEN w[k] ELSE verdict[k]]
    BY <2>1, <2>4 DEF Verdict, NoAnswer, Service!NoAnswer
  <2> HIDE DEF w
  <2> QED BY <1>0, <2>2, <2>3, <2>5 DEF Service!Settle, AskedKeys
<1>3. ASSUME \/ Resends("sent", "awaiting") \/ Resends("awaiting", "sent")
             \/ UNCHANGED << pending, verdict >>
      PROVE  UNCHANGED << AskedKeys, runs, answer, verdict >>
  BY <1>0, <1>3 DEF Resends, AskedKeys
<1>4. \/ \E k \in Key : Service!Ask(k) \/ Service!Settle({k})
      \/ \E K \in SUBSET Key : Service!Settle(K)
      \/ UNCHANGED << AskedKeys, runs, answer, verdict >>
  BY <1>1, <1>2, <1>3 DEF ByClient, ClientShape
<1> QED BY <1>4 DEF Service!ServiceNext

(* The supervisor starts one command, ends one run, or touches no history. *)
LEMMA ServerHistory ==
  ASSUME gate \in Seq(Copy), toSupervisor \in Seq(Line), ServerStep
  PROVE  \/ UNCHANGED history
         \/ \E c \in Copy : Present(c.key) /\ Starts(c)
         \/ \E c \in running, r \in Response :
              runs' = runs /\ answer' = [answer EXCEPT ![c.key] = r]
<1> DEFINE Goal == \/ UNCHANGED history
                   \/ \E c \in Copy : Present(c.key) /\ Starts(c)
                   \/ \E c \in running, r \in Response :
                        runs' = runs /\ answer' = [answer EXCEPT ![c.key] = r]
<1>1. ASSUME NEW c \in Copy, Present(c.key), Admit(c) PROVE Goal
  BY <1>1, AdmitOutcomes DEF Refuses, Repeats
<1>2. CASE AdmitCommand
  BY <1>1, <1>2, CopiesPresent DEF AdmitCommand, NewCommand
<1>3. CASE AdmitHeld
  BY <1>1, <1>3, CopiesPresent DEF AdmitHeld
<1>4. ASSUME NEW c \in running, NEW r \in Response, FinishCommand(c, r) PROVE Goal
  BY <1>4, FinishOutcomes
<1>5. CASE EndProcess
  <2>1. runs' = runs
    BY <1>5, DeathOutcomes DEF Dies
  <2> QED BY <1>5, <2>1 DEF EndProcess, history
<1>6. CASE \/ AnswerCommand \/ HoldCommand \/ ReleaseFence \/ ReadAck \/ ChangeMode
           \/ StartProcess \/ \E c \in running : AbandonCommand(c)
  BY <1>6 DEF AnswerCommand, HoldCommand, ReleaseFence, ReadAck, ChangeMode, StartProcess,
              AbandonCommand
<1> QED BY <1>2, <1>3, <1>4, <1>5, <1>6 DEF ServerStep

(* A step of the supervisor starts a command that was asked for and never  *)
(* started, answers one that was started and not answered, or is a step of *)
(* nobody.                                                                 *)
LEMMA SupervisorImplements ==
  ASSUME DeliveryInv, BySupervisor
  PROVE  Service!ServiceNext \/ UNCHANGED << AskedKeys, runs, answer, verdict >>
<1>0. /\ UNCHANGED << AskedKeys, verdict >> /\ ServerStep
      /\ runs \in [Key -> Nat] /\ answer \in [Key -> Response \union {None}]
      /\ gate \in Seq(Copy) /\ toSupervisor \in Seq(Line) /\ running \subseteq Copy
  BY DEF DeliveryInv, WireTypes, ServerTypes, BySupervisor, clientVars, AskedKeys
<1>1. ASSUME NEW c \in Copy, Present(c.key), Starts(c) PROVE Service!Run(c.key) /\ c.key \in Key
  <2>1. c.key \in Key
    BY DEF Copy
  <2>2. Loaded(file)[c.key] = None
    BY <1>1, <2>1, BegunFile DEF Starts, DeliveryInv
  <2>3. runs[c.key] = 0 /\ pending[c.key] # "idle"
    BY <1>1, <2>1, <2>2 DEF DeliveryInv, ReceiptInv, RunInv, IdleInv
  <2>4. runs' = [runs EXCEPT ![c.key] = 1] /\ answer' = answer
    BY <1>0, <1>1, <2>1, <2>3 DEF Starts
  <2> QED BY <1>0, <2>1, <2>3, <2>4 DEF Service!Run, AskedKeys
<1>2. ASSUME NEW c \in running, NEW r \in Response, runs' = runs,
             answer' = [answer EXCEPT ![c.key] = r]
      PROVE  Service!Finish(c.key, r) /\ c.key \in Key
  <2>1. c.key \in Key /\ runs[c.key] = 1 /\ answer[c.key] = None
    BY <1>0 DEF Copy, DeliveryInv, RunInv
  <2> QED BY <1>0, <1>2, <2>1 DEF Service!Finish, AskedKeys
<1>3. ASSUME UNCHANGED history PROVE UNCHANGED << AskedKeys, runs, answer, verdict >>
  BY <1>0, <1>3 DEF history
<1>4. \/ \E k \in Key : Service!Run(k) \/ \E r \in Response : Service!Finish(k, r)
      \/ UNCHANGED << AskedKeys, runs, answer, verdict >>
  BY <1>0, <1>1, <1>2, <1>3, ServerHistory
<1> QED BY <1>4 DEF Service!ServiceNext

(* The client and the supervisor together are the service of               *)
(* CommandService: at most one run, one truthful verdict.                  *)
THEOREM DeliveryImplementsService == Spec => ImplementsService
<1>1. Init => Service!ServiceInit
  BY DEF Init, Service!ServiceInit
<1>2. DeliveryInv /\ [Next]_vars => [Service!ServiceNext]_(Service!serviceVars)
  <2>1. ASSUME DeliveryInv, Next
        PROVE  Service!ServiceNext \/ UNCHANGED << AskedKeys, runs, answer, verdict >>
    BY <2>1, StepShapes, ClientImplements, SupervisorImplements
  <2>2. ASSUME UNCHANGED vars PROVE UNCHANGED << AskedKeys, runs, answer, verdict >>
    BY <2>2 DEF vars, clientVars, history, AskedKeys
  <2>3. UNCHANGED << AskedKeys, runs, answer, verdict >> => UNCHANGED Service!serviceVars
    BY DEF AskedKeys, Service!serviceVars
  <2> QED BY <2>1, <2>2, <2>3
<1> QED BY <1>1, <1>2, DeliveryInvariant, PTL
       DEF Spec, ImplementsService, Service!ServiceSpec
=============================================================================
