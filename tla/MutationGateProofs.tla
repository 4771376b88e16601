-------------------------- MODULE MutationGateProofs --------------------------
(***************************************************************************)
(* Proofs about MutationGate, for any finite sets of commands and evictors. *)
(*                                                                         *)
(* First the steps as the proofs use them: what each does to the queue of  *)
(* turns, to the two lists of waiters and to the commands (StepShape).  Then *)
(* every one of these shapes keeps every part of the invariant.            *)
(***************************************************************************)
EXTENDS MutationGate, FiniteSetTheorems, TLAPS

(* The command p is in prepareUpdateRestart and waits for a drain.         *)
Preparing(p) == cmd[p] = "active" /\ phase \in {"draining", "fencing"} /\ checkpoint = None

(* A turn of the queue belongs to somebody who waits for it.               *)
TurnOK(m) ==
  /\ m.at = "resumed" => m.who \in WaitsForFence /\ cmd[m.who] = "held"
  /\ m.at = "unfenced" => m.who \in Evictor /\ evict[m.who] = "waiting"
  /\ m.at = "fenced" => m.who \in Evictor
  /\ m.at \in {"fenced", "drain", "drained"} =>
       \/ m.who \in Evictor /\ evict[m.who] = "fencing"
       \/ m.who \in Prepare /\ Preparing(m.who)
TurnsInv == \A i \in DOMAIN micro : TurnOK(micro[i])

(* So does a place among the waiters.                                      *)
FenceWaitersInv ==
  \A i \in DOMAIN fenceWaiters :
    /\ fenceWaiters[i] \in Evictor => evict[fenceWaiters[i]] = "waiting"
    /\ fenceWaiters[i] \in Command => cmd[fenceWaiters[i]] = "held"
DrainWaitersInv ==
  \A i \in DOMAIN drainWaiters :
    /\ drainWaiters[i] \in Evictor => evict[drainWaiters[i]] = "fencing"
    /\ drainWaiters[i] \in Prepare => Preparing(drainWaiters[i])

(* Nobody waits in two places.                                             *)
OneTurn == \A i, j \in DOMAIN micro : micro[i].who = micro[j].who => i = j
OnceFenced == \A i, j \in DOMAIN fenceWaiters : fenceWaiters[i] = fenceWaiters[j] => i = j
OnceDraining == \A i, j \in DOMAIN drainWaiters : drainWaiters[i] = drainWaiters[j] => i = j
TurnOrFence == \A i \in DOMAIN micro, j \in DOMAIN fenceWaiters : micro[i].who # fenceWaiters[j]
TurnOrDrain == \A i \in DOMAIN micro, j \in DOMAIN drainWaiters : micro[i].who # drainWaiters[j]

(* One preparation runs at a time, and its phase says so.                     *)
PrepInv ==
  /\ \A p \in Prepare : cmd[p] = "active" => phase \in {"draining", "fencing"}
  /\ \A p, q \in Prepare : cmd[p] = "active" /\ cmd[q] = "active" => p = q
  /\ checkpoint # None => cmd[checkpoint] = "active" /\ phase = "fencing"

(* An evictor at work has its fence up; without a fence nobody waits for it.  *)
FenceInv == EvictorsExclude /\ (fence = None => fenceWaiters = << >>)

(* A turn of a command that release() resumed; one of a preparation that drains. *)
Resumed(i) == micro[i].at = "resumed"
PrepareTurn(i) == micro[i].who \in Prepare /\ micro[i].at \in {"drain", "drained"}

(* While a held command goes on, and while an update is prepared, only     *)
(* evictors wait for the fence; in the prepared phase only shutdowns do.   *)
HeldBehind ==
  (\E i \in DOMAIN micro : Resumed(i)) \/ phase \in {"draining", "fencing"} =>
     \A j \in DOMAIN fenceWaiters : fenceWaiters[j] \in Evictor

(* A preparation starts behind the last turns of the commands that go on, and *)
(* none of them is left at its second drain; in the prepared phase only       *)
(* shutdowns go on.                                                           *)
HeldLast == phase = "draining" => \A i \in DOMAIN micro : Resumed(i) => micro[i].left = 0
HeldBefore ==
  phase = "draining" => \A i, j \in DOMAIN micro : Resumed(i) /\ PrepareTurn(j) => i < j
HeldFencing == phase = "fencing" => \A i \in DOMAIN micro : ~Resumed(i)
HeldPrepared ==
  phase = "prepared" =>
     /\ \A i \in DOMAIN micro : Resumed(i) => micro[i].who \in Shutdown
     /\ \A j \in DOMAIN fenceWaiters : fenceWaiters[j] \in Evictor \union Shutdown

(* Commands that go on are counted down in step, the first of them ahead.     *)
LeftInv ==
  \A i, j \in DOMAIN micro : i < j /\ Resumed(i) /\ Resumed(j) =>
     micro[j].left <= micro[i].left /\ micro[i].left <= micro[j].left + 1

(* A preparation whose second drain has returned is the only active command.  *)
DrainedInv ==
  phase = "fencing" => \A i \in DOMAIN micro :
      micro[i].who \in Prepare /\ micro[i].at = "drained" => Active(cmd) = {micro[i].who}

(* A worker is stopped only while nothing is prepared and no command goes on. *)
StopInv == \A e \in Evictor : evict[e] = "stopping" =>
     phase = "none" /\ \A i \in DOMAIN micro : ~Resumed(i)

(* Whoever waits at the latch has reason to.                                  *)
WakeInv == \A i \in DOMAIN drainWaiters : Cardinality(Active(cmd)) > Remaining(drainWaiters[i])

--------------------------------------------------------------------------------
(* The shapes of a step.  A step that serves the queue takes its first turn,  *)
(* every other step finds it empty, so a turn of the new queue is the next    *)
(* one of the old or a new one behind them all.                               *)
Turns == [who : Evictor \union Command,
          at : {"resumed", "unfenced", "fenced", "drain", "drained"},
          left : 0..OwnershipTurns]

Moved(i) == i + 1 \in DOMAIN micro /\ micro'[i] = micro[i + 1]
Keeps == micro' \in Seq(Turns) /\ \A i \in DOMAIN micro' : i \in Nat /\ Moved(i)
Adds(t) ==
  /\ micro' \in Seq(Turns)
  /\ \A i \in DOMAIN micro' :
       i \in Nat /\ (Moved(i) \/ (micro'[i] = t /\ \A j \in DOMAIN micro' : j \in Nat /\ j <= i))

(* x is served, at that point of its code.                                    *)
HeadIs(x, at) == 1 \in DOMAIN micro /\ micro[1].who = x /\ micro[1].at = at
NoTurn == DOMAIN micro = {}

(* The waiters s with x behind them, and without the one at place i.          *)
Joins(s, x, r) ==
  /\ r = Append(s, x)
  /\ \A i \in DOMAIN r :
       /\ i \in Nat
       /\ (i \in DOMAIN s /\ r[i] = s[i]) \/ (i \notin DOMAIN s /\ r[i] = x /\ i = Len(s) + 1)
Leaves(s, i, r) ==
  \A j \in DOMAIN r : LET k == IF j < i THEN j ELSE j + 1
                      IN  j \in Nat /\ k \in DOMAIN s /\ k # i /\ r[j] = s[k]

(* x waits for a drain: it goes on if few enough commands are active, and takes *)
(* a place at the latch otherwise.                                            *)
Waits(x) ==
  \/ /\ Adds(Turn(x, "drained", 0)) /\ drainWaiters' = drainWaiters
     /\ Cardinality(Active(cmd')) <= Remaining(x)
  \/ /\ Keeps /\ Joins(drainWaiters, x, drainWaiters')
     /\ ~(Cardinality(Active(cmd')) <= Remaining(x))

(* Everyone in s has a turn at the latch.                                     *)
Woken(s) ==
  /\ NoTurn /\ micro' \in Seq(Turns) /\ drainWaiters' = << >>
  /\ DOMAIN micro' = DOMAIN s /\ \A i \in DOMAIN s : micro'[i] = Turn(s[i], "drain", 0)

(* Everyone at the fence has a turn.                                          *)
Freed ==
  /\ NoTurn /\ micro' \in Seq(Turns) /\ fenceWaiters' = << >>
  /\ DOMAIN micro' = DOMAIN fenceWaiters
  /\ \A i \in DOMAIN fenceWaiters :
       micro'[i] = IF fenceWaiters[i] \in Evictor THEN Turn(fenceWaiters[i], "unfenced", 0)
                   ELSE Turn(fenceWaiters[i], "resumed", OwnershipTurns)

(* A command that has just come and is not refused.                           *)
Fresh(c) == NoTurn /\ cmd[c] = "idle" /\ ~Refused(c)
FenceRest == UNCHANGED << evict, fence, fenceWaiters >>
Become(c, state) == cmd' = [cmd EXCEPT ![c] = state]

(* The steps of a command, of an evictor, of a preparation, and the turn in which *)
(* either of the two looks at the active commands again.                      *)
Refuses(c) ==
  /\ (NoTurn /\ cmd[c] = "idle") \/ HeadIs(c, "resumed")
  /\ Become(c, "refused") /\ Keeps /\ FenceRest /\ UNCHANGED << drainWaiters, phase, checkpoint >>
Holds(c) ==
  /\ Fresh(c) /\ c \in WaitsForFence /\ fence # None
  /\ Become(c, "held") /\ Keeps /\ Joins(fenceWaiters, c, fenceWaiters')
  /\ UNCHANGED << evict, fence, drainWaiters, phase, checkpoint >>
Begins(c) ==
  /\ c \notin Prepare
  /\ (Fresh(c) /\ ~(c \in WaitsForFence /\ fence # None)) \/ HeadIs(c, "resumed")
  /\ Become(c, "active") /\ Keeps /\ FenceRest /\ UNCHANGED << drainWaiters, phase, checkpoint >>
Prepares(c) ==
  /\ c \in Prepare /\ phase = "none" /\ phase' = "draining"
  /\ (Fresh(c) /\ fence = None) \/ (HeadIs(c, "resumed") /\ micro[1].left = 0)
  /\ Become(c, "active") /\ Waits(c) /\ FenceRest /\ UNCHANGED checkpoint
Settles(c) ==
  /\ cmd[c] = "active" /\ Become(c, "done") /\ Woken(drainWaiters) /\ FenceRest
  /\ \/ c \notin Prepare /\ UNCHANGED << phase, checkpoint >>
     \/ checkpoint = c /\ checkpoint' = None /\ phase' \in {"prepared", "none"}
Asks(e) == (NoTurn /\ evict[e] = "idle" /\ phase = "none") \/ HeadIs(e, "unfenced")
Raises(e) ==
  /\ Asks(e) /\ fence = None /\ fence' = e /\ evict' = [evict EXCEPT ![e] = "fencing"]
  /\ Adds(Turn(e, "fenced", 0))
  /\ UNCHANGED << cmd, fenceWaiters, drainWaiters, phase, checkpoint >>
Queues(e) ==
  /\ Asks(e) /\ fence # None /\ evict' = [evict EXCEPT ![e] = "waiting"]
  /\ Keeps /\ Joins(fenceWaiters, e, fenceWaiters')
  /\ UNCHANGED << cmd, fence, drainWaiters, phase, checkpoint >>
Stops(e) ==
  /\ NoTurn /\ evict[e] = "acting" /\ phase = "none" /\ evict' = [evict EXCEPT ![e] = "stopping"]
  /\ Keeps /\ UNCHANGED << cmd, fence, fenceWaiters, drainWaiters, phase, checkpoint >>
Releases(e) ==
  /\ evict[e] \in {"fencing", "acting", "stopping"} /\ evict' = [evict EXCEPT ![e] = "done"]
  /\ fence' = (IF fence = e THEN None ELSE fence) /\ Freed
  /\ \/ evict[e] # "fencing" /\ UNCHANGED drainWaiters
     \/ /\ drainWaiters' \in Seq(Evictor \union Prepare)
        /\ \E i \in DOMAIN drainWaiters :
             drainWaiters[i] = e /\ Leaves(drainWaiters, i, drainWaiters')
  /\ UNCHANGED << cmd, phase, checkpoint >>
GivesUp(p) ==
  /\ p \in Prepare /\ phase' = "none" /\ Become(p, "done")
  /\ \E i \in DOMAIN drainWaiters, r \in Seq(Evictor \union Prepare) :
       drainWaiters[i] = p /\ Leaves(drainWaiters, i, r) /\ Woken(r)
  /\ FenceRest /\ UNCHANGED checkpoint
Rotates(c) ==
  /\ HeadIs(c, "resumed") /\ micro[1].left > 0
  /\ Adds(Turn(c, "resumed", micro[1].left - 1))
  /\ UNCHANGED << cmd, evict, fence, fenceWaiters, drainWaiters, phase, checkpoint >>
Looks(x) ==
  /\ HeadIs(x, "fenced") \/ HeadIs(x, "drain")
  /\ Waits(x) /\ UNCHANGED << cmd, phase, checkpoint >> /\ FenceRest
Acts(e) ==
  /\ HeadIs(e, "drained") /\ evict' = [evict EXCEPT ![e] = "acting"]
  /\ Keeps /\ UNCHANGED << cmd, fence, fenceWaiters, drainWaiters, phase, checkpoint >>
Fences(p) ==
  /\ HeadIs(p, "drained") /\ phase = "draining" /\ phase' = "fencing"
  /\ Waits(p) /\ UNCHANGED << cmd, checkpoint >> /\ FenceRest
Checkpoints(p) ==
  /\ HeadIs(p, "drained") /\ phase = "fencing" /\ checkpoint' = p
  /\ Keeps /\ UNCHANGED << cmd, phase, drainWaiters >> /\ FenceRest

Shape ==
  \/ \E c \in Command :
       Refuses(c) \/ Holds(c) \/ Begins(c) \/ Prepares(c) \/ Settles(c) \/ Rotates(c)
  \/ \E e \in Evictor : Raises(e) \/ Queues(e) \/ Stops(e) \/ Releases(e) \/ Acts(e)
  \/ \E p \in Prepare : GivesUp(p) \/ Fences(p) \/ Checkpoints(p)
  \/ \E x \in Evictor \union Prepare : Looks(x)

(* Sequences.                                                                 *)
LEMMA Appended ==
  ASSUME NEW S, NEW s \in Seq(S), NEW x \in S
  PROVE  Append(s, x) \in Seq(S) /\ Joins(s, x, Append(s, x))
  BY DEF Joins

(* Serving the first turn moves the others up.                                *)
LEMMA Served ==
  ASSUME micro \in Seq(Turns), micro # << >>, micro' = Tail(micro)
  PROVE  Keeps
  BY DEF Keeps, Moved

(* A turn that is served and adds one behind the others.                      *)
LEMMA ServedAgain ==
  ASSUME micro \in Seq(Turns), micro # << >>, NEW t \in Turns, micro' = Append(Tail(micro), t)
  PROVE  Adds(t)
<1> DEFINE r == Tail(micro)
<1>1. r \in Seq(Turns) /\ Len(r) = Len(micro) - 1 /\ \A i \in 1..Len(r) : r[i] = micro[i + 1]
  OBVIOUS
<1>2. Len(micro) \in Nat /\ DOMAIN micro = 1..Len(micro) /\ Len(r) \in Nat
  BY <1>1
<1>3. micro' = Append(r, t)
  OBVIOUS
<1> HIDE DEF r
<1>4. micro' \in Seq(Turns) /\ DOMAIN micro' = 1..(Len(r) + 1) /\ micro'[Len(r) + 1] = t
      /\ \A i \in 1..Len(r) : micro'[i] = r[i]
  BY <1>1, <1>3
<1> QED BY <1>1, <1>2, <1>4 DEF Adds, Moved

(* An empty queue that stays empty.                                           *)
LEMMA StillEmpty ==
  ASSUME micro = << >>, micro' = << >>
  PROVE  Keeps /\ NoTurn
  BY DEF Keeps, Moved, NoTurn

(* A turn added to the empty queue.                                           *)
LEMMA FirstTurn ==
  ASSUME micro = << >>, NEW t \in Turns, micro' = << t >> \/ micro' = Append(<< >>, t)
  PROVE  Adds(t) /\ NoTurn
<1>1. micro' = << t >>
  OBVIOUS
<1>2. micro' \in Seq(Turns) /\ DOMAIN micro' = {1} /\ micro'[1] = t
  BY <1>1
<1> QED BY <1>2 DEF Adds, Moved, NoTurn

(* The first turn of the queue.                                               *)
LEMMA HeadTurn ==
  ASSUME micro \in Seq(Turns), micro # << >>
  PROVE  1 \in DOMAIN micro /\ Head(micro) = micro[1] /\ micro[1] \in Turns
  OBVIOUS

(* Without leaves out one place and keeps the order of the others.            *)
LEMMA LeavesOut ==
  ASSUME NEW S, NEW s \in Seq(S), NEW i \in DOMAIN s
  PROVE  Without(s, i) \in Seq(S) /\ Leaves(s, i, Without(s, i))
<1>1. Len(s) \in Nat /\ DOMAIN s = 1..Len(s) /\ Len(s) > 0 /\ i \in 1..Len(s)
  OBVIOUS
<1>2. \A j \in 1..(Len(s) - 1) : (IF j < i THEN s[j] ELSE s[j + 1]) \in S
  BY <1>1
<1>3. Without(s, i) \in [1..(Len(s) - 1) -> S]
  BY <1>2 DEF Without
<1>4. Without(s, i) \in Seq(S)
  BY <1>1, <1>3
<1>5. Leaves(s, i, Without(s, i))
  BY <1>1 DEF Without, Leaves
<1> QED BY <1>4, <1>5

(* The turns the module makes, and what is in them.                           *)
LEMMA TurnTypes ==
  /\ \A x \in Evictor \union Command, at \in {"resumed", "unfenced", "fenced", "drain", "drained"} :
       Turn(x, at, 0) \in Turns
  /\ \A c \in Command, n \in 0..OwnershipTurns : Turn(c, "resumed", n) \in Turns
  /\ \A x, at, n : Turn(x, at, n).who = x /\ Turn(x, at, n).at = at /\ Turn(x, at, n).left = n
  BY DEF Turn, Turns, OwnershipTurns

(* The types of the queues, as the lemmas above need them.                    *)
LEMMA QueueTypes ==
  ASSUME TypeOK
  PROVE  /\ micro \in Seq(Turns) /\ fenceWaiters \in Seq(Evictor \union Command)
         /\ drainWaiters \in Seq(Evictor \union Prepare)
         /\ \A x \in Evictor : x \notin Command /\ x # None
         /\ Prepare \subseteq WaitsForFence /\ WaitsForFence \subseteq Command
         /\ None \notin Command /\ \A c \in WaitsForFence : c \notin Abort \union Ledger
<1>1. WaitsForFence \subseteq Command /\ Prepare \subseteq WaitsForFence
  BY DEF Command, WaitsForFence
<1>2. Seq(Evictor \union WaitsForFence) \subseteq Seq(Evictor \union Command)
  BY <1>1
<1> QED BY <1>1, <1>2, KindAssumption DEF TypeOK, Turns

(* waitForDrain, called in a step that arrives or in a turn that goes on.     *)
LEMMA WaitAgain ==
  ASSUME TypeOK, NEW x \in Evictor \union Prepare, NEW A, A = Active(cmd'),
         \/ micro = << >> /\ WaitForDrain(x, A, << >>)
         \/ micro # << >> /\ WaitForDrain(x, A, Tail(micro))
  PROVE  Waits(x)
<1>1. Turn(x, "drained", 0) \in Turns
  BY QueueTypes, TurnTypes
<1>2. CASE Cardinality(A) <= Remaining(x)
  <2>1. drainWaiters' = drainWaiters
    BY <1>2 DEF WaitForDrain
  <2>2. CASE micro = << >>
    BY <1>1, <1>2, <2>1, <2>2, FirstTurn DEF Waits, WaitForDrain
  <2>3. CASE micro # << >>
    BY <1>1, <1>2, <2>1, <2>3, QueueTypes, ServedAgain DEF Waits, WaitForDrain
  <2> QED BY <2>2, <2>3
<1>3. CASE ~(Cardinality(A) <= Remaining(x))
  <2>1. Joins(drainWaiters, x, drainWaiters')
    BY <1>3, QueueTypes, Appended DEF WaitForDrain
  <2>2. Keeps
    BY <1>3, QueueTypes, StillEmpty, Served DEF WaitForDrain
  <2> QED BY <1>3, <2>1, <2>2 DEF Waits
<1> QED BY <1>2, <1>3

(* What a command does once nothing holds it back.                            *)
LEMMA BeginShape ==
  ASSUME TypeOK, NEW c \in Command, FenceRest, UNCHANGED checkpoint,
         \/ Fresh(c) /\ micro = << >> /\ ~(c \in WaitsForFence /\ fence # None) /\ Begin(c, << >>)
         \/ HeadIs(c, "resumed") /\ micro # << >> /\ micro[1].left = 0 /\ Begin(c, Tail(micro))
  PROVE  Refuses(c) \/ Begins(c) \/ Prepares(c)
<1> DEFINE q == IF micro = << >> THEN << >> ELSE Tail(micro)
<1>1. Begin(c, q) /\ (Fresh(c) \/ HeadIs(c, "resumed"))
  OBVIOUS
<1>2. micro' = q => Keeps
  BY QueueTypes, StillEmpty, Served
<1>3. CASE c \in Prepare /\ phase # "none"
  BY <1>1, <1>2, <1>3 DEF Begin, Refuses, Become, Fresh
<1>4. CASE c \notin Prepare
  BY <1>1, <1>2, <1>4 DEF Begin, Begins, Become, Fresh
<1>5. CASE c \in Prepare /\ phase = "none"
  <2>1. WaitForDrain(c, Active(cmd'), q) /\ phase' = "draining" /\ Become(c, "active")
    BY <1>1, <1>5 DEF Begin, Become
  <2>2. Waits(c)
    BY <1>5, <2>1, WaitAgain
  <2> QED BY <1>1, <1>5, <2>1, <2>2, QueueTypes DEF Prepares, Fresh, HeadIs
<1> QED BY <1>3, <1>4, <1>5

(* A command that arrives is refused, held, or begins.                        *)
LEMMA ArriveShape == ASSUME TypeOK, NEW c \in Command, Arrive(c) PROVE Shape
<1>1. CASE Refused(c) /\ Become(c, "refused")
           /\ UNCHANGED << fenceWaiters, drainWaiters, phase, micro >>
  BY <1>1, StillEmpty DEF Arrive, Refuses, FenceRest, Shape
<1>2. CASE ~ Refused(c) /\ c \in WaitsForFence /\ fence # None
  <2>1. Joins(fenceWaiters, c, fenceWaiters')
    <3>1. fenceWaiters' = Append(fenceWaiters, c) /\ c \in Evictor \union Command
      BY <1>2 DEF Arrive
    <3>2. fenceWaiters \in Seq(Evictor \union Command)
      BY QueueTypes
    <3> QED BY <3>1, <3>2, Appended
  <2>2. Holds(c)
    BY <1>2, <2>1, StillEmpty DEF Arrive, Holds, Fresh, Become
  <2> QED BY <2>2 DEF Shape
<1>3. CASE ~ Refused(c) /\ ~ (c \in WaitsForFence /\ fence # None)
  <2>1. Fresh(c) /\ micro = << >> /\ Begin(c, << >>) /\ FenceRest /\ UNCHANGED checkpoint
    BY <1>3 DEF Arrive, Fresh, NoTurn, FenceRest
  <2> QED BY <1>3, <2>1, BeginShape DEF Shape
<1> QED BY <1>1, <1>2, <1>3 DEF Arrive, Become

(* A turn at the latch for every waiter.                                      *)
LEMMA WokenShape ==
  ASSUME TypeOK, micro = << >>, NEW s \in Seq(Evictor \union Prepare), drainWaiters' = << >>,
         micro' = [i \in DOMAIN s |-> Turn(s[i], "drain", 0)]
  PROVE  Woken(s)
<1>1. Len(s) \in Nat /\ DOMAIN s = 1..Len(s) /\ \A i \in DOMAIN s : s[i] \in Evictor \union Command
  BY QueueTypes
<1>2. \A i \in 1..Len(s) : Turn(s[i], "drain", 0) \in Turns
  BY <1>1, TurnTypes
<1>3. micro' \in Seq(Turns)
  BY <1>1, <1>2
<1> QED BY <1>3 DEF Woken, NoTurn

(* end() wakes everyone at the latch.                                         *)
LEMMA WakeShape ==
  ASSUME TypeOK, micro = << >>, WakeDrainWaiters
  PROVE  Woken(drainWaiters)
<1>1. [i \in DOMAIN drainWaiters |-> Turn(drainWaiters[i], "drain", 0)] \in Seq(Turns)
  <2>1. Len(drainWaiters) \in Nat /\ DOMAIN drainWaiters = 1..Len(drainWaiters)
        /\ \A i \in DOMAIN drainWaiters : drainWaiters[i] \in Evictor \union Command
    BY QueueTypes
  <2>2. \A i \in 1..Len(drainWaiters) : Turn(drainWaiters[i], "drain", 0) \in Turns
    BY <2>1, TurnTypes
  <2> QED BY <2>1, <2>2
<1>2. micro' = [i \in DOMAIN drainWaiters |-> Turn(drainWaiters[i], "drain", 0)]
  BY <1>1 DEF WakeDrainWaiters
<1> QED BY <1>2, QueueTypes, WokenShape DEF WakeDrainWaiters

(* A command that ends.                                                       *)
LEMMA FinishShape == ASSUME TypeOK, NEW c \in Command, Finish(c) PROVE Shape
<1>1. Woken(drainWaiters)
  BY WakeShape DEF Finish
<1>2. Settles(c)
  BY <1>1 DEF Finish, Settles, Become, FenceRest
<1> QED BY <1>2 DEF Shape

(* A preparation that ends behind its checkpoint.                             *)
LEMMA PrepareEndsShape ==
  ASSUME TypeOK, PrepInv, NEW c \in Command, PrepareEnds(c)
  PROVE  Shape
<1>1. Woken(drainWaiters)
  BY WakeShape DEF PrepareEnds
<1>2. cmd[c] = "active"
  BY KindAssumption DEF PrepareEnds, PrepInv
<1>3. Settles(c)
  BY <1>1, <1>2 DEF PrepareEnds, Settles, Become, FenceRest
<1> QED BY <1>3 DEF Shape

(* An evictor raises the fence or waits for it.                               *)
LEMMA EvictShape == ASSUME TypeOK, NEW e \in Evictor, Evict(e) PROVE Shape
<1>1. Asks(e)
  BY DEF Evict, Asks, NoTurn
<1>2. CASE fence = None
  <2>1. Turn(e, "fenced", 0) \in Turns
    BY TurnTypes
  <2>2. Raises(e)
    BY <1>1, <1>2, <2>1, FirstTurn DEF Evict, Raises
  <2> QED BY <2>2 DEF Shape
<1>3. CASE fence # None
  <2>1. Joins(fenceWaiters, e, fenceWaiters')
    <3>1. fenceWaiters' = Append(fenceWaiters, e) /\ e \in Evictor \union Command
      BY <1>3 DEF Evict
    <3>2. fenceWaiters \in Seq(Evictor \union Command)
      BY QueueTypes
    <3> QED BY <3>1, <3>2, Appended
  <2>2. Queues(e)
    BY <1>1, <1>3, <2>1, StillEmpty DEF Evict, Queues
  <2> QED BY <2>2 DEF Shape
<1> QED BY <1>2, <1>3

(* release() resumes everyone who waits for the fence.                        *)
LEMMA FreedShape ==
  ASSUME TypeOK, micro = << >>, NEW e \in Evictor, ReleaseFence(e)
  PROVE  Freed
<1> DEFINE t(x) == IF x \in Evictor THEN Turn(x, "unfenced", 0)
                   ELSE Turn(x, "resumed", OwnershipTurns)
           m == [i \in DOMAIN fenceWaiters |-> t(fenceWaiters[i])]
<1>1. Len(fenceWaiters) \in Nat /\ DOMAIN fenceWaiters = 1..Len(fenceWaiters)
      /\ \A i \in DOMAIN fenceWaiters : fenceWaiters[i] \in Evictor \union Command
  BY QueueTypes
<1>2. \A x \in Evictor \union Command : t(x) \in Turns
  BY TurnTypes DEF OwnershipTurns
<1>3. m \in Seq(Turns)
  <2> HIDE DEF t
  <2> QED BY <1>1, <1>2
<1>4. micro' = << >> \o m /\ fenceWaiters' = << >>
  BY DEF ReleaseFence
<1>5. micro' = m
  <2> HIDE DEF m
  <2> QED BY <1>3, <1>4
<1> QED BY <1>3, <1>4, <1>5 DEF Freed, NoTurn

(* An evictor whose worker has answered gives up or stops it.                 *)
LEMMA AnswerShape ==
  ASSUME TypeOK, NEW e \in Evictor, WorkerAnswers(e)
  PROVE  Shape
<1>1. CASE ReleaseFence(e)
  BY <1>1, FreedShape DEF WorkerAnswers, Releases, ReleaseFence, Shape
<1>2. CASE phase = "none" /\ evict' = [evict EXCEPT ![e] = "stopping"]
           /\ UNCHANGED << fence, fenceWaiters, micro >>
  BY <1>2, StillEmpty DEF WorkerAnswers, Stops, Shape
<1> QED BY <1>1, <1>2 DEF WorkerAnswers

(* An evictor whose worker has stopped.                                       *)
LEMMA StoppedShape ==
  ASSUME TypeOK, NEW e \in Evictor, WorkerStopped(e)
  PROVE  Shape
  BY FreedShape DEF WorkerStopped, Releases, ReleaseFence, Shape

(* Whoever waits too long at the latch leaves it.                             *)
LEMMA TimeOutShape ==
  ASSUME TypeOK, DrainWaitersInv, NEW x \in Evictor \union Prepare, DrainTimesOut(x)
  PROVE  Shape
<1>1. PICK i \in DOMAIN drainWaiters :
        LET others == Without(drainWaiters, i)
        IN  /\ drainWaiters[i] = x
            /\ \/ /\ x \in Evictor
                  /\ drainWaiters' = others
                  /\ ReleaseFence(x)
                  /\ UNCHANGED << cmd, phase >>
               \/ /\ x \in Prepare
                  /\ phase' = "none"
                  /\ cmd' = [cmd EXCEPT ![x] = "done"]
                  /\ micro' = [j \in DOMAIN others |-> Turn(others[j], "drain", 0)]
                  /\ drainWaiters' = << >>
                  /\ UNCHANGED << evict, fence, fenceWaiters >>
  BY DEF DrainTimesOut
<1>2. Without(drainWaiters, i) \in Seq(Evictor \union Prepare)
      /\ Leaves(drainWaiters, i, Without(drainWaiters, i))
  BY QueueTypes, LeavesOut
<1>3. micro = << >> /\ UNCHANGED checkpoint
  BY DEF DrainTimesOut
<1>4. CASE x \in Evictor
  <2>1. x \notin Prepare
    BY <1>4, QueueTypes
  <2>2. evict[x] = "fencing"
    BY <1>1, <1>4 DEF DrainWaitersInv
  <2>3. Releases(x)
    BY <1>1, <1>2, <1>3, <1>4, <2>1, <2>2, FreedShape DEF Releases, ReleaseFence
  <2> QED BY <1>4, <2>3 DEF Shape
<1>5. CASE x \in Prepare
  <2>1. x \notin Evictor
    BY <1>5, QueueTypes
  <2>2. Woken(Without(drainWaiters, i))
    BY <1>1, <1>2, <1>3, <2>1, WokenShape
  <2>3. GivesUp(x)
    BY <1>1, <1>2, <1>3, <1>5, <2>1, <2>2 DEF GivesUp, Become, FenceRest
  <2> QED BY <1>5, <2>3 DEF Shape
<1> QED BY <1>4, <1>5

(* The turns of the queue.                                                    *)
LEMMA ResumeCommandShape == ASSUME TypeOK, TurnsInv, ResumeCommand PROVE Shape
<1> DEFINE c == micro[1].who
<1>1. micro # << >> /\ Head(micro) = micro[1] /\ 1 \in DOMAIN micro /\ micro[1] \in Turns
  BY QueueTypes, HeadTurn DEF ResumeCommand
<1>2. HeadIs(c, "resumed") /\ c \in Command
  BY <1>1, QueueTypes DEF ResumeCommand, Head1, HeadIs, TurnsInv, TurnOK
<1>3. micro[1].left \in Int
  BY <1>1 DEF Turns, OwnershipTurns
<1>4. CASE micro[1].left > 0
  <2>1. Turn(c, "resumed", micro[1].left - 1) \in Turns
    <3>1. micro[1].left - 1 \in 0..OwnershipTurns
      BY <1>1, <1>4 DEF Turns, OwnershipTurns
    <3> QED BY <1>2, <3>1, TurnTypes
  <2>2. micro' = Append(Tail(micro), Turn(c, "resumed", micro[1].left - 1))
    BY <1>1, <1>4 DEF ResumeCommand, Head1, Rest
  <2>3. Adds(Turn(c, "resumed", micro[1].left - 1))
    BY <1>1, <2>1, <2>2, QueueTypes, ServedAgain
  <2>4. Rotates(c)
    BY <1>1, <1>2, <1>4, <2>3 DEF ResumeCommand, Head1, Rotates
  <2> QED BY <1>2, <2>4 DEF Shape
<1>5. CASE ~(micro[1].left > 0)
  <2>1. micro[1].left = 0
    BY <1>1, <1>5 DEF Turns, OwnershipTurns
  <2>2. Begin(c, Tail(micro)) /\ FenceRest /\ UNCHANGED checkpoint
    BY <1>1, <1>5 DEF ResumeCommand, Head1, Rest, FenceRest
  <2> QED BY <1>1, <1>2, <2>1, <2>2, BeginShape DEF Shape
<1> QED BY <1>4, <1>5

(* A resumed evictor raises the fence or waits again.                         *)
LEMMA ResumeEvictorShape == ASSUME TypeOK, TurnsInv, ResumeEvictor PROVE Shape
<1> DEFINE e == micro[1].who
<1>1. micro # << >> /\ Head(micro) = micro[1] /\ 1 \in DOMAIN micro /\ micro[1] \in Turns
  BY QueueTypes, HeadTurn DEF ResumeEvictor
<1>2. HeadIs(e, "unfenced") /\ e \in Evictor /\ evict[e] = "waiting"
  BY <1>1 DEF ResumeEvictor, Head1, HeadIs, TurnsInv, TurnOK
<1>3. CASE fence = None
  <2>1. Adds(Turn(e, "fenced", 0))
    BY <1>1, <1>2, <1>3, TurnTypes, QueueTypes, ServedAgain DEF ResumeEvictor, Head1, Rest
  <2>2. Raises(e)
    BY <1>1, <1>2, <1>3, <2>1 DEF ResumeEvictor, Head1, Raises, Asks
  <2> QED BY <1>2, <2>2 DEF Shape
<1>4. CASE fence # None
  <2>1. Joins(fenceWaiters, e, fenceWaiters')
    <3>1. fenceWaiters' = Append(fenceWaiters, e) /\ e \in Evictor \union Command
      BY <1>1, <1>2, <1>4 DEF ResumeEvictor, Head1
    <3>2. fenceWaiters \in Seq(Evictor \union Command)
      BY QueueTypes
    <3> QED BY <3>1, <3>2, Appended
  <2>2. Keeps
    BY <1>1, <1>4, QueueTypes, Served DEF ResumeEvictor, Rest
  <2>3. evict' = [evict EXCEPT ![e] = "waiting"]
    BY <1>2, <1>4 DEF ResumeEvictor, TypeOK
  <2>4. Queues(e)
    BY <1>1, <1>2, <1>4, <2>1, <2>2, <2>3 DEF ResumeEvictor, Queues, Asks
  <2> QED BY <1>2, <2>4 DEF Shape
<1> QED BY <1>3, <1>4

(* A turn at the latch looks at the active commands again.                    *)
LEMMA ResumeDrainShape == ASSUME TypeOK, TurnsInv, ResumeDrain PROVE Shape
<1> DEFINE x == micro[1].who
<1>1. micro # << >> /\ Head(micro) = micro[1] /\ 1 \in DOMAIN micro
  BY QueueTypes, HeadTurn DEF ResumeDrain
<1>2. (HeadIs(x, "fenced") \/ HeadIs(x, "drain")) /\ x \in Evictor \union Prepare
  BY <1>1 DEF ResumeDrain, Head1, HeadIs, TurnsInv, TurnOK
<1>3. Waits(x)
  BY <1>1, <1>2, WaitAgain DEF ResumeDrain, Head1, Rest
<1>4. Looks(x)
  BY <1>2, <1>3 DEF ResumeDrain, Looks, FenceRest
<1> QED BY <1>2, <1>4 DEF Shape

(* An evictor or a preparation goes on when its drain has returned.           *)
LEMMA ResumeDrainedShape == ASSUME TypeOK, TurnsInv, ResumeDrained PROVE Shape
<1> DEFINE x == micro[1].who
<1>1. micro # << >> /\ Head(micro) = micro[1] /\ 1 \in DOMAIN micro
  BY QueueTypes, HeadTurn DEF ResumeDrained
<1>2. HeadIs(x, "drained")
  BY <1>1 DEF ResumeDrained, Head1, HeadIs
<1>3. CASE x \in Evictor /\ evict' = [evict EXCEPT ![x] = "acting"] /\ micro' = Rest
           /\ UNCHANGED << drainWaiters, phase, checkpoint >>
  BY <1>1, <1>2, <1>3, QueueTypes, Served DEF ResumeDrained, Acts, Rest, Shape
<1>4. CASE x \in Prepare /\ phase = "draining" /\ phase' = "fencing"
           /\ WaitForDrain(x, Active(cmd), Rest) /\ UNCHANGED << evict, checkpoint >>
  <2>1. Waits(x)
    BY <1>1, <1>4, WaitAgain DEF ResumeDrained, Rest
  <2> QED BY <1>2, <1>4, <2>1 DEF ResumeDrained, Fences, FenceRest, Shape
<1>5. CASE x \in Prepare /\ phase = "fencing" /\ checkpoint' = x /\ micro' = Rest
           /\ UNCHANGED << evict, drainWaiters, phase >>
  BY <1>1, <1>2, <1>5, QueueTypes, Served DEF ResumeDrained, Checkpoints, FenceRest, Rest, Shape
<1> QED BY <1>1, <1>3, <1>4, <1>5 DEF ResumeDrained, Head1

(* Every step has one of the shapes.                                          *)
LEMMA StepShape ==
  ASSUME TypeOK, TurnsInv, DrainWaitersInv, PrepInv, Next
  PROVE  Shape
  BY ArriveShape, FinishShape, PrepareEndsShape, EvictShape, AnswerShape,
     StoppedShape, TimeOutShape,
     ResumeCommandShape, ResumeEvictorShape, ResumeDrainShape, ResumeDrainedShape
     DEF Next, MicroStep

(* Turns of the new queue and of the old one, one and two at a time.          *)
Old(i, k) == k \in DOMAIN micro /\ k # 1 /\ 1 < k /\ micro'[i] = micro[k]

(* A turn of a queue that only moved was a turn before.                       *)
LEMMA KeptOne ==
  ASSUME TypeOK, Keeps
  PROVE  \A i \in DOMAIN micro' : \E k \in DOMAIN micro : Old(i, k)
<1>1. \A i \in DOMAIN micro' : i \in Nat /\ i >= 1
  BY DEF Keeps
<1>2. \A i \in DOMAIN micro' : i + 1 \in DOMAIN micro /\ micro'[i] = micro[i + 1] /\ 1 < i + 1
  BY <1>1 DEF Keeps, Moved
<1> QED BY <1>1, <1>2 DEF Old

(* Two turns of a queue that only moved were two turns before, in that order. *)
LEMMA KeptTwo ==
  ASSUME TypeOK, Keeps
  PROVE  \A i, j \in DOMAIN micro' : \E k, l \in DOMAIN micro :
           Old(i, k) /\ Old(j, l) /\ (k = l => i = j) /\ (i < j <=> k < l)
<1> SUFFICES ASSUME NEW i \in DOMAIN micro', NEW j \in DOMAIN micro'
             PROVE  \E k, l \in DOMAIN micro :
                      Old(i, k) /\ Old(j, l) /\ (k = l => i = j) /\ (i < j <=> k < l)
  OBVIOUS
<1>1. i \in Nat /\ i >= 1 /\ j \in Nat /\ j >= 1
  BY DEF Keeps
<1>2. Old(i, i + 1) /\ Old(j, j + 1)
  BY <1>1 DEF Keeps, Moved, Old
<1>3. (i + 1 = j + 1 => i = j) /\ (i < j <=> i + 1 < j + 1)
  BY <1>1
<1>4. i + 1 \in DOMAIN micro /\ j + 1 \in DOMAIN micro
  BY <1>2 DEF Old
<1> QED BY <1>2, <1>3, <1>4

(* A turn of a queue that got one is an old one or the new.                   *)
LEMMA AddedOne ==
  ASSUME TypeOK, NEW t, Adds(t)
  PROVE  \A i \in DOMAIN micro' : micro'[i] = t \/ \E k \in DOMAIN micro : Old(i, k)
<1> SUFFICES ASSUME NEW i \in DOMAIN micro', micro'[i] # t
             PROVE  \E k \in DOMAIN micro : Old(i, k)
  OBVIOUS
<1>1. i \in Nat /\ i >= 1
  BY DEF Adds
<1>2. i + 1 \in DOMAIN micro /\ micro'[i] = micro[i + 1]
  BY DEF Adds, Moved
<1> QED BY <1>1, <1>2 DEF Old

(* Of two turns of a queue that got one, at most one is new, and it is the last. *)
LEMMA AddedTwo ==
  ASSUME TypeOK, NEW t, Adds(t)
  PROVE  \A i, j \in DOMAIN micro' :
           \/ \E k, l \in DOMAIN micro :
                Old(i, k) /\ Old(j, l) /\ (k = l => i = j) /\ (i < j <=> k < l)
           \/ micro'[i] = t /\ ~(i < j) /\ \E l \in DOMAIN micro : Old(j, l)
           \/ micro'[j] = t /\ i < j /\ \E k \in DOMAIN micro : Old(i, k)
           \/ micro'[i] = t /\ micro'[j] = t /\ i = j /\ ~(i < j)
<1> SUFFICES ASSUME NEW i \in DOMAIN micro', NEW j \in DOMAIN micro'
             PROVE \/ \E k, l \in DOMAIN micro :
                        Old(i, k) /\ Old(j, l) /\ (k = l => i = j) /\ (i < j <=> k < l)
                   \/ micro'[i] = t /\ ~(i < j) /\ \E l \in DOMAIN micro : Old(j, l)
                   \/ micro'[j] = t /\ i < j /\ \E k \in DOMAIN micro : Old(i, k)
                   \/ micro'[i] = t /\ micro'[j] = t /\ i = j /\ ~(i < j)
  OBVIOUS
<1> DEFINE New(n) == micro'[n] = t /\ \A m \in DOMAIN micro' : m \in Nat /\ m <= n
<1>1. i \in Nat /\ i >= 1 /\ j \in Nat /\ j >= 1
  BY DEF Adds
<1>2. \/ i + 1 \in DOMAIN micro /\ Old(i, i + 1)
      \/ New(i)
  BY <1>1 DEF Adds, Moved, Old
<1>3. \/ j + 1 \in DOMAIN micro /\ Old(j, j + 1)
      \/ New(j)
  BY <1>1 DEF Adds, Moved, Old
<1>4. (i + 1 = j + 1 => i = j) /\ (i < j <=> i + 1 < j + 1)
  BY <1>1
<1>5. (New(i) => ~(i < j)) /\ (New(j) /\ i # j => i < j)
  BY <1>1
<1>6. New(i) /\ New(j) => i = j /\ ~(i < j)
  BY <1>1
<1> HIDE DEF New
<1>7. (New(i) => micro'[i] = t) /\ (New(j) => micro'[j] = t)
  BY DEF New
<1> QED BY <1>2, <1>3, <1>4, <1>5, <1>6, <1>7

(* The turns left of a held command.                                          *)
LEMMA LeftTypes ==
  ASSUME TypeOK
  PROVE  \A i \in DOMAIN micro :
           micro[i].left \in 0..OwnershipTurns /\ micro[i].left \in Nat
<1>1. \A i \in DOMAIN micro : micro[i] \in Turns
  BY QueueTypes
<1> QED BY <1>1 DEF Turns, OwnershipTurns

(* A turn of a queue that x joined is x's or an old one.                      *)
LEMMA AddedTurn ==
  ASSUME TypeOK, NEW x, NEW at, NEW n, Adds(Turn(x, at, n))
  PROVE  \A i \in DOMAIN micro' :
           \/ micro'[i].who = x /\ micro'[i].at = at
           \/ \E k \in DOMAIN micro : Old(i, k)
<1>1. Turn(x, at, n).who = x /\ Turn(x, at, n).at = at
  BY DEF Turn
<1>2. \A i \in DOMAIN micro' :
        micro'[i] = Turn(x, at, n) \/ \E k \in DOMAIN micro : Old(i, k)
  BY AddedOne
<1> QED BY <1>1, <1>2

(* x, who was served or has just come, joins the queue; a command joins it     *)
(* as a resumed one only when it was one.                                     *)
ServedJoins(x) ==
  \E at, n : /\ Adds(Turn(x, at, n)) /\ (NoTurn \/ \E was : HeadIs(x, was))
             /\ at = "resumed" => Rotates(x)

(* Whoever waits for a drain moves the queue up or joins it.                  *)
LEMMA WaitsChanges ==
  ASSUME NEW x, Waits(x), NoTurn \/ \E was : HeadIs(x, was)
  PROVE  Keeps \/ ServedJoins(x)
<1>1. CASE Keeps
  BY <1>1
<1>2. CASE Adds(Turn(x, "drained", 0))
  <2>1. "drained" # "resumed"
    OBVIOUS
  <2> QED BY <1>2, <2>1 DEF ServedJoins
<1> QED BY <1>1, <1>2 DEF Waits

(* How a step changes the queue: it moves up, somebody joins it, or it is     *)
(* filled by a wake-up.                                                       *)
LEMMA QueueChanges ==
  ASSUME TypeOK, Shape
  PROVE  \/ Keeps
         \/ \E x \in Evictor \union Command : ServedJoins(x)
         \/ \E c \in Command : Settles(c)
         \/ \E p \in Prepare : GivesUp(p)
         \/ \E e \in Evictor : Releases(e)
<1>1. ASSUME NEW c \in Command, Prepares(c)
      PROVE  Keeps \/ ServedJoins(c)
  BY <1>1, WaitsChanges DEF Prepares, Fresh
<1>2. ASSUME NEW c \in Command, Rotates(c)
      PROVE  ServedJoins(c)
  <2>1. Adds(Turn(c, "resumed", micro[1].left - 1)) /\ HeadIs(c, "resumed")
    BY <1>2 DEF Rotates
  <2> QED BY <1>2, <2>1 DEF ServedJoins
<1>3. ASSUME NEW e \in Evictor, Raises(e)
      PROVE  ServedJoins(e)
  <2>1. /\ Adds(Turn(e, "fenced", 0)) /\ (NoTurn \/ \E was : HeadIs(e, was))
        /\ "fenced" # "resumed"
    BY <1>3 DEF Raises, Asks
  <2> QED BY <2>1 DEF ServedJoins
<1>4. ASSUME NEW x \in Evictor \union Prepare, Looks(x)
      PROVE  Keeps \/ ServedJoins(x)
  BY <1>4, WaitsChanges DEF Looks
<1>5. ASSUME NEW p \in Prepare, Fences(p)
      PROVE  Keeps \/ ServedJoins(p)
  BY <1>5, WaitsChanges DEF Fences
<1>6. \A c \in Command : Refuses(c) \/ Holds(c) \/ Begins(c) => Keeps
  BY DEF Refuses, Holds, Begins
<1>7. /\ \A e \in Evictor : Queues(e) \/ Stops(e) \/ Acts(e) => Keeps
      /\ \A p \in Prepare : Checkpoints(p) => Keeps
  BY DEF Queues, Stops, Acts, Checkpoints
<1>8. Prepare \subseteq Command
  BY DEF Command
<1> QED BY <1>1, <1>2, <1>3, <1>4, <1>5, <1>6, <1>7, <1>8 DEF Shape

--------------------------------------------------------------------------------
(* Active commands.                                                           *)
LEMMA ActiveFinite == \A f : IsFiniteSet(Active(f)) /\ Cardinality(Active(f)) \in Nat
<1>1. \A f : IsFiniteSet(Active(f))
  BY KindAssumption, FS_Subset DEF Active
<1> QED BY <1>1, FS_CardinalityType

(* A command that starts joins the active ones, one that ends leaves them.    *)
LEMMA ActiveBecome ==
  ASSUME TypeOK, NEW c \in Command
  PROVE  /\ Become(c, "active") => Active(cmd') = Active(cmd) \union {c}
         /\ \A s : s # "active" /\ Become(c, s) => Active(cmd') = Active(cmd) \ {c}
<1>1. ASSUME NEW s, Become(c, s)
      PROVE  \A x \in Command : cmd'[x] = IF x = c THEN s ELSE cmd[x]
  BY <1>1 DEF Become, TypeOK
<1> QED BY <1>1 DEF Active

(* A command that drains alone is the only one.                               *)
LEMMA AloneActive ==
  ASSUME NEW f, NEW x \in Active(f), Cardinality(Active(f)) <= 1
  PROVE  Active(f) = {x}
<1>1. IsFiniteSet(Active(f)) /\ Cardinality(Active(f)) \in Nat
  BY ActiveFinite
<1>2. IsFiniteSet(Active(f) \ {x}) /\ Cardinality(Active(f) \ {x}) = Cardinality(Active(f)) - 1
  BY <1>1, FS_RemoveElement
<1>3. Cardinality(Active(f) \ {x}) \in Nat
  BY <1>2, FS_CardinalityType
<1>4. Cardinality(Active(f) \ {x}) = 0
  BY <1>1, <1>2, <1>3
<1>5. Active(f) \ {x} = {}
  BY <1>2, <1>4, FS_EmptySet
<1> QED BY <1>5

(* More commands are no fewer.                                                *)
LEMMA MoreActive ==
  ASSUME NEW f, NEW g, Active(f) \subseteq Active(g)
  PROVE  Cardinality(Active(f)) <= Cardinality(Active(g))
  BY ActiveFinite, FS_Subset

-----------------------------------------------------------------------------
(***************************************************************************)
(* The shapes keep the invariant.                                          *)
(***************************************************************************)

(* Every step keeps the types.                                                *)
LEMMA TypesKept ==
  ASSUME TypeOK, TurnsInv, Shape
  PROVE  TypeOK'
<1> USE QueueTypes DEF TypeOK, TurnsInv, TurnOK, Turns, Command, WaitsForFence, Adds, Keeps
<1>1. ASSUME NEW c \in Command, Refuses(c) PROVE TypeOK'
  BY <1>1 DEF Refuses, FenceRest, Become, Turn, NoTurn, HeadIs
<1>2. ASSUME NEW c \in Command, Holds(c) PROVE TypeOK'
  BY <1>2 DEF Holds, Joins, Become, Fresh, Turn, NoTurn, HeadIs
<1>3. ASSUME NEW c \in Command, Begins(c) PROVE TypeOK'
  BY <1>3 DEF Begins, FenceRest, Become, Fresh, Turn, NoTurn, HeadIs
<1>4. ASSUME NEW c \in Command, Prepares(c) PROVE TypeOK'
  <2>1. CASE Adds(Turn(c, "drained", 0)) /\ drainWaiters' = drainWaiters
    BY <1>4, <2>1 DEF Prepares, Joins, FenceRest, Become, Fresh, Turn, NoTurn, HeadIs
  <2>2. CASE Keeps /\ Joins(drainWaiters, c, drainWaiters')
    BY <1>4, <2>2 DEF Prepares, Joins, FenceRest, Become, Fresh, Turn, NoTurn, HeadIs
  <2> QED BY <1>4, <2>1, <2>2 DEF Waits, Prepares
<1>5. ASSUME NEW c \in Command, Settles(c) PROVE TypeOK'
  BY <1>5 DEF Settles, Woken, FenceRest, Become, Turn, NoTurn, HeadIs
<1>6. ASSUME NEW c \in Command, Rotates(c) PROVE TypeOK'
  BY <1>6 DEF Rotates, Turn, NoTurn, HeadIs
<1>7. ASSUME NEW e \in Evictor, Raises(e) PROVE TypeOK'
  BY <1>7 DEF Raises, Asks, Turn, NoTurn, HeadIs
<1>8. ASSUME NEW e \in Evictor, Queues(e) PROVE TypeOK'
  BY <1>8 DEF Queues, Joins, Asks, Turn, NoTurn, HeadIs
<1>9. ASSUME NEW e \in Evictor, Stops(e) PROVE TypeOK'
  BY <1>9 DEF Stops, Turn, NoTurn, HeadIs
<1>10. ASSUME NEW e \in Evictor, Releases(e) PROVE TypeOK'
  BY <1>10 DEF Releases, Freed, Leaves, Turn, NoTurn, HeadIs
<1>11. ASSUME NEW e \in Evictor, Acts(e) PROVE TypeOK'
  BY <1>11 DEF Acts, Turn, NoTurn, HeadIs
<1>12. ASSUME NEW p \in Prepare, GivesUp(p) PROVE TypeOK'
  BY <1>12 DEF GivesUp, Leaves, Woken, Become, FenceRest, Turn, NoTurn, HeadIs
<1>13. ASSUME NEW p \in Prepare, Fences(p) PROVE TypeOK'
  <2>1. CASE Adds(Turn(p, "drained", 0)) /\ drainWaiters' = drainWaiters
    BY <1>13, <2>1 DEF Fences, Joins, FenceRest, Turn, NoTurn, HeadIs
  <2>2. CASE Keeps /\ Joins(drainWaiters, p, drainWaiters')
    BY <1>13, <2>2 DEF Fences, Joins, FenceRest, Turn, NoTurn, HeadIs
  <2> QED BY <1>13, <2>1, <2>2 DEF Waits, Fences
<1>14. ASSUME NEW p \in Prepare, Checkpoints(p) PROVE TypeOK'
  BY <1>14 DEF Checkpoints, FenceRest, Turn, NoTurn, HeadIs
<1>15. ASSUME NEW x \in Evictor \union Prepare, Looks(x) PROVE TypeOK'
  <2>1. CASE Adds(Turn(x, "drained", 0)) /\ drainWaiters' = drainWaiters
    BY <1>15, <2>1 DEF Looks, Joins, FenceRest, Turn, NoTurn, HeadIs
  <2>2. CASE Keeps /\ Joins(drainWaiters, x, drainWaiters')
    BY <1>15, <2>2 DEF Looks, Joins, FenceRest, Turn, NoTurn, HeadIs
  <2> QED BY <1>15, <2>1, <2>2 DEF Waits, Looks
<1> QED
  BY <1>1, <1>2, <1>3, <1>4, <1>5, <1>6, <1>7, <1>8,
     <1>9, <1>10, <1>11, <1>12, <1>13, <1>14, <1>15 DEF Shape

(* A turn belongs to somebody who waits for it.                               *)
LEMMA TurnsKept ==
  ASSUME TypeOK, TurnsInv, FenceWaitersInv, DrainWaitersInv, OneTurn, OnceDraining, PrepInv, Shape
  PROVE  TurnsInv'
<1> USE QueueTypes DEF TypeOK, TurnsInv, TurnOK, FenceWaitersInv, OnceDraining,
        DrainWaitersInv, OneTurn, PrepInv, Preparing, Old
<1>1. ASSUME NEW c \in Command, Refuses(c) PROVE TurnsInv'
  BY <1>1, KeptOne DEF Refuses, FenceRest, Become, Turn, NoTurn, HeadIs
<1>2. ASSUME NEW c \in Command, Holds(c) PROVE TurnsInv'
  BY <1>2, KeptOne DEF Holds, Joins, Become, Fresh, Turn, NoTurn, HeadIs
<1>3. ASSUME NEW c \in Command, Begins(c) PROVE TurnsInv'
  BY <1>3, KeptOne DEF Begins, FenceRest, Become, Fresh, Turn, NoTurn, HeadIs
<1>4. ASSUME NEW c \in Command, Prepares(c) PROVE TurnsInv'
  <2>1. CASE Adds(Turn(c, "drained", 0)) /\ drainWaiters' = drainWaiters
    BY <1>4, <2>1, AddedOne DEF Prepares, Joins, FenceRest, Become, Fresh, Turn, NoTurn, HeadIs
  <2>2. CASE Keeps /\ Joins(drainWaiters, c, drainWaiters')
    BY <1>4, <2>2, KeptOne DEF Prepares, Joins, FenceRest, Become, Fresh, Turn, NoTurn, HeadIs
  <2> QED BY <1>4, <2>1, <2>2 DEF Waits, Prepares
<1>5. ASSUME NEW c \in Command, Settles(c) PROVE TurnsInv'
  BY <1>5 DEF Settles, Woken, FenceRest, Become, Turn, NoTurn, HeadIs
<1>6. ASSUME NEW c \in Command, Rotates(c) PROVE TurnsInv'
  BY <1>6, AddedOne DEF Rotates, Turn, NoTurn, HeadIs
<1>7. ASSUME NEW e \in Evictor, Raises(e) PROVE TurnsInv'
  BY <1>7, AddedOne DEF Raises, Asks, Turn, NoTurn, HeadIs
<1>8. ASSUME NEW e \in Evictor, Queues(e) PROVE TurnsInv'
  BY <1>8, KeptOne DEF Queues, Joins, Asks, Turn, NoTurn, HeadIs
<1>9. ASSUME NEW e \in Evictor, Stops(e) PROVE TurnsInv'
  BY <1>9, KeptOne DEF Stops, Turn, NoTurn, HeadIs
<1>10. ASSUME NEW e \in Evictor, Releases(e) PROVE TurnsInv'
  BY <1>10 DEF Releases, Freed, Leaves, Turn, NoTurn, HeadIs
<1>11. ASSUME NEW e \in Evictor, Acts(e) PROVE TurnsInv'
  BY <1>11, KeptOne DEF Acts, Turn, NoTurn, HeadIs
<1>12. ASSUME NEW p \in Prepare, GivesUp(p) PROVE TurnsInv'
  BY <1>12 DEF GivesUp, Leaves, Woken, Become, FenceRest, Turn, NoTurn, HeadIs
<1>13. ASSUME NEW p \in Prepare, Fences(p) PROVE TurnsInv'
  <2>1. CASE Adds(Turn(p, "drained", 0)) /\ drainWaiters' = drainWaiters
    BY <1>13, <2>1, AddedOne DEF Fences, Joins, FenceRest, Turn, NoTurn, HeadIs
  <2>2. CASE Keeps /\ Joins(drainWaiters, p, drainWaiters')
    BY <1>13, <2>2, KeptOne DEF Fences, Joins, FenceRest, Turn, NoTurn, HeadIs
  <2> QED BY <1>13, <2>1, <2>2 DEF Waits, Fences
<1>14. ASSUME NEW p \in Prepare, Checkpoints(p) PROVE TurnsInv'
  BY <1>14, KeptOne DEF Checkpoints, FenceRest, Turn, NoTurn, HeadIs
<1>15. ASSUME NEW x \in Evictor \union Prepare, Looks(x) PROVE TurnsInv'
  <2>1. (x \in Evictor /\ evict[x] = "fencing") \/ (x \in Prepare /\ Preparing(x))
    BY <1>15 DEF Looks, HeadIs
  <2>3. CASE Adds(Turn(x, "drained", 0)) /\ drainWaiters' = drainWaiters
    BY <1>15, <2>1, <2>3, AddedOne DEF Looks, FenceRest, Turn
  <2>4. CASE Keeps /\ Joins(drainWaiters, x, drainWaiters')
    BY <1>15, <2>4, KeptOne DEF Looks, FenceRest
  <2> QED BY <1>15, <2>3, <2>4 DEF Waits, Looks
<1> QED
  BY <1>1, <1>2, <1>3, <1>4, <1>5, <1>6, <1>7, <1>8,
     <1>9, <1>10, <1>11, <1>12, <1>13, <1>14, <1>15 DEF Shape

(* Whoever waits for the fence does nothing else.                             *)
LEMMA FenceWaitersKept ==
  ASSUME TypeOK, TurnsInv, FenceWaitersInv, DrainWaitersInv, TurnOrFence, Shape
  PROVE  FenceWaitersInv'
<1> USE QueueTypes DEF TypeOK, TurnsInv, TurnOK, FenceWaitersInv, TurnOrFence,
        DrainWaitersInv, Preparing, Old
<1>1. ASSUME NEW c \in Command, Refuses(c) PROVE FenceWaitersInv'
  BY <1>1, KeptOne DEF Refuses, FenceRest, Become, Turn, NoTurn, HeadIs
<1>2. ASSUME NEW c \in Command, Holds(c) PROVE FenceWaitersInv'
  BY <1>2, KeptOne DEF Holds, Joins, Become, Fresh, Turn, NoTurn, HeadIs
<1>3. ASSUME NEW c \in Command, Begins(c) PROVE FenceWaitersInv'
  BY <1>3, KeptOne DEF Begins, FenceRest, Become, Fresh, Turn, NoTurn, HeadIs
<1>4. ASSUME NEW c \in Command, Prepares(c) PROVE FenceWaitersInv'
  <2>1. CASE Adds(Turn(c, "drained", 0)) /\ drainWaiters' = drainWaiters
    BY <1>4, <2>1, AddedOne DEF Prepares, Joins, FenceRest, Become, Fresh, Turn, NoTurn, HeadIs
  <2>2. CASE Keeps /\ Joins(drainWaiters, c, drainWaiters')
    BY <1>4, <2>2, KeptOne DEF Prepares, Joins, FenceRest, Become, Fresh, Turn, NoTurn, HeadIs
  <2> QED BY <1>4, <2>1, <2>2 DEF Waits, Prepares
<1>5. ASSUME NEW c \in Command, Settles(c) PROVE FenceWaitersInv'
  BY <1>5 DEF Settles, Woken, FenceRest, Become, Turn, NoTurn, HeadIs
<1>6. ASSUME NEW c \in Command, Rotates(c) PROVE FenceWaitersInv'
  BY <1>6, AddedOne DEF Rotates, Turn, NoTurn, HeadIs
<1>7. ASSUME NEW e \in Evictor, Raises(e) PROVE FenceWaitersInv'
  BY <1>7, AddedOne DEF Raises, Asks, Turn, NoTurn, HeadIs
<1>8. ASSUME NEW e \in Evictor, Queues(e) PROVE FenceWaitersInv'
  BY <1>8, KeptOne DEF Queues, Joins, Asks, Turn, NoTurn, HeadIs
<1>9. ASSUME NEW e \in Evictor, Stops(e) PROVE FenceWaitersInv'
  BY <1>9, KeptOne DEF Stops, Turn, NoTurn, HeadIs
<1>10. ASSUME NEW e \in Evictor, Releases(e) PROVE FenceWaitersInv'
  BY <1>10 DEF Releases, Freed, Leaves, Turn, NoTurn, HeadIs
<1>11. ASSUME NEW e \in Evictor, Acts(e) PROVE FenceWaitersInv'
  BY <1>11, KeptOne DEF Acts, Turn, NoTurn, HeadIs
<1>12. ASSUME NEW p \in Prepare, GivesUp(p) PROVE FenceWaitersInv'
  <2>1. cmd[p] # "held"
    BY <1>12 DEF GivesUp
  <2>2. /\ fenceWaiters' = fenceWaiters /\ evict' = evict
        /\ \A c \in Command : c # p => cmd'[c] = cmd[c]
    BY <1>12 DEF GivesUp, Become, FenceRest
  <2> QED BY <2>1, <2>2
<1>13. ASSUME NEW p \in Prepare, Fences(p) PROVE FenceWaitersInv'
  <2>1. CASE Adds(Turn(p, "drained", 0)) /\ drainWaiters' = drainWaiters
    BY <1>13, <2>1, AddedOne DEF Fences, Joins, FenceRest, Turn, NoTurn, HeadIs
  <2>2. CASE Keeps /\ Joins(drainWaiters, p, drainWaiters')
    BY <1>13, <2>2, KeptOne DEF Fences, Joins, FenceRest, Turn, NoTurn, HeadIs
  <2> QED BY <1>13, <2>1, <2>2 DEF Waits, Fences
<1>14. ASSUME NEW p \in Prepare, Checkpoints(p) PROVE FenceWaitersInv'
  BY <1>14, KeptOne DEF Checkpoints, FenceRest, Turn, NoTurn, HeadIs
<1>15. ASSUME NEW x \in Evictor \union Prepare, Looks(x) PROVE FenceWaitersInv'
  <2>1. CASE Adds(Turn(x, "drained", 0)) /\ drainWaiters' = drainWaiters
    BY <1>15, <2>1, AddedOne DEF Looks, Joins, FenceRest, Turn, NoTurn, HeadIs
  <2>2. CASE Keeps /\ Joins(drainWaiters, x, drainWaiters')
    BY <1>15, <2>2, KeptOne DEF Looks, Joins, FenceRest, Turn, NoTurn, HeadIs
  <2> QED BY <1>15, <2>1, <2>2 DEF Waits, Looks
<1> QED
  BY <1>1, <1>2, <1>3, <1>4, <1>5, <1>6, <1>7, <1>8,
     <1>9, <1>10, <1>11, <1>12, <1>13, <1>14, <1>15 DEF Shape

(* Whoever waits at the latch does nothing else.                              *)
LEMMA DrainWaitersKept ==
  ASSUME TypeOK, TurnsInv, DrainWaitersInv, OnceDraining, TurnOrDrain, PrepInv, Shape
  PROVE  DrainWaitersInv'
<1> USE QueueTypes DEF TypeOK, TurnsInv, TurnOK, DrainWaitersInv, OnceDraining,
        TurnOrDrain, PrepInv, Preparing, Old
<1>1. ASSUME NEW c \in Command, Refuses(c) PROVE DrainWaitersInv'
  BY <1>1, KeptOne DEF Refuses, FenceRest, Become, Turn, NoTurn, HeadIs
<1>2. ASSUME NEW c \in Command, Holds(c) PROVE DrainWaitersInv'
  BY <1>2, KeptOne DEF Holds, Joins, Become, Fresh, Turn, NoTurn, HeadIs
<1>3. ASSUME NEW c \in Command, Begins(c) PROVE DrainWaitersInv'
  BY <1>3, KeptOne DEF Begins, FenceRest, Become, Fresh, Turn, NoTurn, HeadIs
<1>4. ASSUME NEW c \in Command, Prepares(c) PROVE DrainWaitersInv'
  <2>1. CASE Adds(Turn(c, "drained", 0)) /\ drainWaiters' = drainWaiters
    BY <1>4, <2>1, AddedOne DEF Prepares, Joins, FenceRest, Become, Fresh, Turn, NoTurn, HeadIs
  <2>2. CASE Keeps /\ Joins(drainWaiters, c, drainWaiters')
    BY <1>4, <2>2, KeptOne DEF Prepares, Joins, FenceRest, Become, Fresh, Turn, NoTurn, HeadIs
  <2> QED BY <1>4, <2>1, <2>2 DEF Waits, Prepares
<1>5. ASSUME NEW c \in Command, Settles(c) PROVE DrainWaitersInv'
  BY <1>5 DEF Settles, Woken, FenceRest, Become, Turn, NoTurn, HeadIs
<1>6. ASSUME NEW c \in Command, Rotates(c) PROVE DrainWaitersInv'
  BY <1>6, AddedOne DEF Rotates, Turn, NoTurn, HeadIs
<1>7. ASSUME NEW e \in Evictor, Raises(e) PROVE DrainWaitersInv'
  BY <1>7, AddedOne DEF Raises, Asks, Turn, NoTurn, HeadIs
<1>8. ASSUME NEW e \in Evictor, Queues(e) PROVE DrainWaitersInv'
  BY <1>8, KeptOne DEF Queues, Joins, Asks, Turn, NoTurn, HeadIs
<1>9. ASSUME NEW e \in Evictor, Stops(e) PROVE DrainWaitersInv'
  BY <1>9, KeptOne DEF Stops, Turn, NoTurn, HeadIs
<1>10. ASSUME NEW e \in Evictor, Releases(e) PROVE DrainWaitersInv'
  BY <1>10 DEF Releases, Freed, Leaves, Turn, NoTurn, HeadIs
<1>11. ASSUME NEW e \in Evictor, Acts(e) PROVE DrainWaitersInv'
  BY <1>11, KeptOne DEF Acts, Turn, NoTurn, HeadIs
<1>12. ASSUME NEW p \in Prepare, GivesUp(p) PROVE DrainWaitersInv'
  BY <1>12 DEF GivesUp, Leaves, Woken, Become, FenceRest, Turn, NoTurn, HeadIs
<1>13. ASSUME NEW p \in Prepare, Fences(p) PROVE DrainWaitersInv'
  <2>1. CASE Adds(Turn(p, "drained", 0)) /\ drainWaiters' = drainWaiters
    BY <1>13, <2>1, AddedOne DEF Fences, Joins, FenceRest, Turn, NoTurn, HeadIs
  <2>2. CASE Keeps /\ Joins(drainWaiters, p, drainWaiters')
    BY <1>13, <2>2, KeptOne DEF Fences, Joins, FenceRest, Turn, NoTurn, HeadIs
  <2> QED BY <1>13, <2>1, <2>2 DEF Waits, Fences
<1>14. ASSUME NEW p \in Prepare, Checkpoints(p) PROVE DrainWaitersInv'
  BY <1>14, KeptOne DEF Checkpoints, FenceRest, Turn, NoTurn, HeadIs
<1>15. ASSUME NEW x \in Evictor \union Prepare, Looks(x) PROVE DrainWaitersInv'
  <2>1. CASE Adds(Turn(x, "drained", 0)) /\ drainWaiters' = drainWaiters
    BY <1>15, <2>1, AddedOne DEF Looks, Joins, FenceRest, Turn, NoTurn, HeadIs
  <2>2. CASE Keeps /\ Joins(drainWaiters, x, drainWaiters')
    BY <1>15, <2>2, KeptOne DEF Looks, Joins, FenceRest, Turn, NoTurn, HeadIs
  <2> QED BY <1>15, <2>1, <2>2 DEF Waits, Looks
<1> QED
  BY <1>1, <1>2, <1>3, <1>4, <1>5, <1>6, <1>7, <1>8,
     <1>9, <1>10, <1>11, <1>12, <1>13, <1>14, <1>15 DEF Shape

(* Who waits once at the latch does so when another one has left it.          *)
LEMMA LeavesOnce ==
  ASSUME NEW S, NEW s \in Seq(S), \A j, k \in DOMAIN s : s[j] = s[k] => j = k,
         NEW i \in DOMAIN s, NEW r, Leaves(s, i, r)
  PROVE  \A j, k \in DOMAIN r : r[j] = r[k] => j = k
<1> DEFINE At(j) == IF j < i THEN j ELSE j + 1
<1>1. i \in Nat
  OBVIOUS
<1>2. \A j \in DOMAIN r : j \in Nat /\ At(j) \in DOMAIN s /\ r[j] = s[At(j)]
  BY DEF Leaves
<1>3. \A j, k \in Nat : At(j) = At(k) => j = k
  BY <1>1
<1> HIDE DEF At
<1> QED BY <1>2, <1>3

(* Nobody has two turns.                                                      *)
LEMMA OneTurnKept ==
  ASSUME TypeOK, TurnsInv, OneTurn, OnceFenced, OnceDraining, Shape
  PROVE  OneTurn'
<1>1. CASE Keeps
  BY <1>1, KeptTwo DEF OneTurn, Old
<1>2. ASSUME NEW x \in Evictor \union Command, ServedJoins(x)
      PROVE  OneTurn'
  <2>0. PICK at, n : Adds(Turn(x, at, n)) /\ (NoTurn \/ \E was : HeadIs(x, was))
    BY <1>2 DEF ServedJoins
  <2>1. \A i \in DOMAIN micro', k \in DOMAIN micro : Old(i, k) => micro'[i].who # x
    <3>1. CASE NoTurn
      BY <3>1 DEF NoTurn
    <3>2. CASE \E was : HeadIs(x, was)
      BY <3>2 DEF HeadIs, OneTurn, Old
    <3> QED BY <2>0, <3>1, <3>2
  <2>2. Turn(x, at, n).who = x
    BY DEF Turn
  <2>3. \A i, j \in DOMAIN micro', k, l \in DOMAIN micro :
          Old(i, k) /\ Old(j, l) /\ micro'[i].who = micro'[j].who => k = l
    BY DEF Old, OneTurn
  <2> SUFFICES ASSUME NEW i \in DOMAIN micro', NEW j \in DOMAIN micro',
                      micro'[i].who = micro'[j].who
               PROVE  i = j
    BY DEF OneTurn
  <2> QED BY <2>0, <2>1, <2>2, <2>3, AddedTwo
<1>3. ASSUME NEW c \in Command, Settles(c) PROVE OneTurn'
  BY <1>3 DEF Settles, Woken, Turn, OnceDraining, OneTurn
<1>4. ASSUME NEW p \in Prepare, GivesUp(p) PROVE OneTurn'
  <2>1. PICK i \in DOMAIN drainWaiters, r \in Seq(Evictor \union Prepare) :
          Leaves(drainWaiters, i, r) /\ Woken(r)
    BY <1>4 DEF GivesUp
  <2>2. \A j, k \in DOMAIN r : r[j] = r[k] => j = k
    <3>1. drainWaiters \in Seq(Evictor \union Prepare)
      BY QueueTypes
    <3> QED BY <2>1, <3>1, LeavesOnce DEF OnceDraining
  <2> QED BY <2>1, <2>2 DEF Woken, Turn, OneTurn
<1>5. ASSUME NEW e \in Evictor, Releases(e) PROVE OneTurn'
  <2>1. /\ DOMAIN micro' = DOMAIN fenceWaiters
        /\ \A i \in DOMAIN fenceWaiters : micro'[i].who = fenceWaiters[i]
    BY <1>5 DEF Releases, Freed, Turn
  <2> QED BY <2>1 DEF OnceFenced, OneTurn
<1> QED BY <1>1, <1>2, <1>3, <1>4, <1>5, QueueChanges

(* Nobody waits twice for the fence.                                          *)
LEMMA OnceFencedKept ==
  ASSUME TypeOK, TurnsInv, OnceFenced, TurnOrFence, FenceWaitersInv, Shape
  PROVE  OnceFenced'
<1> USE QueueTypes DEF TypeOK, OnceFenced, TurnOrFence, FenceWaitersInv, Old
<1>1. ASSUME NEW c \in Command, Refuses(c) PROVE OnceFenced'
  BY <1>1 DEF Refuses, FenceRest, Become, Turn, NoTurn, HeadIs
<1>2. ASSUME NEW c \in Command, Holds(c) PROVE OnceFenced'
  BY <1>2 DEF Holds, Joins, Become, Fresh, Turn, NoTurn, HeadIs
<1>3. ASSUME NEW c \in Command, Begins(c) PROVE OnceFenced'
  BY <1>3 DEF Begins, FenceRest, Become, Fresh, Turn, NoTurn, HeadIs
<1>4. ASSUME NEW c \in Command, Prepares(c) PROVE OnceFenced'
  BY <1>4 DEF Prepares, Joins, FenceRest, Become, Fresh, Turn, NoTurn, HeadIs, Waits
<1>5. ASSUME NEW c \in Command, Settles(c) PROVE OnceFenced'
  BY <1>5 DEF Settles, Woken, FenceRest, Become, Turn, NoTurn, HeadIs
<1>6. ASSUME NEW c \in Command, Rotates(c) PROVE OnceFenced'
  BY <1>6 DEF Rotates, Turn, NoTurn, HeadIs
<1>7. ASSUME NEW e \in Evictor, Raises(e) PROVE OnceFenced'
  BY <1>7 DEF Raises, Asks, Turn, NoTurn, HeadIs
<1>8. ASSUME NEW e \in Evictor, Queues(e) PROVE OnceFenced'
  BY <1>8 DEF Queues, Joins, Asks, Turn, NoTurn, HeadIs
<1>9. ASSUME NEW e \in Evictor, Stops(e) PROVE OnceFenced'
  BY <1>9 DEF Stops, Turn, NoTurn, HeadIs
<1>10. ASSUME NEW e \in Evictor, Releases(e) PROVE OnceFenced'
  BY <1>10 DEF Releases, Freed, Leaves, Turn, NoTurn, HeadIs
<1>11. ASSUME NEW e \in Evictor, Acts(e) PROVE OnceFenced'
  BY <1>11 DEF Acts, Turn, NoTurn, HeadIs
<1>12. ASSUME NEW p \in Prepare, GivesUp(p) PROVE OnceFenced'
  BY <1>12 DEF GivesUp, Leaves, Woken, Become, FenceRest, Turn, NoTurn, HeadIs
<1>13. ASSUME NEW p \in Prepare, Fences(p) PROVE OnceFenced'
  BY <1>13 DEF Fences, Joins, FenceRest, Turn, NoTurn, HeadIs, Waits
<1>14. ASSUME NEW p \in Prepare, Checkpoints(p) PROVE OnceFenced'
  BY <1>14 DEF Checkpoints, FenceRest, Turn, NoTurn, HeadIs
<1>15. ASSUME NEW x \in Evictor \union Prepare, Looks(x) PROVE OnceFenced'
  BY <1>15 DEF Looks, Joins, FenceRest, Turn, NoTurn, HeadIs, Waits
<1> QED
  BY <1>1, <1>2, <1>3, <1>4, <1>5, <1>6, <1>7, <1>8,
     <1>9, <1>10, <1>11, <1>12, <1>13, <1>14, <1>15 DEF Shape

(* Nobody waits twice at the latch.                                           *)
LEMMA OnceDrainingKept ==
  ASSUME TypeOK, TurnsInv, OnceDraining, TurnOrDrain, DrainWaitersInv, Shape
  PROVE  OnceDraining'
<1> USE QueueTypes DEF TypeOK, OnceDraining, TurnOrDrain, DrainWaitersInv, Preparing, Old
<1>1. ASSUME NEW c \in Command, Refuses(c) PROVE OnceDraining'
  BY <1>1 DEF Refuses, FenceRest, Become, Turn, NoTurn, HeadIs
<1>2. ASSUME NEW c \in Command, Holds(c) PROVE OnceDraining'
  BY <1>2 DEF Holds, Joins, Become, Fresh, Turn, NoTurn, HeadIs
<1>3. ASSUME NEW c \in Command, Begins(c) PROVE OnceDraining'
  BY <1>3 DEF Begins, FenceRest, Become, Fresh, Turn, NoTurn, HeadIs
<1>4. ASSUME NEW c \in Command, Prepares(c) PROVE OnceDraining'
  BY <1>4 DEF Prepares, Joins, FenceRest, Become, Fresh, Turn, NoTurn, HeadIs, Waits
<1>5. ASSUME NEW c \in Command, Settles(c) PROVE OnceDraining'
  BY <1>5 DEF Settles, Woken, FenceRest, Become, Turn, NoTurn, HeadIs
<1>6. ASSUME NEW c \in Command, Rotates(c) PROVE OnceDraining'
  BY <1>6 DEF Rotates, Turn, NoTurn, HeadIs
<1>7. ASSUME NEW e \in Evictor, Raises(e) PROVE OnceDraining'
  BY <1>7 DEF Raises, Asks, Turn, NoTurn, HeadIs
<1>8. ASSUME NEW e \in Evictor, Queues(e) PROVE OnceDraining'
  BY <1>8 DEF Queues, Joins, Asks, Turn, NoTurn, HeadIs
<1>9. ASSUME NEW e \in Evictor, Stops(e) PROVE OnceDraining'
  BY <1>9 DEF Stops, Turn, NoTurn, HeadIs
<1>10. ASSUME NEW e \in Evictor, Releases(e) PROVE OnceDraining'
  <2>1. ASSUME NEW i \in DOMAIN drainWaiters, Leaves(drainWaiters, i, drainWaiters')
        PROVE  OnceDraining'
    BY <2>1, LeavesOnce
  <2> QED BY <1>10, <2>1 DEF Releases
<1>11. ASSUME NEW e \in Evictor, Acts(e) PROVE OnceDraining'
  BY <1>11 DEF Acts, Turn, NoTurn, HeadIs
<1>12. ASSUME NEW p \in Prepare, GivesUp(p) PROVE OnceDraining'
  BY <1>12 DEF GivesUp, Leaves, Woken, Become, FenceRest, Turn, NoTurn, HeadIs
<1>13. ASSUME NEW p \in Prepare, Fences(p) PROVE OnceDraining'
  BY <1>13 DEF Fences, Joins, FenceRest, Turn, NoTurn, HeadIs, Waits
<1>14. ASSUME NEW p \in Prepare, Checkpoints(p) PROVE OnceDraining'
  BY <1>14 DEF Checkpoints, FenceRest, Turn, NoTurn, HeadIs
<1>15. ASSUME NEW x \in Evictor \union Prepare, Looks(x) PROVE OnceDraining'
  BY <1>15 DEF Looks, Joins, FenceRest, Turn, NoTurn, HeadIs, Waits
<1> QED
  BY <1>1, <1>2, <1>3, <1>4, <1>5, <1>6, <1>7, <1>8,
     <1>9, <1>10, <1>11, <1>12, <1>13, <1>14, <1>15 DEF Shape

(* Nobody has a turn who waits for the fence.                                 *)
LEMMA TurnOrFenceKept ==
  ASSUME TypeOK, TurnsInv, TurnOrFence, OneTurn, FenceWaitersInv, DrainWaitersInv, Shape
  PROVE  TurnOrFence'
<1> USE QueueTypes DEF TypeOK, TurnOrFence, OneTurn, FenceWaitersInv, DrainWaitersInv,
        Preparing, Old
<1>1. ASSUME NEW c \in Command, Refuses(c) PROVE TurnOrFence'
  BY <1>1, KeptOne DEF Refuses, FenceRest, Become, Turn, NoTurn, HeadIs
<1>2. ASSUME NEW c \in Command, Holds(c) PROVE TurnOrFence'
  BY <1>2, KeptOne DEF Holds, Joins, Become, Fresh, Turn, NoTurn, HeadIs
<1>3. ASSUME NEW c \in Command, Begins(c) PROVE TurnOrFence'
  BY <1>3, KeptOne DEF Begins, FenceRest, Become, Fresh, Turn, NoTurn, HeadIs
<1>4. ASSUME NEW c \in Command, Prepares(c) PROVE TurnOrFence'
  <2>1. CASE Adds(Turn(c, "drained", 0)) /\ drainWaiters' = drainWaiters
    BY <1>4, <2>1, AddedOne DEF Prepares, Joins, FenceRest, Become, Fresh, Turn, NoTurn, HeadIs
  <2>2. CASE Keeps /\ Joins(drainWaiters, c, drainWaiters')
    BY <1>4, <2>2, KeptOne DEF Prepares, Joins, FenceRest, Become, Fresh, Turn, NoTurn, HeadIs
  <2> QED BY <1>4, <2>1, <2>2 DEF Waits, Prepares
<1>5. ASSUME NEW c \in Command, Settles(c) PROVE TurnOrFence'
  BY <1>5 DEF Settles, Woken, FenceRest, Become, Turn, NoTurn, HeadIs
<1>6. ASSUME NEW c \in Command, Rotates(c) PROVE TurnOrFence'
  <2>1. Adds(Turn(c, "resumed", micro[1].left - 1)) /\ fenceWaiters' = fenceWaiters
    BY <1>6 DEF Rotates
  <2>2. \A j \in DOMAIN fenceWaiters : fenceWaiters[j] # c
    BY <1>6 DEF Rotates, HeadIs
  <2> QED BY <2>1, <2>2, AddedTurn
<1>7. ASSUME NEW e \in Evictor, Raises(e) PROVE TurnOrFence'
  BY <1>7, AddedOne DEF Raises, Asks, Turn, NoTurn, HeadIs
<1>8. ASSUME NEW e \in Evictor, Queues(e) PROVE TurnOrFence'
  BY <1>8, KeptOne DEF Queues, Joins, Asks, Turn, NoTurn, HeadIs
<1>9. ASSUME NEW e \in Evictor, Stops(e) PROVE TurnOrFence'
  BY <1>9, KeptOne DEF Stops, Turn, NoTurn, HeadIs
<1>10. ASSUME NEW e \in Evictor, Releases(e) PROVE TurnOrFence'
  BY <1>10 DEF Releases, Freed, Leaves, Turn, NoTurn, HeadIs
<1>11. ASSUME NEW e \in Evictor, Acts(e) PROVE TurnOrFence'
  BY <1>11, KeptOne DEF Acts, Turn, NoTurn, HeadIs
<1>12. ASSUME NEW p \in Prepare, GivesUp(p) PROVE TurnOrFence'
  BY <1>12 DEF GivesUp, Leaves, Woken, Become, FenceRest, Turn, NoTurn, HeadIs
<1>13. ASSUME NEW p \in Prepare, Fences(p) PROVE TurnOrFence'
  <2>1. CASE Adds(Turn(p, "drained", 0)) /\ drainWaiters' = drainWaiters
    <3>1. \A j \in DOMAIN fenceWaiters : fenceWaiters[j] # p
      BY <1>13 DEF Fences, HeadIs
    <3>2. fenceWaiters' = fenceWaiters
      BY <1>13 DEF Fences, FenceRest
    <3>3. \A i \in DOMAIN micro' : micro'[i].who = p \/ \E k \in DOMAIN micro : Old(i, k)
      BY <2>1, AddedTurn
    <3> QED BY <3>1, <3>2, <3>3
  <2>2. CASE Keeps /\ Joins(drainWaiters, p, drainWaiters')
    BY <1>13, <2>2, KeptOne DEF Fences, Joins, FenceRest, Turn, NoTurn, HeadIs
  <2> QED BY <1>13, <2>1, <2>2 DEF Waits, Fences
<1>14. ASSUME NEW p \in Prepare, Checkpoints(p) PROVE TurnOrFence'
  BY <1>14, KeptOne DEF Checkpoints, FenceRest, Turn, NoTurn, HeadIs
<1>15. ASSUME NEW x \in Evictor \union Prepare, Looks(x) PROVE TurnOrFence'
  <2>1. CASE Adds(Turn(x, "drained", 0)) /\ drainWaiters' = drainWaiters
    <3>1. \A j \in DOMAIN fenceWaiters : fenceWaiters[j] # x
      BY <1>15 DEF Looks, HeadIs
    <3>2. fenceWaiters' = fenceWaiters
      BY <1>15 DEF Looks, FenceRest
    <3>3. \A i \in DOMAIN micro' : micro'[i].who = x \/ \E k \in DOMAIN micro : Old(i, k)
      BY <2>1, AddedTurn
    <3> QED BY <3>1, <3>2, <3>3
  <2>2. CASE Keeps /\ Joins(drainWaiters, x, drainWaiters')
    BY <1>15, <2>2, KeptOne DEF Looks, Joins, FenceRest, Turn, NoTurn, HeadIs
  <2> QED BY <1>15, <2>1, <2>2 DEF Waits, Looks
<1> QED
  BY <1>1, <1>2, <1>3, <1>4, <1>5, <1>6, <1>7, <1>8,
     <1>9, <1>10, <1>11, <1>12, <1>13, <1>14, <1>15 DEF Shape

(* Nobody has a turn who waits at the latch.                                  *)
LEMMA TurnOrDrainKept ==
  ASSUME TypeOK, TurnsInv, TurnOrDrain, OneTurn, FenceWaitersInv, DrainWaitersInv,
         OnceDraining, Shape
  PROVE  TurnOrDrain'
<1> USE QueueTypes DEF TypeOK, TurnOrDrain, OneTurn, FenceWaitersInv, DrainWaitersInv,
        OnceDraining, Preparing, Old
<1>1. ASSUME NEW c \in Command, Refuses(c) PROVE TurnOrDrain'
  BY <1>1, KeptOne DEF Refuses, FenceRest, Become, Turn, NoTurn, HeadIs
<1>2. ASSUME NEW c \in Command, Holds(c) PROVE TurnOrDrain'
  BY <1>2, KeptOne DEF Holds, Joins, Become, Fresh, Turn, NoTurn, HeadIs
<1>3. ASSUME NEW c \in Command, Begins(c) PROVE TurnOrDrain'
  BY <1>3, KeptOne DEF Begins, FenceRest, Become, Fresh, Turn, NoTurn, HeadIs
<1>4. ASSUME NEW c \in Command, Prepares(c) PROVE TurnOrDrain'
  <2>1. CASE Adds(Turn(c, "drained", 0)) /\ drainWaiters' = drainWaiters
    BY <1>4, <2>1, AddedOne DEF Prepares, Joins, FenceRest, Become, Fresh, Turn, NoTurn, HeadIs
  <2>2. CASE Keeps /\ Joins(drainWaiters, c, drainWaiters')
    BY <1>4, <2>2, KeptOne DEF Prepares, Joins, FenceRest, Become, Fresh, Turn, NoTurn, HeadIs
  <2> QED BY <1>4, <2>1, <2>2 DEF Waits, Prepares
<1>5. ASSUME NEW c \in Command, Settles(c) PROVE TurnOrDrain'
  BY <1>5 DEF Settles, Woken, FenceRest, Become, Turn, NoTurn, HeadIs
<1>6. ASSUME NEW c \in Command, Rotates(c) PROVE TurnOrDrain'
  <2>1. Adds(Turn(c, "resumed", micro[1].left - 1)) /\ drainWaiters' = drainWaiters
    BY <1>6 DEF Rotates
  <2>2. \A j \in DOMAIN drainWaiters : drainWaiters[j] # c
    BY <1>6 DEF Rotates, HeadIs
  <2> QED BY <2>1, <2>2, AddedTurn
<1>7. ASSUME NEW e \in Evictor, Raises(e) PROVE TurnOrDrain'
  BY <1>7, AddedOne DEF Raises, Asks, Turn, NoTurn, HeadIs
<1>8. ASSUME NEW e \in Evictor, Queues(e) PROVE TurnOrDrain'
  BY <1>8, KeptOne DEF Queues, Joins, Asks, Turn, NoTurn, HeadIs
<1>9. ASSUME NEW e \in Evictor, Stops(e) PROVE TurnOrDrain'
  BY <1>9, KeptOne DEF Stops, Turn, NoTurn, HeadIs
<1>10. ASSUME NEW e \in Evictor, Releases(e) PROVE TurnOrDrain'
  <2>1. \A j \in DOMAIN drainWaiters' :
          \E k \in DOMAIN drainWaiters : drainWaiters'[j] = drainWaiters[k]
    BY <1>10 DEF Releases, Leaves
  <2>2. \A i \in DOMAIN fenceWaiters, k \in DOMAIN drainWaiters : fenceWaiters[i] # drainWaiters[k]
    <3>1. \A i \in DOMAIN fenceWaiters : fenceWaiters[i] \in Evictor \union Command
      OBVIOUS
    <3>2. \A k \in DOMAIN drainWaiters : drainWaiters[k] \in Evictor \union Prepare
      OBVIOUS
    <3> QED BY <3>1, <3>2
  <2>3. \A i \in DOMAIN micro' : i \in DOMAIN fenceWaiters /\ micro'[i].who = fenceWaiters[i]
    BY <1>10 DEF Releases, Freed, Turn
  <2> QED BY <2>1, <2>2, <2>3
<1>11. ASSUME NEW e \in Evictor, Acts(e) PROVE TurnOrDrain'
  BY <1>11, KeptOne DEF Acts, Turn, NoTurn, HeadIs
<1>12. ASSUME NEW p \in Prepare, GivesUp(p) PROVE TurnOrDrain'
  BY <1>12 DEF GivesUp, Leaves, Woken, Become, FenceRest, Turn, NoTurn, HeadIs
<1>13. ASSUME NEW p \in Prepare, Fences(p) PROVE TurnOrDrain'
  <2>1. CASE Adds(Turn(p, "drained", 0)) /\ drainWaiters' = drainWaiters
    BY <1>13, <2>1, AddedOne DEF Fences, Joins, FenceRest, Turn, NoTurn, HeadIs
  <2>2. CASE Keeps /\ Joins(drainWaiters, p, drainWaiters')
    BY <1>13, <2>2, KeptOne DEF Fences, Joins, FenceRest, Turn, NoTurn, HeadIs
  <2> QED BY <1>13, <2>1, <2>2 DEF Waits, Fences
<1>14. ASSUME NEW p \in Prepare, Checkpoints(p) PROVE TurnOrDrain'
  BY <1>14, KeptOne DEF Checkpoints, FenceRest, Turn, NoTurn, HeadIs
<1>15. ASSUME NEW x \in Evictor \union Prepare, Looks(x) PROVE TurnOrDrain'
  <2>1. CASE Adds(Turn(x, "drained", 0)) /\ drainWaiters' = drainWaiters
    BY <1>15, <2>1, AddedOne DEF Looks, Joins, FenceRest, Turn, NoTurn, HeadIs
  <2>2. CASE Keeps /\ Joins(drainWaiters, x, drainWaiters')
    BY <1>15, <2>2, KeptOne DEF Looks, Joins, FenceRest, Turn, NoTurn, HeadIs
  <2> QED BY <1>15, <2>1, <2>2 DEF Waits, Looks
<1> QED
  BY <1>1, <1>2, <1>3, <1>4, <1>5, <1>6, <1>7, <1>8,
     <1>9, <1>10, <1>11, <1>12, <1>13, <1>14, <1>15 DEF Shape

(* One preparation at a time.                                                 *)
LEMMA PrepKept ==
  ASSUME TypeOK, TurnsInv, DrainWaitersInv, PrepInv, Shape
  PROVE  PrepInv'
<1> USE QueueTypes DEF TypeOK, TurnsInv, TurnOK, DrainWaitersInv, PrepInv, Preparing, Old
<1>1. ASSUME NEW c \in Command, Refuses(c) PROVE PrepInv'
  BY <1>1, KeptOne DEF Refuses, FenceRest, Become, Turn, NoTurn, HeadIs
<1>2. ASSUME NEW c \in Command, Holds(c) PROVE PrepInv'
  BY <1>2, KeptOne DEF Holds, Joins, Become, Fresh, Turn, NoTurn, HeadIs
<1>3. ASSUME NEW c \in Command, Begins(c) PROVE PrepInv'
  BY <1>3, KeptOne DEF Begins, FenceRest, Become, Fresh, Turn, NoTurn, HeadIs
<1>4. ASSUME NEW c \in Command, Prepares(c) PROVE PrepInv'
  <2>1. CASE Adds(Turn(c, "drained", 0)) /\ drainWaiters' = drainWaiters
    BY <1>4, <2>1, AddedOne DEF Prepares, Joins, FenceRest, Become, Fresh, Turn, NoTurn, HeadIs
  <2>2. CASE Keeps /\ Joins(drainWaiters, c, drainWaiters')
    BY <1>4, <2>2, KeptOne DEF Prepares, Joins, FenceRest, Become, Fresh, Turn, NoTurn, HeadIs
  <2> QED BY <1>4, <2>1, <2>2 DEF Waits, Prepares
<1>5. ASSUME NEW c \in Command, Settles(c) PROVE PrepInv'
  BY <1>5 DEF Settles, Woken, FenceRest, Become, Turn, NoTurn, HeadIs
<1>6. ASSUME NEW c \in Command, Rotates(c) PROVE PrepInv'
  BY <1>6, AddedOne DEF Rotates, Turn, NoTurn, HeadIs
<1>7. ASSUME NEW e \in Evictor, Raises(e) PROVE PrepInv'
  BY <1>7, AddedOne DEF Raises, Asks, Turn, NoTurn, HeadIs
<1>8. ASSUME NEW e \in Evictor, Queues(e) PROVE PrepInv'
  BY <1>8, KeptOne DEF Queues, Joins, Asks, Turn, NoTurn, HeadIs
<1>9. ASSUME NEW e \in Evictor, Stops(e) PROVE PrepInv'
  BY <1>9, KeptOne DEF Stops, Turn, NoTurn, HeadIs
<1>10. ASSUME NEW e \in Evictor, Releases(e) PROVE PrepInv'
  BY <1>10 DEF Releases, Freed, Leaves, Turn, NoTurn, HeadIs
<1>11. ASSUME NEW e \in Evictor, Acts(e) PROVE PrepInv'
  BY <1>11, KeptOne DEF Acts, Turn, NoTurn, HeadIs
<1>12. ASSUME NEW p \in Prepare, GivesUp(p) PROVE PrepInv'
  BY <1>12 DEF GivesUp, Leaves, Woken, Become, FenceRest, Turn, NoTurn, HeadIs
<1>13. ASSUME NEW p \in Prepare, Fences(p) PROVE PrepInv'
  <2>1. CASE Adds(Turn(p, "drained", 0)) /\ drainWaiters' = drainWaiters
    BY <1>13, <2>1, AddedOne DEF Fences, Joins, FenceRest, Turn, NoTurn, HeadIs
  <2>2. CASE Keeps /\ Joins(drainWaiters, p, drainWaiters')
    BY <1>13, <2>2, KeptOne DEF Fences, Joins, FenceRest, Turn, NoTurn, HeadIs
  <2> QED BY <1>13, <2>1, <2>2 DEF Waits, Fences
<1>14. ASSUME NEW p \in Prepare, Checkpoints(p) PROVE PrepInv'
  BY <1>14, KeptOne DEF Checkpoints, FenceRest, Turn, NoTurn, HeadIs
<1>15. ASSUME NEW x \in Evictor \union Prepare, Looks(x) PROVE PrepInv'
  <2>1. CASE Adds(Turn(x, "drained", 0)) /\ drainWaiters' = drainWaiters
    BY <1>15, <2>1, AddedOne DEF Looks, Joins, FenceRest, Turn, NoTurn, HeadIs
  <2>2. CASE Keeps /\ Joins(drainWaiters, x, drainWaiters')
    BY <1>15, <2>2, KeptOne DEF Looks, Joins, FenceRest, Turn, NoTurn, HeadIs
  <2> QED BY <1>15, <2>1, <2>2 DEF Waits, Looks
<1> QED
  BY <1>1, <1>2, <1>3, <1>4, <1>5, <1>6, <1>7, <1>8,
     <1>9, <1>10, <1>11, <1>12, <1>13, <1>14, <1>15 DEF Shape

(* An evictor at work has its fence up.                                       *)
LEMMA FenceKept ==
  ASSUME TypeOK, TurnsInv, FenceInv, Shape
  PROVE  FenceInv'
<1> USE QueueTypes DEF TypeOK, TurnsInv, TurnOK, FenceInv, EvictorsExclude, Old
<1>1. ASSUME NEW c \in Command, Refuses(c) PROVE FenceInv'
  BY <1>1 DEF Refuses, FenceRest, Become, Turn, NoTurn, HeadIs
<1>2. ASSUME NEW c \in Command, Holds(c) PROVE FenceInv'
  BY <1>2 DEF Holds, Joins, Become, Fresh, Turn, NoTurn, HeadIs
<1>3. ASSUME NEW c \in Command, Begins(c) PROVE FenceInv'
  BY <1>3 DEF Begins, FenceRest, Become, Fresh, Turn, NoTurn, HeadIs
<1>4. ASSUME NEW c \in Command, Prepares(c) PROVE FenceInv'
  BY <1>4 DEF Prepares, Joins, FenceRest, Become, Fresh, Turn, NoTurn, HeadIs, Waits
<1>5. ASSUME NEW c \in Command, Settles(c) PROVE FenceInv'
  BY <1>5 DEF Settles, Woken, FenceRest, Become, Turn, NoTurn, HeadIs
<1>6. ASSUME NEW c \in Command, Rotates(c) PROVE FenceInv'
  BY <1>6 DEF Rotates, Turn, NoTurn, HeadIs
<1>7. ASSUME NEW e \in Evictor, Raises(e) PROVE FenceInv'
  BY <1>7 DEF Raises, Asks, Turn, NoTurn, HeadIs
<1>8. ASSUME NEW e \in Evictor, Queues(e) PROVE FenceInv'
  BY <1>8 DEF Queues, Joins, Asks, Turn, NoTurn, HeadIs
<1>9. ASSUME NEW e \in Evictor, Stops(e) PROVE FenceInv'
  BY <1>9 DEF Stops, Turn, NoTurn, HeadIs
<1>10. ASSUME NEW e \in Evictor, Releases(e) PROVE FenceInv'
  BY <1>10 DEF Releases, Freed, Leaves, Turn, NoTurn, HeadIs
<1>11. ASSUME NEW e \in Evictor, Acts(e) PROVE FenceInv'
  BY <1>11 DEF Acts, Turn, NoTurn, HeadIs
<1>12. ASSUME NEW p \in Prepare, GivesUp(p) PROVE FenceInv'
  BY <1>12 DEF GivesUp, Leaves, Woken, Become, FenceRest, Turn, NoTurn, HeadIs
<1>13. ASSUME NEW p \in Prepare, Fences(p) PROVE FenceInv'
  BY <1>13 DEF Fences, Joins, FenceRest, Turn, NoTurn, HeadIs, Waits
<1>14. ASSUME NEW p \in Prepare, Checkpoints(p) PROVE FenceInv'
  BY <1>14 DEF Checkpoints, FenceRest, Turn, NoTurn, HeadIs
<1>15. ASSUME NEW x \in Evictor \union Prepare, Looks(x) PROVE FenceInv'
  BY <1>15 DEF Looks, Joins, FenceRest, Turn, NoTurn, HeadIs, Waits
<1> QED
  BY <1>1, <1>2, <1>3, <1>4, <1>5, <1>6, <1>7, <1>8,
     <1>9, <1>10, <1>11, <1>12, <1>13, <1>14, <1>15 DEF Shape

(* No command waits behind one that goes on.                                  *)
LEMMA HeldBehindKept ==
  ASSUME TypeOK, TurnsInv, FenceInv, DrainWaitersInv, PrepInv, HeldBehind, HeldPrepared, Shape
  PROVE  HeldBehind'
<1> USE QueueTypes DEF TypeOK, FenceInv, DrainWaitersInv, PrepInv, HeldBehind, Resumed,
        Refused, Preparing, Old
<1>1. ASSUME NEW c \in Command, Refuses(c) PROVE HeldBehind'
  BY <1>1, KeptOne DEF Refuses, FenceRest, Become, Turn, NoTurn, HeadIs
<1>2. ASSUME NEW c \in Command, Holds(c) PROVE HeldBehind'
  BY <1>2, KeptOne DEF Holds, Joins, Become, Fresh, Turn, NoTurn, HeadIs
<1>3. ASSUME NEW c \in Command, Begins(c) PROVE HeldBehind'
  BY <1>3, KeptOne DEF Begins, FenceRest, Become, Fresh, Turn, NoTurn, HeadIs
<1>4. ASSUME NEW c \in Command, Prepares(c) PROVE HeldBehind'
  <2>1. CASE Adds(Turn(c, "drained", 0)) /\ drainWaiters' = drainWaiters
    BY <1>4, <2>1, AddedOne DEF Prepares, Joins, FenceRest, Become, Fresh, Turn, NoTurn, HeadIs
  <2>2. CASE Keeps /\ Joins(drainWaiters, c, drainWaiters')
    BY <1>4, <2>2, KeptOne DEF Prepares, Joins, FenceRest, Become, Fresh, Turn, NoTurn, HeadIs
  <2> QED BY <1>4, <2>1, <2>2 DEF Waits, Prepares
<1>5. ASSUME NEW c \in Command, Settles(c) PROVE HeldBehind'
  BY <1>5 DEF Settles, Woken, FenceRest, Become, Turn, NoTurn, HeadIs
<1>6. ASSUME NEW c \in Command, Rotates(c) PROVE HeldBehind'
  BY <1>6, AddedOne DEF Rotates, Turn, NoTurn, HeadIs
<1>7. ASSUME NEW e \in Evictor, Raises(e) PROVE HeldBehind'
  BY <1>7, AddedOne DEF Raises, Asks, Turn, NoTurn, HeadIs
<1>8. ASSUME NEW e \in Evictor, Queues(e) PROVE HeldBehind'
  BY <1>8, KeptOne DEF Queues, Joins, Asks, Turn, NoTurn, HeadIs
<1>9. ASSUME NEW e \in Evictor, Stops(e) PROVE HeldBehind'
  BY <1>9, KeptOne DEF Stops, Turn, NoTurn, HeadIs
<1>10. ASSUME NEW e \in Evictor, Releases(e) PROVE HeldBehind'
  BY <1>10 DEF Releases, Freed, Leaves, Turn, NoTurn, HeadIs
<1>11. ASSUME NEW e \in Evictor, Acts(e) PROVE HeldBehind'
  BY <1>11, KeptOne DEF Acts, Turn, NoTurn, HeadIs
<1>12. ASSUME NEW p \in Prepare, GivesUp(p) PROVE HeldBehind'
  BY <1>12 DEF GivesUp, Leaves, Woken, Become, FenceRest, Turn, NoTurn, HeadIs
<1>13. ASSUME NEW p \in Prepare, Fences(p) PROVE HeldBehind'
  <2>1. CASE Adds(Turn(p, "drained", 0)) /\ drainWaiters' = drainWaiters
    BY <1>13, <2>1, AddedOne DEF Fences, Joins, FenceRest, Turn, NoTurn, HeadIs
  <2>2. CASE Keeps /\ Joins(drainWaiters, p, drainWaiters')
    BY <1>13, <2>2, KeptOne DEF Fences, Joins, FenceRest, Turn, NoTurn, HeadIs
  <2> QED BY <1>13, <2>1, <2>2 DEF Waits, Fences
<1>14. ASSUME NEW p \in Prepare, Checkpoints(p) PROVE HeldBehind'
  BY <1>14, KeptOne DEF Checkpoints, FenceRest, Turn, NoTurn, HeadIs
<1>15. ASSUME NEW x \in Evictor \union Prepare, Looks(x) PROVE HeldBehind'
  <2>1. CASE Adds(Turn(x, "drained", 0))
    BY <1>15, <2>1, AddedOne DEF Looks, FenceRest, Turn
  <2>2. CASE Keeps
    BY <1>15, <2>2, KeptOne DEF Looks, FenceRest
  <2> QED BY <1>15, <2>1, <2>2 DEF Waits, Looks
<1> QED
  BY <1>1, <1>2, <1>3, <1>4, <1>5, <1>6, <1>7, <1>8,
     <1>9, <1>10, <1>11, <1>12, <1>13, <1>14, <1>15 DEF Shape

(* What wakes the waiters of the latch resumes nobody, and while a preparation *)
(* drains neither does a release.                                             *)
LEMMA NobodyResumed ==
  ASSUME TypeOK, HeldBehind
  PROVE  /\ (\E c \in Command : Settles(c)) \/ (\E p \in Prepare : GivesUp(p))
              => \A i \in DOMAIN micro' : ~Resumed(i)'
         /\ phase = "draining" /\ (\E e \in Evictor : Releases(e))
              => \A i \in DOMAIN micro' : ~Resumed(i)'
<1>1. ASSUME NEW s, Woken(s) PROVE \A i \in DOMAIN micro' : ~Resumed(i)'
  BY <1>1 DEF Woken, Turn, Resumed
<1>2. ASSUME NEW e \in Evictor, phase = "draining", Releases(e)
      PROVE  \A i \in DOMAIN micro' : ~Resumed(i)'
  <2>1. \A j \in DOMAIN fenceWaiters : fenceWaiters[j] \in Evictor
    BY <1>2 DEF HeldBehind
  <2>2. Freed
    BY <1>2 DEF Releases
  <2> QED BY <2>1, <2>2 DEF Freed, Turn, Resumed
<1>3. \A c \in Command : Settles(c) => Woken(drainWaiters)
  BY DEF Settles
<1>4. \A p \in Prepare : GivesUp(p) => \E q : Woken(q)
  BY DEF GivesUp
<1> QED BY <1>1, <1>2, <1>3, <1>4

(* Only a preparation that begins makes the phase draining.                   *)
LEMMA DrainingBegins ==
  ASSUME Shape, phase' = "draining"
  PROVE  phase = "draining" \/ \E c \in Command : Prepares(c)
<1>1. ASSUME NEW c \in Command,
             Refuses(c) \/ Holds(c) \/ Begins(c) \/ Settles(c) \/ Rotates(c)
      PROVE  phase = "draining"
  BY <1>1 DEF Refuses, Holds, Begins, Settles, Rotates
<1>2. ASSUME NEW e \in Evictor, Raises(e) \/ Queues(e) \/ Stops(e) \/ Releases(e) \/ Acts(e)
      PROVE  phase = "draining"
  BY <1>2 DEF Raises, Queues, Stops, Releases, Acts
<1>3. ASSUME NEW p \in Prepare, GivesUp(p) \/ Fences(p) \/ Checkpoints(p)
      PROVE  phase = "draining"
  BY <1>3 DEF GivesUp, Fences, Checkpoints
<1>4. ASSUME NEW x \in Evictor \union Prepare, Looks(x) PROVE phase = "draining"
  BY <1>4 DEF Looks
<1> QED BY <1>1, <1>2, <1>3, <1>4 DEF Shape

(* A preparation starts behind the last turns of held commands.               *)
LEMMA HeldLastKept ==
  ASSUME TypeOK, TurnsInv, OneTurn, PrepInv, DrainWaitersInv, HeldLast, HeldBehind, LeftInv,
         Shape
  PROVE  HeldLast'
<1>1. ASSUME NEW c \in Command, Prepares(c) PROVE HeldLast'
  <2>1. \A k \in DOMAIN micro : 1 < k /\ Resumed(k) => micro[k].left = 0
    <3>1. \A k \in DOMAIN micro : micro[k].left \in Nat
      BY LeftTypes
    <3>2. \A k \in DOMAIN micro : 1 < k /\ Resumed(k) => micro[k].left <= 0
      BY <1>1 DEF Prepares, Fresh, NoTurn, HeadIs, LeftInv, Resumed
    <3> QED BY <3>1, <3>2
  <2>2. CASE Adds(Turn(c, "drained", 0))
    BY <2>1, <2>2, AddedTurn DEF HeldLast, Resumed, Old
  <2>3. CASE Keeps
    BY <2>1, <2>3, KeptOne DEF HeldLast, Resumed, Old
  <2> QED BY <1>1, <2>2, <2>3 DEF Waits, Prepares
<1>2. CASE phase = "draining"
  <2>1. CASE Keeps
    BY <1>2, <2>1, KeptOne DEF HeldLast, Resumed, Old
  <2>2. ASSUME NEW x \in Evictor \union Command, ServedJoins(x)
        PROVE  HeldLast'
    <3>0. PICK at, n : Adds(Turn(x, at, n)) /\ (at = "resumed" => Rotates(x))
      BY <2>2 DEF ServedJoins
    <3>1. ~Rotates(x)
      BY <1>2, LeftTypes DEF Rotates, HeadIs, HeldLast, Resumed
    <3> QED BY <1>2, <3>0, <3>1, AddedTurn DEF HeldLast, Resumed, Old
  <2>3. (\E c \in Command : Settles(c)) \/ (\E p \in Prepare : GivesUp(p)) => HeldLast'
    BY NobodyResumed DEF HeldLast
  <2>4. ASSUME NEW e \in Evictor, Releases(e) PROVE HeldLast'
    BY <1>2, <2>4, NobodyResumed DEF HeldLast
  <2> QED BY <2>1, <2>2, <2>3, <2>4, QueueChanges
<1>3. phase' = "draining" => phase = "draining" \/ \E c \in Command : Prepares(c)
  BY DrainingBegins
<1> QED BY <1>1, <1>2, <1>3 DEF HeldLast

(* A preparation waits behind the commands that go on.                        *)
LEMMA HeldBeforeKept ==
  ASSUME TypeOK, TurnsInv, OneTurn, PrepInv, HeldLast, HeldBefore, HeldBehind, Shape
  PROVE  HeldBefore'
<1>1. ASSUME NEW c \in Command, Prepares(c) PROVE HeldBefore'
  <2>1. \A k \in DOMAIN micro : ~PrepareTurn(k)
    BY <1>1, QueueTypes DEF Prepares, TurnsInv, TurnOK, Preparing, PrepareTurn
  <2>2. \A j \in DOMAIN micro', l \in DOMAIN micro : Old(j, l) => ~PrepareTurn(j)'
    BY <2>1 DEF PrepareTurn, Old
  <2>3. CASE Adds(Turn(c, "drained", 0))
    <3>1. Turn(c, "drained", 0).at # "resumed"
      BY DEF Turn
    <3>2. \A i \in DOMAIN micro' : Resumed(i)' => micro'[i] # Turn(c, "drained", 0)
      BY <3>1 DEF Resumed
    <3> QED BY <2>2, <2>3, <3>2, AddedTwo DEF HeldBefore
  <2>4. CASE Keeps
    BY <2>2, <2>4, KeptOne DEF HeldBefore
  <2> QED BY <1>1, <2>3, <2>4 DEF Waits, Prepares
<1>2. CASE phase = "draining"
  <2>0. \A i, j \in DOMAIN micro', k, l \in DOMAIN micro :
          Old(i, k) /\ Old(j, l) /\ Resumed(i)' /\ PrepareTurn(j)' => k < l
    BY <1>2 DEF HeldBefore, Resumed, PrepareTurn, Old
  <2>1. CASE Keeps
    BY <2>0, <2>1, KeptTwo DEF HeldBefore
  <2>2. ASSUME NEW x \in Evictor \union Command, ServedJoins(x)
        PROVE  HeldBefore'
    <3>0. PICK at, n : Adds(Turn(x, at, n)) /\ (at = "resumed" => Rotates(x))
      BY <2>2 DEF ServedJoins
    <3>1. ~Rotates(x)
      BY <1>2, LeftTypes DEF Rotates, HeadIs, HeldLast, Resumed
    <3>2. Turn(x, at, n).at # "resumed"
      BY <3>0, <3>1 DEF Turn
    <3>3. \A i \in DOMAIN micro' : Resumed(i)' => micro'[i] # Turn(x, at, n)
      BY <3>2 DEF Resumed
    <3> QED BY <2>0, <3>0, <3>3, AddedTwo DEF HeldBefore
  <2>3. (\E c \in Command : Settles(c)) \/ (\E p \in Prepare : GivesUp(p)) => HeldBefore'
    BY NobodyResumed DEF HeldBefore
  <2>4. ASSUME NEW e \in Evictor, Releases(e) PROVE HeldBefore'
    BY <1>2, <2>4, NobodyResumed DEF HeldBefore
  <2> QED BY <2>1, <2>2, <2>3, <2>4, QueueChanges
<1>3. phase' = "draining" => phase = "draining" \/ \E c \in Command : Prepares(c)
  BY DrainingBegins
<1> QED BY <1>1, <1>2, <1>3 DEF HeldBefore

(* No held command goes on behind the second drain.                           *)
LEMMA HeldFencingKept ==
  ASSUME TypeOK, TurnsInv, HeldBefore, HeldFencing, HeldBehind, PrepInv, Shape
  PROVE  HeldFencing'
<1> USE QueueTypes DEF TypeOK, HeldBefore, HeldFencing, HeldBehind, Resumed,
        PrepareTurn, PrepInv, Old
<1>1. ASSUME NEW c \in Command, Refuses(c) PROVE HeldFencing'
  BY <1>1, KeptOne DEF Refuses, FenceRest, Become, Turn, NoTurn, HeadIs
<1>2. ASSUME NEW c \in Command, Holds(c) PROVE HeldFencing'
  BY <1>2, KeptOne DEF Holds, Joins, Become, Fresh, Turn, NoTurn, HeadIs
<1>3. ASSUME NEW c \in Command, Begins(c) PROVE HeldFencing'
  BY <1>3, KeptOne DEF Begins, FenceRest, Become, Fresh, Turn, NoTurn, HeadIs
<1>4. ASSUME NEW c \in Command, Prepares(c) PROVE HeldFencing'
  <2>1. CASE Adds(Turn(c, "drained", 0)) /\ drainWaiters' = drainWaiters
    BY <1>4, <2>1, AddedOne DEF Prepares, Joins, FenceRest, Become, Fresh, Turn, NoTurn, HeadIs
  <2>2. CASE Keeps /\ Joins(drainWaiters, c, drainWaiters')
    BY <1>4, <2>2, KeptOne DEF Prepares, Joins, FenceRest, Become, Fresh, Turn, NoTurn, HeadIs
  <2> QED BY <1>4, <2>1, <2>2 DEF Waits, Prepares
<1>5. ASSUME NEW c \in Command, Settles(c) PROVE HeldFencing'
  BY <1>5 DEF Settles, Woken, FenceRest, Become, Turn, NoTurn, HeadIs
<1>6. ASSUME NEW c \in Command, Rotates(c) PROVE HeldFencing'
  BY <1>6, AddedOne DEF Rotates, Turn, NoTurn, HeadIs
<1>7. ASSUME NEW e \in Evictor, Raises(e) PROVE HeldFencing'
  BY <1>7, AddedOne DEF Raises, Asks, Turn, NoTurn, HeadIs
<1>8. ASSUME NEW e \in Evictor, Queues(e) PROVE HeldFencing'
  BY <1>8, KeptOne DEF Queues, Joins, Asks, Turn, NoTurn, HeadIs
<1>9. ASSUME NEW e \in Evictor, Stops(e) PROVE HeldFencing'
  BY <1>9, KeptOne DEF Stops, Turn, NoTurn, HeadIs
<1>10. ASSUME NEW e \in Evictor, Releases(e) PROVE HeldFencing'
  BY <1>10 DEF Releases, Freed, Leaves, Turn, NoTurn, HeadIs
<1>11. ASSUME NEW e \in Evictor, Acts(e) PROVE HeldFencing'
  BY <1>11, KeptOne DEF Acts, Turn, NoTurn, HeadIs
<1>12. ASSUME NEW p \in Prepare, GivesUp(p) PROVE HeldFencing'
  BY <1>12 DEF GivesUp, Leaves, Woken, Become, FenceRest, Turn, NoTurn, HeadIs
<1>13. ASSUME NEW p \in Prepare, Fences(p) PROVE HeldFencing'
  <2>1. CASE Adds(Turn(p, "drained", 0)) /\ drainWaiters' = drainWaiters
    BY <1>13, <2>1, AddedOne DEF Fences, Joins, FenceRest, Turn, NoTurn, HeadIs
  <2>2. CASE Keeps /\ Joins(drainWaiters, p, drainWaiters')
    BY <1>13, <2>2, KeptOne DEF Fences, Joins, FenceRest, Turn, NoTurn, HeadIs
  <2> QED BY <1>13, <2>1, <2>2 DEF Waits, Fences
<1>14. ASSUME NEW p \in Prepare, Checkpoints(p) PROVE HeldFencing'
  BY <1>14, KeptOne DEF Checkpoints, FenceRest, Turn, NoTurn, HeadIs
<1>15. ASSUME NEW x \in Evictor \union Prepare, Looks(x) PROVE HeldFencing'
  <2>1. CASE Adds(Turn(x, "drained", 0)) /\ drainWaiters' = drainWaiters
    BY <1>15, <2>1, AddedOne DEF Looks, Joins, FenceRest, Turn, NoTurn, HeadIs
  <2>2. CASE Keeps /\ Joins(drainWaiters, x, drainWaiters')
    BY <1>15, <2>2, KeptOne DEF Looks, Joins, FenceRest, Turn, NoTurn, HeadIs
  <2> QED BY <1>15, <2>1, <2>2 DEF Waits, Looks
<1> QED
  BY <1>1, <1>2, <1>3, <1>4, <1>5, <1>6, <1>7, <1>8,
     <1>9, <1>10, <1>11, <1>12, <1>13, <1>14, <1>15 DEF Shape

(* After the checkpoint only a shutdown goes on.                              *)
LEMMA HeldPreparedKept ==
  ASSUME TypeOK, TurnsInv, HeldPrepared, HeldBehind, PrepInv, DrainWaitersInv, Shape
  PROVE  HeldPrepared'
<1> USE QueueTypes DEF TypeOK, HeldPrepared, HeldBehind, Resumed, Refused, PrepInv,
        DrainWaitersInv, Preparing, Old
<1>1. ASSUME NEW c \in Command, Refuses(c) PROVE HeldPrepared'
  BY <1>1, KeptOne DEF Refuses, FenceRest, Become, Turn, NoTurn, HeadIs
<1>2. ASSUME NEW c \in Command, Holds(c) PROVE HeldPrepared'
  BY <1>2, KeptOne DEF Holds, Joins, Become, Fresh, Turn, NoTurn, HeadIs
<1>3. ASSUME NEW c \in Command, Begins(c) PROVE HeldPrepared'
  BY <1>3, KeptOne DEF Begins, FenceRest, Become, Fresh, Turn, NoTurn, HeadIs
<1>4. ASSUME NEW c \in Command, Prepares(c) PROVE HeldPrepared'
  <2>1. CASE Adds(Turn(c, "drained", 0)) /\ drainWaiters' = drainWaiters
    BY <1>4, <2>1, AddedOne DEF Prepares, Joins, FenceRest, Become, Fresh, Turn, NoTurn, HeadIs
  <2>2. CASE Keeps /\ Joins(drainWaiters, c, drainWaiters')
    BY <1>4, <2>2, KeptOne DEF Prepares, Joins, FenceRest, Become, Fresh, Turn, NoTurn, HeadIs
  <2> QED BY <1>4, <2>1, <2>2 DEF Waits, Prepares
<1>5. ASSUME NEW c \in Command, Settles(c) PROVE HeldPrepared'
  BY <1>5 DEF Settles, Woken, FenceRest, Become, Turn, NoTurn, HeadIs
<1>6. ASSUME NEW c \in Command, Rotates(c) PROVE HeldPrepared'
  BY <1>6, AddedOne DEF Rotates, Turn, NoTurn, HeadIs
<1>7. ASSUME NEW e \in Evictor, Raises(e) PROVE HeldPrepared'
  BY <1>7, AddedOne DEF Raises, Asks, Turn, NoTurn, HeadIs
<1>8. ASSUME NEW e \in Evictor, Queues(e) PROVE HeldPrepared'
  BY <1>8, KeptOne DEF Queues, Joins, Asks, Turn, NoTurn, HeadIs
<1>9. ASSUME NEW e \in Evictor, Stops(e) PROVE HeldPrepared'
  BY <1>9, KeptOne DEF Stops, Turn, NoTurn, HeadIs
<1>10. ASSUME NEW e \in Evictor, Releases(e) PROVE HeldPrepared'
  BY <1>10 DEF Releases, Freed, Leaves, Turn, NoTurn, HeadIs
<1>11. ASSUME NEW e \in Evictor, Acts(e) PROVE HeldPrepared'
  BY <1>11, KeptOne DEF Acts, Turn, NoTurn, HeadIs
<1>12. ASSUME NEW p \in Prepare, GivesUp(p) PROVE HeldPrepared'
  BY <1>12 DEF GivesUp, Leaves, Woken, Become, FenceRest, Turn, NoTurn, HeadIs
<1>13. ASSUME NEW p \in Prepare, Fences(p) PROVE HeldPrepared'
  <2>1. CASE Adds(Turn(p, "drained", 0)) /\ drainWaiters' = drainWaiters
    BY <1>13, <2>1, AddedOne DEF Fences, Joins, FenceRest, Turn, NoTurn, HeadIs
  <2>2. CASE Keeps /\ Joins(drainWaiters, p, drainWaiters')
    BY <1>13, <2>2, KeptOne DEF Fences, Joins, FenceRest, Turn, NoTurn, HeadIs
  <2> QED BY <1>13, <2>1, <2>2 DEF Waits, Fences
<1>14. ASSUME NEW p \in Prepare, Checkpoints(p) PROVE HeldPrepared'
  BY <1>14, KeptOne DEF Checkpoints, FenceRest, Turn, NoTurn, HeadIs
<1>15. ASSUME NEW x \in Evictor \union Prepare, Looks(x) PROVE HeldPrepared'
  <2>1. CASE Adds(Turn(x, "drained", 0)) /\ drainWaiters' = drainWaiters
    BY <1>15, <2>1, AddedOne DEF Looks, Joins, FenceRest, Turn, NoTurn, HeadIs
  <2>2. CASE Keeps /\ Joins(drainWaiters, x, drainWaiters')
    BY <1>15, <2>2, KeptOne DEF Looks, Joins, FenceRest, Turn, NoTurn, HeadIs
  <2> QED BY <1>15, <2>1, <2>2 DEF Waits, Looks
<1> QED
  BY <1>1, <1>2, <1>3, <1>4, <1>5, <1>6, <1>7, <1>8,
     <1>9, <1>10, <1>11, <1>12, <1>13, <1>14, <1>15 DEF Shape

(* Held commands go on in step.                                               *)
LEMMA LeftKept ==
  ASSUME TypeOK, LeftInv, Shape
  PROVE  LeftInv'
<1> USE QueueTypes DEF TypeOK, LeftInv, Resumed, OwnershipTurns, Old
<1>1. ASSUME NEW c \in Command, Refuses(c) PROVE LeftInv'
  BY <1>1, KeptTwo DEF Refuses, FenceRest, Become, Turn, NoTurn, HeadIs
<1>2. ASSUME NEW c \in Command, Holds(c) PROVE LeftInv'
  BY <1>2, KeptTwo DEF Holds, Joins, Become, Fresh, Turn, NoTurn, HeadIs
<1>3. ASSUME NEW c \in Command, Begins(c) PROVE LeftInv'
  BY <1>3, KeptTwo DEF Begins, FenceRest, Become, Fresh, Turn, NoTurn, HeadIs
<1>4. ASSUME NEW c \in Command, Prepares(c) PROVE LeftInv'
  <2>1. CASE Adds(Turn(c, "drained", 0)) /\ drainWaiters' = drainWaiters
    BY <1>4, <2>1, AddedTwo DEF Prepares, Joins, FenceRest, Become, Fresh, Turn, NoTurn, HeadIs
  <2>2. CASE Keeps /\ Joins(drainWaiters, c, drainWaiters')
    BY <1>4, <2>2, KeptTwo DEF Prepares, Joins, FenceRest, Become, Fresh, Turn, NoTurn, HeadIs
  <2> QED BY <1>4, <2>1, <2>2 DEF Waits, Prepares
<1>5. ASSUME NEW c \in Command, Settles(c) PROVE LeftInv'
  BY <1>5 DEF Settles, Woken, FenceRest, Become, Turn, NoTurn, HeadIs
<1>6. ASSUME NEW c \in Command, Rotates(c) PROVE LeftInv'
  <2>1. micro[1].left \in Nat /\ \A k \in DOMAIN micro : micro[k].left \in Nat
    BY <1>6, LeftTypes DEF Rotates, HeadIs
  <2>2. \A k \in DOMAIN micro : 1 < k /\ Resumed(k) =>
          micro[k].left <= micro[1].left /\ micro[1].left <= micro[k].left + 1
    BY <1>6 DEF Rotates, HeadIs
  <2>3. \A k \in DOMAIN micro : 1 < k /\ Resumed(k) =>
          micro[1].left - 1 <= micro[k].left /\ micro[k].left <= (micro[1].left - 1) + 1
    BY <2>1, <2>2
  <2>4. Adds(Turn(c, "resumed", micro[1].left - 1))
    BY <1>6 DEF Rotates
  <2> QED BY <2>3, <2>4, AddedTwo DEF Turn
<1>7. ASSUME NEW e \in Evictor, Raises(e) PROVE LeftInv'
  BY <1>7, AddedTwo DEF Raises, Asks, Turn, NoTurn, HeadIs
<1>8. ASSUME NEW e \in Evictor, Queues(e) PROVE LeftInv'
  BY <1>8, KeptTwo DEF Queues, Joins, Asks, Turn, NoTurn, HeadIs
<1>9. ASSUME NEW e \in Evictor, Stops(e) PROVE LeftInv'
  BY <1>9, KeptTwo DEF Stops, Turn, NoTurn, HeadIs
<1>10. ASSUME NEW e \in Evictor, Releases(e) PROVE LeftInv'
  BY <1>10 DEF Releases, Freed, Leaves, Turn, NoTurn, HeadIs
<1>11. ASSUME NEW e \in Evictor, Acts(e) PROVE LeftInv'
  BY <1>11, KeptTwo DEF Acts, Turn, NoTurn, HeadIs
<1>12. ASSUME NEW p \in Prepare, GivesUp(p) PROVE LeftInv'
  BY <1>12 DEF GivesUp, Leaves, Woken, Become, FenceRest, Turn, NoTurn, HeadIs
<1>13. ASSUME NEW p \in Prepare, Fences(p) PROVE LeftInv'
  <2>1. CASE Adds(Turn(p, "drained", 0)) /\ drainWaiters' = drainWaiters
    BY <1>13, <2>1, AddedTwo DEF Fences, Joins, FenceRest, Turn, NoTurn, HeadIs
  <2>2. CASE Keeps /\ Joins(drainWaiters, p, drainWaiters')
    BY <1>13, <2>2, KeptTwo DEF Fences, Joins, FenceRest, Turn, NoTurn, HeadIs
  <2> QED BY <1>13, <2>1, <2>2 DEF Waits, Fences
<1>14. ASSUME NEW p \in Prepare, Checkpoints(p) PROVE LeftInv'
  BY <1>14, KeptTwo DEF Checkpoints, FenceRest, Turn, NoTurn, HeadIs
<1>15. ASSUME NEW x \in Evictor \union Prepare, Looks(x) PROVE LeftInv'
  <2>1. CASE Adds(Turn(x, "drained", 0)) /\ drainWaiters' = drainWaiters
    BY <1>15, <2>1, AddedTwo DEF Looks, Joins, FenceRest, Turn, NoTurn, HeadIs
  <2>2. CASE Keeps /\ Joins(drainWaiters, x, drainWaiters')
    BY <1>15, <2>2, KeptTwo DEF Looks, Joins, FenceRest, Turn, NoTurn, HeadIs
  <2> QED BY <1>15, <2>1, <2>2 DEF Waits, Looks
<1> QED
  BY <1>1, <1>2, <1>3, <1>4, <1>5, <1>6, <1>7, <1>8,
     <1>9, <1>10, <1>11, <1>12, <1>13, <1>14, <1>15 DEF Shape

(* A worker is stopped only outside a preparation.                            *)
LEMMA StopKept ==
  ASSUME TypeOK, TurnsInv, PrepInv, FenceInv, StopInv, DrainWaitersInv, Shape
  PROVE  StopInv'
<1> USE QueueTypes DEF TypeOK, TurnsInv, TurnOK, PrepInv, FenceInv, EvictorsExclude,
        StopInv, Resumed, Preparing, DrainWaitersInv, Old
<1>1. ASSUME NEW c \in Command, Refuses(c) PROVE StopInv'
  BY <1>1, KeptOne DEF Refuses, FenceRest, Become, Turn, NoTurn, HeadIs
<1>2. ASSUME NEW c \in Command, Holds(c) PROVE StopInv'
  BY <1>2, KeptOne DEF Holds, Joins, Become, Fresh, Turn, NoTurn, HeadIs
<1>3. ASSUME NEW c \in Command, Begins(c) PROVE StopInv'
  BY <1>3, KeptOne DEF Begins, FenceRest, Become, Fresh, Turn, NoTurn, HeadIs
<1>4. ASSUME NEW c \in Command, Prepares(c) PROVE StopInv'
  <2>1. CASE Adds(Turn(c, "drained", 0)) /\ drainWaiters' = drainWaiters
    BY <1>4, <2>1, AddedOne DEF Prepares, Joins, FenceRest, Become, Fresh, Turn, NoTurn, HeadIs
  <2>2. CASE Keeps /\ Joins(drainWaiters, c, drainWaiters')
    BY <1>4, <2>2, KeptOne DEF Prepares, Joins, FenceRest, Become, Fresh, Turn, NoTurn, HeadIs
  <2> QED BY <1>4, <2>1, <2>2 DEF Waits, Prepares
<1>5. ASSUME NEW c \in Command, Settles(c) PROVE StopInv'
  BY <1>5 DEF Settles, Woken, FenceRest, Become, Turn, NoTurn, HeadIs
<1>6. ASSUME NEW c \in Command, Rotates(c) PROVE StopInv'
  BY <1>6, AddedOne DEF Rotates, Turn, NoTurn, HeadIs
<1>7. ASSUME NEW e \in Evictor, Raises(e) PROVE StopInv'
  BY <1>7, AddedOne DEF Raises, Asks, Turn, NoTurn, HeadIs
<1>8. ASSUME NEW e \in Evictor, Queues(e) PROVE StopInv'
  BY <1>8, KeptOne DEF Queues, Joins, Asks, Turn, NoTurn, HeadIs
<1>9. ASSUME NEW e \in Evictor, Stops(e) PROVE StopInv'
  BY <1>9, KeptOne DEF Stops, Turn, NoTurn, HeadIs
<1>10. ASSUME NEW e \in Evictor, Releases(e) PROVE StopInv'
  BY <1>10 DEF Releases, Freed, Leaves, Turn, NoTurn, HeadIs
<1>11. ASSUME NEW e \in Evictor, Acts(e) PROVE StopInv'
  BY <1>11, KeptOne DEF Acts, Turn, NoTurn, HeadIs
<1>12. ASSUME NEW p \in Prepare, GivesUp(p) PROVE StopInv'
  BY <1>12 DEF GivesUp, Leaves, Woken, Become, FenceRest, Turn, NoTurn, HeadIs
<1>13. ASSUME NEW p \in Prepare, Fences(p) PROVE StopInv'
  <2>1. CASE Adds(Turn(p, "drained", 0)) /\ drainWaiters' = drainWaiters
    BY <1>13, <2>1, AddedOne DEF Fences, Joins, FenceRest, Turn, NoTurn, HeadIs
  <2>2. CASE Keeps /\ Joins(drainWaiters, p, drainWaiters')
    BY <1>13, <2>2, KeptOne DEF Fences, Joins, FenceRest, Turn, NoTurn, HeadIs
  <2> QED BY <1>13, <2>1, <2>2 DEF Waits, Fences
<1>14. ASSUME NEW p \in Prepare, Checkpoints(p) PROVE StopInv'
  BY <1>14, KeptOne DEF Checkpoints, FenceRest, Turn, NoTurn, HeadIs
<1>15. ASSUME NEW x \in Evictor \union Prepare, Looks(x) PROVE StopInv'
  <2>1. CASE Adds(Turn(x, "drained", 0)) /\ drainWaiters' = drainWaiters
    BY <1>15, <2>1, AddedOne DEF Looks, Joins, FenceRest, Turn, NoTurn, HeadIs
  <2>2. CASE Keeps /\ Joins(drainWaiters, x, drainWaiters')
    BY <1>15, <2>2, KeptOne DEF Looks, Joins, FenceRest, Turn, NoTurn, HeadIs
  <2> QED BY <1>15, <2>1, <2>2 DEF Waits, Looks
<1> QED
  BY <1>1, <1>2, <1>3, <1>4, <1>5, <1>6, <1>7, <1>8,
     <1>9, <1>10, <1>11, <1>12, <1>13, <1>14, <1>15 DEF Shape

--------------------------------------------------------------------------------
(* Nobody is left at the latch who could go on.                               *)
LEMMA WakeKept ==
  ASSUME TypeOK, TurnsInv, WakeInv, Shape
  PROVE  WakeInv'
<1> USE QueueTypes
<1>1. ASSUME Active(cmd) \subseteq Active(cmd'),
             \A j \in DOMAIN drainWaiters' :
               \E k \in DOMAIN drainWaiters : drainWaiters'[j] = drainWaiters[k]
      PROVE  WakeInv'
  <2>1. Cardinality(Active(cmd)) <= Cardinality(Active(cmd'))
    BY <1>1, MoreActive
  <2>2. Cardinality(Active(cmd)) \in Nat /\ Cardinality(Active(cmd')) \in Nat
        /\ \A x : Remaining(x) \in Nat
    BY ActiveFinite DEF Remaining
  <2> QED BY <1>1, <2>1, <2>2 DEF WakeInv, Remaining
<1>2. ASSUME NEW x \in Evictor \union Prepare, Waits(x), Active(cmd) \subseteq Active(cmd')
      PROVE  WakeInv'
  <2>1. CASE drainWaiters' = drainWaiters
    BY <1>1, <1>2, <2>1
  <2>2. CASE Joins(drainWaiters, x, drainWaiters') /\ ~(Cardinality(Active(cmd')) <= Remaining(x))
    <3>1. Cardinality(Active(cmd)) <= Cardinality(Active(cmd'))
      BY <1>2, MoreActive
    <3>2. Cardinality(Active(cmd)) \in Nat /\ Cardinality(Active(cmd')) \in Nat
          /\ \A y : Remaining(y) \in Nat
      BY ActiveFinite DEF Remaining
    <3>3. \A j \in DOMAIN drainWaiters' :
            \/ drainWaiters'[j] = x
            \/ \E k \in DOMAIN drainWaiters : drainWaiters'[j] = drainWaiters[k]
      BY <2>2 DEF Joins
    <3>4. Cardinality(Active(cmd')) > Remaining(x)
      BY <2>2, <3>2
    <3>5. \A k \in DOMAIN drainWaiters : Cardinality(Active(cmd')) > Remaining(drainWaiters[k])
      BY <3>1, <3>2 DEF WakeInv
    <3> QED BY <3>3, <3>4, <3>5 DEF WakeInv, Remaining
  <2> QED BY <1>2, <2>1, <2>2 DEF Waits
<1>3. ASSUME drainWaiters' = << >> PROVE WakeInv'
  BY <1>3 DEF WakeInv
<1>4. ASSUME NEW c \in Command, Refuses(c) PROVE WakeInv'
  <2>1. cmd[c] # "active"
    BY <1>4 DEF Refuses, HeadIs, TurnsInv, TurnOK
  <2>2. Active(cmd') = Active(cmd) \ {c} /\ c \notin Active(cmd)
    BY <1>4, <2>1, ActiveBecome DEF Refuses, Active
  <2> QED BY <1>1, <1>4, <2>2 DEF Refuses
<1>5. ASSUME NEW c \in Command, Holds(c) PROVE WakeInv'
  <2>1. Active(cmd') = Active(cmd) \ {c} /\ c \notin Active(cmd)
    BY <1>5, ActiveBecome DEF Holds, Fresh, Active
  <2> QED BY <1>1, <1>5, <2>1 DEF Holds
<1>6. ASSUME NEW c \in Command, Begins(c) PROVE WakeInv'
  <2>1. Active(cmd') = Active(cmd) \union {c}
    BY <1>6, ActiveBecome DEF Begins
  <2> QED BY <1>1, <1>6, <2>1 DEF Begins
<1>7. ASSUME NEW c \in Command, Prepares(c) PROVE WakeInv'
  <2>1. Active(cmd') = Active(cmd) \union {c}
    BY <1>7, ActiveBecome DEF Prepares
  <2> QED BY <1>2, <1>7, <2>1 DEF Prepares
<1>8. ASSUME NEW c \in Command, Settles(c) \/ Rotates(c) PROVE WakeInv'
  BY <1>1, <1>3, <1>8 DEF Settles, Rotates, Woken
<1>9. ASSUME NEW e \in Evictor, Raises(e) \/ Queues(e) \/ Stops(e) \/ Acts(e) PROVE WakeInv'
  BY <1>1, <1>9 DEF Raises, Queues, Stops, Acts
<1>10. ASSUME NEW e \in Evictor, Releases(e) PROVE WakeInv'
  <2>1. \A j \in DOMAIN drainWaiters' :
          \E k \in DOMAIN drainWaiters : drainWaiters'[j] = drainWaiters[k]
    BY <1>10 DEF Releases, Leaves
  <2> QED BY <1>1, <1>10, <2>1 DEF Releases
<1>11. ASSUME NEW p \in Prepare, GivesUp(p) \/ Fences(p) \/ Checkpoints(p) PROVE WakeInv'
  BY <1>1, <1>2, <1>3, <1>11 DEF GivesUp, Fences, Checkpoints, Woken
<1>12. ASSUME NEW x \in Evictor \union Prepare, Looks(x) PROVE WakeInv'
  BY <1>2, <1>12 DEF Looks
<1> QED
  BY <1>4, <1>5, <1>6, <1>7, <1>8, <1>9, <1>10, <1>11, <1>12 DEF Shape

(* A preparation whose second drain has returned is the only active command. *)
LEMMA DrainedKept ==
  ASSUME TypeOK, TurnsInv, OneTurn, PrepInv, HeldFencing, DrainedInv, Shape
  PROVE  DrainedInv'
<1> USE QueueTypes
<1> DEFINE D(i) == micro[i].who \in Prepare /\ micro[i].at = "drained"
<1>1. ASSUME NEW x \in Evictor \union Prepare, Waits(x), UNCHANGED << cmd, checkpoint >>,
             \/ HeadIs(x, "drained") /\ x \in Prepare /\ phase = "draining"
             \/ phase' = phase /\ (HeadIs(x, "fenced") \/ HeadIs(x, "drain"))
      PROVE  DrainedInv'
  <2> SUFFICES ASSUME phase' = "fencing", NEW i \in DOMAIN micro', D(i)'
               PROVE  Active(cmd') = {micro'[i].who}
    BY DEF DrainedInv
  <2>1. x \in Prepare => x \in Active(cmd)
    BY <1>1 DEF HeadIs, TurnsInv, TurnOK, Preparing, Active
  <2>2. \A k \in DOMAIN micro : 1 < k /\ D(k) => Active(cmd) = {micro[k].who}
    <3> SUFFICES ASSUME NEW k \in DOMAIN micro, 1 < k, D(k),
                        HeadIs(x, "drained"), x \in Prepare, phase = "draining"
                 PROVE  FALSE
      BY <1>1 DEF DrainedInv
    <3>1. cmd[micro[k].who] = "active" /\ cmd[x] = "active"
      BY DEF HeadIs, TurnsInv, TurnOK, Preparing
    <3>2. micro[k].who = x /\ micro[1].who = x /\ 1 \in DOMAIN micro /\ k # 1
      BY <1>1, <3>1 DEF PrepInv, HeadIs
    <3> QED BY <3>2 DEF OneTurn
  <2>3. CASE \E k \in DOMAIN micro : Old(i, k)
    BY <1>1, <2>2, <2>3 DEF Old
  <2>4. CASE micro'[i] = Turn(x, "drained", 0) /\ Cardinality(Active(cmd')) <= Remaining(x)
    <3>1. micro'[i].who = x /\ x \in Prepare
      BY <2>4, TurnTypes
    <3>2. Remaining(x) = 1
      BY <3>1 DEF Remaining
    <3> QED BY <1>1, <2>1, <2>4, <3>1, <3>2, AloneActive
  <2> QED BY <1>1, <2>3, <2>4, KeptOne, AddedOne DEF Waits
<1>2. ASSUME Keeps, cmd' = cmd, phase' = phase PROVE DrainedInv'
  BY <1>2, KeptOne DEF DrainedInv, Old
<1>3. ASSUME NEW t, Adds(t), t.at # "drained", cmd' = cmd, phase' = phase PROVE DrainedInv'
  BY <1>3, AddedOne DEF DrainedInv, Old
<1>4. ASSUME \A i \in DOMAIN micro' : micro'[i].at # "drained" PROVE DrainedInv'
  BY <1>4 DEF DrainedInv
<1>5. ASSUME NoTurn, Keeps PROVE DrainedInv'
  BY <1>5, KeptOne DEF NoTurn, DrainedInv
<1>6. ASSUME NEW c \in Command, Refuses(c) \/ Holds(c) \/ Begins(c) PROVE DrainedInv'
  <2>1. NoTurn \/ (phase' = phase /\ HeadIs(c, "resumed"))
    BY <1>6 DEF Refuses, Holds, Begins, Fresh
  <2>2. HeadIs(c, "resumed") => phase # "fencing"
    BY DEF HeldFencing, HeadIs, Resumed
  <2> QED BY <1>5, <1>6, <2>1, <2>2 DEF Refuses, Holds, Begins, DrainedInv
<1>7. ASSUME NEW c \in Command, Prepares(c) PROVE DrainedInv'
  BY <1>7 DEF Prepares, DrainedInv
<1>8. ASSUME NEW c \in Command, Settles(c) PROVE DrainedInv'
  BY <1>4, <1>8, TurnTypes DEF Settles, Woken
<1>9. ASSUME NEW c \in Command, Rotates(c) PROVE DrainedInv'
  BY <1>3, <1>9, TurnTypes DEF Rotates
<1>10. ASSUME NEW e \in Evictor, Raises(e) PROVE DrainedInv'
  BY <1>3, <1>10, TurnTypes DEF Raises
<1>11. ASSUME NEW e \in Evictor, Queues(e) \/ Stops(e) \/ Acts(e) PROVE DrainedInv'
  BY <1>2, <1>11 DEF Queues, Stops, Acts
<1>12. ASSUME NEW e \in Evictor, Releases(e) PROVE DrainedInv'
  BY <1>4, <1>12, TurnTypes DEF Releases, Freed
<1>13. ASSUME NEW p \in Prepare, GivesUp(p) PROVE DrainedInv'
  BY <1>13 DEF GivesUp, DrainedInv
<1>14. ASSUME NEW p \in Prepare, Fences(p) PROVE DrainedInv'
  BY <1>1, <1>14 DEF Fences
<1>15. ASSUME NEW p \in Prepare, Checkpoints(p) PROVE DrainedInv'
  BY <1>2, <1>15 DEF Checkpoints
<1>16. ASSUME NEW x \in Evictor \union Prepare, Looks(x) PROVE DrainedInv'
  BY <1>1, <1>16 DEF Looks
<1> QED
  BY <1>6, <1>7, <1>8, <1>9, <1>10, <1>11, <1>12, <1>13, <1>14, <1>15, <1>16 DEF Shape

(* What runs beside a checkpoint and after it.                                *)
LEMMA QuietKept ==
  ASSUME TypeOK, TurnsInv, DrainWaitersInv, PrepInv, HeldFencing, HeldPrepared,
         DrainedInv, CheckpointIsQuiet, Shape
  PROVE  CheckpointIsQuiet'
<1> USE QueueTypes DEF CheckpointIsQuiet
<1>1. checkpoint # None => checkpoint \in Prepare /\ checkpoint \in Active(cmd) /\ phase = "fencing"
  BY DEF PrepInv, TypeOK, Active
<1>2. Prepare \intersect Ledger = {} /\ None \notin Prepare
  BY KindAssumption
<1>3. ASSUME cmd' = cmd, phase' = phase, checkpoint' = checkpoint PROVE CheckpointIsQuiet'
  BY <1>3
<1>4. ASSUME NEW c \in Command, Refuses(c) \/ Holds(c) PROVE CheckpointIsQuiet'
  <2>1. cmd[c] # "active"
    BY <1>4 DEF Refuses, Holds, Fresh, HeadIs, TurnsInv, TurnOK
  <2>2. Active(cmd') = Active(cmd) \ {c} /\ c \notin Active(cmd)
    BY <1>4, <2>1, ActiveBecome DEF Refuses, Holds, Active
  <2> QED BY <1>4, <2>2 DEF Refuses, Holds
<1>5. ASSUME NEW c \in Command, Begins(c) PROVE CheckpointIsQuiet'
  <2>1. Active(cmd') = Active(cmd) \union {c} /\ UNCHANGED << phase, checkpoint >>
    BY <1>5, ActiveBecome DEF Begins
  <2>2. phase = "fencing" => c \in Ledger
    BY <1>5 DEF Begins, Fresh, Refused, HeldFencing, HeadIs, Resumed
  <2>3. phase = "prepared" => c \in Ledger \union Shutdown
    BY <1>5 DEF Begins, Fresh, Refused, HeldPrepared, HeadIs, Resumed
  <2> QED BY <1>1, <2>1, <2>2, <2>3
<1>6. ASSUME NEW c \in Command, Prepares(c) PROVE CheckpointIsQuiet'
  BY <1>1, <1>6 DEF Prepares
<1>7. ASSUME NEW c \in Command, Settles(c) PROVE CheckpointIsQuiet'
  <2>1. Active(cmd') = Active(cmd) \ {c}
    BY <1>7, ActiveBecome DEF Settles
  <2> QED BY <1>1, <1>2, <1>7, <2>1 DEF Settles
<1>8. ASSUME NEW c \in Command, Rotates(c) PROVE CheckpointIsQuiet'
  BY <1>3, <1>8 DEF Rotates
<1>9. ASSUME NEW e \in Evictor, Raises(e) \/ Queues(e) \/ Stops(e) \/ Releases(e) \/ Acts(e)
      PROVE  CheckpointIsQuiet'
  BY <1>3, <1>9 DEF Raises, Queues, Stops, Releases, Acts
<1>10. ASSUME NEW p \in Prepare, GivesUp(p) PROVE CheckpointIsQuiet'
  <2>1. checkpoint = None
    BY <1>10 DEF GivesUp, DrainWaitersInv, Preparing
  <2> QED BY <1>10, <2>1 DEF GivesUp
<1>11. ASSUME NEW p \in Prepare, Fences(p) PROVE CheckpointIsQuiet'
  BY <1>1, <1>11 DEF Fences
<1>12. ASSUME NEW p \in Prepare, Checkpoints(p) PROVE CheckpointIsQuiet'
  <2>1. Active(cmd) = {p}
    BY <1>12 DEF Checkpoints, HeadIs, DrainedInv
  <2> QED BY <1>2, <1>12, <2>1 DEF Checkpoints
<1>13. ASSUME NEW x \in Evictor \union Prepare, Looks(x) PROVE CheckpointIsQuiet'
  BY <1>3, <1>13 DEF Looks
<1> QED
  BY <1>4, <1>5, <1>6, <1>7, <1>8, <1>9, <1>10, <1>11, <1>12, <1>13 DEF Shape

--------------------------------------------------------------------------------
(* The inductive invariant and what follows from it.                          *)
PlacesInv ==
  /\ TurnsInv /\ FenceWaitersInv /\ DrainWaitersInv
  /\ OneTurn /\ OnceFenced /\ OnceDraining /\ TurnOrFence /\ TurnOrDrain
HeldInv == HeldBehind /\ HeldLast /\ HeldBefore /\ HeldFencing /\ HeldPrepared /\ LeftInv
GateInv ==
  /\ TypeOK /\ PlacesInv /\ PrepInv /\ FenceInv /\ HeldInv
  /\ StopInv /\ WakeInv /\ DrainedInv /\ CheckpointIsQuiet

(* It holds when nobody has come yet.                                         *)
LEMMA GateInvInit == Init => GateInv
<1> SUFFICES ASSUME Init PROVE GateInv
  OBVIOUS
<1>1. TypeOK
  BY KindAssumption DEF Init, TypeOK
<1>2. PlacesInv
  BY DEF Init, PlacesInv, TurnsInv, FenceWaitersInv, DrainWaitersInv,
         OneTurn, OnceFenced, OnceDraining, TurnOrFence, TurnOrDrain
<1>3. PrepInv /\ FenceInv /\ StopInv
  BY KindAssumption DEF Init, PrepInv, FenceInv, EvictorsExclude, StopInv, Command
<1>4. HeldInv
  BY DEF Init, HeldInv, HeldBehind, HeldLast, HeldBefore, HeldFencing, HeldPrepared, LeftInv
<1>5. WakeInv /\ DrainedInv /\ CheckpointIsQuiet
  BY DEF Init, WakeInv, DrainedInv, CheckpointIsQuiet
<1> QED BY <1>1, <1>2, <1>3, <1>4, <1>5 DEF GateInv

(* Every step keeps it.                                                       *)
LEMMA GateInvNext == GateInv /\ [Next]_gateVars => GateInv'
<1>1. ASSUME GateInv, Shape PROVE GateInv'
  <2>1. TypeOK' /\ PrepInv' /\ FenceInv' /\ StopInv'
    BY <1>1, TypesKept, PrepKept, FenceKept, StopKept DEF GateInv, PlacesInv
  <2>2. PlacesInv'
    BY <1>1, TurnsKept, FenceWaitersKept, DrainWaitersKept, OneTurnKept, OnceFencedKept,
       OnceDrainingKept, TurnOrFenceKept, TurnOrDrainKept DEF GateInv, PlacesInv
  <2>3. HeldInv'
    BY <1>1, HeldBehindKept, HeldLastKept, HeldBeforeKept, HeldFencingKept, HeldPreparedKept,
       LeftKept DEF GateInv, PlacesInv, HeldInv
  <2>4. WakeInv' /\ DrainedInv' /\ CheckpointIsQuiet'
    BY <1>1, WakeKept, DrainedKept, QuietKept DEF GateInv, PlacesInv, HeldInv
  <2> QED BY <2>1, <2>2, <2>3, <2>4 DEF GateInv
<1>2. ASSUME GateInv, UNCHANGED gateVars PROVE GateInv'
  <2> USE <1>2 DEF GateInv, gateVars
  <2>1. TypeOK' /\ PrepInv' /\ FenceInv' /\ StopInv'
    BY DEF TypeOK, PrepInv, FenceInv, EvictorsExclude, StopInv, Resumed
  <2>2. PlacesInv'
    BY DEF PlacesInv, TurnsInv, TurnOK, Preparing, FenceWaitersInv, DrainWaitersInv,
           OneTurn, OnceFenced, OnceDraining, TurnOrFence, TurnOrDrain
  <2>3. HeldInv'
    BY DEF HeldInv, HeldBehind, HeldLast, HeldBefore, HeldFencing, HeldPrepared, LeftInv,
           Resumed, PrepareTurn
  <2>4. WakeInv' /\ DrainedInv' /\ CheckpointIsQuiet'
    BY DEF WakeInv, DrainedInv, CheckpointIsQuiet
  <2> QED BY <2>1, <2>2, <2>3, <2>4 DEF GateInv
<1>3. ASSUME GateInv, Next PROVE Shape
  BY <1>3, StepShape DEF GateInv, PlacesInv
<1> QED BY <1>1, <1>2, <1>3

(* It holds in every reachable state.                                         *)
LEMMA GateInvariant == Spec => []GateInv
  BY GateInvInit, GateInvNext, PTL DEF Spec

(* Commands, evictors, waiters and turns are well typed, however many there   *)
(* are and in whichever order their turns come.                               *)
THEOREM GateTypes == Spec => []TypeOK
<1>1. GateInv => TypeOK
  BY DEF GateInv
<1> QED BY <1>1, GateInvariant, PTL

(* Of any number of evictors that one release resumes, one takes the fence    *)
(* (acquireIdleEvictionFence looks again).                                    *)
THEOREM OneEvictorActs == Spec => []EvictorsExclude
<1>1. GateInv => EvictorsExclude
  BY DEF GateInv, FenceInv
<1> QED BY <1>1, GateInvariant, PTL

(* No command that a fence held, and none that was admitted while the         *)
(* preparation drained, runs beside the workers' checkpoint or after it       *)
(* (prepare_update_restart).                                                  *)
THEOREM CheckpointsAreQuiet == Spec => []CheckpointIsQuiet
<1>1. GateInv => CheckpointIsQuiet
  BY DEF GateInv
<1> QED BY <1>1, GateInvariant, PTL

(* No eviction stops a worker while the workers checkpoint.                   *)
THEOREM CheckpointsKeepWorkers == Spec => []NoStopDuringCheckpoint
<1>1. GateInv => NoStopDuringCheckpoint
  BY DEF GateInv, PrepInv, StopInv, NoStopDuringCheckpoint
<1> QED BY <1>1, GateInvariant, PTL

(* end() resumes everyone who waits at the latch: nobody stays there when     *)
(* what it waits for is true.                                                 *)
THEOREM NobodySleeps == Spec => []NoLostWakeup
<1>1. GateInv => NoLostWakeup
  BY DEF GateInv, WakeInv, NoLostWakeup
<1> QED BY <1>1, GateInvariant, PTL
=============================================================================
