--------------------------- MODULE OwnershipProofs ---------------------------
(***************************************************************************)
(* Proofs about SupervisorOwnership, for any sets of supervisors and       *)
(* stoppers and any number of stalls, crashes and expired leases: types,   *)
(* one owner at a time, and a shutdown admission that stands.              *)
(***************************************************************************)
EXTENDS SupervisorOwnership, TLAPS

(* The threads of the processes are distinct, and none is NoThread.      *)
LEMMA ThreadFacts ==
  /\ \A p \in Procs : Main(p) \in Threads /\ Main(p)[1] = p /\ Main(p) # NoThread
  /\ \A k \in Stoppers : Renew(k) \in Threads /\ Renew(k)[1] = k /\ Renew(k) # NoThread
  /\ \A p, q \in Procs : Main(p) = Main(q) => p = q
  /\ \A j, k \in Stoppers : Renew(j) = Renew(k) => j = k
  /\ \A p, q \in Procs : Main(p) # Renew(q)
  /\ \A t \in Threads : t[1] \in Procs /\ t # NoThread
  /\ \A t \in Threads : t = Main(t[1]) \/ (t[1] \in Stoppers /\ t = Renew(t[1]))
  BY DEF Threads, Procs, Main, Renew, NoThread

(* Supervisors and stoppers are distinct processes, and none is Nobody.  *)
LEMMA ProcFacts ==
  /\ Supervisors \subseteq Procs /\ Stoppers \subseteq Procs
  /\ \A s \in Supervisors : s \notin Stoppers /\ s # Nobody
  /\ \A k \in Stoppers : k \notin Supervisors /\ k # Nobody
  /\ \A p \in Procs : p \in Supervisors \/ p \in Stoppers
  BY OwnershipConstants DEF Procs

(* Records on disk are told apart from their absence.                    *)
LEMMA RecordFacts ==
  /\ NoAdmission \notin Stoppers \X BOOLEAN
  /\ NoFence \notin Supervisors \X Stoppers
  /\ \A a \in Stoppers \X BOOLEAN : a = <<a[1], a[2]>> /\ a[1] \in Stoppers /\ a[2] \in BOOLEAN
  /\ \A k \in Stoppers, b \in BOOLEAN :
       <<k, b>> \in Stoppers \X BOOLEAN /\ <<k, b>>[1] = k /\ <<k, b>>[2] = b
  BY DEF NoAdmission, NoFence

(* The places of the two flows of control.                               *)
LEMMA FlowFacts ==
  /\ {"fence", "clear", "acquire", "owner", "failed", "release", "released", "dead"} \subseteq SupervisorFlow
  /\ {"new", "admit", "held", "persist", "check", "fence", "clear",
      "recheck", "stopping", "withdraw", "done", "refused", "dead"} \subseteq StopperFlow
  BY DEF SupervisorFlow, StopperFlow

--------------------------------------------------------------------------------
(* Types.  PersistWrite puts the supervisor the coordinator is connected *)
(* to into the fence, so there must be one.                              *)
PcOK ==
  /\ pc \in [Procs -> SupervisorFlow \cup StopperFlow]
  /\ \A s \in Supervisors : pc[s] \in SupervisorFlow
  /\ \A k \in Stoppers : pc[k] \in StopperFlow
StepOK == step \in [Threads -> {"idle", "wait", "in", "mid", "out"}]
SeenOK == seen \in [Threads -> {"none", "go", "no", "gone"}]
GuardOK == guard \in Threads \cup {NoThread}
FilesOK ==
  /\ dirs \subseteq Supervisors
  /\ admission \in (Stoppers \X BOOLEAN) \cup {NoAdmission}
  /\ fence \in (Supervisors \X Stoppers) \cup {NoFence}
FlowOK ==
  /\ fenceSeen \in [Procs -> (Supervisors \X Stoppers) \cup {NoFence}]
  /\ target \in [Stoppers -> Supervisors \cup {Nobody}]
FaultsOK == faults \in 0 .. MaxFaults
OtherOK ==
  /\ lost \in [Stoppers -> BOOLEAN] /\ stolen \in BOOLEAN
  /\ started \in [Stoppers -> BOOLEAN] /\ shaken \in [Stoppers -> BOOLEAN]
PersistTarget == \A k \in Stoppers : pc[k] = "persist" => target[k] # Nobody

TypeInv == PcOK /\ StepOK /\ SeenOK /\ GuardOK /\ FilesOK /\ FlowOK
           /\ FaultsOK /\ OtherOK /\ PersistTarget

(* The registry starts empty, every process at its beginning.            *)
LEMMA TypeInvInit == Init => TypeInv
<1> SUFFICES ASSUME Init PROVE TypeInv
  OBVIOUS
<1>1. PcOK /\ PersistTarget
  BY ProcFacts, FlowFacts DEF Init, PcOK, PersistTarget
<1>2. StepOK /\ SeenOK /\ GuardOK
  BY DEF Init, StepOK, SeenOK, GuardOK
<1>3. FilesOK /\ FlowOK
  BY DEF Init, FilesOK, FlowOK
<1>4. FaultsOK
  BY OwnershipConstants DEF Init, FaultsOK
<1>5. OtherOK
  BY DEF Init, OtherOK
<1> QED BY <1>1, <1>2, <1>3, <1>4, <1>5 DEF TypeInv

(* A process moves in its own flow of control.                           *)
LEMMA GotoTypes ==
  ASSUME PcOK, NEW p \in Procs, NEW where, Goto(p, where),
         p \in Supervisors => where \in SupervisorFlow,
         p \in Stoppers => where \in StopperFlow
  PROVE  PcOK' /\ \A k \in Stoppers : k # p => pc'[k] = pc[k]
  BY ProcFacts DEF PcOK, Goto

(* The stages of a guarded action.                                       *)
LEMMA ReadTypes ==
  ASSUME StepOK, SeenOK, NEW t \in Threads, NEW what \in {"none", "go", "no", "gone"}, Read(t, what)
  PROVE  StepOK' /\ SeenOK'
  BY DEF StepOK, SeenOK, Read

(* A write keeps the stages typed.                                       *)
LEMMA WriteTypes ==
  ASSUME StepOK, SeenOK, NEW t \in Threads, Write(t)
  PROVE  StepOK' /\ SeenOK'
  BY DEF StepOK, SeenOK, Write

(* So does the end of a guarded action.                                  *)
LEMMA DoneTypes ==
  ASSUME StepOK, SeenOK, GuardOK, NEW t \in Threads, NEW after \in {"idle", "wait"}, Done(t, after)
  PROVE  StepOK' /\ SeenOK' /\ GuardOK'
  BY DEF StepOK, SeenOK, GuardOK, Done

(* A call moves the process and lets its main flow wait for the guard.   *)
LEMMA CallTypes ==
  ASSUME StepOK, NEW p \in Procs, NEW where, Call(p, where)
  PROVE  StepOK' /\ Goto(p, where)
  BY ThreadFacts DEF StepOK, Call

(* Another thread, another process does not notice.                      *)
Moves(t) ==
  \/ \E what : Read(t, what)
  \/ Write(t)
  \/ \E after : Done(t, after)
  \/ \E stage : step' = [step EXCEPT ![t] = stage] /\ UNCHANGED seen
  \/ UNCHANGED <<step, seen>>

(* What one thread does leaves the stages of the others alone.           *)
LEMMA Elsewhere ==
  ASSUME StepOK, SeenOK, NEW t \in Threads, Moves(t)
  PROVE  \A u \in Threads : u # t => step'[u] = step[u] /\ seen'[u] = seen[u]
  BY DEF StepOK, SeenOK, Moves, Read, Write, Done

(* A process that moves leaves the others where they are.                *)
LEMMA GotoElsewhere ==
  ASSUME PcOK, NEW p \in Procs, (\E where : Goto(p, where)) \/ UNCHANGED pc
  PROVE  \A q \in Procs : q # p => pc'[q] = pc[q]
  BY DEF PcOK, Goto

(* Nothing else that TypeInv speaks of changes.                          *)
LEMMA TypeInvStutter ==
  TypeInv /\ UNCHANGED <<pc, step, seen, guard, files, flow, lost, env, history>> => TypeInv'
  BY DEF files, flow, env, history, TypeInv, PcOK, StepOK, SeenOK, GuardOK, FilesOK, FlowOK,
         FaultsOK, OtherOK, PersistTarget

(* Taking the guard, from nobody, a dead or a stalled holder.            *)
LEMMA LockTypes ==
  ASSUME TypeInv, NEW t \in Threads, Lock(t) PROVE TypeInv'
<1>1. PcOK' /\ SeenOK' /\ FilesOK' /\ FlowOK' /\ PersistTarget'
  BY DEF Lock, files, flow, TypeInv, PcOK, SeenOK, FilesOK, FlowOK, PersistTarget
<1>2. StepOK' /\ GuardOK'
  BY DEF Lock, TypeInv, StepOK, GuardOK
<1>3. FaultsOK'
  BY OwnershipConstants DEF Lock, Fault, env, TypeInv, FaultsOK
<1>4. OtherOK'
  BY DEF Lock, env, history, TypeInv, OtherOK
<1> QED BY <1>1, <1>2, <1>3, <1>4 DEF TypeInv

(* Waiting for the startup fence and clearing it.                        *)
LEMMA FenceTypes ==
  ASSUME TypeInv, NEW p \in Procs,
         PollFence(p) \/ ClearRead(p) \/ ClearWrite(p) \/ ClearEnd(p)
  PROVE  TypeInv'
<1> USE ThreadFacts, ProcFacts, FlowFacts
<1>1. CASE PollFence(p)
  <2>1. PICK where : /\ where \in {"acquire", "recheck", "clear", GiveUp(p)}
                     /\ where = "acquire" => p \in Supervisors
                     /\ where = "recheck" => p \in Stoppers
                     /\ Goto(p, where) /\ StepOK'
    <3>1. CASE fence = NoFence /\ p \in Supervisors
      BY <1>1, <3>1, CallTypes DEF PollFence, TypeInv
    <3>2. CASE fence = NoFence /\ p \notin Supervisors
      BY <1>1, <3>2 DEF PollFence, TypeInv, StepOK
    <3>3. CASE fence # NoFence /\ ~Alive(fence[1])
      BY <1>1, <3>3, CallTypes DEF PollFence, TypeInv
    <3>4. CASE fence # NoFence /\ Alive(fence[1])
      BY <1>1, <3>4 DEF PollFence, GiveUp, TypeInv, StepOK
    <3> QED BY <3>1, <3>2, <3>3, <3>4
  <2>2. PcOK' /\ PersistTarget'
    BY <1>1, <2>1, GotoTypes DEF PollFence, GiveUp, TypeInv, PersistTarget, Goto, PcOK
  <2>3. FlowOK'
    BY <1>1 DEF PollFence, TypeInv, FlowOK, FilesOK
  <2>4. SeenOK' /\ GuardOK' /\ FilesOK' /\ FaultsOK' /\ OtherOK'
    BY <1>1 DEF PollFence, TypeInv, SeenOK, GuardOK, FilesOK, FaultsOK, OtherOK, files, env, history
  <2> QED BY <2>1, <2>2, <2>3, <2>4 DEF TypeInv
<1>2. CASE ClearRead(p)
  <2>1. StepOK' /\ SeenOK'
    BY <1>2, ReadTypes DEF ClearRead, TypeInv
  <2> QED
    BY <1>2, <2>1 DEF ClearRead, TypeInv, PcOK, GuardOK, FilesOK, FlowOK, FaultsOK, OtherOK,
       PersistTarget, files, flow, env, history
<1>3. CASE ClearWrite(p)
  <2>1. StepOK' /\ SeenOK'
    BY <1>3, WriteTypes DEF ClearWrite, TypeInv
  <2> QED
    BY <1>3, <2>1 DEF ClearWrite, TypeInv, PcOK, GuardOK, FilesOK, FlowOK, FaultsOK, OtherOK,
       PersistTarget, flow, env, history
<1>4. CASE ClearEnd(p)
  <2>1. StepOK' /\ SeenOK' /\ GuardOK'
    BY <1>4, DoneTypes DEF ClearEnd, TypeInv
  <2>2. PcOK' /\ PersistTarget'
    BY <1>4, GotoTypes DEF ClearEnd, TypeInv, AfterFence, GiveUp, PersistTarget, Goto, PcOK
  <2>3. FlowOK'
    BY <1>4 DEF ClearEnd, TypeInv, FlowOK
  <2> QED
    BY <1>4, <2>1, <2>2, <2>3 DEF ClearEnd, TypeInv, FilesOK, FaultsOK, OtherOK, files, env, history
<1> QED BY <1>1, <1>2, <1>3, <1>4

(* The end of a process.                                                 *)
LEMMA DieTypes ==
  ASSUME TypeInv, NEW p \in Procs, Die(p) PROVE TypeInv'
<1>1. PcOK' /\ PersistTarget'
  BY GotoTypes, ProcFacts, FlowFacts DEF Die, Forget, TypeInv, PersistTarget, Goto, PcOK, FlowOK
<1>2. StepOK' /\ SeenOK'
  BY DEF Die, Forget, TypeInv, StepOK, SeenOK
<1>3. FlowOK'
  BY DEF Die, Forget, TypeInv, FlowOK
<1>4. FaultsOK'
  BY OwnershipConstants DEF Die, Fault, TypeInv, FaultsOK
<1>5. OtherOK'
  BY DEF Die, Forget, TypeInv, OtherOK
<1> QED
  BY <1>1, <1>2, <1>3, <1>4, <1>5 DEF Die, TypeInv, GuardOK, FilesOK, files

(* The steps of a supervisor.                                            *)
LEMMA SupervisorTypes ==
  ASSUME TypeInv, NEW s \in Supervisors, SupervisorStep(s) PROVE TypeInv'
<1> USE ThreadFacts, ProcFacts, FlowFacts
<1>1. CASE Quit(s)
  <2>1. StepOK' /\ Goto(s, "release")
    BY <1>1, CallTypes DEF Quit, TypeInv
  <2>2. PcOK' /\ PersistTarget'
    BY <1>1, <2>1, GotoTypes DEF Quit, TypeInv, PersistTarget, flow
  <2> QED BY <1>1, <2>1, <2>2 DEF Quit, TypeInv, SeenOK, GuardOK, FilesOK, FlowOK, FaultsOK, OtherOK,
             files, flow, env, history
<1>2. CASE AcquireRead(s)
  <2>1. StepOK' /\ SeenOK'
    BY <1>2, ReadTypes DEF AcquireRead, TypeInv
  <2>2. FilesOK'
    BY <1>2 DEF AcquireRead, TypeInv, FilesOK
  <2> QED BY <1>2, <2>1, <2>2 DEF AcquireRead, TypeInv, PcOK, GuardOK, FlowOK, FaultsOK, OtherOK,
             PersistTarget, flow, env, history
<1>3. CASE AcquireWrite(s)
  <2>1. StepOK' /\ SeenOK'
    BY <1>3, WriteTypes DEF AcquireWrite, TypeInv
  <2>2. FilesOK'
    BY <1>3 DEF AcquireWrite, TypeInv, FilesOK
  <2> QED BY <1>3, <2>1, <2>2 DEF AcquireWrite, TypeInv, PcOK, GuardOK, FlowOK, FaultsOK, OtherOK,
             PersistTarget, flow, env, history
<1>4. CASE AcquireEnd(s)
  <2>1. StepOK' /\ SeenOK' /\ GuardOK'
    BY <1>4, DoneTypes DEF AcquireEnd, TypeInv
  <2>2. PcOK' /\ PersistTarget'
    BY <1>4, GotoTypes DEF AcquireEnd, TypeInv, PersistTarget, flow
  <2>3. OtherOK'
    BY <1>4 DEF AcquireEnd, TypeInv, OtherOK, env
  <2> QED BY <1>4, <2>1, <2>2, <2>3 DEF AcquireEnd, TypeInv, FilesOK, FlowOK, FaultsOK, files, flow, env
<1>5. CASE ReleaseOwner(s)
  <2>1. StepOK' /\ FilesOK'
    BY <1>5 DEF ReleaseOwner, TypeInv, StepOK, FilesOK
  <2> QED BY <1>5, <2>1 DEF ReleaseOwner, TypeInv, PcOK, SeenOK, GuardOK, FlowOK, FaultsOK, OtherOK,
             PersistTarget, flow, env, history
<1>6. CASE ReleaseEnd(s)
  <2>1. StepOK' /\ SeenOK' /\ GuardOK'
    BY <1>6, DoneTypes DEF ReleaseEnd, TypeInv
  <2>2. PcOK' /\ PersistTarget'
    BY <1>6, GotoTypes DEF ReleaseEnd, TypeInv, PersistTarget, flow
  <2> QED BY <1>6, <2>1, <2>2 DEF ReleaseEnd, TypeInv, FilesOK, FlowOK, FaultsOK, OtherOK,
             files, flow, env, history
<1> QED BY <1>1, <1>2, <1>3, <1>4, <1>5, <1>6 DEF SupervisorStep

(* A stopper asks for the shutdown admission.                            *)
LEMMA AdmitTypes ==
  ASSUME TypeInv, NEW k \in Stoppers,
         CallAdmit(k) \/ AdmitRead(k) \/ AdmitWrite(k) \/ AdmitEnd(k)
  PROVE  TypeInv'
<1> USE ThreadFacts, ProcFacts, FlowFacts
<1>1. CASE CallAdmit(k)
  <2>1. StepOK' /\ Goto(k, "admit")
    BY <1>1, CallTypes DEF CallAdmit, TypeInv
  <2>2. PcOK' /\ PersistTarget'
    BY <1>1, <2>1, GotoTypes DEF CallAdmit, TypeInv, PersistTarget, Goto, PcOK, flow
  <2> QED BY <1>1, <2>1, <2>2 DEF CallAdmit, TypeInv, SeenOK, GuardOK, FilesOK, FlowOK, FaultsOK, OtherOK,
             files, flow, env, history
<1>2. CASE AdmitRead(k)
  <2>1. StepOK' /\ SeenOK'
    BY <1>2, ReadTypes DEF AdmitRead, TypeInv
  <2>2. FilesOK'
    BY <1>2 DEF AdmitRead, TypeInv, FilesOK
  <2> QED BY <1>2, <2>1, <2>2 DEF AdmitRead, TypeInv, PcOK, GuardOK, FlowOK, FaultsOK, OtherOK,
             PersistTarget, flow, env, history
<1>3. CASE AdmitWrite(k)
  <2>1. StepOK' /\ SeenOK'
    BY <1>3, WriteTypes DEF AdmitWrite, TypeInv
  <2>2. FilesOK'
    BY <1>3 DEF AdmitWrite, TypeInv, FilesOK
  <2> QED BY <1>3, <2>1, <2>2 DEF AdmitWrite, TypeInv, PcOK, GuardOK, FlowOK, FaultsOK, OtherOK,
             PersistTarget, flow, env, history
<1>4. CASE AdmitEnd(k)
  <2>1. StepOK' /\ SeenOK' /\ GuardOK'
    BY <1>4, DoneTypes DEF AdmitEnd, TypeInv
  <2>2. PcOK' /\ PersistTarget'
    BY <1>4, GotoTypes DEF AdmitEnd, TypeInv, PersistTarget, Goto, PcOK, flow
  <2> QED BY <1>4, <2>1, <2>2 DEF AdmitEnd, TypeInv, FilesOK, FlowOK, FaultsOK, OtherOK,
             files, flow, env, history
<1> QED BY <1>1, <1>2, <1>3, <1>4

(* A coordinator connects and persists the fence of its predecessor.     *)
LEMMA PersistTypes ==
  ASSUME TypeInv, NEW k \in Stoppers,
         Connect(k) \/ PersistRead(k) \/ PersistWrite(k) \/ PersistEnd(k)
  PROVE  TypeInv'
<1> USE ThreadFacts, ProcFacts, FlowFacts
<1>1. CASE Connect(k)
  <2>1. CASE Goto(k, "fence") /\ UNCHANGED <<step, target>>
    <3>1. PcOK' /\ PersistTarget'
      BY <2>1, GotoTypes DEF TypeInv, PersistTarget, Goto, PcOK
    <3> QED BY <1>1, <2>1, <3>1 DEF Connect, TypeInv, StepOK, SeenOK, GuardOK, FilesOK, FlowOK,
               FaultsOK, OtherOK, files, env, history
  <2>2. ASSUME NEW s \in Supervisors, target' = [target EXCEPT ![k] = s], Call(k, "persist")
        PROVE  TypeInv'
    <3>1. StepOK' /\ Goto(k, "persist")
      BY <2>2, CallTypes DEF TypeInv
    <3>2. FlowOK'
      BY <1>1, <2>2 DEF Connect, TypeInv, FlowOK
    <3>3. PcOK' /\ PersistTarget'
      BY <2>2, <3>1, GotoTypes DEF TypeInv, PersistTarget, FlowOK
    <3> QED BY <1>1, <3>1, <3>2, <3>3 DEF Connect, TypeInv, SeenOK, GuardOK, FilesOK,
               FaultsOK, OtherOK, files, env, history
  <2> QED BY <1>1, <2>1, <2>2 DEF Connect
<1>2. CASE PersistRead(k)
  <2>1. StepOK' /\ SeenOK'
    BY <1>2, ReadTypes DEF PersistRead, TypeInv
  <2> QED BY <1>2, <2>1 DEF PersistRead, TypeInv, PcOK, GuardOK, FilesOK, FlowOK, FaultsOK, OtherOK,
             PersistTarget, files, flow, env, history
<1>3. CASE PersistWrite(k)
  <2>1. StepOK' /\ SeenOK'
    BY <1>3, WriteTypes DEF PersistWrite, TypeInv
  <2>2. FilesOK'
    BY <1>3 DEF PersistWrite, TypeInv, FilesOK, FlowOK, PersistTarget
  <2> QED BY <1>3, <2>1, <2>2 DEF PersistWrite, TypeInv, PcOK, GuardOK, FlowOK, FaultsOK, OtherOK,
             PersistTarget, flow, env, history
<1>4. CASE PersistEnd(k)
  <2>1. StepOK' /\ SeenOK' /\ GuardOK'
    BY <1>4, DoneTypes DEF PersistEnd, TypeInv
  <2>2. PcOK' /\ PersistTarget'
    BY <1>4, GotoTypes DEF PersistEnd, TypeInv, PersistTarget, Goto, PcOK, flow
  <2> QED BY <1>4, <2>1, <2>2 DEF PersistEnd, TypeInv, FilesOK, FlowOK, FaultsOK, OtherOK,
             files, flow, env, history
<1> QED BY <1>1, <1>2, <1>3, <1>4

(* The renewals of the admission.                                        *)
LEMMA RenewTypes ==
  ASSUME TypeInv, NEW k \in Stoppers,
         Refuse(k) \/ RenewCall(k) \/ RenewRead(k) \/ RenewWrite(k) \/ RenewEnd(k)
  PROVE  TypeInv'
<1> USE ThreadFacts, ProcFacts, FlowFacts
<1>1. CASE Refuse(k)
  <2>1. PcOK' /\ PersistTarget'
    BY <1>1, GotoTypes DEF Refuse, TypeInv, PersistTarget, Goto, PcOK, flow
  <2> QED BY <1>1, <2>1 DEF Refuse, TypeInv, StepOK, SeenOK, GuardOK, FilesOK, FlowOK, FaultsOK, OtherOK,
             files, flow, env, history
<1>2. CASE RenewCall(k)
  <2>1. StepOK'
    BY <1>2 DEF RenewCall, TypeInv, StepOK
  <2> QED BY <1>2, <2>1 DEF RenewCall, TypeInv, PcOK, SeenOK, GuardOK, FilesOK, FlowOK, FaultsOK, OtherOK,
             PersistTarget, files, flow, env, history
<1>3. CASE RenewRead(k)
  <2>1. StepOK' /\ SeenOK'
    BY <1>3, ReadTypes DEF RenewRead, TypeInv
  <2> QED BY <1>3, <2>1 DEF RenewRead, TypeInv, PcOK, GuardOK, FilesOK, FlowOK, FaultsOK, OtherOK,
             PersistTarget, files, flow, env, history
<1>4. CASE RenewWrite(k)
  <2>1. StepOK' /\ SeenOK'
    BY <1>4, WriteTypes DEF RenewWrite, TypeInv
  <2>2. FilesOK'
    BY <1>4 DEF RenewWrite, TypeInv, FilesOK
  <2> QED BY <1>4, <2>1, <2>2 DEF RenewWrite, TypeInv, PcOK, GuardOK, FlowOK, FaultsOK, OtherOK,
             PersistTarget, flow, env, history
<1>5. CASE RenewEnd(k)
  <2>1. StepOK' /\ SeenOK' /\ GuardOK'
    BY <1>5, DoneTypes DEF RenewEnd, TypeInv
  <2>2. PICK where : /\ Goto(k, where)
                     /\ where \in {pc[k], "fence", "stopping"}
    BY <1>5 DEF RenewEnd, OnSuccess, OnFailure
  <2>3. PcOK' /\ PersistTarget'
    BY <1>5, <2>2, GotoTypes DEF RenewEnd, TypeInv, PersistTarget, Goto, PcOK, flow
  <2>4. OtherOK'
    BY <1>5 DEF RenewEnd, TypeInv, OtherOK, env
  <2> QED BY <1>5, <2>1, <2>3, <2>4 DEF RenewEnd, TypeInv, FilesOK, FlowOK, FaultsOK, files, flow, env
<1> QED BY <1>1, <1>2, <1>3, <1>4, <1>5

(* A stopper leaves and gives the admission back.                        *)
LEMMA WithdrawTypes ==
  ASSUME TypeInv, NEW k \in Stoppers,
         Leave(k) \/ Withdraw(k) \/ WithdrawRead(k) \/ WithdrawWrite(k) \/ WithdrawEnd(k)
  PROVE  TypeInv'
<1> USE ThreadFacts, ProcFacts, FlowFacts
<1>1. CASE Leave(k)
  <2>1. PcOK' /\ PersistTarget'
    BY <1>1, GotoTypes DEF Leave, TypeInv, PersistTarget, Goto, PcOK, flow
  <2> QED BY <1>1, <2>1 DEF Leave, TypeInv, StepOK, SeenOK, GuardOK, FilesOK, FlowOK, FaultsOK, OtherOK,
             files, flow, env, history
<1>2. CASE Withdraw(k)
  <2>1. StepOK' /\ Goto(k, "withdraw")
    BY <1>2, CallTypes DEF Withdraw, TypeInv
  <2>2. FlowOK'
    BY <1>2 DEF Withdraw, TypeInv, FlowOK
  <2>3. PcOK' /\ PersistTarget'
    BY <1>2, <2>1, GotoTypes DEF Withdraw, TypeInv, PersistTarget, Goto, PcOK, FlowOK
  <2>4. OtherOK'
    BY <1>2 DEF Withdraw, TypeInv, OtherOK, env
  <2> QED BY <1>2, <2>1, <2>2, <2>3, <2>4 DEF Withdraw, TypeInv, SeenOK, GuardOK, FilesOK, FaultsOK, files, env
<1>3. CASE WithdrawRead(k)
  <2>1. StepOK' /\ SeenOK'
    BY <1>3, ReadTypes DEF WithdrawRead, TypeInv
  <2> QED BY <1>3, <2>1 DEF WithdrawRead, TypeInv, PcOK, GuardOK, FilesOK, FlowOK, FaultsOK, OtherOK,
             PersistTarget, files, flow, env, history
<1>4. CASE WithdrawWrite(k)
  <2>1. StepOK' /\ SeenOK'
    BY <1>4, WriteTypes DEF WithdrawWrite, TypeInv
  <2> QED BY <1>4, <2>1 DEF WithdrawWrite, TypeInv, PcOK, GuardOK, FilesOK, FlowOK, FaultsOK, OtherOK,
             PersistTarget, flow, env, history
<1>5. CASE WithdrawEnd(k)
  <2>1. StepOK' /\ SeenOK' /\ GuardOK'
    BY <1>5, DoneTypes DEF WithdrawEnd, TypeInv
  <2>2. PcOK' /\ PersistTarget'
    BY <1>5, GotoTypes DEF WithdrawEnd, TypeInv, PersistTarget, Goto, PcOK, flow
  <2>3. OtherOK'
    BY <1>5 DEF WithdrawEnd, TypeInv, OtherOK, env, history
  <2> QED BY <1>5, <2>1, <2>2, <2>3 DEF WithdrawEnd, TypeInv, FilesOK, FlowOK, FaultsOK, files, flow, env
<1> QED BY <1>1, <1>2, <1>3, <1>4, <1>5

(* The lease of the admission runs out.                                  *)
LEMMA ExpireTypes == TypeInv /\ Expire => TypeInv'
<1> SUFFICES ASSUME TypeInv, Expire PROVE TypeInv'
  OBVIOUS
<1>1. FilesOK'
  BY RecordFacts DEF Expire, AdmissionActive, TypeInv, FilesOK
<1>2. FaultsOK'
  BY OwnershipConstants DEF Expire, Fault, TypeInv, FaultsOK
<1> QED
  BY <1>1, <1>2 DEF Expire, TypeInv, PcOK, StepOK, SeenOK, GuardOK, FlowOK, OtherOK, PersistTarget, flow, history

(* Every step keeps the types.                                           *)
LEMMA TypeInvNext == TypeInv /\ [Next]_vars => TypeInv'
<1> SUFFICES ASSUME TypeInv, [Next]_vars PROVE TypeInv'
  OBVIOUS
<1>1. CASE UNCHANGED vars
  BY <1>1, TypeInvStutter DEF vars
<1>2. CASE \E t \in Threads : Lock(t)
  BY <1>2, LockTypes
<1>3. CASE \E p \in Procs : ProcessStep(p)
  BY <1>3, FenceTypes, DieTypes DEF ProcessStep
<1>4. CASE \E s \in Supervisors : SupervisorStep(s)
  BY <1>4, SupervisorTypes
<1>5. CASE \E k \in Stoppers : StopperStep(k)
  BY <1>5, AdmitTypes, PersistTypes, RenewTypes, WithdrawTypes DEF StopperStep
<1>6. CASE Expire
  BY <1>6, ExpireTypes
<1> QED BY <1>1, <1>2, <1>3, <1>4, <1>5, <1>6 DEF Next

(* TypeInv holds in every reachable state.                               *)
LEMMA TypeInvariant == Spec => []TypeInv
  BY TypeInvInit, TypeInvNext, PTL DEF Spec

(* Every reachable state of the registry and of its processes is well    *)
(* typed (SupervisorOwnership.TypeOK).                                   *)
THEOREM OwnershipTypes == Spec => []TypeOK
<1>1. TypeInv => TypeOK
  BY DEF TypeInv, TypeOK, PcOK, StepOK, SeenOK, GuardOK, FilesOK, FlowOK, FaultsOK, OtherOK
<1> QED BY <1>1, TypeInvariant, PTL

--------------------------------------------------------------------------------
(* One owner.  SingleOwner is not inductive: what makes an acquisition   *)
(* safe is that nobody served when its guarded action read the registry, *)
(* that nobody can begin to while it has the guard, and that its own     *)
(* record is written by then.  Nothing is said of a process that lost the*)
(* guard: it may still write its directory, but it will be told to fail. *)
Acquiring(s) ==
  /\ pc[s] = "acquire" /\ guard = Main(s)
  /\ step[Main(s)] \in {"mid", "out"} /\ seen[Main(s)] = "go"

AloneWhileAcquiring == \A s \in Supervisors : Acquiring(s) => \A u \in Supervisors : ~Current(u)

CandidateListed ==
  \A s \in Supervisors :
    pc[s] = "acquire" /\ step[Main(s)] = "out" /\ seen[Main(s)] = "go" => s \in dirs

OwnerInv == TypeInv /\ SingleOwner /\ AloneWhileAcquiring /\ CandidateListed

(* Nobody serves at first.                                               *)
LEMMA OwnerInvInit == Init => OwnerInv
<1> SUFFICES ASSUME Init PROVE OwnerInv
  OBVIOUS
<1>1. TypeInv
  BY TypeInvInit
<1>2. \A s \in Supervisors : pc[s] = "fence"
  BY ProcFacts DEF Init
<1> QED BY <1>1, <1>2 DEF OwnerInv, SingleOwner, AloneWhileAcquiring, CandidateListed, Acquiring, Current

(* A step that lets nobody begin to serve, takes no record of a process  *)
(* that serves or acquires, and brings nobody further in an acquisition. *)
LEMMA OwnerFrame ==
  ASSUME OwnerInv, TypeInv',
         \A s \in Supervisors : pc'[s] = "owner" => pc[s] = "owner",
         \A s \in Supervisors : s \in dirs /\ pc'[s] \in {"owner", "acquire"} => s \in dirs',
         \A s \in Supervisors :
           pc'[s] = "acquire" /\ step'[Main(s)] \in {"mid", "out"} /\ seen'[Main(s)] = "go" =>
             /\ pc[s] = "acquire" /\ step'[Main(s)] = step[Main(s)] /\ seen[Main(s)] = "go"
             /\ guard' = Main(s) => guard = Main(s)
  PROVE  OwnerInv'
<1>1. \A s \in Supervisors : Current(s)' => Current(s)
  BY DEF Current, Alive
<1>2. SingleOwner'
  BY <1>1 DEF OwnerInv, SingleOwner, Current
<1>3. AloneWhileAcquiring'
  BY <1>1 DEF OwnerInv, AloneWhileAcquiring, Acquiring
<1>4. CandidateListed'
  BY DEF OwnerInv, CandidateListed
<1> QED BY <1>2, <1>3, <1>4 DEF OwnerInv

(* Steps that are neither an acquisition's nor a release's.              *)
LEMMA OwnerOthers ==
  ASSUME OwnerInv, TypeInv',
         \/ UNCHANGED vars
         \/ \E t \in Threads : Lock(t)
         \/ \E p \in Procs : ProcessStep(p)
         \/ \E k \in Stoppers : StopperStep(k)
         \/ Expire
  PROVE  OwnerInv'
<1> USE ThreadFacts, ProcFacts
<1>1. CASE UNCHANGED vars
  BY <1>1, OwnerFrame DEF vars, files
<1>2. ASSUME NEW t \in Threads, Lock(t) PROVE OwnerInv'
  <2>1. step' = [step EXCEPT ![t] = "in"] /\ guard' = t /\ UNCHANGED <<pc, seen, dirs>>
    BY <1>2 DEF Lock, files
  <2> QED BY <2>1, OwnerFrame DEF OwnerInv, TypeInv, StepOK
<1>3. ASSUME NEW p \in Procs, ProcessStep(p) PROVE OwnerInv'
  <2>1. dirs' = dirs
    BY <1>3 DEF ProcessStep, PollFence, ClearRead, ClearWrite, ClearEnd, Die, files
  <2>2. \A s \in Supervisors : s # p => pc'[s] = pc[s]
    <3>1. (\E where : Goto(p, where)) \/ UNCHANGED pc
      BY <1>3 DEF ProcessStep, PollFence, ClearRead, ClearWrite, ClearEnd, Die, Call
    <3> QED BY <3>1, GotoElsewhere DEF OwnerInv, TypeInv
  <2>3. \A s \in Supervisors : s # p => step'[Main(s)] = step[Main(s)] /\ seen'[Main(s)] = seen[Main(s)]
    <3>1. CASE Die(p)
      BY <3>1 DEF Die, Forget, OwnerInv, TypeInv, StepOK, SeenOK
    <3>2. CASE ~Die(p)
      <4>1. Moves(Main(p))
        BY <1>3, <3>2 DEF ProcessStep, PollFence, ClearRead, ClearWrite, ClearEnd, Call, Moves
      <4> QED BY <4>1, Elsewhere DEF OwnerInv, TypeInv
    <3> QED BY <3>1, <3>2
  <2>4. \A s \in Supervisors : guard' = Main(s) => guard = Main(s)
    BY <1>3 DEF ProcessStep, PollFence, ClearRead, ClearWrite, ClearEnd, Die, Done
  <2>5. CASE p \in Supervisors
    <3>1. pc'[p] # "owner"
      BY ZenonT(40), <1>3, <2>5 DEF ProcessStep, PollFence, ClearRead, ClearWrite, ClearEnd, Die, Goto, Call, GiveUp, AfterFence,
                  OwnerInv, TypeInv, PcOK
    <3>2. pc'[p] = "acquire" => step'[Main(p)] \in {"wait", "idle"}
      BY <1>3, <2>5 DEF ProcessStep, PollFence, ClearRead, ClearWrite, ClearEnd, Die, Goto, Call, GiveUp, AfterFence,
                  Done, OwnerInv, TypeInv, PcOK, StepOK
    <3> QED BY <2>1, <2>2, <2>3, <2>4, <3>1, <3>2, OwnerFrame
  <2>6. CASE p \notin Supervisors
    BY <2>1, <2>2, <2>3, <2>4, <2>6, OwnerFrame
  <2> QED BY <2>5, <2>6
<1>4. ASSUME NEW k \in Stoppers, StopperStep(k) PROVE OwnerInv'
  <2>1. CASE CallAdmit(k) \/ AdmitRead(k) \/ AdmitWrite(k) \/ AdmitEnd(k)
    <3>1. dirs' = dirs /\ Moves(Main(k)) /\ (UNCHANGED pc \/ \E where : Goto(k, where))
      BY <2>1 DEF CallAdmit, AdmitRead, AdmitWrite, AdmitEnd, Moves, Call, files
    <3>2. \A s \in Supervisors : guard' = Main(s) => guard = Main(s)
      BY <2>1 DEF CallAdmit, AdmitRead, AdmitWrite, AdmitEnd, Done
    <3> QED BY <3>1, <3>2, Elsewhere, GotoElsewhere, OwnerFrame DEF OwnerInv, TypeInv
  <2>2. CASE Connect(k) \/ PersistRead(k) \/ PersistWrite(k) \/ PersistEnd(k)
    <3>1. dirs' = dirs /\ Moves(Main(k)) /\ (UNCHANGED pc \/ \E where : Goto(k, where))
      BY <2>2 DEF Connect, PersistRead, PersistWrite, PersistEnd, Moves, Call, files
    <3>2. \A s \in Supervisors : guard' = Main(s) => guard = Main(s)
      BY <2>2 DEF Connect, PersistRead, PersistWrite, PersistEnd, Done
    <3> QED BY <3>1, <3>2, Elsewhere, GotoElsewhere, OwnerFrame DEF OwnerInv, TypeInv
  <2>3. CASE Refuse(k) \/ RenewCall(k) \/ RenewRead(k) \/ RenewWrite(k) \/ RenewEnd(k)
    <3>1. dirs' = dirs /\ Moves(Renew(k)) /\ (UNCHANGED pc \/ \E where : Goto(k, where))
      BY <2>3 DEF Refuse, RenewCall, RenewRead, RenewWrite, RenewEnd, Moves, Call, files
    <3>2. \A s \in Supervisors : guard' = Main(s) => guard = Main(s)
      BY <2>3 DEF Refuse, RenewCall, RenewRead, RenewWrite, RenewEnd, Done
    <3> QED BY <3>1, <3>2, Elsewhere, GotoElsewhere, OwnerFrame DEF OwnerInv, TypeInv
  <2>4. CASE Leave(k) \/ Withdraw(k) \/ WithdrawRead(k) \/ WithdrawWrite(k) \/ WithdrawEnd(k)
    <3>1. dirs' = dirs /\ Moves(Main(k)) /\ (UNCHANGED pc \/ \E where : Goto(k, where))
      BY <2>4 DEF Leave, Withdraw, WithdrawRead, WithdrawWrite, WithdrawEnd, Moves, Call, files
    <3>2. \A s \in Supervisors : guard' = Main(s) => guard = Main(s)
      BY <2>4 DEF Leave, Withdraw, WithdrawRead, WithdrawWrite, WithdrawEnd, Done
    <3> QED BY <3>1, <3>2, Elsewhere, GotoElsewhere, OwnerFrame DEF OwnerInv, TypeInv
  <2> QED BY <1>4, <2>1, <2>2, <2>3, <2>4 DEF StopperStep
<1>5. CASE Expire
  BY <1>5, OwnerFrame DEF Expire
<1> QED BY <1>1, <1>2, <1>3, <1>4, <1>5

(* An acquisition: its read finds nobody serving, its end is the one place *)
(* where a supervisor begins to serve.                                   *)
LEMMA OwnerSupervisor ==
  ASSUME OwnerInv, TypeInv', NEW s \in Supervisors, SupervisorStep(s)
  PROVE  OwnerInv'
<1> USE ThreadFacts, ProcFacts
<1>1. CASE Quit(s)
  BY <1>1, OwnerFrame DEF Quit, Call, Goto, files, OwnerInv, TypeInv, PcOK, StepOK
<1>2. CASE AcquireRead(s)
  <2>1. /\ pc[s] = "acquire" /\ UNCHANGED <<pc, guard>>
        /\ \E what \in {"go", "no"} : Read(Main(s), what)
        /\ \A u \in Supervisors : u \in dirs /\ Alive(u) => u \in dirs'
    BY <1>2 DEF AcquireRead
  <2>2. \A u \in Supervisors : u # s => step'[Main(u)] = step[Main(u)] /\ seen'[Main(u)] = seen[Main(u)]
    BY <2>1 DEF Read, OwnerInv, TypeInv, StepOK, SeenOK
  <2>3. CASE Read(Main(s), "no")
    <3>1. seen'[Main(s)] = "no"
      BY <2>3 DEF Read, OwnerInv, TypeInv, SeenOK
    <3> QED BY <2>1, <2>2, <3>1, OwnerFrame DEF Alive
  <2>4. CASE ~Read(Main(s), "no")
    <3>1. \A d \in dirs : ~Alive(d)
      BY <1>2, <2>4 DEF AcquireRead
    <3>2. \A u \in Supervisors : ~Current(u)
      BY <3>1 DEF OwnerInv, SingleOwner, Current
    <3>3. \A u \in Supervisors : ~Current(u)'
      BY <2>1, <3>2 DEF Current, Alive
    <3>4. step'[Main(s)] = "mid"
      BY <2>1 DEF Read, OwnerInv, TypeInv, StepOK
    <3>5. CandidateListed'
      BY <2>1, <2>2, <3>4 DEF OwnerInv, CandidateListed, Alive
    <3> QED BY <3>3, <3>5 DEF OwnerInv, SingleOwner, AloneWhileAcquiring
  <2> QED BY <2>3, <2>4
<1>3. CASE AcquireWrite(s)
  <2>1. /\ dirs' = dirs \cup {s} /\ UNCHANGED <<pc, guard, seen>>
        /\ step[Main(s)] = "mid" /\ seen[Main(s)] = "go" /\ pc[s] = "acquire"
        /\ step' = [step EXCEPT ![Main(s)] = "out"]
    BY <1>3 DEF AcquireWrite, Write, At
  <2>2. \A u \in Supervisors : u # s => step'[Main(u)] = step[Main(u)]
    BY <2>1 DEF OwnerInv, TypeInv, StepOK
  <2>3. \A u \in Supervisors : Current(u)' = Current(u)
    BY <2>1 DEF Current, Alive
  <2>4. SingleOwner' /\ CandidateListed'
    BY <2>1, <2>2, <2>3 DEF OwnerInv, SingleOwner, CandidateListed
  <2>5. \A u \in Supervisors : Acquiring(u)' => Acquiring(u)
    BY <2>1, <2>2 DEF Acquiring
  <2> QED BY <2>3, <2>4, <2>5 DEF OwnerInv, AloneWhileAcquiring
<1>4. CASE AcquireEnd(s)
  <2>1. /\ dirs' = dirs /\ Done(Main(s), "idle") /\ Over(Main(s)) /\ pc[s] = "acquire"
        /\ Goto(s, IF Held(Main(s)) /\ seen[Main(s)] = "go" THEN "owner" ELSE "failed")
    BY <1>4 DEF AcquireEnd, files
  <2>2. \A u \in Supervisors : u # s =>
          pc'[u] = pc[u] /\ step'[Main(u)] = step[Main(u)] /\ seen'[Main(u)] = seen[Main(u)]
    BY <2>1 DEF Done, Goto, OwnerInv, TypeInv, PcOK, StepOK, SeenOK
  <2>3. step'[Main(s)] = "idle"
    BY <2>1 DEF Done, OwnerInv, TypeInv, StepOK
  <2>4. \A u \in Supervisors : guard' = Main(u) => guard = Main(u)
    BY <2>1 DEF Done
  <2>5. CASE guard = Main(s) /\ seen[Main(s)] = "go"
    <3>1. Acquiring(s) /\ step[Main(s)] = "out"
      BY <2>1, <2>5 DEF Acquiring, Over, At
    <3>2. s \in dirs /\ \A u \in Supervisors : ~Current(u)
      BY <2>1, <2>5, <3>1 DEF OwnerInv, AloneWhileAcquiring, CandidateListed
    <3>3. \A u \in Supervisors : Current(u)' => u = s
      BY <2>2, <3>2 DEF Current, Alive
    <3>4. SingleOwner'
      BY <2>1, <3>2, <3>3 DEF SingleOwner
    <3>5. guard' = NoThread
      BY <2>1, <2>5 DEF Done
    <3>6. AloneWhileAcquiring' /\ CandidateListed'
      BY <2>1, <2>2, <2>3, <3>5 DEF OwnerInv, AloneWhileAcquiring, Acquiring, CandidateListed
    <3> QED BY <3>4, <3>6 DEF OwnerInv
  <2>6. CASE ~(guard = Main(s) /\ seen[Main(s)] = "go")
    <3>1. pc'[s] = "failed"
      BY <2>1, <2>6 DEF Held, Goto, OwnerInv, TypeInv, PcOK
    <3> QED BY <2>1, <2>2, <2>4, <3>1, OwnerFrame
  <2> QED BY <2>5, <2>6
<1>5. CASE ReleaseOwner(s)
  <2>1. /\ pc[s] = "release" /\ dirs' = dirs \ {s} /\ UNCHANGED <<pc, seen, guard>>
        /\ step' = [step EXCEPT ![Main(s)] = "out"]
    BY <1>5 DEF ReleaseOwner
  <2>2. \A u \in Supervisors : u # s => step'[Main(u)] = step[Main(u)]
    BY <2>1 DEF OwnerInv, TypeInv, StepOK
  <2> QED BY <2>1, <2>2, OwnerFrame
<1>6. CASE ReleaseEnd(s)
  <2>1. dirs' = dirs /\ Done(Main(s), "idle") /\ Goto(s, "released")
    BY <1>6 DEF ReleaseEnd, files
  <2>2. \A u \in Supervisors : u # s =>
          pc'[u] = pc[u] /\ step'[Main(u)] = step[Main(u)] /\ seen'[Main(u)] = seen[Main(u)]
    BY <2>1 DEF Done, Goto, OwnerInv, TypeInv, PcOK, StepOK, SeenOK
  <2>3. pc'[s] = "released"
    BY <2>1 DEF Goto, OwnerInv, TypeInv, PcOK
  <2>4. \A u \in Supervisors : guard' = Main(u) => guard = Main(u)
    BY <2>1 DEF Done
  <2> QED BY <2>1, <2>2, <2>3, <2>4, OwnerFrame
<1> QED BY <1>1, <1>2, <1>3, <1>4, <1>5, <1>6 DEF SupervisorStep

(* OwnerInv holds in every reachable state.                              *)
LEMMA OwnerInvariant == Spec => []OwnerInv
<1>1. OwnerInv /\ [Next]_vars => OwnerInv'
  <2> SUFFICES ASSUME OwnerInv, [Next]_vars PROVE OwnerInv'
    OBVIOUS
  <2>1. TypeInv'
    BY TypeInvNext DEF OwnerInv
  <2> QED BY <2>1, OwnerOthers, OwnerSupervisor DEF Next
<1> QED BY <1>1, OwnerInvInit, PTL DEF Spec

(* At most one supervisor of a socket serves, and its record stays while *)
(* it lives, however many processes compete, stall past the guard's      *)
(* staleness or crash (SupervisorOwnership.SingleOwner).                 *)
THEOREM OneSupervisorServes == Spec => []SingleOwner
<1>1. OwnerInv => SingleOwner
  BY DEF OwnerInv
<1> QED BY <1>1, OwnerInvariant, PTL

-----------------------------------------------------------------------------
(***************************************************************************)
(* The shutdown admission.                                                 *)
(***************************************************************************)

(* The stages of one thread, in which nothing else moves: a step outside *)
(* its guarded action touches no file and not the guard, a step within   *)
(* leaves the guard or gives up its own.                                 *)
Outside(t) ==
  /\ ~Inside(t) /\ Alive(t[1])
  /\ step' = step \/ step' = [step EXCEPT ![t] = "wait"]
  /\ UNCHANGED <<seen, guard, dirs, admission, fence, stolen>>

Within(t) ==
  /\ Inside(t) /\ Alive(t[1]) /\ UNCHANGED stolen
  /\ \/ step[t] = "in" /\ guard' = guard /\ \E what \in {"go", "no", "gone"} : Read(t, what)
     \/ /\ step[t] = "mid" \/ (step[t] = "in" /\ pc[t[1]] = "release")
        /\ guard' = guard /\ step' = [step EXCEPT ![t] = "out"] /\ UNCHANGED seen
     \/ \E after \in {"idle", "wait"} : Done(t, after)

(* The steps of the fence are outside or within a main flow.             *)
LEMMA FenceShape ==
  ASSUME TypeInv, NEW p \in Procs, PollFence(p) \/ ClearRead(p) \/ ClearWrite(p) \/ ClearEnd(p)
  PROVE  Outside(Main(p)) \/ Within(Main(p))
<1> USE ThreadFacts DEF files, flow, env, history
<1>1. CASE PollFence(p)
  BY <1>1 DEF PollFence, Call, Awake, Outside
<1>2. CASE ClearRead(p)
  BY <1>2 DEF ClearRead, At, Inside, Within
<1>3. CASE ClearWrite(p)
  BY <1>3 DEF ClearWrite, Write, At, Inside, Within
<1>4. CASE ClearEnd(p)
  BY <1>4 DEF ClearEnd, Over, At, Inside, Within
<1> QED BY <1>1, <1>2, <1>3, <1>4

(* So are those of a supervisor.                                         *)
LEMMA SupervisorShape ==
  ASSUME TypeInv, NEW s \in Supervisors, SupervisorStep(s)
  PROVE  Outside(Main(s)) \/ Within(Main(s))
<1> USE ThreadFacts, ProcFacts DEF files, flow, env, history
<1>1. CASE Quit(s)
  BY <1>1 DEF Quit, Call, Awake, Outside
<1>2. CASE AcquireRead(s)
  BY <1>2 DEF AcquireRead, At, Inside, Within
<1>3. CASE AcquireWrite(s)
  BY <1>3 DEF AcquireWrite, Write, At, Inside, Within
<1>4. CASE AcquireEnd(s)
  BY <1>4 DEF AcquireEnd, Over, At, Inside, Within
<1>5. CASE ReleaseOwner(s)
  BY <1>5 DEF ReleaseOwner, At, Inside, Within
<1>6. CASE ReleaseEnd(s)
  BY <1>6 DEF ReleaseEnd, At, Inside, Within
<1> QED BY <1>1, <1>2, <1>3, <1>4, <1>5, <1>6 DEF SupervisorStep

(* A stopper moves in its main flow or in its renewal.                   *)
LEMMA StopperShape ==
  ASSUME TypeInv, NEW k \in Stoppers, StopperStep(k)
  PROVE  \/ Outside(Main(k)) \/ Within(Main(k))
         \/ Outside(Renew(k)) \/ Within(Renew(k))
<1> USE ThreadFacts, ProcFacts DEF files, flow, env, history
<1>1. CASE CallAdmit(k) \/ Connect(k) \/ Refuse(k) \/ RenewCall(k) \/ Leave(k) \/ Withdraw(k)
  <2>1. CASE CallAdmit(k) \/ Connect(k) \/ Refuse(k) \/ Leave(k) \/ Withdraw(k)
    BY <2>1 DEF CallAdmit, Connect, Refuse, Leave, Withdraw, Call, Awake, Outside
  <2>2. CASE RenewCall(k)
    BY <2>2 DEF RenewCall, Awake, Outside
  <2> QED BY <1>1, <2>1, <2>2
<1>2. CASE AdmitRead(k) \/ PersistRead(k) \/ RenewRead(k) \/ WithdrawRead(k)
  BY <1>2 DEF AdmitRead, PersistRead, RenewRead, WithdrawRead, At, Inside, Within
<1>3. CASE AdmitWrite(k) \/ PersistWrite(k) \/ RenewWrite(k) \/ WithdrawWrite(k)
  BY <1>3 DEF AdmitWrite, PersistWrite, RenewWrite, WithdrawWrite, Write, At, Inside, Within
<1>4. CASE AdmitEnd(k) \/ PersistEnd(k) \/ RenewEnd(k) \/ WithdrawEnd(k)
  BY <1>4 DEF AdmitEnd, PersistEnd, RenewEnd, WithdrawEnd, Over, At, Inside, Within
<1> QED BY <1>1, <1>2, <1>3, <1>4 DEF StopperStep

(* Every step is of one of these shapes.                                 *)
LEMMA StepShape ==
  ASSUME TypeInv, [Next]_vars
  PROVE  \/ UNCHANGED vars
         \/ \E t \in Threads : Lock(t)
         \/ \E p \in Procs : Die(p)
         \/ Expire
         \/ \E t \in Threads : Outside(t) \/ Within(t)
<1> USE ThreadFacts, ProcFacts
<1>1. CASE \E p \in Procs : ProcessStep(p)
  BY <1>1, FenceShape DEF ProcessStep
<1>2. CASE \E s \in Supervisors : SupervisorStep(s)
  BY <1>2, SupervisorShape
<1>3. CASE \E k \in Stoppers : StopperStep(k)
  BY <1>3, StopperShape
<1> QED BY <1>1, <1>2, <1>3 DEF Next

(* A dead process stays dead, and only Die ends one.                     *)
LEMMA LifeAndDeath ==
  ASSUME TypeInv, [Next]_vars, NEW p \in Procs
  PROVE  /\ ~Alive(p) => pc'[p] = pc[p]
         /\ Alive(p) /\ ~Alive(p)' => Die(p)
<1> USE ThreadFacts, ProcFacts
<1>1. CASE UNCHANGED vars \/ Expire \/ \E t \in Threads : Lock(t)
  BY <1>1 DEF vars, Expire, Lock, Alive
<1>2. ASSUME NEW q \in Procs, ProcessStep(q), ~Die(q) \/ q # p
      PROVE  (~Alive(p) => pc'[p] = pc[p]) /\ (Alive(p) => Alive(p)')
  <2>1. CASE Die(q)
    BY <1>2, <2>1 DEF Die, Goto, Alive, TypeInv, PcOK
  <2>2. CASE ~Die(q)
    <3>1. UNCHANGED pc \/ (Alive(q) /\ \E where : Goto(q, where) /\ where # "dead")
      BY <1>2, <2>2 DEF ProcessStep, PollFence, ClearRead, ClearWrite, ClearEnd, GiveUp, AfterFence,
                        Call, Awake, Over, At
    <3> QED BY <3>1 DEF TypeInv, PcOK, Alive, Goto
  <2> QED BY <2>1, <2>2
<1>3. ASSUME NEW s \in Supervisors, SupervisorStep(s)
      PROVE  (~Alive(p) => pc'[p] = pc[p]) /\ (Alive(p) => Alive(p)')
  BY <1>3 DEF SupervisorStep, Quit, AcquireRead, AcquireWrite, AcquireEnd, ReleaseOwner, ReleaseEnd,
              Call, Goto, Awake, Over, At, Alive, TypeInv, PcOK
<1>4. ASSUME NEW k \in Stoppers, StopperStep(k)
      PROVE  (~Alive(p) => pc'[p] = pc[p]) /\ (Alive(p) => Alive(p)')
  <2>1. UNCHANGED pc \/ (Alive(k) /\ \E where : Goto(k, where) /\ (where # "dead" \/ where = pc[k]))
    BY ZenonT(40), <1>4 DEF StopperStep, CallAdmit, AdmitRead, AdmitWrite, AdmitEnd, Connect,
                PersistRead, PersistWrite, PersistEnd, Refuse, RenewCall, RenewRead, RenewWrite,
                RenewEnd, OnSuccess, OnFailure, Leave, Withdraw, WithdrawRead, WithdrawWrite, WithdrawEnd,
                Call, Awake, Over, At
  <2> QED BY <2>1 DEF TypeInv, PcOK, Alive, Goto
<1>5. CASE Die(p)
  BY <1>5 DEF Die, Alive
<1> QED BY <1>1, <1>2, <1>3, <1>4, <1>5 DEF Next

--------------------------------------------------------------------------------
(* The guard.  Until a live holder loses it, only the thread that has it *)
(* is inside a guarded action; a dead process is in none.                *)
DeadIdle == \A t \in Threads : ~Alive(t[1]) => step[t] = "idle"
Exclusive == ~stolen => \A t \in Threads : Inside(t) => guard = t

GuardInv == TypeInv /\ DeadIdle /\ Exclusive

(* Nobody is inside a guarded action at first.                           *)
LEMMA GuardInvInit == Init => GuardInv
<1> SUFFICES ASSUME Init PROVE GuardInv
  OBVIOUS
<1>1. \A t \in Threads : step[t] = "idle"
  BY DEF Init
<1> QED BY <1>1, TypeInvInit DEF GuardInv, DeadIdle, Exclusive, Inside

(* A guard that its holder lost was taken from the dead or counts as stolen. *)
LEMMA GuardInvNext == GuardInv /\ [Next]_vars => GuardInv'
<1> SUFFICES ASSUME GuardInv, [Next]_vars PROVE GuardInv'
  OBVIOUS
<1> USE ThreadFacts, ProcFacts
<1>1. TypeInv /\ TypeInv'
  BY TypeInvNext DEF GuardInv
<1>2. \A p \in Procs : ~Alive(p) => pc'[p] = pc[p]
  BY <1>1, LifeAndDeath
<1>3. CASE UNCHANGED vars \/ Expire
  BY <1>1, <1>3 DEF vars, env, Expire, GuardInv, DeadIdle, Exclusive, Alive, Inside
<1>4. ASSUME NEW t \in Threads, Lock(t) PROVE GuardInv'
  <2>1. /\ Alive(t[1]) /\ guard' = t /\ UNCHANGED pc
        /\ \A u \in Threads : u # t => step'[u] = step[u]
    BY <1>1, <1>4 DEF Lock, Awake, TypeInv, StepOK
  <2>2. DeadIdle'
    BY <2>1 DEF GuardInv, DeadIdle, Alive
  <2>3. CASE stolen'
    BY <1>1, <2>2, <2>3 DEF GuardInv, Exclusive
  <2>4. CASE ~stolen'
    <3>1. ~stolen /\ (guard = NoThread \/ ~Alive(guard[1]))
      BY <1>4, <2>4 DEF Lock, env
    <3>2. \A u \in Threads : ~Inside(u)
      BY <3>1 DEF GuardInv, DeadIdle, Exclusive, Inside
    <3> QED BY <1>1, <2>1, <2>2, <3>2 DEF GuardInv, Exclusive, Inside
  <2> QED BY <2>3, <2>4
<1>5. ASSUME NEW p \in Procs, Die(p) PROVE GuardInv'
  <2>1. /\ stolen' = stolen /\ guard' = guard /\ pc'[p] = "dead"
        /\ \A q \in Procs : q # p => pc'[q] = pc[q]
        /\ \A t \in Threads : step'[t] = IF t \in {Main(p), Renew(p)} THEN "idle" ELSE step[t]
    BY <1>1, <1>5 DEF Die, Goto, Forget, TypeInv, PcOK, StepOK
  <2>2. \A t \in Threads : t[1] = p => step'[t] = "idle"
    BY <2>1
  <2> QED BY <1>1, <2>1, <2>2 DEF GuardInv, DeadIdle, Exclusive, Alive, Inside
<1>6. ASSUME NEW t \in Threads, Outside(t) \/ Within(t), \A p \in Procs : ~Die(p) PROVE GuardInv'
  <2>1. \A u \in Threads : u # t => step'[u] = step[u]
    BY <1>1, <1>6 DEF Outside, Within, Read, Done, TypeInv, StepOK
  <2>2. Inside(t)' => Inside(t) /\ guard' = guard
    BY <1>1, <1>6 DEF Outside, Within, Read, Done, Inside, TypeInv, StepOK
  <2>3. stolen' = stolen /\ (guard' = guard \/ guard = t)
    BY <1>6 DEF Outside, Within, Done
  <2>4. DeadIdle'
    BY <1>1, <1>6, <2>1, LifeAndDeath DEF GuardInv, DeadIdle, Alive, Outside, Within
  <2>5. Exclusive'
    BY <2>1, <2>2, <2>3 DEF GuardInv, Exclusive, Inside
  <2> QED BY <1>1, <2>4, <2>5 DEF GuardInv
<1> QED BY <1>1, <1>3, <1>4, <1>5, <1>6, StepShape

--------------------------------------------------------------------------------
(* Reads that let an action go on, of this process's own record.         *)
Go(t) == step[t] = "mid" /\ seen[t] = "go"

(* A guarded action of a main flow begins by waiting for the guard.      *)
Guarded == {"clear", "acquire", "release", "admit", "persist", "withdraw"}

(* Whoever comes to a guarded action does so by calling it.              *)
LEMMA Entering ==
  ASSUME TypeInv, [Next]_vars, NEW p \in Procs, pc'[p] # pc[p], pc'[p] \in Guarded
  PROVE  step'[Main(p)] = "wait"
<1> USE ThreadFacts, ProcFacts
<1>1. CASE UNCHANGED vars \/ Expire \/ \E t \in Threads : Lock(t)
  BY <1>1 DEF vars, Expire, Lock
<1>2. ASSUME NEW q \in Procs, ProcessStep(q) PROVE step'[Main(p)] = "wait"
  <2>1. q = p
    <3>1. (\E where : Goto(q, where)) \/ UNCHANGED pc
      BY <1>2 DEF ProcessStep, PollFence, ClearRead, ClearWrite, ClearEnd, Die, Call
    <3> QED BY <3>1 DEF Goto, TypeInv, PcOK
  <2>2. CASE PollFence(q)
    BY <2>1, <2>2 DEF PollFence, Call, Goto, GiveUp, Guarded, TypeInv, PcOK, StepOK
  <2>3. CASE ClearRead(q) \/ ClearWrite(q)
    BY <2>3 DEF ClearRead, ClearWrite
  <2>4. CASE ClearEnd(q)
    BY <2>1, <2>4 DEF ClearEnd, Done, Goto, GiveUp, AfterFence, Guarded, TypeInv, PcOK, StepOK
  <2>5. CASE Die(q)
    BY <2>1, <2>5 DEF Die, Goto, Guarded, TypeInv, PcOK
  <2> QED BY <1>2, <2>2, <2>3, <2>4, <2>5 DEF ProcessStep
<1>3. ASSUME NEW s \in Supervisors, SupervisorStep(s) PROVE step'[Main(p)] = "wait"
  BY <1>3 DEF SupervisorStep, Quit, AcquireRead, AcquireWrite, AcquireEnd, ReleaseOwner, ReleaseEnd,
              Call, Goto, Guarded, TypeInv, PcOK, StepOK
<1>4. ASSUME NEW k \in Stoppers, StopperStep(k) PROVE step'[Main(p)] = "wait"
  <2>1. CASE \E where : Call(k, where)
    BY <2>1 DEF Call, Goto, TypeInv, PcOK, StepOK
  <2>2. CASE UNCHANGED pc
    BY <2>2
  <2>3. CASE AdmitEnd(k) \/ PersistEnd(k) \/ WithdrawEnd(k)
    BY <2>3 DEF AdmitEnd, PersistEnd, WithdrawEnd, Goto, Guarded, TypeInv, PcOK
  <2>4. CASE RenewEnd(k)
    BY <2>4 DEF RenewEnd, OnSuccess, OnFailure, Goto, Guarded, TypeInv, PcOK
  <2>5. CASE Refuse(k) \/ Leave(k) \/ (Connect(k) /\ Goto(k, "fence"))
    BY <2>5 DEF Refuse, Leave, Goto, Guarded, TypeInv, PcOK
  <2>6. CASE CallAdmit(k) \/ Withdraw(k) \/ (Connect(k) /\ ~Goto(k, "fence"))
    BY <2>1, <2>6 DEF CallAdmit, Withdraw, Connect
  <2> QED
    BY <1>4, <2>2, <2>3, <2>4, <2>5, <2>6 DEF StopperStep, AdmitRead, AdmitWrite, PersistRead,
         PersistWrite, RenewCall, RenewRead, RenewWrite, WithdrawRead, WithdrawWrite
<1> QED BY <1>1, <1>2, <1>3, <1>4 DEF Next

(* A main flow in a guarded action that has read and goes on, came there *)
(* by reading just now, or was there before.                             *)
LEMMA FreshReads ==
  ASSUME TypeInv, [Next]_vars, NEW k \in Stoppers
  PROVE  /\ pc'[k] = "admit" /\ Go(Main(k))' => pc[k] = "admit" /\ (Go(Main(k)) \/ AdmitRead(k))
         /\ pc'[k] = "withdraw" /\ Go(Main(k))' => pc[k] = "withdraw" /\ (Go(Main(k)) \/ WithdrawRead(k))
         /\ Go(Renew(k))' => Go(Renew(k)) \/ RenewRead(k)
<1> USE ThreadFacts, ProcFacts
<1>1. /\ pc'[k] = "admit" /\ Go(Main(k))' => pc[k] = "admit"
      /\ pc'[k] = "withdraw" /\ Go(Main(k))' => pc[k] = "withdraw"
  BY Entering DEF Guarded, Go
<1> DEFINE Fresh == /\ pc[k] = "admit" /\ Go(Main(k))' => Go(Main(k)) \/ AdmitRead(k)
                    /\ pc[k] = "withdraw" /\ Go(Main(k))' => Go(Main(k)) \/ WithdrawRead(k)
                    /\ Go(Renew(k))' => Go(Renew(k)) \/ RenewRead(k)
<1>2. ASSUME UNCHANGED vars \/ Expire PROVE Fresh
  BY <1>2 DEF vars, Expire, Go
<1>3. ASSUME NEW t \in Threads, Lock(t) PROVE Fresh
  BY <1>3 DEF Lock, Go, TypeInv, StepOK
<1>4. ASSUME NEW p \in Procs, ProcessStep(p) PROVE Fresh
  <2>1. CASE Die(p)
    BY <2>1 DEF Die, Forget, Go, TypeInv, StepOK, SeenOK
  <2>2. CASE ~Die(p)
    <3>1. Moves(Main(p)) /\ pc[p] # "admit" /\ pc[p] # "withdraw"
      BY <1>4, <2>2 DEF ProcessStep, PollFence, ClearRead, ClearWrite, ClearEnd, Call, Moves
    <3> QED BY <3>1, Elsewhere DEF Go, TypeInv
  <2> QED BY <2>1, <2>2
<1>5. ASSUME NEW s \in Supervisors, SupervisorStep(s) PROVE Fresh
  <2>1. Moves(Main(s))
    BY <1>5 DEF SupervisorStep, Quit, AcquireRead, AcquireWrite, AcquireEnd, ReleaseOwner, ReleaseEnd, Call, Moves
  <2> QED BY <2>1, Elsewhere DEF Go, TypeInv
<1>6. ASSUME NEW j \in Stoppers, StopperStep(j) PROVE Fresh
  <2>1. CASE AdmitRead(j) \/ WithdrawRead(j) \/ PersistRead(j)
    <3>1. Moves(Main(j))
      BY <2>1 DEF AdmitRead, WithdrawRead, PersistRead, Moves
    <3>2. (pc[j] = "admit" => AdmitRead(j)) /\ (pc[j] = "withdraw" => WithdrawRead(j))
      BY <2>1 DEF AdmitRead, WithdrawRead, PersistRead
    <3> QED BY <3>1, <3>2, Elsewhere DEF Go, TypeInv
  <2>2. CASE RenewRead(j)
    <3>1. Moves(Renew(j))
      BY <2>2 DEF RenewRead, Moves
    <3> QED BY <2>2, <3>1, Elsewhere DEF Go, TypeInv
  <2>3. CASE ~(AdmitRead(j) \/ WithdrawRead(j) \/ PersistRead(j) \/ RenewRead(j))
    <3>1. \E t \in {Main(j), Renew(j)} :
            \/ Write(t) \/ (\E after \in {"idle", "wait"} : Done(t, after))
            \/ UNCHANGED <<step, seen>>
            \/ step' = [step EXCEPT ![t] = "wait"] /\ UNCHANGED seen
      BY <1>6, <2>3 DEF StopperStep, CallAdmit, AdmitWrite, AdmitEnd, Connect, PersistWrite, PersistEnd,
           Refuse, RenewCall, RenewWrite, RenewEnd, Leave, Withdraw, WithdrawWrite, WithdrawEnd, Call
    <3> QED BY <3>1 DEF Write, Done, Go, TypeInv, StepOK, SeenOK
  <2> QED BY <2>1, <2>2, <2>3
<1>7. Fresh
  BY <1>2, <1>3, <1>4, <1>5, <1>6 DEF Next
<1> QED BY <1>1, <1>7

(* Until a live holder loses the guard, the record is as the process in  *)
(* the guard has read it.                                                *)
AdmissionRead == ~stolen => \A k \in Stoppers :
  /\ pc[k] = "admit" /\ Go(Main(k)) => ~AdmissionActive
  /\ pc[k] = "withdraw" /\ Go(Main(k)) => Admitted(k)
  /\ Go(Renew(k)) => Admitted(k)

StandInv == GuardInv /\ AdmissionRead

(* Nothing has been read at first.                                       *)
LEMMA StandInvInit == Init => StandInv
<1> SUFFICES ASSUME Init PROVE StandInv
  OBVIOUS
<1>1. \A t \in Threads : ~Go(t)
  BY DEF Init, Go
<1> QED BY <1>1, GuardInvInit, ThreadFacts, ProcFacts DEF StandInv, AdmissionRead

(* Who writes the admission: a step outside the guard does not, and an   *)
(* admission that is not written does not become active.                 *)
LEMMA AdmissionWritten ==
  ASSUME TypeInv, [Next]_vars, admission' = admission
  PROVE  /\ AdmissionActive' => AdmissionActive
         /\ \A k \in Stoppers : Admitted(k) => Admitted(k)'
  BY LifeAndDeath, RecordFacts, ProcFacts DEF AdmissionActive, Admitted, Alive, TypeInv, FilesOK

(* Only the thread in the guard writes, and it writes what it read for.  *)
LEMMA StandInvNext == StandInv /\ [Next]_vars => StandInv'
<1> SUFFICES ASSUME StandInv, [Next]_vars PROVE StandInv'
  OBVIOUS
<1> USE ThreadFacts, ProcFacts
<1>1. GuardInv /\ GuardInv' /\ TypeInv /\ TypeInv'
  BY GuardInvNext DEF StandInv, GuardInv
<1> SUFFICES ASSUME ~stolen', NEW k \in Stoppers
    PROVE  /\ pc'[k] = "admit" /\ Go(Main(k))' => ~AdmissionActive'
           /\ pc'[k] = "withdraw" /\ Go(Main(k))' => Admitted(k)'
           /\ Go(Renew(k))' => Admitted(k)'
  BY <1>1 DEF StandInv, AdmissionRead
<1>2. ~stolen
  BY <1>1, StepShape DEF vars, env, Lock, Die, Expire, Outside, Within
<1>3. ~stolen /\ (AdmitRead(k) => ~AdmissionActive' \/ ~Go(Main(k))')
  <2>1. AdmitRead(k) /\ AdmissionActive => seen'[Main(k)] = "no"
    BY <1>1 DEF AdmitRead, Read, TypeInv, SeenOK
  <2>2. AdmitRead(k) /\ ~AdmissionActive => admission' = NoAdmission
    BY DEF AdmitRead
  <2> QED BY <1>2, <2>1, <2>2 DEF Go, AdmissionActive
<1>4. /\ WithdrawRead(k) /\ Go(Main(k))' => Admitted(k)'
      /\ RenewRead(k) /\ Go(Renew(k))' => Admitted(k)'
  BY <1>1 DEF WithdrawRead, RenewRead, Read, Go, Admitted, files, TypeInv, SeenOK
<1>5. CASE admission' = admission
  BY <1>1, <1>2, <1>3, <1>4, <1>5, FreshReads, AdmissionWritten DEF StandInv, AdmissionRead
<1>6. CASE Expire
  <2>1. ~AdmissionActive' /\ (Admitted(k) => Admitted(k)') /\ UNCHANGED <<pc, step, seen>>
    BY <1>1, <1>6, RecordFacts DEF Expire, AdmissionActive, Admitted, TypeInv, FilesOK
  <2> QED BY <1>2, <2>1 DEF StandInv, AdmissionRead, Go
<1>7. CASE admission' # admission /\ ~Expire
  <2>1. PICK t \in Threads : Within(t)
    BY <1>1, <1>7, StepShape DEF vars, files, Lock, Die, Outside
  <2>2. \A u \in Threads : u # t => ~Go(u) /\ step'[u] = step[u]
    BY <1>1, <1>2, <2>1 DEF GuardInv, Exclusive, Within, Inside, Go, Read, Done, TypeInv, StepOK
  <2>3. \A u \in Threads : u # t => ~Go(u)'
    BY <1>1, <1>2, <2>1, <2>2 DEF GuardInv, Exclusive, Within, Inside, Go
  <2>4. Go(t)' => ~Go(t)
    BY <1>1, <2>1 DEF Within, Read, Done, Go, TypeInv, StepOK
  <2> QED BY <1>1, <1>3, <1>4, <2>3, <2>4, FreshReads
<1> QED BY <1>5, <1>6, <1>7

(* StandInv holds in every reachable state.                              *)
LEMMA StandInvariant == Spec => []StandInv
  BY StandInvInit, StandInvNext, PTL DEF Spec

(* An active admission is replaced or removed by nobody but its own      *)
(* process until its lease runs out or its process ends, while no stalled*)
(* holder lost the guard (SupervisorOwnership.AdmissionStands).          *)
THEOREM AdmissionIsKept == Spec => AdmissionStands
<1> USE ThreadFacts, ProcFacts
<1> DEFINE Stands == ~stolen /\ AdmissionActive =>
                       \/ admission' \in {<<admission[1], TRUE>>, <<admission[1], FALSE>>}
                       \/ pc[admission[1]] = "withdraw"
<1>1. ASSUME StandInv, [Next]_vars, ~stolen, AdmissionActive PROVE Stands
  <2>1. /\ TypeInv /\ AdmissionRead
        /\ admission[1] \in Stoppers /\ admission = <<admission[1], TRUE>>
    <3>1. TypeInv /\ AdmissionRead /\ admission \in Stoppers \X BOOLEAN
      BY <1>1 DEF StandInv, GuardInv, TypeInv, FilesOK, AdmissionActive
    <3> QED BY <1>1, <3>1, RecordFacts DEF AdmissionActive
  <2>2. CASE admission' = admission \/ Expire
    BY <2>1, <2>2 DEF Expire
  <2>3. ASSUME NEW s \in Supervisors, SupervisorStep(s) PROVE admission' = admission
    BY <1>1, <2>3 DEF SupervisorStep, Quit, AcquireRead, AcquireWrite, AcquireEnd, ReleaseOwner, ReleaseEnd, files
  <2>4. ASSUME NEW p \in Procs, ProcessStep(p) PROVE admission' = admission
    BY <2>4 DEF ProcessStep, PollFence, ClearRead, ClearWrite, ClearEnd, Die, files
  <2>5. ASSUME NEW k \in Stoppers, StopperStep(k) PROVE Stands
    <3>1. CASE AdmitWrite(k)
      BY <1>1, <2>1, <3>1 DEF AdmitWrite, Write, At, AdmissionRead, Go
    <3>2. CASE RenewWrite(k)
      BY <1>1, <2>1, <3>2 DEF RenewWrite, Write, At, AdmissionRead, Go, Admitted
    <3>3. CASE WithdrawWrite(k)
      BY <1>1, <2>1, <3>3 DEF WithdrawWrite, Write, At, AdmissionRead, Go, Admitted
    <3>4. CASE ~(AdmitWrite(k) \/ RenewWrite(k) \/ WithdrawWrite(k))
      <4>1. admission' = admission
        BY <1>1, <2>5, <3>4 DEF StopperStep, CallAdmit, AdmitRead, AdmitEnd, Connect, PersistRead, PersistWrite,
             PersistEnd, Refuse, RenewCall, RenewRead, RenewEnd, Leave, Withdraw, WithdrawRead, WithdrawEnd, files
      <4> QED BY <2>2, <4>1
    <3> QED BY <3>1, <3>2, <3>3, <3>4
  <2>6. CASE UNCHANGED vars \/ \E t \in Threads : Lock(t)
    BY <2>2, <2>6 DEF vars, files, Lock
  <2> QED BY <1>1, <2>2, <2>3, <2>4, <2>5, <2>6 DEF Next
<1>2. StandInv /\ [Next]_vars => [Stands]_vars
  BY <1>1
<1> QED BY <1>2, StandInvariant, PTL DEF Spec, AdmissionStands
=============================================================================
