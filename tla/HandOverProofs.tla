---------------------------- MODULE HandOverProofs ----------------------------
(***************************************************************************)
(* Proofs about SupervisorOwnership, for any constants and any faults: a   *)
(* renewal of the shutdown admission that succeeds tells the truth; and while *)
(* no stalled holder lost the guard, a coordinator hands over to a successor *)
(* only when its predecessor is dead, and no fence of a live process is    *)
(* cleared.                                                                *)
(***************************************************************************)
EXTENDS OwnershipProofs


-----------------------------------------------------------------------------
(***************************************************************************)
(* Renewals.                                                               *)
(***************************************************************************)

(* A stopper moves in its own flow and in one of its threads.            *)
LEMMA StopperMoves ==
  ASSUME NEW k \in Stoppers, StopperStep(k)
  PROVE  /\ UNCHANGED pc \/ \E where : Goto(k, where)
         /\ Moves(Main(k)) \/ Moves(Renew(k))
<1>1. CASE CallAdmit(k) \/ AdmitRead(k) \/ AdmitWrite(k) \/ AdmitEnd(k)
  BY <1>1 DEF CallAdmit, AdmitRead, AdmitWrite, AdmitEnd, Call, Moves
<1>2. CASE Connect(k) \/ PersistRead(k) \/ PersistWrite(k) \/ PersistEnd(k)
  BY <1>2 DEF Connect, PersistRead, PersistWrite, PersistEnd, Call, Moves
<1>3. CASE Refuse(k) \/ RenewCall(k) \/ RenewRead(k) \/ RenewWrite(k) \/ RenewEnd(k)
  BY <1>3 DEF Refuse, RenewCall, RenewRead, RenewWrite, RenewEnd, Moves
<1>4. CASE Leave(k) \/ Withdraw(k) \/ WithdrawRead(k) \/ WithdrawWrite(k) \/ WithdrawEnd(k)
  BY <1>4 DEF Leave, Withdraw, WithdrawRead, WithdrawWrite, WithdrawEnd, Call, Moves
<1> QED BY <1>1, <1>2, <1>3, <1>4 DEF StopperStep

(* A supervisor gets into an acquisition that goes on by reading.        *)
LEMMA FreshAcquisition ==
  ASSUME TypeInv, [Next]_vars, NEW s \in Supervisors, Acquiring(s)', ~AcquireRead(s)
  PROVE  Acquiring(s)
<1> USE ThreadFacts, ProcFacts
<1>1. pc[s] = "acquire"
  BY Entering DEF Acquiring, Guarded
<1>2. CASE UNCHANGED vars \/ Expire
  BY <1>2 DEF vars, Expire, Acquiring
<1>3. CASE \E t \in Threads : Lock(t)
  BY <1>3 DEF Lock, Acquiring, TypeInv, StepOK
<1>4. CASE \E p \in Procs : Die(p)
  <2>1. PICK p \in Procs : Die(p)
    BY <1>4
  <2>2. step'[Main(s)] = (IF Main(s) \in {Main(p), Renew(p)} THEN "idle" ELSE step[Main(s)])
    BY <2>1 DEF Die, Forget, TypeInv, StepOK
  <2>3. seen'[Main(s)] = (IF Main(s) \in {Main(p), Renew(p)} THEN "none" ELSE seen[Main(s)])
    BY <2>1 DEF Die, Forget, TypeInv, SeenOK
  <2> QED BY <1>1, <2>1, <2>2, <2>3 DEF Die, Acquiring
<1>5. ASSUME NEW t \in Threads, Outside(t) PROVE Acquiring(s)
  BY <1>1, <1>5 DEF Outside, Acquiring, TypeInv, StepOK
<1>6. ASSUME NEW t \in Threads, Within(t), t # Main(s) PROVE Acquiring(s)
  BY <1>1, <1>6 DEF Within, Read, Done, Acquiring, TypeInv, StepOK, SeenOK
<1>7. CASE Within(Main(s))
  <2>1. CASE step[Main(s)] # "in"
    BY <1>1, <1>7, <2>1 DEF Within, Read, Done, Acquiring, TypeInv, StepOK, SeenOK
  <2>2. CASE step[Main(s)] = "in"
    <3>1. step'[Main(s)] # "in" /\ step'[Main(s)] # "wait"
      BY DEF Acquiring
    <3>2. SupervisorStep(s) => AcquireRead(s)
      BY <1>1, <2>2, <3>1 DEF SupervisorStep, Quit, AcquireWrite, AcquireEnd, ReleaseOwner, ReleaseEnd, Write, Over, At
    <3>3. ASSUME NEW u \in Supervisors, u # s, SupervisorStep(u) PROVE FALSE
      <4>1. Moves(Main(u))
        BY <3>3 DEF SupervisorStep, Quit, AcquireRead, AcquireWrite, AcquireEnd, ReleaseOwner, ReleaseEnd, Call, Moves
      <4> QED BY <2>2, <3>1, <3>3, <4>1, Elsewhere DEF TypeInv
    <3>4. ASSUME NEW p \in Procs, ProcessStep(p), ~Die(p) PROVE FALSE
      <4>1. Moves(Main(p)) /\ (p = s => FALSE)
        BY <1>1, <3>4 DEF ProcessStep, PollFence, ClearRead, ClearWrite, ClearEnd, Call, Moves
      <4> QED BY <2>2, <3>1, <4>1, Elsewhere DEF TypeInv
    <3>5. ASSUME NEW k \in Stoppers, StopperStep(k) PROVE FALSE
      <4>1. Moves(Main(k)) \/ Moves(Renew(k))
        BY <3>5, StopperMoves
      <4> QED BY <2>2, <3>1, <4>1, Elsewhere DEF TypeInv
    <3> QED BY <1>2, <1>3, <1>4, <3>2, <3>3, <3>4, <3>5 DEF Next
  <2> QED BY <2>1, <2>2
<1> QED BY <1>2, <1>3, <1>4, <1>5, <1>6, <1>7, StepShape

(* A stopper comes to hold the admission at the end of the action that   *)
(* wrote it, and lets go of it on the way to withdraw it, or dies.       *)
LEMMA HoldingNext ==
  ASSUME TypeInv, [Next]_vars, NEW k \in Stoppers
  PROVE  /\ pc'[k] \in Holding => pc[k] \in Holding \/ (AdmitEnd(k) /\ guard = Main(k))
         /\ pc[k] \in Holding \cup {"stopping"} =>
              pc'[k] \in Holding \cup {"stopping"} \/ Withdraw(k) \/ Die(k)
<1> USE ThreadFacts, ProcFacts DEF Holding
<1> DEFINE Held2 == /\ pc'[k] \in Holding => pc[k] \in Holding \/ (AdmitEnd(k) /\ guard = Main(k))
                    /\ pc[k] \in Holding \cup {"stopping"} =>
                         pc'[k] \in Holding \cup {"stopping"} \/ Withdraw(k) \/ Die(k)
<1>1. CASE UNCHANGED vars \/ Expire \/ \E t \in Threads : Lock(t)
  BY <1>1 DEF vars, Expire, Lock
<1>2. ASSUME pc'[k] = pc[k] PROVE Held2
  BY <1>2
<1>3. ASSUME NEW p \in Procs, ProcessStep(p) PROVE Held2
  <2>1. CASE p # k
    <3>1. (\E where : Goto(p, where)) \/ UNCHANGED pc
      BY <1>3 DEF ProcessStep, PollFence, ClearRead, ClearWrite, ClearEnd, Die, Call
    <3> QED BY <1>2, <2>1, <3>1, GotoElsewhere DEF TypeInv
  <2>2. CASE p = k
    BY ZenonT(40), <1>3, <2>2 DEF ProcessStep, PollFence, ClearRead, ClearWrite, ClearEnd, Die, Call, Goto,
                      AfterFence, GiveUp, TypeInv, PcOK
  <2> QED BY <2>1, <2>2
<1>4. ASSUME NEW s \in Supervisors, SupervisorStep(s) PROVE Held2
  <2>1. (\E where : Goto(s, where)) \/ UNCHANGED pc
    BY <1>4 DEF SupervisorStep, Quit, AcquireRead, AcquireWrite, AcquireEnd, ReleaseOwner, ReleaseEnd, Call
  <2> QED BY <1>2, <2>1, GotoElsewhere DEF TypeInv
<1>5. ASSUME NEW j \in Stoppers, StopperStep(j) PROVE Held2
  <2>1. CASE j # k
    BY <1>2, <1>5, <2>1, StopperMoves, GotoElsewhere DEF TypeInv
  <2>2. CASE j = k
    <3>1. CASE CallAdmit(k) \/ Connect(k) \/ Refuse(k) \/ Leave(k) \/ Withdraw(k)
      BY <3>1 DEF CallAdmit, Connect, Refuse, Leave, Withdraw, Call, Goto, TypeInv, PcOK
    <3>2. CASE AdmitEnd(k)
      BY <3>2 DEF AdmitEnd, Held, Goto, TypeInv, PcOK
    <3>3. CASE PersistEnd(k) \/ WithdrawEnd(k)
      BY <3>3 DEF PersistEnd, WithdrawEnd, Goto, TypeInv, PcOK
    <3>4. CASE RenewEnd(k)
      BY <3>4 DEF RenewEnd, OnSuccess, OnFailure, Goto, TypeInv, PcOK
    <3> QED
      BY <1>2, <1>5, <2>2, <3>1, <3>2, <3>3, <3>4 DEF StopperStep, AdmitRead, AdmitWrite, PersistRead,
           PersistWrite, RenewCall, RenewRead, RenewWrite, WithdrawRead, WithdrawWrite
  <2> QED BY <2>1, <2>2
<1> QED BY <1>1, <1>3, <1>4, <1>5 DEF Next

--------------------------------------------------------------------------------
(* A supervisor that acquires has removed the admission.  From then on a *)
(* stopper that holds it finds no record of its own, unless a renewal that *)
(* lost the guard put it back; and such a renewal ends in an error.      *)
StartedHolds == \A k \in Stoppers : started[k] => pc[k] \in Holding \cup {"stopping"}

Passed(k) ==
  /\ started[k] \/ (pc[k] \in Holding /\ \E s \in Supervisors : Acquiring(s))
  /\ ~shaken[k]

Superseded(k) ==
  /\ Admitted(k) => step[Renew(k)] = "out" /\ guard # Renew(k)
  /\ step[Renew(k)] \in {"mid", "out"} /\ seen[Renew(k)] = "go" => guard # Renew(k)

RenewInv == TypeInv /\ StartedHolds /\ \A k \in Stoppers : Passed(k) => Superseded(k)

(* No supervisor has passed anybody at first.                            *)
LEMMA RenewInvInit == Init => RenewInv
<1> SUFFICES ASSUME Init PROVE RenewInv
  OBVIOUS
<1>1. \A k \in Stoppers : ~started[k] /\ pc[k] = "new"
  BY ProcFacts DEF Init
<1> QED BY <1>1, TypeInvInit DEF RenewInv, StartedHolds, Passed, Holding

(* The history changes where a supervisor begins to serve, where a renewal *)
(* ends, and where the admission is given back or its holder dies.       *)
LEMMA HistoryNext ==
  ASSUME TypeInv, [Next]_vars, NEW k \in Stoppers
  PROVE  /\ started'[k] => started[k] \/ \E s \in Supervisors : Acquiring(s) /\ pc[k] \in Holding
         /\ shaken[k] /\ ~shaken'[k] => ~started'[k] /\ pc'[k] \notin Holding
         /\ started[k] /\ ~started'[k] => pc'[k] \notin Holding
         /\ Withdraw(k) \/ Die(k) => ~started'[k] /\ pc'[k] \notin Holding
<1> USE ThreadFacts, ProcFacts DEF history
<1>1. Withdraw(k) \/ Die(k) => ~started'[k] /\ pc'[k] \notin Holding
  <2>1. Withdraw(k) => ~started'[k] /\ pc'[k] = "withdraw"
    BY DEF Withdraw, Call, Goto, TypeInv, PcOK, OtherOK
  <2>2. Die(k) => ~started'[k]
    BY DEF Die, Forget, TypeInv, OtherOK
  <2>3. Die(k) => pc'[k] = "dead"
    BY DEF Die, Goto, TypeInv, PcOK
  <2> QED BY <2>1, <2>2, <2>3 DEF Holding
<1> DEFINE Same == started'[k] = started[k] /\ shaken'[k] = shaken[k]
<1>2. ASSUME UNCHANGED vars \/ Expire \/ \E t \in Threads : Lock(t) PROVE Same
  BY <1>2 DEF vars, Expire, Lock
<1>3. ASSUME NEW p \in Procs, ProcessStep(p) PROVE Same \/ Die(k)
  <2>1. CASE Die(p)
    BY ZenonT(40), <2>1 DEF Die, Forget, TypeInv, OtherOK
  <2>2. CASE ~Die(p)
    BY <1>3, <2>2 DEF ProcessStep, PollFence, ClearRead, ClearWrite, ClearEnd
  <2> QED BY <2>1, <2>2
<1>4. ASSUME NEW s \in Supervisors, SupervisorStep(s) PROVE Same \/ AcquireEnd(s)
  BY <1>4 DEF SupervisorStep, Quit, AcquireRead, AcquireWrite, ReleaseOwner, ReleaseEnd
<1>5. ASSUME NEW j \in Stoppers, StopperStep(j)
      PROVE  (started'[k] = started[k] /\ (shaken[k] => shaken'[k])) \/ Withdraw(k)
  <2>1. CASE RenewEnd(j)
    BY <2>1 DEF RenewEnd, TypeInv, OtherOK
  <2>2. CASE Withdraw(j)
    BY ZenonT(40), <2>2 DEF Withdraw, TypeInv, OtherOK
  <2>3. CASE ~RenewEnd(j) /\ ~Withdraw(j)
    BY <1>5, <2>3 DEF StopperStep, CallAdmit, AdmitRead, AdmitWrite, AdmitEnd, Connect,
         PersistRead, PersistWrite, PersistEnd, Refuse, RenewCall, RenewRead, RenewWrite,
         Leave, WithdrawRead, WithdrawWrite, WithdrawEnd
  <2> QED BY <2>1, <2>2, <2>3
<1>6. ASSUME NEW s \in Supervisors, AcquireEnd(s)
      PROVE  /\ started'[k] => started[k] \/ (Acquiring(s) /\ pc[k] \in Holding)
             /\ started[k] => started'[k]
             /\ shaken'[k] = shaken[k]
  BY <1>6 DEF AcquireEnd, Over, At, Held, Acquiring
<1> QED BY <1>1, <1>2, <1>3, <1>4, <1>5, <1>6 DEF Next

(* Nobody is passed by a supervisor but where that one reads the registry. *)
LEMMA PassedNext ==
  ASSUME RenewInv, [Next]_vars, NEW k \in Stoppers, Passed(k)',
         \A s \in Supervisors : ~(AcquireRead(s) /\ Acquiring(s)')
  PROVE  Passed(k)
<1> USE ThreadFacts, ProcFacts
<1>1. TypeInv /\ ~shaken[k]
  BY HistoryNext DEF RenewInv, Passed
<1>2. CASE started'[k]
  BY <1>1, <1>2, HistoryNext DEF Passed
<1>3. CASE ~started'[k]
  <2>1. PICK s \in Supervisors : Acquiring(s)'
    BY <1>3 DEF Passed
  <2>2. Acquiring(s)
    BY <1>1, <2>1, FreshAcquisition
  <2>3. pc'[k] \in Holding /\ guard # Main(k)
    BY <1>3, <2>2 DEF Passed, Acquiring
  <2>4. pc[k] \in Holding
    BY <1>1, <2>3, HoldingNext
  <2> QED BY <1>1, <2>2, <2>4 DEF Passed
<1> QED BY <1>2, <1>3

(* What keeps a stopper superseded: nobody writes its record, its renewal*)
(* does not get on and does not get the guard.                           *)
LEMMA SupersededFrame ==
  ASSUME NEW k \in Stoppers, Superseded(k), Admitted(k)' => Admitted(k),
         step'[Renew(k)] = step[Renew(k)], seen'[Renew(k)] = seen[Renew(k)],
         guard' = Renew(k) => guard = Renew(k)
  PROVE  Superseded(k)'
  BY DEF Superseded

(* The steps of another process, of the main flow and of the environment.*)
LEMMA SupersededOthers ==
  ASSUME RenewInv, [Next]_vars, NEW k \in Stoppers, Passed(k), Passed(k)',
         ~RenewCall(k), ~RenewRead(k), ~RenewWrite(k), ~RenewEnd(k)
  PROVE  Superseded(k)'
<1> USE ThreadFacts, ProcFacts DEF files
<1>1. TypeInv /\ Superseded(k) /\ pc[k] \in Holding \cup {"stopping"}
  BY DEF RenewInv, StartedHolds, Passed
<1>2. CASE UNCHANGED vars \/ Expire
  <2>1. Admitted(k)' => Admitted(k)
    <3>1. CASE UNCHANGED vars
      BY <3>1 DEF vars, Admitted
    <3>2. CASE Expire
      <4>1. admission[1] \in Stoppers /\ admission # NoAdmission
        BY <1>1, <3>2, RecordFacts DEF Expire, AdmissionActive, TypeInv, FilesOK
      <4>2. admission'[1] = admission[1]
        BY <3>2 DEF Expire
      <4> QED BY <4>1, <4>2 DEF Admitted
    <3> QED BY <1>2, <3>1, <3>2
  <2>2. UNCHANGED <<step, seen, guard>>
    BY <1>2 DEF vars, Expire
  <2> QED BY <1>1, <2>1, <2>2, SupersededFrame
<1>3. ASSUME NEW t \in Threads, Lock(t) PROVE Superseded(k)'
  <2>1. /\ guard' = t /\ admission' = admission /\ seen' = seen
        /\ step[t] = "wait" /\ step' = [step EXCEPT ![t] = "in"]
    BY <1>3 DEF Lock
  <2>2. CASE t = Renew(k)
    BY <1>1, <2>1, <2>2 DEF Superseded, Admitted, TypeInv, StepOK
  <2>3. CASE t # Renew(k)
    BY <1>1, <2>1, <2>3, SupersededFrame DEF Admitted, TypeInv, StepOK
  <2> QED BY <2>2, <2>3
<1>4. ASSUME NEW p \in Procs, Die(p) PROVE Superseded(k)'
  <2>1. p # k
    BY <1>1, <1>4, HistoryNext DEF Passed
  <2>2. step'[Renew(k)] = step[Renew(k)] /\ seen'[Renew(k)] = seen[Renew(k)]
    <3>1. Renew(k) \notin {Main(p), Renew(p)}
      BY <2>1 DEF Main, Renew
    <3>2. step'[Renew(k)] = step[Renew(k)]
      BY <1>1, <1>4, <3>1 DEF Die, Forget, TypeInv, StepOK
    <3>3. seen'[Renew(k)] = seen[Renew(k)]
      BY <1>1, <1>4, <3>1 DEF Die, Forget, TypeInv, SeenOK
    <3> QED BY <3>2, <3>3
  <2> QED BY <1>1, <1>4, <2>2, SupersededFrame DEF Die, Admitted
<1>5. ASSUME NEW t \in Threads, t # Renew(k), Moves(t), guard' \in {guard, NoThread},
             Admitted(k)' => Admitted(k)
      PROVE  Superseded(k)'
  BY <1>1, <1>5, Elsewhere, SupersededFrame DEF TypeInv
<1>6. ASSUME NEW p \in Procs, ProcessStep(p), ~Die(p) PROVE Superseded(k)'
  <2>1. Moves(Main(p)) /\ guard' \in {guard, NoThread} /\ admission' = admission
    BY <1>6 DEF ProcessStep, PollFence, ClearRead, ClearWrite, ClearEnd, Call, Moves, Done
  <2> QED BY <1>5, <2>1 DEF Admitted
<1>7. ASSUME NEW s \in Supervisors, SupervisorStep(s) PROVE Superseded(k)'
  <2>1. Moves(Main(s)) /\ guard' \in {guard, NoThread} /\ admission' \in {admission, NoAdmission}
    BY <1>7 DEF SupervisorStep, Quit, AcquireRead, AcquireWrite, AcquireEnd, ReleaseOwner, ReleaseEnd, Call, Moves, Done
  <2> QED BY <1>5, <2>1 DEF Admitted
<1>8. ASSUME NEW j \in Stoppers, StopperStep(j) PROVE Superseded(k)'
  <2>1. guard' \in {guard, NoThread}
    BY <1>8 DEF StopperStep, CallAdmit, AdmitRead, AdmitWrite, AdmitEnd, Connect,
         PersistRead, PersistWrite, PersistEnd, Refuse, RenewCall, RenewRead, RenewWrite,
         RenewEnd, Leave, Withdraw, WithdrawRead, WithdrawWrite, WithdrawEnd, Done
  <2>2. \/ admission' \in {admission, NoAdmission}
        \/ admission' = <<j, TRUE>> /\ (j = k => AdmitWrite(k))
    BY <1>8 DEF StopperStep, CallAdmit, AdmitRead, AdmitWrite, AdmitEnd, Connect,
         PersistRead, PersistWrite, PersistEnd, Refuse, RenewCall, RenewRead, RenewWrite,
         RenewEnd, Leave, Withdraw, WithdrawRead, WithdrawWrite, WithdrawEnd
  <2>3. ~AdmitWrite(k)
    BY <1>1 DEF AdmitWrite, Holding
  <2>4. Admitted(k)' => Admitted(k)
    <3>1. CASE admission' \in {admission, NoAdmission}
      BY <3>1 DEF Admitted
    <3>2. CASE admission' = <<j, TRUE>> /\ j # k
      <4>1. admission'[1] = j
        BY <3>2
      <4> QED BY <3>2, <4>1 DEF Admitted
    <3> QED BY <2>2, <2>3, <3>1, <3>2
  <2>5. CASE j # k
    BY <1>5, <1>8, <2>1, <2>4, <2>5, StopperMoves
  <2>6. CASE j = k
    <3>1. Moves(Main(k))
      BY <1>8, <2>6 DEF StopperStep, CallAdmit, AdmitRead, AdmitWrite, AdmitEnd, Connect,
           PersistRead, PersistWrite, PersistEnd, Refuse,
           Leave, Withdraw, WithdrawRead, WithdrawWrite, WithdrawEnd, Call, Moves
    <3> QED BY <1>5, <2>1, <2>4, <3>1
  <2> QED BY <2>5, <2>6
<1> QED BY <1>2, <1>3, <1>4, <1>6, <1>7, <1>8 DEF Next

(* Every step keeps what is said of a stopper that was passed.           *)
LEMMA RenewInvNext == RenewInv /\ [Next]_vars => RenewInv'
<1> SUFFICES ASSUME RenewInv, [Next]_vars PROVE RenewInv'
  OBVIOUS
<1> USE ThreadFacts, ProcFacts
<1>1. TypeInv /\ TypeInv'
  BY TypeInvNext DEF RenewInv
<1>2. StartedHolds'
  BY <1>1, HoldingNext, HistoryNext DEF RenewInv, StartedHolds
<1>3. ASSUME NEW k \in Stoppers, Passed(k)' PROVE Superseded(k)'
  <2>1. CASE \E s \in Supervisors : AcquireRead(s) /\ Acquiring(s)'
    <3>1. PICK s \in Supervisors : AcquireRead(s) /\ Acquiring(s)'
      BY <2>1
    <3>2. ~Read(Main(s), "no")
      BY <1>1, <3>1 DEF Acquiring, Read, TypeInv, SeenOK
    <3>3. admission' = NoAdmission /\ guard' = Main(s)
      BY <3>1, <3>2 DEF AcquireRead, Acquiring
    <3> QED BY <3>3 DEF Superseded, Admitted
  <2>2. CASE ~\E s \in Supervisors : AcquireRead(s) /\ Acquiring(s)'
    <3>1. Passed(k)
      BY <1>3, <2>2, PassedNext
    <3>2. Superseded(k)
      BY <3>1 DEF RenewInv
    <3>3. CASE RenewCall(k)
      BY <1>1, <3>2, <3>3 DEF RenewCall, Superseded, Admitted, files, TypeInv, StepOK
    <3>4. CASE RenewRead(k)
      <4>1. ~Admitted(k)
        BY <3>2, <3>4 DEF RenewRead, At, Superseded
      <4>2. ~Admitted(k)' /\ seen'[Renew(k)] = "no"
        BY <1>1, <3>4, <4>1 DEF RenewRead, Read, Admitted, files, TypeInv, SeenOK
      <4> QED BY <4>2 DEF Superseded
    <3>5. CASE RenewWrite(k)
      BY <1>1, <3>2, <3>5 DEF RenewWrite, Write, At, Superseded, TypeInv, StepOK
    <3>6. CASE RenewEnd(k)
      <4>1. guard = Renew(k)
        BY <1>1, <1>3, <3>6 DEF RenewEnd, Held, Passed, TypeInv, OtherOK
      <4>2. ~Admitted(k)' /\ step'[Renew(k)] = "idle"
        BY <1>1, <3>2, <3>6, <4>1 DEF RenewEnd, Done, Superseded, Admitted, files, TypeInv, StepOK
      <4> QED BY <4>2 DEF Superseded
    <3> QED BY <1>3, <3>1, <3>3, <3>4, <3>5, <3>6, SupersededOthers
  <2> QED BY <2>1, <2>2
<1> QED BY <1>1, <1>2, <1>3 DEF RenewInv

(* RenewInv holds in every reachable state.                              *)
LEMMA RenewInvariant == Spec => []RenewInv
  BY RenewInvInit, RenewInvNext, PTL DEF Spec

(* A renewal that succeeds tells the truth: no supervisor acquired       *)
(* ownership since the admission was given, whatever leases ran out and  *)
(* whichever guards were lost meanwhile, unless an earlier renewal of the*)
(* same holder ended in an error (SupervisorOwnership.RenewalIsTrue).    *)
THEOREM RenewalsTellTheTruth == Spec => []RenewalIsTrue
<1>1. RenewInv => RenewalIsTrue
  BY DEF RenewInv, RenewalIsTrue, Passed, Superseded, At, Renewed, Held
<1> QED BY <1>1, RenewInvariant, PTL

-----------------------------------------------------------------------------
(***************************************************************************)
(* The hand-over.                                                          *)
(***************************************************************************)

(* Who writes the registry and the fence.                                *)
LEMMA FilesWritten ==
  ASSUME [Next]_vars
  PROVE  /\ \A s \in dirs' : s \in dirs \/ AcquireWrite(s)
         /\ fence' = fence \/ (\E p \in Procs : ClearWrite(p)) \/ (\E k \in Stoppers : PersistWrite(k))
<1> USE ThreadFacts, ProcFacts DEF files
<1> DEFINE Written == /\ \A s \in dirs' : s \in dirs \/ AcquireWrite(s)
                      /\ fence' = fence \/ (\E p \in Procs : ClearWrite(p)) \/ (\E k \in Stoppers : PersistWrite(k))
<1>1. ASSUME UNCHANGED vars \/ Expire \/ \E t \in Threads : Lock(t) PROVE Written
  BY <1>1 DEF vars, Expire, Lock
<1>2. ASSUME NEW p \in Procs, ProcessStep(p) PROVE Written
  BY <1>2 DEF ProcessStep, PollFence, ClearRead, ClearWrite, ClearEnd, Die
<1>3. ASSUME NEW s \in Supervisors, SupervisorStep(s) PROVE Written
  <2>1. CASE AcquireWrite(s)
    BY <2>1 DEF AcquireWrite
  <2>2. CASE ~AcquireWrite(s)
    BY <1>3, <2>2 DEF SupervisorStep, Quit, AcquireRead, AcquireEnd, ReleaseOwner, ReleaseEnd
  <2> QED BY <2>1, <2>2
<1>4. ASSUME NEW k \in Stoppers, StopperStep(k) PROVE Written
  <2>1. CASE PersistWrite(k)
    BY <2>1 DEF PersistWrite
  <2>2. CASE ~PersistWrite(k)
    BY <1>4, <2>2 DEF StopperStep, CallAdmit, AdmitRead, AdmitWrite, AdmitEnd, Connect,
         PersistRead, PersistEnd, Refuse, RenewCall, RenewRead, RenewWrite,
         RenewEnd, Leave, Withdraw, WithdrawRead, WithdrawWrite, WithdrawEnd
  <2> QED BY <2>1, <2>2
<1> QED BY <1>1, <1>2, <1>3, <1>4 DEF Next

(* How a supervisor begins to serve, and that it never begins again.     *)
LEMMA ServingNext ==
  ASSUME TypeInv, [Next]_vars, NEW s \in Supervisors
  PROVE  /\ pc'[s] \in {"owner", "release"} =>
              pc[s] \in {"owner", "release"} \/ (AcquireEnd(s) /\ Acquiring(s) /\ step[Main(s)] = "out")
         /\ pc'[s] = "released" => pc[s] = "released" \/ ReleaseEnd(s)
         /\ pc[s] \in {"owner", "release", "released", "dead"} =>
              pc'[s] \in {"owner", "release", "released", "dead"}
<1> USE ThreadFacts, ProcFacts
<1> DEFINE Serving ==
      /\ pc'[s] \in {"owner", "release"} =>
           pc[s] \in {"owner", "release"} \/ (AcquireEnd(s) /\ Acquiring(s) /\ step[Main(s)] = "out")
      /\ pc'[s] = "released" => pc[s] = "released" \/ ReleaseEnd(s)
      /\ pc[s] \in {"owner", "release", "released", "dead"} =>
           pc'[s] \in {"owner", "release", "released", "dead"}
<1>1. ASSUME pc'[s] = pc[s] PROVE Serving
  BY <1>1
<1>2. ASSUME UNCHANGED vars \/ Expire \/ \E t \in Threads : Lock(t) PROVE Serving
  BY <1>2 DEF vars, Expire, Lock
<1>3. ASSUME NEW p \in Procs, ProcessStep(p) PROVE Serving
  <2>1. CASE p # s
    <3>1. (\E where : Goto(p, where)) \/ UNCHANGED pc
      BY <1>3 DEF ProcessStep, PollFence, ClearRead, ClearWrite, ClearEnd, Die, Call
    <3> QED BY <1>1, <2>1, <3>1, GotoElsewhere DEF TypeInv
  <2>2. CASE p = s /\ Die(p)
    BY <2>2 DEF Die, Goto, TypeInv, PcOK
  <2>3. CASE p = s /\ ~Die(p)
    BY <1>3, <2>3 DEF ProcessStep, PollFence, ClearRead, ClearWrite, ClearEnd, Call, Goto,
                      AfterFence, GiveUp, TypeInv, PcOK
  <2> QED BY <2>1, <2>2, <2>3
<1>4. ASSUME NEW u \in Supervisors, SupervisorStep(u) PROVE Serving
  <2>1. CASE u # s
    <3>1. (\E where : Goto(u, where)) \/ UNCHANGED pc
      BY <1>4 DEF SupervisorStep, Quit, AcquireRead, AcquireWrite, AcquireEnd, ReleaseOwner, ReleaseEnd, Call
    <3> QED BY <1>1, <2>1, <3>1, GotoElsewhere DEF TypeInv
  <2>2. CASE u = s /\ AcquireEnd(u)
    BY <2>2 DEF AcquireEnd, Over, At, Held, Acquiring, Goto, TypeInv, PcOK
  <2>3. CASE u = s /\ ~AcquireEnd(u)
    BY <1>4, <2>3 DEF SupervisorStep, Quit, AcquireRead, AcquireWrite, ReleaseOwner, ReleaseEnd,
                      Call, Goto, TypeInv, PcOK
  <2> QED BY <2>1, <2>2, <2>3
<1>5. ASSUME NEW k \in Stoppers, StopperStep(k) PROVE Serving
  BY <1>1, <1>5, StopperMoves, GotoElsewhere DEF TypeInv
<1> QED BY <1>2, <1>3, <1>4, <1>5 DEF Next

(* What a coordinator is connected to changes when it connects, and when *)
(* it has let go of the admission.                                       *)
LEMMA TargetNext ==
  ASSUME TypeInv, [Next]_vars, NEW k \in Stoppers
  PROVE  \/ target'[k] = target[k]
         \/ target'[k] = Nobody /\ (Withdraw(k) \/ Die(k))
         \/ Connect(k) /\ target'[k] \in Supervisors /\ pc[target'[k]] = "owner" /\ pc'[k] = "persist"
<1> USE ThreadFacts, ProcFacts DEF flow
<1> DEFINE Kept == \/ target'[k] = target[k]
                   \/ target'[k] = Nobody /\ (Withdraw(k) \/ Die(k))
                   \/ Connect(k) /\ target'[k] \in Supervisors /\ pc[target'[k]] = "owner" /\ pc'[k] = "persist"
<1>1. ASSUME UNCHANGED vars \/ Expire \/ \E t \in Threads : Lock(t) PROVE Kept
  BY <1>1 DEF vars, Expire, Lock
<1>2. ASSUME NEW p \in Procs, ProcessStep(p) PROVE Kept
  <2>1. CASE Die(p)
    BY ZenonT(40), <2>1 DEF Die, Forget, TypeInv, FlowOK
  <2>2. CASE ~Die(p)
    BY <1>2, <2>2 DEF ProcessStep, PollFence, ClearRead, ClearWrite, ClearEnd
  <2> QED BY <2>1, <2>2
<1>3. ASSUME NEW s \in Supervisors, SupervisorStep(s) PROVE Kept
  BY <1>3 DEF SupervisorStep, Quit, AcquireRead, AcquireWrite, AcquireEnd, ReleaseOwner, ReleaseEnd
<1>4. ASSUME NEW j \in Stoppers, StopperStep(j) PROVE Kept
  <2>1. CASE Connect(j)
    BY <2>1 DEF Connect, Call, Goto, TypeInv, FlowOK, PcOK
  <2>2. CASE Withdraw(j)
    BY <2>2 DEF Withdraw, TypeInv, FlowOK
  <2>3. CASE ~Connect(j) /\ ~Withdraw(j)
    BY <1>4, <2>3 DEF StopperStep, CallAdmit, AdmitRead, AdmitWrite, AdmitEnd,
         PersistRead, PersistWrite, PersistEnd, Refuse, RenewCall, RenewRead, RenewWrite,
         RenewEnd, Leave, WithdrawRead, WithdrawWrite, WithdrawEnd
  <2> QED BY <2>1, <2>2, <2>3
<1> QED BY <1>1, <1>2, <1>3, <1>4 DEF Next

(* A guarded action of a main flow gets on by that flow's own steps.     *)
LEMMA MainStage ==
  ASSUME TypeInv, [Next]_vars, NEW p \in Procs,
         step'[Main(p)] # step[Main(p)], step'[Main(p)] \in {"mid", "out"}
  PROVE  \/ ClearRead(p) \/ ClearWrite(p)
         \/ p \in Supervisors /\ (AcquireRead(p) \/ AcquireWrite(p) \/ ReleaseOwner(p))
         \/ p \in Stoppers /\ (AdmitRead(p) \/ AdmitWrite(p) \/ PersistRead(p) \/ PersistWrite(p)
                               \/ WithdrawRead(p) \/ WithdrawWrite(p))
<1> USE ThreadFacts, ProcFacts
<1>1. ASSUME UNCHANGED vars \/ Expire \/ \E t \in Threads : Lock(t) PROVE FALSE
  BY <1>1 DEF vars, Expire, Lock, TypeInv, StepOK
<1>2. ASSUME NEW q \in Procs, Die(q) PROVE FALSE
  BY <1>2 DEF Die, Forget, TypeInv, StepOK
<1>3. ASSUME NEW t \in Threads, t # Main(p), Moves(t) PROVE FALSE
  BY <1>3, Elsewhere DEF TypeInv
<1>4. ASSUME NEW where, Call(p, where) PROVE FALSE
  BY <1>4 DEF Call, TypeInv, StepOK
<1>5. ASSUME NEW after \in {"idle", "wait"}, Done(Main(p), after) PROVE FALSE
  BY <1>5 DEF Done, TypeInv, StepOK
<1>6. ASSUME NEW q \in Procs, ProcessStep(q) PROVE ClearRead(p) \/ ClearWrite(p)
  <2>1. CASE q # p
    <3>1. Die(q) \/ Moves(Main(q))
      BY <1>6 DEF ProcessStep, PollFence, ClearRead, ClearWrite, ClearEnd, Call, Moves
    <3> QED BY <1>2, <1>3, <2>1, <3>1
  <2>2. CASE q = p
    <3>1. CASE PollFence(p)
      BY <1>4, <3>1 DEF PollFence
    <3>2. CASE ClearEnd(p)
      BY <1>5, <3>2 DEF ClearEnd
    <3> QED BY <1>2, <1>6, <2>2, <3>1, <3>2 DEF ProcessStep
  <2> QED BY <2>1, <2>2
<1>7. ASSUME NEW s \in Supervisors, SupervisorStep(s)
      PROVE  p = s /\ (AcquireRead(p) \/ AcquireWrite(p) \/ ReleaseOwner(p))
  <2>1. Moves(Main(s))
    BY <1>7 DEF SupervisorStep, Quit, AcquireRead, AcquireWrite, AcquireEnd, ReleaseOwner, ReleaseEnd, Call, Moves
  <2>2. p = s
    BY <1>3, <2>1
  <2>3. ~Quit(p) /\ ~AcquireEnd(p) /\ ~ReleaseEnd(p)
    BY <1>4, <1>5 DEF Quit, AcquireEnd, ReleaseEnd
  <2> QED BY <1>7, <2>2, <2>3 DEF SupervisorStep
<1>8. ASSUME NEW k \in Stoppers, StopperStep(k)
      PROVE  p = k /\ (AdmitRead(p) \/ AdmitWrite(p) \/ PersistRead(p) \/ PersistWrite(p)
                       \/ WithdrawRead(p) \/ WithdrawWrite(p))
  <2>1. p = k
    BY <1>3, <1>8, StopperMoves
  <2>2. ~CallAdmit(p) /\ ~Connect(p) /\ ~Withdraw(p)
    BY <1>4 DEF CallAdmit, Connect, Withdraw
  <2>3. ~AdmitEnd(p) /\ ~PersistEnd(p) /\ ~WithdrawEnd(p)
    BY <1>5 DEF AdmitEnd, PersistEnd, WithdrawEnd
  <2>4. ~Refuse(p) /\ ~Leave(p)
    BY DEF Refuse, Leave
  <2>5. ASSUME RenewCall(p) \/ RenewRead(p) \/ RenewWrite(p) \/ RenewEnd(p) PROVE FALSE
    <3>1. Moves(Renew(p))
      BY <2>5 DEF RenewCall, RenewRead, RenewWrite, RenewEnd, Moves
    <3> QED BY <1>3, <2>1, <3>1
  <2> QED BY <1>8, <2>1, <2>2, <2>3, <2>4, <2>5 DEF StopperStep
<1> QED BY <1>1, <1>6, <1>7, <1>8 DEF Next

--------------------------------------------------------------------------------
(* One record.  SingleOwner speaks of a supervisor that serves; a        *)
(* coordinator finds the record of one that may be releasing it.         *)
HasRecord(s) == s \in dirs /\ pc[s] \in {"owner", "release"}

OneRecord == \A s, u \in Supervisors : HasRecord(s) /\ HasRecord(u) => s = u
NoRecordAcquiring == \A s, u \in Supervisors : Acquiring(s) => ~HasRecord(u)
ReleasedGone ==
  \A s \in Supervisors :
    pc[s] = "released" \/ (pc[s] = "release" /\ step[Main(s)] = "out") => s \notin dirs

RecordInv == OwnerInv /\ OneRecord /\ NoRecordAcquiring /\ ReleasedGone

(* The registry is empty at first.                                       *)
LEMMA RecordInvInit == Init => RecordInv
<1> SUFFICES ASSUME Init PROVE RecordInv
  OBVIOUS
<1>1. dirs = {} /\ \A s \in Supervisors : pc[s] = "fence"
  BY ProcFacts DEF Init
<1> QED BY <1>1, OwnerInvInit DEF RecordInv, OneRecord, NoRecordAcquiring, ReleasedGone, HasRecord

(* A record of a process that serves comes with the end of an acquisition. *)
LEMMA RecordNext ==
  ASSUME RecordInv, [Next]_vars, NEW s \in Supervisors, HasRecord(s)'
  PROVE  HasRecord(s) \/ (AcquireEnd(s) /\ Acquiring(s) /\ guard' = NoThread)
<1>1. TypeInv
  BY DEF RecordInv, OwnerInv
<1>2. CASE pc[s] \in {"owner", "release"}
  <2>1. ~AcquireWrite(s)
    BY <1>2 DEF AcquireWrite
  <2> QED BY <1>2, <2>1, FilesWritten DEF HasRecord
<1>3. CASE pc[s] \notin {"owner", "release"}
  <2>1. AcquireEnd(s) /\ Acquiring(s)
    BY <1>1, <1>3, ServingNext DEF HasRecord
  <2> QED BY <2>1 DEF AcquireEnd, Acquiring, Done
<1> QED BY <1>2, <1>3

(* An acquisition ends only when no other record is in use.              *)
LEMMA RecordInvNext == RecordInv /\ [Next]_vars => RecordInv'
<1> SUFFICES ASSUME RecordInv, [Next]_vars PROVE RecordInv'
  OBVIOUS
<1> USE ThreadFacts, ProcFacts
<1>1. OwnerInv /\ OwnerInv' /\ TypeInv /\ TypeInv'
  BY TypeInvNext, OwnerOthers, OwnerSupervisor DEF RecordInv, OwnerInv, Next
<1>2. OneRecord'
  <2> SUFFICES ASSUME NEW s \in Supervisors, NEW u \in Supervisors, HasRecord(s)', HasRecord(u)'
               PROVE  s = u
    BY DEF OneRecord
  <2>1. CASE HasRecord(s) /\ HasRecord(u)
    BY <2>1 DEF RecordInv, OneRecord
  <2>2. CASE ~HasRecord(s)
    BY <2>2, RecordNext DEF RecordInv, NoRecordAcquiring, Acquiring
  <2>3. CASE ~HasRecord(u)
    BY <2>3, RecordNext DEF RecordInv, NoRecordAcquiring, Acquiring
  <2> QED BY <2>1, <2>2, <2>3
<1>3. NoRecordAcquiring'
  <2> SUFFICES ASSUME NEW s \in Supervisors, NEW u \in Supervisors, Acquiring(s)', HasRecord(u)'
               PROVE  FALSE
    BY DEF NoRecordAcquiring
  <2>1. guard' # NoThread
    BY DEF Acquiring
  <2>2. HasRecord(u)
    BY <2>1, RecordNext
  <2>3. AcquireRead(s)
    BY <1>1, <2>2, FreshAcquisition DEF RecordInv, NoRecordAcquiring
  <2>4. ~Read(Main(s), "no")
    BY <1>1 DEF Acquiring, Read, TypeInv, SeenOK
  <2>5. \A d \in dirs : ~Alive(d)
    BY <2>3, <2>4 DEF AcquireRead
  <2> QED BY <2>2, <2>5 DEF HasRecord, Alive
<1>4. ReleasedGone'
  <2> SUFFICES ASSUME NEW s \in Supervisors,
                      pc'[s] = "released" \/ (pc'[s] = "release" /\ step'[Main(s)] = "out")
               PROVE  s \notin dirs'
    BY DEF ReleasedGone
  <2>1. CASE pc[s] = "released" \/ (pc[s] = "release" /\ step[Main(s)] = "out")
    <3>1. s \notin dirs /\ ~AcquireWrite(s)
      BY <2>1 DEF RecordInv, ReleasedGone, AcquireWrite
    <3> QED BY <3>1, FilesWritten
  <2>2. CASE ~(pc[s] = "released" \/ (pc[s] = "release" /\ step[Main(s)] = "out"))
    <3>1. pc'[s] = "release" /\ step'[Main(s)] = "out"
      BY <1>1, <2>2, ServingNext DEF ReleaseEnd, At
    <3>2. pc[s] = "release" /\ step[Main(s)] # "out"
      BY <1>1, <2>2, <3>1, Entering DEF Guarded
    <3>3. ReleaseOwner(s)
      BY <1>1, <3>1, <3>2, MainStage DEF ClearRead, ClearWrite, AcquireRead, AcquireWrite
    <3> QED BY <3>3 DEF ReleaseOwner
  <2> QED BY <2>1, <2>2
<1> QED BY <1>1, <1>2, <1>3, <1>4 DEF RecordInv

(* RecordInv holds in every reachable state.                             *)
LEMMA RecordInvariant == Spec => []RecordInv
  BY RecordInvInit, RecordInvNext, PTL DEF Spec

--------------------------------------------------------------------------------
(* Fences.  What a process has read under the guard stays true while it  *)
(* has the guard.                                                        *)
Base == StandInv /\ RecordInv /\ RenewInv

(* A guard that was taken from a live holder is not forgotten.           *)
LEMMA StolenStays == TypeInv /\ [Next]_vars => (~stolen' => ~stolen)
  BY StepShape DEF vars, env, Lock, Die, Expire, Outside, Within

(* What the other modules prove, together.                               *)
LEMMA BaseNext == Base /\ [Next]_vars => Base' /\ (~stolen' => ~stolen)
  BY StolenStays, StandInvNext, RecordInvNext, RenewInvNext DEF Base, RenewInv

(* What follows from Base.                                               *)
LEMMA BaseFacts == Base => TypeInv /\ GuardInv /\ OwnerInv
  BY DEF Base, StandInv, RecordInv, OwnerInv

(* While a thread stays inside its guarded action, the files stay as they are. *)
LEMMA Undisturbed ==
  ASSUME GuardInv, [Next]_vars, ~stolen, NEW p \in Procs,
         step[Main(p)] \in {"mid", "out"}, step'[Main(p)] = step[Main(p)]
  PROVE  dirs' = dirs /\ fence' = fence /\ seen'[Main(p)] = seen[Main(p)]
<1> USE ThreadFacts, ProcFacts DEF files
<1>1. TypeInv /\ guard = Main(p)
  BY DEF GuardInv, Exclusive, Inside
<1>2. CASE UNCHANGED vars \/ Expire \/ \E t \in Threads : Lock(t)
  BY <1>2 DEF vars, Expire, Lock
<1>3. ASSUME NEW q \in Procs, Die(q) PROVE seen'[Main(p)] = seen[Main(p)] /\ dirs' = dirs /\ fence' = fence
  <2>1. Main(p) \notin {Main(q), Renew(q)}
    BY <1>1, <1>3 DEF Die, Forget, TypeInv, StepOK
  <2>2. seen'[Main(p)] = seen[Main(p)]
    BY <1>1, <1>3, <2>1 DEF Die, Forget, TypeInv, SeenOK
  <2> QED BY <1>3, <2>2 DEF Die
<1>4. ASSUME NEW t \in Threads, Outside(t)
      PROVE  seen'[Main(p)] = seen[Main(p)] /\ dirs' = dirs /\ fence' = fence
  BY <1>4 DEF Outside
<1>5. ASSUME NEW t \in Threads, Within(t) PROVE FALSE
  <2>1. t = Main(p)
    BY <1>1, <1>5 DEF Within, GuardInv, Exclusive
  <2> QED BY <1>1, <1>5, <2>1 DEF Within, Read, Done, TypeInv, StepOK
<1> QED BY <1>1, <1>2, <1>3, <1>4, <1>5, StepShape

(* A fence that a process wants cleared is one it has seen, of a process *)
(* that was dead.                                                        *)
LEMMA FenceSeenNext ==
  ASSUME TypeInv, [Next]_vars, NEW p \in Procs, pc'[p] = "clear"
  PROVE  \/ pc[p] = "clear" /\ fenceSeen'[p] = fenceSeen[p]
         \/ fence # NoFence /\ ~Alive(fence[1]) /\ fenceSeen'[p] = fence /\ step'[Main(p)] = "wait"
<1> USE ThreadFacts, ProcFacts DEF flow
<1>1. CASE pc[p] = "clear"
  <2>1. ASSUME NEW q \in Procs, ProcessStep(q) PROVE fenceSeen'[p] = fenceSeen[p]
    <3>1. CASE q # p
      <4>1. CASE Die(q)
        BY <3>1, <4>1 DEF Die, Forget, TypeInv, FlowOK
      <4>2. CASE ~Die(q)
        BY <2>1, <3>1, <4>2 DEF ProcessStep, PollFence, ClearRead, ClearWrite, ClearEnd, TypeInv, FlowOK
      <4> QED BY <4>1, <4>2
    <3>2. CASE q = p
      <4>1. ~PollFence(p) /\ ~ClearEnd(p) /\ ~Die(p)
        BY ZenonT(40), <1>1 DEF PollFence, ClearEnd, Die, Goto, AfterFence, GiveUp, TypeInv, PcOK
      <4> QED BY <2>1, <3>2, <4>1 DEF ProcessStep, ClearRead, ClearWrite
    <3> QED BY <3>1, <3>2
  <2>2. ASSUME NEW s \in Supervisors, SupervisorStep(s) PROVE fenceSeen' = fenceSeen
    BY <2>2 DEF SupervisorStep, Quit, AcquireRead, AcquireWrite, AcquireEnd, ReleaseOwner, ReleaseEnd
  <2>3. ASSUME NEW k \in Stoppers, StopperStep(k) PROVE fenceSeen' = fenceSeen
    BY <2>3 DEF StopperStep, CallAdmit, AdmitRead, AdmitWrite, AdmitEnd, Connect,
         PersistRead, PersistWrite, PersistEnd, Refuse, RenewCall, RenewRead, RenewWrite,
         RenewEnd, Leave, Withdraw, WithdrawRead, WithdrawWrite, WithdrawEnd
  <2>4. CASE UNCHANGED vars \/ Expire \/ \E t \in Threads : Lock(t)
    BY <1>1, <2>4 DEF vars, Expire, Lock
  <2> QED BY <1>1, <2>1, <2>2, <2>3, <2>4 DEF Next
<1>2. CASE pc[p] # "clear"
  <2>1. step'[Main(p)] = "wait"
    BY <1>2, Entering DEF Guarded
  <2>2. ASSUME NEW q \in Procs, ProcessStep(q)
        PROVE  fence # NoFence /\ ~Alive(fence[1]) /\ fenceSeen'[p] = fence
    <3>1. q = p
      <4>1. (\E where : Goto(q, where)) \/ UNCHANGED pc
        BY <2>2 DEF ProcessStep, PollFence, ClearRead, ClearWrite, ClearEnd, Die, Call
      <4> QED BY <1>2, <4>1, GotoElsewhere DEF TypeInv
    <3>2. PollFence(p)
      BY <1>2, <2>2, <3>1 DEF ProcessStep, ClearRead, ClearWrite, ClearEnd, Die, Goto, TypeInv, PcOK
    <3>3. ~Goto(p, "acquire") /\ ~Goto(p, "recheck") /\ ~Goto(p, GiveUp(p))
      BY <1>2 DEF Goto, GiveUp, TypeInv, PcOK
    <3> QED BY <3>2, <3>3 DEF PollFence, Call, TypeInv, FlowOK
  <2>3. ASSUME NEW s \in Supervisors, SupervisorStep(s) PROVE FALSE
    BY <1>2, <2>3 DEF SupervisorStep, Quit, AcquireRead, AcquireWrite, AcquireEnd, ReleaseOwner, ReleaseEnd,
                      Call, Goto, TypeInv, PcOK
  <2>4. ASSUME NEW k \in Stoppers, StopperStep(k) PROVE FALSE
    <3>1. k = p
      BY <1>2, <2>4, StopperMoves DEF Goto, TypeInv, PcOK
    <3>2. ~CallAdmit(p) /\ ~AdmitEnd(p) /\ ~Connect(p) /\ ~PersistEnd(p) /\ ~Refuse(p)
          /\ ~RenewEnd(p) /\ ~Leave(p) /\ ~Withdraw(p) /\ ~WithdrawEnd(p)
      BY <1>2, <3>1 DEF CallAdmit, AdmitEnd, Connect, PersistEnd, Refuse, RenewEnd, OnSuccess, OnFailure, Leave,
                        Withdraw, WithdrawEnd, Call, Goto, TypeInv, PcOK
    <3> QED BY <1>2, <2>4, <3>1, <3>2 DEF StopperStep, AdmitRead, AdmitWrite, PersistRead, PersistWrite,
                                          RenewCall, RenewRead, RenewWrite, WithdrawRead, WithdrawWrite
  <2>5. CASE UNCHANGED vars \/ Expire \/ \E t \in Threads : Lock(t)
    BY <1>2, <2>5 DEF vars, Expire, Lock
  <2> QED BY <2>1, <2>2, <2>3, <2>4, <2>5 DEF Next
<1> QED BY <1>1, <1>2

(* Nobody comes back to the beginning of a stopper's flow.               *)
LEMMA EarlyBefore ==
  ASSUME TypeInv, [Next]_vars, NEW k \in Stoppers, pc'[k] \in {"new", "admit", "held"}
  PROVE  pc[k] \in {"new", "admit", "held"}
<1> USE ThreadFacts, ProcFacts
<1>1. CASE UNCHANGED vars \/ Expire \/ \E t \in Threads : Lock(t)
  BY <1>1 DEF vars, Expire, Lock
<1>2. ASSUME pc'[k] = pc[k] PROVE pc[k] \in {"new", "admit", "held"}
  BY <1>2
<1>3. ASSUME NEW p \in Procs, ProcessStep(p) PROVE pc'[k] = pc[k]
  <2>1. (\E where : Goto(p, where)) \/ UNCHANGED pc
    BY <1>3 DEF ProcessStep, PollFence, ClearRead, ClearWrite, ClearEnd, Die, Call
  <2>2. CASE p # k
    BY <2>1, <2>2, GotoElsewhere DEF TypeInv
  <2>3. CASE p = k
    BY ZenonT(40), <1>3, <2>3 DEF ProcessStep, PollFence, ClearRead, ClearWrite, ClearEnd, Die, Call, Goto,
                      AfterFence, GiveUp, TypeInv, PcOK
  <2> QED BY <2>2, <2>3
<1>4. ASSUME NEW s \in Supervisors, SupervisorStep(s) PROVE pc'[k] = pc[k]
  <2>1. (\E where : Goto(s, where)) \/ UNCHANGED pc
    BY <1>4 DEF SupervisorStep, Quit, AcquireRead, AcquireWrite, AcquireEnd, ReleaseOwner, ReleaseEnd, Call
  <2> QED BY <2>1, GotoElsewhere DEF TypeInv
<1>5. ASSUME NEW j \in Stoppers, StopperStep(j) PROVE pc[k] \in {"new", "admit", "held"}
  <2>1. CASE j # k
    BY <1>2, <1>5, <2>1, StopperMoves, GotoElsewhere DEF TypeInv
  <2>2. CASE j = k
    <3>1. ~Connect(k) /\ ~Refuse(k) /\ ~Leave(k) /\ ~Withdraw(k) /\ ~PersistEnd(k) /\ ~WithdrawEnd(k)
      BY DEF Connect, Refuse, Leave, Withdraw, PersistEnd, WithdrawEnd, Call, Goto, TypeInv, PcOK
    <3>2. CASE RenewEnd(k)
      BY <3>2 DEF RenewEnd, OnSuccess, OnFailure, Goto, TypeInv, PcOK
    <3> QED
      BY <1>5, <1>2, <2>2, <3>1, <3>2 DEF StopperStep, CallAdmit, AdmitRead, AdmitWrite, AdmitEnd, PersistRead,
           PersistWrite, RenewCall, RenewRead, RenewWrite, WithdrawRead, WithdrawWrite
  <2> QED BY <2>1, <2>2
<1> QED BY <1>1, <1>2, <1>3, <1>4, <1>5 DEF Next

FenceSeenDead == \A p \in Procs : pc[p] = "clear" => fenceSeen[p] # NoFence /\ ~Alive(fenceSeen[p][1])

ClearReads == ~stolen => \A p \in Procs : pc[p] = "clear" =>
  /\ Go(Main(p)) => fence = fenceSeen[p]
  /\ step[Main(p)] = "mid" /\ seen[Main(p)] = "gone" => fence = NoFence
  /\ step[Main(p)] = "out" => fence = NoFence

ClearInv == Base /\ FenceSeenDead /\ ClearReads

(* Nobody clears a fence at first.                                       *)
LEMMA ClearInvInit == Init => ClearInv
<1> SUFFICES ASSUME Init PROVE ClearInv
  OBVIOUS
<1>1. \A p \in Procs : pc[p] # "clear"
  BY DEF Init
<1> QED BY <1>1, StandInvInit, RecordInvInit, RenewInvInit DEF ClearInv, Base, FenceSeenDead, ClearReads

(* A fence that is cleared is the one that was read, and its process is dead. *)
LEMMA ClearInvNext == ClearInv /\ [Next]_vars => ClearInv'
<1> SUFFICES ASSUME ClearInv, [Next]_vars PROVE ClearInv'
  OBVIOUS
<1> USE ThreadFacts, ProcFacts
<1>1. Base /\ Base' /\ TypeInv /\ TypeInv' /\ GuardInv /\ (~stolen' => ~stolen)
  BY BaseNext, BaseFacts, TypeInvNext DEF ClearInv
<1>2. FenceSeenDead'
  <2> SUFFICES ASSUME NEW p \in Procs, pc'[p] = "clear"
               PROVE  fenceSeen'[p] # NoFence /\ pc'[fenceSeen'[p][1]] = "dead"
    BY DEF FenceSeenDead, Alive
  <2>1. fenceSeen'[p] # NoFence /\ ~Alive(fenceSeen'[p][1])
    BY <1>1, FenceSeenNext DEF ClearInv, FenceSeenDead
  <2>2. fenceSeen'[p] \in Supervisors \X Stoppers
    BY <1>1, <2>1 DEF TypeInv, FlowOK
  <2>3. fenceSeen'[p][1] \in Procs
    BY <2>2
  <2> QED BY <1>1, <2>1, <2>3, LifeAndDeath DEF Alive
<1>3. ClearReads'
  <2> SUFFICES ASSUME ~stolen', NEW p \in Procs, pc'[p] = "clear", step'[Main(p)] \in {"mid", "out"}
               PROVE  /\ Go(Main(p))' => fence' = fenceSeen'[p]
                      /\ step'[Main(p)] = "mid" /\ seen'[Main(p)] = "gone" => fence' = NoFence
                      /\ step'[Main(p)] = "out" => fence' = NoFence
    BY DEF ClearReads, Go
  <2>1. pc[p] = "clear" /\ fenceSeen'[p] = fenceSeen[p]
    BY <1>1, FenceSeenNext
  <2>2. CASE step'[Main(p)] = step[Main(p)]
    <3>1. fence' = fence /\ seen'[Main(p)] = seen[Main(p)]
      BY <1>1, <2>2, Undisturbed
    <3> QED BY <1>1, <2>1, <2>2, <3>1 DEF ClearInv, ClearReads, Go
  <2>3. CASE step'[Main(p)] # step[Main(p)]
    <3>1. ClearRead(p) \/ ClearWrite(p)
      BY <1>1, <2>1, <2>3, MainStage DEF AcquireRead, AcquireWrite, ReleaseOwner, AdmitRead, AdmitWrite,
         PersistRead, PersistWrite, WithdrawRead, WithdrawWrite
    <3>2. CASE ClearRead(p)
      BY <1>1, <2>1, <3>2 DEF ClearRead, Read, files, Go, TypeInv, StepOK, SeenOK
    <3>3. CASE ClearWrite(p)
      BY <1>1, <3>3 DEF ClearWrite, Write, Go, TypeInv, StepOK
    <3> QED BY <3>1, <3>2, <3>3
  <2> QED BY <2>2, <2>3
<1> QED BY <1>1, <1>2, <1>3 DEF ClearInv

--------------------------------------------------------------------------------
(* A coordinator with a predecessor, past its connection and passed by no*)
(* supervisor: the only record it can find is its predecessor's, and from*)
(* persisting the fence to the end of the wait the fence names it.       *)
EarlyTarget == \A k \in Stoppers : pc[k] \in {"new", "admit", "held"} => target[k] = Nobody

TargetServed ==
  \A k \in Stoppers : target[k] # Nobody => pc[target[k]] \in {"owner", "release", "released", "dead"}

Unpassed(k) ==
  /\ pc[k] \in {"persist", "check", "fence", "clear", "recheck"}
  /\ target[k] # Nobody /\ ~started[k]

OnlyTarget == \A k \in Stoppers : Unpassed(k) => \A s \in Supervisors : HasRecord(s) => s = target[k]

PersistReads == ~stolen => \A j \in Stoppers :
  pc[j] = "persist" /\ step[Main(j)] \in {"mid", "out"} /\ seen[Main(j)] = "go" =>
    /\ dirs = {target[j]}
    /\ \A k \in Stoppers : Unpassed(k) /\ Alive(target[k]) => target[k] = target[j]
    /\ step[Main(j)] = "out" => fence # NoFence /\ fence[1] = target[j]

Fenced == ~stolen => \A k \in Stoppers :
  Unpassed(k) /\ pc[k] \in {"check", "fence", "clear"} /\ Alive(target[k]) =>
    fence # NoFence /\ fence[1] = target[k]

AwaitedDead == ~stolen => \A k \in Stoppers : Unpassed(k) /\ pc[k] = "recheck" => ~Alive(target[k])

HandInv ==
  /\ ClearInv /\ EarlyTarget /\ TargetServed
  /\ OnlyTarget /\ PersistReads /\ Fenced /\ AwaitedDead

(* Nobody waits for a predecessor at first.                              *)
LEMMA HandInvInit == Init => HandInv
<1> SUFFICES ASSUME Init PROVE HandInv
  OBVIOUS
<1>1. \A k \in Stoppers : pc[k] = "new" /\ target[k] = Nobody
  BY ProcFacts DEF Init
<1>2. \A k \in Stoppers : ~Unpassed(k)
  BY <1>1 DEF Unpassed
<1> QED
  BY <1>1, <1>2, ClearInvInit DEF HandInv, EarlyTarget, TargetServed, OnlyTarget, PersistReads, Fenced, AwaitedDead

(* Whom a stopper is connected to.                                       *)
LEMMA TargetsNext ==
  ASSUME HandInv, ClearInv', [Next]_vars
  PROVE  EarlyTarget' /\ TargetServed'
<1> USE ThreadFacts, ProcFacts
<1>1. TypeInv /\ TypeInv'
  BY BaseFacts DEF HandInv, ClearInv, Base, StandInv, GuardInv
<1>2. ASSUME NEW k \in Stoppers, pc'[k] \in {"new", "admit", "held"} PROVE target'[k] = Nobody
  <2>1. pc[k] \in {"new", "admit", "held"}
    BY <1>1, <1>2, EarlyBefore
  <2>2. ~(Connect(k) /\ pc'[k] = "persist")
    BY <1>2
  <2> QED BY <1>1, <2>1, <2>2, TargetNext DEF HandInv, EarlyTarget
<1>3. ASSUME NEW k \in Stoppers, target'[k] # Nobody
      PROVE  pc'[target'[k]] \in {"owner", "release", "released", "dead"}
  <2>1. target'[k] \in Supervisors
    BY <1>1, <1>3 DEF TypeInv, FlowOK
  <2>2. pc[target'[k]] \in {"owner", "release", "released", "dead"}
    BY <1>1, <1>3, TargetNext DEF HandInv, TargetServed
  <2> QED BY <1>1, <2>1, <2>2, ServingNext
<1> QED BY <1>2, <1>3 DEF EarlyTarget, TargetServed

(* A coordinator comes past its connection by connecting.                *)
LEMMA UnpassedNext ==
  ASSUME HandInv, [Next]_vars, NEW k \in Stoppers, Unpassed(k)'
  PROVE  \/ Unpassed(k) /\ target'[k] = target[k]
         \/ /\ Connect(k) /\ pc[k] = "held" /\ pc'[k] = "persist"
            /\ target'[k] \in Supervisors /\ HasRecord(target'[k])
<1> USE ThreadFacts, ProcFacts
<1>1. TypeInv /\ OwnerInv
  BY BaseFacts DEF HandInv, ClearInv
<1>2. pc'[k] \in Holding /\ ~started'[k] /\ target'[k] # Nobody
  BY DEF Unpassed, Holding
<1>3. CASE target'[k] = target[k]
  <2>1. pc[k] \in Holding /\ pc[k] # "held"
    BY <1>1, <1>2, <1>3, HoldingNext DEF HandInv, EarlyTarget, AdmitEnd
  <2>2. ~started[k]
    BY <1>1, <1>2, HistoryNext
  <2> QED BY <1>2, <1>3, <2>1, <2>2 DEF Unpassed, Holding
<1>4. CASE target'[k] # target[k]
  <2>1. Connect(k) /\ target'[k] \in Supervisors /\ pc[target'[k]] = "owner" /\ pc'[k] = "persist"
    BY <1>1, <1>2, <1>4, TargetNext
  <2>2. HasRecord(target'[k])
    BY <1>1, <2>1 DEF OwnerInv, SingleOwner, Current, Alive, HasRecord
  <2> QED BY <2>1, <2>2 DEF Connect
<1> QED BY <1>3, <1>4

(* A supervisor that begins to serve passes the coordinators that hold on. *)
LEMMA OnlyTargetNext ==
  ASSUME HandInv, [Next]_vars
  PROVE  OnlyTarget'
<1> USE ThreadFacts, ProcFacts
<1>1. TypeInv /\ RecordInv
  BY BaseFacts DEF HandInv, ClearInv, Base
<1> SUFFICES ASSUME NEW k \in Stoppers, Unpassed(k)', NEW s \in Supervisors, HasRecord(s)'
             PROVE  s = target'[k]
  BY DEF OnlyTarget
<1>2. pc'[k] \in Holding /\ ~started'[k]
  BY DEF Unpassed, Holding
<1>3. CASE Unpassed(k) /\ target'[k] = target[k]
  <2>1. ASSUME AcquireEnd(s), Acquiring(s) PROVE FALSE
    BY <1>1, <1>2, <1>3, <2>1 DEF AcquireEnd, Acquiring, Held, Goto, Unpassed, Holding, TypeInv, PcOK, OtherOK
  <2> QED BY <1>1, <1>3, <2>1, RecordNext DEF HandInv, OnlyTarget
<1>4. CASE ~(Unpassed(k) /\ target'[k] = target[k])
  <2>1. pc[k] = "held" /\ pc'[k] = "persist" /\ target'[k] \in Supervisors /\ HasRecord(target'[k])
    BY <1>4, UnpassedNext
  <2>2. ~AcquireEnd(s)
    BY <1>1, <2>1 DEF AcquireEnd, Goto, TypeInv, PcOK
  <2> QED BY <1>1, <2>1, <2>2, RecordNext DEF RecordInv, OneRecord
<1> QED BY <1>3, <1>4

(* The ways from persisting the fence, and to the last check of the lease. *)
LEMMA WaitSteps ==
  ASSUME TypeInv, [Next]_vars, NEW k \in Stoppers
  PROVE  /\ pc[k] = "persist" /\ pc'[k] \in {"check", "fence", "clear"} =>
              step[Main(k)] = "out" /\ seen[Main(k)] = "go"
         /\ pc[k] # "recheck" /\ pc'[k] = "recheck" =>
              \/ pc[k] = "fence" /\ fence = NoFence
              \/ pc[k] = "clear" /\ Over(Main(k)) /\ seen[Main(k)] \in {"go", "gone"}
<1> USE ThreadFacts, ProcFacts
<1> DEFINE Ways ==
      /\ pc[k] = "persist" /\ pc'[k] \in {"check", "fence", "clear"} =>
           step[Main(k)] = "out" /\ seen[Main(k)] = "go"
      /\ pc[k] # "recheck" /\ pc'[k] = "recheck" =>
           \/ pc[k] = "fence" /\ fence = NoFence
           \/ pc[k] = "clear" /\ Over(Main(k)) /\ seen[Main(k)] \in {"go", "gone"}
<1>1. ASSUME pc'[k] = pc[k] PROVE Ways
  BY <1>1
<1>2. ASSUME UNCHANGED vars \/ Expire \/ \E t \in Threads : Lock(t) PROVE Ways
  BY <1>2 DEF vars, Expire, Lock
<1>3. ASSUME NEW p \in Procs, ProcessStep(p) PROVE Ways
  <2>1. CASE p # k
    <3>1. (\E where : Goto(p, where)) \/ UNCHANGED pc
      BY <1>3 DEF ProcessStep, PollFence, ClearRead, ClearWrite, ClearEnd, Die, Call
    <3> QED BY <1>1, <2>1, <3>1, GotoElsewhere DEF TypeInv
  <2>2. CASE p = k
    <3>1. CASE PollFence(k)
      BY <3>1 DEF PollFence, Call, Goto, GiveUp, TypeInv, PcOK
    <3>2. CASE ClearEnd(k)
      BY <3>2 DEF ClearEnd, Goto, GiveUp, TypeInv, PcOK
    <3>3. CASE Die(k)
      BY <3>3 DEF Die, Goto, TypeInv, PcOK
    <3> QED BY <1>1, <1>3, <2>2, <3>1, <3>2, <3>3 DEF ProcessStep, ClearRead, ClearWrite
  <2> QED BY <2>1, <2>2
<1>4. ASSUME NEW s \in Supervisors, SupervisorStep(s) PROVE Ways
  <2>1. (\E where : Goto(s, where)) \/ UNCHANGED pc
    BY <1>4 DEF SupervisorStep, Quit, AcquireRead, AcquireWrite, AcquireEnd, ReleaseOwner, ReleaseEnd, Call
  <2> QED BY <1>1, <2>1, GotoElsewhere DEF TypeInv
<1>5. ASSUME NEW j \in Stoppers, StopperStep(j) PROVE Ways
  <2>1. CASE j # k
    BY <1>1, <1>5, <2>1, StopperMoves, GotoElsewhere DEF TypeInv
  <2>2. CASE j = k
    <3>1. CASE PersistEnd(k)
      BY <3>1 DEF PersistEnd, Held, Over, At, Goto, TypeInv, PcOK
    <3>2. CASE RenewEnd(k)
      BY <3>2 DEF RenewEnd, OnSuccess, OnFailure, Goto, TypeInv, PcOK
    <3>3. CASE CallAdmit(k) \/ AdmitEnd(k) \/ Connect(k) \/ Refuse(k) \/ Leave(k) \/ Withdraw(k) \/ WithdrawEnd(k)
      BY <3>3 DEF CallAdmit, AdmitEnd, Connect, Refuse, Leave, Withdraw, WithdrawEnd, Call, Goto, TypeInv, PcOK
    <3> QED
      BY <1>1, <1>5, <2>2, <3>1, <3>2, <3>3 DEF StopperStep, AdmitRead, AdmitWrite, PersistRead,
           PersistWrite, RenewCall, RenewRead, RenewWrite, WithdrawRead, WithdrawWrite
  <2> QED BY <2>1, <2>2
<1> QED BY <1>2, <1>3, <1>4, <1>5 DEF Next

(* The fence that a coordinator writes names the only supervisor that any*)
(* coordinator past its connection can still wait for.                   *)
LEMMA PersistNext ==
  ASSUME HandInv, [Next]_vars, ~stolen, ~stolen'
  PROVE  PersistReads'
<1> USE ThreadFacts, ProcFacts
<1>1. Base /\ TypeInv /\ TypeInv' /\ GuardInv /\ RecordInv
  BY BaseFacts, TypeInvNext DEF HandInv, ClearInv, Base
<1> SUFFICES ASSUME NEW j \in Stoppers, pc'[j] = "persist", step'[Main(j)] \in {"mid", "out"}, seen'[Main(j)] = "go"
    PROVE  /\ dirs' = {target'[j]}
           /\ \A k \in Stoppers : Unpassed(k)' /\ Alive(target[k])' => target'[k] = target'[j]
           /\ step'[Main(j)] = "out" => fence' # NoFence /\ fence'[1] = target'[j]
  BY DEF PersistReads
<1>2. pc[j] = "persist"
  BY <1>1, Entering DEF Guarded
<1>3. target'[j] = target[j]
  <2>1. ~Connect(j) /\ ~Withdraw(j) /\ ~Die(j)
    BY <1>1, <1>2 DEF Connect, Withdraw, Die, Goto, TypeInv, PcOK
  <2> QED BY <1>1, <2>1, TargetNext
<1>4. ASSUME NEW k \in Stoppers, Unpassed(k)', Alive(target[k])', Unpassed(k), target'[k] = target[k]
      PROVE  Alive(target[k])
  <2>1. target[k] \in Procs
    BY <1>1, <1>4 DEF TypeInv, FlowOK, Unpassed
  <2> QED BY <1>1, <1>4, <2>1, LifeAndDeath DEF Alive
<1>5. CASE step'[Main(j)] = step[Main(j)]
  <2>1. dirs' = dirs /\ fence' = fence /\ seen'[Main(j)] = seen[Main(j)]
    BY <1>1, <1>5, Undisturbed
  <2>2. /\ dirs = {target[j]}
        /\ \A k \in Stoppers : Unpassed(k) /\ Alive(target[k]) => target[k] = target[j]
        /\ step[Main(j)] = "out" => fence # NoFence /\ fence[1] = target[j]
    BY <1>2, <1>5, <2>1 DEF HandInv, PersistReads
  <2>3. ASSUME NEW k \in Stoppers, Unpassed(k)', Alive(target[k])' PROVE target'[k] = target[j]
    BY <1>4, <2>2, <2>3, UnpassedNext DEF HasRecord
  <2> QED BY <1>3, <1>5, <2>1, <2>2, <2>3
<1>6. CASE step'[Main(j)] # step[Main(j)]
  <2>1. PersistRead(j) \/ PersistWrite(j)
    BY <1>1, <1>2, <1>6, MainStage DEF ClearRead, ClearWrite, AcquireRead, AcquireWrite, ReleaseOwner,
       AdmitRead, AdmitWrite, WithdrawRead, WithdrawWrite
  <2>2. ASSUME NEW k \in Stoppers, Unpassed(k)' PROVE Unpassed(k) /\ target'[k] = target[k]
    <3>1. pc'[k] = pc[k]
      BY <2>1 DEF PersistRead, PersistWrite
    <3> QED BY <2>2, <3>1, UnpassedNext
  <2>3. CASE PersistRead(j)
    <3>1. dirs = {target[j]} /\ Alive(target[j]) /\ dirs' = dirs /\ step'[Main(j)] = "mid"
      BY <1>1, <2>3 DEF PersistRead, Read, files, TypeInv, StepOK, SeenOK
    <3>2. target[j] \in Supervisors /\ target[j] # Nobody
      BY <1>1, <1>2 DEF TypeInv, PersistTarget, FlowOK
    <3>3. HasRecord(target[j])
      BY <1>1, <3>1, <3>2 DEF HandInv, TargetServed, RecordInv, ReleasedGone, HasRecord, Alive
    <3> QED BY <1>3, <2>2, <3>1, <3>2, <3>3 DEF HandInv, OnlyTarget
  <2>4. CASE PersistWrite(j)
    <3>1. /\ step[Main(j)] = "mid" /\ seen[Main(j)] = "go" /\ dirs' = dirs
          /\ fence' = <<target[j], j>>
      BY <2>4 DEF PersistWrite, Write, At
    <3>2. fence' # NoFence /\ fence'[1] = target[j]
      BY <3>1 DEF NoFence
    <3>3. /\ dirs = {target[j]}
          /\ \A k \in Stoppers : Unpassed(k) /\ Alive(target[k]) => target[k] = target[j]
      BY <1>2, <3>1 DEF HandInv, PersistReads
    <3> QED BY <1>3, <1>4, <2>2, <3>1, <3>2, <3>3
  <2> QED BY <2>1, <2>3, <2>4
<1> QED BY <1>5, <1>6

(* The fence names a predecessor that lives until the wait for it is over. *)
LEMMA FencedNext ==
  ASSUME HandInv, [Next]_vars, ~stolen, ~stolen'
  PROVE  Fenced' /\ AwaitedDead'
<1> USE ThreadFacts, ProcFacts
<1>1. ClearInv /\ Base /\ TypeInv /\ TypeInv'
  BY BaseFacts, TypeInvNext DEF HandInv, ClearInv
<1>2. ASSUME NEW k \in Stoppers, Unpassed(k)', pc'[k] \in {"check", "fence", "clear", "recheck"}, Alive(target[k])'
      PROVE  Unpassed(k) /\ target'[k] = target[k] /\ Alive(target[k])
  <2>1. Unpassed(k) /\ target'[k] = target[k]
    BY <1>2, UnpassedNext
  <2>2. target[k] \in Procs
    BY <1>1, <2>1 DEF TypeInv, FlowOK, Unpassed
  <2> QED BY <1>1, <1>2, <2>1, <2>2, LifeAndDeath DEF Alive
<1>3. ASSUME NEW k \in Stoppers, Unpassed(k)', pc'[k] \in {"check", "fence", "clear"}, Alive(target[k])'
      PROVE  fence' # NoFence /\ fence'[1] = target'[k]
  <2>1. Unpassed(k) /\ target'[k] = target[k] /\ Alive(target[k]) /\ pc[k] # "recheck"
    BY <1>2, <1>3 DEF HandInv, AwaitedDead
  <2>2. pc[k] \in {"check", "fence", "clear"} => fence # NoFence /\ fence[1] = target[k]
    BY <2>1 DEF HandInv, Fenced
  <2>3. CASE fence' = fence
    <3>1. CASE pc[k] = "persist"
      <4>1. step[Main(k)] = "out" /\ seen[Main(k)] = "go"
        BY <1>1, <1>3, <3>1, WaitSteps
      <4> QED BY <2>1, <2>3, <3>1, <4>1 DEF HandInv, PersistReads
    <3> QED BY <2>1, <2>2, <2>3, <3>1 DEF Unpassed
  <2>4. ASSUME NEW p \in Procs, ClearWrite(p) PROVE FALSE
    <3>1. pc[k] \in {"check", "fence", "clear"}
      BY <1>3, <2>4 DEF ClearWrite
    <3>2. fence = fenceSeen[p] /\ ~Alive(fenceSeen[p][1])
      BY <1>1, <2>4 DEF ClearWrite, Write, At, Go, ClearInv, ClearReads, FenceSeenDead
    <3> QED BY <2>1, <2>2, <3>1, <3>2
  <2>5. ASSUME NEW j \in Stoppers, PersistWrite(j) PROVE fence' # NoFence /\ fence'[1] = target'[k]
    <3>1. target[k] = target[j]
      BY <2>1, <2>5 DEF PersistWrite, Write, At, HandInv, PersistReads
    <3>2. fence' = <<target[j], j>>
      BY <2>5 DEF PersistWrite
    <3> QED BY <2>1, <3>1, <3>2 DEF NoFence
  <2> QED BY <2>3, <2>4, <2>5, FilesWritten
<1>4. ASSUME NEW k \in Stoppers, Unpassed(k)', pc'[k] = "recheck", Alive(target[k])' PROVE FALSE
  <2>1. Unpassed(k) /\ Alive(target[k])
    BY <1>2, <1>4
  <2>2. pc[k] # "recheck"
    BY <2>1 DEF HandInv, AwaitedDead
  <2>3. \/ pc[k] = "fence" /\ fence = NoFence
        \/ pc[k] = "clear" /\ Over(Main(k)) /\ seen[Main(k)] \in {"go", "gone"}
    BY <1>1, <1>4, <2>2, WaitSteps
  <2>4. fence = NoFence
    BY <1>1, <2>3 DEF Over, At, ClearInv, ClearReads
  <2> QED BY <2>1, <2>3, <2>4 DEF HandInv, Fenced
<1> QED BY <1>3, <1>4 DEF Fenced, AwaitedDead

(* Every step keeps what is said of coordinators and fences.             *)
LEMMA HandInvNext == HandInv /\ [Next]_vars => HandInv'
<1> SUFFICES ASSUME HandInv, [Next]_vars PROVE HandInv'
  OBVIOUS
<1>1. ClearInv' /\ (~stolen' => ~stolen)
  BY ClearInvNext, BaseNext DEF HandInv, ClearInv
<1>2. EarlyTarget' /\ TargetServed' /\ OnlyTarget'
  BY <1>1, TargetsNext, OnlyTargetNext
<1>3. PersistReads' /\ Fenced' /\ AwaitedDead'
  <2>1. CASE stolen'
    BY <2>1 DEF PersistReads, Fenced, AwaitedDead
  <2>2. CASE ~stolen'
    BY <1>1, <2>2, PersistNext, FencedNext
  <2> QED BY <2>1, <2>2
<1> QED BY <1>1, <1>2, <1>3 DEF HandInv

(* HandInv holds in every reachable state.                               *)
LEMMA HandInvariant == Spec => []HandInv
  BY HandInvInit, HandInvNext, PTL DEF Spec

--------------------------------------------------------------------------------
(* While no guard was lost, no renewal ends with one.                    *)
Unshaken == ~stolen => \A k \in Stoppers : ~shaken[k]

(* A renewal ends with a lost guard only when somebody took it.          *)
LEMMA UnshakenNext == GuardInv /\ Unshaken /\ [Next]_vars => Unshaken'
<1> SUFFICES ASSUME GuardInv, Unshaken, [Next]_vars, ~stolen', NEW k \in Stoppers PROVE ~shaken'[k]
  BY DEF Unshaken
<1> USE ThreadFacts, ProcFacts DEF history
<1>1. TypeInv /\ ~stolen /\ ~shaken[k]
  BY StolenStays DEF GuardInv, Unshaken
<1>2. CASE UNCHANGED vars \/ Expire \/ \E t \in Threads : Lock(t)
  BY <1>1, <1>2 DEF vars, Expire, Lock
<1>3. ASSUME NEW p \in Procs, ProcessStep(p) PROVE ~shaken'[k]
  <2>1. CASE Die(p)
    BY <1>1, <2>1 DEF Die, Forget, TypeInv, OtherOK
  <2>2. CASE ~Die(p)
    BY <1>1, <1>3, <2>2 DEF ProcessStep, PollFence, ClearRead, ClearWrite, ClearEnd
  <2> QED BY <2>1, <2>2
<1>4. ASSUME NEW s \in Supervisors, SupervisorStep(s) PROVE ~shaken'[k]
  BY <1>1, <1>4 DEF SupervisorStep, Quit, AcquireRead, AcquireWrite, AcquireEnd, ReleaseOwner, ReleaseEnd
<1>5. ASSUME NEW j \in Stoppers, StopperStep(j) PROVE ~shaken'[k]
  <2>1. CASE RenewEnd(j)
    <3>1. guard = Renew(j)
      BY <1>1, <2>1 DEF RenewEnd, Over, At, Inside, GuardInv, Exclusive
    <3> QED BY <1>1, <2>1, <3>1 DEF RenewEnd, Held, TypeInv, OtherOK
  <2>2. CASE Withdraw(j)
    BY <1>1, <2>2 DEF Withdraw, TypeInv, OtherOK
  <2>3. CASE ~RenewEnd(j) /\ ~Withdraw(j)
    BY <1>1, <1>5, <2>3 DEF StopperStep, CallAdmit, AdmitRead, AdmitWrite, AdmitEnd, Connect,
         PersistRead, PersistWrite, PersistEnd, Refuse, RenewCall, RenewRead, RenewWrite,
         Leave, WithdrawRead, WithdrawWrite, WithdrawEnd
  <2> QED BY <2>1, <2>2, <2>3
<1> QED BY <1>1, <1>2, <1>3, <1>4, <1>5 DEF Next

(* Unshaken holds in every reachable state.                              *)
LEMMA UnshakenInvariant == Spec => []Unshaken
<1>1. Init => Unshaken
  BY DEF Init, Unshaken
<1>2. HandInv => GuardInv
  BY BaseFacts DEF HandInv, ClearInv
<1> QED BY <1>1, <1>2, UnshakenNext, HandInvariant, PTL DEF Spec

(* A fence of a live process is not cleared, whoever waits for it, and a *)
(* coordinator's last check of its lease succeeds only when the          *)
(* predecessor that it fenced is dead and no supervisor serves, while no *)
(* stalled holder lost the guard (SupervisorOwnership.HandOverIsClean).  *)
THEOREM HandOversAreClean == Spec => HandOverIsClean
<1> USE ThreadFacts, ProcFacts
<1> DEFINE Clean == ~stolen =>
      /\ fence # NoFence /\ Alive(fence[1]) => fence' # NoFence
      /\ \A k \in Stoppers :
            pc[k] = "recheck" /\ At(Renew(k), "out") /\ Renewed(k) /\ target[k] # Nobody =>
                ~Alive(target[k]) /\ \A s \in Supervisors : ~Current(s)
<1>1. ASSUME HandInv, Unshaken, [Next]_vars, ~stolen PROVE Clean
  <2>1. ClearInv /\ RecordInv /\ RenewInv /\ OwnerInv /\ TypeInv
    BY <1>1, BaseFacts DEF HandInv, ClearInv, Base
  <2>2. ASSUME fence # NoFence, Alive(fence[1]) PROVE fence' # NoFence
    <3>1. ASSUME NEW p \in Procs, ClearWrite(p) PROVE FALSE
      <4>1. fence = fenceSeen[p] /\ ~Alive(fenceSeen[p][1])
        BY <1>1, <2>1, <3>1 DEF ClearWrite, Write, At, Go, ClearInv, ClearReads, FenceSeenDead
      <4> QED BY <2>2, <4>1
    <3>2. ASSUME NEW j \in Stoppers, PersistWrite(j) PROVE fence' # NoFence
      BY <3>2 DEF PersistWrite, NoFence
    <3> QED BY <1>1, <2>2, <3>1, <3>2, FilesWritten
  <2>3. ASSUME NEW k \in Stoppers, pc[k] = "recheck", At(Renew(k), "out"), Renewed(k), target[k] # Nobody
        PROVE  ~Alive(target[k]) /\ \A s \in Supervisors : ~Current(s)
    <3>1. ~started[k]
      BY <1>1, <2>1, <2>3 DEF RenewInv, Passed, Superseded, Unshaken, At, Renewed, Held
    <3>2. Unpassed(k)
      BY <2>3, <3>1 DEF Unpassed
    <3>3. ~Alive(target[k])
      BY <1>1, <2>3, <3>2 DEF HandInv, AwaitedDead
    <3>4. ASSUME NEW s \in Supervisors, Current(s) PROVE FALSE
      <4>1. HasRecord(s)
        BY <2>1, <3>4 DEF OwnerInv, SingleOwner, Current, HasRecord
      <4>2. s = target[k]
        BY <1>1, <3>2, <4>1 DEF HandInv, OnlyTarget
      <4> QED BY <3>3, <3>4, <4>2 DEF Current
    <3> QED BY <3>3, <3>4
  <2> QED BY <2>2, <2>3
<1>2. HandInv /\ Unshaken /\ [Next]_vars => [Clean]_vars
  BY <1>1
<1> QED BY <1>2, HandInvariant, UnshakenInvariant, PTL DEF Spec, HandOverIsClean
=============================================================================
