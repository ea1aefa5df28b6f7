------------------------ MODULE DeployOperationProofs -----------------------
(***************************************************************************)
(* The safety theorems of the deployment operation: every step keeps IndInv,*)
(* so it holds in every reachable state, and the safety properties follow. *)
(***************************************************************************)
EXTENDS DeployArmProofs, DeployWatchProofs, DeployRecoverProofs

\* Every step of the system keeps the invariant: of the controller, the verify
\* call, the watch units, the watchdog, a recovery, the mutations, the clock,
\* and the death of any process.
LEMMA NextInv == IndInv /\ [Next]_vars => IndInv'
<1> SUFFICES ASSUME IndInv, [Next]_vars PROVE IndInv'
  OBVIOUS
<1>1. CASE Tick
  BY <1>1, TickStep
<1>2. CASE ArmStep
  BY <1>2, ArmStepInv
<1>3. CASE CommitStep
  BY <1>3, CommitStepInv
<1>4. CASE DogStep
  BY <1>4, DogStepInv
<1>5. CASE \E g \in Gen : ArmCall(g) \/ VerifyCall(g) \/ RecoverCall(g) \/ WatchStep(g)
  BY <1>5, ArmCallStep, VerifyCallStep, RecoverCallStep, WatchStepInv
<1>6. CASE \E p \in Recoverer : RecoverStep(p)
  BY <1>6, RecoverStepInv
<1>7. CASE \E p \in Proc : Crash(p)
  BY <1>7, CrashStep
<1>8. CASE \E phase \in Phases, t \in Time : Grant(phase, t)
  BY <1>8, GrantStep
<1>9. CASE \E id \in 1 .. MaxLease : Release(id)
  BY <1>9, ReleaseStep
<1>10. CASE \E w \in writers : MutationEnds(w)
  BY <1>10, MutationEndsStep
<1>11. CASE \E w \in writers, content \in Disk, reboot \in BOOLEAN : Mutate(w, content, reboot)
  BY <1>11, MutateStep
<1>12. CASE UNCHANGED vars
  <2>1. TypeOK' /\ ControlInv' /\ CoordInv'
    BY <1>12 DEF IndInv, vars, TypeOK, ControlInv, CoordInv
  <2>2. RecoveryInv' /\ CommitInv'
    BY <1>12 DEF IndInv, vars, RecoveryInv, CommitInv, Restoring
  <2>3. WriterInv' /\ SettledDisk'
    BY <1>12 DEF IndInv, vars, WriterInv, SettledDisk
  <2> QED
    BY <2>1, <2>2, <2>3 DEF IndInv
<1> QED
  BY <1>1, <1>2, <1>3, <1>4, <1>5, <1>6, <1>7, <1>8, <1>9, <1>10, <1>11, <1>12 DEF Next

\* The invariant holds in every reachable state, for any number of operations,
\* leases, crashes and any time bounds.
THEOREM Invariance == Spec => []IndInv
<1>1. Init => IndInv
  BY InitInv
<1>2. IndInv /\ [Next]_vars => IndInv'
  BY NextInv
<1> QED
  BY <1>1, <1>2, PTL DEF Spec

\* The record, the locks and the locals of every process keep their types.
THEOREM TypeCorrect == Spec => []TypeOK
<1>1. IndInv => TypeOK
  BY DEF IndInv
<1> QED
  BY <1>1, Invariance, PTL

\* A committed operation left its target on the disk and a recovered one the
\* baseline of its snapshot (Engine.Commit, Store.finishRecovery).
THEOREM SettledDiskHolds == Spec => []SettledDisk
<1>1. IndInv => SettledDisk
  BY DEF IndInv
<1> QED
  BY <1>1, Invariance, PTL

\* While a recovery stops, rolls back, starts and verifies the VM (Restore), the
\* record is "recovering" for its operation and no mutation is in flight.
THEOREM RestoreFenced == Spec => []RestoreIsFenced
<1>1. IndInv => RestoreIsFenced
  <2> SUFFICES ASSUME IndInv, NEW p \in Recoverer, Restoring(p)
               PROVE  rec.status = "recovering" /\ rec.gen = arg[p] /\ writers = {}
    BY DEF RestoreIsFenced
  <2>1. rec.status = "recovering" /\ rec.gen = arg[p] /\ ~LeaseHeld(rec, now)
    BY DEF IndInv, RecoveryInv, Restoring, RecoverPCs
  <2>2. \A w \in writers : rec.lease.id = w.id /\ rec.lease.expires = w.expires /\ w.expires > now
    BY DEF IndInv, WriterInv
  <2>3. \A w \in writers : w.id # 0
    BY BoundsAssumption DEF IndInv, TypeOK, Writer
  <2>4. writers = {}
    BY <2>1, <2>2, <2>3 DEF LeaseHeld
  <2> QED
    BY <2>1, <2>4
<1> QED
  BY <1>1, Invariance, PTL

\* Whoever drains or restores owns the coordinator (rollback.Acquire), so two
\* recoverers never restore at once.
THEOREM OneRestorerHolds == Spec => []OneRestorer
<1>1. IndInv => OneRestorer
  BY DEF IndInv, CoordInv, OneRestorer, Restoring, RecoverPCs
<1> QED
  BY <1>1, Invariance, PTL

\* A mutation in flight holds the one lease of an unsettled record
\* (Store.Grant, Store.Release, Store.Commit).
THEOREM WriterLeased == Spec => []WriterHoldsLease
<1>1. IndInv => WriterHoldsLease
  BY DEF IndInv, WriterInv, WriterHoldsLease
<1> QED
  BY <1>1, Invariance, PTL
=============================================================================
