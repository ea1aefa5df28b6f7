------------------------- MODULE DeployRecoverProofs ------------------------
(***************************************************************************)
(* The steps of a restoration (Engine.RecoverCoordinated) and of a commit  *)
(* (Engine.Commit) keep the inductive invariant.                           *)
(***************************************************************************)
EXTENDS DeployFacts

\* The step RecoverCall (executeCurrentDeployOperation) keeps the invariant.
LEMMA RecoverCallStep ==
  ASSUME IndInv, NEW g \in Gen, RecoverCall(g)
  PROVE  IndInv'
<1>1. pc' \in [Proc -> PCs]
  BY Zenon DEF IndInv, TypeOK, RecoverCall, Goto, PCs
<1>2. arg' \in [Proc -> 0 .. MaxGen]
  BY Zenon, GenRange DEF IndInv, TypeOK, RecoverCall, Goto, Record
<1>3. calls' \in [arm : 0 .. MaxArms, verify : 0 .. MaxVerifies, recover : 0 .. MaxRecovers]
  BY BoundsAssumption DEF IndInv, TypeOK, RecoverCall, Goto
<1>4. TypeOK'
  BY <1>1, <1>2, <1>3 DEF IndInv, TypeOK, RecoverCall, Goto
<1>5. ControlInv'
  BY ProcFacts DEF IndInv, RecoverCall, Goto, TypeOK, ControlInv, ArmPCs, VerifyPCs, WatchPCs, DogPCs, CliPCs, RecoverPCs
<1>6. CoordInv'
  BY DEF IndInv, RecoverCall, Goto, CoordInv
<1>7. RecoveryInv'
  BY DEF IndInv, RecoverCall, Goto, TypeOK, RecoveryInv, RecoverPCs, Restoring
<1>8. CommitInv'
  BY DEF IndInv, RecoverCall, Goto, CommitInv
<1>9. WriterInv'
  BY DEF IndInv, RecoverCall, Goto, WriterInv
<1>10. SettledDisk'
  BY DEF IndInv, RecoverCall, Goto, SettledDisk
<1> QED
  BY <1>4, <1>5, <1>6, <1>7, <1>8, <1>9, <1>10 DEF IndInv

\* The step RecLock (Engine.Recover) keeps the invariant.
LEMMA RecLockStep ==
  ASSUME IndInv, NEW p \in Recoverer, RecLock(p)
  PROVE  IndInv'
<1>1. coord' \in Proc \cup {None}
  BY ProcFacts DEF IndInv, TypeOK, RecLock, Acquire, Goto
<1>2. pc' \in [Proc -> PCs]
  BY Zenon DEF IndInv, TypeOK, RecLock, Acquire, Goto, PCs
<1>3. TypeOK'
  BY <1>1, <1>2 DEF IndInv, TypeOK, RecLock, Acquire, Goto
<1>4. ControlInv'
  BY DEF IndInv, RecLock, Acquire, Goto, TypeOK, ControlInv, ArmPCs, VerifyPCs, WatchPCs, DogPCs, CliPCs, RecoverPCs
<1>5. CoordInv'
  BY ProcFacts DEF IndInv, RecLock, Acquire, Goto, TypeOK, CoordInv, RecoverPCs
<1>6. RecoveryInv'
  BY DEF IndInv, RecLock, Acquire, Goto, TypeOK, RecoveryInv, RecoverPCs, Restoring
<1>7. CommitInv'
  BY DEF IndInv, RecLock, Acquire, Goto, CommitInv
<1>8. WriterInv'
  BY DEF IndInv, RecLock, Acquire, Goto, WriterInv
<1>9. SettledDisk'
  BY DEF IndInv, RecLock, Acquire, Goto, SettledDisk
<1> QED
  BY <1>3, <1>4, <1>5, <1>6, <1>7, <1>8, <1>9 DEF IndInv

\* The step RecBegin (Engine.RecoverCoordinated) keeps the invariant.
LEMMA RecBeginStep ==
  ASSUME IndInv, NEW p \in Recoverer, RecBegin(p)
  PROVE  IndInv'
<1>1. rec' \in Record
  BY NullTypes DEF IndInv, TypeOK, RecBegin, BeginRecovery, Exact, Goto, Settled, Record, Statuses, Obs, Outcomes
<1>2. pc' \in [Proc -> PCs]
  BY Zenon DEF IndInv, TypeOK, RecBegin, BeginRecovery, Exact, Goto, Settled, PCs
<1>3. TypeOK'
  BY <1>1, <1>2 DEF IndInv, TypeOK, RecBegin, BeginRecovery, Exact, Goto, Settled
<1>4. ControlInv'
  BY DEF IndInv, RecBegin, BeginRecovery, Exact, Goto, Settled, TypeOK, ControlInv, ArmPCs, VerifyPCs, WatchPCs, DogPCs, CliPCs, RecoverPCs
<1>5. CoordInv'
  BY DEF IndInv, RecBegin, BeginRecovery, Exact, Goto, Settled, TypeOK, CoordInv, RecoverPCs
<1>6. RecoveryInv'
  <2>1. arg[p] \in Gen
    BY ProcFacts DEF IndInv, ControlInv, RecBegin, RecoverPCs
  <2>2. rec'.status = "recovering" /\ rec'.gen = rec.gen /\ rec.gen = arg[p]
    BY <2>1, ProcFacts DEF IndInv, TypeOK, ControlInv, Record, Statuses, RecBegin, Exact, BeginRecovery, Settled
  <2>3. coord = p
    BY DEF IndInv, CoordInv, RecBegin, RecoverPCs
  <2> QED
    BY <2>2, <2>3 DEF IndInv, TypeOK, CoordInv, RecoveryInv, RecBegin, Goto, RecoverPCs, Restoring
<1>7. CommitInv'
  BY ProcFacts DEF IndInv, RecBegin, BeginRecovery, Exact, Goto, Settled, TypeOK, CommitInv
<1>8. WriterInv'
  BY DEF IndInv, RecBegin, BeginRecovery, Exact, Goto, Settled, WriterInv
<1>9. SettledDisk'
  BY DEF IndInv, RecBegin, BeginRecovery, Exact, Goto, Settled, SettledDisk
<1> QED
  BY <1>3, <1>4, <1>5, <1>6, <1>7, <1>8, <1>9 DEF IndInv

\* The step RecRefused (Engine.RecoverCoordinated) keeps the invariant.
LEMMA RecRefusedStep ==
  ASSUME IndInv, NEW p \in Recoverer, RecRefused(p)
  PROVE  IndInv'
<1>1. Leave(p)
  BY DEF RecRefused
<1>2. LeaveTypes
  BY <1>1, LeaveType, ProcFacts DEF IndInv
<1>3. TypeOK'
  BY <1>2 DEF IndInv, TypeOK, RecRefused, LeaveTypes
<1>4. ControlInv'
  BY <1>1, ProcFacts DEF IndInv, RecRefused, Leave, TypeOK, ControlInv, ArmPCs, VerifyPCs, WatchPCs, DogPCs, CliPCs, RecoverPCs
<1>5. CoordInv'
  BY <1>1 DEF IndInv, RecRefused, Leave, TypeOK, CoordInv, RecoverPCs
<1>6. RecoveryInv'
  BY <1>1 DEF IndInv, RecRefused, Leave, TypeOK, RecoveryInv, RecoverPCs, Restoring
<1>7. CommitInv'
  BY <1>1 DEF IndInv, RecRefused, Leave, TypeOK, CommitInv
<1>8. WriterInv'
  BY DEF IndInv, RecRefused, WriterInv
<1>9. SettledDisk'
  BY DEF IndInv, RecRefused, SettledDisk
<1> QED
  BY <1>3, <1>4, <1>5, <1>6, <1>7, <1>8, <1>9 DEF IndInv

\* The step RecDrain (Store.WaitForLease) keeps the invariant.
LEMMA RecDrainStep ==
  ASSUME IndInv, NEW p \in Recoverer, RecDrain(p)
  PROVE  IndInv'
<1>1. pc' \in [Proc -> PCs]
  BY Zenon DEF IndInv, TypeOK, RecDrain, Goto, RestorePermitted, Exact, PCs
<1>2. TypeOK'
  BY <1>1 DEF IndInv, TypeOK, RecDrain, Goto, RestorePermitted, Exact
<1>3. ControlInv'
  BY DEF IndInv, RecDrain, Goto, RestorePermitted, Exact, TypeOK, ControlInv, ArmPCs, VerifyPCs, WatchPCs, DogPCs, CliPCs, RecoverPCs
<1>4. CoordInv'
  BY DEF IndInv, RecDrain, Goto, RestorePermitted, Exact, TypeOK, CoordInv, RecoverPCs
<1>5. RecoveryInv'
  BY DEF IndInv, RecDrain, Goto, RestorePermitted, Exact, RecoveryInv
<1>6. CommitInv'
  BY DEF IndInv, RecDrain, Goto, RestorePermitted, Exact, TypeOK, CommitInv
<1>7. WriterInv'
  BY DEF IndInv, RecDrain, Goto, RestorePermitted, Exact, WriterInv
<1>8. SettledDisk'
  BY DEF IndInv, RecDrain, Goto, RestorePermitted, Exact, SettledDisk
<1> QED
  BY <1>2, <1>3, <1>4, <1>5, <1>6, <1>7, <1>8 DEF IndInv

\* The step RecStop (Restore) keeps the invariant.
LEMMA RecStopStep ==
  ASSUME IndInv, NEW p \in Recoverer, RecStop(p)
  PROVE  IndInv'
<1>1. vm' \in [running : BOOLEAN, disk : Disk, fresh : BOOLEAN]
  BY Zenon DEF IndInv, TypeOK, RecStop, Goto, RestorePermitted, Exact, Record
<1>2. pc' \in [Proc -> PCs]
  BY Zenon DEF IndInv, TypeOK, RecStop, Goto, RestorePermitted, Exact, PCs
<1>3. TypeOK'
  BY <1>1, <1>2 DEF IndInv, TypeOK, RecStop, Goto, RestorePermitted, Exact
<1>4. ControlInv'
  BY DEF IndInv, RecStop, Goto, RestorePermitted, Exact, TypeOK, ControlInv, ArmPCs, VerifyPCs, WatchPCs, DogPCs, CliPCs, RecoverPCs
<1>5. CoordInv'
  BY DEF IndInv, RecStop, Goto, RestorePermitted, Exact, TypeOK, CoordInv, RecoverPCs
<1>6. RecoveryInv'
  BY DEF IndInv, RecStop, Goto, RestorePermitted, Exact, RecoveryInv
<1>7. CommitInv'
  BY DEF IndInv, RecStop, Goto, RestorePermitted, Exact, CommitInv
<1>8. WriterInv'
  BY DEF IndInv, RecStop, Goto, RestorePermitted, Exact, WriterInv
<1>9. SettledDisk'
  BY DEF IndInv, RecStop, Goto, RestorePermitted, Exact, SettledDisk
<1> QED
  BY <1>3, <1>4, <1>5, <1>6, <1>7, <1>8, <1>9 DEF IndInv

\* The step RecRollback (Restore) keeps the invariant.
LEMMA RecRollbackStep ==
  ASSUME IndInv, NEW p \in Recoverer, RecRollback(p)
  PROVE  IndInv'
<1>1. vm' \in [running : BOOLEAN, disk : Disk, fresh : BOOLEAN]
  BY Zenon DEF IndInv, TypeOK, RecRollback, Goto, Record
<1>2. pc' \in [Proc -> PCs]
  BY Zenon DEF IndInv, TypeOK, RecRollback, Goto, PCs
<1>3. TypeOK'
  BY <1>1, <1>2 DEF IndInv, TypeOK, RecRollback, Goto
<1>4. ControlInv'
  BY DEF IndInv, RecRollback, Goto, TypeOK, ControlInv, ArmPCs, VerifyPCs, WatchPCs, DogPCs, CliPCs, RecoverPCs
<1>5. CoordInv'
  BY DEF IndInv, RecRollback, Goto, TypeOK, CoordInv, RecoverPCs
<1>6. RecoveryInv'
  BY DEF IndInv, RecRollback, Goto, TypeOK, RecoveryInv, RecoverPCs, Restoring
<1>7. CommitInv'
  BY ProcFacts DEF IndInv, RecRollback, Goto, TypeOK, CoordInv, CommitInv, WriterInv, RecoverPCs, Record, Lease, NoLease
<1>8. WriterInv'
  BY DEF IndInv, RecRollback, Goto, WriterInv
<1>9. SettledDisk'
  BY DEF IndInv, RecRollback, Goto, TypeOK, SettledDisk, Record, RecoveryInv, RecoverPCs
<1> QED
  BY <1>3, <1>4, <1>5, <1>6, <1>7, <1>8, <1>9 DEF IndInv

\* The step RecStart (Restore) keeps the invariant.
LEMMA RecStartStep ==
  ASSUME IndInv, NEW p \in Recoverer, RecStart(p)
  PROVE  IndInv'
<1>1. vm' \in [running : BOOLEAN, disk : Disk, fresh : BOOLEAN]
  BY Zenon DEF IndInv, TypeOK, RecStart, Goto, Record
<1>2. pc' \in [Proc -> PCs]
  BY Zenon DEF IndInv, TypeOK, RecStart, Goto, PCs
<1>3. TypeOK'
  BY <1>1, <1>2 DEF IndInv, TypeOK, RecStart, Goto
<1>4. ControlInv'
  BY DEF IndInv, RecStart, Goto, TypeOK, ControlInv, ArmPCs, VerifyPCs, WatchPCs, DogPCs, CliPCs, RecoverPCs
<1>5. CoordInv'
  BY DEF IndInv, RecStart, Goto, TypeOK, CoordInv, RecoverPCs
<1>6. RecoveryInv'
  BY DEF IndInv, RecStart, Goto, TypeOK, RecoveryInv, RecoverPCs, Restoring
<1>7. CommitInv'
  BY DEF IndInv, RecStart, Goto, CommitInv
<1>8. WriterInv'
  BY DEF IndInv, RecStart, Goto, WriterInv
<1>9. SettledDisk'
  BY DEF IndInv, RecStart, Goto, SettledDisk
<1> QED
  BY <1>3, <1>4, <1>5, <1>6, <1>7, <1>8, <1>9 DEF IndInv

\* The step RecVerify (Engine.awaitRestored) keeps the invariant.
LEMMA RecVerifyStep ==
  ASSUME IndInv, NEW p \in Recoverer, NEW res \in CheckResults, RecVerify(p, res)
  PROVE  IndInv'
<1>1. rec' \in Record
  BY CheckTypes DEF IndInv, TypeOK, RecVerify, Record
<1>2. pc' \in [Proc -> PCs]
  BY Zenon DEF IndInv, TypeOK, RecVerify, Goto, Exact, IdentityRestored, PCs, CheckResults
<1>3. TypeOK'
  BY <1>1, <1>2 DEF IndInv, TypeOK, RecVerify, Goto, Exact, IdentityRestored
<1>4. ControlInv'
  BY DEF IndInv, RecVerify, Goto, Exact, IdentityRestored, TypeOK, ControlInv, ArmPCs, VerifyPCs, WatchPCs, DogPCs, CliPCs, RecoverPCs, CheckResults
<1>5. CoordInv'
  BY DEF IndInv, RecVerify, Goto, Exact, IdentityRestored, TypeOK, CoordInv, RecoverPCs, CheckResults
<1>6. RecoveryInv'
  BY ProcFacts DEF IndInv, RecVerify, Goto, Exact, IdentityRestored, TypeOK, CoordInv, RecoveryInv, RecoverPCs, Restoring, LeaseHeld, NoLease, Record, Lease, CheckResults
<1>7. CommitInv'
  BY DEF IndInv, RecVerify, Goto, Exact, IdentityRestored, CommitInv
<1>8. WriterInv'
  BY DEF IndInv, RecVerify, Goto, Exact, IdentityRestored, WriterInv
<1>9. SettledDisk'
  BY DEF IndInv, RecVerify, Goto, Exact, IdentityRestored, SettledDisk
<1> QED
  BY <1>3, <1>4, <1>5, <1>6, <1>7, <1>8, <1>9 DEF IndInv

\* The step RecFinish (Store.finishRecovery) keeps the invariant.
LEMMA RecFinishStep ==
  ASSUME IndInv, NEW p \in Recoverer, RecFinish(p)
  PROVE  IndInv'
<1>1. Leave(p)
  BY DEF RecFinish
<1>2. LeaveTypes
  BY <1>1, LeaveType, ProcFacts DEF IndInv
<1>3. rec' \in Record
  BY Zenon, NullTypes DEF IndInv, TypeOK, RecFinish, RestorePermitted, Exact, Record, Statuses, Obs, Outcomes
<1>4. TypeOK'
  BY <1>2, <1>3 DEF IndInv, TypeOK, RecFinish, RestorePermitted, Exact, LeaveTypes
<1>5. ControlInv'
  BY <1>1, ProcFacts DEF IndInv, RecFinish, RestorePermitted, Exact, Leave, TypeOK, ControlInv, ArmPCs, VerifyPCs, WatchPCs, DogPCs, CliPCs, RecoverPCs
<1>6. CoordInv'
  BY <1>1 DEF IndInv, RecFinish, RestorePermitted, Exact, Leave, TypeOK, CoordInv, RecoverPCs
<1>7. RecoveryInv'
  BY <1>1, ProcFacts DEF IndInv, RecFinish, RestorePermitted, Exact, Leave, TypeOK, CoordInv, RecoveryInv, RecoverPCs, Restoring
<1>8. CommitInv'
  BY <1>1 DEF IndInv, RecFinish, RestorePermitted, Exact, Leave, TypeOK, CommitInv
<1>9. WriterInv'
  BY <1>1, ProcFacts DEF IndInv, RecFinish, RestorePermitted, Exact, Leave, TypeOK, ControlInv, CoordInv, RecoveryInv, CommitInv, WriterInv, Record, Lease, Writer, Settled, LeaseHeld, Time, NoLease, RecoverPCs, Restoring
<1>10. SettledDisk'
  BY DEF IndInv, RecFinish, RestorePermitted, Exact, TypeOK, SettledDisk, Record, RecoveryInv, RecoverPCs
<1> QED
  BY <1>4, <1>5, <1>6, <1>7, <1>8, <1>9, <1>10 DEF IndInv

\* The step RecFail (Engine.RecoverCoordinated) keeps the invariant.
LEMMA RecFailStep ==
  ASSUME IndInv, NEW p \in Recoverer, RecFail(p)
  PROVE  IndInv'
<1>1. Leave(p)
  BY DEF RecFail
<1>2. LeaveTypes
  BY <1>1, LeaveType, ProcFacts DEF IndInv
<1>3. rec' \in Record
  BY SMTT(30), NullTypes DEF IndInv, TypeOK, RecFail, FaultUnless, Record, Statuses, Obs, Outcomes
<1>4. faults' \in 0 .. MaxFaults
  BY BoundsAssumption DEF IndInv, TypeOK, RecFail, FaultUnless
<1>5. TypeOK'
  BY <1>2, <1>3, <1>4 DEF IndInv, TypeOK, RecFail, FaultUnless, LeaveTypes
<1>6. ControlInv'
  BY <1>1, ProcFacts DEF IndInv, RecFail, FaultUnless, Leave, TypeOK, ControlInv, ArmPCs, VerifyPCs, WatchPCs, DogPCs, CliPCs, RecoverPCs
<1>7. CoordInv'
  BY <1>1 DEF IndInv, RecFail, FaultUnless, Leave, TypeOK, CoordInv, RecoverPCs
<1>8. RecoveryInv'
  BY <1>1, ProcFacts DEF IndInv, RecFail, FaultUnless, Leave, TypeOK, CoordInv, RecoveryInv, RecoverPCs, Restoring
<1>9. CommitInv'
  BY <1>1 DEF IndInv, RecFail, FaultUnless, Leave, TypeOK, CommitInv
<1>10. WriterInv'
  BY DEF IndInv, RecFail, FaultUnless, TypeOK, WriterInv, Settled, Record, Lease, Writer
<1>11. SettledDisk'
  BY DEF IndInv, RecFail, FaultUnless, SettledDisk
<1> QED
  BY <1>5, <1>6, <1>7, <1>8, <1>9, <1>10, <1>11 DEF IndInv

\* Every step of a recovery (Engine.RecoverCoordinated), whoever runs it, keeps the invariant.
LEMMA RecoverStepInv ==
  ASSUME IndInv, NEW p \in Recoverer, RecoverStep(p)
  PROVE  IndInv'
<1>1. CASE RecLock(p)
  BY <1>1, RecLockStep
<1>2. CASE RecBegin(p)
  BY <1>2, RecBeginStep
<1>3. CASE RecRefused(p)
  BY <1>3, RecRefusedStep
<1>4. CASE RecDrain(p)
  BY <1>4, RecDrainStep
<1>5. CASE RecStop(p)
  BY <1>5, RecStopStep
<1>6. CASE RecRollback(p)
  BY <1>6, RecRollbackStep
<1>7. CASE RecStart(p)
  BY <1>7, RecStartStep
<1>8. CASE RecFinish(p)
  BY <1>8, RecFinishStep
<1>9. CASE RecFail(p)
  BY <1>9, RecFailStep
<1>10. CASE \E res \in CheckResults : RecVerify(p, res)
  BY <1>10, RecVerifyStep
<1> QED
  BY <1>1, <1>2, <1>3, <1>4, <1>5, <1>6, <1>7, <1>8, <1>9, <1>10 DEF RecoverStep

\* The step VerifyCall (executeCurrentDeployOperation) keeps the invariant.
LEMMA VerifyCallStep ==
  ASSUME IndInv, NEW g \in Gen, VerifyCall(g)
  PROVE  IndInv'
<1>1. pc' \in [Proc -> PCs]
  BY Zenon DEF IndInv, TypeOK, VerifyCall, Goto, PCs
<1>2. arg' \in [Proc -> 0 .. MaxGen]
  BY Zenon, GenRange DEF IndInv, TypeOK, VerifyCall, Goto, Record
<1>3. commit' \in [start : Time, res : Obs]
  BY NullTypes DEF IndInv, TypeOK, VerifyCall, Goto
<1>4. calls' \in [arm : 0 .. MaxArms, verify : 0 .. MaxVerifies, recover : 0 .. MaxRecovers]
  BY BoundsAssumption DEF IndInv, TypeOK, VerifyCall, Goto
<1>5. TypeOK'
  BY <1>1, <1>2, <1>3, <1>4 DEF IndInv, TypeOK, VerifyCall, Goto
<1>6. ControlInv'
  BY ProcFacts DEF IndInv, VerifyCall, Goto, TypeOK, ControlInv, ArmPCs, VerifyPCs, WatchPCs, DogPCs, CliPCs, RecoverPCs
<1>7. CoordInv'
  BY DEF IndInv, VerifyCall, Goto, TypeOK, CoordInv, RecoverPCs
<1>8. RecoveryInv'
  BY DEF IndInv, VerifyCall, Goto, TypeOK, RecoveryInv, RecoverPCs, Restoring
<1>9. CommitInv'
  BY DEF IndInv, VerifyCall, Goto, CommitInv
<1>10. WriterInv'
  BY DEF IndInv, VerifyCall, Goto, WriterInv
<1>11. SettledDisk'
  BY DEF IndInv, VerifyCall, Goto, SettledDisk
<1> QED
  BY <1>5, <1>6, <1>7, <1>8, <1>9, <1>10, <1>11 DEF IndInv

\* The step CmAwait (Engine.awaitWatchObservations) keeps the invariant.
LEMMA CmAwaitStep ==
  ASSUME IndInv, CmAwait
  PROVE  IndInv'
<1>1. pc' \in [Proc -> PCs]
  BY Zenon DEF IndInv, TypeOK, CmAwait, Goto, PCs
<1>2. TypeOK'
  BY <1>1 DEF IndInv, TypeOK, CmAwait, Goto
<1>3. ControlInv'
  BY DEF IndInv, CmAwait, Goto, TypeOK, ControlInv, ArmPCs, VerifyPCs, WatchPCs, DogPCs, CliPCs, RecoverPCs
<1>4. CoordInv'
  BY DEF IndInv, CmAwait, Goto, TypeOK, CoordInv, RecoverPCs
<1>5. RecoveryInv'
  BY DEF IndInv, CmAwait, Goto, TypeOK, RecoveryInv, RecoverPCs, Restoring
<1>6. CommitInv'
  BY DEF IndInv, CmAwait, Goto, CommitInv
<1>7. WriterInv'
  BY DEF IndInv, CmAwait, Goto, WriterInv
<1>8. SettledDisk'
  BY DEF IndInv, CmAwait, Goto, SettledDisk
<1> QED
  BY <1>2, <1>3, <1>4, <1>5, <1>6, <1>7, <1>8 DEF IndInv

\* The step CmLock (Acquire) keeps the invariant.
LEMMA CmLockStep ==
  ASSUME IndInv, CmLock
  PROVE  IndInv'
<1>1. coord' \in Proc \cup {None}
  BY ProcFacts DEF IndInv, TypeOK, CmLock, Acquire, Goto
<1>2. pc' \in [Proc -> PCs]
  BY Zenon DEF IndInv, TypeOK, CmLock, Acquire, Goto, PCs
<1>3. TypeOK'
  BY <1>1, <1>2 DEF IndInv, TypeOK, CmLock, Acquire, Goto
<1>4. ControlInv'
  BY DEF IndInv, CmLock, Acquire, Goto, TypeOK, ControlInv, ArmPCs, VerifyPCs, WatchPCs, DogPCs, CliPCs, RecoverPCs
<1>5. CoordInv'
  BY ProcFacts DEF IndInv, CmLock, Acquire, Goto, TypeOK, CoordInv, RecoverPCs
<1>6. RecoveryInv'
  BY DEF IndInv, CmLock, Acquire, Goto, TypeOK, RecoveryInv, RecoverPCs, Restoring
<1>7. CommitInv'
  BY DEF IndInv, CmLock, Acquire, Goto, CommitInv
<1>8. WriterInv'
  BY DEF IndInv, CmLock, Acquire, Goto, WriterInv
<1>9. SettledDisk'
  BY DEF IndInv, CmLock, Acquire, Goto, SettledDisk
<1> QED
  BY <1>3, <1>4, <1>5, <1>6, <1>7, <1>8, <1>9 DEF IndInv

\* The step CmOpen (Engine.Commit) keeps the invariant.
LEMMA CmOpenStep ==
  ASSUME IndInv, CmOpen
  PROVE  IndInv'
<1>1. txn' \in {None, Verify}
  BY DEF IndInv, TypeOK, CmOpen, CommitPermitted, Exact, Goto
<1>2. pc' \in [Proc -> PCs]
  BY Zenon DEF IndInv, TypeOK, CmOpen, CommitPermitted, Exact, Goto, PCs
<1>3. TypeOK'
  BY <1>1, <1>2 DEF IndInv, TypeOK, CmOpen, CommitPermitted, Exact, Goto
<1>4. ControlInv'
  BY DEF IndInv, CmOpen, CommitPermitted, Exact, Goto, TypeOK, ControlInv, ArmPCs, VerifyPCs, WatchPCs, DogPCs, CliPCs, RecoverPCs
<1>5. CoordInv'
  BY DEF IndInv, CmOpen, CommitPermitted, Exact, Goto, TypeOK, CoordInv, RecoverPCs
<1>6. RecoveryInv'
  BY DEF IndInv, CmOpen, CommitPermitted, Exact, Goto, TypeOK, RecoveryInv, RecoverPCs, Restoring
<1>7. CommitInv'
  BY ProcFacts DEF IndInv, CmOpen, CommitPermitted, Exact, Goto, TypeOK, CommitInv
<1>8. WriterInv'
  BY DEF IndInv, CmOpen, CommitPermitted, Exact, Goto, WriterInv
<1>9. SettledDisk'
  BY DEF IndInv, CmOpen, CommitPermitted, Exact, Goto, SettledDisk
<1> QED
  BY <1>3, <1>4, <1>5, <1>6, <1>7, <1>8, <1>9 DEF IndInv

\* The step CmCheck (Engine.Commit) keeps the invariant.
LEMMA CmCheckStep ==
  ASSUME IndInv, NEW res \in CheckResults, CmCheck(res)
  PROVE  IndInv'
<1>1. commit' \in [start : Time, res : Obs]
  BY CheckTypes DEF IndInv, TypeOK, CmCheck
<1>2. pc' \in [Proc -> PCs]
  BY Zenon DEF IndInv, TypeOK, CmCheck, Goto, PCs, CheckResults
<1>3. TypeOK'
  BY <1>1, <1>2 DEF IndInv, TypeOK, CmCheck, Goto
<1>4. ControlInv'
  BY DEF IndInv, CmCheck, Goto, TypeOK, ControlInv, ArmPCs, VerifyPCs, WatchPCs, DogPCs, CliPCs, RecoverPCs, CheckResults
<1>5. CoordInv'
  BY DEF IndInv, CmCheck, Goto, CoordInv
<1>6. RecoveryInv'
  BY DEF IndInv, CmCheck, Goto, TypeOK, RecoveryInv, RecoverPCs, Restoring, CheckResults
<1>7. CommitInv'
  BY DEF IndInv, CmCheck, Goto, CommitInv
<1>8. WriterInv'
  BY DEF IndInv, CmCheck, Goto, WriterInv
<1>9. SettledDisk'
  BY DEF IndInv, CmCheck, Goto, SettledDisk
<1> QED
  BY <1>3, <1>4, <1>5, <1>6, <1>7, <1>8, <1>9 DEF IndInv

\* The step CmClose (Store.Commit) keeps the invariant.
LEMMA CmCloseStep ==
  ASSUME IndInv, CmClose
  PROVE  IndInv'
<1>1. Leave(Verify)
  BY DEF CmClose
<1>2. LeaveTypes
  BY <1>1, LeaveType, ProcFacts DEF IndInv
<1>3. rec' \in Record
  BY Zenon, NullTypes DEF IndInv, TypeOK, CmClose, MutationReady, Record, Statuses, Obs, Outcomes
<1>4. txn' \in {None, Verify}
  BY DEF IndInv, TypeOK, CmClose, MutationReady
<1>5. TypeOK'
  BY <1>2, <1>3, <1>4 DEF IndInv, TypeOK, CmClose, MutationReady, LeaveTypes
<1>6. ControlInv'
  BY <1>1 DEF IndInv, CmClose, MutationReady, Leave, TypeOK, ControlInv, ArmPCs, VerifyPCs, WatchPCs, DogPCs, CliPCs, RecoverPCs
<1>7. CoordInv'
  BY <1>1 DEF IndInv, CmClose, MutationReady, Leave, TypeOK, CoordInv, RecoverPCs
<1>8. RecoveryInv'
  BY <1>1, ProcFacts DEF IndInv, CmClose, MutationReady, Leave, TypeOK, CoordInv, RecoveryInv, RecoverPCs, Restoring
<1>9. CommitInv'
  BY <1>1, ProcFacts DEF IndInv, CmClose, MutationReady, Leave, TypeOK, CommitInv
<1>10. WriterInv'
  BY DEF IndInv, CmClose, MutationReady, TypeOK, WriterInv, CommitInv, Settled, Record, Lease, Writer, NoLease
<1>11. SettledDisk'
  BY <1>1, ProcFacts DEF IndInv, CmClose, MutationReady, Leave, TypeOK, ControlInv, CoordInv, RecoveryInv, CommitInv, WriterInv, SettledDisk, Record, Lease, Writer, Settled, RecoverPCs
<1> QED
  BY <1>5, <1>6, <1>7, <1>8, <1>9, <1>10, <1>11 DEF IndInv

\* The step CmFail (Engine.Commit) keeps the invariant.
LEMMA CmFailStep ==
  ASSUME IndInv, CmFail
  PROVE  IndInv'
<1>1. Leave(Verify)
  BY DEF CmFail
<1>2. LeaveTypes
  BY <1>1, LeaveType, ProcFacts DEF IndInv
<1>3. txn' \in {None, Verify}
  BY DEF IndInv, TypeOK, CmFail, FaultUnless
<1>4. faults' \in 0 .. MaxFaults
  BY BoundsAssumption DEF IndInv, TypeOK, CmFail, FaultUnless
<1>5. TypeOK'
  BY SMTT(30), <1>2, <1>3, <1>4 DEF IndInv, TypeOK, CmFail, FaultUnless, LeaveTypes
<1>6. ControlInv'
  BY <1>1, ProcFacts DEF IndInv, CmFail, FaultUnless, Leave, TypeOK, ControlInv, ArmPCs, VerifyPCs, WatchPCs, DogPCs, CliPCs, RecoverPCs
<1>7. CoordInv'
  BY <1>1 DEF IndInv, CmFail, FaultUnless, Leave, TypeOK, CoordInv, RecoverPCs
<1>8. RecoveryInv'
  BY SMTT(30), <1>1 DEF IndInv, CmFail, FaultUnless, Leave, TypeOK, RecoveryInv, RecoverPCs, Restoring
<1>9. CommitInv'
  BY SMTT(30), <1>1, ProcFacts DEF IndInv, CmFail, FaultUnless, Leave, TypeOK, CommitInv
<1>10. WriterInv'
  BY SMTT(30) DEF IndInv, CmFail, FaultUnless, WriterInv
<1>11. SettledDisk'
  BY DEF IndInv, CmFail, FaultUnless, SettledDisk
<1> QED
  BY <1>5, <1>6, <1>7, <1>8, <1>9, <1>10, <1>11 DEF IndInv

\* Every step of a verify call (Engine.Commit) keeps the invariant.
LEMMA CommitStepInv ==
  ASSUME IndInv, CommitStep
  PROVE  IndInv'
<1>1. CASE CmAwait
  BY <1>1, CmAwaitStep
<1>2. CASE CmLock
  BY <1>2, CmLockStep
<1>3. CASE CmOpen
  BY <1>3, CmOpenStep
<1>4. CASE CmClose
  BY <1>4, CmCloseStep
<1>5. CASE CmFail
  BY <1>5, CmFailStep
<1>6. CASE \E res \in CheckResults : CmCheck(res)
  BY <1>6, CmCheckStep
<1> QED
  BY <1>1, <1>2, <1>3, <1>4, <1>5, <1>6 DEF CommitStep
=============================================================================
