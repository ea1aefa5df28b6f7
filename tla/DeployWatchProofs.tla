-------------------------- MODULE DeployWatchProofs -------------------------
(***************************************************************************)
(* The steps of the watch unit (Engine.Watch) and of the watchdog          *)
(* (inspectDeployOperation, handleVMStopped) keep the inductive invariant. *)
(***************************************************************************)
EXTENDS DeployFacts

\* The step WatchRegister (Store.RegisterWatch) keeps the invariant.
LEMMA WatchRegisterStep ==
  ASSUME IndInv, NEW g \in Gen, WatchRegister(g)
  PROVE  IndInv'
<1>1. rec' \in Record
  BY Zenon, NullTypes DEF IndInv, TypeOK, WatchRegister, RegisterPermitted, Goto, Record, Statuses, Obs, Outcomes
<1>2. pc' \in [Proc -> PCs]
  BY Zenon DEF IndInv, TypeOK, WatchRegister, RegisterPermitted, Goto, PCs
<1>3. TypeOK'
  BY <1>1, <1>2 DEF IndInv, TypeOK, WatchRegister, RegisterPermitted, Goto
<1>4. ControlInv'
  BY DEF IndInv, WatchRegister, RegisterPermitted, Goto, TypeOK, ControlInv, ArmPCs, VerifyPCs, WatchPCs, DogPCs, CliPCs, RecoverPCs
<1>5. CoordInv'
  BY DEF IndInv, WatchRegister, RegisterPermitted, Goto, TypeOK, CoordInv, RecoverPCs
<1>6. RecoveryInv'
  BY DEF IndInv, WatchRegister, RegisterPermitted, Goto, TypeOK, RecoveryInv, RecoverPCs, Restoring
<1>7. CommitInv'
  BY DEF IndInv, WatchRegister, RegisterPermitted, Goto, CommitInv
<1>8. WriterInv'
  BY DEF IndInv, WatchRegister, RegisterPermitted, Goto, WriterInv
<1>9. SettledDisk'
  BY DEF IndInv, WatchRegister, RegisterPermitted, Goto, SettledDisk
<1> QED
  BY <1>3, <1>4, <1>5, <1>6, <1>7, <1>8, <1>9 DEF IndInv

\* The step WatchLoop (Engine.Watch) keeps the invariant.
LEMMA WatchLoopStep ==
  ASSUME IndInv, NEW g \in Gen, WatchLoop(g)
  PROVE  IndInv'
<1>1. watch' \in [Gen -> [lease : 0 .. MaxLease, res : Obs, fails : 0 .. FailureThreshold]]
  BY NullTypes DEF IndInv, TypeOK, WatchLoop, Goto, Record, Lease
<1>2. pc' \in [Proc -> PCs]
  BY Zenon DEF IndInv, TypeOK, WatchLoop, Goto, PCs
<1>3. TypeOK'
  BY <1>1, <1>2 DEF IndInv, TypeOK, WatchLoop, Goto
<1>4. ControlInv'
  BY DEF IndInv, WatchLoop, Goto, TypeOK, ControlInv, ArmPCs, VerifyPCs, WatchPCs, DogPCs, CliPCs, RecoverPCs
<1>5. CoordInv'
  BY DEF IndInv, WatchLoop, Goto, TypeOK, CoordInv, RecoverPCs
<1>6. RecoveryInv'
  BY DEF IndInv, WatchLoop, Goto, TypeOK, RecoveryInv, RecoverPCs, Restoring
<1>7. CommitInv'
  BY DEF IndInv, WatchLoop, Goto, CommitInv
<1>8. WriterInv'
  BY DEF IndInv, WatchLoop, Goto, WriterInv
<1>9. SettledDisk'
  BY DEF IndInv, WatchLoop, Goto, SettledDisk
<1> QED
  BY <1>3, <1>4, <1>5, <1>6, <1>7, <1>8, <1>9 DEF IndInv

\* The step WatchCheck (Engine.Watch) keeps the invariant.
LEMMA WatchCheckStep ==
  ASSUME IndInv, NEW g \in Gen, NEW res \in CheckResults, WatchCheck(g, res)
  PROVE  IndInv'
<1>1. watch' \in [Gen -> [lease : 0 .. MaxLease, res : Obs, fails : 0 .. FailureThreshold]]
  BY CheckTypes DEF IndInv, TypeOK, WatchCheck
<1>2. pc' \in [Proc -> PCs]
  BY Zenon DEF IndInv, TypeOK, WatchCheck, Goto, PCs, CheckResults
<1>3. TypeOK'
  BY <1>1, <1>2 DEF IndInv, TypeOK, WatchCheck, Goto
<1>4. ControlInv'
  BY DEF IndInv, WatchCheck, Goto, TypeOK, ControlInv, ArmPCs, VerifyPCs, WatchPCs, DogPCs, CliPCs, RecoverPCs, CheckResults
<1>5. CoordInv'
  BY DEF IndInv, WatchCheck, Goto, TypeOK, CoordInv, RecoverPCs, CheckResults
<1>6. RecoveryInv'
  BY DEF IndInv, WatchCheck, Goto, TypeOK, RecoveryInv, RecoverPCs, Restoring, CheckResults
<1>7. CommitInv'
  BY DEF IndInv, WatchCheck, Goto, CommitInv
<1>8. WriterInv'
  BY DEF IndInv, WatchCheck, Goto, WriterInv
<1>9. SettledDisk'
  BY DEF IndInv, WatchCheck, Goto, SettledDisk
<1> QED
  BY <1>3, <1>4, <1>5, <1>6, <1>7, <1>8, <1>9 DEF IndInv

\* The step WatchObserve (Store.observe) keeps the invariant.
LEMMA WatchObserveStep ==
  ASSUME IndInv, NEW g \in Gen, WatchObserve(g)
  PROVE  IndInv'
<1>1. rec' \in Record
  BY SMTT(30), NullTypes DEF IndInv, TypeOK, WatchObserve, ObservePermitted, Goto, Record, Statuses, Obs, Outcomes
<1>2. pc' \in [Proc -> PCs]
  BY Zenon DEF IndInv, TypeOK, WatchObserve, ObservePermitted, Goto, PCs
<1>3. TypeOK'
  BY <1>1, <1>2 DEF IndInv, TypeOK, WatchObserve, ObservePermitted, Goto
<1>4. ControlInv'
  BY DEF IndInv, WatchObserve, ObservePermitted, Goto, TypeOK, ControlInv, ArmPCs, VerifyPCs, WatchPCs, DogPCs, CliPCs, RecoverPCs
<1>5. CoordInv'
  BY DEF IndInv, WatchObserve, ObservePermitted, Goto, TypeOK, CoordInv, RecoverPCs
<1>6. RecoveryInv'
  BY ProcFacts DEF IndInv, WatchObserve, ObservePermitted, Goto, TypeOK, CoordInv, RecoveryInv, RecoverPCs, Restoring, LeaseHeld, NoLease, Record, Lease
<1>7. CommitInv'
  BY DEF IndInv, WatchObserve, ObservePermitted, Goto, CommitInv
<1>8. WriterInv'
  BY DEF IndInv, WatchObserve, ObservePermitted, Goto, WriterInv
<1>9. SettledDisk'
  BY DEF IndInv, WatchObserve, ObservePermitted, Goto, SettledDisk
<1> QED
  BY <1>3, <1>4, <1>5, <1>6, <1>7, <1>8, <1>9 DEF IndInv

\* The step WatchJudge (Engine.Watch) keeps the invariant.
LEMMA WatchJudgeStep ==
  ASSUME IndInv, NEW g \in Gen, WatchJudge(g)
  PROVE  IndInv'
<1>1. watch' \in [Gen -> [lease : 0 .. MaxLease, res : Obs, fails : 0 .. FailureThreshold]]
  <2>1. Failures(g) \in 0 .. FailureThreshold
    BY BoundsAssumption DEF IndInv, TypeOK, WatchJudge, Failures
  <2>2. [NoWatch EXCEPT !.fails = Failures(g)]
          \in [lease : 0 .. MaxLease, res : Obs, fails : 0 .. FailureThreshold]
    BY <2>1, NullTypes
  <2> QED
    BY <2>2 DEF IndInv, TypeOK, WatchJudge
<1>2. pc' \in [Proc -> PCs]
  BY Zenon DEF IndInv, TypeOK, WatchJudge, Goto, PCs
<1>3. TypeOK'
  BY <1>1, <1>2 DEF IndInv, TypeOK, WatchJudge, Goto
<1>4. ControlInv'
  BY DEF IndInv, WatchJudge, Goto, TypeOK, ControlInv, ArmPCs, VerifyPCs, WatchPCs, DogPCs, CliPCs, RecoverPCs
<1>5. CoordInv'
  BY DEF IndInv, WatchJudge, Goto, TypeOK, CoordInv, RecoverPCs
<1>6. RecoveryInv'
  BY DEF IndInv, WatchJudge, Goto, TypeOK, RecoveryInv, RecoverPCs, Restoring
<1>7. CommitInv'
  BY DEF IndInv, WatchJudge, Goto, CommitInv
<1>8. WriterInv'
  BY DEF IndInv, WatchJudge, Goto, WriterInv
<1>9. SettledDisk'
  BY DEF IndInv, WatchJudge, Goto, SettledDisk
<1> QED
  BY <1>3, <1>4, <1>5, <1>6, <1>7, <1>8, <1>9 DEF IndInv

\* The step WatchAlarm (Engine.Watch) keeps the invariant.
LEMMA WatchAlarmStep ==
  ASSUME IndInv, NEW g \in Gen, WatchAlarm(g)
  PROVE  IndInv'
<1>1. watch' \in [Gen -> [lease : 0 .. MaxLease, res : Obs, fails : 0 .. FailureThreshold]]
  BY NullTypes DEF IndInv, TypeOK, WatchAlarm, Goto, Record, Lease
<1>2. pc' \in [Proc -> PCs]
  BY Zenon DEF IndInv, TypeOK, WatchAlarm, Goto, PCs
<1>3. TypeOK'
  BY <1>1, <1>2 DEF IndInv, TypeOK, WatchAlarm, Goto
<1>4. ControlInv'
  BY DEF IndInv, WatchAlarm, Goto, TypeOK, ControlInv, ArmPCs, VerifyPCs, WatchPCs, DogPCs, CliPCs, RecoverPCs
<1>5. CoordInv'
  BY DEF IndInv, WatchAlarm, Goto, CoordInv
<1>6. RecoveryInv'
  BY DEF IndInv, WatchAlarm, Goto, TypeOK, RecoveryInv, RecoverPCs, Restoring
<1>7. CommitInv'
  BY DEF IndInv, WatchAlarm, Goto, TypeOK, CommitInv
<1>8. WriterInv'
  BY DEF IndInv, WatchAlarm, Goto, WriterInv
<1>9. SettledDisk'
  BY DEF IndInv, WatchAlarm, Goto, SettledDisk
<1> QED
  BY <1>3, <1>4, <1>5, <1>6, <1>7, <1>8, <1>9 DEF IndInv

\* The step WatchQuit (Engine.Watch) keeps the invariant.
LEMMA WatchQuitStep ==
  ASSUME IndInv, NEW g \in Gen, WatchQuit(g)
  PROVE  IndInv'
<1>1. Leave(g)
  BY DEF WatchQuit
<1>2. LeaveTypes
  BY <1>1, LeaveType, ProcFacts DEF IndInv
<1>3. TypeOK'
  BY <1>2 DEF IndInv, TypeOK, WatchQuit, LeaveTypes
<1>4. ControlInv'
  BY <1>1 DEF IndInv, WatchQuit, Leave, TypeOK, ControlInv, ArmPCs, VerifyPCs, WatchPCs, DogPCs, CliPCs, RecoverPCs
<1>5. CoordInv'
  BY <1>1 DEF IndInv, WatchQuit, Leave, TypeOK, CoordInv, RecoverPCs
<1>6. RecoveryInv'
  BY <1>1 DEF IndInv, WatchQuit, Leave, TypeOK, RecoveryInv, RecoverPCs, Restoring
<1>7. CommitInv'
  BY <1>1 DEF IndInv, WatchQuit, Leave, TypeOK, CommitInv
<1>8. WriterInv'
  BY DEF IndInv, WatchQuit, WriterInv
<1>9. SettledDisk'
  BY DEF IndInv, WatchQuit, SettledDisk
<1> QED
  BY <1>3, <1>4, <1>5, <1>6, <1>7, <1>8, <1>9 DEF IndInv

\* The step DogNoRecord (watchdog.handleDeployOperation) keeps the invariant.
LEMMA DogNoRecordStep ==
  ASSUME IndInv, DogNoRecord
  PROVE  IndInv'
<1>1. pc' \in [Proc -> PCs]
  BY Zenon DEF IndInv, TypeOK, DogNoRecord, Goto, PCs
<1>2. TypeOK'
  BY <1>1 DEF IndInv, TypeOK, DogNoRecord, Goto
<1>3. ControlInv'
  BY ProcFacts DEF IndInv, DogNoRecord, Goto, TypeOK, ControlInv, ArmPCs, VerifyPCs, WatchPCs, DogPCs, CliPCs, RecoverPCs
<1>4. CoordInv'
  BY DEF IndInv, DogNoRecord, Goto, TypeOK, CoordInv, RecoverPCs
<1>5. RecoveryInv'
  BY DEF IndInv, DogNoRecord, Goto, TypeOK, RecoveryInv, RecoverPCs, Restoring
<1>6. CommitInv'
  BY DEF IndInv, DogNoRecord, Goto, CommitInv
<1>7. WriterInv'
  BY DEF IndInv, DogNoRecord, Goto, WriterInv
<1>8. SettledDisk'
  BY DEF IndInv, DogNoRecord, Goto, SettledDisk
<1> QED
  BY <1>2, <1>3, <1>4, <1>5, <1>6, <1>7, <1>8 DEF IndInv

\* The step DogLock (watchdog.handleDeployOperation) keeps the invariant.
LEMMA DogLockStep ==
  ASSUME IndInv, DogLock
  PROVE  IndInv'
<1>1. coord' \in Proc \cup {None}
  BY ProcFacts DEF IndInv, TypeOK, DogLock, Acquire, Goto
<1>2. pc' \in [Proc -> PCs]
  BY Zenon DEF IndInv, TypeOK, DogLock, Acquire, Goto, PCs
<1>3. TypeOK'
  BY <1>1, <1>2 DEF IndInv, TypeOK, DogLock, Acquire, Goto
<1>4. ControlInv'
  BY ProcFacts DEF IndInv, DogLock, Acquire, Goto, TypeOK, ControlInv, ArmPCs, VerifyPCs, WatchPCs, DogPCs, CliPCs, RecoverPCs
<1>5. CoordInv'
  BY ProcFacts DEF IndInv, DogLock, Acquire, Goto, TypeOK, CoordInv, RecoverPCs
<1>6. RecoveryInv'
  BY DEF IndInv, DogLock, Acquire, Goto, TypeOK, RecoveryInv, RecoverPCs, Restoring
<1>7. CommitInv'
  BY DEF IndInv, DogLock, Acquire, Goto, CommitInv
<1>8. WriterInv'
  BY DEF IndInv, DogLock, Acquire, Goto, WriterInv
<1>9. SettledDisk'
  BY DEF IndInv, DogLock, Acquire, Goto, SettledDisk
<1> QED
  BY <1>3, <1>4, <1>5, <1>6, <1>7, <1>8, <1>9 DEF IndInv

\* The step DogSettled (watchdog.inspectDeployOperation) keeps the invariant.
LEMMA DogSettledStep ==
  ASSUME IndInv, DogSettled
  PROVE  IndInv'
<1>1. pc' \in [Proc -> PCs]
  BY Zenon DEF IndInv, TypeOK, DogSettled, Goto, PCs
<1>2. coord' \in Proc \cup {None}
  BY ProcFacts DEF IndInv, TypeOK, DogSettled, Goto
<1>3. TypeOK'
  BY <1>1, <1>2 DEF IndInv, TypeOK, DogSettled, Goto
<1>4. ControlInv'
  BY DEF IndInv, DogSettled, Goto, TypeOK, ControlInv, ArmPCs, VerifyPCs, WatchPCs, DogPCs, CliPCs, RecoverPCs
<1>5. CoordInv'
  BY ProcFacts DEF IndInv, DogSettled, Goto, TypeOK, CoordInv, RecoverPCs
<1>6. RecoveryInv'
  BY DEF IndInv, DogSettled, Goto, TypeOK, RecoveryInv, RecoverPCs, Restoring
<1>7. CommitInv'
  BY DEF IndInv, DogSettled, Goto, CommitInv
<1>8. WriterInv'
  BY DEF IndInv, DogSettled, Goto, WriterInv
<1>9. SettledDisk'
  BY DEF IndInv, DogSettled, Goto, SettledDisk
<1> QED
  BY <1>3, <1>4, <1>5, <1>6, <1>7, <1>8, <1>9 DEF IndInv

\* The step DogLeavesAlone (watchdog.inspectDeployOperation) keeps the invariant.
LEMMA DogLeavesAloneStep ==
  ASSUME IndInv, DogLeavesAlone
  PROVE  IndInv'
<1>1. Leave(Dog)
  BY DEF DogLeavesAlone
<1>2. LeaveTypes
  BY <1>1, LeaveType, ProcFacts DEF IndInv
<1>3. TypeOK'
  BY <1>2 DEF IndInv, TypeOK, DogLeavesAlone, LeaveTypes
<1>4. ControlInv'
  BY <1>1 DEF IndInv, DogLeavesAlone, Leave, TypeOK, ControlInv, ArmPCs, VerifyPCs, WatchPCs, DogPCs, CliPCs, RecoverPCs
<1>5. CoordInv'
  BY <1>1 DEF IndInv, DogLeavesAlone, Leave, TypeOK, CoordInv, RecoverPCs
<1>6. RecoveryInv'
  BY <1>1 DEF IndInv, DogLeavesAlone, Leave, TypeOK, RecoveryInv, RecoverPCs, Restoring
<1>7. CommitInv'
  BY <1>1 DEF IndInv, DogLeavesAlone, Leave, TypeOK, CommitInv
<1>8. WriterInv'
  BY DEF IndInv, DogLeavesAlone, WriterInv
<1>9. SettledDisk'
  BY DEF IndInv, DogLeavesAlone, SettledDisk
<1> QED
  BY <1>3, <1>4, <1>5, <1>6, <1>7, <1>8, <1>9 DEF IndInv

\* The step DogRecovers (watchdog.inspectDeployOperation) keeps the invariant.
LEMMA DogRecoversStep ==
  ASSUME IndInv, DogRecovers
  PROVE  IndInv'
<1>1. pc' \in [Proc -> PCs]
  BY Zenon DEF IndInv, TypeOK, DogRecovers, Goto, PCs
<1>2. arg' \in [Proc -> 0 .. MaxGen]
  BY Zenon, GenRange DEF IndInv, TypeOK, DogRecovers, Goto, Record
<1>3. TypeOK'
  BY <1>1, <1>2 DEF IndInv, TypeOK, DogRecovers, Goto
<1>4. ControlInv'
  <2>1. rec.gen \in Gen
    BY BoundsAssumption DEF IndInv, TypeOK, ControlInv, Record, DogRecovers, Gen
  <2> QED
    BY <2>1, ProcFacts DEF IndInv, DogRecovers, Goto, TypeOK, ControlInv, ArmPCs, VerifyPCs, WatchPCs, DogPCs, CliPCs, RecoverPCs
<1>5. CoordInv'
  BY DEF IndInv, DogRecovers, Goto, CoordInv
<1>6. RecoveryInv'
  BY DEF IndInv, DogRecovers, Goto, TypeOK, RecoveryInv, RecoverPCs, Restoring
<1>7. CommitInv'
  BY DEF IndInv, DogRecovers, Goto, CommitInv
<1>8. WriterInv'
  BY DEF IndInv, DogRecovers, Goto, WriterInv
<1>9. SettledDisk'
  BY DEF IndInv, DogRecovers, Goto, SettledDisk
<1> QED
  BY <1>3, <1>4, <1>5, <1>6, <1>7, <1>8, <1>9 DEF IndInv

\* The step DogLegacy (watchdog.handleVMStopped) keeps the invariant.
LEMMA DogLegacyStep ==
  ASSUME IndInv, NEW start \in BOOLEAN, DogLegacy(start)
  PROVE  IndInv'
<1>1. vm' \in [running : BOOLEAN, disk : Disk, fresh : BOOLEAN]
  BY Zenon DEF IndInv, TypeOK, DogLegacy, Goto, Record
<1>2. pc' \in [Proc -> PCs]
  BY Zenon DEF IndInv, TypeOK, DogLegacy, Goto, PCs
<1>3. TypeOK'
  BY <1>1, <1>2 DEF IndInv, TypeOK, DogLegacy, Goto
<1>4. ControlInv'
  BY DEF IndInv, DogLegacy, Goto, TypeOK, ControlInv, ArmPCs, VerifyPCs, WatchPCs, DogPCs, CliPCs, RecoverPCs
<1>5. CoordInv'
  BY DEF IndInv, DogLegacy, Goto, TypeOK, CoordInv, RecoverPCs
<1>6. RecoveryInv'
  BY DEF IndInv, DogLegacy, Goto, TypeOK, RecoveryInv, RecoverPCs, Restoring
<1>7. CommitInv'
  BY DEF IndInv, DogLegacy, Goto, CommitInv
<1>8. WriterInv'
  BY DEF IndInv, DogLegacy, Goto, WriterInv
<1>9. SettledDisk'
  BY DEF IndInv, DogLegacy, Goto, SettledDisk
<1> QED
  BY <1>3, <1>4, <1>5, <1>6, <1>7, <1>8, <1>9 DEF IndInv

\* Every step of the watchdog (handleDeployOperation, inspectDeployOperation) keeps the invariant.
LEMMA DogStepInv ==
  ASSUME IndInv, DogStep
  PROVE  IndInv'
<1>1. CASE DogNoRecord
  BY <1>1, DogNoRecordStep
<1>2. CASE DogLock
  BY <1>2, DogLockStep
<1>3. CASE DogSettled
  BY <1>3, DogSettledStep
<1>4. CASE DogLeavesAlone
  BY <1>4, DogLeavesAloneStep
<1>5. CASE DogRecovers
  BY <1>5, DogRecoversStep
<1>6. CASE \E start \in BOOLEAN : DogLegacy(start)
  BY <1>6, DogLegacyStep
<1> QED
  BY <1>1, <1>2, <1>3, <1>4, <1>5, <1>6 DEF DogStep

\* Every step of a watch unit (Engine.Watch) keeps the invariant.
LEMMA WatchStepInv ==
  ASSUME IndInv, NEW g \in Gen, WatchStep(g)
  PROVE  IndInv'
<1>1. CASE WatchRegister(g)
  BY <1>1, WatchRegisterStep
<1>2. CASE WatchLoop(g)
  BY <1>2, WatchLoopStep
<1>3. CASE WatchObserve(g)
  BY <1>3, WatchObserveStep
<1>4. CASE WatchJudge(g)
  BY <1>4, WatchJudgeStep
<1>5. CASE WatchAlarm(g)
  BY <1>5, WatchAlarmStep
<1>6. CASE WatchQuit(g)
  BY <1>6, WatchQuitStep
<1>7. CASE \E res \in CheckResults : WatchCheck(g, res)
  BY <1>7, WatchCheckStep
<1> QED
  BY <1>1, <1>2, <1>3, <1>4, <1>5, <1>6, <1>7 DEF WatchStep
=============================================================================
