--------------------------- MODULE DeployArmProofs --------------------------
(***************************************************************************)
(* The steps of Engine.Arm, of the mutation leases and of the environment  *)
(* (mutations, crashes, the clock) keep the inductive invariant IndInv.    *)
(***************************************************************************)
EXTENDS DeployFacts

\* The step ArmCall (armDeployOperation) keeps the invariant.
LEMMA ArmCallStep ==
  ASSUME IndInv, NEW g \in Gen, ArmCall(g)
  PROVE  IndInv'
<1>1. pc' \in [Proc -> PCs]
  BY Zenon DEF IndInv, TypeOK, ArmCall, Goto, PCs
<1>2. arg' \in [Proc -> 0 .. MaxGen]
  BY Zenon, GenRange DEF IndInv, TypeOK, ArmCall, Goto, Record
<1>3. calls' \in [arm : 0 .. MaxArms, verify : 0 .. MaxVerifies, recover : 0 .. MaxRecovers]
  BY BoundsAssumption DEF IndInv, TypeOK, ArmCall, Goto
<1>4. TypeOK'
  BY <1>1, <1>2, <1>3 DEF IndInv, TypeOK, ArmCall, Goto
<1>5. ControlInv'
  BY ProcFacts DEF IndInv, ArmCall, Goto, TypeOK, ControlInv, ArmPCs, VerifyPCs, WatchPCs, DogPCs, CliPCs, RecoverPCs
<1>6. CoordInv'
  BY DEF IndInv, ArmCall, Goto, TypeOK, CoordInv, RecoverPCs
<1>7. RecoveryInv'
  BY DEF IndInv, ArmCall, Goto, TypeOK, RecoveryInv, RecoverPCs, Restoring
<1>8. CommitInv'
  BY DEF IndInv, ArmCall, Goto, CommitInv
<1>9. WriterInv'
  BY DEF IndInv, ArmCall, Goto, WriterInv
<1>10. SettledDisk'
  BY DEF IndInv, ArmCall, Goto, SettledDisk
<1> QED
  BY <1>4, <1>5, <1>6, <1>7, <1>8, <1>9, <1>10 DEF IndInv

\* The step ArmLock (Acquire) keeps the invariant.
LEMMA ArmLockStep ==
  ASSUME IndInv, ArmLock
  PROVE  IndInv'
<1>1. coord' \in Proc \cup {None}
  BY ProcFacts DEF IndInv, TypeOK, ArmLock, Acquire, Goto
<1>2. pc' \in [Proc -> PCs]
  BY Zenon DEF IndInv, TypeOK, ArmLock, Acquire, Goto, PCs
<1>3. TypeOK'
  BY <1>1, <1>2 DEF IndInv, TypeOK, ArmLock, Acquire, Goto
<1>4. ControlInv'
  BY DEF IndInv, ArmLock, Acquire, Goto, TypeOK, ControlInv, ArmPCs, VerifyPCs, WatchPCs, DogPCs, CliPCs, RecoverPCs
<1>5. CoordInv'
  BY ProcFacts DEF IndInv, ArmLock, Acquire, Goto, TypeOK, CoordInv, RecoverPCs
<1>6. RecoveryInv'
  BY DEF IndInv, ArmLock, Acquire, Goto, TypeOK, RecoveryInv, RecoverPCs, Restoring
<1>7. CommitInv'
  BY DEF IndInv, ArmLock, Acquire, Goto, CommitInv
<1>8. WriterInv'
  BY DEF IndInv, ArmLock, Acquire, Goto, WriterInv
<1>9. SettledDisk'
  BY DEF IndInv, ArmLock, Acquire, Goto, SettledDisk
<1> QED
  BY <1>3, <1>4, <1>5, <1>6, <1>7, <1>8, <1>9 DEF IndInv

\* The step ArmCreate (Engine.Arm) keeps the invariant.
LEMMA ArmCreateStep ==
  ASSUME IndInv, ArmCreate
  PROVE  IndInv'
<1>1. rec' \in Record
  <2>1. arg[Arm] \in 0 .. MaxGen /\ vm.disk \in Disk
    BY GenRange DEF IndInv, TypeOK, ControlInv, ArmCreate
  <2>2. now + Budget \in Time /\ now \in Time
    BY BoundsAssumption DEF IndInv, TypeOK, ArmCreate, CreatePermitted, Time
  <2> QED
    BY <2>1, <2>2, NullTypes DEF ArmCreate, Record, Statuses, Obs, Outcomes
<1>2. vm' \in [running : BOOLEAN, disk : Disk, fresh : BOOLEAN]
  BY Zenon DEF IndInv, TypeOK, ArmCreate, CreatePermitted, Goto, Settled, Record
<1>3. past' \in [armed : SUBSET Gen, reused : BOOLEAN, granted : SUBSET Gen]
  <2>1. arg[Arm] \in Gen
    BY DEF IndInv, ControlInv, ArmCreate
  <2> QED
    BY <2>1 DEF IndInv, TypeOK, ArmCreate
<1>4. pc' \in [Proc -> PCs]
  BY Zenon DEF IndInv, TypeOK, ArmCreate, CreatePermitted, Goto, Settled, PCs
<1>5. TypeOK'
  BY <1>1, <1>2, <1>3, <1>4 DEF IndInv, TypeOK, ArmCreate, CreatePermitted, Goto, Settled
<1>6. ControlInv'
  BY ProcFacts DEF IndInv, ArmCreate, CreatePermitted, Goto, Settled, TypeOK, ControlInv, ArmPCs, VerifyPCs, WatchPCs, DogPCs, CliPCs, RecoverPCs
<1>7. CoordInv'
  BY DEF IndInv, ArmCreate, CreatePermitted, Goto, Settled, CoordInv
<1>8. RecoveryInv'
  BY ProcFacts, BoundsAssumption DEF IndInv, ArmCreate, CreatePermitted, Goto, Settled, TypeOK, CoordInv, RecoveryInv, RecoverPCs, Restoring
<1>9. CommitInv'
  BY ProcFacts DEF IndInv, ArmCreate, CreatePermitted, Goto, Settled, TypeOK, CommitInv
<1>10. WriterInv'
  BY ProcFacts, BoundsAssumption DEF IndInv, ArmCreate, CreatePermitted, Goto, Settled, TypeOK, ControlInv, CoordInv, RecoveryInv, CommitInv, WriterInv, Record, Lease, Writer, LeaseHeld, Time, NoLease, RecoverPCs, Restoring
<1>11. SettledDisk'
  BY DEF IndInv, ArmCreate, CreatePermitted, Goto, Settled, SettledDisk
<1> QED
  BY <1>5, <1>6, <1>7, <1>8, <1>9, <1>10, <1>11 DEF IndInv

\* The step ArmReject (Engine.Arm) keeps the invariant.
LEMMA ArmRejectStep ==
  ASSUME IndInv, ArmReject
  PROVE  IndInv'
<1>1. Leave(Arm)
  BY DEF ArmReject
<1>2. LeaveTypes
  BY <1>1, LeaveType, ProcFacts DEF IndInv
<1>3. faults' \in 0 .. MaxFaults
  BY BoundsAssumption DEF IndInv, TypeOK, ArmReject, FaultUnless
<1>4. TypeOK'
  BY <1>2, <1>3 DEF IndInv, TypeOK, ArmReject, FaultUnless, LeaveTypes
<1>5. ControlInv'
  BY <1>1 DEF IndInv, ArmReject, FaultUnless, Leave, TypeOK, ControlInv, ArmPCs, VerifyPCs, WatchPCs, DogPCs, CliPCs, RecoverPCs
<1>6. CoordInv'
  BY <1>1 DEF IndInv, ArmReject, FaultUnless, Leave, TypeOK, CoordInv, RecoverPCs
<1>7. RecoveryInv'
  BY <1>1 DEF IndInv, ArmReject, FaultUnless, Leave, TypeOK, RecoveryInv, RecoverPCs, Restoring
<1>8. CommitInv'
  BY <1>1 DEF IndInv, ArmReject, FaultUnless, Leave, TypeOK, CommitInv
<1>9. WriterInv'
  BY DEF IndInv, ArmReject, FaultUnless, WriterInv
<1>10. SettledDisk'
  BY DEF IndInv, ArmReject, FaultUnless, SettledDisk
<1> QED
  BY <1>4, <1>5, <1>6, <1>7, <1>8, <1>9, <1>10 DEF IndInv

\* The step ArmStartWatch (StartWatch) keeps the invariant.
LEMMA ArmStartWatchStep ==
  ASSUME IndInv, ArmStartWatch
  PROVE  IndInv'
<1>1. pc' \in [Proc -> PCs]
  BY Zenon DEF IndInv, TypeOK, ArmStartWatch, WatchAlive, PCs
<1>2. arg' \in [Proc -> 0 .. MaxGen]
  <2>1. arg[Arm] \in 0 .. MaxGen
    BY GenRange DEF IndInv, ControlInv, ArmStartWatch
  <2> QED
    BY Zenon, <2>1 DEF IndInv, TypeOK, ArmStartWatch
<1>3. watch' \in [Gen -> [lease : 0 .. MaxLease, res : Obs, fails : 0 .. FailureThreshold]]
  BY Zenon, NullTypes DEF IndInv, TypeOK, ArmStartWatch, WatchAlive, Record, Lease
<1>4. TypeOK'
  BY Zenon, <1>1, <1>2, <1>3 DEF IndInv, TypeOK, ArmStartWatch, WatchAlive
<1>5. ControlInv'
  BY ProcFacts DEF IndInv, ArmStartWatch, WatchAlive, TypeOK, ControlInv, ArmPCs, VerifyPCs, WatchPCs, DogPCs, CliPCs, RecoverPCs
<1>6. CoordInv'
  BY ProcFacts DEF IndInv, ArmStartWatch, WatchAlive, TypeOK, CoordInv, RecoverPCs
<1>7. RecoveryInv'
  BY ProcFacts DEF IndInv, ArmStartWatch, WatchAlive, TypeOK, CoordInv, RecoveryInv, RecoverPCs, Restoring
<1>8. CommitInv'
  BY ProcFacts DEF IndInv, ArmStartWatch, WatchAlive, TypeOK, CommitInv
<1>9. WriterInv'
  BY DEF IndInv, ArmStartWatch, WatchAlive, WriterInv
<1>10. SettledDisk'
  BY DEF IndInv, ArmStartWatch, WatchAlive, SettledDisk
<1> QED
  BY <1>4, <1>5, <1>6, <1>7, <1>8, <1>9, <1>10 DEF IndInv

\* The step ArmDone (Engine.Arm) keeps the invariant.
LEMMA ArmDoneStep ==
  ASSUME IndInv, ArmDone
  PROVE  IndInv'
<1>1. Leave(Arm)
  BY DEF ArmDone
<1>2. LeaveTypes
  BY <1>1, LeaveType, ProcFacts DEF IndInv
<1>3. TypeOK'
  BY <1>2 DEF IndInv, TypeOK, ArmDone, LeaveTypes
<1>4. ControlInv'
  BY <1>1 DEF IndInv, ArmDone, Leave, TypeOK, ControlInv, ArmPCs, VerifyPCs, WatchPCs, DogPCs, CliPCs, RecoverPCs
<1>5. CoordInv'
  BY <1>1 DEF IndInv, ArmDone, Leave, TypeOK, CoordInv, RecoverPCs
<1>6. RecoveryInv'
  BY <1>1 DEF IndInv, ArmDone, Leave, TypeOK, RecoveryInv, RecoverPCs, Restoring
<1>7. CommitInv'
  BY <1>1 DEF IndInv, ArmDone, Leave, TypeOK, CommitInv
<1>8. WriterInv'
  BY DEF IndInv, ArmDone, WriterInv
<1>9. SettledDisk'
  BY DEF IndInv, ArmDone, SettledDisk
<1> QED
  BY <1>3, <1>4, <1>5, <1>6, <1>7, <1>8, <1>9 DEF IndInv

\* The step ArmDisarm (Store.Disarm) keeps the invariant.
LEMMA ArmDisarmStep ==
  ASSUME IndInv, ArmDisarm
  PROVE  IndInv'
<1>1. Leave(Arm)
  BY DEF ArmDisarm
<1>2. LeaveTypes
  BY <1>1, LeaveType, ProcFacts DEF IndInv
<1>3. rec' \in Record
  BY NullTypes DEF IndInv, TypeOK, ArmDisarm, ArmFails, DisarmPermitted, Exact, FaultUnless, Record, Statuses, Obs, Outcomes
<1>4. faults' \in 0 .. MaxFaults
  BY BoundsAssumption DEF IndInv, TypeOK, ArmDisarm, ArmFails, DisarmPermitted, Exact, FaultUnless
<1>5. TypeOK'
  BY <1>2, <1>3, <1>4 DEF IndInv, TypeOK, ArmDisarm, ArmFails, DisarmPermitted, Exact, FaultUnless, LeaveTypes
<1>6. ControlInv'
  BY <1>1 DEF IndInv, ArmDisarm, ArmFails, DisarmPermitted, Exact, FaultUnless, Leave, TypeOK, ControlInv, ArmPCs, VerifyPCs, WatchPCs, DogPCs, CliPCs, RecoverPCs
<1>7. CoordInv'
  BY <1>1 DEF IndInv, ArmDisarm, ArmFails, DisarmPermitted, Exact, FaultUnless, Leave, TypeOK, CoordInv, RecoverPCs
<1>8. RecoveryInv'
  BY <1>1 DEF IndInv, ArmDisarm, ArmFails, DisarmPermitted, Exact, FaultUnless, Leave, TypeOK, RecoveryInv, RecoverPCs, Restoring
<1>9. CommitInv'
  BY <1>1, ProcFacts DEF IndInv, ArmDisarm, ArmFails, DisarmPermitted, Exact, FaultUnless, Leave, TypeOK, CommitInv
<1>10. WriterInv'
  BY DEF IndInv, ArmDisarm, ArmFails, DisarmPermitted, Exact, FaultUnless, TypeOK, WriterInv, Settled, Record, Lease, Writer
<1>11. SettledDisk'
  BY DEF IndInv, ArmDisarm, ArmFails, DisarmPermitted, Exact, FaultUnless, SettledDisk
<1> QED
  BY <1>5, <1>6, <1>7, <1>8, <1>9, <1>10, <1>11 DEF IndInv

\* The step ArmDisarmRefused (Engine.Arm) keeps the invariant.
LEMMA ArmDisarmRefusedStep ==
  ASSUME IndInv, ArmDisarmRefused
  PROVE  IndInv'
<1>1. pc' \in [Proc -> PCs]
  BY Zenon DEF IndInv, TypeOK, ArmDisarmRefused, ArmFails, FaultUnless, Goto, PCs
<1>2. faults' \in 0 .. MaxFaults
  BY BoundsAssumption DEF IndInv, TypeOK, ArmDisarmRefused, ArmFails, FaultUnless, Goto
<1>3. TypeOK'
  BY <1>1, <1>2 DEF IndInv, TypeOK, ArmDisarmRefused, ArmFails, FaultUnless, Goto
<1>4. ControlInv'
  BY DEF IndInv, ArmDisarmRefused, ArmFails, FaultUnless, Goto, TypeOK, ControlInv, ArmPCs, VerifyPCs, WatchPCs, DogPCs, CliPCs, RecoverPCs
<1>5. CoordInv'
  BY DEF IndInv, ArmDisarmRefused, ArmFails, FaultUnless, Goto, TypeOK, CoordInv, RecoverPCs
<1>6. RecoveryInv'
  BY DEF IndInv, ArmDisarmRefused, ArmFails, FaultUnless, Goto, TypeOK, RecoveryInv, RecoverPCs, Restoring
<1>7. CommitInv'
  BY DEF IndInv, ArmDisarmRefused, ArmFails, FaultUnless, Goto, CommitInv
<1>8. WriterInv'
  BY DEF IndInv, ArmDisarmRefused, ArmFails, FaultUnless, Goto, WriterInv
<1>9. SettledDisk'
  BY DEF IndInv, ArmDisarmRefused, ArmFails, FaultUnless, Goto, SettledDisk
<1> QED
  BY <1>3, <1>4, <1>5, <1>6, <1>7, <1>8, <1>9 DEF IndInv

\* The step ArmBegin (Engine.Arm) keeps the invariant.
LEMMA ArmBeginStep ==
  ASSUME IndInv, ArmBegin
  PROVE  IndInv'
<1>1. Leave(Arm)
  BY DEF ArmBegin
<1>2. LeaveTypes
  BY <1>1, LeaveType, ProcFacts DEF IndInv
<1>3. rec' \in Record
  BY SMTT(30), NullTypes DEF IndInv, TypeOK, ArmBegin, Exact, BeginRecovery, Record, Statuses, Obs, Outcomes
<1>4. TypeOK'
  BY <1>2, <1>3 DEF IndInv, TypeOK, ArmBegin, Exact, BeginRecovery, LeaveTypes
<1>5. ControlInv'
  BY <1>1 DEF IndInv, ArmBegin, Exact, BeginRecovery, Leave, TypeOK, ControlInv, ArmPCs, VerifyPCs, WatchPCs, DogPCs, CliPCs, RecoverPCs
<1>6. CoordInv'
  BY <1>1 DEF IndInv, ArmBegin, Exact, BeginRecovery, Leave, TypeOK, CoordInv, RecoverPCs
<1>7. RecoveryInv'
  BY <1>1 DEF IndInv, ArmBegin, Exact, BeginRecovery, Leave, TypeOK, RecoveryInv, RecoverPCs, Restoring
<1>8. CommitInv'
  BY <1>1, ProcFacts DEF IndInv, ArmBegin, Exact, BeginRecovery, Leave, TypeOK, CommitInv
<1>9. WriterInv'
  BY DEF IndInv, ArmBegin, Exact, BeginRecovery, TypeOK, WriterInv, Settled, Record, Lease, Writer
<1>10. SettledDisk'
  BY DEF IndInv, ArmBegin, Exact, BeginRecovery, SettledDisk
<1> QED
  BY <1>4, <1>5, <1>6, <1>7, <1>8, <1>9, <1>10 DEF IndInv

\* The step Grant (Store.Grant) keeps the invariant.
LEMMA GrantStep ==
  ASSUME IndInv, NEW phase \in Phases, NEW t \in Time, Grant(phase, t)
  PROVE  IndInv'
<1>1. rec' \in Record
  <2>1. [id |-> leases + 1, phase |-> phase, started |-> now, expires |-> t] \in Lease
    BY BoundsAssumption DEF IndInv, TypeOK, Grant, Lease
  <2> QED
    BY <2>1 DEF IndInv, TypeOK, Grant, Record
<1>2. writers' \in SUBSET Writer
  <2>1. [id |-> leases + 1, gen |-> rec.gen, expires |-> t] \in Writer
    BY BoundsAssumption DEF IndInv, TypeOK, Grant, Writer, WatchVerified
  <2> QED
    BY <2>1 DEF IndInv, TypeOK, Grant
<1>3. leases' \in 0 .. MaxLease
  BY BoundsAssumption DEF IndInv, TypeOK, Grant, MutationReady
<1>4. past' \in [armed : SUBSET Gen, reused : BOOLEAN, granted : SUBSET Gen]
  BY DEF IndInv, TypeOK, Grant, WatchVerified
<1>5. TypeOK'
  BY <1>1, <1>2, <1>3, <1>4 DEF IndInv, TypeOK, Grant, MutationReady
<1>6. ControlInv'
  BY DEF IndInv, Grant, MutationReady, ControlInv
<1>7. CoordInv'
  BY DEF IndInv, Grant, MutationReady, CoordInv
<1>8. RecoveryInv'
  BY BoundsAssumption DEF IndInv, Grant, MutationReady, TypeOK, RecoveryInv, RecoverPCs, Restoring
<1>9. CommitInv'
  BY ProcFacts DEF IndInv, Grant, MutationReady, TypeOK, CommitInv
<1>10. WriterInv'
  BY BoundsAssumption DEF IndInv, Grant, MutationReady, TypeOK, WriterInv, Settled, Record, Lease, Writer
<1>11. SettledDisk'
  BY DEF IndInv, Grant, MutationReady, SettledDisk
<1> QED
  BY <1>5, <1>6, <1>7, <1>8, <1>9, <1>10, <1>11 DEF IndInv

\* The step Release (Store.Release) keeps the invariant.
LEMMA ReleaseStep ==
  ASSUME IndInv, NEW id \in 1 .. MaxLease, Release(id)
  PROVE  IndInv'
<1>1. rec' \in Record
  BY NullTypes DEF IndInv, TypeOK, Release, Record, Statuses, Obs, Outcomes
<1>2. TypeOK'
  BY <1>1 DEF IndInv, TypeOK, Release
<1>3. ControlInv'
  BY DEF IndInv, Release, ControlInv
<1>4. CoordInv'
  BY DEF IndInv, Release, CoordInv
<1>5. RecoveryInv'
  BY ProcFacts DEF IndInv, Release, TypeOK, CoordInv, RecoveryInv, RecoverPCs, Restoring, LeaseHeld, NoLease, Record, Lease
<1>6. CommitInv'
  BY DEF IndInv, Release, CommitInv
<1>7. WriterInv'
  BY DEF IndInv, Release, WriterInv
<1>8. SettledDisk'
  BY DEF IndInv, Release, SettledDisk
<1> QED
  BY <1>2, <1>3, <1>4, <1>5, <1>6, <1>7, <1>8 DEF IndInv

\* The step Mutate (the deployment play inside the guest) keeps the invariant.
LEMMA MutateStep ==
  ASSUME IndInv, NEW w \in writers, NEW content \in Disk, NEW reboot \in BOOLEAN, Mutate(w, content, reboot)
  PROVE  IndInv'
<1>1. vm' \in [running : BOOLEAN, disk : Disk, fresh : BOOLEAN]
  BY Zenon DEF IndInv, TypeOK, Mutate, Record
<1>2. TypeOK'
  BY <1>1 DEF IndInv, TypeOK, Mutate
<1>3. ControlInv'
  BY DEF IndInv, Mutate, ControlInv
<1>4. CoordInv'
  BY DEF IndInv, Mutate, CoordInv
<1>5. RecoveryInv'
  <2>1. LeaseHeld(rec, now)
    BY BoundsAssumption DEF IndInv, TypeOK, WriterInv, Writer, LeaseHeld
  <2>2. \A p \in Recoverer : ~Restoring(p)
    BY <2>1 DEF IndInv, RecoveryInv
  <2>3. \A p \in Recoverer : pc[p] \notin {"recStart", "recVerify", "recFinish"}
    BY <2>2 DEF Restoring
  <2> QED
    BY <2>3 DEF IndInv, RecoveryInv, Mutate, Restoring, LeaseHeld
<1>6. CommitInv'
  <2>1. rec.lease.id # 0
    BY BoundsAssumption DEF IndInv, TypeOK, WriterInv, Writer
  <2>2. pc[Verify] # "cmClose"
    BY <2>1 DEF IndInv, CommitInv
  <2> QED
    BY <2>2 DEF IndInv, CommitInv, Mutate
<1>7. WriterInv'
  BY DEF IndInv, Mutate, WriterInv
<1>8. SettledDisk'
  BY ProcFacts DEF IndInv, Mutate, TypeOK, ControlInv, CoordInv, RecoveryInv, CommitInv, WriterInv, SettledDisk, Record, Lease, Writer, Settled, RecoverPCs
<1> QED
  BY <1>2, <1>3, <1>4, <1>5, <1>6, <1>7, <1>8 DEF IndInv

\* The step MutationEnds (the deployment play inside the guest) keeps the invariant.
LEMMA MutationEndsStep ==
  ASSUME IndInv, NEW w \in writers, MutationEnds(w)
  PROVE  IndInv'
<1>1. writers' \in SUBSET Writer
  BY DEF IndInv, TypeOK, MutationEnds
<1>2. TypeOK'
  BY <1>1 DEF IndInv, TypeOK, MutationEnds
<1>3. ControlInv'
  BY DEF IndInv, MutationEnds, ControlInv
<1>4. CoordInv'
  BY DEF IndInv, MutationEnds, CoordInv
<1>5. RecoveryInv'
  BY DEF IndInv, MutationEnds, TypeOK, RecoveryInv, RecoverPCs, Restoring
<1>6. CommitInv'
  BY DEF IndInv, MutationEnds, CommitInv
<1>7. WriterInv'
  BY DEF IndInv, MutationEnds, WriterInv
<1>8. SettledDisk'
  BY DEF IndInv, MutationEnds, SettledDisk
<1> QED
  BY <1>2, <1>3, <1>4, <1>5, <1>6, <1>7, <1>8 DEF IndInv

\* The step Crash (process death, systemd RuntimeMaxSec) keeps the invariant.
LEMMA CrashStep ==
  ASSUME IndInv, NEW p \in Proc, Crash(p)
  PROVE  IndInv'
<1>1. Leave(p)
  BY DEF Crash
<1>2. LeaveTypes
  BY <1>1, LeaveType, ProcFacts DEF IndInv
<1>3. txn' \in {None, Verify}
  BY DEF IndInv, TypeOK, Crash, Fault
<1>4. faults' \in 0 .. MaxFaults
  BY BoundsAssumption DEF IndInv, TypeOK, Crash, Fault
<1>5. TypeOK'
  BY SMTT(30), <1>2, <1>3, <1>4 DEF IndInv, TypeOK, Crash, Fault, LeaveTypes
<1>6. ControlInv'
  BY <1>1, ProcFacts DEF IndInv, Crash, Fault, Leave, TypeOK, ControlInv, ArmPCs, VerifyPCs, WatchPCs, DogPCs, CliPCs, RecoverPCs
<1>7. CoordInv'
  BY <1>1 DEF IndInv, Crash, Fault, Leave, TypeOK, CoordInv, RecoverPCs
<1>8. RecoveryInv'
  BY SMTT(30), <1>1 DEF IndInv, Crash, Fault, Leave, TypeOK, RecoveryInv, RecoverPCs, Restoring
<1>9. CommitInv'
  BY SMTT(30), <1>1, ProcFacts DEF IndInv, Crash, Fault, Leave, TypeOK, CommitInv
<1>10. WriterInv'
  BY SMTT(30) DEF IndInv, Crash, Fault, WriterInv
<1>11. SettledDisk'
  BY DEF IndInv, Crash, Fault, SettledDisk
<1> QED
  BY <1>5, <1>6, <1>7, <1>8, <1>9, <1>10, <1>11 DEF IndInv

\* The step Tick (the wall clock; the play stops at the expiry of its lease) keeps the invariant.
LEMMA TickStep ==
  ASSUME IndInv, Tick
  PROVE  IndInv'
<1>1. now' \in Time
  BY BoundsAssumption DEF IndInv, TypeOK, Tick, Time
<1>2. writers' \in SUBSET Writer
  BY DEF IndInv, TypeOK, Tick
<1>3. TypeOK'
  BY <1>1, <1>2 DEF IndInv, TypeOK, Tick
<1>4. ControlInv'
  BY DEF IndInv, Tick, ControlInv
<1>5. CoordInv'
  BY DEF IndInv, Tick, CoordInv
<1>6. RecoveryInv'
  <2>1. rec.lease.expires \in Time /\ now \in Time
    BY DEF IndInv, TypeOK, Record, Lease
  <2>2. LeaseHeld(rec, now') => LeaseHeld(rec, now)
    BY <2>1 DEF Tick, LeaseHeld, Time
  <2>3. rec' = rec /\ pc' = pc /\ arg' = arg /\ vm' = vm
    BY DEF Tick
  <2> QED
    BY <2>2, <2>3 DEF IndInv, RecoveryInv, Restoring, LeaseHeld
<1>7. CommitInv'
  BY DEF IndInv, Tick, CommitInv
<1>8. WriterInv'
  BY DEF IndInv, Tick, WriterInv
<1>9. SettledDisk'
  BY DEF IndInv, Tick, SettledDisk
<1> QED
  BY <1>3, <1>4, <1>5, <1>6, <1>7, <1>8, <1>9 DEF IndInv

\* Every step of Engine.Arm keeps the invariant.
LEMMA ArmStepInv ==
  ASSUME IndInv, ArmStep
  PROVE  IndInv'
<1>1. CASE ArmLock
  BY <1>1, ArmLockStep
<1>2. CASE ArmCreate
  BY <1>2, ArmCreateStep
<1>3. CASE ArmReject
  BY <1>3, ArmRejectStep
<1>4. CASE ArmStartWatch
  BY <1>4, ArmStartWatchStep
<1>5. CASE ArmDone
  BY <1>5, ArmDoneStep
<1>6. CASE ArmDisarm
  BY <1>6, ArmDisarmStep
<1>7. CASE ArmDisarmRefused
  BY <1>7, ArmDisarmRefusedStep
<1>8. CASE ArmBegin
  BY <1>8, ArmBeginStep
<1> QED
  BY <1>1, <1>2, <1>3, <1>4, <1>5, <1>6, <1>7, <1>8 DEF ArmStep
=============================================================================
