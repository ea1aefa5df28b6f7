--------------------------- MODULE DeployOperation ---------------------------
(***************************************************************************)
(* The deployment operation of internal/deployoperation: one persisted     *)
(* record that arms a deploy, fences each mutation of the gateway VM with  *)
(* a lease, and is settled by a commit, a disarm or the restoration of the *)
(* exact pre-deploy snapshot.  Five kinds of process share the record: the *)
(* command line's arm, lease/release, verify and recover invocations       *)
(* (cmd/mwan/deploygate_operation.go), the transient watch unit of each    *)
(* generation, and the hypervisor watchdog (watchdog/deploy_operation.go). *)
(* Two advisory locks order them: the recovery coordinator and the record  *)
(* lock.  A record transaction is one step, because the record lock covers *)
(* it and the record file is replaced by a rename; only Commit keeps the   *)
(* record lock across steps.                                               *)
(***************************************************************************)
EXTENDS Integers, FiniteSets

CONSTANTS
    MaxGen,            \* operation identities the controller may use
    MaxTime,           \* the clock stops here
    Budget,            \* Deadline - now when an operation is armed
    MaxLease,          \* mutation leases granted over a behaviour
    MaxAge,            \* MaxAgeSeconds of the required checks
    InterruptMax,      \* MaxSeconds of the expected interruption
    FailureThreshold,  \* failed watch observations before recovery
    MaxArms, MaxVerifies, MaxRecovers,  \* invocations of the command line
    MaxFaults          \* crashes, failed VM operations and expired contexts

ASSUME BoundsAssumption ==
    /\ MaxGen \in Nat \ {0}
    /\ MaxTime \in Nat
    /\ Budget \in Nat \ {0}
    /\ MaxLease \in Nat
    /\ MaxAge \in Nat \ {0}
    /\ InterruptMax \in Nat \ {0}
    /\ FailureThreshold \in Nat \ {0}
    /\ MaxArms \in Nat /\ MaxVerifies \in Nat /\ MaxRecovers \in Nat
    /\ MaxFaults \in Nat

Gen == 1 .. MaxGen
Time == 0 .. MaxTime

\* Process identities.  The watch unit of generation g is process g.
None    == 0
Dog     == -1
Arm     == -2
Verify  == -3
Cli     == -4
Recoverer == Gen \cup {Dog, Cli}
Proc      == Recoverer \cup {Arm, Verify}

Statuses == {"absent", "armed", "recovering", "recovered",
             "recovery_failed", "committed", "disarmed"}
Phases   == {"config", "reboot"}   \* only "reboot" has an expected interruption
Outcomes == {"pass", "interrupted", "fail"}

\* Disk content of the gateway: 0 is the content before any operation, g the
\* target of generation g, Partial a mutation that is not finished.
Partial == -1
Disk    == -1 .. MaxGen

NoLease == [id |-> 0, phase |-> "config", started |-> 0, expires |-> 0]
NoObs   == [ok |-> "fail", at |-> 0]
NoWatch == [lease |-> 0, res |-> NoObs, fails |-> 0]
NoCommit == [start |-> 0, res |-> NoObs]

VARIABLES
    now,      \* Store.Clock
    rec,      \* the record file
    coord,    \* holder of the recovery coordinator's flock
    txn,      \* holder of the record lock across steps (only Commit)
    pc,       \* control state of every process
    arg,      \* the generation a process was started for
    watch,    \* local variables of each watch unit
    commit,   \* local variables of the verify invocation
    vm,       \* running, disk content, booted since the operation was armed
    writers,  \* mutations in flight in the guest, each under its lease
    leases,   \* leases granted so far (the random lease identities)
    past,     \* history: generations armed so far, whether one was armed twice,
              \* generations that were granted a lease
    calls, faults

vars == <<now, rec, coord, txn, pc, arg, watch, commit, vm, writers, leases,
          past, calls, faults>>

Lease  == [id : 0 .. MaxLease, phase : Phases, started : Time, expires : Time]
Obs    == [ok : Outcomes, at : Time]
Record == [gen : 0 .. MaxGen, status : Statuses, deadline : Time, lease : Lease,
           watch : BOOLEAN, obs : Obs, base : Disk]
Writer == [id : 1 .. MaxLease, gen : Gen, expires : Time]
PCs    == {"idle", "armLock", "armCreate", "armWatch", "armWait", "armBegin",
           "register", "loop", "check", "observe", "judge", "dead",
           "inspect", "legacy", "recLock", "recBegin", "recDrain", "recStop", "recRoll",
           "recStart", "recVerify", "recFinish",
           "cmAwait", "cmLock", "cmOpen", "cmCheck", "cmClose"}

TypeOK ==
    /\ now \in Time
    /\ rec \in Record
    /\ coord \in Proc \cup {None}
    /\ txn \in {None, Verify}
    /\ pc \in [Proc -> PCs]
    /\ arg \in [Proc -> 0 .. MaxGen]
    /\ watch \in [Gen -> [lease : 0 .. MaxLease, res : Obs,
                          fails : 0 .. FailureThreshold]]
    /\ commit \in [start : Time, res : Obs]
    /\ vm \in [running : BOOLEAN, disk : Disk, fresh : BOOLEAN]
    /\ writers \in SUBSET Writer
    /\ leases \in 0 .. MaxLease
    /\ past \in [armed : SUBSET Gen, reused : BOOLEAN, granted : SUBSET Gen]
    /\ calls \in [arm : 0 .. MaxArms, verify : 0 .. MaxVerifies, recover : 0 .. MaxRecovers]
    /\ faults \in 0 .. MaxFaults

Init ==
    /\ now = 0
    /\ rec = [gen |-> 0, status |-> "absent", deadline |-> 0, lease |-> NoLease,
              watch |-> FALSE, obs |-> NoObs, base |-> 0]
    /\ coord = None
    /\ txn = None
    /\ pc = [p \in Proc |-> "idle"]
    /\ arg = [p \in Proc |-> 0]
    /\ watch = [g \in Gen |-> NoWatch]
    /\ commit = NoCommit
    /\ vm = [running |-> TRUE, disk |-> 0, fresh |-> FALSE]
    /\ writers = {}
    /\ leases = 0
    /\ past = [armed |-> {}, reused |-> FALSE, granted |-> {}]
    /\ calls = [arm |-> 0, verify |-> 0, recover |-> 0]
    /\ faults = 0

-----------------------------------------------------------------------------
(***************************************************************************)
(* What the transactions read.                                             *)
(***************************************************************************)

\* Status.settled: no watch, observation or restoration is needed any more.
Settled(status) == status \in {"committed", "recovered", "disarmed"}

\* WatchIdentity.Verify: the registered invocation still is the active unit.
WatchAlive(g) == pc[g] \notin {"idle", "dead"}
WatchVerified(r) == r.watch /\ r.gen \in Gen /\ WatchAlive(r.gen)

\* Lease.ExpiresAt.After(now) for an outstanding lease.
LeaseHeld(r, t) == r.lease.id # 0 /\ r.lease.expires > t

\* observation.RequiredPassed over every check: a complete pass, not too old.
ChecksPassed(obs, t) == obs.ok = "pass" /\ t - obs.at <= MaxAge

\* Record.MutationReady.
MutationReady(r, t) ==
    r.status = "armed" /\ r.watch /\ r.deadline > t /\ ChecksPassed(r.obs, t)

\* Engine.check: applications answer only through a running gateway.  An
\* "interrupted" result fails nothing but the inbound checks that the
\* expected interruption of phase "reboot" names.
CheckResults == {[ok |-> o, at |-> now] :
                   o \in IF vm.running THEN Outcomes ELSE Outcomes \ {"pass"}}

\* expectedInterruptionIDs: the same lease before and after the check, inside
\* its lifetime and inside the bound of its phase.
InterruptionExpected(savedLease, r, t) ==
    /\ r.lease.id # 0 /\ r.lease.id = savedLease
    /\ r.lease.started <= t /\ r.lease.expires > t
    /\ r.lease.phase = "reboot" /\ t < r.lease.started + InterruptMax

\* watchObservationsAllowed.
ObservationsAllowed(savedLease, r, obs, t) ==
    /\ r.status = "armed" /\ r.deadline > t
    /\ \/ ChecksPassed(obs, t)
       \/ /\ obs.ok = "interrupted"
          /\ InterruptionExpected(savedLease, r, t)
          /\ obs.at >= r.lease.started /\ t - obs.at <= MaxAge

\* verifyRestored against the baseline, for the identity the guest reports.
IdentityRestored(r) == vm.running /\ vm.disk = r.base /\ vm.fresh

-----------------------------------------------------------------------------
Goto(p, l) == pc' = [pc EXCEPT ![p] = l]

\* A process returns: it closes the coordinator it may own and its locals end.
Leave(p) ==
    /\ pc' = [pc EXCEPT ![p] = IF p \in Gen THEN "dead" ELSE "idle"]
    /\ coord' = IF coord = p THEN None ELSE coord
    /\ arg' = [arg EXCEPT ![p] = 0]
    /\ watch' = IF p \in Gen THEN [watch EXCEPT ![p] = NoWatch] ELSE watch
    /\ commit' = IF p = Verify THEN NoCommit ELSE commit

\* Mutant: the flock is not exclusive.
AcquireShared(p, from, to) ==
    /\ pc[p] = from
    /\ coord' = p
    /\ Goto(p, to)

\* rollback.Acquire on the recovery coordinator, a poll that finds it free.
Acquire(p, from, to) ==
    /\ pc[p] = from /\ coord = None
    /\ coord' = p
    /\ Goto(p, to)

\* An error the code does not control (a crash, a failed VM or systemd call,
\* an expired context) counts as a fault; one the record forces does not.
Fault == faults < MaxFaults /\ faults' = faults + 1
FaultUnless(forced) ==
    /\ forced \/ faults < MaxFaults
    /\ faults' = IF forced THEN faults ELSE faults + 1

\* The record lock is free and the record is the one process p was started for.
Exact(p) == txn = None /\ rec.gen = arg[p]

-----------------------------------------------------------------------------
(***************************************************************************)
(* Engine.Arm.  The coordinator is held from the baseline checks to return.*)
(***************************************************************************)

ArmCall(g) ==
    /\ pc[Arm] = "idle" /\ calls.arm < MaxArms
    /\ calls' = [calls EXCEPT !.arm = @ + 1]
    /\ arg' = [arg EXCEPT ![Arm] = g]
    /\ Goto(Arm, "armLock")
    /\ UNCHANGED <<now, rec, coord, txn, watch, commit, vm, writers, leases, past, faults>>

ArmLock ==
    /\ Acquire(Arm, "armLock", "armCreate")
    /\ UNCHANGED <<now, rec, txn, arg, watch, commit, vm, writers, leases, past, calls, faults>>

\* Baseline identity and checks pass, then Store.Create.  The manifest pins the
\* identity the guest reports now, and the snapshot holds that disk content.
CreatePermitted(g) ==
    /\ txn = None
    /\ rec.gen = 0 \/ (Settled(rec.status) /\ rec.gen # g)
    /\ now + Budget <= MaxTime

ArmCreate ==
    LET g == arg[Arm] IN
    /\ pc[Arm] = "armCreate" /\ CreatePermitted(g)
    /\ vm.running
    /\ rec' = [gen |-> g, status |-> "armed", deadline |-> now + Budget,
               lease |-> NoLease, watch |-> FALSE,
               obs |-> [ok |-> "pass", at |-> now], base |-> vm.disk]
    /\ vm' = [vm EXCEPT !.fresh = FALSE]
    /\ past' = [armed |-> past.armed \cup {g}, reused |-> past.reused \/ g \in past.armed,
                granted |-> past.granted \ {g}]
    /\ Goto(Arm, "armWatch")
    /\ UNCHANGED <<now, coord, txn, arg, watch, commit, writers, leases, calls, faults>>

\* Every error before Create: nothing was persisted.
ArmReject ==
    /\ pc[Arm] \in {"armLock", "armCreate"}
    /\ FaultUnless(pc[Arm] = "armCreate"
                     /\ ~(CreatePermitted(arg[Arm]) /\ vm.running))
    /\ Leave(Arm)
    /\ UNCHANGED <<now, rec, txn, vm, writers, leases, past, calls>>

\* StartWatch: the transient unit of the generation; systemd refuses a second one.
ArmStartWatch ==
    LET g == arg[Arm] IN
    /\ pc[Arm] = "armWatch" /\ ~WatchAlive(g)
    /\ pc' = [pc EXCEPT ![Arm] = "armWait", ![g] = "register"]
    /\ arg' = [arg EXCEPT ![g] = g]
    /\ watch' = [watch EXCEPT ![g] = NoWatch]
    /\ UNCHANGED <<now, rec, coord, txn, commit, vm, writers, leases, past, calls, faults>>

ArmDone ==
    /\ pc[Arm] = "armWait"
    /\ Exact(Arm) /\ MutationReady(rec, now) /\ WatchVerified(rec)
    /\ Leave(Arm)
    /\ UNCHANGED <<now, rec, txn, vm, writers, leases, past, calls, faults>>

\* What makes Arm fail after Create: the record no longer is armed, the context
\* (which ends at the deadline) expired, the unit exists, or any other error.
ArmFails ==
    /\ pc[Arm] \in {"armWatch", "armWait"} /\ Exact(Arm)
    /\ FaultUnless(\/ rec.status # "armed" \/ rec.deadline <= now
                   \/ pc[Arm] = "armWatch" /\ WatchAlive(arg[Arm]))

DisarmPermitted == rec.status = "armed" /\ rec.lease.id = 0

\* Mutant: Disarm does not look at the lease.
ArmDisarmDespiteLease ==
    /\ ArmFails /\ rec.status = "armed"
    /\ rec' = [rec EXCEPT !.status = "disarmed"]
    /\ Leave(Arm)
    /\ UNCHANGED <<now, txn, vm, writers, leases, past, calls>>

\* Store.Disarm in Arm's deferred error path.
ArmDisarm ==
    /\ ArmFails /\ DisarmPermitted
    /\ rec' = [rec EXCEPT !.status = "disarmed"]
    /\ Leave(Arm)
    /\ UNCHANGED <<now, txn, vm, writers, leases, past, calls>>

\* Disarm is refused; BeginRecovery is a transaction of its own.
ArmDisarmRefused ==
    /\ ArmFails /\ ~DisarmPermitted
    /\ Goto(Arm, "armBegin")
    /\ UNCHANGED <<now, rec, coord, txn, arg, watch, commit, vm, writers, leases, past, calls>>

\* Store.BeginRecovery.
BeginRecovery(r) ==
    IF r.status \in {"armed", "recovery_failed"}
    THEN [r EXCEPT !.status = "recovering"] ELSE r

ArmBegin ==
    /\ pc[Arm] = "armBegin" /\ Exact(Arm)
    /\ rec' = BeginRecovery(rec)
    /\ Leave(Arm)
    /\ UNCHANGED <<now, txn, vm, writers, leases, past, calls, faults>>

-----------------------------------------------------------------------------
(***************************************************************************)
(* Mutation leases (the lease and release modes of the command line) and   *)
(* the mutation itself, which the controller runs inside the guest.        *)
(***************************************************************************)

Grant(phase, expires) ==
    /\ txn = None /\ leases < MaxLease
    /\ MutationReady(rec, now) /\ WatchVerified(rec)
    /\ rec.lease.id = 0
    /\ expires > now /\ expires <= rec.deadline
    /\ phase = "reboot" => expires <= now + InterruptMax
    /\ leases' = leases + 1
    /\ rec' = [rec EXCEPT !.lease = [id |-> leases + 1, phase |-> phase,
                                     started |-> now, expires |-> expires]]
    /\ writers' = writers \cup {[id |-> leases + 1, gen |-> rec.gen, expires |-> expires]}
    /\ past' = [past EXCEPT !.granted = @ \cup {rec.gen}]
    /\ UNCHANGED <<now, coord, txn, pc, arg, watch, commit, vm, calls, faults>>

\* Mutant: the lease identity of a release is not compared.
ReleaseAnyLease(id) ==
    /\ txn = None
    /\ rec.status \in {"armed", "recovering"}
    /\ rec.lease.id # 0 /\ id <= leases /\ \A w \in writers : w.id # id
    /\ rec' = [rec EXCEPT !.lease = NoLease]
    /\ UNCHANGED <<now, coord, txn, pc, arg, watch, commit, vm, writers, leases, past, calls, faults>>

\* A release names its lease; one whose mutation has ended may arrive late or twice.
Release(id) ==
    /\ txn = None
    /\ rec.status \in {"armed", "recovering"}
    /\ rec.lease.id = id /\ \A w \in writers : w.id # id
    /\ rec' = [rec EXCEPT !.lease = NoLease]
    /\ UNCHANGED <<now, coord, txn, pc, arg, watch, commit, vm, writers, leases, past, calls, faults>>

\* The mutation changes the disk and may restart the guest.
Mutate(w, content, reboot) ==
    /\ w \in writers /\ vm.running
    /\ content \in {Partial, w.gen}
    /\ vm' = [vm EXCEPT !.disk = content, !.fresh = @ \/ reboot]
    /\ UNCHANGED <<now, rec, coord, txn, pc, arg, watch, commit, writers, leases, past, calls, faults>>

\* It ends by finishing, or because the controller died.
MutationEnds(w) ==
    /\ w \in writers
    /\ writers' = writers \ {w}
    /\ UNCHANGED <<now, rec, coord, txn, pc, arg, watch, commit, vm, leases, past, calls, faults>>

-----------------------------------------------------------------------------
(***************************************************************************)
(* Engine.Watch, run by the transient unit of generation g.                *)
(***************************************************************************)

RegisterPermitted(g) == rec.gen = g /\ rec.status = "armed" /\ ~rec.watch

WatchRegister(g) ==
    /\ pc[g] = "register" /\ txn = None /\ RegisterPermitted(g)
    /\ rec' = [rec EXCEPT !.watch = TRUE]
    /\ Goto(g, "loop")
    /\ UNCHANGED <<now, coord, txn, arg, watch, commit, vm, writers, leases, past, calls, faults>>

Unsettled(g) == rec.gen = g /\ ~Settled(rec.status)

WatchLoop(g) ==
    /\ pc[g] = "loop" /\ txn = None
    /\ rec.gen = g /\ rec.status = "armed" /\ rec.deadline > now
    /\ watch' = [watch EXCEPT ![g].lease = rec.lease.id]
    /\ Goto(g, "check")
    /\ UNCHANGED <<now, rec, coord, txn, arg, commit, vm, writers, leases, past, calls, faults>>

WatchCheck(g, res) ==
    /\ pc[g] = "check" /\ res \in CheckResults
    /\ watch' = [watch EXCEPT ![g].res = res]
    /\ Goto(g, "observe")
    /\ UNCHANGED <<now, rec, coord, txn, arg, commit, vm, writers, leases, past, calls, faults>>

\* Store.observe: a settled or a failed operation keeps its results.
ObservePermitted(g) == rec.gen = g /\ rec.status \in {"armed", "recovering"}

\* Mutant: observe does not compare the generation.
WatchObserveAnyGeneration(g) ==
    /\ pc[g] = "observe" /\ txn = None /\ rec.status \in {"armed", "recovering"}
    /\ rec' = [rec EXCEPT !.obs = watch[g].res]
    /\ Goto(g, "judge")
    /\ UNCHANGED <<now, coord, txn, arg, watch, commit, vm, writers, leases, past, calls, faults>>

WatchObserve(g) ==
    /\ pc[g] = "observe" /\ txn = None /\ ObservePermitted(g)
    /\ rec' = [rec EXCEPT !.obs = watch[g].res]
    /\ Goto(g, "judge")
    /\ UNCHANGED <<now, coord, txn, arg, watch, commit, vm, writers, leases, past, calls, faults>>

\* The failure count after the observation just made.
Failures(g) ==
    IF ObservationsAllowed(watch[g].lease, rec, watch[g].res, now)
    THEN 0 ELSE watch[g].fails + 1

\* Mutant: the threshold is not looked at, the failures only count up.
WatchJudgeForever(g) ==
    /\ pc[g] = "judge" /\ txn = None /\ Unsettled(g)
    /\ watch' = [watch EXCEPT ![g] = [NoWatch EXCEPT !.fails = Failures(g)]]
    /\ Goto(g, "loop")
    /\ UNCHANGED <<now, rec, coord, txn, arg, commit, vm, writers, leases, past, calls, faults>>

WatchJudge(g) ==
    /\ pc[g] = "judge" /\ txn = None /\ Unsettled(g)
    /\ Failures(g) < FailureThreshold
    /\ watch' = [watch EXCEPT ![g] = [NoWatch EXCEPT !.fails = Failures(g)]]
    /\ Goto(g, "loop")
    /\ UNCHANGED <<now, rec, coord, txn, arg, commit, vm, writers, leases, past, calls, faults>>

\* The watch turns to Recover: the deadline, a recovery someone else began, or
\* too many failed observations.
WatchAlarm(g) ==
    /\ txn = None /\ Unsettled(g)
    /\ \/ pc[g] = "loop" /\ (rec.status # "armed" \/ rec.deadline <= now)
       \/ pc[g] = "judge" /\ Failures(g) >= FailureThreshold
    /\ watch' = [watch EXCEPT ![g] = NoWatch]
    /\ Goto(g, "recLock")
    /\ UNCHANGED <<now, rec, coord, txn, arg, commit, vm, writers, leases, past, calls, faults>>

\* It returns: registration or observation refused, operation settled or replaced.
WatchQuit(g) ==
    /\ txn = None
    /\ \/ pc[g] = "register" /\ ~RegisterPermitted(g)
       \/ pc[g] \in {"loop", "judge"} /\ ~Unsettled(g)
       \/ pc[g] = "observe" /\ ~ObservePermitted(g)
    /\ Leave(g)
    /\ UNCHANGED <<now, rec, txn, vm, writers, leases, past, calls, faults>>

-----------------------------------------------------------------------------
(***************************************************************************)
(* Engine.Recover and RecoverCoordinated, run by a watch unit, the recover *)
(* mode of the command line or the watchdog.  The coordinator is held from *)
(* recBegin on.                                                            *)
(***************************************************************************)

RecoverCall(g) ==
    /\ pc[Cli] = "idle" /\ calls.recover < MaxRecovers
    /\ calls' = [calls EXCEPT !.recover = @ + 1]
    /\ arg' = [arg EXCEPT ![Cli] = g]
    /\ Goto(Cli, "recLock")
    /\ UNCHANGED <<now, rec, coord, txn, watch, commit, vm, writers, leases, past, faults>>

RecLock(p) ==
    /\ Acquire(p, "recLock", "recBegin")
    /\ UNCHANGED <<now, rec, txn, arg, watch, commit, vm, writers, leases, past, calls, faults>>

\* Mutant: recovery is accepted after the operation is settled.
RecBeginAfterSettlement(p) ==
    /\ pc[p] = "recBegin" /\ Exact(p)
    /\ rec' = [rec EXCEPT !.status = "recovering"]
    /\ Goto(p, "recDrain")
    /\ UNCHANGED <<now, coord, txn, arg, watch, commit, vm, writers, leases, past, calls, faults>>

RecBegin(p) ==
    /\ pc[p] = "recBegin" /\ Exact(p) /\ ~Settled(rec.status)
    /\ rec' = BeginRecovery(rec)
    /\ Goto(p, "recDrain")
    /\ UNCHANGED <<now, coord, txn, arg, watch, commit, vm, writers, leases, past, calls, faults>>

\* A recovered operation is done, a committed or disarmed one refuses.
RecRefused(p) ==
    /\ pc[p] = "recBegin" /\ txn = None
    /\ rec.gen # arg[p] \/ Settled(rec.status)
    /\ Leave(p)
    /\ UNCHANGED <<now, rec, txn, vm, writers, leases, past, calls, faults>>

\* Mutant: the lease is not drained.
RestorePermittedUnderLease(p) == Exact(p) /\ rec.status = "recovering"

\* What WaitForLease, Restore and finishRecovery require of the record.
RestorePermitted(p) ==
    Exact(p) /\ rec.status = "recovering" /\ ~LeaseHeld(rec, now)

\* WaitForLease: poll the record until its lease is released or has expired.
RecDrain(p) ==
    /\ pc[p] = "recDrain" /\ RestorePermitted(p)
    /\ Goto(p, "recStop")
    /\ UNCHANGED <<now, rec, coord, txn, arg, watch, commit, vm, writers, leases, past, calls, faults>>

\* Restore: the record is read again, then stop, roll back, start.
RecStop(p) ==
    /\ pc[p] = "recStop" /\ RestorePermitted(p)
    /\ vm' = [vm EXCEPT !.running = FALSE]
    /\ Goto(p, "recRoll")
    /\ UNCHANGED <<now, rec, coord, txn, arg, watch, commit, writers, leases, past, calls, faults>>

RecRollback(p) ==
    /\ pc[p] = "recRoll"
    /\ vm' = [vm EXCEPT !.running = FALSE, !.disk = rec.base]
    /\ Goto(p, "recStart")
    /\ UNCHANGED <<now, rec, coord, txn, arg, watch, commit, writers, leases, past, calls, faults>>

RecStart(p) ==
    /\ pc[p] = "recStart"
    /\ vm' = [vm EXCEPT !.running = TRUE, !.fresh = TRUE]
    /\ Goto(p, "recVerify")
    /\ UNCHANGED <<now, rec, coord, txn, arg, watch, commit, writers, leases, past, calls, faults>>

\* awaitRestored: the baseline identity after a new boot, then the restored
\* checks, persisted by observe; a failing round is repeated.
RecVerify(p, res) ==
    /\ pc[p] = "recVerify" /\ Exact(p) /\ rec.status = "recovering"
    /\ IdentityRestored(rec) /\ res \in CheckResults
    /\ rec' = [rec EXCEPT !.obs = res]
    /\ Goto(p, IF res.ok = "pass" THEN "recFinish" ELSE "recVerify")
    /\ UNCHANGED <<now, coord, txn, arg, watch, commit, vm, writers, leases, past, calls, faults>>

RecFinish(p) ==
    /\ pc[p] = "recFinish" /\ RestorePermitted(p)
    /\ rec' = [rec EXCEPT !.status = "recovered", !.lease = NoLease]
    /\ Leave(p)
    /\ UNCHANGED <<now, txn, vm, writers, leases, past, calls, faults>>

\* Any error between BeginRecovery and the end: finishRecovery without identity.
RecFail(p) ==
    /\ pc[p] \in {"recDrain", "recStop", "recRoll", "recStart", "recVerify", "recFinish"}
    /\ txn = None
    /\ FaultUnless(\/ rec.gen # arg[p] \/ rec.status # "recovering"
                   \/ pc[p] \in {"recStop", "recFinish"} /\ LeaseHeld(rec, now))
    /\ rec' = IF rec.gen = arg[p] /\ rec.status = "recovering"
              THEN [rec EXCEPT !.status = "recovery_failed"] ELSE rec
    /\ Leave(p)
    /\ UNCHANGED <<now, txn, vm, writers, leases, past, calls>>

-----------------------------------------------------------------------------
(***************************************************************************)
(* Engine.Commit (the verify mode).  Store.Commit keeps the record lock    *)
(* while the identity is read and the checks run.                          *)
(***************************************************************************)

VerifyCall(g) ==
    /\ pc[Verify] = "idle" /\ calls.verify < MaxVerifies
    /\ calls' = [calls EXCEPT !.verify = @ + 1]
    /\ arg' = [arg EXCEPT ![Verify] = g]
    /\ commit' = [commit EXCEPT !.start = now]
    /\ Goto(Verify, "cmAwait")
    /\ UNCHANGED <<now, rec, coord, txn, watch, vm, writers, leases, past, faults>>

\* awaitWatchObservations: results of the watch from after the call.
CmAwait ==
    /\ pc[Verify] = "cmAwait" /\ Exact(Verify)
    /\ MutationReady(rec, now) /\ WatchVerified(rec) /\ rec.obs.at > commit.start
    /\ Goto(Verify, "cmLock")
    /\ UNCHANGED <<now, rec, coord, txn, arg, watch, commit, vm, writers, leases, past, calls, faults>>

CmLock ==
    /\ Acquire(Verify, "cmLock", "cmOpen")
    /\ UNCHANGED <<now, rec, txn, arg, watch, commit, vm, writers, leases, past, calls, faults>>

\* Mutant: a commit does not look at the lease.
CommitPermittedDespiteLease == rec.status = "armed" /\ rec.deadline > now

CommitPermitted == rec.status = "armed" /\ rec.lease.id = 0 /\ rec.deadline > now

CmOpen ==
    /\ pc[Verify] = "cmOpen" /\ Exact(Verify) /\ CommitPermitted
    /\ txn' = Verify
    /\ Goto(Verify, "cmCheck")
    /\ UNCHANGED <<now, rec, coord, arg, watch, commit, vm, writers, leases, past, calls, faults>>

\* Mutant: the identity of the guest is not compared with the target.
CmCheckAnyTarget(res) ==
    /\ pc[Verify] = "cmCheck"
    /\ vm.running /\ res \in CheckResults
    /\ commit' = [commit EXCEPT !.res = res]
    /\ Goto(Verify, "cmClose")
    /\ UNCHANGED <<now, rec, coord, txn, arg, watch, vm, writers, leases, past, calls, faults>>

\* Target identity, boot excepted, then the required checks.
CmCheck(res) ==
    /\ pc[Verify] = "cmCheck"
    /\ vm.running /\ vm.disk = rec.gen /\ res \in CheckResults
    /\ commit' = [commit EXCEPT !.res = res]
    /\ Goto(Verify, "cmClose")
    /\ UNCHANGED <<now, rec, coord, txn, arg, watch, vm, writers, leases, past, calls, faults>>

\* The results are saved in every case; the status only when all still holds.
CmClose ==
    LET r == [rec EXCEPT !.obs = commit.res] IN
    /\ pc[Verify] = "cmClose"
    /\ rec' = IF MutationReady(r, now) /\ WatchVerified(r)
              THEN [r EXCEPT !.status = "committed"] ELSE r
    /\ txn' = None
    /\ Leave(Verify)
    /\ UNCHANGED <<now, vm, writers, leases, past, calls, faults>>

\* Every error return of Commit leaves the record as it was.
CmFail ==
    /\ pc[Verify] \in {"cmAwait", "cmLock", "cmOpen", "cmCheck"}
    /\ FaultUnless(
         \/ pc[Verify] = "cmAwait" /\ txn = None
              /\ (rec.gen # arg[Verify] \/ rec.status # "armed" \/ ~WatchVerified(rec))
         \/ rec.deadline <= now
         \/ pc[Verify] = "cmOpen" /\ ~(Exact(Verify) /\ CommitPermitted)
         \/ pc[Verify] = "cmCheck" /\ ~(vm.running /\ vm.disk = rec.gen))
    /\ txn' = None
    /\ Leave(Verify)
    /\ UNCHANGED <<now, rec, vm, writers, leases, past, calls>>

-----------------------------------------------------------------------------
(***************************************************************************)
(* The watchdog.  Each iteration inspects the operation under the          *)
(* coordinator; without an unresolved one it goes on to its own recovery   *)
(* (handleVMStopped), after the coordinator is closed.                     *)
(***************************************************************************)

\* handleDeployOperation: no record file, no coordination.
DogNoRecord ==
    /\ pc[Dog] = "idle" /\ rec.gen = 0
    /\ Goto(Dog, "legacy")
    /\ UNCHANGED <<now, rec, coord, txn, arg, watch, commit, vm, writers, leases, past, calls, faults>>

DogLock ==
    /\ rec.gen # 0 /\ Acquire(Dog, "idle", "inspect")
    /\ UNCHANGED <<now, rec, txn, arg, watch, commit, vm, writers, leases, past, calls, faults>>

\* inspectDeployOperation: nothing to do, a live operation to leave alone, or
\* one to recover under the coordinator it already owns.
DogSettled ==
    /\ pc[Dog] = "inspect" /\ txn = None /\ Settled(rec.status)
    /\ Goto(Dog, "legacy") /\ coord' = None
    /\ UNCHANGED <<now, rec, txn, arg, watch, commit, vm, writers, leases, past, calls, faults>>

OperationLive == rec.status = "armed" /\ rec.deadline > now /\ WatchVerified(rec)

DogLeavesAlone ==
    /\ pc[Dog] = "inspect" /\ txn = None /\ OperationLive
    /\ Leave(Dog)
    /\ UNCHANGED <<now, rec, txn, vm, writers, leases, past, calls, faults>>

\* Mutant: a failed recovery is taken for a settled operation.
DogRecoversNoFailed ==
    /\ pc[Dog] = "inspect" /\ txn = None
    /\ ~Settled(rec.status) /\ ~OperationLive
    /\ IF rec.status = "recovery_failed" THEN Leave(Dog)
       ELSE /\ arg' = [arg EXCEPT ![Dog] = rec.gen]
            /\ Goto(Dog, "recBegin") /\ UNCHANGED <<coord, watch, commit>>
    /\ UNCHANGED <<now, rec, txn, vm, writers, leases, past, calls, faults>>

DogRecovers ==
    /\ pc[Dog] = "inspect" /\ txn = None
    /\ ~Settled(rec.status) /\ ~OperationLive
    /\ arg' = [arg EXCEPT ![Dog] = rec.gen]
    /\ Goto(Dog, "recBegin")
    /\ UNCHANGED <<now, rec, coord, txn, watch, commit, vm, writers, leases, past, calls, faults>>

\* handleVMStopped may start a stopped VM; it does not hold the coordinator.
DogLegacy(start) ==
    /\ pc[Dog] = "legacy"
    /\ start => ~vm.running
    /\ vm' = IF start THEN [vm EXCEPT !.running = TRUE, !.fresh = TRUE] ELSE vm
    /\ Goto(Dog, "idle")
    /\ UNCHANGED <<now, rec, coord, txn, arg, watch, commit, writers, leases, past, calls, faults>>

-----------------------------------------------------------------------------
\* A process dies (the watch unit also at its RuntimeMaxSec): the kernel drops
\* its locks, the record file keeps its last complete content.
Crash(p) ==
    /\ pc[p] \notin {"idle", "dead"} /\ Fault
    /\ Leave(p)
    /\ txn' = IF txn = p THEN None ELSE txn
    /\ UNCHANGED <<now, rec, vm, writers, leases, past, calls>>

\* Time passes; a mutation does not outlive its lease, the controller's half of
\* the contract.
Tick ==
    /\ now < MaxTime
    /\ now' = now + 1
    /\ writers' = {w \in writers : w.expires > now'}
    /\ UNCHANGED <<rec, coord, txn, pc, arg, watch, commit, vm, leases, past, calls, faults>>

ArmStep ==
    \/ ArmLock \/ ArmCreate \/ ArmReject \/ ArmStartWatch \/ ArmDone
    \/ ArmDisarm \/ ArmDisarmRefused \/ ArmBegin
WatchStep(g) ==
    \/ WatchRegister(g) \/ WatchLoop(g) \/ WatchObserve(g) \/ WatchJudge(g)
    \/ WatchAlarm(g) \/ WatchQuit(g)
    \/ \E res \in CheckResults : WatchCheck(g, res)
RecoverStep(p) ==
    \/ RecLock(p) \/ RecBegin(p) \/ RecRefused(p) \/ RecDrain(p) \/ RecStop(p)
    \/ RecRollback(p) \/ RecStart(p) \/ RecFinish(p) \/ RecFail(p)
    \/ \E res \in CheckResults : RecVerify(p, res)
CommitStep ==
    \/ CmAwait \/ CmLock \/ CmOpen \/ CmClose \/ CmFail
    \/ \E res \in CheckResults : CmCheck(res)
DogStep ==
    \/ DogNoRecord \/ DogLock \/ DogSettled \/ DogLeavesAlone \/ DogRecovers
    \/ \E start \in BOOLEAN : DogLegacy(start)

Next ==
    \/ Tick
    \/ ArmStep \/ CommitStep \/ DogStep
    \/ \E g \in Gen : ArmCall(g) \/ VerifyCall(g) \/ RecoverCall(g) \/ WatchStep(g)
    \/ \E p \in Recoverer : RecoverStep(p)
    \/ \E p \in Proc : Crash(p)
    \/ \E phase \in Phases, t \in Time : Grant(phase, t)
    \/ \E id \in 1 .. MaxLease : Release(id)
    \/ \E w \in writers :
         \/ MutationEnds(w)
         \/ \E content \in Disk, reboot \in BOOLEAN : Mutate(w, content, reboot)

Spec == Init /\ [][Next]_vars

-----------------------------------------------------------------------------
(***************************************************************************)
(* Fairness: time passes, every started process runs (it is scheduled and  *)
(* its calls return within their contexts), and a restored gateway answers *)
(* its checks again.  Faults and command line invocations are finitely     *)
(* many.  Nothing is assumed of the mutation or of lease releases.         *)
(***************************************************************************)
Fairness ==
    /\ WF_vars(Tick)
    /\ WF_vars(ArmStep) /\ WF_vars(CommitStep) /\ WF_vars(DogStep)
    /\ \A g \in Gen : WF_vars(WatchStep(g))
    /\ \A p \in Recoverer :
         /\ WF_vars(RecoverStep(p))
         /\ WF_vars(RecVerify(p, [ok |-> "pass", at |-> now]))

FairSpec == Spec /\ Fairness

-----------------------------------------------------------------------------
(***************************************************************************)
(* Properties.                                                             *)
(***************************************************************************)

Restoring(p) == pc[p] \in {"recRoll", "recStart", "recVerify", "recFinish"}

\* While any process is between VMStop and the end of a restoration
\* (recovery.go Restore), the record is "recovering" for its own operation and
\* no mutation may still write to the disk that is being rolled back.
RestoreIsFenced ==
    \A p \in Recoverer : Restoring(p) =>
        /\ rec.status = "recovering" /\ rec.gen = arg[p]
        /\ writers = {}

\* A process that drains or restores owns the coordinator, so never two do
\* (rollback.Acquire, Engine.RecoverCoordinated).
OneRestorer ==
    \A p \in Recoverer :
        Restoring(p) \/ pc[p] \in {"recBegin", "recDrain", "recStop"} => coord = p

\* A mutation in flight always holds the one lease of the record: no release
\* of another lease frees it, no second mutation runs beside it, and none
\* survives the settlement of its operation (Store.Grant, Release, Commit).
WriterHoldsLease ==
    \A w \in writers :
        /\ rec.lease.id = w.id /\ rec.gen = w.gen
        /\ ~Settled(rec.status)

\* A committed operation left its target on the disk, a recovered one the
\* baseline of its snapshot, for as long as it is the operation in force
\* (Engine.Commit, finishRecovery with verifyRestored).
SettledDisk ==
    /\ rec.status = "committed" => vm.disk = rec.gen
    /\ rec.status = "recovered" => vm.disk = rec.base

\* The observations of a record were made after it was armed: results that the
\* watch of an earlier generation still carries never count as evidence for
\* the next one (Store.observe's identity check), as long as the controller
\* reuses no identity.
OwnEvidence == rec.gen # 0 /\ ~past.reused => rec.obs.at >= rec.deadline - Budget

\* A settled operation is final: only Store.Create replaces it, by a new armed
\* record, and no late recovery, observation or release touches it.
SettledIsFinal ==
    [][Settled(rec.status) /\ rec' # rec => rec'.status = "armed" /\ rec'.gen # rec.gen]_vars

\* Every armed operation is settled in the end, even when its controller, its
\* watch unit or a recovery dies on the way (watchdog.handleDeployOperation).
Settles == rec.gen # 0 ~> Settled(rec.status)

\* The detailed specification implements the contract of DeployContract.
Contract == INSTANCE DeployContract WITH
    gen <- rec.gen, status <- rec.status, disk <- vm.disk, base <- rec.base,
    mutating <- writers # {}
ImplementsContract == Contract!CSpec

-----------------------------------------------------------------------------
(***************************************************************************)
(* The inductive invariant behind the safety properties.                   *)
(***************************************************************************)

\* Which control states a process of each kind can be in.
RecoverPCs == {"recLock", "recBegin", "recDrain", "recStop", "recRoll",
               "recStart", "recVerify", "recFinish"}
ArmPCs     == {"idle", "armLock", "armCreate", "armWatch", "armWait", "armBegin"}
VerifyPCs  == {"idle", "cmAwait", "cmLock", "cmOpen", "cmCheck", "cmClose"}
WatchPCs   == {"idle", "dead", "register", "loop", "check", "observe", "judge"} \cup RecoverPCs
DogPCs     == {"idle", "inspect", "legacy"} \cup RecoverPCs
CliPCs     == {"idle"} \cup RecoverPCs

ControlInv ==
    /\ pc[Arm] \in ArmPCs /\ pc[Verify] \in VerifyPCs
    /\ pc[Dog] \in DogPCs /\ pc[Cli] \in CliPCs
    /\ \A g \in Gen : pc[g] \in WatchPCs
    /\ pc[Arm] # "idle" => arg[Arm] \in Gen
    /\ \A g \in Gen : pc[g] \notin {"idle", "dead"} => arg[g] \in Gen
    /\ \A p \in {Dog, Cli} : pc[p] \in RecoverPCs => arg[p] \in Gen
    /\ rec.gen = 0 <=> rec.status = "absent"
    /\ pc[Dog] = "inspect" => rec.gen # 0

\* Whoever is past Acquire and before Close owns the coordinator.
CoordInv ==
    /\ \A p \in Recoverer : pc[p] \in (RecoverPCs \ {"recLock"}) \cup {"inspect"} => coord = p
    /\ pc[Arm] \in {"armCreate", "armWatch", "armWait", "armBegin"} => coord = Arm
    /\ pc[Verify] \in {"cmOpen", "cmCheck", "cmClose"} => coord = Verify

\* Only the owner of the coordinator moves an operation into or out of
\* "recovering", and the lease is drained before anything is restored.
RecoveryInv ==
    \A p \in Recoverer :
        /\ pc[p] \in RecoverPCs \ {"recLock", "recBegin"} =>
               rec.status = "recovering" /\ rec.gen = arg[p]
        /\ Restoring(p) => ~LeaseHeld(rec, now)
        /\ pc[p] \in {"recStart", "recVerify", "recFinish"} => vm.disk = rec.base

\* Under the record lock of a commit the record stays armed without a lease,
\* and once its identity is verified the disk keeps the target.
CommitInv ==
    /\ txn = Verify <=> pc[Verify] \in {"cmCheck", "cmClose"}
    /\ txn = Verify => rec.status = "armed" /\ rec.lease.id = 0
    /\ pc[Verify] = "cmClose" => vm.disk = rec.gen

\* A mutation in flight and the lease of the record are the same grant.
WriterInv ==
    \A w \in writers :
        /\ rec.lease.id = w.id /\ rec.lease.expires = w.expires /\ w.expires > now
        /\ rec.gen = w.gen /\ ~Settled(rec.status)

\* The conjunction that every step of every process preserves: what the
\* record promises while a lock holder is between two of its transactions.
IndInv == TypeOK /\ ControlInv /\ CoordInv /\ RecoveryInv /\ CommitInv /\ WriterInv /\ SettledDisk

-----------------------------------------------------------------------------
(***************************************************************************)
(* What comments of the repository say and the code does not do.           *)
(***************************************************************************)

\* state.go: "Disarmed ends a generation that granted no mutation lease".
DisarmedWithoutLease == rec.status = "disarmed" => rec.gen \notin past.granted

\* coordinator.go: the coordinator "serializes all VM recovery operations
\* across processes": nobody else starts the VM inside a restoration.
StoppedUntilRestored ==
    \A p \in Recoverer : pc[p] \in {"recRoll", "recStart"} => ~vm.running
=============================================================================
