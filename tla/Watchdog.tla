------------------------------ MODULE Watchdog ------------------------------
(***************************************************************************)
(* The rollback loop of the hypervisor watchdog (internal/watchdog) and    *)
(* the files it keeps across restarts (internal/rollback): the marker that *)
(* says a rollback is under way and the state file that says for which     *)
(* change a rollback was done.  The watchdog process can crash between any *)
(* two of its steps, the gateway VM can stop on its own, a deploy or an    *)
(* edit can change the VM's configuration at any time, and a signal        *)
(* handler runs beside the loop (main.go, internal/alert).                 *)
(*                                                                         *)
(* Clocks are abstract: a time stamp is a number that grows with every     *)
(* change and every detection of one, horizon is the newest stamp that has *)
(* left the DeployWindowMinutes window, and "past the timeout" and "out of *)
(* the grace period" are free choices.                                     *)
(***************************************************************************)
EXTENDS Integers, Sequences, FiniteSets, SequencesExt

CONSTANTS
    MaxChange,      \* configuration changes over a behaviour
    MaxStamp,       \* time stamps over a behaviour
    MaxAttempts,    \* MaxRollbackAttempts
    MaxKnownGood,   \* MaxKnownGoodSnapshots
    MaxSnaps,       \* snapshots taken over a behaviour
    MaxCrashes,     \* watchdog crashes
    MaxFails,       \* failed VM calls and failed writes
    MaxStops,       \* VM stops nobody asked for
    MaxOps,         \* deployment operations
    MaxSignals      \* SIGTERM or SIGINT to the watchdog

ASSUME WatchdogBounds ==
    /\ MaxChange \in Nat /\ MaxStamp \in Nat
    /\ MaxAttempts \in Nat \ {0} /\ MaxKnownGood \in Nat \ {0}
    /\ MaxSnaps \in Nat /\ MaxCrashes \in Nat /\ MaxFails \in Nat
    /\ MaxStops \in Nat /\ MaxOps \in Nat /\ MaxSignals \in Nat

Stamp == 1 .. MaxStamp

VARIABLES
    vm,        \* running, disk content, last-deploy file on that disk
    snaps,     \* the snapshot chain, oldest first
    marker,    \* RollbackLockFile exists
    state,     \* RollbackStateFile: for which change, done or failed, attempts
    pc,        \* control state of the watchdog loop
    mem,       \* fields of the watchdog struct, lost with the process
    rb,        \* locals of the rollback under way: change, target, error
    coord,     \* holder of the recovery coordinator
    op,        \* a deployment operation is unresolved
    rolling,   \* alert.Coord.rollingBack
    sig,       \* what the signal handler did: see SignalSteps
    stamp,     \* the clock
    horizon,   \* stamps up to this one are outside the change window
    hist,      \* history: who stopped the VM, VM stops per change, ...
    left       \* remaining budgets of the environment

vars == <<vm, snaps, marker, state, pc, mem, rb, coord, op, rolling, sig,
          stamp, horizon, hist, left>>

DiskType == [content : 0 .. MaxChange, deploy : 0 .. MaxStamp]
SnapType == [kind : {"pre", "good"}, id : 1 .. MaxSnaps, at : 0 .. MaxStamp,
             disk : DiskType]
NoSnap   == [kind |-> "good", id |-> 0, at |-> 0,
             disk |-> [content |-> 0, deploy |-> 0]]
NoRb     == [ts |-> 0, target |-> 0, err |-> FALSE]
NoMem    == [logged |-> FALSE, recovered |-> FALSE, hashWin |-> 0,
             lastHash |-> -1, hashOK |-> FALSE, grace |-> FALSE]
RollPCs  == {"rbMark", "rbStop", "rbRoll", "rbStart", "rbUnmark", "rbWrite", "rbEnd"}
PCs      == {"down", "start", "recover", "idle", "check", "rbLock"} \cup RollPCs

TypeOK ==
    /\ vm \in [running : BOOLEAN, disk : DiskType, change : 0 .. MaxStamp]
    /\ Range(snaps) \subseteq SnapType /\ Len(snaps) <= MaxSnaps
    /\ marker \in BOOLEAN
    /\ state \in [ts : 0 .. MaxStamp, done : BOOLEAN, attempts : 0 .. MaxAttempts]
    /\ pc \in PCs
    /\ mem \in [logged : BOOLEAN, recovered : BOOLEAN, hashWin : 0 .. MaxStamp,
                lastHash : -1 .. MaxChange, hashOK : BOOLEAN, grace : BOOLEAN]
    /\ rb \in [ts : 0 .. MaxStamp, target : 0 .. MaxSnaps, err : BOOLEAN]
    /\ coord \in {"free", "dog"}
    /\ op \in BOOLEAN /\ rolling \in BOOLEAN
    /\ sig \in {"none", "deferring", "deferred", "taken", "cancelled"}
    /\ stamp \in 0 .. MaxStamp /\ horizon \in 0 .. stamp
    /\ hist \in [stopBy : {"", "dog", "other"}, stops : [Stamp -> Nat], lost : [Stamp -> Nat],
                 unmarked : BOOLEAN, told : SUBSET Stamp, changes : 0 .. MaxChange, taken : 0 .. MaxSnaps]
    /\ left \in [crashes : 0 .. MaxCrashes, fails : 0 .. MaxFails,
                 stops : 0 .. MaxStops, ops : 0 .. MaxOps, signals : 0 .. MaxSignals]

\* A host whose watchdog is about to start: no marker, no state file.
Init ==
    /\ vm = [running |-> TRUE, disk |-> [content |-> 0, deploy |-> 0], change |-> 0]
    /\ snaps = <<>>
    /\ marker = FALSE
    /\ state = [ts |-> 0, done |-> FALSE, attempts |-> 0]
    /\ pc = "start"
    /\ mem = NoMem
    /\ rb = NoRb
    /\ coord = "free"
    /\ op = FALSE
    /\ rolling = FALSE
    /\ sig = "none"
    /\ stamp = 0 /\ horizon = 0
    /\ hist = [stopBy |-> "", stops |-> [t \in Stamp |-> 0], lost |-> [t \in Stamp |-> 0],
               unmarked |-> FALSE, told |-> {}, changes |-> 0, taken |-> 0]
    /\ left = [crashes |-> MaxCrashes, fails |-> MaxFails,
               stops |-> MaxStops, ops |-> MaxOps, signals |-> MaxSignals]

-----------------------------------------------------------------------------
(***************************************************************************)
(* Reading the files, the snapshots and the change markers.                *)
(***************************************************************************)

\* rollback.AlreadyDone: the state file answers for one change only.
Attempts(ts)    == IF state.ts = ts THEN state.attempts ELSE 0
AlreadyDone(ts) == state.ts = ts /\ state.done

Kind(k) == SelectSeq(snaps, LAMBDA s : s.kind = k)

\* rollback.ExtractLatestSnapshot: the last pre-deploy, else the last known-good.
LatestSnapshot ==
    CASE Kind("pre") # <<>>  -> Last(Kind("pre"))
      [] Kind("pre") = <<>> /\ Kind("good") # <<>> -> Last(Kind("good"))
      [] OTHER -> NoSnap

\* checkDeploy: the newest of the change markers, 0 when there is none.
EffectiveChange == Max({mem.hashWin, vm.disk.deploy, vm.change})
Recent(ts)      == ts > horizon

\* LastChangePath is on a tmpfs: it does not survive a stop.
Stopped == [vm EXCEPT !.running = FALSE, !.change = 0]

Goto(l) == pc' = l

\* A failure of the environment that the code handles.
Failing == left.fails > 0 /\ left' = [left EXCEPT !.fails = @ - 1]

-----------------------------------------------------------------------------
(***************************************************************************)
(* run: startup, then one iteration after the other.                       *)
(***************************************************************************)

\* runStartupChecks: an unresolved operation skips the rest.
Startup ==
    /\ pc = "start" /\ coord = "free"
    /\ Goto(IF op THEN "idle" ELSE "recover")
    /\ UNCHANGED <<vm, snaps, marker, state, mem, rb, coord, op, rolling, sig, stamp, horizon, hist, left>>

\* The hash check that ends runStartupChecks finds no earlier hash to compare
\* with; the read may fail.
FirstHash(m, read) ==
    IF read THEN [m EXCEPT !.lastHash = vm.disk.content, !.hashOK = TRUE] ELSE m

\* Mutant: the marker is dropped without starting the VM.
RecoverStartsForgetful(read) ==
    /\ pc = "recover" /\ coord = "free" /\ ~op /\ marker /\ ~vm.running
    /\ marker' = FALSE
    /\ mem' = [mem EXCEPT !.recovered = TRUE]
    /\ Goto("idle")
    /\ UNCHANGED <<vm, snaps, state, rb, coord, op, rolling, sig, stamp, horizon, hist, left>>

\* recoverInterrupted: the marker of an interrupted rollback, VM stopped.
RecoverStarts(read) ==
    /\ pc = "recover" /\ coord = "free" /\ ~op /\ marker /\ ~vm.running
    /\ vm' = [vm EXCEPT !.running = TRUE]
    /\ hist' = [hist EXCEPT !.stopBy = ""]
    /\ marker' = FALSE
    /\ mem' = FirstHash([mem EXCEPT !.recovered = TRUE], read)
    /\ Goto("idle")
    /\ UNCHANGED <<snaps, state, rb, coord, op, rolling, sig, stamp, horizon, left>>

\* VMStatus or VMStart fails: the marker stays.
RecoverFails(read) ==
    /\ pc = "recover" /\ coord = "free" /\ ~op /\ marker
    /\ Failing
    /\ mem' = FirstHash(mem, read /\ vm.running)
    /\ Goto("idle")
    /\ UNCHANGED <<vm, snaps, marker, state, rb, coord, op, rolling, sig, stamp, horizon, hist>>

\* No marker, or a running VM, whose marker is removed and nothing recorded;
\* or an operation appeared, which leaves the marker alone.
RecoverNothing(read) ==
    /\ pc = "recover" /\ coord = "free"
    /\ op \/ ~marker \/ vm.running
    /\ marker' = (marker /\ op)
    /\ mem' = FirstHash(mem, read /\ vm.running)
    /\ Goto("idle")
    /\ UNCHANGED <<vm, snaps, state, rb, coord, op, rolling, sig, stamp, horizon, hist, left>>

\* runIteration: leave on a cancelled context.
Exit ==
    /\ pc = "idle" /\ sig = "cancelled"
    /\ Goto("down") /\ mem' = NoMem /\ sig' = "none"
    /\ UNCHANGED <<vm, snaps, marker, state, rb, coord, op, rolling, stamp, horizon, hist, left>>

\* handleDeployOperation: an unresolved operation ends the iteration, and its
\* recovery, which DeployOperation models, is not a legacy rollback.
Inspect ==
    /\ pc = "idle" /\ sig # "cancelled" /\ ~op /\ coord = "free"
    /\ Goto("check")
    /\ UNCHANGED <<vm, snaps, marker, state, mem, rb, coord, op, rolling, sig, stamp, horizon, hist, left>>

\* handleVMStopped: one attempt per episode, none under a marker.
StoppedHandled(started) ==
    /\ pc = "check" /\ ~vm.running
    /\ started => ~mem.logged /\ ~marker /\ ~mem.recovered
    /\ mem' = [mem EXCEPT !.logged = TRUE]
    /\ vm' = [vm EXCEPT !.running = started]
    /\ hist' = [hist EXCEPT !.stopBy = IF started THEN "" ELSE @]
    /\ Goto("idle")
    /\ UNCHANGED <<snaps, marker, state, rb, coord, op, rolling, sig, stamp, horizon>>

StoppedStarts == StoppedHandled(TRUE) /\ UNCHANGED left
StoppedLeft ==
    /\ StoppedHandled(FALSE)
    /\ IF mem.logged \/ marker \/ mem.recovered THEN UNCHANGED left ELSE Failing

\* A running VM ends the episode; the probe then decides.
Running == pc = "check" /\ vm.running
Seen    == [mem EXCEPT !.logged = FALSE]

\* A probe with nothing to do for this module: partial, down within the
\* timeout or the grace period, no recent change (failover is separate).
QuietProbe ==
    /\ Running
    /\ mem' = Seen
    /\ Goto("idle")
    /\ UNCHANGED <<vm, snaps, marker, state, rb, coord, op, rolling, sig, stamp, horizon, hist, left>>

\* checkConfigHash: not due, failed or read.  A difference opens the hash
\* window, unless the grace period after a rollback covers it, and leaves
\* lastHashCheckOK as it was.
Drifted == mem.lastHash \notin {-1, vm.disk.content}
Opens(hash) == hash = "read" /\ Drifted /\ ~mem.grace
AfterHash(hash) ==
    CASE hash = "skip" -> Seen
      [] hash = "fail" -> [Seen EXCEPT !.hashOK = FALSE]
      [] hash = "read" -> [Seen EXCEPT !.lastHash = vm.disk.content,
                                       !.hashOK = @ \/ ~Drifted,
                                       !.hashWin = IF Opens(hash) THEN stamp + 1 ELSE @]


\* maybeSnapshot: no hash drift and no deploy in the window, a good hash check.
SnapshotDue(m) ==
    /\ hist.taken < MaxSnaps
    /\ m.hashWin = 0 \/ m.hashWin <= horizon
    /\ vm.disk.deploy = 0 \/ ~Recent(vm.disk.deploy)
    /\ m.hashOK

\* pruneSnapshots: the newest MaxKnownGood of the known-good snapshots stay.
Rotate(ss) ==
    LET good == SelectSeq(ss, LAMBDA s : s.kind = "good")
        kept == {good[i].id : i \in {i \in DOMAIN good : i > Len(good) - MaxKnownGood}} IN
    SelectSeq(ss, LAMBDA s : s.kind = "good" => s.id \in kept)

\* handleHealthyProbe: the hash check when it is due, then maybeSnapshot.
HealthyProbe(hash, snapshot, rotated) ==
    LET m == AfterHash(hash)
        s == IF Opens(hash) THEN stamp + 1 ELSE stamp
        grown == Append(snaps, [kind |-> "good", id |-> hist.taken + 1, at |-> s,
                                disk |-> vm.disk]) IN
    /\ Running
    /\ s <= MaxStamp
    /\ snapshot => SnapshotDue(m)
    /\ rotated => snapshot
    /\ stamp' = s
    /\ mem' = m
    /\ snaps' = CASE ~snapshot -> snaps
                  [] rotated   -> Rotate(grown)
                  [] OTHER     -> grown
    /\ hist' = [hist EXCEPT !.taken = IF snapshot THEN @ + 1 ELSE @]
    /\ IF snapshot /\ ~rotated THEN Failing ELSE UNCHANGED left
    /\ Goto("idle")
    /\ UNCHANGED <<vm, marker, state, rb, coord, op, rolling, sig, horizon>>

\* handleTimeoutExceeded and attemptRollbackForDeploy.
Diagnose ==
    /\ Running
    /\ EffectiveChange # 0 /\ Recent(EffectiveChange)
    /\ ~AlreadyDone(EffectiveChange) /\ Attempts(EffectiveChange) < MaxAttempts
    /\ LatestSnapshot # NoSnap
    /\ rb' = [ts |-> EffectiveChange, target |-> LatestSnapshot.id, err |-> FALSE]
    /\ mem' = Seen
    /\ Goto("rbLock")
    /\ UNCHANGED <<vm, snaps, marker, state, coord, op, rolling, sig, stamp, horizon, hist, left>>

-----------------------------------------------------------------------------
(***************************************************************************)
(* rollback: coordinator, marker, stop, roll back, start, unmark, record.  *)
(* The context cannot be cancelled, so no signal ends it.                  *)
(***************************************************************************)

\* Mutant: the operation is not inspected under the coordinator.
RbLockBlind ==
    /\ pc = "rbLock" /\ coord = "free"
    /\ coord' = "dog"
    /\ Goto("rbMark")
    /\ UNCHANGED <<vm, snaps, marker, state, mem, rb, op, rolling, sig, stamp, horizon, hist, left>>

RbLock ==
    /\ pc = "rbLock" /\ coord = "free"
    /\ ~op /\ ~AlreadyDone(rb.ts)
    /\ coord' = "dog"
    /\ Goto("rbMark")
    /\ UNCHANGED <<vm, snaps, marker, state, mem, rb, op, rolling, sig, stamp, horizon, hist, left>>

RbRefused ==
    /\ pc = "rbLock" /\ coord = "free"
    /\ op \/ AlreadyDone(rb.ts)
    /\ rb' = NoRb
    /\ Goto("idle")
    /\ UNCHANGED <<vm, snaps, marker, state, mem, coord, op, rolling, sig, stamp, horizon, hist, left>>

\* SetRollingBack, then the marker file, whose write may fail.
RbMark(written) ==
    /\ pc = "rbMark"
    /\ rolling' = TRUE
    /\ mem' = [mem EXCEPT !.hashWin = 0]
    /\ marker' = (marker \/ written)
    /\ hist' = [hist EXCEPT !.unmarked = ~marker']
    /\ IF written THEN UNCHANGED left ELSE Failing
    /\ Goto("rbStop")
    /\ UNCHANGED <<vm, snaps, state, rb, coord, op, sig, stamp, horizon>>

\* The history counts stops up to one more than any bound can allow.
StopCap   == MaxAttempts + MaxCrashes + MaxFails + 1
CountStop == [hist EXCEPT !.stops[rb.ts] = Min({@ + 1, StopCap})]

\* VMStop, verified stopped.
RbStop ==
    /\ pc = "rbStop"
    /\ vm' = Stopped
    /\ hist' = [CountStop EXCEPT !.stopBy = "dog"]
    /\ Goto("rbRoll")
    /\ UNCHANGED <<snaps, marker, state, mem, rb, coord, op, rolling, sig, stamp, horizon, left>>

\* VMStop or its verification fails: the rollback ends there, VM up or down.
RbStopFails(running) ==
    /\ pc = "rbStop" /\ Failing
    /\ running => vm.running
    /\ vm' = IF running THEN vm ELSE Stopped
    /\ hist' = [CountStop EXCEPT !.stopBy = IF running THEN @ ELSE "dog"]
    /\ rb' = [rb EXCEPT !.err = TRUE]
    /\ Goto("rbWrite")
    /\ UNCHANGED <<snaps, marker, state, mem, coord, op, rolling, sig, stamp, horizon>>

Position(id) == CHOOSE i \in 1 .. Len(snaps) : snaps[i].id = id
Exists(id)   == \E i \in 1 .. Len(snaps) : snaps[i].id = id

\* Mutant: the marker is removed as soon as the snapshot is restored.
RbRollUnmarks ==
    /\ pc = "rbRoll" /\ Exists(rb.target)
    /\ vm' = [vm EXCEPT !.disk = snaps[Position(rb.target)].disk]
    /\ snaps' = SubSeq(snaps, 1, Position(rb.target))
    /\ marker' = FALSE
    /\ Goto("rbStart")
    /\ UNCHANGED <<state, mem, rb, coord, op, rolling, sig, stamp, horizon, hist, left>>

\* SnapshotsAfter are deleted, then VMRollback restores the leaf.
RbRoll ==
    /\ pc = "rbRoll" /\ Exists(rb.target)
    /\ vm' = [vm EXCEPT !.disk = snaps[Position(rb.target)].disk]
    /\ snaps' = SubSeq(snaps, 1, Position(rb.target))
    /\ Goto("rbStart")
    /\ UNCHANGED <<marker, state, mem, rb, coord, op, rolling, sig, stamp, horizon, hist, left>>

\* It fails: the target is gone, or a call fails after some of the children
\* were deleted.  VMStart is tried all the same.
RbRollFails(gone) ==
    /\ pc = "rbRoll"
    /\ IF Exists(rb.target)
       THEN /\ \A i \in 1 .. Position(rb.target) : snaps[i].id \notin gone
            /\ Failing
       ELSE gone = {} /\ UNCHANGED left
    /\ snaps' = SelectSeq(snaps, LAMBDA s : s.id \notin gone)
    /\ rb' = [rb EXCEPT !.err = TRUE]
    /\ Goto("rbStart")
    /\ UNCHANGED <<vm, marker, state, mem, coord, op, rolling, sig, stamp, horizon, hist>>

RbStart ==
    /\ pc = "rbStart"
    /\ vm' = [vm EXCEPT !.running = TRUE]
    /\ hist' = [hist EXCEPT !.stopBy = ""]
    /\ Goto(IF rb.err THEN "rbWrite" ELSE "rbUnmark")
    /\ UNCHANGED <<snaps, marker, state, mem, rb, coord, op, rolling, sig, stamp, horizon, left>>

RbStartFails ==
    /\ pc = "rbStart" /\ Failing
    /\ rb' = [rb EXCEPT !.err = TRUE]
    /\ Goto("rbWrite")
    /\ UNCHANGED <<vm, snaps, marker, state, mem, coord, op, rolling, sig, stamp, horizon, hist>>

\* recordRollbackResult: a success removes the marker first.
RbUnmark ==
    /\ pc = "rbUnmark"
    /\ marker' = FALSE
    /\ Goto("rbWrite")
    /\ UNCHANGED <<vm, snaps, state, mem, rb, coord, op, rolling, sig, stamp, horizon, hist, left>>


\* Mutant: the attempts so far are counted twice.
RecordedTwice == [ts |-> rb.ts, done |-> ~rb.err, attempts |-> 2 * Attempts(rb.ts) + 1]

\* Mutant: a success is recorded as a failure.
RecordedFailed == [ts |-> rb.ts, done |-> FALSE, attempts |-> 1]

\* The state file after WriteState.
Recorded == [ts |-> rb.ts, done |-> ~rb.err, attempts |-> Attempts(rb.ts) + 1]

RbWrite ==
    /\ pc = "rbWrite"
    /\ state' = Recorded
    /\ Goto("rbEnd")
    /\ UNCHANGED <<vm, snaps, marker, mem, rb, coord, op, rolling, sig, stamp, horizon, hist, left>>

RbWriteFails ==
    /\ pc = "rbWrite" /\ Failing
    /\ hist' = [hist EXCEPT !.lost[rb.ts] = @ + 1]
    /\ Goto("rbEnd")
    /\ UNCHANGED <<vm, snaps, marker, state, mem, rb, coord, op, rolling, sig, stamp, horizon>>

\* The end of rollback and its deferred calls.  A success opens the grace
\* period and takes the deferred shutdown, which exitFn (nil) does not act on.
RbEnd ==
    /\ pc = "rbEnd"
    /\ mem' = [mem EXCEPT !.grace = @ \/ ~rb.err]
    /\ sig' = IF ~rb.err /\ sig = "deferred" THEN "taken" ELSE sig
    /\ rolling' = FALSE
    /\ coord' = "free"
    /\ rb' = NoRb
    /\ Goto("idle")
    /\ UNCHANGED <<vm, snaps, marker, state, op, stamp, horizon, hist, left>>

-----------------------------------------------------------------------------
(***************************************************************************)
(* The signal handler goroutine: it reads IsRollingBack, then either       *)
(* records a deferred shutdown or cancels the loop's context.              *)
(***************************************************************************)
SigRead ==
    /\ pc # "down" /\ sig = "none" /\ left.signals > 0
    /\ left' = [left EXCEPT !.signals = @ - 1]
    /\ sig' = IF rolling THEN "deferring" ELSE "cancelled"
    /\ UNCHANGED <<vm, snaps, marker, state, pc, mem, rb, coord, op, rolling, stamp, horizon, hist>>

SigDefer ==
    /\ sig = "deferring"
    /\ sig' = "deferred"
    /\ UNCHANGED <<vm, snaps, marker, state, pc, mem, rb, coord, op, rolling, stamp, horizon, hist, left>>

-----------------------------------------------------------------------------
(***************************************************************************)
(* The environment.                                                        *)
(***************************************************************************)

\* The process dies: memory, locks and signals are gone, files stay.
Crash ==
    /\ pc # "down" /\ left.crashes > 0
    /\ left' = [left EXCEPT !.crashes = @ - 1]
    /\ hist' = IF pc \in RollPCs \ {"rbMark", "rbStop", "rbEnd"}
               THEN [hist EXCEPT !.lost[rb.ts] = @ + 1] ELSE hist
    /\ Goto("down")
    /\ mem' = NoMem /\ rb' = NoRb /\ sig' = "none" /\ rolling' = FALSE
    /\ coord' = "free"
    /\ UNCHANGED <<vm, snaps, marker, state, op, stamp, horizon>>

\* The service manager starts the watchdog again.
Restart ==
    /\ pc = "down"
    /\ Goto("start")
    /\ UNCHANGED <<vm, snaps, marker, state, mem, rb, coord, op, rolling, sig, stamp, horizon, hist, left>>

CanChange == vm.running /\ hist.changes < MaxChange /\ stamp < MaxStamp

\* The deploy playbook: a pre-deploy snapshot that replaces the one before,
\* the last-deploy file, the new configuration.
Deploy ==
    /\ CanChange /\ hist.taken < MaxSnaps
    /\ snaps' = Append(Kind("good"),
                       [kind |-> "pre", id |-> hist.taken + 1, at |-> stamp, disk |-> vm.disk])
    /\ vm' = [vm EXCEPT !.disk = [content |-> hist.changes + 1, deploy |-> stamp + 1]]
    /\ hist' = [hist EXCEPT !.changes = @ + 1, !.taken = @ + 1]
    /\ stamp' = stamp + 1
    /\ UNCHANGED <<marker, state, pc, mem, rb, coord, op, rolling, sig, horizon, left>>

\* An edit that is not a deploy, with or without the last-change file.
Edit(announced) ==
    /\ CanChange
    /\ vm' = [vm EXCEPT !.disk.content = hist.changes + 1,
                        !.change = IF announced THEN stamp + 1 ELSE @]
    /\ hist' = [hist EXCEPT !.changes = @ + 1,
                            !.told = IF announced THEN @ \cup {stamp + 1} ELSE @]
    /\ stamp' = stamp + 1
    /\ UNCHANGED <<snaps, marker, state, pc, mem, rb, coord, op, rolling, sig, horizon, left>>

VMStops ==
    /\ vm.running /\ left.stops > 0
    /\ left' = [left EXCEPT !.stops = @ - 1]
    /\ vm' = Stopped
    /\ hist' = [hist EXCEPT !.stopBy = "other"]
    /\ UNCHANGED <<snaps, marker, state, pc, mem, rb, coord, op, rolling, sig, stamp, horizon>>

\* Engine.Arm needs the coordinator and a gateway that answers.
OpArms ==
    /\ ~op /\ coord = "free" /\ vm.running /\ left.ops > 0
    /\ left' = [left EXCEPT !.ops = @ - 1]
    /\ op' = TRUE
    /\ UNCHANGED <<vm, snaps, marker, state, pc, mem, rb, coord, rolling, sig, stamp, horizon, hist>>

\* It is committed, disarmed or recovered, which leaves the VM running.
OpSettles ==
    /\ op /\ coord = "free"
    /\ op' = FALSE
    /\ vm' = [vm EXCEPT !.running = TRUE]
    /\ hist' = [hist EXCEPT !.stopBy = ""]
    /\ UNCHANGED <<snaps, marker, state, pc, mem, rb, coord, rolling, sig, stamp, horizon, left>>

\* DeployWindowMinutes pass after a change.
WindowPasses ==
    /\ horizon < stamp
    /\ horizon' \in horizon + 1 .. stamp
    /\ UNCHANGED <<vm, snaps, marker, state, pc, mem, rb, coord, op, rolling, sig, stamp, hist, left>>

\* postRollbackGraceUntil passes.
GraceEnds ==
    /\ mem.grace
    /\ mem' = [mem EXCEPT !.grace = FALSE]
    /\ UNCHANGED <<vm, snaps, marker, state, pc, rb, coord, op, rolling, sig, stamp, horizon, hist, left>>

LoopStep ==
    \/ Startup \/ Exit \/ Inspect \/ StoppedStarts \/ StoppedLeft \/ QuietProbe \/ Diagnose
    \/ \E read \in BOOLEAN : RecoverStarts(read) \/ RecoverFails(read) \/ RecoverNothing(read)
    \/ \E hash \in {"skip", "fail", "read"}, snapshot, rotated \in BOOLEAN :
           HealthyProbe(hash, snapshot, rotated)
RollbackStep ==
    \/ RbLock \/ RbRefused \/ RbStop \/ RbRoll \/ RbStart \/ RbStartFails
    \/ RbUnmark \/ RbWrite \/ RbWriteFails \/ RbEnd
    \/ \E b \in BOOLEAN : RbMark(b) \/ RbStopFails(b)
    \/ \E gone \in SUBSET {s.id : s \in Range(snaps)} : RbRollFails(gone)
SignalSteps == SigRead \/ SigDefer
Environment ==
    \/ Crash \/ Restart \/ Deploy \/ VMStops \/ OpArms \/ OpSettles
    \/ WindowPasses \/ GraceEnds
    \/ \E announced \in BOOLEAN : Edit(announced)

Next == LoopStep \/ RollbackStep \/ SignalSteps \/ Environment

Spec == Init /\ [][Next]_vars

\* The loop keeps running, a stopped process is started again by whoever
\* supervises it, a woken signal handler finishes and an operation is settled.
Fairness ==
    /\ WF_vars(LoopStep) /\ WF_vars(RollbackStep) /\ WF_vars(SigDefer)
    /\ WF_vars(Restart) /\ WF_vars(OpSettles)

FairSpec == Spec /\ Fairness

-----------------------------------------------------------------------------
(***************************************************************************)
(* Properties.                                                             *)
(***************************************************************************)

\* A VM that a rollback stopped and nobody started yet has its marker on disk,
\* at every point where the watchdog may die, so that recoverInterrupted finds
\* it (unless the write of the marker itself had failed).
StoppedHasMarker ==
    ~vm.running /\ hist.stopBy = "dog" /\ ~hist.unmarked => marker


\* From the marker to the record the rollback owns the coordinator and no
\* deployment operation is unresolved (inspectDeployOperation in rollback).
RollbackExcludesOperation == pc \in RollPCs => coord = "dog" /\ ~op


\* After the last change the watchdog stops rolling back: a rollback neither
\* repeats itself nor takes turns with the change it restored.
RollbacksStop == <>[](pc # "rbStop")

\* A VM that a rollback stopped is started again, even when the watchdog dies
\* in the middle (recoverInterrupted), as long as VM calls succeed.
InterruptedIsResumed == hist.stopBy = "dog" /\ ~vm.running ~> vm.running

-----------------------------------------------------------------------------
(***************************************************************************)
(* What comments of the repository say and the code does not do.           *)
(***************************************************************************)

\* main.go: "deferring until rollback completes": a shutdown that was deferred
\* during a rollback is executed after it.
DeferredShutdownExecutes == sig = "deferred" ~> pc = "down"

\* watchdog.go: handleVMStopped skips "if recoverInterrupted already handled
\* this episode": a later stop is another episode.
RecoveredMeansSameEpisode ==
    pc = "idle" /\ mem.logged /\ mem.recovered /\ ~marker /\ ~vm.running => hist.stopBy = "dog"
=============================================================================
