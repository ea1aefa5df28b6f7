--------------------------- MODULE DeployContract ---------------------------
(***************************************************************************)
(* What a deployment operation promises, without processes, locks, clocks  *)
(* or leases: the disk is only written by the mutation of an unsettled     *)
(* operation, the snapshot is only restored when no mutation is in flight, *)
(* and an operation settles committed on its target, recovered on its      *)
(* baseline, or disarmed.  DeployOperation implements it.                  *)
(***************************************************************************)
EXTENDS Integers

CONSTANT MaxGen

VARIABLES
    gen,       \* the operation in force, 0 before the first
    status,    \* its status
    disk,      \* content of the gateway's disk
    base,      \* content at the operation's snapshot
    mutating   \* a mutation of the operation may write

cvars == <<gen, status, disk, base, mutating>>

Over == status \in {"absent", "committed", "recovered", "disarmed"}

CInit ==
    /\ gen = 0 /\ status = "absent" /\ disk = 0 /\ base = 0 /\ mutating = FALSE

CArm ==
    /\ Over /\ gen' \in (1 .. MaxGen) \ {gen}
    /\ status' = "armed" /\ base' = disk
    /\ UNCHANGED <<disk, mutating>>

CMutationStarts ==
    /\ status = "armed" /\ ~mutating
    /\ mutating' = TRUE
    /\ UNCHANGED <<gen, status, disk, base>>

CMutationEnds ==
    /\ mutating /\ mutating' = FALSE
    /\ UNCHANGED <<gen, status, disk, base>>

CMutate ==
    /\ mutating /\ ~Over
    /\ disk' \in {-1, gen}
    /\ UNCHANGED <<gen, status, base, mutating>>

CDisarm ==
    /\ status = "armed" /\ ~mutating /\ status' = "disarmed"
    /\ UNCHANGED <<gen, disk, base, mutating>>

CCommit ==
    /\ status = "armed" /\ ~mutating /\ disk = gen /\ status' = "committed"
    /\ UNCHANGED <<gen, disk, base, mutating>>

CBeginRecovery ==
    /\ status \in {"armed", "recovery_failed"} /\ status' = "recovering"
    /\ UNCHANGED <<gen, disk, base, mutating>>

CRestore ==
    /\ status = "recovering" /\ ~mutating
    /\ disk' = base
    /\ UNCHANGED <<gen, status, base, mutating>>

CRecovered ==
    /\ status = "recovering" /\ ~mutating /\ disk = base /\ status' = "recovered"
    /\ UNCHANGED <<gen, disk, base, mutating>>

CRecoveryFailed ==
    /\ status = "recovering" /\ status' = "recovery_failed"
    /\ UNCHANGED <<gen, disk, base, mutating>>

CNext ==
    \/ CArm \/ CMutationStarts \/ CMutationEnds \/ CMutate \/ CDisarm \/ CCommit
    \/ CBeginRecovery \/ CRestore \/ CRecovered \/ CRecoveryFailed

CSpec == CInit /\ [][CNext]_cvars
=============================================================================
