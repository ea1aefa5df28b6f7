----------------------------- MODULE DeployFacts ----------------------------
(***************************************************************************)
(* Facts about the process identities and the types of the deployment      *)
(* operation, and its initial state.  The step lemmas rest on them.        *)
(***************************************************************************)
EXTENDS DeployOperation, TLAPS

\* A generation number is a legal value of the argument of a process.
LEMMA GenRange == \A g \in Gen : g \in 0 .. MaxGen
  BY BoundsAssumption DEF Gen

\* The processes are distinct: the watches, the watchdog and the command line can
\* recover, the controller (Engine.Arm) and the verify call cannot.
LEMMA ProcFacts ==
  /\ Gen \subseteq Recoverer /\ Recoverer \subseteq Proc
  /\ Dog \in Recoverer /\ Cli \in Recoverer /\ Arm \in Proc /\ Verify \in Proc
  /\ Arm \notin Recoverer /\ Verify \notin Recoverer /\ Arm # Verify /\ Dog # Cli
  /\ Dog \notin Gen /\ Cli \notin Gen /\ None \notin Proc
  /\ Proc = Recoverer \cup {Arm, Verify} /\ Recoverer = Gen \cup {Dog, Cli}
  /\ 0 \in 0 .. MaxGen /\ 0 \notin Gen
  BY BoundsAssumption DEF Proc, Recoverer, Gen, Arm, Verify, Dog, Cli, None

\* The empty lease, observation and locals have the types of the full ones.
LEMMA NullTypes ==
  /\ NoLease \in Lease
  /\ NoObs \in Obs
  /\ NoWatch \in [lease : 0 .. MaxLease, res : Obs, fails : 0 .. FailureThreshold]
  /\ NoCommit \in [start : Time, res : Obs]
  BY BoundsAssumption DEF NoLease, Lease, Phases, NoObs, Obs, Outcomes, Time, NoWatch, NoCommit

\* What Engine.check can answer is an observation.
LEMMA CheckTypes == TypeOK => CheckResults \subseteq Obs
  BY DEF TypeOK, CheckResults, Obs, Outcomes

\* The types of what a process gives back when it returns or dies.
LeaveTypes ==
    /\ pc' \in [Proc -> PCs]
    /\ coord' \in Proc \cup {None}
    /\ arg' \in [Proc -> 0 .. MaxGen]
    /\ watch' \in [Gen -> [lease : 0 .. MaxLease, res : Obs, fails : 0 .. FailureThreshold]]
    /\ commit' \in [start : Time, res : Obs]

\* A process that returns (its deferred Close included) keeps those types.
LEMMA LeaveType ==
  ASSUME TypeOK, NEW p \in Proc, Leave(p)
  PROVE  LeaveTypes
<1>1. pc' \in [Proc -> PCs]
  BY DEF TypeOK, Leave, PCs
<1>2. coord' \in Proc \cup {None}
  BY DEF TypeOK, Leave
<1>3. arg' \in [Proc -> 0 .. MaxGen]
  BY ProcFacts DEF TypeOK, Leave
<1>4. watch' \in [Gen -> [lease : 0 .. MaxLease, res : Obs, fails : 0 .. FailureThreshold]]
  BY NullTypes DEF TypeOK, Leave
<1>5. commit' \in [start : Time, res : Obs]
  BY NullTypes DEF TypeOK, Leave
<1> QED
  BY <1>1, <1>2, <1>3, <1>4, <1>5 DEF LeaveTypes

\* The state before the first deployment operation satisfies the invariant: no
\* record, no lock holder, no mutation.
LEMMA InitInv == Init => IndInv
<1> SUFFICES ASSUME Init PROVE IndInv
  OBVIOUS
<1>1. TypeOK
  BY ProcFacts, NullTypes, GenRange, BoundsAssumption
  DEF Init, TypeOK, PCs, Record, Statuses, Time, Disk
<1>2. ControlInv /\ CoordInv
  BY ProcFacts DEF Init, ControlInv, CoordInv, ArmPCs, VerifyPCs, WatchPCs, DogPCs, CliPCs, RecoverPCs
<1>3. RecoveryInv /\ CommitInv
  BY ProcFacts DEF Init, RecoveryInv, CommitInv, RecoverPCs, Restoring
<1>4. WriterInv /\ SettledDisk
  BY DEF Init, WriterInv, SettledDisk
<1> QED
  BY <1>1, <1>2, <1>3, <1>4 DEF IndInv
=============================================================================
