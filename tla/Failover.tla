------------------------------- MODULE Failover -------------------------------
(***************************************************************************)
(* BGP route failover: the watchdog (watchdog/failover.go) moves the       *)
(* default routes from the primary gateway VM to the failover LXC and back *)
(* through the agents of the two gateways (agent/server.go,                *)
(* agent/bgp_ready.go), whose speaker (bgp/speaker.go) announces each      *)
(* address family.                                                         *)
(*                                                                         *)
(* Two processes run the failover sequence: the watchdog daemon, which     *)
(* remembers failoverActive in memory, and `mwan watchdog failover`, a     *)
(* process of its own.  Every RPC is one step, so an agent's readiness     *)
(* poll, a session loss or a restart falls between any two of them.        *)
(* Notifications and the timing of the outage timeout are left out; that   *)
(* an outage followed a recent change, which sends the watchdog to         *)
(* Watchdog.tla's rollback instead, is the cycle that does nothing here.   *)
(***************************************************************************)
EXTENDS Integers

CONSTANTS Families,     \* configured announce families, a subset of v4, v6
          Gatings,      \* the sets of nodes with [bgp.forwarding_readiness] set
          MaxEnv,       \* Internet, readiness and session changes, restarts
          MaxFaults,    \* lost calls, lost replies and path update errors
          MaxCrashes,   \* watchdog daemon restarts
          MaxManual     \* runs of `mwan watchdog failover`

Nodes == {"vm", "lxc"}
Procs == {"daemon", "manual"}

ASSUME FailoverAssumption ==
  /\ Families # {} /\ Families \subseteq {"v4", "v6"}
  /\ Gatings \subseteq SUBSET Nodes
  /\ {MaxEnv, MaxFaults, MaxCrashes, MaxManual} \subseteq Nat

VARIABLES
  agent,    \* per node: up, est (every session established), ann (families
            \* announced), all (s.announcing), manual (manualWithdraw)
  net,      \* per node: the families its Internet probes reach
  ready,    \* per node: the families ifmgr reports ready to forward
  pc,       \* per process: the next call of the failover or the recovery
  active,   \* the daemon's failoverActive
  lapsed,   \* history, per process: the backup stopped announcing, by its own
            \* doing, after the process read its flags the last time
  gated,    \* configuration, never changed: the nodes with a readiness gate
  used      \* the bounded events that have happened

vars == <<agent, net, ready, gated, pc, active, lapsed, used>>
env == <<net, ready, gated>>

Events == {"env", "fault", "crash", "manual"}
Limit == [env |-> MaxEnv, fault |-> MaxFaults, crash |-> MaxCrashes, manual |-> MaxManual]

Spend(e) == used[e] < Limit[e] /\ used' = [used EXCEPT ![e] = @ + 1]

\* A node agent that runs, with every session up, announcing every family.
Serving == [up |-> TRUE, est |-> TRUE, ann |-> Families, all |-> TRUE, manual |-> FALSE]

\* A new or a stopped agent process: Stop clears the announcing flags, and
\* manualWithdraw is process memory.
Stopped == [up |-> FALSE, est |-> FALSE, ann |-> {}, all |-> FALSE, manual |-> FALSE]

Init ==
  /\ agent = [n \in Nodes |-> Serving]
  /\ net = [n \in Nodes |-> Families]
  /\ ready = [n \in Nodes |-> Families]
  /\ pc = [p \in Procs |-> "idle"]
  /\ active = FALSE
  /\ lapsed = [p \in Procs |-> FALSE]
  /\ gated \in Gatings
  /\ used = [e \in Events |-> 0]

-----------------------------------------------------------------------------
(* The agent.                                                              *)

\* Outcomes of a path update: the family whose first GoBGP call fails.
PathErrors == {"none", "v4", "v6"}

Changed(a, want) == (a.ann \ want) \cup (want \ a.ann)

\* SetDefaultAnnouncements fails on family f.
PathFails(a, want, f) == f \in Changed(a, want)

\* SetDefaultAnnouncements: IPv4 first, then IPv6, each only when it changes.
\* An error returns at once and leaves s.announcing as it was.
SetDefaultAnnouncements(a, want, f) ==
  LET done == IF ~PathFails(a, want, f) THEN {"v4", "v6"}
              ELSE IF f = "v6" THEN {"v4"} ELSE {}
      ann == (a.ann \ done) \cup (want \cap done)
  IN  [a EXCEPT !.ann = ann,
                !.all = IF PathFails(a, want, f) THEN @ ELSE ann = Families]

\* The history: the backup n becomes a, not through a call of the watchdog
\* that succeeded.
Lapse(n, a) ==
  lapsed' = [p \in Procs |-> lapsed[p] \/ (n = "lxc" /\ (a.ann = {} \/ ~a.est))]

Become(n, a) == agent' = [agent EXCEPT ![n] = a]

\* One path error, out of the fault budget, or none.
MayFail(a, want, f) ==
  \/ f = "none" /\ UNCHANGED used
  \/ PathFails(a, want, f) /\ Spend("fault")

\* Mutant: the poll runs while manualWithdraw.
PollIgnoresManual(n) ==
  /\ n \in gated /\ agent[n].up
  /\ LET a == SetDefaultAnnouncements(agent[n], ready[n], "none")
     IN  Become(n, a) /\ Lapse(n, a)
  /\ UNCHANGED <<env, pc, active, used>>

\* Mutant: the poll announces what becomes ready and withdraws nothing.
PollOnlyAnnounces(n) ==
  /\ n \in gated /\ agent[n].up /\ ~agent[n].manual
  /\ Become(n, SetDefaultAnnouncements(agent[n], agent[n].ann \cup ready[n], "none"))
  /\ UNCHANGED <<env, pc, active, lapsed, used>>

\* reconcileForwardingReady: not while manualWithdraw; a readiness that cannot
\* be read counts as no family ready.
Poll(n) ==
  /\ n \in gated /\ agent[n].up /\ ~agent[n].manual
  /\ \/ \E f \in PathErrors :
          LET a == SetDefaultAnnouncements(agent[n], ready[n], f)
          IN  MayFail(agent[n], ready[n], f) /\ Become(n, a) /\ Lapse(n, a)
     \/ LET a == SetDefaultAnnouncements(agent[n], {}, "none")
        IN  Spend("fault") /\ Become(n, a) /\ Lapse(n, a)
  /\ UNCHANGED <<env, pc, active>>

\* handleEstablishedPeer, for the last of the peers: without a readiness gate
\* the speaker announces every family by itself.
SessionUp(n) ==
  /\ agent[n].up /\ ~agent[n].est
  /\ \E f \in PathErrors :
       LET a == [agent[n] EXCEPT !.est = TRUE]
       IN  IF n \in gated
           THEN f = "none" /\ UNCHANGED used /\ Become(n, a)
           ELSE MayFail(a, Families, f) /\ Become(n, SetDefaultAnnouncements(a, Families, f))
  /\ UNCHANGED <<env, pc, active, lapsed>>

SessionDown(n) ==
  /\ agent[n].est
  /\ Spend("env")
  /\ LET a == [agent[n] EXCEPT !.est = FALSE] IN Become(n, a) /\ Lapse(n, a)
  /\ UNCHANGED <<env, pc, active>>

\* Mutant: a stop that leaves the announcing flags set.
AgentStopKeepsFlags(n) ==
  /\ agent[n].up
  /\ Spend("env")
  /\ Become(n, [agent[n] EXCEPT !.up = FALSE, !.est = FALSE])
  /\ Lapse(n, Stopped)
  /\ UNCHANGED <<env, pc, active>>

\* The agent exits, by a signal or a crash: its sessions end with it.
AgentStop(n) ==
  /\ agent[n].up
  /\ Spend("env")
  /\ Become(n, Stopped) /\ Lapse(n, Stopped)
  /\ UNCHANGED <<env, pc, active>>

AgentStart(n) ==
  /\ ~agent[n].up
  /\ Become(n, [Stopped EXCEPT !.up = TRUE])
  /\ UNCHANGED <<env, pc, active, lapsed, used>>

NetChange(n) ==
  /\ Spend("env")
  /\ \E s \in SUBSET Families : s # net[n] /\ net' = [net EXCEPT ![n] = s]
  /\ UNCHANGED <<agent, ready, gated, pc, active, lapsed>>

ReadyChange(n) ==
  /\ Spend("env")
  /\ \E s \in SUBSET Families : s # ready[n] /\ ready' = [ready EXCEPT ![n] = s]
  /\ UNCHANGED <<agent, net, gated, pc, active, lapsed>>

\* AnnounceRoutes refuses: on the primary, whose [bgp] uses wanconfig, unless
\* every configured family is ready; on the backup unless one is.
Refuses(n) ==
  /\ n \in gated
  /\ IF n = "vm" THEN ready[n] # Families ELSE ready[n] = {}

\* What the AnnounceRoutes handler asks the speaker for.
Wanted(n) == IF n \in gated THEN ready[n] ELSE Families

-----------------------------------------------------------------------------
(* The failover sequence, triggerBGPFailover, of process p.                *)

Goto(p, l) == pc' = [pc EXCEPT ![p] = l]

\* A call that fails before it has an effect: the agent is down, or the call
\* is lost.
CallLost(n) ==
  \/ ~agent[n].up /\ UNCHANGED used
  \/ agent[n].up /\ Spend("fault")

\* A read-only step of p that only moves on.
Read(p, l) == agent["lxc"].up /\ Goto(p, l) /\ UNCHANGED <<agent, env, active, lapsed, used>>

\* GetBGPStatus fails, whichever call of the sequence it is.
StatusLost(p) ==
  /\ pc[p] \in {"flags1", "flags2"} /\ CallLost("lxc")
  /\ Goto(p, "idle")
  /\ UNCHANGED <<agent, env, active, lapsed>>

\* GetBGPStatus reads the announcing flags first and the sessions afterwards.
Flags1(p) ==
  /\ pc[p] = "flags1"
  /\ Read(p, IF agent["lxc"].all THEN "est1" ELSE "announce")

Est1(p) ==
  /\ pc[p] = "est1"
  /\ Goto(p, IF agent["lxc"].est THEN "flags2" ELSE "announce")
  /\ UNCHANGED <<agent, env, active, lapsed, used>>

\* AnnounceRoutes on node n by p: lost, refused or executed, its reply lost or
\* not.  p goes on to `next' when it reads a success, and gives up otherwise.
Announce(p, n, next) ==
  \/ CallLost(n) /\ Goto(p, "idle") /\ UNCHANGED <<agent, lapsed>>
  \/ /\ agent[n].up /\ Refuses(n)
     /\ Goto(p, "idle") /\ UNCHANGED <<agent, lapsed, used>>
  \/ /\ agent[n].up /\ ~Refuses(n)
     /\ \E f \in PathErrors :
          LET a == SetDefaultAnnouncements(agent[n], Wanted(n), f)
              failed == PathFails(agent[n], Wanted(n), f)
          IN  /\ Become(n, [a EXCEPT !.manual = @ /\ failed])
              /\ \/ /\ MayFail(agent[n], Wanted(n), f)
                    /\ Goto(p, IF failed THEN "idle" ELSE next)
                 \/ f = "none" /\ Spend("fault") /\ Goto(p, "idle")
              /\ IF failed THEN Lapse(n, a) ELSE UNCHANGED lapsed

AnnounceBackup(p) ==
  /\ pc[p] = "announce"
  /\ Announce(p, "lxc", "flags2")
  /\ UNCHANGED <<env, active>>

\* announcesAnyFamily; the manual process also requires s.announcing.
BackupAnnounces(p) ==
  /\ agent["lxc"].all \/ agent["lxc"].ann # {}
  /\ p = "manual" => agent["lxc"].all

\* The history starts afresh: from here on the backup is taken to announce.
Flags2(p) ==
  /\ pc[p] = "flags2" /\ agent["lxc"].up
  /\ Goto(p, IF BackupAnnounces(p) THEN "est2" ELSE "idle")
  /\ lapsed' = [lapsed EXCEPT ![p] = FALSE]
  /\ UNCHANGED <<agent, env, active, used>>

\* Mutant: the second status is taken for granted.
Est2Unchecked(p) ==
  /\ pc[p] = "est2"
  /\ Goto(p, "withdraw")
  /\ UNCHANGED <<agent, env, active, lapsed, used>>

Est2(p) ==
  /\ pc[p] = "est2"
  /\ Goto(p, IF agent["lxc"].est THEN "withdraw" ELSE "idle")
  /\ UNCHANGED <<agent, env, active, lapsed, used>>

\* WithdrawRoutes on the primary: manualWithdraw is set before the speaker is
\* asked, and p goes on whether or not the call succeeded.
Withdraw(p) ==
  /\ pc[p] = "withdraw"
  /\ Goto(p, "record")
  /\ \/ CallLost("vm") /\ UNCHANGED agent
     \/ /\ agent["vm"].up
        /\ \E f \in PathErrors :
             LET a == SetDefaultAnnouncements(agent["vm"], {}, f)
             IN  /\ MayFail(agent["vm"], {}, f)
                 /\ Become("vm", [a EXCEPT !.manual = @ \/ "vm" \in gated])
  /\ UNCHANGED <<env, active, lapsed>>

\* failoverActive, of the process's own watchdog value.
Record(p) ==
  /\ pc[p] = "record"
  /\ Goto(p, "idle")
  /\ active' = (active \/ p = "daemon")
  /\ UNCHANGED <<agent, env, lapsed, used>>

FailoverStep(p) ==
  \/ StatusLost(p) \/ Flags1(p) \/ Est1(p) \/ AnnounceBackup(p)
  \/ Flags2(p) \/ Est2(p) \/ Withdraw(p) \/ Record(p)

-----------------------------------------------------------------------------
(* The daemon's loop and the recovery.                                     *)

\* The node whose default route OPNsense installs for a family: the primary,
\* by its local preference, when both are learned.
Learned(n, f) == agent[n].up /\ agent[n].est /\ f \in agent[n].ann
Reached(f) ==
  IF Learned("vm", f) THEN f \in net["vm"] ELSE Learned("lxc", f) /\ f \in net["lxc"]

\* runIteration: a cycle in which every probe passes attempts a recovery, one
\* without any may end in diagnoseNoRecentChange, a partial one does neither.
HealthyCycle ==
  /\ pc["daemon"] = "idle" /\ active
  /\ \A f \in Families : Reached(f)
  /\ Goto("daemon", "probe")
  /\ UNCHANGED <<agent, env, active, lapsed, used>>

\* The VM has no Internet, the LXC has: tryFailover.
TotalLoss ==
  /\ pc["daemon"] = "idle"
  /\ \A f \in Families : ~Reached(f)
  /\ net["vm"] = {} /\ net["lxc"] # {}
  /\ Goto("daemon", "flags1")
  /\ UNCHANGED <<agent, env, active, lapsed, used>>

\* Any other cycle calls neither sequence: a healthy one without a failover, a
\* partial one, or a loss within its timeout, after a recent change or without
\* a usable LXC.
QuietCycle ==
  /\ pc["daemon"] = "idle"
  /\ ~active \/ \E f \in Families : ~Reached(f)
  /\ UNCHANGED vars

\* triggerBGPRecovery: an Internet probe inside the VM, of either family.
Probe ==
  /\ pc["daemon"] = "probe"
  /\ Goto("daemon", IF net["vm"] # {} THEN "status" ELSE "idle")
  /\ UNCHANGED <<agent, env, active, lapsed, used>>

PrimaryStatus ==
  /\ pc["daemon"] = "status"
  /\ \/ CallLost("vm") /\ Goto("daemon", "idle")
     \/ /\ agent["vm"].up /\ UNCHANGED used
        /\ Goto("daemon", IF agent["vm"].est THEN "reannounce" ELSE "idle")
  /\ UNCHANGED <<agent, env, active, lapsed>>


\* AnnounceRoutes on the primary; a failure returns before the state is
\* cleared, so the next healthy cycle tries again.
ReAnnounce ==
  /\ pc["daemon"] = "reannounce"
  /\ Announce("daemon", "vm", "clear")
  /\ UNCHANGED <<env, active>>

Clear ==
  /\ pc["daemon"] = "clear"
  /\ Goto("daemon", "idle") /\ active' = FALSE
  /\ UNCHANGED <<agent, env, lapsed, used>>

DaemonStep ==
  \/ FailoverStep("daemon") \/ HealthyCycle \/ TotalLoss \/ QuietCycle
  \/ Probe \/ PrimaryStatus \/ ReAnnounce \/ Clear

\* The daemon restarts: failoverActive is memory and starts as false.
Crash ==
  /\ Spend("crash")
  /\ Goto("daemon", "idle") /\ active' = FALSE
  /\ UNCHANGED <<agent, env, lapsed>>

\* FailoverRun: `mwan watchdog failover`.
FailoverRun ==
  /\ pc["manual"] = "idle" /\ Spend("manual")
  /\ Goto("manual", "flags1")
  /\ UNCHANGED <<agent, env, active, lapsed>>

NodeStep(n) ==
  \/ Poll(n) \/ SessionUp(n) \/ SessionDown(n) \/ AgentStop(n) \/ AgentStart(n)
  \/ NetChange(n) \/ ReadyChange(n)

Next ==
  \/ DaemonStep \/ FailoverStep("manual") \/ FailoverRun \/ Crash
  \/ \E n \in Nodes : NodeStep(n)

Spec == Init /\ [][Next]_vars

\* The daemon's loop and the agents' poll tickers keep running.
FairSpec == Spec /\ WF_vars(DaemonStep) /\ \A n \in Nodes : WF_vars(Poll(n))

-----------------------------------------------------------------------------
(* Properties.                                                             *)

Labels == {"idle", "flags1", "est1", "announce", "flags2", "est2", "withdraw",
           "record", "probe", "status", "reannounce", "clear"}

\* Types, and an agent that is not running has neither sessions nor
\* announcements nor a manualWithdraw left over.
TypeOK ==
  /\ agent \in [Nodes -> [up : BOOLEAN, est : BOOLEAN, ann : SUBSET Families,
                          all : BOOLEAN, manual : BOOLEAN]]
  /\ \A n \in Nodes : agent[n].up \/ agent[n] = Stopped
  /\ net \in [Nodes -> SUBSET Families] /\ ready \in [Nodes -> SUBSET Families]
  /\ gated \in Gatings /\ pc \in [Procs -> Labels]
  /\ active \in BOOLEAN /\ lapsed \in [Procs -> BOOLEAN]
  /\ used \in [Events -> Nat] /\ \A e \in Events : used[e] <= Limit[e]

\* "This order must leave the primary routes in place if the announcement
\* fails" (triggerBGPFailover): when a process is about to withdraw the
\* primary, the backup announces some family over established sessions, or it
\* has stopped by its own doing since the process asked.
WithdrawLeavesBackup ==
  \A p \in Procs :
    pc[p] = "withdraw" /\ ~lapsed[p] => agent["lxc"].est /\ agent["lxc"].ann # {}

\* A gated agent starts to announce a family only when ifmgr reports it ready,
\* and while manualWithdraw holds it back only inside an AnnounceRoutes call: a
\* poll that races WithdrawRoutes does not undo the failover.
AnnouncementsJustified ==
  [][\A n \in gated : \A f \in agent'[n].ann \ agent[n].ann :
        /\ f \in ready[n]
        /\ agent[n].manual =>
             \E p \in Procs : pc[p] \in {"announce", "reannounce"} /\ pc'[p] # pc[p]]_vars

\* A family that stays unready is withdrawn for good by the poll, unless
\* manualWithdraw has stopped the poll (reconcileForwardingReady).
UnreadyIsWithdrawn ==
  \A n \in Nodes, f \in Families :
    <>[](n \in gated /\ f \notin ready[n]) => <>[](f \notin agent[n].ann \/ agent[n].manual)

NodeGood(n) ==
  agent[n].up /\ agent[n].est /\ net[n] = Families /\ ready[n] = Families

Interfered == used["manual"] > 0 \/ used["crash"] > 0


\* "triggerBGPRecovery announces the primary after it is ready": once the
\* primary stays good, a failover ends with the primary announcing every
\* family, whatever the state of the backup.
PrimaryReturnsWhenReady ==
  <>[]NodeGood("vm") => (active ~> (agent["vm"].ann = Families \/ Interfered))

=============================================================================
