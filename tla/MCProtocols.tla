---------------------------- MODULE MCProtocols ----------------------------
(***************************************************************************)
(* One instance for the protocols that share no state with each other: a   *)
(* behaviour is one of a single protocol, chosen in its initial state.     *)
(***************************************************************************)
EXTENDS OrderLifecycle, LeaderLease, PlanLease, TransportGuard, Approvals, LiveOms, AgentRun,
        Automations, ToolWorkers, MarketFeed

VARIABLE protocol

\* Lifecycle: order 2 replaces order 1, orders 3 and 4 compete to replace order 2, and
\* order 5 is on its own.
Chain == <<NoOne, 1, 2, 2, NoOne>>
Sizes == <<4, 3, 2, 1, 2>>

\* Live orders: one gateway.
OneHome == [t \in Tasks |-> CHOOSE g \in Gateways : TRUE]

\* Transport: every way a call of a provider may end.
External == {"fine", "refused", "throttled", "down", "raised"}

\* Automations: a single deadline, a schedule that catches up with what it missed and
\* one that skips it, and a watch that takes events too.
SomeTriggers ==
  {[type |-> "once", policy |-> "run_once"], [type |-> "schedule", policy |-> "catch_up"],
   [type |-> "schedule", policy |-> "skip"], [type |-> "watch", policy |-> "run_once"]}

\* Tool calls: two reading calls that share worker processes, one of them a call that
\* changes something or one of the host itself, and a batch that is larger than the limit.
Reading == [mutating |-> FALSE, isolated |-> TRUE]
Changing == [mutating |-> TRUE, isolated |-> TRUE]
Inside == [mutating |-> FALSE, isolated |-> FALSE]
SomeWork ==
  {<<Reading, Reading>>, <<Reading, Changing>>, <<Reading, Inside>>, <<Inside, Inside, Inside>>}

AllVars ==
  <<protocol, vars, leaderVars, planLeaseVars, guardVars, approvalVars, omsVars, runVars,
    automationVars, toolVars, feedVars>>

ProtocolsInit ==
  /\ protocol \in {"lifecycle", "leader", "plan", "guard", "approval", "oms", "run", "automation",
                  "tools", "feed"}
  /\ Init /\ LeaseInit /\ PlanLeaseInit /\ GuardInit /\ ApprovalInit /\ OmsInit /\ RunInit
  /\ AutomationInit /\ ToolInit /\ FeedInit
  /\ protocol = "automation" \/ trigger = CHOOSE t \in Triggers : TRUE
  /\ protocol = "tools" \/ workload = CHOOSE w \in Workloads : TRUE

\* A step of the chosen protocol leaves the state of the others alone.
Moves(p, others) == protocol = p /\ UNCHANGED <<protocol, others>>

ProtocolsNext ==
  \/ /\ Moves("lifecycle",
              <<leaderVars, planLeaseVars, guardVars, approvalVars, omsVars, runVars,
                automationVars, toolVars, feedVars>>)
     /\ Next
  \/ /\ Moves("leader",
              <<vars, planLeaseVars, guardVars, approvalVars, omsVars, runVars,
                automationVars, toolVars, feedVars>>)
     /\ LeaseNext
  \/ /\ Moves("plan",
              <<vars, leaderVars, guardVars, approvalVars, omsVars, runVars,
                automationVars, toolVars, feedVars>>)
     /\ PlanLeaseNext
  \/ /\ Moves("guard",
              <<vars, leaderVars, planLeaseVars, approvalVars, omsVars, runVars,
                automationVars, toolVars, feedVars>>)
     /\ GuardNext
  \/ /\ Moves("approval",
              <<vars, leaderVars, planLeaseVars, guardVars, omsVars, runVars,
                automationVars, toolVars, feedVars>>)
     /\ ApprovalNext
  \/ /\ Moves("oms",
              <<vars, leaderVars, planLeaseVars, guardVars, approvalVars, runVars,
                automationVars, toolVars, feedVars>>)
     /\ OmsNext
  \/ /\ Moves("run",
              <<vars, leaderVars, planLeaseVars, guardVars, approvalVars, omsVars,
                automationVars, toolVars, feedVars>>)
     /\ RunNext
  \/ /\ Moves("automation",
              <<vars, leaderVars, planLeaseVars, guardVars, approvalVars, omsVars,
                runVars, toolVars, feedVars>>)
     /\ AutomationNext
  \/ /\ Moves("tools",
              <<vars, leaderVars, planLeaseVars, guardVars, approvalVars, omsVars,
                runVars, automationVars, feedVars>>)
     /\ ToolNext
  \/ /\ Moves("feed",
              <<vars, leaderVars, planLeaseVars, guardVars, approvalVars, omsVars, runVars,
                automationVars, toolVars>>)
     /\ FeedNext

\* Plans: time goes on, ticks are started again and again, and one that has begun goes
\* on unless it is lost.
\* Transport: callers come again and again, every operation ends (each has a timeout,
\* and a cancellation is a failure), and time goes on.
\* Automations: the loop runs what is ready, and the execution of an analysis ends.
\* Runs: the loop runs what is ready, an execution ends at last (its steps, its budget
\* and every call of its provider are bounded), and the application is opened again.
\* Tools: the loop runs what is ready, and every call has a timeout.
ProtocolsFairness ==
  /\ WF_planLeaseVars(protocol = "plan" /\ LeaseTick)
  /\ \A w \in Workers : WF_planLeaseVars(protocol = "plan" /\ Step(w))
  /\ \A c \in Callers : /\ WF_guardVars(protocol = "guard" /\ Comes(c))
                        /\ WF_guardVars(protocol = "guard" /\ Returns(c))
  /\ WF_guardVars(protocol = "guard" /\ GuardTick)
  /\ \A r \in Runs : /\ WF_runVars(protocol = "run" /\ Host(r))
                     /\ WF_runVars(protocol = "run" /\ Ends(r))
  /\ WF_runVars(protocol = "run" /\ CloseHostEnds)
  /\ WF_runVars(protocol = "run" /\ Reopen)
  /\ WF_automationVars(protocol = "automation" /\ PollStep)
  /\ \A h \in Handlers : WF_automationVars(protocol = "automation" /\ Callback(h))
  /\ WF_toolVars(protocol = "tools" /\ NextRound)
  /\ \A c \in ToolCalls : WF_toolVars(protocol = "tools" /\ CallStep(c))

ProtocolsSpec == ProtocolsInit /\ [][ProtocolsNext]_AllVars /\ ProtocolsFairness

\* The type invariants of the protocols.
ProtocolsTypeOK ==
  /\ LeaseTypeOK /\ PlanLeaseTypeOK /\ GuardTypeOK /\ ApprovalTypeOK
  /\ LiveTypeOK /\ RunTypeOK /\ AutomationTypeOK /\ ToolTypeOK
  /\ FeedTypeOK

\* AccountIsTickedAgain of PlanLease: what a lost worker held runs out.
AccountIsTicked == protocol = "plan" => AccountIsTickedAgain

\* AlwaysUsable of TransportGuard: no probe, slot or delay is left behind.
ScopeIsUsable == protocol = "guard" => AlwaysUsable

\* InterruptedIsResumed of AgentRun: a restart resumes the work it has interrupted.
WorkIsResumed == protocol = "run" => InterruptedIsResumed

\* ClaimsAreAnswered of Automations: no deadline that was claimed is lost.
DeadlinesAreAnswered == protocol = "automation" => ClaimsAreAnswered

\* PassesEnd of ToolWorkers: the executor comes to an end.
ExecutionsEnd == protocol = "tools" => PassesEnd
=============================================================================
