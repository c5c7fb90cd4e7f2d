----------------------------- MODULE Approvals -----------------------------
(***************************************************************************)
(* The approvals of one mutating step of an agent run: ApprovalManager of  *)
(* agent_runtime/approval_manager.py, the places of                        *)
(* agent_runtime/orchestrator.py that require and consume an approval, and *)
(* resolve_approval of stock_ai/durable_agent_runtime.py.                  *)
(*                                                                         *)
(* The plan may have an approval node before the tool: then its approval   *)
(* also serves the tool.  The run executes in one task; windows of the     *)
(* user interface act on its approvals at any time, the issue of a         *)
(* challenge in a thread of its own.  Arguments are numbered: a revised    *)
(* plan has new ones.  Each window holds one challenge and is its name.    *)
(***************************************************************************)
EXTENDS Integers, Sequences, FiniteSets

CONSTANTS
  Windows,       \* windows of the user interface
  Guarded,       \* the plan has an approval node before the tool
  MaxApprovals,  \* bound: approvals of the run
  MaxRevisions,  \* bound: arguments the plan tries after the first
  MaxFailures    \* bound: executions that fail or are cut off by a restart

ASSUME ApprovalAssumption ==
  /\ Guarded \in BOOLEAN
  /\ {MaxApprovals, MaxRevisions, MaxFailures} \subseteq Nat

VARIABLES
  approvals,  \* agent_approvals, in the order of requested_at
  run,        \* the step of the run
  window,     \* what each window shows
  failures,
  served      \* history: approvals under which the tool has succeeded

approvalVars == <<approvals, run, window, failures, served>>

FirstStep == IF Guarded THEN "guard" ELSE "tool"
Unused    == [pc |-> "closed"]

ApprovalInit ==
  /\ approvals = <<>>
  /\ run = [step |-> FirstStep, pc |-> "ready", args |-> 0, by |-> 0, late |-> FALSE]
  /\ served = {}
  /\ window = [w \in Windows |-> Unused]
  /\ failures = 0

Ids == DOMAIN approvals
Is(i, status) == i # 0 /\ approvals[i].status = status

-----------------------------------------------------------------------------
(* The run *)

\* latest_for_step, and with the arguments _matching; 0 for none.
Latest(S) == IF S = {} THEN 0 ELSE CHOOSE i \in S : \A j \in S : j <= i
LatestForStep(step) == Latest({i \in Ids : approvals[i].step = step})
Matching == Latest({i \in Ids : approvals[i].step = run.step /\ approvals[i].args = run.args})

NewApproval ==
  [step |-> run.step, args |-> run.args, status |-> "pending", expired |-> FALSE,
   challenge |-> {}, answer |-> "none"]

\* require uses an approval of these arguments that is still valid ...
Valid(i) == Is(i, "approved") /\ ~approvals[i].expired

\* Faulty: an approval that is not valid is requested again.
NeverWaits(i) == FALSE

\* ... and waits for one that is pending, expired or not.
Waits(i) == Is(i, "pending")

\* _approved_dependency: the approval of a completed approval node, if it was for
\* these arguments.
Dependency ==
  LET i == LatestForStep("guard")
  IN IF run.step = "tool" /\ Is(i, "approved") /\ approvals[i].args = run.args THEN i ELSE 0

\* Without a usable approval the step waits for one, or asks for it.
Ask ==
  /\ run.pc = "ready"
  /\ Dependency = 0 /\ ~Valid(Matching) /\ ~Is(Matching, "denied")
  /\ IF Waits(Matching) THEN UNCHANGED approvals
     ELSE Len(approvals) < MaxApprovals /\ approvals' = Append(approvals, NewApproval)
  /\ run' = [run EXCEPT !.pc = "waiting"]
  /\ UNCHANGED <<window, failures, served>>

\* The approval node is completed; its approval is not consumed.
PassGuard ==
  /\ run.pc = "ready" /\ run.step = "guard"
  /\ Valid(Matching)
  /\ run' = [run EXCEPT !.step = "tool"]
  /\ UNCHANGED <<approvals, window, failures, served>>

\* The tool starts, under the approval of the approval node or one of its own.
Execute ==
  /\ run.pc = "ready" /\ run.step = "tool"
  /\ Dependency # 0 \/ Valid(Matching)
  /\ LET i == IF Dependency # 0 THEN Dependency ELSE Matching
     IN run' = [run EXCEPT !.pc = "execute", !.by = i, !.late = approvals[i].expired]
  /\ UNCHANGED <<approvals, window, failures, served>>

\* The user denied these arguments: the plan is revised, its nodes are new.
Revise ==
  /\ run.pc = "ready"
  /\ Dependency = 0 /\ Is(Matching, "denied")
  /\ run.args < MaxRevisions
  /\ run' = [run EXCEPT !.args = @ + 1, !.step = FirstStep]
  /\ UNCHANGED <<approvals, window, failures, served>>

Ended == [run EXCEPT !.pc = "ready", !.by = 0, !.late = FALSE]

\* Faulty: the approval of an execution is left as it is.
NotConsumed(i) == approvals

Consumed(i) == [approvals EXCEPT ![i].status = "consumed"]

\* The result was valid: the approval is consumed, and a later turn may come to the
\* same step again.
Complete ==
  /\ run.pc = "execute"
  /\ approvals' = Consumed(run.by)
  /\ served' = served \cup {run.by}
  /\ run' = Ended
  /\ UNCHANGED <<window, failures>>

\* The tool failed, its result was not valid, or the process ended before the result
\* was recorded: the step is tried again.
Fail ==
  /\ run.pc = "execute"
  /\ failures < MaxFailures
  /\ failures' = failures + 1
  /\ run' = Ended
  /\ UNCHANGED <<approvals, window, served>>

\* resume, also without an answer.
Resumed == IF run.pc = "waiting" THEN [run EXCEPT !.pc = "ready"] ELSE run

Resume ==
  /\ run.pc = "waiting"
  /\ run' = Resumed
  /\ UNCHANGED <<approvals, window, failures, served>>

-----------------------------------------------------------------------------
(* The user interface *)

\* issue_challenge reads the approval first and writes its payload back later.
ReadChallenge(w, i) ==
  /\ window[w] = Unused
  /\ Is(i, "pending") /\ ~approvals[i].expired
  /\ window' = [window EXCEPT ![w] = [pc |-> "issue", id |-> i]]
  /\ UNCHANGED <<approvals, run, failures, served>>

WriteChallenge(w) ==
  /\ window[w].pc = "issue"
  /\ LET i == window[w].id
     IN approvals' = IF Is(i, "pending") THEN [approvals EXCEPT ![i].challenge = {w}]
                     ELSE approvals
  /\ window' = [window EXCEPT ![w].pc = "shown"]
  /\ UNCHANGED <<run, failures, served>>

\* resolve accepts the challenge issued last for an approval that is pending.
MayResolve(w) ==
  /\ Is(window[w].id, "pending")
  /\ w \in approvals[window[w].id].challenge

\* Faulty: an answer that comes too late has a status of its own.
TooLate(i, approved) ==
  IF approvals[i].expired THEN "expired" ELSE IF approved THEN "approved" ELSE "denied"

\* An approval that comes too late is a denial.
Decision(i, approved) == IF approved /\ ~approvals[i].expired THEN "approved" ELSE "denied"

\* resolve_approval: the run resumes, with a denial as evidence if there was one.
Resolve(w, approved) ==
  /\ window[w].pc = "shown"
  /\ LET i == window[w].id
     IN IF MayResolve(w)
        THEN /\ approvals' = [approvals EXCEPT
                  ![i].status = Decision(i, approved), ![i].challenge = {},
                  ![i].answer = IF approved THEN "approved" ELSE "denied"]
             /\ run' = Resumed
        ELSE UNCHANGED <<approvals, run>>
  /\ window' = [window EXCEPT ![w] = Unused]
  /\ UNCHANGED <<failures, served>>

Expire(i) ==
  /\ ~approvals[i].expired
  /\ approvals' = [approvals EXCEPT ![i].expired = TRUE]
  /\ UNCHANGED <<run, window, failures, served>>

RunStep == Ask \/ PassGuard \/ Execute \/ Revise \/ Complete \/ Fail \/ Resume

Answers(w) ==
  \/ \E i \in Ids : ReadChallenge(w, i)
  \/ WriteChallenge(w)
  \/ \E approved \in BOOLEAN : Resolve(w, approved)

ApprovalNext ==
  \/ RunStep
  \/ \E w \in Windows : Answers(w)
  \/ \E i \in Ids : Expire(i)

ApprovalSpec == ApprovalInit /\ [][ApprovalNext]_approvalVars

\* A user who answers as long as there is something to answer.
ApprovalFairSpec ==
  /\ ApprovalSpec
  /\ \A w \in Windows : WF_approvalVars(Answers(w))

-----------------------------------------------------------------------------
(* Properties *)

ApprovalTypeOK ==
  /\ approvals \in Seq([step: {"guard", "tool"}, args: Nat, expired: BOOLEAN,
                        status: {"pending", "approved", "denied", "consumed"},
                        challenge: SUBSET Windows, answer: {"none", "approved", "denied"}])
  /\ run \in [step: {"guard", "tool"}, pc: {"ready", "waiting", "execute"}, args: Nat,
              by: Nat, late: BOOLEAN]
  /\ run.by \in Ids \cup {0}
  /\ window \in [Windows -> {Unused} \cup [pc: {"issue", "shown"}, id: Ids]]
  /\ failures \in Nat /\ served \subseteq Ids

\* orchestrator: a tool runs under an approval that the user gave for exactly these
\* arguments and under which it has not yet succeeded.
ExecutesWithConsent ==
  run.pc = "execute" =>
    /\ Is(run.by, "approved")
    /\ approvals[run.by].answer = "approved"
    /\ approvals[run.by].args = run.args
    /\ run.by \notin served

\* require: a run that waits has asked one question, the one it waits for.
WaitsForItsQuestion ==
  run.pc = "waiting" => {i \in Ids : Is(i, "pending")} = {Matching}

\* Both: what the user is asked and what the answer allows.
AnswersAreKept == ExecutesWithConsent /\ WaitsForItsQuestion

\* A tool does not start under an approval that has expired.
StartsInTime == run.pc = "execute" => ~run.late

\* A denial is the user's.
DenialsAreTheUsers == \A i \in Ids : Is(i, "denied") => approvals[i].answer = "denied"

\* What a run waits for is decided by a user who keeps answering.
QuestionsAreDecided ==
  \A i \in 1..MaxApprovals :
    (i \in Ids /\ Is(i, "pending")) ~> (i \in Ids /\ ~Is(i, "pending"))
=============================================================================
