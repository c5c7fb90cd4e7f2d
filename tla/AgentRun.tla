------------------------------ MODULE AgentRun ------------------------------
(***************************************************************************)
(* Durable agent runs: the rows of stock_ai/agent_run_store.py, the        *)
(* asyncio tasks that durable_agent_runtime.py keeps for them, and the     *)
(* user's calls, the host's own recovery, shutdowns and crashes around     *)
(* them.                                                                   *)
(*                                                                         *)
(* The host is one event loop.  A call is cut where it waits for a task to *)
(* end; its other awaits take uncontended locks and do not give up control.*)
(* Calls for a run do not overlap, but a call may come before the first    *)
(* step of the task: a task cancelled then ends without having run.  What  *)
(* an agent does is left out: a run ends in one of the ways it may.        *)
(***************************************************************************)
EXTENDS Integers

CONSTANTS
  Runs,
  Ceiling,     \* _AUTONOMOUS_RECOVERY_STEP_CEILING, in continuations
  MaxLimit,    \* bound: continuations by the user
  MaxStops     \* bound: shutdowns and crashes

ASSUME RunAssumption ==
  {Ceiling, MaxLimit, MaxStops} \subseteq Nat

\* TERMINAL_RUN_STATUSES; max_steps_reached is treated like a partial completion.
Terminal == {"completed", "partially_completed", "cancelled"}
\* The statuses recover_interrupted takes for interrupted work.
InFlight == {"queued", "running", "cancelling"}
Statuses == Terminal \cup InFlight \cup {"none", "waiting", "suspended"}
Errors == {"none", "UserPaused", "SafeShutdown", "ProcessRestarted"}

VARIABLES
  record,     \* agent_runs
  execution,  \* _tasks: the task of each run
  followUp,   \* _recovery_tasks: the host is about to continue the run
  pausing,    \* _pause_requested
  cancelCall, \* a call of cancel in progress
  process,
  wish,       \* history: what the user asked for last
  overtaken,  \* history: runs whose task a pause has ended before its first step
  stops

userVars == <<wish, overtaken>>
hostVars == <<process, stops>>
runVars  == <<record, execution, followUp, pausing, cancelCall, userVars, hostVars>>

NoRecord == [status |-> "none", error |-> "none", cancelled |-> FALSE,
             limit |-> 0, gaps |-> FALSE, spent |-> FALSE]

RunInit ==
  /\ record = [r \in Runs |-> NoRecord]
  /\ execution = [r \in Runs |-> "none"]
  /\ followUp = [r \in Runs |-> FALSE]
  /\ pausing = {}
  /\ cancelCall = [r \in Runs |-> "none"]
  /\ process = "up"
  /\ wish = [r \in Runs |-> "none"]
  /\ overtaken = {}
  /\ stops = 0

-----------------------------------------------------------------------------

SetRecord(r, new)   == record' = [record EXCEPT ![r] = new]
SetExecution(r, pc) == execution' = [execution EXCEPT ![r] = pc]
Wishes(r, w)        == wish' = [wish EXCEPT ![r] = w]

Status(r) == record[r].status

\* prepare_resume or prepare_continuation, and create_task.
Queued(e) == [e EXCEPT !.status = "queued", !.error = "none"]

\* mark_running.
Executing(e) == IF e.status = "queued" THEN [e EXCEPT !.status = "running"] ELSE e

\* The user may call: the application is open, and the last call has returned.
MayCall(r) ==
  /\ process = "up"
  /\ cancelCall[r] = "none" /\ execution[r] # "stopping"

\* task.cancel().
Cancelled(pc) == IF pc = "running" THEN "stopping" ELSE IF pc = "created" THEN "none" ELSE pc

-----------------------------------------------------------------------------
(* The execution of a run *)

\* start_run; no call can name the run before its first step.
Create(r) ==
  /\ MayCall(r) /\ Status(r) = "none"
  /\ SetRecord(r, Executing(Queued(NoRecord)))
  /\ SetExecution(r, "running")
  /\ Wishes(r, "go")
  /\ UNCHANGED <<followUp, pausing, cancelCall, overtaken, hostVars>>

Begin(r) ==
  /\ execution[r] = "created"
  /\ SetExecution(r, "running")
  /\ SetRecord(r, Executing(record[r]))
  /\ UNCHANGED <<followUp, pausing, cancelCall, userVars, hostVars>>

\* The durable event of an exhausted cost or token budget.
Spend(r) ==
  /\ execution[r] = "running"
  /\ ~record[r].spent
  /\ SetRecord(r, [record[r] EXCEPT !.spent = TRUE])
  /\ UNCHANGED <<execution, followUp, pausing, cancelCall, userVars, hostVars>>

\* Faulty: an exhausted budget is a gap like any other.
ContinuesUnfunded(e) == e.status = "partially_completed" /\ e.gaps /\ e.limit < Ceiling

\* _should_auto_continue_recovery.
ShouldContinue(e) ==
  /\ e.status = "partially_completed"
  /\ e.gaps /\ ~e.spent /\ e.limit < Ceiling

\* The task ends with a result, a question or an error; _task_finished schedules a
\* continuation of what can be repaired.
Finish(r, e) ==
  /\ execution[r] = "running"
  /\ SetRecord(r, e)
  /\ SetExecution(r, "none")
  /\ followUp' = [followUp EXCEPT ![r] = @ \/ ShouldContinue(e)]
  /\ UNCHANGED <<pausing, cancelCall, userVars, hostVars>>

EndedAs(r, status, gaps) ==
  [record[r] EXCEPT !.status = status, !.error = "none", !.gaps = gaps]

CompleteRun(r) == Finish(r, EndedAs(r, "completed", FALSE))
AskUser(r)     == Finish(r, EndedAs(r, "waiting", record[r].gaps))
Fall(r)        == \E gaps \in BOOLEAN : Finish(r, EndedAs(r, "partially_completed", gaps))

\* Faulty: every stop that is no pause is an interruption.
Interrupts(r) ==
  [record[r] EXCEPT !.status = IF r \in pausing THEN "suspended" ELSE "interrupted"]

\* The handler of CancelledError: a pause, a shutdown, or a cancellation.
Stopped(r) ==
  IF r \in pausing THEN [record[r] EXCEPT !.status = "suspended", !.error = "UserPaused"]
  ELSE IF process = "closing" /\ ~record[r].cancelled
       THEN [record[r] EXCEPT !.status = "suspended", !.error = "SafeShutdown"]
       ELSE [record[r] EXCEPT !.status = "cancelled"]

Stop(r) ==
  /\ execution[r] = "stopping"
  /\ SetRecord(r, Stopped(r))
  /\ SetExecution(r, "none")
  /\ pausing' = pausing \ {r}
  /\ cancelCall' = [cancelCall EXCEPT ![r] = IF @ = "waits" THEN "returns" ELSE @]
  /\ UNCHANGED <<followUp, userVars, hostVars>>

-----------------------------------------------------------------------------
(* The calls of the user *)

\* pause returns at once for a run whose status counts as terminal.
PauseTerminal(r) ==
  /\ MayCall(r)
  /\ Status(r) = "partially_completed"
  /\ Wishes(r, "pause")
  /\ UNCHANGED <<record, execution, followUp, pausing, cancelCall, overtaken, hostVars>>

Pause(r) ==
  /\ MayCall(r)
  /\ Status(r) \notin Terminal \cup {"none"}
  /\ pausing' = pausing \cup {r}
  /\ SetExecution(r, Cancelled(execution[r]))
  /\ IF execution[r] = "none"
     THEN SetRecord(r, [record[r] EXCEPT !.status = "suspended", !.error = "UserPaused"])
     ELSE UNCHANGED record
  /\ overtaken' = IF execution[r] = "created" THEN overtaken \cup {r} ELSE overtaken \ {r}
  /\ Wishes(r, "pause")
  /\ UNCHANGED <<followUp, cancelCall, hostVars>>

CancelTerminal(r) ==
  /\ MayCall(r)
  /\ Status(r) = "partially_completed"
  /\ Wishes(r, "cancel")
  /\ UNCHANGED <<record, execution, followUp, pausing, cancelCall, overtaken, hostVars>>

\* request_cancel is saved, then the call waits for the task.
CancelRun(r) ==
  /\ MayCall(r)
  /\ Status(r) \notin Terminal \cup {"none"}
  /\ SetRecord(r, [record[r] EXCEPT !.status = "cancelling", !.cancelled = TRUE])
  /\ SetExecution(r, Cancelled(execution[r]))
  /\ followUp' = [followUp EXCEPT ![r] = FALSE]
  /\ cancelCall' = [cancelCall EXCEPT
                      ![r] = IF execution[r] = "running" THEN "waits" ELSE "returns"]
  /\ overtaken' = overtaken \ {r}
  /\ Wishes(r, "cancel")
  /\ UNCHANGED <<pausing, hostVars>>

\* Faulty: a run that was not executing is left as one that is being cancelled.
LeavesCancelling(e) == e

\* A run without a task still needs its terminal transition.
Settled(e) == IF e.status \in Terminal THEN e ELSE [e EXCEPT !.status = "cancelled"]

CancelReturns(r) ==
  /\ cancelCall[r] = "returns"
  /\ cancelCall' = [cancelCall EXCEPT ![r] = "none"]
  /\ SetRecord(r, Settled(record[r]))
  /\ UNCHANGED <<execution, followUp, pausing, userVars, hostVars>>

\* resume; an answer to a question or an approval comes here as well.  The user
\* authorizes a new budget.
ResumeRun(r) ==
  /\ MayCall(r)
  /\ Status(r) \in {"suspended", "waiting"}
  /\ execution[r] = "none"
  /\ SetRecord(r, [Queued(record[r]) EXCEPT !.spent = FALSE])
  /\ SetExecution(r, "created")
  /\ Wishes(r, "go")
  /\ UNCHANGED <<followUp, pausing, cancelCall, overtaken, hostVars>>

Continued(e) == [Queued(e) EXCEPT !.limit = @ + 1, !.gaps = FALSE]

\* continue_after_limit, called by the user.
Continue(r) ==
  /\ MayCall(r)
  /\ Status(r) = "partially_completed"
  /\ record[r].limit < MaxLimit
  /\ execution[r] = "none"
  /\ SetRecord(r, [Continued(record[r]) EXCEPT !.spent = FALSE])
  /\ SetExecution(r, "created")
  /\ Wishes(r, "go")
  /\ UNCHANGED <<followUp, pausing, cancelCall, overtaken, hostVars>>

-----------------------------------------------------------------------------
(* The host *)

\* _continue_recovery_automatically looks at the run again.
FollowUp(r) ==
  /\ followUp[r]
  /\ followUp' = [followUp EXCEPT ![r] = FALSE]
  /\ IF ShouldContinue(record[r]) /\ execution[r] = "none"
     THEN SetRecord(r, Continued(record[r])) /\ SetExecution(r, "created")
     ELSE UNCHANGED <<record, execution>>
  /\ UNCHANGED <<pausing, cancelCall, userVars, hostVars>>

\* close cancels the tasks and waits for them.
CloseHost ==
  /\ process = "up"
  /\ stops < MaxStops
  /\ stops' = stops + 1
  /\ process' = "closing"
  /\ execution' = [r \in Runs |-> Cancelled(execution[r])]
  /\ UNCHANGED <<record, followUp, pausing, cancelCall, userVars>>

\* What is in memory only is gone.
Gone ==
  /\ execution' = [r \in Runs |-> "none"]
  /\ followUp' = [r \in Runs |-> FALSE]
  /\ pausing' = {}
  /\ cancelCall' = [r \in Runs |-> "none"]
  /\ process' = "down"
  /\ UNCHANGED <<record, userVars>>

CloseHostEnds ==
  /\ process = "closing"
  /\ \A r \in Runs : execution[r] # "stopping"
  /\ Gone /\ UNCHANGED stops

CrashHost ==
  /\ process \in {"up", "closing"}
  /\ stops < MaxStops
  /\ stops' = stops + 1
  /\ Gone

\* Faulty: a cancelled run is taken for an interrupted one.
RecoversCancelled(e) ==
  IF e.status \in InFlight \cup {"cancelled"}
  THEN [e EXCEPT !.status = "suspended", !.error = "ProcessRestarted"]
  ELSE e

\* recover_interrupted.
RecoveredRun(e) ==
  IF e.status \in InFlight
  THEN [e EXCEPT !.status = "suspended", !.error = "ProcessRestarted"]
  ELSE e

\* Faulty: every suspended run is resumed.
ResumesPaused(e) == e.status = "suspended" /\ ~e.spent

\* Faulty: only what a crash has interrupted is resumed.
ResumesAfterCrash(e) == e.status = "suspended" /\ e.error = "ProcessRestarted" /\ ~e.spent

\* start_background resumes what was interrupted, not what the user has paused, and
\* nothing that has used up its budget.
ResumesItself(e) == e.status = "suspended" /\ e.error # "UserPaused" /\ ~e.spent

Reopen ==
  /\ process = "down"
  /\ process' = "up"
  /\ LET Resumed(r) == ResumesItself(RecoveredRun(record[r]))
     IN /\ record' = [r \in Runs |-> IF Resumed(r) THEN Executing(Queued(record[r]))
                                     ELSE RecoveredRun(record[r])]
        /\ execution' = [r \in Runs |-> IF Resumed(r) THEN "running" ELSE "none"]
  /\ overtaken' = {}
  /\ UNCHANGED <<followUp, pausing, cancelCall, wish, stops>>

-----------------------------------------------------------------------------

Call(r) ==
  \/ Create(r) \/ Pause(r) \/ PauseTerminal(r) \/ CancelRun(r) \/ CancelTerminal(r)
  \/ ResumeRun(r) \/ Continue(r)

Ends(r) == CompleteRun(r) \/ AskUser(r) \/ Fall(r)

Host(r) == Begin(r) \/ Stop(r) \/ CancelReturns(r) \/ FollowUp(r)

RunNext ==
  \/ \E r \in Runs : Call(r) \/ Host(r) \/ Ends(r) \/ Spend(r)
  \/ CloseHost \/ CloseHostEnds \/ CrashHost \/ Reopen

RunSpec == RunInit /\ [][RunNext]_runVars

-----------------------------------------------------------------------------
(* Properties *)

RunTypeOK ==
  /\ record \in [Runs -> [status: Statuses, error: Errors, cancelled: BOOLEAN,
                       limit: Nat, gaps: BOOLEAN, spent: BOOLEAN]]
  /\ execution \in [Runs -> {"none", "created", "running", "stopping"}]
  /\ followUp \in [Runs -> BOOLEAN]
  /\ pausing \subseteq Runs
  /\ cancelCall \in [Runs -> {"none", "waits", "returns"}]
  /\ process \in {"up", "closing", "down"}
  /\ wish \in [Runs -> {"none", "go", "pause", "cancel"}]
  /\ overtaken \subseteq Runs

\* While the application is open, a run on record as queued or running has a task and
\* one that is being cancelled a call: none looks busy and is not.  A run whose pause
\* was lost with its task is the exception.
BusyRunsAreDriven ==
  process = "up" => \A r \in Runs :
    /\ Status(r) \in {"queued", "running"} => execution[r] # "none" \/ r \in overtaken
    /\ Status(r) = "cancelling" => cancelCall[r] # "none"

\* A run on record as paused by the user is executed again by the user only, over
\* shutdowns, crashes and restarts
\* (test_explicit_user_pause_survives_process_restart_until_manual_resume).
PausedByUserStays ==
  [][\A r \in Runs :
       Status(r) = "suspended" /\ record[r].error = "UserPaused" /\ execution'[r] # "none"
         => wish'[r] = "go" /\ process = "up"]_runVars

\* A run whose budget is exhausted is not executed again until the user says so, also
\* when a crash came before its result (the events outlive the result).
BudgetsAreTheUsers ==
  [][\A r \in Runs : record[r].spent /\ execution[r] = "none" /\ execution'[r] # "none"
       => ~record'[r].spent]_runVars

\* A cancelled run stays cancelled: "cancellation must still be terminal".
CancelIsTerminal ==
  [][\A r \in Runs : Status(r) = "cancelled" => record'[r].status = "cancelled"]_runVars

\* What the user has decided is undone by the user only.
UserDecisionsStand == PausedByUserStays /\ BudgetsAreTheUsers /\ CancelIsTerminal

\* Interrupted work is taken up again when the application is back.
InterruptedIsResumed ==
  \A r \in Runs : Status(r) = "suspended" /\ record[r].error # "UserPaused" /\ ~record[r].spent
                    ~> Status(r) # "suspended"

-----------------------------------------------------------------------------
(* What comments in the code say and the code does not keep *)

\* durable_agent_runtime.py:4526, "Their explicit control always wins": once a pause
\* or a cancellation has returned, the run is not executed until the user resumes it.
ControlWins ==
  \A r \in Runs : wish[r] \in {"pause", "cancel"} /\ cancelCall[r] = "none"
                    => execution[r] \in {"none", "stopping"}

\* durable_agent_runtime.py:1112: a run whose cancellation was requested is not
\* executed again.
CancelIsKept ==
  [][\A r \in Runs : record[r].cancelled /\ execution[r] = "none"
       => execution'[r] = "none"]_runVars

\* durable_agent_runtime.py:344: only the user's pause is on record as one.
OnlyPausesArePauses ==
  \A r \in Runs : Status(r) = "suspended" /\ record[r].error = "UserPaused" => wish[r] # "go"

\* durable_agent_runtime.py:345: an explicit pause is itself durable state.
PauseIsDurable ==
  \A r \in Runs : wish[r] = "pause" /\ execution[r] = "none" /\ process = "up"
                    => Status(r) \notin InFlight

\* durable_agent_runtime.py:351: the self-repair of an incomplete run is restored
\* after a restart.
RepairIsRestored == \A r \in Runs : ShouldContinue(record[r]) ~> ~ShouldContinue(record[r])
=============================================================================
