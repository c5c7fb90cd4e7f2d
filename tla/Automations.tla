---------------------------- MODULE Automations ----------------------------
(***************************************************************************)
(* An active automation with its internal schedule:                        *)
(* agent_runtime/automation/store.py, controller.py and time_poller.py,    *)
(* driven by the scheduler loop and the event calls of                     *)
(* stock_ai/durable_agent_runtime.py.                                      *)
(*                                                                         *)
(* The poller and the deliveries of events are tasks of one event loop;    *)
(* the user's calls run in threads of their own, between any two           *)
(* transactions of the tasks.  An occurrence is a deadline, named by its   *)
(* time, or an event.  Time is counted in periods of the schedule.         *)
(***************************************************************************)
EXTENDS Integers, FiniteSets

CONSTANTS
  Triggers,    \* the triggers an automation may have
  Events,      \* source_event_id of what event engines deliver
  Deliveries,  \* concurrent calls of trigger_automation_event
  Poller,      \* the task of poll_due_schedules_async
  Daily,       \* max_reanalysis_per_day
  DayLength,   \* periods of a day
  MaxClock,    \* bound
  MaxOutages   \* bound: shutdowns and crashes

ASSUME AutomationAssumption ==
  /\ Triggers \subseteq [type: {"once", "schedule", "event", "watch"},
                         policy: {"run_once", "catch_up", "skip"}]
  /\ {Daily, DayLength} \subseteq Nat \ {0}
  /\ {MaxClock, MaxOutages} \subseteq Nat
  /\ Poller \notin Deliveries
  /\ Events \cap (0..MaxClock) = {}

Deadlines   == 1..MaxClock
Occurrences == Deadlines \cup Events
Handlers    == Deliveries \cup {Poller}
NoDeadline  == 0

VARIABLES
  trigger,     \* the compiled trigger
  automation,  \* state of the row of agent_automations
  schedule,    \* its row of agent_automation_schedules
  occurrence,  \* receipt, execution and budget row of each occurrence
  handler,     \* poller and deliveries
  recovery,    \* incomplete callbacks the poll has yet to take up
  change,      \* a call of the user between its check and its write
  held,        \* history: the user has paused, and not resumed since
  clock,
  outages

rows           == <<automation, schedule, occurrence>>
automationVars == <<trigger, rows, handler, recovery, change, held, clock, outages>>

Resting == [pc |-> "idle", on |-> NoDeadline, at |-> 0, outcome |-> "none"]
Unseen == [receipt |-> "none", execution |-> "none", day |-> 0, analyses |-> 0]

OneShot      == trigger.type = "once"
Periodic     == trigger.type \in {"schedule", "watch"}
TakesEvents  == trigger.type \in {"event", "watch"}

\* confirm_and_activate has registered the schedule.
AutomationInit ==
  /\ trigger \in Triggers
  /\ automation = "active"
  /\ schedule = [status |-> "active", due |-> IF trigger.type = "event" THEN NoDeadline ELSE 1]
  /\ occurrence = [o \in Occurrences |-> Unseen]
  /\ handler = [h \in Handlers |-> Resting]
  /\ recovery = {}
  /\ change = "none"
  /\ held = FALSE
  /\ clock = 0
  /\ outages = 0

Day(t) == 1 + t \div DayLength

Goes(h, pc)   == handler' = [handler EXCEPT ![h].pc = pc]
AtPc(h, pc)   == handler[h].pc = pc
RowOf(h)    == occurrence[handler[h].on]
Writes(h, new) == occurrence' = [occurrence EXCEPT ![handler[h].on] = new]

\* A poll goes on with the next receipt, a delivery ends.
Returned(h) ==
  IF h = Poller THEN [Resting EXCEPT !.pc = "polls", !.at = handler[h].at] ELSE Resting
GoesOn(h) == handler' = [handler EXCEPT ![h] = Returned(h)]

-----------------------------------------------------------------------------
(* Occurrences *)

\* Faulty: only new deadlines are polled.
NothingIncomplete == {}

\* list_incomplete_time_callbacks.
Incomplete == {d \in Deadlines : occurrence[d].receipt = "processing"}

\* poll_async; its time is the time of its start.
Poll ==
  /\ AtPc(Poller, "idle")
  /\ handler' = [handler EXCEPT ![Poller] = [Resting EXCEPT !.pc = "polls", !.at = clock]]
  /\ recovery' = Incomplete
  /\ UNCHANGED <<trigger, rows, change, held, clock, outages>>

Dispatches(h, o, at) ==
  handler' = [handler EXCEPT ![h] = [Resting EXCEPT !.pc = "prepares", !.on = o, !.at = at]]

RecoverCallback ==
  /\ AtPc(Poller, "polls")
  /\ \E d \in recovery :
       /\ \A e \in recovery : d <= e
       /\ recovery' = recovery \ {d}
       /\ Dispatches(Poller, d, handler[Poller].at)
  /\ UNCHANGED <<trigger, rows, change, held, clock, outages>>

DueAt(t) == schedule.status = "active" /\ schedule.due # NoDeadline /\ schedule.due <= t

\* _next_due: all missed deadlines are one, but for catch_up.
NextDue(t) ==
  IF ~Periodic THEN NoDeadline
  ELSE IF trigger.policy = "catch_up" THEN schedule.due + 1 ELSE t + 1

\* claim_due_schedule, in one transaction; a skipped deadline is not dispatched.
ClaimDue ==
  /\ AtPc(Poller, "polls") /\ recovery = {}
  /\ LET t == handler[Poller].at
         d == schedule.due
         missed == Periodic /\ trigger.policy = "skip" /\ d < t
     IN /\ DueAt(t)
        /\ schedule' = [schedule EXCEPT !.due = NextDue(t)]
        /\ occurrence' = [occurrence EXCEPT
                            ![d].receipt = IF missed THEN "skipped" ELSE "processing"]
        /\ IF missed THEN UNCHANGED handler ELSE Dispatches(Poller, d, t)
  /\ UNCHANGED <<trigger, automation, recovery, change, held, clock, outages>>

PollEnds ==
  /\ AtPc(Poller, "polls") /\ recovery = {} /\ ~DueAt(handler[Poller].at)
  /\ Goes(Poller, "idle")
  /\ UNCHANGED <<trigger, rows, recovery, change, held, clock, outages>>

\* begin_schedule_callback; an event with a receipt is a duplicate.
Deliver(h, e) ==
  /\ AtPc(h, "idle")
  /\ TakesEvents /\ schedule.status = "active"
  /\ occurrence[e].receipt = "none"
  /\ occurrence' = [occurrence EXCEPT ![e].receipt = "processing"]
  /\ Dispatches(h, e, clock)
  /\ UNCHANGED <<trigger, automation, schedule, recovery, change, held, clock, outages>>
-----------------------------------------------------------------------------
(* A callback: handle_scheduler_callback_async and handle_trigger_async *)

\* Faulty: an execution that is completed is looked at again.
NeverKnown(e) == FALSE

\* An execution that is completed has its outcome.
Known(e) == e \notin {"none", "running"}

AnswersWith(h, outcome) ==
  handler' = [handler EXCEPT ![h].pc = "answers", ![h].outcome = outcome]

Filters(h) == Writes(h, [RowOf(h) EXCEPT !.execution = "filtered"])
Records(h)   == Writes(h, [RowOf(h) EXCEPT !.execution = "running"])

\* _prepare_reanalysis: the state of the automation or its condition rejects the
\* occurrence; while another callback is at work the receipt is left for a later poll.
Prepare(h) ==
  /\ AtPc(h, "prepares")
  /\ IF Known(RowOf(h).execution)
     THEN /\ AnswersWith(h, IF RowOf(h).execution = "filtered" THEN "filtered" ELSE "completed")
          /\ UNCHANGED occurrence
     ELSE \/ automation # "triggered" /\ Filters(h) /\ AnswersWith(h, "filtered")
          \/ automation = "triggered" /\ Records(h) /\ GoesOn(h)
          \/ automation = "active" /\ Records(h) /\ Goes(h, "reserves")
  /\ UNCHANGED <<trigger, automation, schedule, recovery, change, held, clock, outages>>

\* Faulty: a reservation is not looked up.
NeverReserved(o) == FALSE

Reserved(o) == occurrence[o].day # 0

Spent(day) == {o \in Occurrences : occurrence[o].day = day}

\* reserve_reanalysis admits an occurrence and charges it to the day of the callback.
Admits(h) ==
  /\ Writes(h, [RowOf(h) EXCEPT !.day = Day(handler[h].at), !.analyses = @ + 1])
  /\ automation' = "triggered"
  /\ Goes(h, "analyzes")

\* One that is reserved stays without an answer, as one that meets another at work.
Reserve(h) ==
  /\ AtPc(h, "reserves")
  /\ IF Reserved(handler[h].on)
     THEN GoesOn(h) /\ UNCHANGED <<occurrence, automation>>
     ELSE IF automation = "active" /\ Cardinality(Spent(Day(handler[h].at))) < Daily
     THEN Admits(h)
     ELSE /\ Filters(h)
          /\ IF automation = "triggered" THEN GoesOn(h) ELSE AnswersWith(h, "filtered")
          /\ UNCHANGED automation
  /\ UNCHANGED <<trigger, schedule, recovery, change, held, clock, outages>>

\* _automation_reanalyze has a decision, or fails.
Analyze(h) ==
  /\ AtPc(h, "analyzes")
  /\ \E outcome \in {"completed", "failed"} :
       handler' = [handler EXCEPT ![h].pc = "records", ![h].outcome = outcome]
  /\ UNCHANGED <<trigger, rows, recovery, change, held, clock, outages>>

\* The user has cancelled or paused the run of the analysis: wait raises, and no
\* handler of errors is for a CancelledError.
LoseAnalysis(h) ==
  /\ AtPc(h, "analyzes")
  /\ handler' = [handler EXCEPT ![h] = Resting]
  /\ recovery' = IF h = Poller THEN {} ELSE recovery
  /\ UNCHANGED <<trigger, rows, change, held, clock, outages>>

\* complete_execution.
RecordExecution(h) ==
  /\ AtPc(h, "records")
  /\ Writes(h, [RowOf(h) EXCEPT
                  !.execution = IF handler[h].outcome = "failed" THEN "failed" ELSE "logged"])
  /\ Goes(h, "settles")
  /\ UNCHANGED <<trigger, automation, schedule, recovery, change, held, clock, outages>>

\* Faulty: the state of a schedule is written.
OfTheSchedule(outcome) ==
  IF outcome = "failed" THEN "failed" ELSE IF OneShot THEN "completed" ELSE "active"

After(outcome) == IF outcome = "failed" THEN "failed" ELSE "active"

\* Faulty: a result ends whatever state the automation is in.
AlwaysEnded(outcome) == After(outcome)

\* finish_reanalysis_state ends the triggered state only.
EndedBy(outcome) == IF automation = "triggered" THEN After(outcome) ELSE automation

Settle(h) ==
  /\ AtPc(h, "settles")
  /\ automation' = EndedBy(handler[h].outcome)
  /\ Goes(h, "answers")
  /\ UNCHANGED <<trigger, schedule, occurrence, recovery, change, held, clock, outages>>

ScheduleAfter(outcome) ==
  IF outcome = "failed" THEN "failed" ELSE IF OneShot THEN "completed" ELSE "active"

\* Faulty: an answered callback ends what the user has done to the schedule.
AlwaysAnswered(outcome) == ScheduleAfter(outcome)

\* complete_schedule_callback keeps what the user has done to the schedule.
AnsweredBy(outcome) ==
  IF schedule.status \in {"paused", "archived"} THEN schedule.status ELSE ScheduleAfter(outcome)

Answer(h) ==
  /\ AtPc(h, "answers")
  /\ Writes(h, [RowOf(h) EXCEPT !.receipt = handler[h].outcome])
  /\ schedule' = [schedule EXCEPT !.status = AnsweredBy(handler[h].outcome)]
  /\ IF OneShot /\ handler[h].outcome # "failed" THEN Goes(h, "expires") ELSE GoesOn(h)
  /\ UNCHANGED <<trigger, automation, recovery, change, held, clock, outages>>

\* _expire_one_shot reads the automation ...
ExpireLooks(h) ==
  /\ AtPc(h, "expires")
  /\ IF automation = "active" THEN Goes(h, "expired") ELSE GoesOn(h)
  /\ UNCHANGED <<trigger, rows, recovery, change, held, clock, outages>>

\* set_state.
Moved(status, target) ==
  IF target = "active" THEN IF status = "paused" THEN "active" ELSE status
  ELSE IF status \in {"active", "paused"} THEN target ELSE status

SetState(target) ==
  /\ automation' = target
  /\ schedule' = [schedule EXCEPT !.status = Moved(@, target)]

\* ... and sets it.
ExpireSets(h) ==
  /\ AtPc(h, "expired")
  /\ SetState("expired")
  /\ GoesOn(h)
  /\ UNCHANGED <<trigger, occurrence, recovery, change, held, clock, outages>>

-----------------------------------------------------------------------------
(* The user, time and outages *)

\* Lifecycle, for what pause, resume and archive ask for.
Transitions ==
  [active |-> {"paused", "archived"}, triggered |-> {"active", "paused"},
   paused |-> {"active", "archived"}, failed |-> {"archived"}, expired |-> {"archived"},
   archived |-> {}]

\* pause, resume and archive check the state ...
UserChecks ==
  /\ change = "none"
  /\ change' \in Transitions[automation]
  /\ UNCHANGED <<trigger, rows, handler, recovery, held, clock, outages>>

\* ... and set it.
UserSets ==
  /\ change # "none"
  /\ SetState(change)
  /\ held' = (change # "active")
  /\ change' = "none"
  /\ UNCHANGED <<trigger, occurrence, handler, recovery, clock, outages>>

AutomationTick ==
  /\ clock < MaxClock
  /\ clock' = clock + 1
  /\ UNCHANGED <<trigger, rows, handler, recovery, change, held, outages>>

\* A shutdown or a crash, and the next start: tasks and threads are lost, and
\* _init_schema lets the schedule follow its automation.
Outage ==
  /\ outages < MaxOutages
  /\ outages' = outages + 1
  /\ handler' = [h \in Handlers |-> Resting]
  /\ recovery' = {}
  /\ change' = "none"
  /\ IF schedule.status = "active" /\ automation \in {"paused", "archived", "expired"}
     THEN schedule' = [schedule EXCEPT !.status = automation]
     ELSE UNCHANGED schedule
  /\ UNCHANGED <<trigger, automation, occurrence, held, clock>>

-----------------------------------------------------------------------------

Callback(h) ==
  \/ Prepare(h) \/ Reserve(h) \/ Analyze(h) \/ LoseAnalysis(h)
  \/ RecordExecution(h) \/ Settle(h) \/ Answer(h) \/ ExpireLooks(h) \/ ExpireSets(h)

PollStep == Poll \/ RecoverCallback \/ ClaimDue \/ PollEnds

AutomationNext ==
  \/ PollStep
  \/ \E h \in Handlers : Callback(h)
  \/ \E h \in Deliveries, e \in Events : Deliver(h, e)
  \/ UserChecks \/ UserSets
  \/ AutomationTick \/ Outage

AutomationSpec == AutomationInit /\ [][AutomationNext]_automationVars

\* The loop runs what is ready, and an analysis ends.
AutomationFairness ==
  /\ WF_automationVars(PollStep)
  /\ \A h \in Handlers : WF_automationVars(Callback(h))

AutomationFairSpec == AutomationSpec /\ AutomationFairness

-----------------------------------------------------------------------------
(* Properties *)

AutomationStates   == {"active", "triggered", "paused", "failed", "expired", "archived"}
CallbackOutcomes == {"none", "completed", "filtered", "failed"}

AutomationTypeOK ==
  /\ trigger \in Triggers
  /\ automation \in AutomationStates
  /\ schedule \in [status: (AutomationStates \ {"triggered"}) \cup {"completed"}, due: Nat]
  /\ occurrence \in [Occurrences ->
       [receipt: CallbackOutcomes \cup {"processing", "skipped"},
        execution: {"none", "running", "filtered", "failed", "logged"},
        day: Nat, analyses: Nat]]
  /\ \A h \in Handlers :
       /\ handler[h].pc \in {"idle", "polls", "prepares", "reserves", "analyzes",
                              "records", "settles", "answers", "expires", "expired"}
       /\ handler[h].on \in Occurrences \cup {NoDeadline}
       /\ handler[h].outcome \in CallbackOutcomes
  /\ recovery \subseteq Deadlines
  /\ change \in {"none", "active", "paused", "archived"}

\* An occurrence is analyzed once at most, over repeated deliveries, lost analyses,
\* outages and the recovery of its receipt ("starting another provider call without a
\* durable completion receipt could spend twice for the same occurrence").
AnalyzedOnce == \A o \in Occurrences : occurrence[o].analyses <= 1

\* Once the user has paused or archived the automation no analysis begins until the
\* user resumes it: not the result of one in flight, nor what a callback has read
\* before, starts it again ("an in-flight result must never undo a subsequent user
\* pause").
PausesHold ==
  [][held => \A o \in Occurrences : occurrence'[o].analyses = occurrence[o].analyses
    ]_automationVars

\* A schedule that was paused or archived with its automation claims deadlines again
\* by the user's resume only, whatever is answered in between.
PausedSchedulesStay ==
  [][schedule.status \in {"paused", "archived"} /\ schedule'.status = "active" => ~held'
    ]_automationVars

\* The automation and its schedule stay as the user has left them.
PausesAreKept == PausesHold /\ PausedSchedulesStay

\* What is recorded of an occurrence stays: an outage between execution and receipt
\* lets no later poll decide again.
OutcomesAreFinal ==
  [][\A o \in Occurrences :
       /\ occurrence[o].execution \in {"filtered", "failed", "logged"}
            => occurrence'[o].execution = occurrence[o].execution
       /\ occurrence[o].receipt \notin {"none", "processing"}
            => occurrence'[o].receipt = occurrence[o].receipt]_automationVars

\* A callback has left the automation triggered and is gone.
Stranded ==
  /\ automation = "triggered"
  /\ \A h \in Handlers : handler[h].pc \notin {"analyzes", "records", "settles"}

\* A deadline that was claimed is answered, also after an outage, unless its analysis
\* has begun and was lost, or the automation is stranded by another one.
ClaimsAreAnswered ==
  \A d \in Deadlines :
    occurrence[d].receipt = "processing"
      ~> occurrence[d].receipt # "processing" \/ Reserved(d) \/ Stranded

-----------------------------------------------------------------------------
(* What comments in the code say and the code does not keep *)

\* time_poller.py:25: a new process continues "without silently losing or duplicating
\* a deadline".
StrandedIsFreed == Stranded ~> ~Stranded

\* store.py:246: an analysis is charged to its UTC day.
ChargedToItsDay ==
  [][\A o \in Occurrences : occurrence'[o].day # occurrence[o].day
       => occurrence'[o].day = Day(clock)]_automationVars

\* store.py:206: a paused or archived automation has no active schedule.
PausedIsQuiet == automation \in {"paused", "archived"} => schedule.status # "active"

\* A pause does not cost a one-shot automation the deadline it is for
\* (test_paused_one_shot_keeps_due_occurrence_across_reopen_and_resume).
OneShotsAreKept ==
  [][OneShot /\ automation = "paused" => \A d \in Deadlines :
       occurrence'[d].execution = "filtered" => occurrence[d].execution = "filtered"
    ]_automationVars
=============================================================================
