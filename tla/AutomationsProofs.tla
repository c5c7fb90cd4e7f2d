-------------------------- MODULE AutomationsProofs --------------------------
(***************************************************************************)
(* Proofs about Automations, for any triggers, events, deliveries, budgets *)
(* and outages.                                                            *)
(***************************************************************************)
EXTENDS Automations, TLAPS

OccurrenceRow == [receipt: CallbackOutcomes \cup {"processing", "skipped"},
        execution: {"none", "running", "filtered", "failed", "logged"},
        day: Nat, analyses: Nat]

Task == [pc: {"idle", "polls", "prepares", "reserves", "analyzes",
              "records", "settles", "answers", "expires", "expired"},
         on: Occurrences \cup {NoDeadline}, at: 0..MaxClock, outcome: CallbackOutcomes]

Types ==
  /\ trigger \in Triggers
  /\ automation \in AutomationStates
  /\ schedule \in [status: (AutomationStates \ {"triggered"}) \cup {"completed"}, due: Nat]
  /\ occurrence \in [Occurrences -> OccurrenceRow]
  /\ handler \in [Handlers -> Task]
  /\ recovery \subseteq Deadlines
  /\ change \in {"none", "active", "paused", "archived"}
  /\ held \in BOOLEAN
  /\ clock \in 0..MaxClock

\* A callback at work has its occurrence.
Busy == \A h \in Handlers : AtPc(h, "idle") \/ AtPc(h, "polls") \/ handler[h].on \in Occurrences

\* Only what is reserved has been analyzed.
Charged == \A o \in Occurrences : /\ occurrence[o].analyses <= 1
                                  /\ ~Reserved(o) => occurrence[o].analyses = 0

\* What the user has paused or archived is neither active nor at work.
Quiet == held => automation \notin {"active", "triggered"}

AutoInv == Types /\ Busy /\ Charged /\ Quiet

LEMMA DayPositive == ASSUME NEW t \in Nat PROVE Day(t) \in Nat \ {0}
<1>1. DayLength \in Nat \ {0}
  BY AutomationAssumption
<1>2. t \div DayLength \in Nat
  BY <1>1
<1> QED BY <1>2 DEF Day

-----------------------------------------------------------------------------
(* The initial states *)

LEMMA AutoInit == AutomationInit => AutoInv
<1> SUFFICES ASSUME AutomationInit PROVE AutoInv
    OBVIOUS
<1> USE AutomationAssumption DEF AutomationInit
<1>1. Types
  <2>1. schedule \in [status: {"active"}, due: Nat]
    BY DEF NoDeadline
  <2>2. schedule \in [status: (AutomationStates \ {"triggered"}) \cup {"completed"}, due: Nat]
    BY <2>1 DEF AutomationStates
  <2>3. occurrence \in [Occurrences -> OccurrenceRow]
    BY DEF Unseen, OccurrenceRow, CallbackOutcomes
  <2>4. handler \in [Handlers -> Task]
    BY DEF Resting, Task, CallbackOutcomes
  <2>5. clock \in 0..MaxClock
    OBVIOUS
  <2> QED BY <2>2, <2>3, <2>4, <2>5 DEF Types, AutomationStates
<1>2. Busy
  BY DEF Busy, AtPc, Resting
<1>3. Charged
  BY DEF Charged, Unseen
<1>4. Quiet
  BY DEF Quiet
<1> QED BY <1>1, <1>2, <1>3, <1>4 DEF AutoInv

-----------------------------------------------------------------------------
(* Occurrences *)

\* A dispatched callback has its occurrence.
LEMMA DispatchKeeps ==
  ASSUME Types, Busy, NEW h \in Handlers, NEW o \in Occurrences, NEW at \in 0..MaxClock,
         Dispatches(h, o, at)
  PROVE  handler' \in [Handlers -> Task] /\ Busy'
<1> DEFINE task == [Resting EXCEPT !.pc = "prepares", !.on = o, !.at = at]
<1>1. task \in Task /\ task.on = o
  BY DEF Resting, Task, CallbackOutcomes
<1>2. handler \in [Handlers -> Task] /\ handler' = [handler EXCEPT ![h] = task]
  BY DEF Types, Dispatches
<1> HIDE DEF task
<1> QED BY <1>1, <1>2 DEF Busy, AtPc

LEMMA PollStepKeeps == ASSUME AutoInv, PollStep PROVE AutoInv'
<1> USE DEF AutoInv
<1>1. Types /\ Busy /\ Charged /\ Quiet
  OBVIOUS
<1>2. Poller \in Handlers
  BY DEF Handlers
<1>3. handler[Poller] \in Task
  BY <1>1, <1>2 DEF Types
<1>4. CASE Poll
  BY <1>1, <1>2, <1>3, <1>4
     DEF Poll, Types, Busy, Charged, Quiet, Reserved, AtPc, rows, Resting, Task, Incomplete,
         CallbackOutcomes
<1>5. CASE RecoverCallback
  <2>1. PICK d \in recovery : recovery' = recovery \ {d} /\ Dispatches(Poller, d, handler[Poller].at)
    BY <1>5 DEF RecoverCallback
  <2>2. handler' \in [Handlers -> Task] /\ Busy'
    <3>1. handler[Poller].at \in 0..MaxClock /\ d \in Occurrences
      BY <1>1, <1>3 DEF Types, Task, Occurrences
    <3> QED BY <1>1, <1>2, <2>1, <3>1, DispatchKeeps
  <2> QED BY <1>1, <1>5, <2>1, <2>2
         DEF RecoverCallback, Types, Charged, Quiet, Reserved, rows
<1>6. CASE ClaimDue
  <2> DEFINE d == schedule.due
             t == handler[Poller].at
  <2>1. d \in Deadlines /\ t \in Nat
    BY <1>1, <1>3, <1>6, AutomationAssumption
       DEF ClaimDue, DueAt, Types, Task, Deadlines, NoDeadline
  <2>2. NextDue(t) \in Nat
    BY <1>1, <2>1 DEF NextDue, Types, NoDeadline
  <2>3. schedule' \in [status: (AutomationStates \ {"triggered"}) \cup {"completed"}, due: Nat]
    BY <1>1, <1>6, <2>2 DEF ClaimDue, Types
  <2>4. /\ occurrence' \in [Occurrences -> OccurrenceRow]
        /\ Charged'
    BY <1>1, <1>6, <2>1 DEF ClaimDue, Types, Charged, Reserved, OccurrenceRow, Occurrences, CallbackOutcomes
  <2>5. handler' \in [Handlers -> Task] /\ Busy'
    <3>1. t \in 0..MaxClock /\ d \in Occurrences
      BY <1>3, <2>1 DEF Task, Occurrences
    <3>2. CASE UNCHANGED handler
      BY <1>1, <3>2 DEF Types, Busy, AtPc
    <3>3. CASE Dispatches(Poller, d, t)
      BY <1>1, <1>2, <3>1, <3>3, DispatchKeeps
    <3> QED BY <1>6, <3>2, <3>3 DEF ClaimDue
  <2> QED BY <1>1, <1>6, <2>3, <2>4, <2>5 DEF ClaimDue, Types, Quiet
<1>7. CASE PollEnds
  BY <1>1, <1>2, <1>3, <1>7
     DEF PollEnds, Goes, Types, Busy, Charged, Quiet, Reserved, AtPc, rows, Task
<1> QED BY <1>4, <1>5, <1>6, <1>7 DEF PollStep

LEMMA DeliverKeeps ==
  ASSUME AutoInv, NEW h \in Deliveries, NEW e \in Events, Deliver(h, e) PROVE AutoInv'
<1>1. Types /\ Busy /\ Charged /\ Quiet
  BY DEF AutoInv
<1>2. h \in Handlers /\ e \in Occurrences
  BY DEF Handlers, Occurrences
<1>3. handler[h] \in Task /\ clock \in 0..MaxClock
  BY <1>1, <1>2 DEF Types
<1>4. occurrence' \in [Occurrences -> OccurrenceRow] /\ Charged'
  BY <1>1, <1>2 DEF Deliver, Types, Charged, Reserved, OccurrenceRow, CallbackOutcomes
<1>5. handler' \in [Handlers -> Task] /\ Busy'
  BY <1>1, <1>2, <1>3, DispatchKeeps DEF Deliver
<1> QED BY <1>1, <1>4, <1>5 DEF Deliver, Types, Quiet, AutoInv

-----------------------------------------------------------------------------
(* Callbacks *)

\* A callback that goes on, comes back or has an outcome keeps its task well formed.
LEMMA TaskMoves ==
  ASSUME Types, Busy, NEW h \in Handlers, ~AtPc(h, "idle"), ~AtPc(h, "polls"),
         \/ \E pc \in {"reserves", "analyzes", "records", "settles", "answers", "expires", "expired"},
               outcome \in CallbackOutcomes :
              handler' = [handler EXCEPT ![h].pc = pc, ![h].outcome = outcome]
         \/ \E pc \in {"reserves", "analyzes", "settles", "answers", "expires", "expired"} : Goes(h, pc)
         \/ GoesOn(h)
         \/ handler' = [handler EXCEPT ![h] = Resting]
  PROVE  handler' \in [Handlers -> Task] /\ Busy'
<1>1. handler \in [Handlers -> Task] /\ handler[h].on \in Occurrences /\ handler[h] \in Task
  BY DEF Types, Busy
<1>2. ASSUME NEW task \in Task, task.pc \in {"idle", "polls"} \/ task.on \in Occurrences,
             handler' = [handler EXCEPT ![h] = task]
      PROVE  handler' \in [Handlers -> Task] /\ Busy'
  BY <1>1, <1>2 DEF Busy, AtPc
<1>3. CASE \E pc \in {"reserves", "analyzes", "records", "settles", "answers", "expires", "expired"},
              outcome \in CallbackOutcomes :
             handler' = [handler EXCEPT ![h].pc = pc, ![h].outcome = outcome]
  <2>1. PICK pc \in {"reserves", "analyzes", "records", "settles", "answers", "expires", "expired"},
             outcome \in CallbackOutcomes :
               handler' = [handler EXCEPT ![h].pc = pc, ![h].outcome = outcome]
    BY <1>3
  <2> DEFINE task == [handler[h] EXCEPT !.pc = pc, !.outcome = outcome]
  <2>2. task \in Task /\ task.on = handler[h].on
    BY <1>1 DEF Task
  <2>3. handler' = [handler EXCEPT ![h] = task]
    BY <1>1, <2>1 DEF Task
  <2> HIDE DEF task
  <2> QED BY <1>1, <1>2, <2>2, <2>3
<1>4. CASE \E pc \in {"reserves", "analyzes", "settles", "answers", "expires", "expired"} : Goes(h, pc)
  <2>1. PICK pc \in {"reserves", "analyzes", "settles", "answers", "expires", "expired"} : Goes(h, pc)
    BY <1>4
  <2> DEFINE task == [handler[h] EXCEPT !.pc = pc]
  <2>2. task \in Task /\ task.on = handler[h].on
    BY <1>1 DEF Task
  <2>3. handler' = [handler EXCEPT ![h] = task]
    BY <1>1, <2>1 DEF Task, Goes
  <2> HIDE DEF task
  <2> QED BY <1>1, <1>2, <2>2, <2>3
<1>5. Resting \in Task /\ Resting.pc = "idle"
  BY AutomationAssumption DEF Resting, Task, CallbackOutcomes
<1>6. CASE GoesOn(h)
  <2>1. Returned(h) \in Task /\ Returned(h).pc \in {"idle", "polls"}
    BY <1>1, <1>5 DEF Returned, Resting, Task
  <2> QED BY <1>2, <1>6, <2>1 DEF GoesOn
<1>7. CASE handler' = [handler EXCEPT ![h] = Resting]
  BY <1>2, <1>5, <1>7
<1> QED BY <1>3, <1>4, <1>6, <1>7

\* A row that keeps its reservation and its analyses may change otherwise.
LEMMA RowsMove ==
  ASSUME Types, Charged, NEW o \in Occurrences, NEW new \in OccurrenceRow,
         new.day = occurrence[o].day, new.analyses = occurrence[o].analyses,
         occurrence' = [occurrence EXCEPT ![o] = new]
  PROVE  occurrence' \in [Occurrences -> OccurrenceRow] /\ Charged'
BY DEF Types, Charged, Reserved, OccurrenceRow

LEMMA CallbackKeeps == ASSUME AutoInv, NEW h \in Handlers, Callback(h) PROVE AutoInv'
<1>1. Types /\ Busy /\ Charged /\ Quiet
  BY DEF AutoInv
<1>2. handler[h] \in Task /\ occurrence \in [Occurrences -> OccurrenceRow]
  BY <1>1 DEF Types
<1>3. ASSUME ~AtPc(h, "idle"), ~AtPc(h, "polls")
      PROVE  handler[h].on \in Occurrences /\ RowOf(h) \in OccurrenceRow
  BY <1>1, <1>2, <1>3 DEF Busy, RowOf
<1>4. ASSUME NEW execution \in {"running", "filtered", "failed", "logged"},
             ~AtPc(h, "idle"), ~AtPc(h, "polls"),
             Writes(h, [RowOf(h) EXCEPT !.execution = execution])
      PROVE  occurrence' \in [Occurrences -> OccurrenceRow] /\ Charged'
  <2> DEFINE new == [RowOf(h) EXCEPT !.execution = execution]
  <2>1. new \in OccurrenceRow /\ new.day = RowOf(h).day /\ new.analyses = RowOf(h).analyses
    BY <1>3, <1>4 DEF OccurrenceRow
  <2> QED BY <1>1, <1>3, <1>4, <2>1, RowsMove DEF Writes, RowOf
<1>5. ASSUME UNCHANGED occurrence PROVE occurrence' \in [Occurrences -> OccurrenceRow] /\ Charged'
  BY <1>1, <1>5 DEF Types, Charged, Reserved
<1>6. CASE Prepare(h)
  <2>1. ~AtPc(h, "idle") /\ ~AtPc(h, "polls")
    BY <1>6 DEF Prepare, AtPc
  <2>2. handler' \in [Handlers -> Task] /\ Busy'
    BY <1>1, <1>6, <2>1, TaskMoves DEF Prepare, AnswersWith, CallbackOutcomes
  <2>3. occurrence' \in [Occurrences -> OccurrenceRow] /\ Charged'
    BY <1>4, <1>5, <1>6, <2>1 DEF Prepare, Filters, Records
  <2> QED BY <1>1, <1>6, <2>2, <2>3 DEF Prepare, Types, Quiet, AutoInv
<1>7. CASE Reserve(h)
  <2>1. ~AtPc(h, "idle") /\ ~AtPc(h, "polls")
    BY <1>7 DEF Reserve, AtPc
  <2>2. handler' \in [Handlers -> Task] /\ Busy'
    BY <1>1, <1>7, <2>1, TaskMoves DEF Reserve, Admits, AnswersWith, CallbackOutcomes
  <2>3. /\ occurrence' \in [Occurrences -> OccurrenceRow] /\ Charged'
        /\ automation' \in AutomationStates /\ Quiet'
    <3>1. CASE ~Reserved(handler[h].on) /\ automation = "active" /\ Admits(h)
      <4> DEFINE o == handler[h].on
                 day == Day(handler[h].at)
      <4>1. o \in Occurrences /\ RowOf(h) \in OccurrenceRow /\ RowOf(h) = occurrence[o]
        BY <1>3, <2>1 DEF RowOf
      <4>2. day \in Nat \ {0}
        BY <1>2, DayPositive DEF Task
      <4>3. occurrence[o].analyses = 0
        BY <1>1, <3>1, <4>1 DEF Charged
      <4> HIDE DEF day
      <4> DEFINE new == [RowOf(h) EXCEPT !.day = day, !.analyses = @ + 1]
      <4>4. occurrence' = [occurrence EXCEPT ![o] = new]
        BY <3>1 DEF Admits, Writes, day
      <4>5. new \in OccurrenceRow /\ new.day = day /\ new.analyses = 1
        <5>1. RowOf(h).analyses + 1 = 1
          BY <4>1, <4>3
        <5>2. new = [RowOf(h) EXCEPT !.day = day, !.analyses = 1]
          BY <4>1, <5>1 DEF OccurrenceRow
        <5> HIDE DEF new
        <5> QED BY <4>1, <4>2, <5>2 DEF OccurrenceRow
      <4> HIDE DEF new
      <4>6. occurrence' \in [Occurrences -> OccurrenceRow]
        BY <1>2, <4>1, <4>4, <4>5
      <4>8. Charged'
        BY <1>1, <1>2, <4>1, <4>2, <4>4, <4>5 DEF Charged, Reserved
      <4>7. ~held /\ held' = held /\ automation' = "triggered"
        BY <1>1, <1>7, <3>1 DEF Quiet, Admits, Reserve, Types
      <4> QED BY <4>6, <4>7, <4>8 DEF Quiet, AutomationStates
    <3>2. CASE /\ UNCHANGED automation
               /\ UNCHANGED occurrence \/ Filters(h)
      BY <1>1, <1>4, <1>5, <1>7, <2>1, <3>2 DEF Reserve, Filters, Types, Quiet
    <3> QED BY <1>7, <3>1, <3>2 DEF Reserve
  <2> QED BY <1>1, <1>7, <2>2, <2>3 DEF Reserve, Types, AutoInv
<1>8. CASE Analyze(h)
  <2>1. ~AtPc(h, "idle") /\ ~AtPc(h, "polls")
    BY <1>8 DEF Analyze, AtPc
  <2>2. handler' \in [Handlers -> Task] /\ Busy'
    BY <1>1, <1>8, <2>1, TaskMoves DEF Analyze, CallbackOutcomes
  <2> QED BY <1>1, <1>5, <1>8, <2>2 DEF Analyze, rows, Types, Quiet, AutoInv
<1>9. CASE LoseAnalysis(h)
  <2>1. ~AtPc(h, "idle") /\ ~AtPc(h, "polls")
    BY <1>9 DEF LoseAnalysis, AtPc
  <2>2. handler' \in [Handlers -> Task] /\ Busy'
    BY <1>1, <1>9, <2>1, TaskMoves DEF LoseAnalysis
  <2> QED BY <1>1, <1>5, <1>9, <2>2 DEF LoseAnalysis, rows, Types, Quiet, AutoInv
<1>10. CASE RecordExecution(h)
  <2>1. ~AtPc(h, "idle") /\ ~AtPc(h, "polls")
    BY <1>10 DEF RecordExecution, AtPc
  <2>2. handler' \in [Handlers -> Task] /\ Busy'
    BY <1>1, <1>10, <2>1, TaskMoves DEF RecordExecution
  <2>3. occurrence' \in [Occurrences -> OccurrenceRow] /\ Charged'
    BY <1>4, <1>10, <2>1 DEF RecordExecution
  <2> QED BY <1>1, <1>10, <2>2, <2>3 DEF RecordExecution, Types, Quiet, AutoInv
<1>11. CASE Settle(h)
  <2>1. ~AtPc(h, "idle") /\ ~AtPc(h, "polls")
    BY <1>11 DEF Settle, AtPc
  <2>2. handler' \in [Handlers -> Task] /\ Busy'
    BY <1>1, <1>11, <2>1, TaskMoves DEF Settle
  <2>3. automation' \in AutomationStates /\ Quiet'
    BY <1>1, <1>11 DEF Settle, EndedBy, After, Types, Quiet, AutomationStates
  <2> QED BY <1>1, <1>5, <1>11, <2>2, <2>3 DEF Settle, Types, AutoInv
<1>12. CASE Answer(h)
  <2>1. ~AtPc(h, "idle") /\ ~AtPc(h, "polls")
    BY <1>12 DEF Answer, AtPc
  <2>2. handler' \in [Handlers -> Task] /\ Busy'
    BY <1>1, <1>12, <2>1, TaskMoves DEF Answer
  <2>3. occurrence' \in [Occurrences -> OccurrenceRow] /\ Charged'
    <3> DEFINE new == [RowOf(h) EXCEPT !.receipt = handler[h].outcome]
    <3>1. new \in OccurrenceRow /\ new.day = RowOf(h).day /\ new.analyses = RowOf(h).analyses
      BY <1>2, <1>3, <2>1 DEF OccurrenceRow, Task
    <3> QED BY <1>1, <1>3, <1>12, <2>1, <3>1, RowsMove DEF Answer, Writes, RowOf
  <2>4. schedule' \in [status: (AutomationStates \ {"triggered"}) \cup {"completed"}, due: Nat]
    BY <1>1, <1>12 DEF Answer, AnsweredBy, ScheduleAfter, Types, AutomationStates
  <2> QED BY <1>1, <1>12, <2>2, <2>3, <2>4 DEF Answer, Types, Quiet, AutoInv
<1>13. CASE ExpireLooks(h)
  <2>1. ~AtPc(h, "idle") /\ ~AtPc(h, "polls")
    BY <1>13 DEF ExpireLooks, AtPc
  <2>2. handler' \in [Handlers -> Task] /\ Busy'
    BY <1>1, <1>13, <2>1, TaskMoves DEF ExpireLooks
  <2> QED BY <1>1, <1>5, <1>13, <2>2 DEF ExpireLooks, rows, Types, Quiet, AutoInv
<1>14. CASE ExpireSets(h)
  <2>1. ~AtPc(h, "idle") /\ ~AtPc(h, "polls")
    BY <1>14 DEF ExpireSets, AtPc
  <2>2. handler' \in [Handlers -> Task] /\ Busy'
    BY <1>1, <1>14, <2>1, TaskMoves DEF ExpireSets
  <2>3. schedule' \in [status: (AutomationStates \ {"triggered"}) \cup {"completed"}, due: Nat]
    BY <1>1, <1>14 DEF ExpireSets, SetState, Moved, Types, AutomationStates
  <2> QED BY <1>1, <1>5, <1>14, <2>2, <2>3
     DEF ExpireSets, SetState, Types, Quiet, AutomationStates, AutoInv
<1> QED BY <1>6, <1>7, <1>8, <1>9, <1>10, <1>11, <1>12, <1>13, <1>14 DEF Callback

-----------------------------------------------------------------------------
(* The user, time and outages *)

LEMMA HostKeeps ==
  ASSUME AutoInv, UserChecks \/ UserSets \/ AutomationTick \/ Outage PROVE AutoInv'
<1>1. Types /\ Busy /\ Charged /\ Quiet
  BY DEF AutoInv
<1>2. CASE UserChecks
  <2>1. change' \in {"none", "active", "paused", "archived"}
    BY <1>1, <1>2 DEF UserChecks, Transitions, Types, AutomationStates
  <2> QED BY <1>1, <1>2, <2>1 DEF UserChecks, rows, Types, Busy, AtPc, Charged, Reserved, Quiet, AutoInv
<1>3. CASE UserSets
  <2>1. schedule' \in [status: (AutomationStates \ {"triggered"}) \cup {"completed"}, due: Nat]
    BY <1>1, <1>3 DEF UserSets, SetState, Moved, Types, AutomationStates
  <2> QED BY <1>1, <1>3, <2>1
     DEF UserSets, SetState, Types, Busy, AtPc, Charged, Reserved, Quiet, AutomationStates, AutoInv
<1>4. CASE AutomationTick
  <2>1. clock' \in 0..MaxClock
    BY <1>1, <1>4, AutomationAssumption DEF AutomationTick, Types
  <2> QED BY <1>1, <1>4, <2>1
     DEF AutomationTick, rows, Types, Busy, AtPc, Charged, Reserved, Quiet, AutoInv
<1>5. CASE Outage
  <2>1. handler' \in [Handlers -> Task] /\ Busy'
    BY <1>5, AutomationAssumption DEF Outage, Busy, AtPc, Resting, Task, CallbackOutcomes
  <2>2. schedule' \in [status: (AutomationStates \ {"triggered"}) \cup {"completed"}, due: Nat]
    BY <1>1, <1>5 DEF Outage, Types, AutomationStates
  <2> QED BY <1>1, <1>5, <2>1, <2>2 DEF Outage, Types, Charged, Reserved, Quiet, AutoInv
<1> QED BY <1>2, <1>3, <1>4, <1>5

LEMMA AutoStep == AutoInv /\ [AutomationNext]_automationVars => AutoInv'
<1>1. AutoInv /\ UNCHANGED automationVars => AutoInv'
  BY DEF AutoInv, automationVars, rows, Types, Busy, AtPc, Charged, Reserved, Quiet
<1> QED BY <1>1, PollStepKeeps, CallbackKeeps, DeliverKeeps, HostKeeps DEF AutomationNext

\* The inductive invariant: callbacks at work know their occurrence, what is analyzed is
\* reserved, and what the user holds is neither active nor triggered.
THEOREM AutoAlways == AutomationSpec => []AutoInv
BY AutoInit, AutoStep, PTL DEF AutomationSpec

-----------------------------------------------------------------------------
(* What follows *)

\* The rows, callbacks and calls have their types.
THEOREM AutomationTypes == AutomationSpec => []AutomationTypeOK
<1>1. AutoInv => AutomationTypeOK
  BY DEF AutoInv, Types, AutomationTypeOK, Task, OccurrenceRow
<1> QED BY <1>1, AutoAlways, PTL

\* An occurrence is analyzed at most once, however often it is delivered, recovered
\* or cut off.
THEOREM OneAnalysis == AutomationSpec => []AnalyzedOnce
<1>1. AutoInv => AnalyzedOnce
  BY DEF AutoInv, Charged, AnalyzedOnce
<1> QED BY <1>1, AutoAlways, PTL

\* No analysis begins from the user's pause to the user's resumption, and only that
\* activates a schedule that was paused or archived.
THEOREM PausesKept == AutomationSpec => PausesAreKept
<1> DEFINE Analyses == \A o \in Occurrences : occurrence'[o].analyses = occurrence[o].analyses
           Holds    == held => Analyses
           Stays    == schedule.status \in {"paused", "archived"} /\ schedule'.status = "active" => ~held'
<1>1. AutoInv /\ [AutomationNext]_automationVars => Holds
  <2> SUFFICES ASSUME AutoInv, [AutomationNext]_automationVars, held PROVE Analyses
      OBVIOUS
  <2>1. automation # "active" /\ occurrence \in [Occurrences -> OccurrenceRow]
    BY DEF AutoInv, Quiet, Types
  <2>2. CASE UNCHANGED occurrence
    BY <2>2
  <2>3. CASE ClaimDue \/ (\E h \in Deliveries, e \in Events : Deliver(h, e))
    <3>1. ASSUME NEW o, NEW receipt, occurrence' = [occurrence EXCEPT ![o].receipt = receipt]
          PROVE  Analyses
      <4> SUFFICES ASSUME NEW p \in Occurrences
                   PROVE  occurrence'[p].analyses = occurrence[p].analyses
          OBVIOUS
      <4>1. occurrence[p] \in OccurrenceRow
        BY <2>1
      <4> QED BY <2>1, <3>1, <4>1 DEF OccurrenceRow
    <3> QED BY <2>3, <3>1 DEF ClaimDue, Deliver
  <2>4. ASSUME NEW h \in Handlers, Callback(h) PROVE Analyses
    <3>1. ASSUME NEW new, Writes(h, new), new.analyses = RowOf(h).analyses PROVE Analyses
      BY <2>1, <3>1 DEF Writes, RowOf
    <3>2. ASSUME handler[h].on \in Occurrences,
                 \E execution, receipt :
                   \/ Writes(h, [RowOf(h) EXCEPT !.execution = execution])
                   \/ Writes(h, [RowOf(h) EXCEPT !.receipt = receipt])
          PROVE  Analyses
      <4>1. RowOf(h) \in OccurrenceRow
        BY <2>1, <3>2 DEF RowOf
      <4>2. ASSUME NEW e PROVE /\ [RowOf(h) EXCEPT !.execution = e].analyses = RowOf(h).analyses
                               /\ [RowOf(h) EXCEPT !.receipt = e].analyses = RowOf(h).analyses
        BY <4>1 DEF OccurrenceRow
      <4> QED BY <3>1, <3>2, <4>2
    <3>3. ~AtPc(h, "idle") /\ ~AtPc(h, "polls") => handler[h].on \in Occurrences
      BY DEF AutoInv, Busy
    <3>4. CASE Prepare(h)
      BY <2>2, <3>2, <3>3, <3>4 DEF Prepare, Filters, Records, AtPc
    <3>5. CASE Reserve(h)
      BY <2>1, <2>2, <3>2, <3>3, <3>5 DEF Reserve, Filters, AtPc
    <3>6. CASE RecordExecution(h)
      BY <3>2, <3>3, <3>6 DEF RecordExecution, AtPc
    <3>7. CASE Answer(h)
      BY <3>2, <3>3, <3>7 DEF Answer, AtPc
    <3>8. CASE Analyze(h) \/ LoseAnalysis(h) \/ Settle(h) \/ ExpireLooks(h) \/ ExpireSets(h)
      BY <2>2, <3>8 DEF Analyze, LoseAnalysis, Settle, ExpireLooks, ExpireSets, rows
    <3> QED BY <2>4, <3>4, <3>5, <3>6, <3>7, <3>8 DEF Callback
  <2>5. CASE Poll \/ RecoverCallback \/ PollEnds
    BY <2>2, <2>5 DEF Poll, RecoverCallback, PollEnds, rows
  <2>6. CASE UserChecks \/ UserSets \/ AutomationTick \/ Outage \/ UNCHANGED automationVars
    BY <2>2, <2>6 DEF UserChecks, UserSets, AutomationTick, Outage, automationVars, rows
  <2> QED BY <2>3, <2>4, <2>5, <2>6 DEF AutomationNext, PollStep
<1>2. AutoInv /\ [AutomationNext]_automationVars => Stays
  <2> SUFFICES ASSUME AutoInv, [AutomationNext]_automationVars,
                      schedule.status \in {"paused", "archived"}, schedule'.status = "active"
               PROVE  ~held'
      OBVIOUS
  <2>1. schedule \in [status: (AutomationStates \ {"triggered"}) \cup {"completed"}, due: Nat]
    BY DEF AutoInv, Types
  <2>2. UserSets
    BY <2>1
       DEF AutomationNext, PollStep, Poll, RecoverCallback, ClaimDue, DueAt, PollEnds, Deliver,
           Callback, Prepare, Reserve, Analyze, LoseAnalysis, RecordExecution, Settle, Answer,
           AnsweredBy, ExpireLooks, ExpireSets, SetState, Moved, UserChecks, AutomationTick,
           Outage, automationVars, rows
  <2> QED BY <2>1, <2>2 DEF UserSets, SetState, Moved
<1>3. AutomationSpec => [][Holds]_automationVars /\ [][Stays]_automationVars
  BY <1>1, <1>2, AutoAlways, PTL DEF AutomationSpec
<1> QED BY <1>3 DEF PausesAreKept, PausesHold, PausedSchedulesStay

-----------------------------------------------------------------------------
(* Who works on an occurrence *)

\* The callback has not answered yet.
AtWork(t) == t.pc \in {"prepares", "reserves", "analyzes", "records", "settles", "answers"}

\* What a callback works on is claimed, is of its kind, and is running from the
\* preparation to the end of the analysis.
Claimed(h) ==
  AtWork(handler[h]) =>
    /\ handler[h].on \in IF h = Poller THEN Deadlines ELSE Events
    /\ RowOf(h).receipt = "processing"
    /\ handler[h].pc \in {"reserves", "analyzes", "records"} => RowOf(h).execution = "running"

\* No two callbacks work on one occurrence, none on what the poll has yet to take up.
Alone ==
  /\ \A g, h \in Handlers :
       AtWork(handler[g]) /\ AtWork(handler[h]) /\ handler[g].on = handler[h].on => g = h
  /\ AtWork(handler[Poller]) => handler[Poller].on \notin recovery
  /\ \A d \in recovery : occurrence[d].receipt = "processing"

\* The deadlines ahead have no receipt.
Ahead ==
  \A d \in Deadlines :
    schedule.due # NoDeadline /\ schedule.due <= d => occurrence[d].receipt = "none"

OneCallback == (\A h \in Handlers : Claimed(h)) /\ Alone /\ Ahead

\* What is recorded of an occurrence stays.
OutcomesKept ==
  \A o \in Occurrences :
    /\ occurrence[o].execution \in {"filtered", "failed", "logged"}
         => occurrence'[o].execution = occurrence[o].execution
    /\ occurrence[o].receipt \notin {"none", "processing"}
         => occurrence'[o].receipt = occurrence[o].receipt

\* A deadline is not an event.
LEMMA KindsDiffer ==
  /\ Deadlines \subseteq Occurrences /\ Events \subseteq Occurrences
  /\ Deadlines \cap Events = {}
  /\ Poller \in Handlers
BY AutomationAssumption DEF Deadlines, Occurrences, Handlers

\* A callback at work writes its own row and goes on with it, or leaves it.
LEMMA OneWorks ==
  ASSUME Types, OneCallback, NEW h \in Handlers, AtWork(handler[h]),
         \A g \in Handlers \ {h} : handler'[g] = handler[g],
         \A o \in Occurrences \ {handler[h].on} : occurrence'[o] = occurrence[o],
         recovery' \in {recovery, {}}, schedule'.due = schedule.due,
         RowOf(h).execution \in {"filtered", "failed", "logged"}
           => occurrence'[handler[h].on].execution = RowOf(h).execution,
         AtWork(handler'[h]) =>
           /\ handler'[h].on = handler[h].on
           /\ occurrence'[handler[h].on].receipt = "processing"
           /\ handler'[h].pc \in {"reserves", "analyzes", "records"}
                => occurrence'[handler[h].on].execution = "running"
  PROVE  OneCallback' /\ OutcomesKept
<1> DEFINE o == handler[h].on
<1>1. /\ o \in IF h = Poller THEN Deadlines ELSE Events
      /\ occurrence[o].receipt = "processing"
      /\ RowOf(h) = occurrence[o]
  BY DEF OneCallback, Claimed, RowOf
<1>2. o \in Occurrences
  BY <1>1, KindsDiffer
<1>3. OutcomesKept
  BY <1>1, <1>2 DEF OutcomesKept
<1>4. \A g \in Handlers \ {h} : AtWork(handler[g]) => /\ handler[g].on # o
                                                      /\ handler[g].on \in Occurrences
                                                       /\ Claimed(g)
  BY KindsDiffer DEF OneCallback, Alone, Claimed
<1>5. \A g \in Handlers \ {h} : Claimed(g)'
  BY <1>4 DEF Claimed, RowOf
<1>6. Claimed(h)'
  BY <1>1 DEF Claimed, RowOf
<1>7. o \notin recovery
  <2>1. CASE h = Poller
    BY <2>1 DEF OneCallback, Alone
  <2>2. CASE h # Poller
    BY <1>1, <2>2, KindsDiffer DEF Types
  <2> QED BY <2>1, <2>2
<1>8. Alone'
  <2>1. \A f, g \in Handlers :
          AtWork(handler'[f]) /\ AtWork(handler'[g]) /\ handler'[f].on = handler'[g].on => f = g
    BY <1>4 DEF OneCallback, Alone
  <2>2. AtWork(handler'[Poller]) => handler'[Poller].on \notin recovery'
    BY <1>7, KindsDiffer DEF OneCallback, Alone
  <2>3. \A d \in recovery' : occurrence'[d].receipt = "processing"
    BY <1>7, KindsDiffer DEF OneCallback, Alone, Types
  <2> QED BY <2>1, <2>2, <2>3 DEF Alone
<1>9. Ahead'
  <2>1. \A d \in Deadlines : schedule.due # NoDeadline /\ schedule.due <= d => d # o
    BY <1>1 DEF OneCallback, Ahead
  <2> QED BY <2>1, KindsDiffer DEF OneCallback, Ahead
<1> QED BY <1>3, <1>5, <1>6, <1>8, <1>9 DEF OneCallback

\* One that has answered writes nothing more.
LEMMA OneRests ==
  ASSUME Types, OneCallback, UNCHANGED occurrence,
         \A g \in Handlers : ~AtWork(handler'[g]) \/ handler'[g] = handler[g],
         recovery' \in {recovery, {}}, schedule'.due = schedule.due
  PROVE  OneCallback' /\ OutcomesKept
<1>1. OutcomesKept
  BY DEF OutcomesKept
<1>2. \A h \in Handlers : Claimed(h)'
  BY DEF OneCallback, Claimed, RowOf
<1>3. Alone'
  BY KindsDiffer DEF OneCallback, Alone
<1>4. Ahead'
  BY DEF OneCallback, Ahead
<1> QED BY <1>1, <1>2, <1>3, <1>4 DEF OneCallback

\* A callback begins with an occurrence of its own.
LEMMA OneBegins ==
  ASSUME Types, OneCallback, NEW h \in Handlers, ~AtWork(handler[h]),
         NEW o \in IF h = Poller THEN Deadlines ELSE Events, NEW at,
         Dispatches(h, o, at), recovery' \subseteq recovery, o \notin recovery',
         h # Poller => occurrence[o].receipt = "none",
         h # Poller => recovery' = recovery,
         occurrence[o].receipt \in {"none", "processing"},
         occurrence' = [occurrence EXCEPT ![o].receipt = "processing"], Ahead'
  PROVE  OneCallback' /\ OutcomesKept
<1>1. o \in Occurrences /\ occurrence \in [Occurrences -> OccurrenceRow] /\ handler \in [Handlers -> Task]
  BY KindsDiffer DEF Types
<1>2. /\ handler'[h].pc = "prepares" /\ handler'[h].on = o
      /\ \A g \in Handlers \ {h} : handler'[g] = handler[g]
  BY <1>1 DEF Dispatches, Resting
<1>3. /\ occurrence'[o].receipt = "processing" /\ occurrence'[o].execution = occurrence[o].execution
      /\ \A p \in Occurrences \ {o} : occurrence'[p] = occurrence[p]
  BY <1>1 DEF OccurrenceRow
<1>4. OutcomesKept
  BY <1>1, <1>3 DEF OutcomesKept
<1>5. \A g \in Handlers \ {h} : AtWork(handler[g]) => /\ handler[g].on # o
                                                      /\ handler[g].on \in Occurrences
                                                       /\ Claimed(g)
  <2> SUFFICES ASSUME NEW g \in Handlers \ {h}, AtWork(handler[g])
               PROVE  handler[g].on # o /\ handler[g].on \in Occurrences /\ Claimed(g)
    OBVIOUS
  <2>1. /\ Claimed(g) /\ handler[g].on \in IF g = Poller THEN Deadlines ELSE Events
        /\ occurrence[handler[g].on].receipt = "processing"
    BY DEF OneCallback, Claimed, RowOf
  <2>2. CASE h = Poller
    BY <2>1, <2>2, KindsDiffer
  <2>3. CASE h # Poller
    BY <2>1, <2>3, KindsDiffer
  <2> QED BY <2>2, <2>3
<1>6. \A g \in Handlers : Claimed(g)'
  <2>1. \A g \in Handlers \ {h} : Claimed(g)'
    BY <1>2, <1>3, <1>5 DEF Claimed, RowOf
  <2>2. Claimed(h)'
    BY <1>2, <1>3 DEF Claimed, RowOf
  <2> QED BY <2>1, <2>2
<1>7. Alone'
  <2>1. \A f, g \in Handlers :
          AtWork(handler'[f]) /\ AtWork(handler'[g]) /\ handler'[f].on = handler'[g].on => f = g
    BY <1>2, <1>5 DEF OneCallback, Alone
  <2>2. AtWork(handler'[Poller]) => handler'[Poller].on \notin recovery'
    BY <1>2, KindsDiffer DEF OneCallback, Alone
  <2>3. \A d \in recovery' : occurrence'[d].receipt = "processing"
    BY <1>3, KindsDiffer DEF OneCallback, Alone, Types
  <2> QED BY <2>1, <2>2, <2>3 DEF Alone
<1> QED BY <1>4, <1>6, <1>7 DEF OneCallback

LEMMA InitOne == AutomationInit => OneCallback
<1> SUFFICES ASSUME AutomationInit PROVE OneCallback
    OBVIOUS
<1>1. \A h \in Handlers : ~AtWork(handler[h])
  BY DEF AutomationInit, AtWork, Resting
<1>2. \A d \in Deadlines : occurrence[d].receipt = "none"
  BY KindsDiffer DEF AutomationInit, Unseen
<1>3. recovery = {}
  BY DEF AutomationInit
<1> QED BY <1>1, <1>2, <1>3, KindsDiffer DEF OneCallback, Claimed, Alone, Ahead

\* A poll takes up what is incomplete, then claims what is due.
LEMMA PollOnce ==
  ASSUME AutoInv, OneCallback, PollStep PROVE OneCallback' /\ OutcomesKept
<1>1. Types
  BY DEF AutoInv
<1>2. /\ Poller \in Handlers /\ handler[Poller] \in Task
      /\ handler \in [Handlers -> Task] /\ occurrence \in [Occurrences -> OccurrenceRow]
  BY <1>1, KindsDiffer DEF Types
<1>3. AtPc(Poller, "idle") \/ AtPc(Poller, "polls")
  BY DEF PollStep, Poll, RecoverCallback, ClaimDue, PollEnds
<1>4. ~AtWork(handler[Poller])
  BY <1>3 DEF AtPc, AtWork
<1>5. CASE Poll
  <2>1. handler'[Poller].pc = "polls" /\ \A h \in Handlers \ {Poller} : handler'[h] = handler[h]
    BY <1>2, <1>5 DEF Poll, Resting
  <2>2. UNCHANGED occurrence /\ UNCHANGED schedule /\ recovery' = Incomplete
    BY <1>5 DEF Poll, rows
  <2>3. ~AtWork(handler'[Poller])
    BY <2>1 DEF AtWork
  <2>4. \A h \in Handlers : Claimed(h)'
    BY <2>1, <2>2, <2>3 DEF OneCallback, Claimed, RowOf
  <2>5. Alone'
    BY <2>1, <2>2, <2>3 DEF OneCallback, Alone, Incomplete
  <2>6. Ahead'
    BY <2>2 DEF OneCallback, Ahead
  <2> QED BY <2>2, <2>4, <2>5, <2>6 DEF OneCallback, OutcomesKept
<1>6. CASE RecoverCallback
  <2>1. PICK d \in recovery : recovery' = recovery \ {d} /\ Dispatches(Poller, d, handler[Poller].at)
    BY <1>6 DEF RecoverCallback
  <2>2. d \in Deadlines /\ occurrence[d].receipt = "processing"
    BY <1>1 DEF Types, OneCallback, Alone
  <2>3. UNCHANGED occurrence /\ UNCHANGED schedule
    BY <1>6 DEF RecoverCallback, rows
  <2>4. occurrence' = [occurrence EXCEPT ![d].receipt = "processing"]
    <3>1. occurrence[d] \in OccurrenceRow
      BY <1>2, <2>2, KindsDiffer
    <3>2. [occurrence[d] EXCEPT !.receipt = "processing"] = occurrence[d]
      BY <2>2, <3>1 DEF OccurrenceRow
    <3> QED BY <1>2, <2>3, <3>2
  <2>5. Ahead'
    BY <2>3 DEF OneCallback, Ahead
  <2> QED BY <1>1, <1>2, <1>4, <2>1, <2>2, <2>4, <2>5, OneBegins
<1>7. CASE ClaimDue
  <2> DEFINE d == schedule.due
             t == handler[Poller].at
  <2>1. /\ d \in Deadlines /\ t \in Nat /\ d <= t /\ d # NoDeadline
        /\ UNCHANGED recovery /\ recovery = {}
    BY <1>1, <1>2, <1>7, AutomationAssumption
       DEF ClaimDue, DueAt, Types, Task, Deadlines, NoDeadline
  <2>2. occurrence[d].receipt = "none"
    BY <2>1 DEF OneCallback, Ahead, Deadlines
  <2>3. schedule'.due = NoDeadline \/ schedule'.due > d
    <3>1. schedule'.due = NextDue(t)
      BY <1>1, <1>7 DEF ClaimDue, Types
    <3>2. NextDue(t) = NoDeadline \/ NextDue(t) = d + 1 \/ NextDue(t) = t + 1
      BY DEF NextDue
    <3> QED BY <2>1, <3>1, <3>2 DEF Deadlines
  <2>4. schedule'.due \in Nat
    BY <1>7, PollStepKeeps DEF AutoInv, Types
  <2>5. \A e \in Deadlines : schedule'.due # NoDeadline /\ schedule'.due <= e
          => e # d /\ occurrence[e].receipt = "none"
    BY <2>1, <2>3, <2>4, AutomationAssumption DEF OneCallback, Ahead, Deadlines
  <2>6. PICK new \in {"skipped", "processing"} :
          /\ occurrence' = [occurrence EXCEPT ![d].receipt = new]
          /\ IF new = "skipped" THEN UNCHANGED handler ELSE Dispatches(Poller, d, t)
    BY <1>7 DEF ClaimDue
  <2>7. /\ occurrence'[d].receipt = new /\ occurrence'[d].execution = occurrence[d].execution
        /\ \A o \in Occurrences \ {d} : occurrence'[o] = occurrence[o]
    BY <1>2, <2>1, <2>6, KindsDiffer DEF OccurrenceRow
  <2>8. Ahead'
    BY <2>5, <2>7, KindsDiffer DEF Ahead
  <2>9. CASE new = "skipped"
    <3>1. UNCHANGED handler
      BY <2>6, <2>9
    <3>2. \A h \in Handlers : AtWork(handler[h]) => handler[h].on # d /\ handler[h].on \in Occurrences
      BY <2>2, KindsDiffer DEF OneCallback, Claimed, RowOf
    <3>3. \A h \in Handlers : Claimed(h)'
      BY <2>7, <3>1, <3>2 DEF OneCallback, Claimed, RowOf
    <3>4. Alone'
      BY <2>1, <3>1 DEF OneCallback, Alone
    <3>5. OutcomesKept
      BY <2>2, <2>7 DEF OutcomesKept
    <3> QED BY <2>8, <3>3, <3>4, <3>5 DEF OneCallback
  <2>10. CASE new = "processing"
    BY <1>1, <1>2, <1>4, <2>1, <2>2, <2>6, <2>8, <2>10, OneBegins
  <2> QED BY <2>9, <2>10
<1>8. CASE PollEnds
  <2>1. \A h \in Handlers : ~AtWork(handler'[h]) \/ handler'[h] = handler[h]
    BY <1>2, <1>8 DEF PollEnds, Goes, AtWork, Task
  <2> QED BY <1>1, <1>8, <2>1, OneRests DEF PollEnds, rows
<1> QED BY <1>5, <1>6, <1>7, <1>8 DEF PollStep

\* An event is dispatched with its receipt.
LEMMA DeliverOnce ==
  ASSUME AutoInv, OneCallback, NEW h \in Deliveries, NEW e \in Events, Deliver(h, e)
  PROVE  OneCallback' /\ OutcomesKept
<1>1. Types
  BY DEF AutoInv
<1>2. h \in Handlers /\ h # Poller /\ e \in Occurrences /\ e \notin Deadlines
  BY AutomationAssumption, KindsDiffer DEF Handlers
<1>3. ~AtWork(handler[h])
  BY DEF Deliver, AtPc, AtWork
<1>4. e \notin recovery /\ UNCHANGED recovery
  BY <1>1, <1>2 DEF Types, Deliver
<1>5. Ahead'
  BY <1>1, <1>2, KindsDiffer DEF OneCallback, Ahead, Deliver, Types
<1> QED BY <1>1, <1>2, <1>3, <1>4, <1>5, OneBegins DEF Deliver

\* A callback decides where nothing is decided, and answers once.
LEMMA CallbackOnce ==
  ASSUME AutoInv, OneCallback, NEW h \in Handlers, Callback(h)
  PROVE  OneCallback' /\ OutcomesKept
<1> DEFINE o == handler[h].on
           task == handler'[h]
<1>1. Types /\ Busy
  BY DEF AutoInv
<1>2. handler \in [Handlers -> Task] /\ handler[h] \in Task /\ occurrence \in [Occurrences -> OccurrenceRow]
  BY <1>1 DEF Types
<1>3. /\ ~AtPc(h, "idle") /\ ~AtPc(h, "polls")
      /\ recovery' \in {recovery, {}} /\ schedule'.due = schedule.due
  BY <1>1 DEF Callback, Prepare, Reserve, Analyze, LoseAnalysis, RecordExecution, Settle, Answer,
              ExpireLooks, ExpireSets, SetState, rows, AtPc, Types
<1>4. o \in Occurrences /\ RowOf(h) = occurrence[o] /\ RowOf(h) \in OccurrenceRow
  BY <1>1, <1>2, <1>3 DEF Busy, RowOf
<1>5. \A g \in Handlers \ {h} : handler'[g] = handler[g]
  BY <1>2 DEF Callback, Prepare, Reserve, Admits, Analyze, LoseAnalysis, RecordExecution, Settle,
              Answer, ExpireLooks, ExpireSets, Goes, GoesOn, AnswersWith
<1>6. AtWork(handler[h]) => /\ occurrence[o].receipt = "processing"
                            /\ handler[h].pc \in {"reserves", "analyzes", "records"}
                                  => occurrence[o].execution = "running"
  BY <1>4 DEF OneCallback, Claimed
<1>7. GoesOn(h) => ~AtWork(task)
  BY <1>2 DEF GoesOn, Returned, Resting, AtWork
<1>8. ASSUME NEW pc, Goes(h, pc) PROVE task.pc = pc /\ task.on = o
  BY <1>2, <1>8 DEF Goes, Task
<1>9. ASSUME NEW pc, NEW outcome, handler' = [handler EXCEPT ![h].pc = pc, ![h].outcome = outcome]
      PROVE  task.pc = pc /\ task.on = o
  BY <1>2, <1>9 DEF Task
<1>10. ASSUME NEW execution, Writes(h, [RowOf(h) EXCEPT !.execution = execution])
       PROVE  /\ occurrence'[o].execution = execution /\ occurrence'[o].receipt = occurrence[o].receipt
              /\ \A p \in Occurrences \ {o} : occurrence'[p] = occurrence[p]
  BY <1>2, <1>4, <1>10 DEF Writes, OccurrenceRow
<1>11. ASSUME AtWork(handler[h]),
              UNCHANGED occurrence \/ \A p \in Occurrences \ {o} : occurrence'[p] = occurrence[p],
              occurrence[o].execution \in {"filtered", "failed", "logged"}
                => occurrence'[o].execution = occurrence[o].execution,
              AtWork(task) =>
                /\ task.on = o
                /\ occurrence'[o].receipt = "processing"
                /\ task.pc \in {"reserves", "analyzes", "records"} => occurrence'[o].execution = "running"
       PROVE  OneCallback' /\ OutcomesKept
  BY <1>1, <1>3, <1>4, <1>5, <1>11, OneWorks
<1> HIDE DEF o, task
<1>12. CASE Prepare(h)
  <2>1. AtWork(handler[h])
    BY <1>12 DEF Prepare, AtPc, AtWork
  <2>2. occurrence[o].receipt = "processing"
    BY <1>6, <2>1
  <2>3. CASE Known(RowOf(h).execution)
    <3>1. UNCHANGED occurrence /\ task.pc = "answers" /\ task.on = o
      BY <1>9, <1>12, <2>3 DEF Prepare, AnswersWith
    <3> QED BY <1>11, <2>1, <2>2, <3>1
  <2>4. CASE ~Known(RowOf(h).execution)
    <3>1. occurrence[o].execution \notin {"filtered", "failed", "logged"}
      BY <1>4, <2>4 DEF Known
    <3>2. PICK execution \in {"filtered", "running"} :
            /\ Writes(h, [RowOf(h) EXCEPT !.execution = execution])
            /\ \/ AnswersWith(h, "filtered")
               \/ GoesOn(h)
               \/ execution = "running" /\ Goes(h, "reserves")
      BY <1>12, <2>4 DEF Prepare, Filters, Records
    <3>3. AtWork(task) => task.on = o /\ (task.pc = "answers" \/ execution = "running")
      BY <1>7, <1>8, <1>9, <3>2 DEF AnswersWith
    <3>4. /\ occurrence'[o].execution = execution /\ occurrence'[o].receipt = "processing"
          /\ \A p \in Occurrences \ {o} : occurrence'[p] = occurrence[p]
      BY <1>10, <2>2, <3>2
    <3> QED BY <1>11, <2>1, <3>1, <3>3, <3>4
  <2> QED BY <2>3, <2>4
<1>13. CASE Reserve(h)
  <2>1. AtWork(handler[h]) /\ handler[h].pc = "reserves"
    BY <1>13 DEF Reserve, AtPc, AtWork
  <2>2. occurrence[o].receipt = "processing" /\ occurrence[o].execution = "running"
    BY <1>6, <2>1
  <2>3. CASE GoesOn(h) /\ UNCHANGED occurrence
    BY <1>7, <1>11, <2>1, <2>3
  <2>4. CASE Admits(h)
    <3> DEFINE new == [RowOf(h) EXCEPT !.day = Day(handler[h].at), !.analyses = @ + 1]
    <3>1. new.receipt = "processing" /\ new.execution = "running"
      BY <1>4, <2>2 DEF OccurrenceRow
    <3>2. occurrence' = [occurrence EXCEPT ![o] = new]
      BY <2>4 DEF Admits, Writes, o
    <3> HIDE DEF new
    <3>3. /\ occurrence'[o] = new
          /\ \A p \in Occurrences \ {o} : occurrence'[p] = occurrence[p]
      BY <1>2, <1>4, <3>2
    <3>4. task.pc = "analyzes" /\ task.on = o
      BY <1>8, <2>4 DEF Admits
    <3> QED BY <1>11, <2>1, <2>2, <3>1, <3>3, <3>4
  <2>5. CASE Filters(h) /\ (GoesOn(h) \/ AnswersWith(h, "filtered"))
    <3>1. AtWork(task) => task.on = o /\ task.pc = "answers"
      BY <1>7, <1>9, <2>5 DEF AnswersWith
    <3>2. /\ occurrence'[o].receipt = "processing"
          /\ \A p \in Occurrences \ {o} : occurrence'[p] = occurrence[p]
      BY <1>10, <2>2, <2>5 DEF Filters
    <3> QED BY <1>11, <2>1, <2>2, <3>1, <3>2
  <2> QED BY <1>13, <2>3, <2>4, <2>5 DEF Reserve
<1>14. CASE Analyze(h)
  <2>1. AtWork(handler[h]) /\ handler[h].pc = "analyzes" /\ UNCHANGED occurrence
    BY <1>14 DEF Analyze, AtPc, AtWork, rows
  <2>2. task.pc = "records" /\ task.on = o
    BY <1>9, <1>14 DEF Analyze
  <2> QED BY <1>6, <1>11, <2>1, <2>2
<1>15. CASE LoseAnalysis(h)
  <2>1. AtWork(handler[h]) /\ UNCHANGED occurrence
    BY <1>15 DEF LoseAnalysis, AtPc, AtWork, rows
  <2>2. ~AtWork(task)
    BY <1>2, <1>15 DEF LoseAnalysis, Resting, AtWork, task
  <2> QED BY <1>11, <2>1, <2>2
<1>16. CASE RecordExecution(h)
  <2>1. AtWork(handler[h]) /\ handler[h].pc = "records"
    BY <1>16 DEF RecordExecution, AtPc, AtWork
  <2>2. /\ occurrence'[o].receipt = occurrence[o].receipt
        /\ \A p \in Occurrences \ {o} : occurrence'[p] = occurrence[p]
    BY <1>10, <1>16 DEF RecordExecution
  <2>3. task.pc = "settles" /\ task.on = o
    BY <1>8, <1>16 DEF RecordExecution
  <2> QED BY <1>6, <1>11, <2>1, <2>2, <2>3
<1>17. CASE Settle(h)
  <2>1. AtWork(handler[h]) /\ UNCHANGED occurrence
    BY <1>17 DEF Settle, AtPc, AtWork
  <2>2. task.pc = "answers" /\ task.on = o
    BY <1>8, <1>17 DEF Settle
  <2> QED BY <1>6, <1>11, <2>1, <2>2
<1>18. CASE Answer(h)
  <2>1. AtWork(handler[h])
    BY <1>18 DEF Answer, AtPc, AtWork
  <2>2. /\ occurrence'[o].execution = occurrence[o].execution
        /\ \A p \in Occurrences \ {o} : occurrence'[p] = occurrence[p]
    BY <1>2, <1>4, <1>18 DEF Answer, Writes, OccurrenceRow, o
  <2>3. ~AtWork(task)
    BY <1>7, <1>8, <1>18 DEF Answer, AtWork
  <2> QED BY <1>11, <2>1, <2>2, <2>3
<1>19. CASE ExpireLooks(h) \/ ExpireSets(h)
  <2>1. UNCHANGED occurrence
    BY <1>19 DEF ExpireLooks, ExpireSets, rows
  <2>2. ~AtWork(task)
    BY <1>7, <1>8, <1>19 DEF ExpireLooks, ExpireSets, AtWork
  <2> QED BY <1>1, <1>3, <1>5, <2>1, <2>2, OneRests DEF task
<1> QED BY <1>12, <1>13, <1>14, <1>15, <1>16, <1>17, <1>18, <1>19 DEF Callback

LEMMA OnceStep ==
  AutoInv /\ OneCallback /\ [AutomationNext]_automationVars => OneCallback' /\ OutcomesKept
<1> SUFFICES ASSUME AutoInv, OneCallback, [AutomationNext]_automationVars
             PROVE  OneCallback' /\ OutcomesKept
    OBVIOUS
<1>1. Types
  BY DEF AutoInv
<1>2. CASE UserChecks \/ UserSets \/ AutomationTick \/ UNCHANGED automationVars
  <2>1. UNCHANGED <<occurrence, handler, recovery>> /\ schedule'.due = schedule.due
    BY <1>1, <1>2
       DEF UserChecks, UserSets, SetState, AutomationTick, automationVars, rows, Types
  <2> QED BY <1>1, <2>1, OneRests
<1>3. CASE Outage
  <2>1. UNCHANGED occurrence /\ recovery' = {} /\ schedule'.due = schedule.due
    BY <1>1, <1>3 DEF Outage, Types
  <2>2. \A h \in Handlers : ~AtWork(handler'[h])
    BY <1>3 DEF Outage, Resting, AtWork
  <2> QED BY <1>1, <2>1, <2>2, OneRests
<1> QED BY <1>2, <1>3, PollOnce, DeliverOnce, CallbackOnce DEF AutomationNext

\* No two callbacks ever work on one occurrence, nor on one the poll will recover.
THEOREM OneAtATime == AutomationSpec => []OneCallback
BY InitOne, OnceStep, AutoAlways, PTL DEF AutomationSpec

\* What is recorded of an occurrence stays, over repeated deliveries, outages and the
\* recovery of its receipt.
THEOREM FinalOutcomes == AutomationSpec => OutcomesAreFinal
<1>1. AutomationSpec => [][OutcomesKept]_automationVars
  BY AutoAlways, OneAtATime, OnceStep, PTL DEF AutomationSpec
<1> QED BY <1>1 DEF OutcomesAreFinal, OutcomesKept
=============================================================================
