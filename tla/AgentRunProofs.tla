--------------------------- MODULE AgentRunProofs ---------------------------
(***************************************************************************)
(* Theorems about AgentRun, for any set of runs and any bounds: a run that *)
(* looks busy is driven by something, and what the user has decided is     *)
(* undone by the user only.                                                *)
(***************************************************************************)
EXTENDS AgentRun, TLAPS

\* What the row of a run, its task, a continuation by the host and a call of cancel have
\* to do with each other: only work in flight has a task, a call of cancel waits for a
\* task that is being stopped and returns when there is none, and no continuation is due
\* behind it.
Drives(e, pc, follows, call) ==
  /\ pc = "created" => e.status = "queued"
  /\ pc = "running" => e.status = "running"
  /\ pc = "stopping" => e.status \in {"running", "cancelling"}
  /\ call = "waits" => pc = "stopping"
  /\ call = "returns" => pc = "none"
  /\ call # "none" => ~follows

\* BusyRunsAreDriven, of the values of one run.
Driven(e, pc, call, isOvertaken) ==
  /\ e.status \in {"queued", "running"} => pc # "none" \/ isOvertaken
  /\ e.status = "cancelling" => call # "none"

RunInv ==
  /\ RunTypeOK
  /\ \A r \in Runs : Drives(record[r], execution[r], followUp[r], cancelCall[r])
  /\ process = "up" =>
       \A r \in Runs : Driven(record[r], execution[r], cancelCall[r], r \in overtaken)
  /\ process = "down" =>
       \A r \in Runs : execution[r] = "none" /\ ~followUp[r] /\ cancelCall[r] = "none"

RunRow == [status: Statuses, error: Errors, cancelled: BOOLEAN, limit: Nat, gaps: BOOLEAN,
        spent: BOOLEAN]

\* What a step leaves alone when it is about run r only.
OnlyOf(r) ==
  /\ \A q \in Runs \ {r} :
       /\ record'[q] = record[q] /\ execution'[q] = execution[q]
       /\ followUp'[q] = followUp[q] /\ cancelCall'[q] = cancelCall[q]
       /\ q \in overtaken' <=> q \in overtaken
  /\ process' = process

\* Such a step has to be looked at for that run only.
LEMMA StepOfOneRun ==
  ASSUME RunInv, RunTypeOK', NEW r \in Runs, OnlyOf(r), process # "down",
         Drives(record'[r], execution'[r], followUp'[r], cancelCall'[r]),
         process = "up" => Driven(record'[r], execution'[r], cancelCall'[r], r \in overtaken')
  PROVE  RunInv'
<1>1. ASSUME NEW q \in Runs
      PROVE  /\ Drives(record'[q], execution'[q], followUp'[q], cancelCall'[q])
             /\ process' = "up" => Driven(record'[q], execution'[q], cancelCall'[q], q \in overtaken')
  <2>1. CASE q = r
    BY <2>1 DEF OnlyOf
  <2>2. CASE q # r
    BY <2>2 DEF OnlyOf, RunInv, Driven
  <2> QED BY <2>1, <2>2
<1> QED BY <1>1 DEF RunInv, OnlyOf

\* A run with something to do has an application that is not down.
LEMMA NotDown ==
  ASSUME RunInv, NEW r \in Runs,
         execution[r] # "none" \/ followUp[r] \/ cancelCall[r] # "none" \/ process = "up"
  PROVE  process # "down"
BY DEF RunInv

\* The types of a row, and that it is one of the functions of the state.
LEMMA RowTypes ==
  ASSUME RunTypeOK, NEW r \in Runs
  PROVE  /\ record[r] \in RunRow
         /\ record[r].status \in Statuses /\ record[r].error \in Errors
         /\ record[r].limit \in Nat
         /\ record[r].gaps \in BOOLEAN /\ record[r].spent \in BOOLEAN
         /\ record[r].cancelled \in BOOLEAN
BY DEF RunTypeOK, RunRow

LEMMA RunInitInv == RunInit => RunInv
BY DEF RunInit, RunInv, RunTypeOK, NoRecord, Statuses, Terminal, InFlight, Errors, Drives,
       Driven

-----------------------------------------------------------------------------
(* The execution of a run *)

LEMMA CreateStep ==
  ASSUME RunInv, NEW r \in Runs, Create(r)
  PROVE  RunInv'
<1>1. /\ record' = [record EXCEPT ![r] = Executing(Queued(NoRecord))]
      /\ Executing(Queued(NoRecord)) \in RunRow
      /\ Executing(Queued(NoRecord)).status = "running"
  BY DEF Create, SetRecord, Executing, Queued, NoRecord, RunRow, Statuses, InFlight, Errors
<1>2. /\ cancelCall[r] = "none" /\ process = "up"
      /\ execution' = [execution EXCEPT ![r] = "running"]
  BY DEF Create, MayCall, SetExecution
<1>3. RunTypeOK'
  BY <1>1, <1>2 DEF RunInv, RunTypeOK, RunRow, Create, Wishes, hostVars
<1>4. OnlyOf(r)
  BY <1>1, <1>2 DEF OnlyOf, RunInv, RunTypeOK, Create, hostVars
<1>5. record'[r].status = "running" /\ execution'[r] = "running" /\ cancelCall'[r] = "none"
  BY <1>1, <1>2 DEF RunInv, RunTypeOK, Create
<1> QED BY <1>3, <1>4, <1>5, StepOfOneRun, NotDown DEF Create, MayCall, Drives, Driven

LEMMA RunBeginStep ==
  ASSUME RunInv, NEW r \in Runs, Begin(r)
  PROVE  RunInv'
<1>1. /\ execution[r] = "created" /\ record[r].status = "queued"
      /\ Drives(record[r], execution[r], followUp[r], cancelCall[r])
  BY DEF Begin, RunInv, Drives
<1>2. /\ Executing(record[r]) \in RunRow
      /\ Executing(record[r]).status = "running"
  BY <1>1, RowTypes DEF RunInv, Executing, RunRow, Statuses, InFlight
<1>3. RunTypeOK'
  BY <1>2 DEF RunInv, RunTypeOK, RunRow, Begin, SetExecution, SetRecord, userVars, hostVars
<1>4. OnlyOf(r)
  BY DEF OnlyOf, RunInv, RunTypeOK, Begin, SetExecution, SetRecord, userVars, hostVars
<1>5. /\ record'[r].status = "running" /\ execution'[r] = "running"
      /\ followUp'[r] = followUp[r] /\ cancelCall'[r] = cancelCall[r]
  BY <1>2 DEF RunInv, RunTypeOK, Begin, SetExecution, SetRecord
<1> QED BY <1>1, <1>3, <1>4, <1>5, StepOfOneRun, NotDown DEF Begin, Drives, Driven

LEMMA SpendStep ==
  ASSUME RunInv, NEW r \in Runs, Spend(r)
  PROVE  RunInv'
<1>1. /\ [record[r] EXCEPT !.spent = TRUE] \in RunRow
      /\ [record[r] EXCEPT !.spent = TRUE].status = record[r].status
  BY RowTypes DEF RunInv, RunRow
<1>2. RunTypeOK'
  BY <1>1 DEF RunInv, RunTypeOK, RunRow, Spend, SetRecord, userVars, hostVars
<1>3. OnlyOf(r)
  BY DEF OnlyOf, RunInv, RunTypeOK, Spend, SetRecord, userVars, hostVars
<1>4. /\ record'[r].status = record[r].status /\ execution'[r] = execution[r]
      /\ followUp'[r] = followUp[r] /\ cancelCall'[r] = cancelCall[r]
      /\ overtaken' = overtaken
  BY <1>1 DEF RunInv, RunTypeOK, Spend, SetRecord, userVars
<1> QED BY <1>2, <1>3, <1>4, StepOfOneRun, NotDown DEF Spend, RunInv, Drives, Driven

\* The ways a task may end by itself.
LEMMA EndsStep ==
  ASSUME RunInv, NEW r \in Runs, Ends(r)
  PROVE  RunInv'
<1>1. PICK e \in RunRow : e.status \in {"completed", "waiting", "partially_completed"} /\ Finish(r, e)
  <2>1. \A gaps \in BOOLEAN, status \in {"completed", "waiting", "partially_completed"} :
          EndedAs(r, status, gaps) \in RunRow /\ EndedAs(r, status, gaps).status = status
    BY RowTypes DEF RunInv, EndedAs, RunRow, Statuses, Terminal, Errors
  <2> QED BY <2>1, RowTypes DEF RunInv, Ends, CompleteRun, AskUser, Fall
<1>2. execution[r] = "running" /\ cancelCall[r] = "none"
  BY <1>1 DEF Finish, RunInv, Drives, RunTypeOK
<1>3. ShouldContinue(e) \in BOOLEAN
  BY DEF ShouldContinue
<1>4. RunTypeOK'
  <2> DEFINE follows == ShouldContinue(e)
  <2>1. followUp' = [followUp EXCEPT ![r] = @ \/ follows]
    BY <1>1 DEF Finish
  <2>2. follows \in BOOLEAN
    BY <1>3
  <2> HIDE DEF follows
  <2>3. followUp' \in [Runs -> BOOLEAN]
    BY <2>1, <2>2 DEF RunInv, RunTypeOK
  <2> QED BY <1>1, <2>3 DEF RunInv, RunTypeOK, RunRow, Finish, SetRecord, SetExecution, userVars, hostVars
<1>5. OnlyOf(r)
  BY <1>1 DEF OnlyOf, RunInv, RunTypeOK, Finish, SetRecord, SetExecution, userVars, hostVars
<1>6. record'[r] = e /\ execution'[r] = "none" /\ cancelCall'[r] = "none"
  BY <1>1, <1>2 DEF RunInv, RunTypeOK, Finish, SetRecord, SetExecution
<1> QED BY <1>1, <1>4, <1>5, <1>6, StepOfOneRun, NotDown DEF Finish, Drives, Driven

LEMMA RunStopStep ==
  ASSUME RunInv, NEW r \in Runs, Stop(r)
  PROVE  RunInv'
<1>1. /\ execution[r] = "stopping"
      /\ Drives(record[r], execution[r], followUp[r], cancelCall[r])
      /\ cancelCall[r] \in {"none", "waits", "returns"}
  BY DEF Stop, RunInv, RunTypeOK
<1>2. Stopped(r) \in RunRow /\ Stopped(r).status \in {"suspended", "cancelled"}
  BY RowTypes DEF RunInv, Stopped, RunRow, Statuses, Terminal, Errors
<1>3. RunTypeOK'
  BY <1>2 DEF RunInv, RunTypeOK, RunRow, Stop, SetRecord, SetExecution, userVars, hostVars
<1>4. OnlyOf(r)
  BY DEF OnlyOf, RunInv, RunTypeOK, Stop, SetRecord, SetExecution, userVars, hostVars
<1>5. /\ record'[r] = Stopped(r) /\ execution'[r] = "none" /\ followUp'[r] = followUp[r]
      /\ cancelCall'[r] = IF cancelCall[r] = "waits" THEN "returns" ELSE cancelCall[r]
  BY DEF RunInv, RunTypeOK, Stop, SetRecord, SetExecution
<1> QED BY <1>1, <1>2, <1>3, <1>4, <1>5, StepOfOneRun, NotDown DEF Stop, Drives, Driven

-----------------------------------------------------------------------------
(* The calls of the user *)

\* A call that returns at once.
LEMMA TerminalStep ==
  ASSUME RunInv, NEW r \in Runs, PauseTerminal(r) \/ CancelTerminal(r)
  PROVE  RunInv'
<1>1. RunTypeOK'
  BY DEF RunInv, RunTypeOK, PauseTerminal, CancelTerminal, Wishes, hostVars
<1>2. /\ OnlyOf(r)
      /\ record' = record /\ execution' = execution /\ followUp' = followUp
      /\ cancelCall' = cancelCall /\ overtaken' = overtaken
  BY DEF OnlyOf, PauseTerminal, CancelTerminal, hostVars
<1> QED BY <1>1, <1>2, StepOfOneRun, NotDown DEF PauseTerminal, CancelTerminal, MayCall, RunInv

\* While the application is open and no call of cancel is out, nothing is being cancelled.
LEMMA NothingIsCancelled ==
  ASSUME RunInv, NEW r \in Runs, MayCall(r)
  PROVE  /\ record[r].status # "cancelling" /\ cancelCall[r] = "none" /\ process = "up"
         /\ execution[r] \in {"none", "created", "running"}
         /\ Drives(record[r], execution[r], followUp[r], cancelCall[r])
         /\ Driven(record[r], execution[r], cancelCall[r], r \in overtaken)
BY DEF MayCall, RunInv, RunTypeOK, Driven

LEMMA PauseStep ==
  ASSUME RunInv, NEW r \in Runs, Pause(r)
  PROVE  RunInv'
<1> DEFINE paused == [record[r] EXCEPT !.status = "suspended", !.error = "UserPaused"]
<1>1. paused \in RunRow /\ paused.status = "suspended"
  BY RowTypes DEF RunInv, RunRow, Statuses, Errors
<1>2. /\ record[r].status # "cancelling" /\ cancelCall[r] = "none"
      /\ execution[r] \in {"none", "created", "running"}
      /\ Drives(record[r], execution[r], followUp[r], cancelCall[r])
  BY NothingIsCancelled DEF Pause
<1>3. record' = IF execution[r] = "none" THEN [record EXCEPT ![r] = paused] ELSE record
  BY DEF Pause, SetRecord
<1> HIDE DEF paused
<1>4. RunTypeOK'
  BY <1>1, <1>2, <1>3 DEF RunInv, RunTypeOK, RunRow, Pause, SetExecution, Cancelled, Wishes, hostVars
<1>5. OnlyOf(r)
  BY <1>3 DEF OnlyOf, RunInv, RunTypeOK, Pause, SetExecution, hostVars
<1>6. /\ record'[r] = IF execution[r] = "none" THEN paused ELSE record[r]
      /\ execution'[r] = Cancelled(execution[r])
      /\ followUp'[r] = followUp[r] /\ cancelCall'[r] = "none"
      /\ execution[r] = "created" => r \in overtaken'
  BY <1>2, <1>3 DEF RunInv, RunTypeOK, Pause, SetExecution
<1> QED BY <1>1, <1>2, <1>4, <1>5, <1>6, StepOfOneRun, NotDown DEF Pause, MayCall, Drives, Driven, Cancelled

LEMMA RunCancelStep ==
  ASSUME RunInv, NEW r \in Runs, CancelRun(r)
  PROVE  RunInv'
<1> DEFINE asked == [record[r] EXCEPT !.status = "cancelling", !.cancelled = TRUE]
<1>1. asked \in RunRow /\ asked.status = "cancelling"
  BY RowTypes DEF RunInv, RunRow, Statuses, InFlight
<1>2. execution[r] \in {"none", "created", "running"}
  BY NothingIsCancelled DEF CancelRun
<1>3. record' = [record EXCEPT ![r] = asked]
  BY DEF CancelRun, SetRecord
<1> HIDE DEF asked
<1>4. RunTypeOK'
  BY <1>1, <1>2, <1>3 DEF RunInv, RunTypeOK, RunRow, CancelRun, SetExecution, Cancelled, Wishes, hostVars
<1>5. OnlyOf(r)
  BY <1>3 DEF OnlyOf, RunInv, RunTypeOK, CancelRun, SetExecution, hostVars
<1>6. /\ record'[r] = asked /\ execution'[r] = Cancelled(execution[r])
      /\ followUp'[r] = FALSE
      /\ cancelCall'[r] = IF execution[r] = "running" THEN "waits" ELSE "returns"
  BY <1>3 DEF RunInv, RunTypeOK, CancelRun, SetExecution
<1> QED BY <1>1, <1>2, <1>4, <1>5, <1>6, StepOfOneRun, NotDown DEF CancelRun, MayCall, Drives, Driven, Cancelled

LEMMA CancelReturnsStep ==
  ASSUME RunInv, NEW r \in Runs, CancelReturns(r)
  PROVE  RunInv'
<1>1. execution[r] = "none"
  BY DEF CancelReturns, RunInv, Drives
<1>2. Settled(record[r]) \in RunRow /\ Settled(record[r]).status \in Terminal
  BY RowTypes DEF RunInv, Settled, RunRow, Statuses, Terminal
<1>3. RunTypeOK'
  BY <1>2 DEF RunInv, RunTypeOK, RunRow, CancelReturns, SetRecord, userVars, hostVars
<1>4. OnlyOf(r)
  BY DEF OnlyOf, RunInv, RunTypeOK, CancelReturns, SetRecord, userVars, hostVars
<1>5. record'[r] = Settled(record[r]) /\ execution'[r] = "none" /\ cancelCall'[r] = "none"
  BY <1>1 DEF RunInv, RunTypeOK, CancelReturns, SetRecord
<1> QED BY <1>2, <1>3, <1>4, <1>5, StepOfOneRun, NotDown DEF CancelReturns, Drives, Driven, Terminal

LEMMA ResumeStep ==
  ASSUME RunInv, NEW r \in Runs, ResumeRun(r)
  PROVE  RunInv'
<1> DEFINE queued == [Queued(record[r]) EXCEPT !.spent = FALSE]
<1>1. queued \in RunRow /\ queued.status = "queued"
  BY RowTypes DEF RunInv, Queued, RunRow, Statuses, InFlight, Errors
<1>2. /\ record' = [record EXCEPT ![r] = queued]
      /\ execution' = [execution EXCEPT ![r] = "created"]
      /\ cancelCall[r] = "none"
  BY DEF ResumeRun, SetRecord, SetExecution, MayCall
<1> HIDE DEF queued
<1>3. RunTypeOK'
  BY <1>1, <1>2 DEF RunInv, RunTypeOK, RunRow, ResumeRun, Wishes, hostVars
<1>4. OnlyOf(r)
  BY <1>2 DEF OnlyOf, RunInv, RunTypeOK, ResumeRun, hostVars
<1>5. record'[r] = queued /\ execution'[r] = "created" /\ cancelCall'[r] = "none"
  BY <1>2 DEF RunInv, RunTypeOK, ResumeRun
<1> QED BY <1>1, <1>3, <1>4, <1>5, StepOfOneRun, NotDown DEF ResumeRun, MayCall, Drives, Driven

\* A row that is continued, by the user or by the host.
LEMMA ContinuedRow ==
  ASSUME RunTypeOK, NEW r \in Runs
  PROVE  /\ Continued(record[r]) \in RunRow /\ Continued(record[r]).status = "queued"
         /\ [Continued(record[r]) EXCEPT !.spent = FALSE] \in RunRow
         /\ [Continued(record[r]) EXCEPT !.spent = FALSE].status = "queued"
<1>1. Queued(record[r]) \in RunRow /\ Queued(record[r]).status = "queued"
  BY RowTypes DEF Queued, RunRow, Statuses, InFlight, Errors
<1>2. PICK q \in RunRow : q = Queued(record[r])
  BY <1>1
<1>3. q.limit + 1 \in Nat
  BY DEF RunRow
<1>4. Continued(record[r]) = [q EXCEPT !.limit = q.limit + 1, !.gaps = FALSE]
  BY <1>2 DEF Continued
<1>5. [q EXCEPT !.limit = q.limit + 1, !.gaps = FALSE] \in RunRow
  <2>1. \A n \in Nat : [q EXCEPT !.limit = n, !.gaps = FALSE] \in RunRow
    BY DEF RunRow
  <2> QED BY <1>3, <2>1
<1>6. Continued(record[r]) \in RunRow /\ Continued(record[r]).status = "queued"
  BY <1>1, <1>2, <1>4, <1>5 DEF RunRow
<1> QED BY <1>6 DEF RunRow

LEMMA ContinueStep ==
  ASSUME RunInv, NEW r \in Runs, Continue(r)
  PROVE  RunInv'
<1> DEFINE queued == [Continued(record[r]) EXCEPT !.spent = FALSE]
<1>1. queued \in RunRow /\ queued.status = "queued"
  BY ContinuedRow DEF RunInv
<1>2. /\ record' = [record EXCEPT ![r] = queued]
      /\ execution' = [execution EXCEPT ![r] = "created"]
      /\ cancelCall[r] = "none"
  BY DEF Continue, SetRecord, SetExecution, MayCall
<1> HIDE DEF queued
<1>3. RunTypeOK'
  BY <1>1, <1>2 DEF RunInv, RunTypeOK, RunRow, Continue, Wishes, hostVars
<1>4. OnlyOf(r)
  BY <1>2 DEF OnlyOf, RunInv, RunTypeOK, Continue, hostVars
<1>5. record'[r] = queued /\ execution'[r] = "created" /\ cancelCall'[r] = "none"
  BY <1>2 DEF RunInv, RunTypeOK, Continue
<1> QED BY <1>1, <1>3, <1>4, <1>5, StepOfOneRun, NotDown DEF Continue, MayCall, Drives, Driven

-----------------------------------------------------------------------------
(* The host *)

LEMMA FollowUpStep ==
  ASSUME RunInv, NEW r \in Runs, FollowUp(r)
  PROVE  RunInv'
<1>1. /\ Drives(record[r], execution[r], followUp[r], cancelCall[r])
      /\ followUp[r] /\ cancelCall[r] \in {"none", "waits", "returns"}
  BY DEF FollowUp, RunInv, RunTypeOK
<1>2. cancelCall[r] = "none" /\ cancelCall' = cancelCall /\ overtaken' = overtaken
  BY <1>1 DEF Drives, FollowUp, userVars
<1>3. Continued(record[r]) \in RunRow /\ Continued(record[r]).status = "queued"
  BY ContinuedRow DEF RunInv
<1>4. CASE ShouldContinue(record[r]) /\ execution[r] = "none"
  <2>1. /\ record' = [record EXCEPT ![r] = Continued(record[r])]
        /\ execution' = [execution EXCEPT ![r] = "created"]
    BY <1>4 DEF FollowUp, SetRecord, SetExecution
  <2>2. RunTypeOK'
    BY <1>3, <2>1 DEF RunInv, RunTypeOK, RunRow, FollowUp, userVars, hostVars
  <2>3. OnlyOf(r)
    BY <2>1 DEF OnlyOf, RunInv, RunTypeOK, FollowUp, userVars, hostVars
  <2>4. record'[r] = Continued(record[r]) /\ execution'[r] = "created" /\ cancelCall'[r] = "none"
    BY <1>2, <2>1 DEF RunInv, RunTypeOK
  <2> QED BY <1>3, <2>2, <2>3, <2>4, StepOfOneRun, NotDown DEF FollowUp, Drives, Driven
<1>5. CASE ~(ShouldContinue(record[r]) /\ execution[r] = "none")
  <2>1. record' = record /\ execution' = execution
    BY <1>5 DEF FollowUp
  <2>2. RunTypeOK'
    BY <2>1 DEF RunInv, RunTypeOK, FollowUp, userVars, hostVars
  <2>3. OnlyOf(r)
    BY <2>1 DEF OnlyOf, RunInv, RunTypeOK, FollowUp, userVars, hostVars
  <2>4. Drives(record'[r], execution'[r], followUp'[r], cancelCall'[r])
    BY <1>1, <1>2, <2>1 DEF Drives
  <2> QED BY <1>2, <2>1, <2>2, <2>3, <2>4, StepOfOneRun, NotDown DEF FollowUp, RunInv
<1> QED BY <1>4, <1>5

\* The application is not open any more: nothing has to be driven.
LEMMA CloseStep ==
  ASSUME RunInv, CloseHost
  PROVE  RunInv'
<1>1. RunTypeOK'
  BY RunAssumption DEF RunInv, RunTypeOK, CloseHost, Cancelled, userVars
<1>2. ASSUME NEW r \in Runs
      PROVE  Drives(record'[r], execution'[r], followUp'[r], cancelCall'[r])
  <2>1. Drives(record[r], execution[r], followUp[r], cancelCall[r])
    BY DEF RunInv
  <2>2. /\ execution'[r] = Cancelled(execution[r])
        /\ record' = record /\ followUp' = followUp /\ cancelCall' = cancelCall
    BY DEF CloseHost
  <2> QED BY <2>1, <2>2 DEF Drives, Cancelled
<1> QED BY <1>1, <1>2 DEF RunInv, CloseHost

LEMMA GoneStep ==
  ASSUME RunInv, CloseHostEnds \/ CrashHost
  PROVE  RunInv'
<1>1. Gone
  BY DEF CloseHostEnds, CrashHost
<1>2. RunTypeOK'
  BY <1>1 DEF RunInv, RunTypeOK, Gone, userVars
<1> QED BY <1>1, <1>2 DEF RunInv, Gone, Drives

\* What recovery does with a row: it is executed, or it does not look busy.
LEMMA RecoveredRows ==
  ASSUME RunTypeOK, NEW r \in Runs
  PROVE  /\ RecoveredRun(record[r]) \in RunRow
         /\ RecoveredRun(record[r]).status \notin InFlight
         /\ Executing(Queued(record[r])) \in RunRow
         /\ Executing(Queued(record[r])).status = "running"
BY RowTypes DEF RecoveredRun, Executing, Queued, RunRow, Statuses, InFlight, Terminal, Errors

LEMMA ReopenStep ==
  ASSUME RunInv, Reopen
  PROVE  RunInv'
<1> DEFINE resumed(r) == ResumesItself(RecoveredRun(record[r]))
<1>1. /\ record' = [r \in Runs |-> IF resumed(r) THEN Executing(Queued(record[r]))
                                   ELSE RecoveredRun(record[r])]
      /\ execution' = [r \in Runs |-> IF resumed(r) THEN "running" ELSE "none"]
      /\ followUp' = followUp /\ cancelCall' = cancelCall /\ pausing' = pausing
      /\ overtaken' = {} /\ wish' = wish /\ process' = "up"
  BY DEF Reopen
<1> HIDE DEF resumed
<1>2. \A r \in Runs : /\ RecoveredRun(record[r]) \in RunRow
                      /\ RecoveredRun(record[r]).status \notin InFlight
                      /\ Executing(Queued(record[r])) \in RunRow
                      /\ Executing(Queued(record[r])).status = "running"
  BY RecoveredRows DEF RunInv
<1>3. RunTypeOK'
  BY <1>1, <1>2 DEF RunInv, RunTypeOK, RunRow
<1>4. ASSUME NEW r \in Runs
      PROVE  cancelCall[r] = "none"
  BY <1>4 DEF Reopen, RunInv
<1> QED BY <1>1, <1>2, <1>3, <1>4 DEF RunInv, Drives, Driven, InFlight

-----------------------------------------------------------------------------

LEMMA RunInvStep == RunInv /\ [RunNext]_runVars => RunInv'
<1> SUFFICES ASSUME RunInv, [RunNext]_runVars PROVE RunInv'
  OBVIOUS
<1>1. ASSUME NEW r \in Runs, Call(r) PROVE RunInv'
  BY <1>1, CreateStep, PauseStep, TerminalStep, RunCancelStep, ResumeStep, ContinueStep DEF Call
<1>2. ASSUME NEW r \in Runs, Host(r) PROVE RunInv'
  BY <1>2, RunBeginStep, RunStopStep, CancelReturnsStep, FollowUpStep DEF Host
<1>3. CASE CloseHost \/ CloseHostEnds \/ CrashHost \/ Reopen
  BY <1>3, CloseStep, GoneStep, ReopenStep
<1>4. CASE UNCHANGED runVars
  BY <1>4 DEF runVars, userVars, hostVars, RunInv, RunTypeOK
<1> QED BY <1>1, <1>2, <1>3, <1>4, EndsStep, SpendStep DEF RunNext

\* RunInv is an invariant: what the row, the task, the continuation and the call of cancel
\* of a run say agrees, over every interleaving of the user's calls, the host's own
\* recovery, shutdowns and crashes.
THEOREM RunAlways == RunSpec => []RunInv
<1> QED BY RunInitInv, RunInvStep, PTL DEF RunSpec

\* The types of the rows and tasks of the runs.
THEOREM RunTypes == RunSpec => []RunTypeOK
<1>1. RunInv => RunTypeOK
  BY DEF RunInv
<1> QED BY <1>1, RunAlways, PTL

\* No run looks busy and is not: while the application is open, what is on record as
\* queued or running has a task, and what is being cancelled has a call.
THEOREM BusyRuns == RunSpec => []BusyRunsAreDriven
<1>1. RunInv => BusyRunsAreDriven
  BY DEF RunInv, Driven, BusyRunsAreDriven, Status
<1> QED BY <1>1, RunAlways, PTL

-----------------------------------------------------------------------------
(* What the user has decided *)

\* UserDecisionsStand, of one run in one step.
Stands(r) ==
  /\ record[r].status = "suspended" /\ record[r].error = "UserPaused" /\ execution'[r] # "none"
       => wish'[r] = "go" /\ process = "up"
  /\ record[r].spent /\ execution[r] = "none" /\ execution'[r] # "none" => ~record'[r].spent
  /\ record[r].status = "cancelled" => record'[r].status = "cancelled"

\* A run that is suspended or cancelled has no task.
LEMMA DecidedHaveNoTask ==
  ASSUME RunInv, NEW r \in Runs
  PROVE  /\ record[r].status \in {"suspended", "cancelled"} => execution[r] = "none"
         /\ execution[r] \in {"none", "created", "running", "stopping"}
BY DEF RunInv, RunTypeOK, Drives

\* A step of another run, or one that neither starts the task of the run nor changes
\* its row.
LEMMA OthersStand ==
  ASSUME RunInv, NEW r \in Runs, record'[r] = record[r],
         execution'[r] \in {execution[r], Cancelled(execution[r]), "none"}
  PROVE  Stands(r)
BY DecidedHaveNoTask DEF Stands, Cancelled

LEMMA CallStands ==
  ASSUME RunInv, NEW r \in Runs, NEW q \in Runs, Call(q)
  PROVE  Stands(r)
<1> USE DEF SetRecord, SetExecution, Wishes, Status
<1>1. CASE q # r
  <2>1. record'[r] = record[r] /\ execution'[r] = execution[r]
    BY <1>1 DEF RunInv, RunTypeOK, Call, Create, Pause, PauseTerminal, CancelRun, CancelTerminal,
                ResumeRun, Continue
  <2> QED BY <2>1, OthersStand
<1>2. ASSUME q = r, Create(r) PROVE Stands(r)
  <2>1. record'[r].spent = FALSE /\ record[r].status = "none"
    BY <1>2, RowTypes DEF Create, RunInv, RunTypeOK, NoRecord, Queued, Executing
  <2> QED BY <2>1 DEF Stands
<1>3. ASSUME q = r, Pause(r) PROVE Stands(r)
  <2>1. execution'[r] = Cancelled(execution[r]) /\ record[r].status # "cancelled"
    BY <1>3 DEF Pause, RunInv, RunTypeOK, Terminal
  <2> QED BY <2>1, DecidedHaveNoTask DEF Stands, Cancelled
<1>4. ASSUME q = r, PauseTerminal(r) \/ CancelTerminal(r) PROVE Stands(r)
  BY <1>4, OthersStand DEF PauseTerminal, CancelTerminal
<1>5. ASSUME q = r, CancelRun(r) PROVE Stands(r)
  <2>1. execution'[r] = Cancelled(execution[r]) /\ record[r].status # "cancelled"
    BY <1>5 DEF CancelRun, RunInv, RunTypeOK, Terminal
  <2> QED BY <2>1, DecidedHaveNoTask DEF Stands, Cancelled
<1>6. ASSUME q = r, ResumeRun(r) PROVE Stands(r)
  <2>1. /\ record'[r] = [Queued(record[r]) EXCEPT !.spent = FALSE]
        /\ wish'[r] = "go" /\ process = "up" /\ record[r].status # "cancelled"
    BY <1>6 DEF ResumeRun, MayCall, RunInv, RunTypeOK
  <2>2. record'[r].spent = FALSE
    BY <2>1, RowTypes DEF RunInv, Queued, RunRow
  <2> QED BY <2>1, <2>2 DEF Stands
<1>7. ASSUME q = r, Continue(r) PROVE Stands(r)
  <2>1. /\ record'[r] = [Continued(record[r]) EXCEPT !.spent = FALSE]
        /\ record[r].status = "partially_completed"
    BY <1>7 DEF Continue, RunInv, RunTypeOK
  <2>2. record'[r].spent = FALSE
    BY <2>1, ContinuedRow DEF RunInv, RunRow
  <2> QED BY <2>1, <2>2 DEF Stands
<1> QED BY <1>1, <1>2, <1>3, <1>4, <1>5, <1>6, <1>7 DEF Call

\* The steps of the task and of the host for one run.
LEMMA HostStands ==
  ASSUME RunInv, NEW r \in Runs, NEW q \in Runs, Host(q) \/ Ends(q) \/ Spend(q)
  PROVE  Stands(r)
<1> USE DEF SetRecord, SetExecution
<1>1. CASE q # r
  <2>1. record'[r] = record[r] /\ execution'[r] = execution[r]
    BY <1>1 DEF RunInv, RunTypeOK, Host, Begin, Stop, CancelReturns, FollowUp, Ends, CompleteRun,
                AskUser, Fall, Finish, Spend
  <2> QED BY <2>1, OthersStand
<1>2. ASSUME q = r, execution[r] # "none" PROVE Stands(r)
  BY <1>2, DecidedHaveNoTask DEF Stands
<1>3. ASSUME q = r, CancelReturns(r) PROVE Stands(r)
  <2>1. record'[r] = Settled(record[r]) /\ execution'[r] = execution[r]
    BY <1>3 DEF CancelReturns, RunInv, RunTypeOK
  <2> QED BY <2>1, DecidedHaveNoTask DEF Stands, Settled, Terminal
<1>4. ASSUME q = r, FollowUp(r) PROVE Stands(r)
  <2>1. CASE ShouldContinue(record[r]) /\ execution[r] = "none"
    <3>1. record'[r] = Continued(record[r]) /\ record[r].status = "partially_completed"
      BY <1>4, <2>1 DEF FollowUp, RunInv, RunTypeOK, ShouldContinue
    <3>2. ~record[r].spent
      BY <2>1 DEF ShouldContinue
    <3> QED BY <3>1, <3>2 DEF Stands
  <2>2. CASE ~(ShouldContinue(record[r]) /\ execution[r] = "none")
    BY <1>4, <2>2, OthersStand DEF FollowUp
  <2> QED BY <2>1, <2>2
<1> QED BY <1>1, <1>2, <1>3, <1>4 DEF Host, Begin, Stop, Ends, CompleteRun, AskUser, Fall, Finish, Spend

LEMMA ApplicationStands ==
  ASSUME RunInv, NEW r \in Runs, CloseHost \/ CloseHostEnds \/ CrashHost \/ Reopen
  PROVE  Stands(r)
<1>1. CASE CloseHost
  <2>1. record'[r] = record[r] /\ execution'[r] = Cancelled(execution[r])
    BY <1>1 DEF CloseHost
  <2> QED BY <2>1, OthersStand
<1>2. CASE CloseHostEnds \/ CrashHost
  BY <1>2, OthersStand DEF CloseHostEnds, CrashHost, Gone
<1>3. CASE Reopen
  <2> DEFINE old == RecoveredRun(record[r])
  <2>1. /\ record'[r] = IF ResumesItself(old) THEN Executing(Queued(record[r])) ELSE old
        /\ execution'[r] = IF ResumesItself(old) THEN "running" ELSE "none"
    BY <1>3 DEF Reopen
  <2>2. record[r].status \notin InFlight => old = record[r]
    BY DEF RecoveredRun
  <2>3. old.spent = record[r].spent
    BY RowTypes DEF RecoveredRun, RunInv, RunRow
  <2> HIDE DEF old
  <2> QED BY <2>1, <2>2, <2>3 DEF Stands, ResumesItself, InFlight
<1> QED BY <1>1, <1>2, <1>3

LEMMA StepStands ==
  ASSUME RunInv, [RunNext]_runVars, NEW r \in Runs
  PROVE  Stands(r)
<1>1. CASE UNCHANGED runVars
  BY <1>1, OthersStand DEF runVars
<1> QED BY <1>1, CallStands, HostStands, ApplicationStands DEF RunNext

\* What the user has decided is undone by the user only: a paused run is executed again
\* and an exhausted budget renewed at the user's word, and a cancelled run stays
\* cancelled, over shutdowns, crashes, restarts and the host's own recovery.
THEOREM DecisionsStand == RunSpec => UserDecisionsStand
<1>1. ASSUME RunInv, [RunNext]_runVars
      PROVE  /\ \A r \in Runs : Status(r) = "suspended" /\ record[r].error = "UserPaused"
                                  /\ execution'[r] # "none" => wish'[r] = "go" /\ process = "up"
             /\ \A r \in Runs : record[r].spent /\ execution[r] = "none" /\ execution'[r] # "none"
                                  => ~record'[r].spent
             /\ \A r \in Runs : Status(r) = "cancelled" => record'[r].status = "cancelled"
  BY <1>1, StepStands DEF Stands, Status
<1> QED BY <1>1, RunAlways, PTL DEF RunSpec, UserDecisionsStand, PausedByUserStays,
           BudgetsAreTheUsers, CancelIsTerminal
=============================================================================
