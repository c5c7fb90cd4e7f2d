---------------------------- MODULE ToolWorkers ----------------------------
(***************************************************************************)
(* The tool calls of one agent run: the scheduling passes of the run's     *)
(* task forest (agent_runtime/forest), the supervised workers that execute *)
(* the calls (agent_runtime/workers/supervisor.py), and the user who       *)
(* cancels the run while calls are on their way.                           *)
(*                                                                         *)
(* Every call is a branch of the forest with one step.  Calls that change  *)
(* something are made one by one, reading calls in batches.  A call is     *)
(* executed by a coroutine of the host or, when it is isolated, by the     *)
(* worker process that the isolated calls of the run share; all of them    *)
(* are of one worker type here.  The host is one event loop: a coroutine   *)
(* is cut at its awaits.                                                   *)
(***************************************************************************)
EXTENDS Integers, Sequences, FiniteSets

CONSTANTS
  ToolCalls,
  Workloads,  \* the calls a run may make: functions from them to Kind
  MaxActive,  \* max_active_branches
  MaxDeaths,  \* bound: worker processes that die by themselves
  Nobody

\* mutating: the call changes something; isolated: a worker process executes it.
Kind == [mutating : BOOLEAN, isolated : BOOLEAN]

ASSUME ToolAssumption ==
  /\ \A w \in Workloads : DOMAIN w \subseteq ToolCalls /\ \A c \in DOMAIN w : w[c] \in Kind
  /\ IsFiniteSet(ToolCalls) /\ Nobody \notin ToolCalls
  /\ MaxActive \in Nat \ {0} /\ MaxDeaths \in Nat

VARIABLES
  workload, \* the calls of this run
  pass,     \* the task of the run: idle between two passes of the executor
  branch,   \* branch[c]: where the coroutine of the call stands
  verdict,  \* verdict[c]: how the call ends, once that is known
  entry,    \* entry[c]: the status of its row in agent_workers
  answer,   \* answer[c]: whose answer the call has taken
  uses,     \* uses[c]: the process whose channel the call was given
  workers,  \* the processes, in the order of their start
  channel,  \* the process registered in _processes, or 0
  doomed,   \* rows that cancel_run still has to look at
  deaths    \* processes that have died by themselves

callVars == <<branch, verdict, entry, answer>>
workerVars == <<uses, workers, channel>>
toolVars == <<workload, pass, callVars, workerVars, doomed, deaths>>

Isolated == {c \in DOMAIN workload : workload[c].isolated}
Mutating == {c \in DOMAIN workload : workload[c].mutating}

ToolInit ==
  /\ workload \in Workloads
  /\ pass = "idle"
  /\ branch = [c \in ToolCalls |-> "none"]
  /\ verdict = [c \in ToolCalls |-> "none"]
  /\ entry = [c \in ToolCalls |-> "none"]
  /\ answer = [c \in ToolCalls |-> Nobody]
  /\ uses = [c \in ToolCalls |-> 0]
  /\ workers = <<>>
  /\ channel = 0
  /\ doomed = {}
  /\ deaths = 0

-----------------------------------------------------------------------------
(* The passes of the executor *)

In(pc) == {c \in ToolCalls : branch[c] = pc}

\* The dict tasks of execute: what it has created and not yet collected.
Collected == {"none", "ready", "collected"}
TasksOf(b) == {c \in ToolCalls : b[c] \notin Collected}

\* A scheduling round: as many ready branches get a task as the limit has room for.
Scheduled(b) ==
  LET ready == {c \in ToolCalls : b[c] = "ready"}
      room == MaxActive - Cardinality(TasksOf(b))
  IN {[c \in ToolCalls |-> IF c \in T THEN "created" ELSE b[c]] :
        T \in {S \in SUBSET ready : \/ Cardinality(S) = room
                                    \/ S = ready /\ Cardinality(S) < room}}

\* execute_capabilities adds the branches, and execute schedules before it waits.
BeginPass(S) ==
  /\ pass = "idle"
  /\ S # {} /\ S \subseteq In("none")
  /\ S \cap Mutating = {} \/ Cardinality(S) = 1
  /\ branch' \in Scheduled([c \in ToolCalls |-> IF c \in S THEN "ready" ELSE branch[c]])
  /\ pass' = "passing"
  /\ UNCHANGED <<workload, verdict, entry, answer, workerVars, doomed, deaths>>

\* FIRST_COMPLETED: the tasks that are done are collected and their places filled.  A pass
\* without tasks is over, and its results are returned.
NextRound ==
  /\ pass = "passing" /\ In("ended") # {}
  /\ branch' \in Scheduled([c \in ToolCalls |->
                              IF branch[c] = "ended" THEN "collected" ELSE branch[c]])
  /\ pass' = IF TasksOf(branch') = {} THEN "idle" ELSE "passing"
  /\ UNCHANGED <<workload, verdict, entry, answer, workerVars, doomed, deaths>>

-----------------------------------------------------------------------------
(* One call: execute of the supervisor *)

SetBranch(c, pc) == branch' = [branch EXCEPT ![c] = pc]
Judged(c, v) == verdict' = [verdict EXCEPT ![c] = v]

Alive(n) == n # 0 /\ workers[n].alive
Killed(n) == [workers EXCEPT ![n].alive = FALSE, ![n].todo = <<>>]
ChannelOf(c) == workers[uses[c]]
SetChannel(c, w) == workers' = [workers EXCEPT ![uses[c]] = w]

\* The lock of the channel that a call leaves, whether it has it or waits for it.
Unlocked(c) ==
  IF c \in Isolated /\ ChannelOf(c).lock = c
  THEN [workers EXCEPT ![uses[c]].lock = Nobody] ELSE workers

\* An isolated call takes the registered process, whose death may not have been noticed
\* yet, or starts one.
StartCall(c) ==
  /\ branch[c] = "created"
  /\ entry' = [entry EXCEPT ![c] = "running"]
  /\ \/ c \notin Isolated /\ SetBranch(c, "working") /\ UNCHANGED uses
     \/ /\ c \in Isolated /\ channel # 0
        /\ SetBranch(c, "queued") /\ uses' = [uses EXCEPT ![c] = channel]
     \/ /\ c \in Isolated /\ ~Alive(channel)
        /\ SetBranch(c, "spawning") /\ UNCHANGED uses
  /\ UNCHANGED <<workload, pass, verdict, answer, workers, channel, doomed, deaths>>

\* The new process replaces what another call has registered in the meantime.
SpawnEnds(c) ==
  /\ branch[c] = "spawning"
  /\ workers' = Append(workers, [alive |-> TRUE, lock |-> Nobody, todo |-> <<>>, said |-> <<>>])
  /\ channel' = Len(workers')
  /\ uses' = [uses EXCEPT ![c] = channel']
  /\ SetBranch(c, "queued")
  /\ UNCHANGED <<workload, pass, verdict, entry, answer, doomed, deaths>>

\* The error of a process that cannot be started leaves the row behind.
SpawnFails(c) ==
  /\ branch[c] = "spawning"
  /\ SetBranch(c, "ended")
  /\ UNCHANGED <<workload, pass, verdict, entry, answer, workerVars, doomed, deaths>>

\* The request is written under the lock.  A process that has died is noticed at once or
\* at the end of its output, or else the write fails; only then nothing is stopped.
Send(c) ==
  /\ branch[c] = "queued" /\ ChannelOf(c).lock = Nobody
  /\ IF ChannelOf(c).alive
     THEN /\ SetChannel(c, [ChannelOf(c) EXCEPT !.lock = c, !.todo = Append(@, c)])
          /\ SetBranch(c, "sent")
          /\ UNCHANGED verdict
     ELSE /\ \/ SetBranch(c, "stopping")
             \/ SetBranch(c, "stopped")
          /\ Judged(c, "crashed")
          /\ UNCHANGED workers
  /\ UNCHANGED <<workload, pass, entry, answer, uses, channel, doomed, deaths>>

\* Faulty: any answer will do.
TakesAny(c, from) == TRUE

\* The request id of the answer is the call's.
TakesAnswer(c, from) == from = c

\* The next line of the process: the answer, an error of the tool, or the answer to a
\* request that nobody waits for any more.
Read(c) ==
  /\ branch[c] = "sent" /\ ChannelOf(c).said # <<>>
  /\ LET from == Head(ChannelOf(c).said)
     IN /\ SetChannel(c, [ChannelOf(c) EXCEPT !.said = Tail(@), !.lock = Nobody])
        /\ IF TakesAnswer(c, from)
           THEN /\ SetBranch(c, "replied")
                /\ \E v \in {"completed", "failed"} : Judged(c, v)
                /\ answer' = [answer EXCEPT ![c] = from]
           ELSE SetBranch(c, "stopping") /\ Judged(c, "crashed") /\ UNCHANGED answer
  /\ UNCHANGED <<workload, pass, entry, uses, channel, doomed, deaths>>

\* The output of the process has ended.
FindsDead(c) ==
  /\ branch[c] = "sent" /\ ~ChannelOf(c).alive /\ ChannelOf(c).said = <<>>
  /\ SetChannel(c, [ChannelOf(c) EXCEPT !.lock = Nobody])
  /\ SetBranch(c, "stopping") /\ Judged(c, "crashed")
  /\ UNCHANGED <<workload, pass, entry, answer, uses, channel, doomed, deaths>>

\* The handler of a call that is not isolated returns or raises.
HandlerEnds(c) ==
  /\ branch[c] = "working"
  /\ SetBranch(c, "replied")
  /\ \E v \in {"completed", "failed", "crashed"} : Judged(c, v)
  /\ UNCHANGED <<workload, pass, entry, answer, workerVars, doomed, deaths>>

InHand == {"queued", "sent", "working"}

\* Faulty: the process goes on with the call that was given up.
GoesOnWithout(c) == "stopped"

\* An isolated call that is given up has its process stopped.
GivesUp(c) == IF c \in Isolated THEN "stopping" ELSE "stopped"

\* The task that talks to the process is cancelled and gives its lock back.
Abandon(c, v) ==
  /\ branch[c] \in InHand
  /\ workers' = Unlocked(c)
  /\ SetBranch(c, GivesUp(c)) /\ Judged(c, v)

\* Faulty: a call waits for its worker however long that takes.
NeverTimesOut(c) == FALSE

\* wait_for: the time of the call is over.
TimesOut(c) ==
  /\ Abandon(c, "failed")
  /\ UNCHANGED <<workload, pass, entry, answer, uses, channel, doomed, deaths>>

\* _stop_process stops the process that is registered now.
StopProcess(c) ==
  /\ branch[c] = "stopping"
  /\ workers' = IF channel # 0 THEN Killed(channel) ELSE workers
  /\ channel' = 0
  /\ SetBranch(c, "stopped")
  /\ UNCHANGED <<workload, pass, verdict, entry, answer, uses, doomed, deaths>>

\* _finish; the branch of the forest ends with the call.
FinishCall(c) ==
  /\ branch[c] \in {"replied", "stopped"}
  /\ entry' = [entry EXCEPT ![c] = verdict[c]]
  /\ SetBranch(c, "ended") /\ Judged(c, "none")
  /\ uses' = [uses EXCEPT ![c] = 0]
  /\ UNCHANGED <<workload, pass, answer, workers, channel, doomed, deaths>>

CallStep(c) ==
  \/ StartCall(c)
  \/ SpawnEnds(c)
  \/ SpawnFails(c)
  \/ Send(c)
  \/ Read(c)
  \/ FindsDead(c)
  \/ HandlerEnds(c)
  \/ TimesOut(c)
  \/ StopProcess(c)
  \/ FinishCall(c)

-----------------------------------------------------------------------------
(* The worker processes *)

\* A process executes its requests in order and writes the answer of each.
Works(n) ==
  /\ Alive(n) /\ workers[n].todo # <<>>
  /\ workers' = [workers EXCEPT ![n].said = Append(@, Head(workers[n].todo)), ![n].todo = Tail(@)]
  /\ UNCHANGED <<workload, pass, callVars, uses, channel, doomed, deaths>>

\* A process dies by itself.
WorkerDies(n) ==
  /\ Alive(n) /\ deaths < MaxDeaths
  /\ workers' = Killed(n)
  /\ deaths' = deaths + 1
  /\ UNCHANGED <<workload, pass, callVars, uses, channel, doomed>>

-----------------------------------------------------------------------------
(* The end of the run *)

\* Faulty: only the workers with a pid.
WorkersWithPid == {c \in ToolCalls : entry[c] = "running" /\ uses[c] # 0}

\* active_workers.
ActiveWorkers == {c \in ToolCalls : entry[c] = "running"}

\* cancel of the runtime: the task of the run is cancelled, which wakes it later, and
\* cancel_run reads the rows.
CancelTools ==
  /\ pass \in {"idle", "passing"}
  /\ pass' = "stopping"
  /\ doomed' = ActiveWorkers
  /\ UNCHANGED <<workload, callVars, workerVars, deaths>>

\* The task of the run is woken after the tasks it has created before: it leaves the
\* executor, whose tasks go on, and enters close_run.
Unwinds ==
  /\ pass = "stopping" /\ In("created") = {}
  /\ pass' = "closing"
  /\ doomed' = ActiveWorkers
  /\ UNCHANGED <<workload, callVars, workerVars, deaths>>

\* The run has its result, and enters close_run.
RunReturns ==
  /\ pass = "idle"
  /\ pass' = "closing"
  /\ doomed' = ActiveWorkers
  /\ UNCHANGED <<workload, callVars, workerVars, deaths>>

\* A call is cancelled if there is a task that executes it.
CancelWorker(c) ==
  /\ c \in doomed
  /\ doomed' = doomed \ {c}
  /\ \/ Abandon(c, "cancelled")
     \/ branch[c] \notin InHand /\ UNCHANGED <<branch, verdict, workers>>
  /\ UNCHANGED <<workload, pass, entry, answer, uses, channel, deaths>>

\* close_run stops the registered process at last.
RunCloses ==
  /\ pass = "closing" /\ doomed = {}
  /\ workers' = IF channel # 0 THEN Killed(channel) ELSE workers
  /\ channel' = 0
  /\ pass' = "closed"
  /\ UNCHANGED <<workload, callVars, uses, doomed, deaths>>

\* The host is lost and starts again: recover_crashed.  Its processes live on until they
\* have done what they were asked.
HostLost ==
  /\ pass # "lost"
  /\ pass' = "lost"
  /\ branch' = [c \in ToolCalls |-> IF branch[c] = "none" THEN "none" ELSE "collected"]
  /\ entry' = [c \in ToolCalls |-> IF entry[c] = "running" THEN "crashed" ELSE entry[c]]
  /\ verdict' = [c \in ToolCalls |-> "none"]
  /\ uses' = [c \in ToolCalls |-> 0]
  /\ channel' = 0
  /\ doomed' = {}
  /\ UNCHANGED <<workload, answer, workers, deaths>>

ToolNext ==
  \/ \E S \in SUBSET DOMAIN workload : BeginPass(S)
  \/ NextRound
  \/ \E c \in ToolCalls : CallStep(c) \/ CancelWorker(c)
  \/ \E n \in 1 .. Len(workers) : Works(n) \/ WorkerDies(n)
  \/ CancelTools
  \/ Unwinds
  \/ RunReturns
  \/ RunCloses
  \/ HostLost

ToolSpec == ToolInit /\ [][ToolNext]_toolVars

\* The loop runs what is ready, and every call has a timeout.
ToolFairSpec ==
  /\ ToolSpec
  /\ WF_toolVars(NextRound)
  /\ \A c \in ToolCalls : WF_toolVars(CallStep(c))

-----------------------------------------------------------------------------

Verdicts == {"completed", "failed", "cancelled", "crashed"}
Positions ==
  Collected \cup InHand
    \cup {"created", "spawning", "replied", "stopping", "stopped", "ended"}

\* Types.
ToolTypeOK ==
  /\ workload \in Workloads
  /\ pass \in {"idle", "passing", "stopping", "closing", "closed", "lost"}
  /\ branch \in [ToolCalls -> Positions]
  /\ verdict \in [ToolCalls -> Verdicts \cup {"none"}]
  /\ entry \in [ToolCalls -> Verdicts \cup {"none", "running"}]
  /\ answer \in [ToolCalls -> ToolCalls \cup {Nobody}]
  /\ uses \in [ToolCalls -> 0 .. Len(workers)]
  /\ \A n \in 1 .. Len(workers) :
       /\ workers[n].alive \in BOOLEAN
       /\ workers[n].lock \in Isolated \cup {Nobody}
       /\ {workers[n].todo, workers[n].said} \subseteq Seq(Isolated)
  /\ channel \in 0 .. Len(workers)
  /\ doomed \subseteq ToolCalls
  /\ deaths \in 0 .. MaxDeaths

\* A process is working on a call, or will.
IsWorkedOn(c) ==
  \E n \in 1 .. Len(workers) : \E i \in 1 .. Len(workers[n].todo) : workers[n].todo[i] = c

\* The result of a call is the answer to its own request, though the calls of a run share
\* a process, and one that was given up leaves its answer for the next (the request id in
\* execute of _ProcessChannel).
AnswersAreTheirOwn ==
  \A c \in Isolated : entry[c] = "completed" => answer[c] = c

\* When the row of a call that changes something says that it has been completed, has
\* failed or was cancelled, no process is working on it any more (execute stops the
\* process before it writes the row); only of a crashed call the outcome is unknown.
EndedChangesAreStill ==
  \A c \in Mutating \cap Isolated :
    entry[c] \in {"completed", "failed", "cancelled"} => ~IsWorkedOn(c)

\* When a run is closed, nothing that the host executes for it goes on: close_run finds
\* every call in the rows, those the executor has started last included.
ClosedRunsAreQuiet ==
  pass = "closed" => \A c \in DOMAIN workload \ Isolated : branch[c] \notin {"created", "working"}

\* What the host records of a call is what has happened to it (WorkerSupervisor.execute,
\* cancel_run and close_run).
CallsAreAccountedFor == AnswersAreTheirOwn /\ EndedChangesAreStill /\ ClosedRunsAreQuiet

\* Every pass of ForestExecutor.execute ends, whatever becomes of its workers.
PassesEnd == pass = "passing" ~> pass # "passing"

\* Fails: no process works for a run that is closed.  The contract of the runtime calls
\* isolated operations cancellable workers.
ClosedRunsAreStill == pass = "closed" => \A c \in Isolated : ~IsWorkedOn(c)

\* Fails: a call crashes only if a process has died by itself, as a local failure is said
\* not to cancel its siblings.
SiblingsSurvive == deaths = 0 /\ pass # "lost" => \A c \in Isolated : entry[c] # "crashed"

\* Fails: a row that says running is the row of a call that something executes.
RowsEnd == \A c \in ToolCalls : entry[c] = "running" => branch[c] \notin {"ended", "collected"}
=============================================================================
