------------------------- MODULE ToolWorkersProofs -------------------------
(***************************************************************************)
(* Theorems about ToolWorkers, for any finite set of calls, any workloads  *)
(* and any limit of the executor: what the host records of a call is what  *)
(* has happened to it.                                                     *)
(***************************************************************************)
EXTENDS ToolWorkers, FiniteSetTheorems, SequenceTheorems, TLAPS

\* A call that the executor has nothing to do with, or nothing any more.
NotOpen == {"none", "collected"}

\* A call that is executed, and on record as running.
Executed == {"spawning", "queued", "sent", "working", "replied", "stopping", "stopped"}

WorkerType ==
  [alive: BOOLEAN, lock: Isolated \cup {Nobody}, todo: Seq(Isolated), said: Seq(Isolated)]

\* The values and the process sequence W, the registered process ch and the pass p are
\* parameters, so that a definition may be used of a state and of the next one.
HasTodo(W, c, n) == \E i \in 1 .. Len(W[n].todo) : W[n].todo[i] = c
HasSaid(W, c, n) == \E i \in 1 .. Len(W[n].said) : W[n].said[i] = c
OnceTodo(W, c, n) ==
  \A i, j \in 1 .. Len(W[n].todo) : W[n].todo[i] = c /\ W[n].todo[j] = c => i = j

\* One call: where it may stand, and that it has been completed by its own answer.
CallFits(c, isolated, b, v, e, a, u) ==
  /\ b = "working" => ~isolated
  /\ b \in {"spawning", "queued", "sent", "stopping"} => isolated
  /\ b \in {"queued", "sent"} => u # 0
  /\ b \in Executed => e = "running"
  /\ isolated /\ (v = "completed" \/ e = "completed") => a = c

\* The request of a call is written once, to one process, which answers it once.
TraceFits(c, b, W) ==
  \A n \in 1 .. Len(W) :
    /\ b \in {"none", "ready", "created", "spawning", "queued"}
         => ~HasTodo(W, c, n) /\ ~HasSaid(W, c, n)
    /\ OnceTodo(W, c, n)
    /\ HasTodo(W, c, n) => \A m \in 1 .. Len(W) : /\ ~HasSaid(W, c, m)
                                                  /\ HasTodo(W, c, m) => m = n

\* A call that changes something: the process that works on it is the one that its end
\* would stop, unless the host itself is lost.
ChangeFits(c, b, e, u, W, ch, p) ==
  /\ \A n \in 1 .. Len(W) : HasTodo(W, c, n) =>
       \/ (p = "lost" /\ e = "crashed")
       \/ (p # "lost" /\ n = ch /\ b \in {"sent", "stopping"})
  /\ b \in {"queued", "sent"} => u = ch \/ (ch = 0 /\ ~W[u].alive)

\* A call that changes something is executed alone.
ChangesAreAlone ==
  \A c \in Mutating : branch[c] \notin NotOpen
    => \A d \in ToolCalls \ {c} : branch[d] \in NotOpen

\* Between two passes no call is open, and a run that closes has none that could still
\* begin and knows the ones that run in the host.
PassFits ==
  /\ pass \in {"idle", "lost"} => \A c \in ToolCalls : branch[c] \in NotOpen
  /\ pass \in {"closing", "closed"} =>
       \A c \in ToolCalls : branch[c] # "created" /\ (branch[c] = "working" => c \in doomed)
  /\ pass = "closed" => doomed = {}

ToolTypes ==
  /\ workload \in Workloads
  /\ pass \in {"idle", "passing", "stopping", "closing", "closed", "lost"}
  /\ branch \in [ToolCalls -> Positions]
  /\ verdict \in [ToolCalls -> Verdicts \cup {"none"}]
  /\ entry \in [ToolCalls -> Verdicts \cup {"none", "running"}]
  /\ answer \in [ToolCalls -> ToolCalls \cup {Nobody}]
  /\ workers \in Seq(WorkerType)
  /\ uses \in [ToolCalls -> 0 .. Len(workers)]
  /\ channel \in 0 .. Len(workers)
  /\ doomed \subseteq ToolCalls
  /\ deaths \in 0 .. MaxDeaths

CallsFit ==
  \A c \in ToolCalls : /\ CallFits(c, c \in Isolated, branch[c], verdict[c], entry[c], answer[c], uses[c])
                       /\ TraceFits(c, branch[c], workers)
ChangesFit ==
  \A c \in Mutating \cap Isolated :
    ChangeFits(c, branch[c], entry[c], uses[c], workers, channel, pass)

ToolInv == ToolTypes /\ CallsFit /\ ChangesFit /\ ChangesAreAlone /\ PassFits

-----------------------------------------------------------------------------
(* The processes *)

\* From W to V the processes have got no request or answer of call c more, and those that
\* were dead are dead.
NoMoreOf(c, W, V) ==
  /\ Len(W) <= Len(V)
  /\ \A n \in 1 .. Len(W) : V[n].alive => W[n].alive
  /\ \A n \in 1 .. Len(V) :
       /\ HasTodo(V, c, n) => n <= Len(W) /\ HasTodo(W, c, n)
       /\ HasSaid(V, c, n) => n <= Len(W) /\ HasSaid(W, c, n)
       /\ n > Len(W) \/ OnceTodo(W, c, n) => OnceTodo(V, c, n)

LEMMA KindsAreCalls ==
  ASSUME workload \in Workloads
  PROVE  Isolated \subseteq ToolCalls /\ Mutating \subseteq ToolCalls
BY ToolAssumption DEF Isolated, Mutating

LEMMA SameKinds ==
  ASSUME workload' = workload
  PROVE  Isolated' = Isolated /\ Mutating' = Mutating /\ WorkerType' = WorkerType
BY DEF Isolated, Mutating, WorkerType

LEMMA FieldTypes ==
  ASSUME NEW w \in WorkerType
  PROVE  /\ w.alive \in BOOLEAN /\ w.lock \in Isolated \cup {Nobody}
         /\ w.todo \in Seq(Isolated) /\ w.said \in Seq(Isolated)
BY DEF WorkerType

LEMMA ProcessAt ==
  ASSUME ToolTypes, NEW n \in 1 .. Len(workers)
  PROVE  /\ workers[n] \in WorkerType
         /\ workers[n].alive \in BOOLEAN
         /\ workers[n].lock \in Isolated \cup {Nobody}
         /\ workers[n].todo \in Seq(Isolated) /\ workers[n].said \in Seq(Isolated)
<1>1. workers[n] \in WorkerType
  BY ElementOfSeq DEF ToolTypes
<1> QED BY <1>1, FieldTypes

\* A process has a shorter queue of requests and of answers than before.
LEMMA ShorterQueues ==
  ASSUME NEW W \in Seq(WorkerType), NEW V \in Seq(WorkerType), Len(V) = Len(W),
         NEW n \in 1 .. Len(W), \A m \in 1 .. Len(W) : m # n => V[m] = W[m],
         V[n].alive => W[n].alive,
         V[n].todo \in {W[n].todo, <<>>},
         V[n].said = W[n].said \/ (W[n].said # <<>> /\ V[n].said = Tail(W[n].said)),
         NEW c
  PROVE  NoMoreOf(c, W, V)
<1>1. HasTodo(V, c, n) => HasTodo(W, c, n)
  BY DEF HasTodo
<1>2. HasSaid(V, c, n) => HasSaid(W, c, n)
  <2>1. CASE V[n].said = W[n].said
    BY <2>1 DEF HasSaid
  <2>2. CASE W[n].said # <<>> /\ V[n].said = Tail(W[n].said)
    <3>1. W[n].said \in Seq(Isolated)
      BY ElementOfSeq, FieldTypes
    <3>2. Len(W[n].said) \in Nat
      BY <3>1, LenProperties
    <3>3. \A i \in 1 .. Len(V[n].said) : i + 1 \in 1 .. Len(W[n].said) /\ V[n].said[i] = W[n].said[i + 1]
      BY <2>2, <3>1, <3>2, HeadTailProperties
    <3> QED BY <3>3 DEF HasSaid
  <2> QED BY <2>1, <2>2
<1>3. OnceTodo(W, c, n) => OnceTodo(V, c, n)
  BY DEF OnceTodo
<1>4. ASSUME NEW m \in 1 .. Len(W), m # n
      PROVE  /\ HasTodo(V, c, m) => HasTodo(W, c, m)
             /\ HasSaid(V, c, m) => HasSaid(W, c, m)
             /\ OnceTodo(W, c, m) => OnceTodo(V, c, m)
  BY <1>4 DEF HasTodo, HasSaid, OnceTodo
<1>5. \A m \in 1 .. Len(W) : V[m].alive => W[m].alive
  OBVIOUS
<1>6. Len(W) \in Nat
  BY LenProperties
<1> QED BY <1>1, <1>2, <1>3, <1>4, <1>5, <1>6 DEF NoMoreOf

LEMMA NothingChanges ==
  ASSUME NEW W \in Seq(WorkerType), NEW c
  PROVE  NoMoreOf(c, W, W)
<1>1. Len(W) \in Nat
  BY LenProperties
<1> QED BY <1>1 DEF NoMoreOf

\* A new process has been asked nothing.
LEMMA OneMoreProcess ==
  ASSUME NEW W \in Seq(WorkerType), NEW V \in Seq(WorkerType), Len(V) = Len(W) + 1,
         \A m \in 1 .. Len(W) : V[m] = W[m],
         V[Len(V)].todo = <<>>, V[Len(V)].said = <<>>, NEW c
  PROVE  NoMoreOf(c, W, V)
<1>1. Len(W) \in Nat
  BY LenProperties
<1>2. /\ ~HasTodo(V, c, Len(V)) /\ ~HasSaid(V, c, Len(V)) /\ OnceTodo(V, c, Len(V))
  BY DEF HasTodo, HasSaid, OnceTodo
<1>3. ASSUME NEW m \in 1 .. Len(W)
      PROVE  /\ HasTodo(V, c, m) => HasTodo(W, c, m)
             /\ HasSaid(V, c, m) => HasSaid(W, c, m)
             /\ OnceTodo(W, c, m) => OnceTodo(V, c, m)
             /\ V[m].alive => W[m].alive
  BY DEF HasTodo, HasSaid, OnceTodo
<1> QED BY <1>1, <1>2, <1>3 DEF NoMoreOf

\* With no more requests and answers of a call its traces stay in order.
LEMMA TraceKept ==
  ASSUME NEW c, NEW b, NEW new, NEW W, NEW V, Len(W) \in Nat, Len(V) \in Nat,
         TraceFits(c, b, W), NoMoreOf(c, W, V),
         new \in {"none", "ready", "created", "spawning", "queued"}
           => b \in {"none", "ready", "created", "spawning", "queued"}
  PROVE  TraceFits(c, new, V)
<1> SUFFICES ASSUME NEW n \in 1 .. Len(V)
             PROVE  /\ new \in {"none", "ready", "created", "spawning", "queued"}
                         => ~HasTodo(V, c, n) /\ ~HasSaid(V, c, n)
                    /\ OnceTodo(V, c, n)
                    /\ HasTodo(V, c, n) => \A m \in 1 .. Len(V) : /\ ~HasSaid(V, c, m)
                                                                  /\ HasTodo(V, c, m) => m = n
  BY DEF TraceFits
<1>1. \A m \in 1 .. Len(V) : m <= Len(W) => m \in 1 .. Len(W)
  OBVIOUS
<1>2. OnceTodo(V, c, n)
  BY <1>1 DEF TraceFits, NoMoreOf
<1>3. new \in {"none", "ready", "created", "spawning", "queued"}
        => ~HasTodo(V, c, n) /\ ~HasSaid(V, c, n)
  BY <1>1 DEF TraceFits, NoMoreOf
<1>4. HasTodo(V, c, n) => \A m \in 1 .. Len(V) : ~HasSaid(V, c, m) /\ (HasTodo(V, c, m) => m = n)
  BY <1>1 DEF TraceFits, NoMoreOf
<1> QED BY <1>2, <1>3, <1>4

-----------------------------------------------------------------------------
(* Steps of one call *)

\* Everything that is known of one call.
LEMMA OfCall ==
  ASSUME ToolInv, NEW c \in ToolCalls
  PROVE  /\ CallFits(c, c \in Isolated, branch[c], verdict[c], entry[c], answer[c], uses[c])
         /\ TraceFits(c, branch[c], workers)
         /\ c \in Mutating \cap Isolated
              => ChangeFits(c, branch[c], entry[c], uses[c], workers, channel, pass)
         /\ branch[c] \in Positions /\ verdict[c] \in Verdicts \cup {"none"}
         /\ entry[c] \in Verdicts \cup {"none", "running"}
         /\ answer[c] \in ToolCalls \cup {Nobody} /\ uses[c] \in 0 .. Len(workers)
         /\ Len(workers) \in Nat /\ channel \in 0 .. Len(workers)
         /\ workers \in Seq(WorkerType)
         /\ branch[c] \notin NotOpen => pass \notin {"idle", "lost"}
<1>1. ToolTypes
  BY DEF ToolInv
<1>2. Len(workers) \in Nat
  BY <1>1, LenProperties DEF ToolTypes
<1> QED BY <1>1, <1>2 DEF ToolInv, ToolTypes, CallsFit, ChangesFit, PassFits

\* What a step of call c leaves alone.
OthersKeep(c) ==
  /\ workload' = workload /\ pass' = pass /\ doomed' \in {doomed, doomed \ {c}}
  /\ \A d \in ToolCalls \ {c} :
       /\ branch'[d] = branch[d] /\ verdict'[d] = verdict[d] /\ entry'[d] = entry[d]
       /\ answer'[d] = answer[d] /\ uses'[d] = uses[d]
       /\ NoMoreOf(d, workers, workers')

LEMMA StepOfOneCall ==
  ASSUME ToolInv, ToolTypes', NEW c \in ToolCalls, OthersKeep(c), branch[c] \notin NotOpen,
         CallFits(c, c \in Isolated, branch'[c], verdict'[c], entry'[c], answer'[c], uses'[c]),
         TraceFits(c, branch'[c], workers'),
         c \in Mutating \cap Isolated
           => ChangeFits(c, branch'[c], entry'[c], uses'[c], workers', channel', pass),
         branch'[c] # "created", branch'[c] = "working" => branch[c] = "created"
  PROVE  ToolInv'
<1>1. Isolated' = Isolated /\ Mutating' = Mutating
  BY SameKinds DEF OthersKeep
<1>2. Len(workers) \in Nat /\ Len(workers') \in Nat
  BY LenProperties DEF ToolInv, ToolTypes
<1>3. pass' = pass /\ pass \notin {"idle", "lost"}
  BY OfCall DEF OthersKeep
<1>4. CallsFit'
  <2> SUFFICES ASSUME NEW d \in ToolCalls, d # c
               PROVE  /\ CallFits(d, d \in Isolated, branch'[d], verdict'[d], entry'[d], answer'[d], uses'[d])
                      /\ TraceFits(d, branch'[d], workers')
    BY <1>1 DEF CallsFit
  <2>1. CallFits(d, d \in Isolated, branch'[d], verdict'[d], entry'[d], answer'[d], uses'[d])
    BY OfCall DEF OthersKeep
  <2>2. TraceFits(d, branch'[d], workers')
    BY <1>2, OfCall, TraceKept DEF OthersKeep
  <2> QED BY <1>1, <2>1, <2>2 DEF CallFits
<1>5. ASSUME NEW d \in Mutating, d \in ToolCalls, d # c
      PROVE  branch[d] \in NotOpen
  BY <1>5 DEF ToolInv, ChangesAreAlone
<1>6. ChangesFit'
  <2> SUFFICES ASSUME NEW d \in Mutating \cap Isolated, d # c
               PROVE  ChangeFits(d, branch'[d], entry'[d], uses'[d], workers', channel', pass')
    BY <1>1, <1>3 DEF ChangesFit
  <2>1. d \in ToolCalls
    BY KindsAreCalls DEF ToolInv, ToolTypes
  <2>2. branch[d] \in NotOpen /\ branch'[d] = branch[d]
    BY <1>5, <2>1 DEF OthersKeep
  <2>3. \A n \in 1 .. Len(workers) : ~HasTodo(workers, d, n)
    BY <1>3, <2>1, <2>2, OfCall DEF ChangeFits, NotOpen
  <2>4. \A n \in 1 .. Len(workers') : ~HasTodo(workers', d, n)
    BY <1>2, <2>1, <2>3 DEF OthersKeep, NoMoreOf
  <2> QED BY <2>2, <2>4 DEF ChangeFits, NotOpen
<1>7. ChangesAreAlone'
  <2>1. Mutating \subseteq ToolCalls
    BY KindsAreCalls DEF ToolInv, ToolTypes
  <2> SUFFICES ASSUME NEW m \in Mutating, branch'[m] \notin NotOpen,
                      NEW d \in ToolCalls \ {m}
               PROVE  branch'[d] \in NotOpen
    BY <1>1 DEF ChangesAreAlone
  <2>2. m = c
    BY <1>5, <2>1 DEF OthersKeep
  <2> QED BY <2>2 DEF OthersKeep, ToolInv, ChangesAreAlone
<1>8. PassFits'
  BY <1>3 DEF PassFits, ToolInv, OthersKeep
<1> QED BY <1>4, <1>6, <1>7, <1>8 DEF ToolInv

LEMMA TypesKept ==
  ASSUME ToolTypes, workload' = workload,
         pass' \in {"idle", "passing", "stopping", "closing", "closed", "lost"},
         branch' \in [ToolCalls -> Positions],
         verdict' \in [ToolCalls -> Verdicts \cup {"none"}],
         entry' \in [ToolCalls -> Verdicts \cup {"none", "running"}],
         answer' \in [ToolCalls -> ToolCalls \cup {Nobody}],
         workers' \in Seq(WorkerType),
         uses' \in [ToolCalls -> 0 .. Len(workers')],
         channel' \in 0 .. Len(workers'), doomed' \subseteq ToolCalls, deaths' \in 0 .. MaxDeaths
  PROVE  ToolTypes'
BY SameKinds DEF ToolTypes

\* A step that leaves the processes alone.
LEMMA SameWorkers ==
  ASSUME ToolInv, NEW c \in ToolCalls, workers' = workers, workload' = workload, pass' = pass,
         doomed' \in {doomed, doomed \ {c}},
         \A d \in ToolCalls \ {c} :
           /\ branch'[d] = branch[d] /\ verdict'[d] = verdict[d] /\ entry'[d] = entry[d]
           /\ answer'[d] = answer[d] /\ uses'[d] = uses[d]
  PROVE  OthersKeep(c)
BY NothingChanges DEF OthersKeep, ToolInv, ToolTypes

LEMMA StartStep ==
  ASSUME ToolInv, NEW c \in ToolCalls, StartCall(c)
  PROVE  ToolInv'
<1>1. /\ branch[c] = "created" /\ branch[c] \notin NotOpen
      /\ entry' = [entry EXCEPT ![c] = "running"]
      /\ workload' = workload /\ pass' = pass /\ verdict' = verdict /\ answer' = answer
      /\ workers' = workers /\ channel' = channel /\ doomed' = doomed /\ deaths' = deaths
  BY DEF StartCall, NotOpen
<1>2. ToolTypes
  BY DEF ToolInv
<1>3. PICK pc \in {"working", "queued", "spawning"}, u \in 0 .. Len(workers) :
        /\ branch' = [branch EXCEPT ![c] = pc] /\ uses' = [uses EXCEPT ![c] = u]
        /\ pc = "working" <=> c \notin Isolated
        /\ pc = "queued" => u = channel /\ channel # 0
  <2>1. uses = [uses EXCEPT ![c] = uses[c]] /\ uses[c] \in 0 .. Len(workers)
        /\ channel \in 0 .. Len(workers)
    BY <1>2 DEF ToolTypes
  <2>2. CASE c \notin Isolated /\ SetBranch(c, "working") /\ UNCHANGED uses
    BY <2>1, <2>2 DEF SetBranch
  <2>3. CASE c \in Isolated /\ channel # 0 /\ SetBranch(c, "queued") /\ uses' = [uses EXCEPT ![c] = channel]
    BY <2>1, <2>3 DEF SetBranch
  <2>4. CASE c \in Isolated /\ SetBranch(c, "spawning") /\ UNCHANGED uses
    BY <2>1, <2>4 DEF SetBranch
  <2> QED BY <2>2, <2>3, <2>4 DEF StartCall
<1>4. ToolTypes'
  BY <1>1, <1>2, <1>3, TypesKept DEF ToolTypes, Positions, InHand
<1>5. /\ branch'[c] = pc /\ uses'[c] = u /\ entry'[c] = "running"
      /\ \A d \in ToolCalls \ {c} :
           branch'[d] = branch[d] /\ entry'[d] = entry[d] /\ uses'[d] = uses[d]
  BY <1>1, <1>2, <1>3 DEF ToolTypes
<1>6. OthersKeep(c)
  BY <1>1, <1>5, SameWorkers
<1>7. CallFits(c, c \in Isolated, branch'[c], verdict'[c], entry'[c], answer'[c], uses'[c])
  BY <1>1, <1>3, <1>5, OfCall DEF CallFits, Executed
<1>8. TraceFits(c, branch'[c], workers')
  BY <1>1, <1>3, <1>5, OfCall DEF TraceFits
<1>9. c \in Mutating \cap Isolated
        => ChangeFits(c, branch'[c], entry'[c], uses'[c], workers', channel', pass)
  BY <1>1, <1>3, <1>5, OfCall DEF ChangeFits
<1> QED BY <1>1, <1>3, <1>4, <1>5, <1>6, <1>7, <1>8, <1>9, StepOfOneCall

LEMMA SpawnStep ==
  ASSUME ToolInv, NEW c \in ToolCalls, SpawnEnds(c)
  PROVE  ToolInv'
<1> DEFINE new == [alive |-> TRUE, lock |-> Nobody, todo |-> <<>>, said |-> <<>>]
<1>1. /\ branch[c] = "spawning" /\ branch[c] \notin NotOpen
      /\ workers' = Append(workers, new)
      /\ channel' = Len(workers') /\ uses' = [uses EXCEPT ![c] = channel']
      /\ branch' = [branch EXCEPT ![c] = "queued"]
      /\ workload' = workload /\ pass' = pass /\ verdict' = verdict /\ entry' = entry
      /\ answer' = answer /\ doomed' = doomed /\ deaths' = deaths
  BY DEF SpawnEnds, SetBranch, NotOpen
<1>2. ToolTypes
  BY DEF ToolInv
<1>3. new \in WorkerType /\ new.todo = <<>> /\ new.said = <<>>
  BY EmptySeq DEF WorkerType
<1> HIDE DEF new
<1>4. /\ workers' \in Seq(WorkerType) /\ Len(workers) \in Nat /\ Len(workers') = Len(workers) + 1
      /\ \A m \in 1 .. Len(workers) : workers'[m] = workers[m]
      /\ workers'[Len(workers')] = new
  BY <1>1, <1>2, <1>3, AppendProperties, LenProperties DEF ToolTypes
<1>5. ToolTypes'
  BY <1>1, <1>2, <1>4, TypesKept DEF ToolTypes, Positions, InHand
<1>6. /\ branch'[c] = "queued" /\ uses'[c] = Len(workers') /\ channel' = Len(workers')
      /\ \A d \in ToolCalls \ {c} : branch'[d] = branch[d] /\ uses'[d] = uses[d]
  BY <1>1, <1>2 DEF ToolTypes
<1>7. \A d \in ToolCalls : NoMoreOf(d, workers, workers')
  BY <1>2, <1>3, <1>4, OneMoreProcess DEF ToolTypes
<1>8. OthersKeep(c)
  BY <1>1, <1>6, <1>7 DEF OthersKeep
<1>9. CallFits(c, c \in Isolated, branch'[c], verdict'[c], entry'[c], answer'[c], uses'[c])
  BY <1>1, <1>4, <1>6, OfCall DEF CallFits, Executed
<1>10. TraceFits(c, branch'[c], workers')
  BY <1>1, <1>4, <1>6, <1>7, OfCall, TraceKept
<1>11. ChangeFits(c, branch'[c], entry'[c], uses'[c], workers', channel', pass)
  BY <1>6, <1>10 DEF ChangeFits, TraceFits
<1> QED BY <1>1, <1>5, <1>6, <1>8, <1>9, <1>10, <1>11, StepOfOneCall

LEMMA SpawnFailsStep ==
  ASSUME ToolInv, NEW c \in ToolCalls, SpawnFails(c)
  PROVE  ToolInv'
<1>1. /\ branch[c] = "spawning" /\ branch[c] \notin NotOpen
      /\ branch' = [branch EXCEPT ![c] = "ended"]
      /\ workload' = workload /\ pass' = pass /\ verdict' = verdict /\ entry' = entry
      /\ answer' = answer /\ uses' = uses /\ workers' = workers /\ channel' = channel
      /\ doomed' = doomed /\ deaths' = deaths
  BY DEF SpawnFails, SetBranch, workerVars, NotOpen
<1>2. ToolTypes
  BY DEF ToolInv
<1>3. ToolTypes'
  BY <1>1, <1>2, TypesKept DEF ToolTypes, Positions
<1>4. branch'[c] = "ended" /\ \A d \in ToolCalls \ {c} : branch'[d] = branch[d]
  BY <1>1, <1>2 DEF ToolTypes
<1>5. OthersKeep(c)
  BY <1>1, <1>4, SameWorkers
<1>6. CallFits(c, c \in Isolated, branch'[c], verdict'[c], entry'[c], answer'[c], uses'[c])
  BY <1>1, <1>4, OfCall DEF CallFits, Executed
<1>7. TraceFits(c, branch'[c], workers')
  BY <1>1, <1>4, OfCall DEF TraceFits
<1>8. c \in Mutating \cap Isolated
        => ChangeFits(c, branch'[c], entry'[c], uses'[c], workers', channel', pass)
  BY <1>1, <1>4, OfCall DEF ChangeFits
<1> QED BY <1>1, <1>3, <1>4, <1>5, <1>6, <1>7, <1>8, StepOfOneCall

-----------------------------------------------------------------------------
(* The request of a call *)

LEMMA RequestOfAnother ==
  ASSUME NEW W \in Seq(WorkerType), NEW V \in Seq(WorkerType), Len(V) = Len(W),
         NEW n \in 1 .. Len(W), \A m \in 1 .. Len(W) : m # n => V[m] = W[m],
         V[n].alive => W[n].alive, V[n].said = W[n].said,
         NEW c \in Isolated, V[n].todo = Append(W[n].todo, c), NEW d, d # c
  PROVE  NoMoreOf(d, W, V)
<1>1. /\ W[n].todo \in Seq(Isolated) /\ Len(W[n].todo) \in Nat
      /\ Len(V[n].todo) = Len(W[n].todo) + 1
      /\ \A i \in 1 .. Len(W[n].todo) : V[n].todo[i] = W[n].todo[i]
      /\ V[n].todo[Len(V[n].todo)] = c
  BY ElementOfSeq, FieldTypes, AppendProperties, LenProperties
<1>2. \A i \in 1 .. Len(V[n].todo) : V[n].todo[i] = d => i \in 1 .. Len(W[n].todo) /\ W[n].todo[i] = d
  BY <1>1
<1>3. /\ HasTodo(V, d, n) => HasTodo(W, d, n)
      /\ HasSaid(V, d, n) => HasSaid(W, d, n)
      /\ OnceTodo(W, d, n) => OnceTodo(V, d, n)
  BY <1>2 DEF HasTodo, HasSaid, OnceTodo
<1>4. ASSUME NEW m \in 1 .. Len(W), m # n
      PROVE  /\ HasTodo(V, d, m) => HasTodo(W, d, m)
             /\ HasSaid(V, d, m) => HasSaid(W, d, m)
             /\ OnceTodo(W, d, m) => OnceTodo(V, d, m)
  BY <1>4 DEF HasTodo, HasSaid, OnceTodo
<1>5. \A m \in 1 .. Len(W) : V[m].alive => W[m].alive
  OBVIOUS
<1>6. Len(W) \in Nat
  BY LenProperties
<1> QED BY <1>3, <1>4, <1>5, <1>6 DEF NoMoreOf

\* The call's own request is at one place, and not answered yet.
LEMMA RequestOfOne ==
  ASSUME NEW W \in Seq(WorkerType), NEW V \in Seq(WorkerType), Len(V) = Len(W),
         NEW n \in 1 .. Len(W), \A m \in 1 .. Len(W) : m # n => V[m] = W[m],
         V[n].said = W[n].said,
         NEW c \in Isolated, V[n].todo = Append(W[n].todo, c), TraceFits(c, "queued", W)
  PROVE  /\ TraceFits(c, "sent", V)
         /\ \A m \in 1 .. Len(V) : HasTodo(V, c, m) => m = n
<1>1. /\ W[n].todo \in Seq(Isolated) /\ Len(W[n].todo) \in Nat
      /\ Len(V[n].todo) = Len(W[n].todo) + 1
      /\ \A i \in 1 .. Len(W[n].todo) : V[n].todo[i] = W[n].todo[i]
      /\ V[n].todo[Len(V[n].todo)] = c
  BY ElementOfSeq, FieldTypes, AppendProperties, LenProperties
<1>2. \A m \in 1 .. Len(W) : ~HasTodo(W, c, m) /\ ~HasSaid(W, c, m)
  BY DEF TraceFits
<1>3. \A i \in 1 .. Len(V[n].todo) : V[n].todo[i] = c => i = Len(V[n].todo)
  BY <1>1, <1>2 DEF HasTodo
<1>4. OnceTodo(V, c, n) /\ ~HasSaid(V, c, n)
  BY <1>2, <1>3 DEF OnceTodo, HasSaid
<1>5. ASSUME NEW m \in 1 .. Len(W), m # n
      PROVE  ~HasTodo(V, c, m) /\ ~HasSaid(V, c, m) /\ OnceTodo(V, c, m)
  BY <1>2, <1>5 DEF HasTodo, HasSaid, OnceTodo
<1> QED BY <1>4, <1>5 DEF TraceFits

LEMMA SendStep ==
  ASSUME ToolInv, NEW c \in ToolCalls, Send(c)
  PROVE  ToolInv'
<1>1. /\ branch[c] = "queued" /\ branch[c] \notin NotOpen
      /\ workload' = workload /\ pass' = pass /\ entry' = entry /\ answer' = answer
      /\ uses' = uses /\ channel' = channel /\ doomed' = doomed /\ deaths' = deaths
  BY DEF Send, NotOpen
<1>2. ToolTypes
  BY DEF ToolInv
<1>3. c \in Isolated /\ uses[c] \in 1 .. Len(workers) /\ entry[c] = "running"
  BY <1>1, OfCall DEF CallFits, Executed
<1>4. CASE ChannelOf(c).alive
  <2> DEFINE w == [ChannelOf(c) EXCEPT !.lock = c, !.todo = Append(@, c)]
  <2>1. /\ w \in WorkerType /\ w.todo = Append(workers[uses[c]].todo, c)
        /\ w.said = workers[uses[c]].said /\ w.alive = workers[uses[c]].alive
    BY <1>2, <1>3, ProcessAt, AppendProperties DEF ChannelOf, WorkerType
  <2>2. /\ workers' = [workers EXCEPT ![uses[c]] = w]
        /\ branch' = [branch EXCEPT ![c] = "sent"] /\ verdict' = verdict
    BY <1>4 DEF Send, SetChannel, SetBranch
  <2> HIDE DEF w
  <2>3. /\ workers' \in Seq(WorkerType) /\ Len(workers') = Len(workers)
        /\ workers'[uses[c]] = w
        /\ \A m \in 1 .. Len(workers) : m # uses[c] => workers'[m] = workers[m]
    BY <1>2, <1>3, <2>1, <2>2, ExceptSeq DEF ToolTypes
  <2>4. ToolTypes'
    BY <1>1, <1>2, <2>2, <2>3, TypesKept DEF ToolTypes, Positions, InHand
  <2>5. branch'[c] = "sent" /\ \A d \in ToolCalls \ {c} : branch'[d] = branch[d]
    BY <1>2, <2>2 DEF ToolTypes
  <2>6. \A d \in ToolCalls \ {c} : NoMoreOf(d, workers, workers')
    BY <1>2, <1>3, <2>1, <2>3, RequestOfAnother DEF ToolTypes
  <2>7. OthersKeep(c)
    BY <1>1, <2>2, <2>5, <2>6 DEF OthersKeep
  <2>8. CallFits(c, c \in Isolated, branch'[c], verdict'[c], entry'[c], answer'[c], uses'[c])
    BY <1>1, <1>3, <2>2, <2>5, OfCall DEF CallFits, Executed
  <2>9. TraceFits(c, "queued", workers)
    BY <1>1, OfCall
  <2>10. /\ TraceFits(c, branch'[c], workers')
         /\ \A m \in 1 .. Len(workers') : HasTodo(workers', c, m) => m = uses[c]
    BY <1>2, <1>3, <2>1, <2>3, <2>5, <2>9, RequestOfOne DEF ToolTypes
  <2>11. pass # "lost"
    BY <1>1, OfCall
  <2>12. c \in Mutating \cap Isolated => uses[c] = channel
    BY <1>1, <1>4, OfCall DEF ChangeFits, ChannelOf
  <2>13. c \in Mutating \cap Isolated
          => ChangeFits(c, branch'[c], entry'[c], uses'[c], workers', channel', pass)
    BY <1>1, <2>5, <2>10, <2>11, <2>12 DEF ChangeFits
  <2> QED BY <1>1, <2>4, <2>5, <2>7, <2>8, <2>10, <2>13, StepOfOneCall
<1>5. CASE ~ChannelOf(c).alive
  <2>1. PICK pc \in {"stopping", "stopped"} : branch' = [branch EXCEPT ![c] = pc]
    BY <1>5 DEF Send, SetBranch
  <2>2. workers' = workers /\ verdict' = [verdict EXCEPT ![c] = "crashed"]
    BY <1>5 DEF Send, Judged
  <2>3. ToolTypes'
    BY <1>1, <1>2, <2>1, <2>2, TypesKept DEF ToolTypes, Positions, Verdicts
  <2>4. /\ branch'[c] = pc /\ verdict'[c] = "crashed"
        /\ \A d \in ToolCalls \ {c} : branch'[d] = branch[d] /\ verdict'[d] = verdict[d]
    BY <1>2, <2>1, <2>2 DEF ToolTypes
  <2>5. OthersKeep(c)
    BY <1>1, <2>2, <2>4, SameWorkers
  <2>6. CallFits(c, c \in Isolated, branch'[c], verdict'[c], entry'[c], answer'[c], uses'[c])
    BY <1>1, <1>3, <2>4 DEF CallFits, Executed
  <2>7. TraceFits(c, branch'[c], workers')
    BY <1>1, <2>2, <2>4, OfCall DEF TraceFits
  <2>8. c \in Mutating \cap Isolated
          => ChangeFits(c, branch'[c], entry'[c], uses'[c], workers', channel', pass)
    BY <1>1, <2>2, <2>4, OfCall DEF ChangeFits
  <2> QED BY <1>1, <2>3, <2>4, <2>5, <2>6, <2>7, <2>8, StepOfOneCall
<1> QED BY <1>4, <1>5

-----------------------------------------------------------------------------
(* The answer, or the end without one *)

LEMMA ReplacedProcess ==
  ASSUME ToolTypes, NEW n \in 1 .. Len(workers), NEW w \in WorkerType,
         workers' = [workers EXCEPT ![n] = w]
  PROVE  /\ workers' \in Seq(WorkerType) /\ Len(workers') = Len(workers)
         /\ workers'[n] = w
         /\ \A m \in 1 .. Len(workers) : m # n => workers'[m] = workers[m]
BY ExceptSeq DEF ToolTypes

\* The process of a call keeps or loses what it was to do, and says what it said or less.
LEMMA OneProcess ==
  ASSUME ToolTypes, NEW n \in 1 .. Len(workers), NEW w \in WorkerType,
         workers' = [workers EXCEPT ![n] = w],
         w.alive => workers[n].alive,
         w.todo \in {workers[n].todo, <<>>},
         w.said = workers[n].said \/ (workers[n].said # <<>> /\ w.said = Tail(workers[n].said))
  PROVE  /\ workers' \in Seq(WorkerType) /\ Len(workers') = Len(workers)
         /\ workers'[n] = w
         /\ \A d : NoMoreOf(d, workers, workers')
<1>1. /\ workers' \in Seq(WorkerType) /\ Len(workers') = Len(workers)
      /\ workers'[n] = w
      /\ \A m \in 1 .. Len(workers) : m # n => workers'[m] = workers[m]
  BY ReplacedProcess
<1>2. ASSUME NEW d PROVE NoMoreOf(d, workers, workers')
  <2>1. PICK V : V = workers'
    OBVIOUS
  <2>2. /\ workers \in Seq(WorkerType) /\ V \in Seq(WorkerType) /\ Len(V) = Len(workers)
        /\ V[n] = w /\ \A m \in 1 .. Len(workers) : m # n => V[m] = workers[m]
    BY <1>1, <2>1 DEF ToolTypes
  <2>3. NoMoreOf(d, workers, V)
    BY <2>2, ShorterQueues
  <2> QED BY <2>1, <2>3
<1> QED BY <1>1, <1>2

\* A call that changes something and whose process gets no more to do.
LEMMA ChangeKept ==
  ASSUME NEW c, NEW b, NEW new \in {"sent", "stopping"}, NEW e, NEW u, NEW W, NEW V, NEW ch, NEW p,
         Len(W) \in Nat, Len(V) = Len(W), u \in 1 .. Len(W), b \in {"queued", "sent"},
         new = "sent" => b = "sent",
         ChangeFits(c, b, e, u, W, ch, p), NoMoreOf(c, W, V)
  PROVE  ChangeFits(c, new, e, u, V, ch, p)
<1>1. \A n \in 1 .. Len(V) : HasTodo(V, c, n) => n \in 1 .. Len(W) /\ HasTodo(W, c, n)
  BY DEF NoMoreOf
<1>2. V[u].alive => W[u].alive
  BY DEF NoMoreOf
<1> QED BY <1>1, <1>2 DEF ChangeFits

LEMMA ReadStep ==
  ASSUME ToolInv, NEW c \in ToolCalls, Read(c)
  PROVE  ToolInv'
<1>1. /\ branch[c] = "sent" /\ branch[c] \notin NotOpen /\ workers[uses[c]].said # <<>>
      /\ workload' = workload /\ pass' = pass /\ entry' = entry
      /\ uses' = uses /\ channel' = channel /\ doomed' = doomed /\ deaths' = deaths
  BY DEF Read, NotOpen, ChannelOf
<1>2. ToolTypes
  BY DEF ToolInv
<1>3. c \in Isolated /\ uses[c] \in 1 .. Len(workers) /\ entry[c] = "running"
  BY <1>1, OfCall DEF CallFits, Executed
<1> DEFINE n == uses[c]
           from == Head(workers[n].said)
           w == [workers[n] EXCEPT !.said = Tail(@), !.lock = Nobody]
<1>4. /\ w \in WorkerType /\ w.alive = workers[n].alive /\ w.todo = workers[n].todo
      /\ w.said = Tail(workers[n].said)
  BY <1>1, <1>2, <1>3, ProcessAt, HeadTailProperties DEF WorkerType
<1>5. workers' = [workers EXCEPT ![n] = w]
  BY DEF Read, SetChannel, ChannelOf
<1> HIDE DEF w
<1>6. /\ workers' \in Seq(WorkerType) /\ Len(workers') = Len(workers)
      /\ \A d : NoMoreOf(d, workers, workers')
  BY <1>1, <1>2, <1>3, <1>4, <1>5, OneProcess
<1>7. PICK pc \in {"replied", "stopping"}, v \in {"completed", "failed", "crashed"} :
        /\ branch' = [branch EXCEPT ![c] = pc] /\ verdict' = [verdict EXCEPT ![c] = v]
        /\ pc = "replied" => from = c /\ answer' = [answer EXCEPT ![c] = c]
        /\ pc = "stopping" => v = "crashed" /\ answer' = answer
  <2>1. CASE TakesAnswer(c, from)
    BY <2>1 DEF Read, SetBranch, Judged, TakesAnswer, ChannelOf
  <2>2. CASE ~TakesAnswer(c, from)
    BY <2>2 DEF Read, SetBranch, Judged, ChannelOf
  <2> QED BY <2>1, <2>2
<1>8. ToolTypes'
  BY <1>1, <1>2, <1>6, <1>7, TypesKept DEF ToolTypes, Positions, Verdicts
<1>9. /\ branch'[c] = pc /\ verdict'[c] = v
      /\ pc = "replied" => answer'[c] = c
      /\ \A d \in ToolCalls \ {c} : /\ branch'[d] = branch[d] /\ verdict'[d] = verdict[d]
                                    /\ answer'[d] = answer[d]
  BY <1>2, <1>7 DEF ToolTypes
<1>10. OthersKeep(c)
  BY <1>1, <1>6, <1>9 DEF OthersKeep
<1>11. CallFits(c, c \in Isolated, branch'[c], verdict'[c], entry'[c], answer'[c], uses'[c])
  BY <1>1, <1>3, <1>7, <1>9 DEF CallFits, Executed
<1>12. Len(workers) \in Nat /\ TraceFits(c, branch[c], workers)
  BY OfCall
<1>13. TraceFits(c, branch'[c], workers')
  BY <1>1, <1>6, <1>9, <1>12, TraceKept
<1>14. pc = "replied" => \A m \in 1 .. Len(workers') : ~HasTodo(workers', c, m)
  <2>1. /\ workers[n].said \in Seq(Isolated)
        /\ Len(workers[n].said) \in Nat /\ Len(workers[n].said) # 0
    BY <1>1, <1>2, <1>3, ProcessAt, EmptySeq
  <2>2. from = workers[n].said[1] /\ 1 \in 1 .. Len(workers[n].said)
    BY <1>1, <2>1
  <2>3. pc = "replied" => HasSaid(workers, c, n)
    BY <1>7, <2>2 DEF HasSaid
  <2>4. pc = "replied" => \A m \in 1 .. Len(workers) : ~HasTodo(workers, c, m)
    BY <1>3, <1>12, <2>3 DEF TraceFits
  <2> QED BY <1>6, <2>4 DEF NoMoreOf
<1>15. c \in Mutating \cap Isolated
         => ChangeFits(c, branch'[c], entry'[c], uses'[c], workers', channel', pass)
  <2>1. CASE pc = "replied"
    BY <1>9, <1>14, <2>1 DEF ChangeFits
  <2>2. ASSUME pc = "stopping", c \in Mutating \cap Isolated
        PROVE  ChangeFits(c, "stopping", entry[c], uses[c], workers', channel, pass)
    <3>1. ChangeFits(c, "sent", entry[c], uses[c], workers, channel, pass)
      BY <1>1, <2>2, OfCall
    <3> QED BY <1>3, <1>6, <1>12, <3>1, ChangeKept
  <2> QED BY <1>1, <1>9, <2>1, <2>2
<1> QED BY <1>1, <1>7, <1>8, <1>9, <1>10, <1>11, <1>13, <1>15, StepOfOneCall

\* A call loses its process or is given up, and its process is to be stopped.
LEMMA ToStopping ==
  ASSUME ToolInv, NEW c \in ToolCalls, branch[c] \in {"queued", "sent"},
         NEW v \in Verdicts \ {"completed"},
         branch' = [branch EXCEPT ![c] = "stopping"], verdict' = [verdict EXCEPT ![c] = v],
         workers' \in Seq(WorkerType), Len(workers') = Len(workers),
         \A d : NoMoreOf(d, workers, workers'),
         workload' = workload, pass' = pass, entry' = entry, answer' = answer,
         uses' = uses, channel' = channel, doomed' \in {doomed, doomed \ {c}}, deaths' = deaths
  PROVE  ToolInv'
<1>1. ToolTypes
  BY DEF ToolInv
<1>2. c \in Isolated /\ uses[c] \in 1 .. Len(workers) /\ entry[c] = "running"
  BY OfCall DEF CallFits, Executed
<1>3. ToolTypes'
  BY <1>1, TypesKept DEF ToolTypes, Positions
<1>4. /\ branch'[c] = "stopping" /\ verdict'[c] = v /\ branch[c] \notin NotOpen
      /\ \A d \in ToolCalls \ {c} : branch'[d] = branch[d] /\ verdict'[d] = verdict[d]
  BY <1>1 DEF ToolTypes, NotOpen
<1>5. OthersKeep(c)
  BY <1>4 DEF OthersKeep
<1>6. CallFits(c, c \in Isolated, branch'[c], verdict'[c], entry'[c], answer'[c], uses'[c])
  BY <1>2, <1>4 DEF CallFits, Executed
<1>7. Len(workers) \in Nat /\ TraceFits(c, branch[c], workers)
  BY OfCall
<1>8. TraceFits(c, branch'[c], workers')
  BY <1>4, <1>7, TraceKept
<1>9. c \in Mutating \cap Isolated
        => ChangeFits(c, branch'[c], entry'[c], uses'[c], workers', channel', pass)
  <2> SUFFICES ASSUME c \in Mutating \cap Isolated
               PROVE  ChangeFits(c, "stopping", entry[c], uses[c], workers', channel, pass)
    BY <1>4
  <2>1. ChangeFits(c, branch[c], entry[c], uses[c], workers, channel, pass)
    BY OfCall
  <2> QED BY <1>2, <1>7, <2>1, ChangeKept
<1> QED BY <1>3, <1>4, <1>5, <1>6, <1>8, <1>9, StepOfOneCall

LEMMA FindsDeadStep ==
  ASSUME ToolInv, NEW c \in ToolCalls, FindsDead(c)
  PROVE  ToolInv'
<1> DEFINE w == [ChannelOf(c) EXCEPT !.lock = Nobody]
<1>1. /\ branch[c] = "sent" /\ workers' = [workers EXCEPT ![uses[c]] = w]
      /\ branch' = [branch EXCEPT ![c] = "stopping"]
      /\ verdict' = [verdict EXCEPT ![c] = "crashed"]
      /\ workload' = workload /\ pass' = pass /\ entry' = entry /\ answer' = answer
      /\ uses' = uses /\ channel' = channel /\ doomed' = doomed /\ deaths' = deaths
  BY DEF FindsDead, SetChannel, SetBranch, Judged
<1>2. uses[c] \in 1 .. Len(workers)
  BY <1>1, OfCall DEF CallFits
<1>3. /\ w \in WorkerType /\ w.alive = workers[uses[c]].alive
      /\ w.todo = workers[uses[c]].todo /\ w.said = workers[uses[c]].said
  BY <1>2, ProcessAt DEF ChannelOf, WorkerType, ToolInv
<1> HIDE DEF w
<1>4. /\ workers' \in Seq(WorkerType) /\ Len(workers') = Len(workers)
      /\ \A d : NoMoreOf(d, workers, workers')
  BY <1>1, <1>2, <1>3, OneProcess DEF ToolInv
<1> QED BY <1>1, <1>4, ToStopping DEF Verdicts

\* A call that is not isolated and has ended in the host.
LEMMA InsideEnds ==
  ASSUME ToolInv, NEW c \in ToolCalls, branch[c] = "working",
         NEW v \in Verdicts, NEW pc \in {"replied", "stopped"},
         branch' = [branch EXCEPT ![c] = pc], verdict' = [verdict EXCEPT ![c] = v],
         workers' = workers, workload' = workload, pass' = pass, entry' = entry,
         answer' = answer, uses' = uses, channel' = channel,
         doomed' \in {doomed, doomed \ {c}}, deaths' = deaths
  PROVE  ToolInv'
<1>1. ToolTypes
  BY DEF ToolInv
<1>2. c \notin Isolated /\ entry[c] = "running"
  BY OfCall DEF CallFits, Executed
<1>3. ToolTypes'
  BY <1>1, TypesKept DEF ToolTypes, Positions
<1>4. /\ branch'[c] = pc /\ verdict'[c] = v /\ branch[c] \notin NotOpen
      /\ \A d \in ToolCalls \ {c} : branch'[d] = branch[d] /\ verdict'[d] = verdict[d]
  BY <1>1 DEF ToolTypes, NotOpen
<1>5. OthersKeep(c)
  BY <1>4, SameWorkers
<1>6. CallFits(c, c \in Isolated, branch'[c], verdict'[c], entry'[c], answer'[c], uses'[c])
  BY <1>2, <1>4 DEF CallFits
<1>7. TraceFits(c, branch'[c], workers')
  BY <1>4, OfCall DEF TraceFits
<1> QED BY <1>2, <1>3, <1>4, <1>5, <1>6, <1>7, StepOfOneCall

LEMMA HandlerStep ==
  ASSUME ToolInv, NEW c \in ToolCalls, HandlerEnds(c)
  PROVE  ToolInv'
BY InsideEnds DEF HandlerEnds, SetBranch, Judged, workerVars, Verdicts

\* A call that is given up, by its time or by the end of the run.
LEMMA AbandonStep ==
  ASSUME ToolInv, NEW c \in ToolCalls, NEW v \in Verdicts \ {"completed"}, Abandon(c, v),
         workload' = workload, pass' = pass, entry' = entry, answer' = answer,
         uses' = uses, channel' = channel, doomed' \in {doomed, doomed \ {c}}, deaths' = deaths
  PROVE  ToolInv'
<1>1. /\ branch[c] \in {"queued", "sent", "working"} /\ workers' = Unlocked(c)
      /\ branch' = [branch EXCEPT ![c] = GivesUp(c)] /\ verdict' = [verdict EXCEPT ![c] = v]
  BY DEF Abandon, InHand, SetBranch, Judged
<1>2. CASE branch[c] = "working"
  <2>1. c \notin Isolated
    BY <1>2, OfCall DEF CallFits
  <2>2. GivesUp(c) = "stopped" /\ Unlocked(c) = workers
    BY <2>1 DEF GivesUp, Unlocked
  <2> QED BY <1>1, <1>2, <2>2, InsideEnds
<1>3. CASE branch[c] \in {"queued", "sent"}
  <2>1. c \in Isolated /\ uses[c] \in 1 .. Len(workers)
    BY <1>3, OfCall DEF CallFits
  <2>2. GivesUp(c) = "stopping"
    BY <2>1 DEF GivesUp
  <2>3. /\ workers' \in Seq(WorkerType) /\ Len(workers') = Len(workers)
        /\ \A d : NoMoreOf(d, workers, workers')
    <3>1. CASE workers' = workers
      BY <3>1, NothingChanges DEF ToolInv, ToolTypes
    <3>2. CASE workers' = [workers EXCEPT ![uses[c]].lock = Nobody]
      <4> DEFINE w == [workers[uses[c]] EXCEPT !.lock = Nobody]
      <4>1. /\ w \in WorkerType /\ w.alive = workers[uses[c]].alive
            /\ w.todo = workers[uses[c]].todo /\ w.said = workers[uses[c]].said
        BY <2>1, ProcessAt DEF WorkerType, ToolInv
      <4>2. workers' = [workers EXCEPT ![uses[c]] = w]
        BY <3>2
      <4> HIDE DEF w
      <4> QED BY <2>1, <4>1, <4>2, OneProcess DEF ToolInv
    <3> QED BY <1>1, <3>1, <3>2 DEF Unlocked
  <2> QED BY <1>1, <1>3, <2>2, <2>3, ToStopping
<1> QED BY <1>1, <1>2, <1>3

LEMMA TimesOutStep ==
  ASSUME ToolInv, NEW c \in ToolCalls, TimesOut(c)
  PROVE  ToolInv'
BY AbandonStep DEF TimesOut, Verdicts

\* A process that is stopped.
LEMMA KilledProcess ==
  ASSUME ToolTypes, NEW n \in 1 .. Len(workers), workers' = Killed(n)
  PROVE  /\ workers' \in Seq(WorkerType) /\ Len(workers') = Len(workers)
         /\ \A d : NoMoreOf(d, workers, workers')
         /\ ~workers'[n].alive /\ \A d : ~HasTodo(workers', d, n)
<1> DEFINE w == [workers[n] EXCEPT !.alive = FALSE, !.todo = <<>>]
<1>1. /\ w \in WorkerType /\ w.alive = FALSE
      /\ w.todo = <<>> /\ w.said = workers[n].said
  BY ProcessAt, EmptySeq DEF WorkerType
<1>2. workers' = [workers EXCEPT ![n] = w]
  BY DEF Killed
<1> HIDE DEF w
<1>3. /\ workers' \in Seq(WorkerType) /\ Len(workers') = Len(workers) /\ workers'[n] = w
      /\ \A d : NoMoreOf(d, workers, workers')
  BY <1>1, <1>2, OneProcess
<1>4. \A d : ~HasTodo(workers', d, n)
  BY <1>1, <1>3 DEF HasTodo
<1> QED BY <1>1, <1>3, <1>4

LEMMA PassStopStep ==
  ASSUME ToolInv, NEW c \in ToolCalls, StopProcess(c)
  PROVE  ToolInv'
<1>1. /\ branch[c] = "stopping" /\ branch[c] \notin NotOpen
      /\ branch' = [branch EXCEPT ![c] = "stopped"] /\ channel' = 0
      /\ workload' = workload /\ pass' = pass /\ verdict' = verdict /\ entry' = entry
      /\ answer' = answer /\ uses' = uses /\ doomed' = doomed /\ deaths' = deaths
  BY DEF StopProcess, SetBranch, NotOpen
<1>2. /\ ToolTypes /\ Len(workers) \in Nat /\ channel \in 0 .. Len(workers)
      /\ workers \in Seq(WorkerType)
  BY OfCall DEF ToolInv
<1>3. /\ workers' \in Seq(WorkerType) /\ Len(workers') = Len(workers)
      /\ \A d : NoMoreOf(d, workers, workers')
      /\ channel # 0 => \A d : ~HasTodo(workers', d, channel)
  <2>1. CASE channel # 0
    BY <1>2, <2>1, KilledProcess DEF StopProcess
  <2>2. CASE channel = 0
    BY <1>2, <2>2, NothingChanges DEF StopProcess
  <2> QED BY <2>1, <2>2
<1>4. ToolTypes'
  BY <1>1, <1>2, <1>3, TypesKept DEF ToolTypes, Positions
<1>5. branch'[c] = "stopped" /\ \A d \in ToolCalls \ {c} : branch'[d] = branch[d]
  BY <1>1, <1>2 DEF ToolTypes
<1>6. OthersKeep(c)
  BY <1>1, <1>3, <1>5 DEF OthersKeep
<1>7. CallFits(c, c \in Isolated, branch'[c], verdict'[c], entry'[c], answer'[c], uses'[c])
  BY <1>1, <1>5, OfCall DEF CallFits, Executed
<1>8. TraceFits(c, branch'[c], workers')
  BY <1>2, <1>3, <1>5, OfCall, TraceKept
<1>9. c \in Mutating \cap Isolated
        => ChangeFits(c, branch'[c], entry'[c], uses'[c], workers', channel', pass)
  <2> SUFFICES ASSUME c \in Mutating \cap Isolated,
                      NEW n \in 1 .. Len(workers'), HasTodo(workers', c, n)
               PROVE  FALSE
    BY <1>5 DEF ChangeFits
  <2>1. HasTodo(workers, c, n) /\ n \in 1 .. Len(workers)
    BY <1>3 DEF NoMoreOf
  <2>2. n = channel
    BY <1>1, <2>1, OfCall DEF ChangeFits
  <2> QED BY <1>3, <2>1, <2>2
<1> QED BY <1>1, <1>4, <1>5, <1>6, <1>7, <1>8, <1>9, StepOfOneCall

LEMMA FinishStep ==
  ASSUME ToolInv, NEW c \in ToolCalls, FinishCall(c)
  PROVE  ToolInv'
<1>1. /\ branch[c] \in {"replied", "stopped"} /\ branch[c] \notin NotOpen
      /\ entry' = [entry EXCEPT ![c] = verdict[c]]
      /\ branch' = [branch EXCEPT ![c] = "ended"]
      /\ verdict' = [verdict EXCEPT ![c] = "none"]
      /\ uses' = [uses EXCEPT ![c] = 0]
      /\ workload' = workload /\ pass' = pass /\ answer' = answer /\ workers' = workers
      /\ channel' = channel /\ doomed' = doomed /\ deaths' = deaths
  BY DEF FinishCall, SetBranch, Judged, NotOpen
<1>2. ToolTypes /\ Len(workers) \in Nat
  BY OfCall DEF ToolInv
<1>3. ToolTypes'
  BY <1>1, <1>2, TypesKept DEF ToolTypes, Positions
<1>4. /\ branch'[c] = "ended" /\ verdict'[c] = "none" /\ entry'[c] = verdict[c] /\ uses'[c] = 0
      /\ \A d \in ToolCalls \ {c} : /\ branch'[d] = branch[d] /\ verdict'[d] = verdict[d]
                                    /\ entry'[d] = entry[d] /\ uses'[d] = uses[d]
  BY <1>1, <1>2 DEF ToolTypes
<1>5. OthersKeep(c)
  BY <1>1, <1>4, SameWorkers
<1>6. CallFits(c, c \in Isolated, branch'[c], verdict'[c], entry'[c], answer'[c], uses'[c])
  BY <1>1, <1>4, OfCall DEF CallFits, Executed
<1>7. TraceFits(c, branch'[c], workers')
  BY <1>1, <1>4, OfCall DEF TraceFits
<1>8. c \in Mutating \cap Isolated
        => ChangeFits(c, branch'[c], entry'[c], uses'[c], workers', channel', pass)
  BY <1>1, <1>4, OfCall DEF ChangeFits
<1> QED BY <1>1, <1>3, <1>4, <1>5, <1>6, <1>7, <1>8, StepOfOneCall

LEMMA CallCancelStep ==
  ASSUME ToolInv, NEW c \in ToolCalls, CancelWorker(c)
  PROVE  ToolInv'
<1>1. CASE Abandon(c, "cancelled")
  BY <1>1, AbandonStep DEF CancelWorker, Verdicts
<1>2. CASE branch[c] \notin InHand /\ UNCHANGED <<branch, verdict, workers>>
  <2>1. ToolTypes'
    BY <1>2, TypesKept DEF ToolInv, ToolTypes, CancelWorker
  <2>2. /\ Isolated' = Isolated /\ Mutating' = Mutating
    BY SameKinds DEF CancelWorker
  <2>3. PassFits'
    BY <1>2 DEF ToolInv, PassFits, CancelWorker, InHand
  <2> QED BY <1>2, <2>1, <2>2, <2>3
          DEF ToolInv, CallsFit, ChangesFit, ChangesAreAlone, CancelWorker
<1> QED BY <1>1, <1>2 DEF CancelWorker

-----------------------------------------------------------------------------
(* The passes of the executor *)

\* A scheduling round gives tasks to branches that are ready, and to all of them if it
\* gives none although nothing is executed.
LEMMA ARound ==
  ASSUME NEW b \in [ToolCalls -> Positions], NEW x \in Scheduled(b)
  PROVE  /\ x \in [ToolCalls -> Positions]
         /\ \A c \in ToolCalls : x[c] = b[c] \/ (b[c] = "ready" /\ x[c] = "created")
         /\ TasksOf(x) = {} => \A c \in ToolCalls : x[c] \in NotOpen
<1> DEFINE ready == {c \in ToolCalls : b[c] = "ready"}
<1>1. PICK T \in SUBSET ready :
        /\ \/ Cardinality(T) = MaxActive - Cardinality(TasksOf(b))
           \/ T = ready
        /\ x = [c \in ToolCalls |-> IF c \in T THEN "created" ELSE b[c]]
  BY DEF Scheduled
<1>2. /\ x \in [ToolCalls -> Positions]
      /\ \A c \in ToolCalls : x[c] = b[c] \/ (b[c] = "ready" /\ x[c] = "created")
  BY <1>1 DEF Positions
<1>3. ASSUME TasksOf(x) = {}, NEW c \in ToolCalls
      PROVE  x[c] \in NotOpen
  <2>1. \A d \in ToolCalls : x[d] \in {"none", "ready", "collected"}
    BY <1>3 DEF TasksOf, Collected
  <2>2. T = {}
    BY <1>1, <2>1
  <2>3. TasksOf(b) = {}
    BY <1>1, <2>1, <2>2 DEF TasksOf, Collected
  <2>4. Cardinality({}) = 0
    BY FS_EmptySet
  <2>5. MaxActive - 0 # 0
    BY ToolAssumption
  <2>6. ready = {}
    BY <1>1, <2>2, <2>3, <2>4, <2>5
  <2> QED BY <1>1, <2>1, <2>2, <2>6 DEF NotOpen
<1> QED BY <1>2, <1>3

\* A round, with the branches before it and what has become of them.
LEMMA RoundStep ==
  ASSUME ToolInv, pass \in {"idle", "passing"}, branch' \in [ToolCalls -> Positions],
         \A c \in ToolCalls : \/ branch'[c] = branch[c]
                              \/ branch[c] \in {"none", "ready"} /\ branch'[c] \in {"ready", "created"}
                              \/ branch[c] = "ended" /\ branch'[c] = "collected",
         pass' \in {"idle", "passing"},
         pass' = "idle" => \A c \in ToolCalls : branch'[c] \in NotOpen,
         ChangesAreAlone',
         UNCHANGED <<workload, verdict, entry, answer, workerVars, doomed, deaths>>
  PROVE  ToolInv'
<1>1. ToolTypes'
  BY TypesKept DEF ToolInv, ToolTypes, workerVars
<1>2. Isolated' = Isolated /\ Mutating' = Mutating
  BY SameKinds
<1>3. CallsFit'
  <2> SUFFICES ASSUME NEW c \in ToolCalls
               PROVE  /\ CallFits(c, c \in Isolated, branch'[c], verdict[c], entry[c], answer[c], uses[c])
                      /\ TraceFits(c, branch'[c], workers)
    BY <1>2 DEF CallsFit, workerVars
  <2> QED BY OfCall DEF CallFits, TraceFits, Executed
<1>4. ChangesFit'
  <2> SUFFICES ASSUME NEW c \in Mutating \cap Isolated
               PROVE  ChangeFits(c, branch'[c], entry[c], uses[c], workers, channel, pass')
    BY <1>2 DEF ChangesFit, workerVars
  <2>1. c \in ToolCalls
    BY KindsAreCalls DEF ToolInv, ToolTypes
  <2> QED BY <2>1, OfCall DEF ChangeFits
<1>5. PassFits'
  BY DEF PassFits
<1> QED BY <1>1, <1>3, <1>4, <1>5 DEF ToolInv

LEMMA PassBeginStep ==
  ASSUME ToolInv, NEW S \in SUBSET DOMAIN workload, BeginPass(S)
  PROVE  ToolInv'
<1> DEFINE b == [c \in ToolCalls |-> IF c \in S THEN "ready" ELSE branch[c]]
<1>1. /\ pass = "idle" /\ pass' = "passing" /\ branch' \in Scheduled(b)
      /\ UNCHANGED <<workload, verdict, entry, answer, workerVars, doomed, deaths>>
      /\ S \cap Mutating = {} \/ Cardinality(S) = 1
      /\ \A c \in S : branch[c] = "none"
  BY DEF BeginPass, In
<1>2. b \in [ToolCalls -> Positions]
  BY DEF ToolInv, ToolTypes, Positions, Collected
<1>3. /\ branch' \in [ToolCalls -> Positions]
      /\ \A c \in ToolCalls : branch'[c] = b[c] \/ (b[c] = "ready" /\ branch'[c] = "created")
  BY <1>1, <1>2, ARound
<1>4. \A c \in ToolCalls : branch[c] \in NotOpen
  BY <1>1 DEF ToolInv, PassFits
<1>5. \A c \in ToolCalls : IF c \in S THEN branch[c] = "none" /\ branch'[c] \in {"ready", "created"}
                           ELSE branch'[c] = branch[c]
  BY <1>1, <1>3, <1>4 DEF NotOpen
<1>6. Isolated' = Isolated /\ Mutating' = Mutating
  BY <1>1, SameKinds
<1>7. ChangesAreAlone'
  <2> SUFFICES ASSUME NEW m \in Mutating, branch'[m] \notin NotOpen, NEW d \in ToolCalls \ {m}
               PROVE  branch'[d] \in NotOpen
    BY <1>6 DEF ChangesAreAlone
  <2>1. m \in ToolCalls
    BY KindsAreCalls DEF ToolInv, ToolTypes
  <2>2. m \in S
    BY <1>4, <1>5, <2>1
  <2>3. S = {m}
    <3>1. Cardinality(S) = 1
      BY <1>1, <2>2
    <3>2. IsFiniteSet(S)
      <4>1. S \subseteq ToolCalls
        BY ToolAssumption DEF ToolInv, ToolTypes
      <4> QED BY <4>1, ToolAssumption, FS_Subset
    <3>3. PICK x : S = {x}
      BY <3>1, <3>2, FS_Singleton
    <3> QED BY <2>2, <3>3
  <2> QED BY <1>4, <1>5, <2>3
<1> QED BY <1>1, <1>3, <1>5, <1>7, RoundStep

LEMMA NextStep ==
  ASSUME ToolInv, NextRound
  PROVE  ToolInv'
<1> DEFINE b == [c \in ToolCalls |-> IF branch[c] = "ended" THEN "collected" ELSE branch[c]]
<1>1. /\ pass = "passing" /\ branch' \in Scheduled(b)
      /\ pass' = IF TasksOf(branch') = {} THEN "idle" ELSE "passing"
      /\ UNCHANGED <<workload, verdict, entry, answer, workerVars, doomed, deaths>>
  BY DEF NextRound
<1>2. b \in [ToolCalls -> Positions]
  BY DEF ToolInv, ToolTypes, Positions, Collected
<1>3. /\ branch' \in [ToolCalls -> Positions]
      /\ \A c \in ToolCalls : branch'[c] = b[c] \/ (b[c] = "ready" /\ branch'[c] = "created")
      /\ TasksOf(branch') = {} => \A c \in ToolCalls : branch'[c] \in NotOpen
  BY <1>1, <1>2, ARound
<1>4. \A c \in ToolCalls : \/ branch'[c] = branch[c]
                           \/ branch[c] = "ready" /\ branch'[c] = "created"
                           \/ branch[c] = "ended" /\ branch'[c] = "collected"
  BY <1>3
<1>5. Isolated' = Isolated /\ Mutating' = Mutating
  BY <1>1, SameKinds
<1>6. ChangesAreAlone'
  <2>1. \A c \in ToolCalls : branch[c] \in NotOpen => branch'[c] \in NotOpen
    BY <1>4 DEF NotOpen
  <2>2. Mutating \subseteq ToolCalls
    BY KindsAreCalls DEF ToolInv, ToolTypes
  <2> QED BY <1>5, <2>1, <2>2 DEF ChangesAreAlone, ToolInv
<1>7. pass' \in {"idle", "passing"} /\ (pass' = "idle" => TasksOf(branch') = {})
  BY <1>1
<1> QED BY <1>1, <1>3, <1>4, <1>6, <1>7, RoundStep

-----------------------------------------------------------------------------
(* The processes and the end of the run *)

\* A process answers its first request.
LEMMA AnsweringProcess ==
  ASSUME ToolTypes, NEW n \in 1 .. Len(workers), workers[n].todo # <<>>,
         workers' = [workers EXCEPT ![n].said = Append(@, Head(workers[n].todo)), ![n].todo = Tail(@)]
  PROVE  /\ workers' \in Seq(WorkerType) /\ Len(workers') = Len(workers)
         /\ \A m \in 1 .. Len(workers) : m # n => workers'[m] = workers[m]
         /\ workers'[n].alive = workers[n].alive
         /\ workers'[n].todo = Tail(workers[n].todo)
         /\ workers'[n].said = Append(workers[n].said, Head(workers[n].todo))
<1> DEFINE first == Head(workers[n].todo)
           w == [workers[n] EXCEPT !.said = Append(@, first), !.todo = Tail(@)]
<1>1. /\ workers[n] \in WorkerType /\ workers[n].todo \in Seq(Isolated)
      /\ workers[n].said \in Seq(Isolated)
  BY ProcessAt
<1>2. first \in Isolated /\ Tail(workers[n].todo) \in Seq(Isolated)
  BY <1>1, HeadTailProperties
<1> HIDE DEF first
<1>3. Append(workers[n].said, first) \in Seq(Isolated)
  BY <1>1, <1>2, AppendProperties
<1>4. /\ w \in WorkerType /\ w.alive = workers[n].alive
      /\ w.todo = Tail(workers[n].todo) /\ w.said = Append(workers[n].said, first)
  BY <1>1, <1>2, <1>3 DEF WorkerType
<1>5. workers' = [workers EXCEPT ![n] = w]
  BY <1>1 DEF first, WorkerType, ToolTypes
<1> HIDE DEF w
<1>6. /\ workers' \in Seq(WorkerType) /\ Len(workers') = Len(workers) /\ workers'[n] = w
      /\ \A m \in 1 .. Len(workers) : m # n => workers'[m] = workers[m]
  BY <1>4, <1>5, ReplacedProcess
<1> QED BY <1>4, <1>6 DEF first

LEMMA AnsweredRequest ==
  ASSUME NEW W \in Seq(WorkerType), NEW V \in Seq(WorkerType), Len(V) = Len(W),
         NEW n \in 1 .. Len(W), \A m \in 1 .. Len(W) : m # n => V[m] = W[m],
         W[n].todo # <<>>, V[n].todo = Tail(W[n].todo),
         V[n].said = Append(W[n].said, Head(W[n].todo)),
         NEW c
  PROVE  /\ \A m \in 1 .. Len(W) :
              /\ HasTodo(V, c, m) => HasTodo(W, c, m)
              /\ HasSaid(V, c, m) => HasSaid(W, c, m) \/ (m = n /\ c = Head(W[n].todo))
              /\ OnceTodo(W, c, m) => OnceTodo(V, c, m)
         /\ c = Head(W[n].todo) =>
              HasTodo(W, c, n) /\ (OnceTodo(W, c, n) => ~HasTodo(V, c, n))
<1> DEFINE first == Head(W[n].todo)
<1>1. /\ W[n].todo \in Seq(Isolated) /\ W[n].said \in Seq(Isolated)
      /\ Len(W[n].todo) \in Nat /\ Len(W[n].todo) # 0 /\ Len(W[n].said) \in Nat
  BY ElementOfSeq, FieldTypes, EmptySeq, LenProperties
<1>2. /\ first \in Isolated /\ first = W[n].todo[1] /\ Len(V[n].todo) = Len(W[n].todo) - 1
      /\ \A i \in 1 .. Len(V[n].todo) : V[n].todo[i] = W[n].todo[i + 1]
  BY <1>1, HeadTailProperties
<1> HIDE DEF first
<1>3. /\ Len(V[n].said) = Len(W[n].said) + 1
      /\ \A i \in 1 .. Len(W[n].said) : V[n].said[i] = W[n].said[i]
      /\ V[n].said[Len(W[n].said) + 1] = first
  BY <1>1, <1>2, AppendProperties DEF first
<1>4. \A i \in 1 .. Len(V[n].todo) : i + 1 \in 1 .. Len(W[n].todo) /\ i + 1 # 1
                                      /\ V[n].todo[i] = W[n].todo[i + 1]
  BY <1>1, <1>2
<1>5. HasTodo(V, c, n) => HasTodo(W, c, n)
  BY <1>4 DEF HasTodo
<1>6. OnceTodo(W, c, n) => OnceTodo(V, c, n)
  <2> SUFFICES ASSUME OnceTodo(W, c, n), NEW i \in 1 .. Len(V[n].todo),
                      NEW j \in 1 .. Len(V[n].todo), V[n].todo[i] = c, V[n].todo[j] = c
               PROVE  i = j
    BY DEF OnceTodo
  <2>1. i + 1 = j + 1
    BY <1>4 DEF OnceTodo
  <2> QED BY <2>1
<1>7. HasSaid(V, c, n) => HasSaid(W, c, n) \/ c = first
  <2> SUFFICES ASSUME NEW i \in 1 .. Len(V[n].said), V[n].said[i] = c
               PROVE  HasSaid(W, c, n) \/ c = first
    BY DEF HasSaid
  <2>1. i \in 1 .. Len(W[n].said) \/ i = Len(W[n].said) + 1
    BY <1>1, <1>3
  <2> QED BY <1>3, <2>1 DEF HasSaid
<1>8. ASSUME NEW m \in 1 .. Len(W), m # n
      PROVE  /\ HasTodo(V, c, m) => HasTodo(W, c, m)
             /\ HasSaid(V, c, m) => HasSaid(W, c, m)
             /\ OnceTodo(W, c, m) => OnceTodo(V, c, m)
  BY <1>8 DEF HasTodo, HasSaid, OnceTodo
<1>9. ASSUME c = first PROVE HasTodo(W, c, n) /\ (OnceTodo(W, c, n) => ~HasTodo(V, c, n))
  <2>1. 1 \in 1 .. Len(W[n].todo) /\ W[n].todo[1] = c
    BY <1>1, <1>2, <1>9
  <2>2. OnceTodo(W, c, n) => ~HasTodo(V, c, n)
    BY <1>4, <2>1 DEF OnceTodo, HasTodo
  <2> QED BY <2>1, <2>2 DEF HasTodo
<1> QED BY <1>5, <1>6, <1>7, <1>8, <1>9 DEF first

\* A step of the processes themselves.
LEMMA ProcessStep ==
  ASSUME ToolInv, NEW n \in 1 .. Len(workers), Works(n) \/ WorkerDies(n)
  PROVE  ToolInv'
<1> USE DEF callVars
<1>1. /\ ToolTypes /\ Len(workers) \in Nat
      /\ workload' = workload /\ pass' = pass /\ branch' = branch /\ verdict' = verdict
      /\ entry' = entry /\ answer' = answer /\ uses' = uses /\ channel' = channel
      /\ doomed' = doomed
  BY LenProperties DEF ToolInv, ToolTypes, Works, WorkerDies
<1>2. /\ workers' \in Seq(WorkerType) /\ Len(workers') = Len(workers)
      /\ \A m \in 1 .. Len(workers) : workers'[m].alive => workers[m].alive
      /\ \A m \in 1 .. Len(workers) : \A c : HasTodo(workers', c, m) => HasTodo(workers, c, m)
      /\ \A c \in ToolCalls : TraceFits(c, branch[c], workers')
  <2>1. CASE Works(n)
    <3> DEFINE first == Head(workers[n].todo)
    <3>1. /\ workers[n].todo # <<>>
          /\ workers' = [workers EXCEPT ![n].said = Append(@, Head(workers[n].todo)), ![n].todo = Tail(@)]
      BY <2>1 DEF Works
    <3>2. /\ workers' \in Seq(WorkerType) /\ Len(workers') = Len(workers)
          /\ \A m \in 1 .. Len(workers) : m # n => workers'[m] = workers[m]
          /\ workers'[n].alive = workers[n].alive
          /\ workers'[n].todo = Tail(workers[n].todo)
          /\ workers'[n].said = Append(workers[n].said, Head(workers[n].todo))
      BY <1>1, <3>1, AnsweringProcess
    <3>3. workers \in Seq(WorkerType)
      BY <1>1 DEF ToolTypes
    <3>4. \A c :
            /\ \A m \in 1 .. Len(workers) :
                 /\ HasTodo(workers', c, m) => HasTodo(workers, c, m)
                 /\ HasSaid(workers', c, m) => HasSaid(workers, c, m) \/ (m = n /\ c = first)
                 /\ OnceTodo(workers, c, m) => OnceTodo(workers', c, m)
            /\ c = first =>
                 HasTodo(workers, c, n) /\ (OnceTodo(workers, c, n) => ~HasTodo(workers', c, n))
      BY <3>1, <3>2, <3>3, AnsweredRequest
    <3>5. \A m \in 1 .. Len(workers) : workers'[m].alive = workers[m].alive
      BY <3>2
    <3> HIDE DEF first
    <3>6. ASSUME NEW c \in ToolCalls PROVE TraceFits(c, branch[c], workers')
      <4>1. TraceFits(c, branch[c], workers)
        BY OfCall
      <4>2. CASE c # first
        BY <3>2, <3>4, <4>1, <4>2 DEF TraceFits
      <4>3. CASE c = first
        <5>1. \A m \in 1 .. Len(workers) : ~HasTodo(workers', c, m) /\ OnceTodo(workers', c, m)
          BY <3>4, <4>1, <4>3 DEF TraceFits
        <5>2. branch[c] \notin {"none", "ready", "created", "spawning", "queued"}
          BY <3>4, <4>1, <4>3 DEF TraceFits
        <5> QED BY <3>2, <5>1, <5>2 DEF TraceFits
      <4> QED BY <4>2, <4>3
    <3> QED BY <3>2, <3>4, <3>5, <3>6
  <2>2. CASE WorkerDies(n)
    <3>1. /\ workers' \in Seq(WorkerType) /\ Len(workers') = Len(workers)
          /\ \A d : NoMoreOf(d, workers, workers')
      BY <1>1, <2>2, KilledProcess DEF WorkerDies
    <3>2. \A c \in ToolCalls : TraceFits(c, branch[c], workers')
      BY <1>1, <3>1, OfCall, TraceKept
    <3> QED BY <3>1, <3>2 DEF NoMoreOf
  <2> QED BY <2>1, <2>2
<1>3. Isolated' = Isolated /\ Mutating' = Mutating
  BY <1>1, SameKinds
<1>4. ToolTypes'
  <2>1. deaths' \in 0 .. MaxDeaths
    BY <1>1, ToolAssumption DEF ToolTypes, Works, WorkerDies
  <2> QED BY <1>1, <1>2, <2>1, TypesKept DEF ToolTypes
<1>5. CallsFit'
  BY <1>1, <1>2, <1>3 DEF ToolInv, CallsFit
<1>6. ChangesFit'
  <2> SUFFICES ASSUME NEW c \in Mutating \cap Isolated
               PROVE  ChangeFits(c, branch[c], entry[c], uses[c], workers', channel, pass)
    BY <1>1, <1>3 DEF ChangesFit
  <2>1. c \in ToolCalls
    BY <1>1, KindsAreCalls DEF ToolTypes
  <2>2. branch[c] \in {"queued", "sent"} => uses[c] \in 1 .. Len(workers)
    BY <1>1, <2>1, OfCall DEF CallFits
  <2> QED BY <1>2, <2>1, <2>2, OfCall DEF ChangeFits
<1>7. ChangesAreAlone' /\ PassFits'
  BY <1>1, <1>3 DEF ToolInv, ChangesAreAlone, PassFits
<1> QED BY <1>4, <1>5, <1>6, <1>7 DEF ToolInv

\* The run is cancelled, unwinds or returns: only the pass and the doomed rows change.
LEMMA EndingStep ==
  ASSUME ToolInv, CancelTools \/ Unwinds \/ RunReturns
  PROVE  ToolInv'
<1> USE DEF CancelTools, Unwinds, RunReturns, callVars, workerVars
<1>1. /\ pass # "lost" /\ pass' \in {"stopping", "closing"}
      /\ UNCHANGED <<workload, branch, verdict, entry, answer, uses, workers, channel, deaths>>
      /\ doomed' = {c \in ToolCalls : entry[c] = "running"}
  BY DEF ActiveWorkers
<1>2. Isolated' = Isolated /\ Mutating' = Mutating
  BY <1>1, SameKinds
<1>3. ToolTypes'
  BY <1>1, TypesKept DEF ToolInv, ToolTypes
<1>4. CallsFit' /\ ChangesFit' /\ ChangesAreAlone'
  BY <1>1, <1>2 DEF ToolInv, CallsFit, ChangesFit, ChangeFits, ChangesAreAlone
<1>5. PassFits'
  <2> SUFFICES ASSUME pass' = "closing", NEW c \in ToolCalls
               PROVE  branch[c] # "created" /\ (branch[c] = "working" => entry[c] = "running")
    BY <1>1 DEF PassFits
  <2>1. branch[c] # "created"
    BY DEF In, ToolInv, PassFits, NotOpen
  <2> QED BY <2>1, OfCall DEF CallFits, Executed
<1> QED BY <1>3, <1>4, <1>5 DEF ToolInv

LEMMA ClosesStep ==
  ASSUME ToolInv, RunCloses
  PROVE  ToolInv'
<1> USE DEF callVars
<1>1. /\ pass = "closing" /\ pass' = "closed" /\ doomed = {} /\ channel' = 0
      /\ UNCHANGED <<workload, branch, verdict, entry, answer, uses, doomed, deaths>>
  BY DEF RunCloses
<1>2. /\ ToolTypes /\ Len(workers) \in Nat /\ channel \in 0 .. Len(workers)
      /\ workers \in Seq(WorkerType)
  BY LenProperties DEF ToolInv, ToolTypes
<1>3. /\ workers' \in Seq(WorkerType) /\ Len(workers') = Len(workers)
      /\ \A d : NoMoreOf(d, workers, workers')
      /\ channel # 0 => ~workers'[channel].alive /\ \A d : ~HasTodo(workers', d, channel)
  <2>1. CASE channel # 0
    BY <1>2, <2>1, KilledProcess DEF RunCloses
  <2>2. CASE channel = 0
    BY <1>2, <2>2, NothingChanges DEF RunCloses
  <2> QED BY <2>1, <2>2
<1>4. Isolated' = Isolated /\ Mutating' = Mutating
  BY <1>1, SameKinds
<1>5. ToolTypes'
  BY <1>1, <1>2, <1>3, TypesKept DEF ToolTypes
<1>6. CallsFit'
  <2>1. \A c \in ToolCalls : TraceFits(c, branch[c], workers')
    BY <1>2, <1>3, OfCall, TraceKept
  <2> QED BY <1>1, <1>4, <2>1 DEF ToolInv, CallsFit
<1>7. ChangesFit'
  <2> SUFFICES ASSUME NEW c \in Mutating \cap Isolated
               PROVE  ChangeFits(c, branch[c], entry[c], uses[c], workers', 0, "closed")
    BY <1>1, <1>4 DEF ChangesFit
  <2>1. c \in ToolCalls
    BY <1>2, KindsAreCalls DEF ToolTypes
  <2>2. ChangeFits(c, branch[c], entry[c], uses[c], workers, channel, pass)
    BY <2>1, OfCall
  <2>3. \A m \in 1 .. Len(workers') : ~HasTodo(workers', c, m)
    BY <1>1, <1>3, <2>2 DEF ChangeFits, NoMoreOf
  <2>4. branch[c] \in {"queued", "sent"} => uses[c] \in 1 .. Len(workers)
    BY <1>2, <2>1, OfCall DEF CallFits
  <2>5. branch[c] \in {"queued", "sent"} => ~workers'[uses[c]].alive
    <3>1. uses[c] \in 1 .. Len(workers) => (workers'[uses[c]].alive => workers[uses[c]].alive)
      BY <1>3 DEF NoMoreOf
    <3> QED BY <1>3, <2>2, <2>4, <3>1 DEF ChangeFits
  <2> QED BY <2>3, <2>5 DEF ChangeFits
<1>8. ChangesAreAlone' /\ PassFits'
  BY <1>1, <1>4 DEF ToolInv, ChangesAreAlone, PassFits
<1> QED BY <1>5, <1>6, <1>7, <1>8 DEF ToolInv

LEMMA LostStep ==
  ASSUME ToolInv, HostLost
  PROVE  ToolInv'
<1>1. /\ pass # "lost" /\ pass' = "lost" /\ workload' = workload /\ answer' = answer
      /\ workers' = workers /\ deaths' = deaths /\ channel' = 0 /\ doomed' = {}
      /\ branch' = [c \in ToolCalls |-> IF branch[c] = "none" THEN "none" ELSE "collected"]
      /\ entry' = [c \in ToolCalls |-> IF entry[c] = "running" THEN "crashed" ELSE entry[c]]
      /\ verdict' = [c \in ToolCalls |-> "none"] /\ uses' = [c \in ToolCalls |-> 0]
  BY DEF HostLost
<1>2. Isolated' = Isolated /\ Mutating' = Mutating
  BY <1>1, SameKinds
<1>3. /\ ToolTypes /\ Len(workers) \in Nat
  BY LenProperties DEF ToolInv, ToolTypes
<1>4. ToolTypes'
  BY <1>1, <1>3, TypesKept DEF ToolTypes, Positions, Collected, Verdicts
<1>5. CallsFit'
  <2> SUFFICES ASSUME NEW c \in ToolCalls
               PROVE  /\ CallFits(c, c \in Isolated, branch'[c], "none", entry'[c], answer[c], 0)
                      /\ TraceFits(c, branch'[c], workers)
    BY <1>1, <1>2 DEF CallsFit
  <2>1. CallFits(c, c \in Isolated, branch'[c], "none", entry'[c], answer[c], 0)
    BY <1>1, OfCall DEF CallFits, Executed
  <2>2. TraceFits(c, branch'[c], workers)
    BY <1>1, OfCall DEF TraceFits
  <2> QED BY <2>1, <2>2
<1>6. ChangesFit'
  <2> SUFFICES ASSUME NEW c \in Mutating \cap Isolated
               PROVE  ChangeFits(c, branch'[c], entry'[c], 0, workers, 0, "lost")
    BY <1>1, <1>2, <1>3, KindsAreCalls DEF ChangesFit, ToolTypes
  <2>1. c \in ToolCalls
    BY <1>3, KindsAreCalls DEF ToolTypes
  <2> QED BY <1>1, <2>1, OfCall DEF ChangeFits, CallFits, Executed
<1>7. ChangesAreAlone' /\ PassFits'
  BY <1>1, <1>2, <1>3, KindsAreCalls DEF ChangesAreAlone, PassFits, NotOpen, ToolTypes
<1> QED BY <1>4, <1>5, <1>6, <1>7 DEF ToolInv

-----------------------------------------------------------------------------

LEMMA ToolInitInv == ToolInit => ToolInv
<1> SUFFICES ASSUME ToolInit PROVE ToolInv
  OBVIOUS
<1>1. ToolTypes
  BY EmptySeq, ToolAssumption DEF ToolInit, ToolTypes, Positions, Collected
<1>2. Len(workers) = 0
  BY DEF ToolInit
<1>3. CallsFit
  BY <1>2 DEF ToolInit, CallsFit, CallFits, TraceFits, Executed
<1>4. ChangesFit
  BY <1>1, <1>2, KindsAreCalls DEF ToolInit, ChangesFit, ChangeFits
<1>5. ChangesAreAlone /\ PassFits
  BY DEF ToolInit, ChangesAreAlone, PassFits, NotOpen
<1> QED BY <1>1, <1>3, <1>4, <1>5 DEF ToolInv

LEMMA ToolStep == ToolInv /\ [ToolNext]_toolVars => ToolInv'
<1> SUFFICES ASSUME ToolInv, [ToolNext]_toolVars PROVE ToolInv'
  OBVIOUS
<1>1. ASSUME NEW c \in ToolCalls, CallStep(c) PROVE ToolInv'
  BY <1>1, StartStep, SpawnStep, SpawnFailsStep, SendStep, ReadStep, FindsDeadStep,
     HandlerStep, TimesOutStep, PassStopStep, FinishStep DEF CallStep
<1>2. CASE UNCHANGED toolVars
  <2>1. UNCHANGED <<workload, pass, branch, verdict, entry, answer, uses, workers, channel,
                    doomed, deaths>>
    BY <1>2 DEF toolVars, callVars, workerVars
  <2>2. Isolated' = Isolated /\ Mutating' = Mutating /\ WorkerType' = WorkerType
    BY <2>1, SameKinds
  <2>3. ToolTypes'
    BY <2>1, <2>2 DEF ToolInv, ToolTypes
  <2>4. CallsFit' /\ ChangesFit'
    BY <2>1, <2>2 DEF ToolInv, CallsFit, ChangesFit
  <2>5. ChangesAreAlone' /\ PassFits'
    BY <2>1, <2>2 DEF ToolInv, ChangesAreAlone, PassFits
  <2> QED BY <2>3, <2>4, <2>5 DEF ToolInv
<1> QED BY <1>1, <1>2, PassBeginStep, NextStep, CallCancelStep, ProcessStep, EndingStep, ClosesStep,
           LostStep DEF ToolNext

\* ToolInv is an invariant: it ties the branches of the calls and their rows to what the
\* worker processes have been asked and have answered, for any interleaving of the calls
\* with deaths of processes, timeouts, the end of the run and the loss of the host.
THEOREM ToolAlways == ToolSpec => []ToolInv
<1> QED BY ToolInitInv, ToolStep, PTL DEF ToolSpec

\* The types of the rows, branches and processes.
THEOREM ToolsTyped == ToolSpec => []ToolTypeOK
<1>1. ASSUME ToolInv PROVE ToolTypeOK
  <2>1. ToolTypes
    BY <1>1 DEF ToolInv
  <2>2. \A n \in 1 .. Len(workers) :
          /\ workers[n].alive \in BOOLEAN
          /\ workers[n].lock \in Isolated \cup {Nobody}
          /\ {workers[n].todo, workers[n].said} \subseteq Seq(Isolated)
    BY <2>1, ProcessAt
  <2> QED BY <2>1, <2>2 DEF ToolTypes, ToolTypeOK
<1> QED BY <1>1, ToolAlways, PTL

\* What the host records of a call is what has happened to it: a completed call has its
\* own answer, a change on record as ended is not worked on any more, and a closed run
\* executes nothing.
THEOREM AccountedCalls == ToolSpec => []CallsAreAccountedFor
<1>1. ASSUME ToolInv PROVE CallsAreAccountedFor
  <2>1. Isolated \subseteq ToolCalls /\ Mutating \subseteq ToolCalls /\ DOMAIN workload \subseteq ToolCalls
    BY <1>1, KindsAreCalls, ToolAssumption DEF ToolInv, ToolTypes
  <2>2. AnswersAreTheirOwn
    BY <1>1, <2>1, OfCall DEF CallFits, AnswersAreTheirOwn
  <2>3. ASSUME NEW c \in Mutating \cap Isolated, entry[c] \in {"completed", "failed", "cancelled"}
        PROVE  ~IsWorkedOn(c)
    <3>1. /\ ChangeFits(c, branch[c], entry[c], uses[c], workers, channel, pass)
          /\ branch[c] \in Executed => entry[c] = "running"
      BY <1>1, <2>1, OfCall DEF CallFits
    <3>2. \A n \in 1 .. Len(workers) : ~HasTodo(workers, c, n)
      BY <2>3, <3>1 DEF ChangeFits, Executed
    <3> QED BY <3>2 DEF HasTodo, IsWorkedOn
  <2>4. ClosedRunsAreQuiet
    BY <1>1, <2>1 DEF ToolInv, PassFits, ClosedRunsAreQuiet
  <2> QED BY <2>2, <2>3, <2>4 DEF CallsAreAccountedFor, EndedChangesAreStill
<1> QED BY <1>1, ToolAlways, PTL
=============================================================================
