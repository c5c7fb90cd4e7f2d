--------------------------- MODULE LiveOmsProofs ---------------------------
(***************************************************************************)
(* Theorems about LiveOms, for any orders, tasks and quantity.  All but    *)
(* the last part holds for any number of gateways on the store; the last   *)
(* for a single one, where a task's copy is never older than the row.      *)
(***************************************************************************)
EXTENDS LiveOms, TLAPS

-----------------------------------------------------------------------------
(* The invariant for any number of gateways *)

Sent(e) == e.state \notin {"none", "created"}

\* A status that says the broker ended the order says what the broker did.
TellsTheEnd(status, o) == status \in {"cancelled", "rejected"} => broker[o].phase = status

\* An entry that is open has the broker's order id.
BoundIfOpen(e) == e.state \in {"acknowledged", "partially_filled", "cancel_pending"} => e.bound

\* What a task works on was sent, by the row and by the copy of its gateway.
RecordedEntry ==
  /\ \A o \in Orders : placed[o] > 0 => Sent(store[o])
  /\ \A t \in Tasks : task[t] # NoTask => /\ Sent(store[task[t].order])
                                          /\ Sent(memory[Home[t]][task[t].order])

\* Rows, copies, reports and answers only tell an end that happened.
EndedOrder ==
  /\ \A o \in Orders : /\ TellsTheEnd(store[o].state, o)
                       /\ \A g \in Gateways : TellsTheEnd(memory[g][o].state, o)
                       /\ \A r \in reports[o] : TellsTheEnd(r.status, o)
  /\ \A t \in Tasks : task[t].pc = "cancelled" => broker[task[t].order].phase = "cancelled"

\* An open order can still be filled, as can one the broker has not seen.
OpenHasRoom == \A o \in Orders : broker[o].phase \in {"none", "open"} => broker[o].filled < Quantity

LiveInv == LiveTypeOK /\ OpenHasRoom /\ RecordedEntry /\ EndedOrder /\ OpenIsBound

-----------------------------------------------------------------------------
(* Entries *)

LEMMA EntryTypes ==
  /\ NoEntry \in EntryType /\ Created \in EntryType
  /\ NoEntry.state = "none" /\ Created.state = "created"
<1>1. NoEntry \in EntryType /\ NoEntry.state = "none"
  BY OmsAssumption DEF EntryType, NoEntry, States
<1>2. "created" \in States /\ Quantity \in 0..Quantity
  BY OmsAssumption DEF States
<1>3. Created \in EntryType /\ Created.state = "created"
  BY <1>1, <1>2 DEF Created, EntryType
<1> QED BY <1>1, <1>3

LEMMA UnknownEntry ==
  ASSUME NEW e \in EntryType
  PROVE  /\ Unknown(e) \in EntryType
         /\ Unknown(e).state = "unknown"
         /\ Unknown(e).filled = e.filled /\ Unknown(e).applied = e.applied
         /\ Unknown(e).receipt = e.receipt /\ Unknown(e).bound = e.bound
BY DEF EntryType, Unknown, States

LEMMA AppliedEntry ==
  ASSUME NEW e \in EntryType, NEW r \in Reports
  PROVE  /\ Applied(e, r) \in EntryType
         /\ Applied(e, r).state = r.status
         /\ Applied(e, r).bound
         /\ Applied(e, r).filled = r.filled
         /\ Applied(e, r).receipt = e.receipt
         /\ Applied(e, r).applied # {}
<1>1. /\ r.status \in States /\ r.filled \in 0..Quantity /\ Quantity - r.filled \in 0..Quantity
      /\ e.applied \cup {r} \in SUBSET Reports
  BY OmsAssumption DEF EntryType, Reports, ReportStates, States, Final, Outstanding
<1> QED BY <1>1 DEF EntryType, Applied

LEMMA RecoveredEntry ==
  ASSUME NEW e \in EntryType
  PROVE  /\ Recovered(e) \in EntryType
         /\ Recovered(e).state \in {e.state, "unknown"}
         /\ Recovered(e).state # e.state \/ e.state = "unknown" \/ e.state \in Final \cup {"none"}
         /\ e.state \in Final \cup {"none"} => Recovered(e) = e
         /\ e.state \notin Final \cup {"none"} => Recovered(e).state = "unknown"
         /\ Recovered(e).filled = e.filled /\ Recovered(e).applied = e.applied
         /\ Recovered(e).receipt = e.receipt /\ Recovered(e).bound = e.bound
BY UnknownEntry DEF Recovered, Unknown

\* What a write leaves in the row and in the copies.
LEMMA Written ==
  ASSUME LiveTypeOK, NEW g \in Gateways, NEW o \in Orders, NEW e \in EntryType,
         Persist(g, o, e) \/ Spoil(g, o, e)
  PROVE  /\ store' \in [Orders -> EntryType]
         /\ memory' \in [Gateways -> [Orders -> EntryType]]
         /\ memory'[g][o] = e
         /\ store'[o] \in {e, store[o]} /\ (Persist(g, o, e) => store'[o] = e)
         /\ (Spoil(g, o, e) => store' = store)
         /\ \A x \in Orders \ {o} : store'[x] = store[x] /\ memory'[g][x] = memory[g][x]
         /\ \A h \in Gateways \ {g} : memory'[h] = memory[h]
<1>1. memory' = [memory EXCEPT ![g][o] = e]
  BY DEF Persist, Spoil
<1>2. /\ memory' \in [Gateways -> [Orders -> EntryType]]
      /\ memory'[g][o] = e
      /\ \A x \in Orders \ {o} : memory'[g][x] = memory[g][x]
      /\ \A h \in Gateways \ {g} : memory'[h] = memory[h]
  BY <1>1 DEF LiveTypeOK
<1>3. /\ store' \in [Orders -> EntryType]
      /\ store'[o] \in {e, store[o]} /\ (Persist(g, o, e) => store'[o] = e)
      /\ (Spoil(g, o, e) => store' = store)
      /\ \A x \in Orders \ {o} : store'[x] = store[x]
  <2>1. CASE store' = [store EXCEPT ![o] = e]
    BY <2>1 DEF LiveTypeOK, Persist, Spoil
  <2>2. CASE store' = store
    BY <2>2 DEF LiveTypeOK, Persist, Spoil
  <2> QED BY <2>1, <2>2 DEF Persist, Spoil
<1> QED BY <1>2, <1>3

-----------------------------------------------------------------------------
(* Steps that write one entry and touch the broker in no way *)

\* The tasks after a step of a task with order o at gateway g.
TasksGoOn(g, o) ==
  /\ task' \in [Tasks -> {NoTask} \cup [pc: {"placing", "placed", "cancelling", "cancelled"}, order: Orders]]
  /\ \A t \in Tasks :
       /\ \/ task'[t] = NoTask
          \/ task[t] # NoTask /\ task'[t].order = task[t].order
          \/ task'[t].order = o /\ Home[t] = g
       /\ task'[t].pc = "cancelled" => task'[t] = task[t]

LEMMA EntryStep ==
  ASSUME LiveInv, NEW g \in Gateways, NEW o \in Orders, NEW e \in EntryType,
         \/ Persist(g, o, e)
         \/ Spoil(g, o, e) /\ \E t \in Tasks : task' = [task EXCEPT ![t] = NoTask],
         Sent(e), TellsTheEnd(e.state, o), BoundIfOpen(e),
         TasksGoOn(g, o),
         UNCHANGED <<kill, brokerVars>>
  PROVE  LiveInv'
<1> USE DEF LiveInv
<1>1. /\ broker' = broker /\ reports' = reports /\ placed' = placed /\ kill' = kill
  BY DEF brokerVars
<1>2. LiveTypeOK'
  BY <1>1, Written DEF LiveTypeOK, TasksGoOn
<1>3. OpenHasRoom'
  BY <1>1 DEF OpenHasRoom
<1>4. RecordedEntry'
  <2>1. ASSUME NEW x \in Orders, placed'[x] > 0 PROVE Sent(store'[x])
    BY <1>1, <2>1, Written DEF RecordedEntry
  <2>2. ASSUME NEW t \in Tasks, task'[t] # NoTask
        PROVE  Sent(store'[task'[t].order]) /\ Sent(memory'[Home[t]][task'[t].order])
    <3>1. Home[t] \in Gateways
      BY OmsAssumption
    <3>2. task'[t].order \in Orders
      BY <2>2 DEF TasksGoOn, NoTask
    <3>3. CASE task[t] # NoTask /\ task'[t].order = task[t].order
      BY <3>1, <3>2, <3>3, Written DEF RecordedEntry
    <3>4. CASE task'[t].order = o /\ Home[t] = g /\ ~(task[t] # NoTask /\ task'[t].order = task[t].order)
      <4>1. ASSUME NEW u \in Tasks, task' = [task EXCEPT ![u] = NoTask] PROVE FALSE
        <5>1. task'[t] \in {task[t], NoTask}
          BY <4>1 DEF LiveTypeOK
        <5> QED BY <2>2, <3>4, <5>1
      <4> QED BY <3>4, <4>1, Written
    <3> QED BY <2>2, <3>3, <3>4 DEF TasksGoOn
  <2> QED BY <2>1, <2>2 DEF RecordedEntry
<1>5. EndedOrder'
  <2>1. ASSUME NEW x \in Orders
        PROVE  /\ TellsTheEnd(store[x].state, x)' /\ (\A r \in reports[x] : TellsTheEnd(r.status, x))'
               /\ \A h \in Gateways : TellsTheEnd(memory[h][x].state, x)'
    BY <1>1, Written DEF EndedOrder, TellsTheEnd
  <2>2. ASSUME NEW t \in Tasks, task'[t].pc = "cancelled" PROVE broker'[task'[t].order].phase = "cancelled"
    BY <1>1, <2>2 DEF EndedOrder, TasksGoOn
  <2> QED BY <2>1, <2>2 DEF EndedOrder
<1>6. OpenIsBound'
  BY Written DEF OpenIsBound, BoundIfOpen
<1> QED BY <1>2, <1>3, <1>4, <1>5, <1>6

-----------------------------------------------------------------------------
(* The actions *)

LEMMA OmsInitially == OmsInit => LiveInv
<1> SUFFICES ASSUME OmsInit PROVE LiveInv
    OBVIOUS
<1> USE DEF OmsInit
<1>1. LiveTypeOK
  BY EntryTypes, OmsAssumption DEF LiveTypeOK
<1>2. OpenHasRoom
  BY OmsAssumption DEF OpenHasRoom
<1>3. RecordedEntry
  BY DEF RecordedEntry
<1>4. EndedOrder
  BY EntryTypes DEF EndedOrder, TellsTheEnd, NoTask
<1>5. OpenIsBound
  BY EntryTypes DEF OpenIsBound
<1> QED BY <1>1, <1>2, <1>3, <1>4, <1>5 DEF LiveInv

LEMMA Homes == \A t \in Tasks : Home[t] \in Gateways
BY OmsAssumption

LEMMA TaskTypes ==
  ASSUME LiveTypeOK, NEW t \in Tasks, task[t].pc # "idle"
  PROVE  task[t].order \in Orders /\ task[t] # NoTask
BY DEF LiveTypeOK, NoTask

LEMMA NoTaskIsNone == NoTask.pc = "idle"
BY DEF NoTask

\* One task changes: it starts on the order, ends, or is not answered yet.
LEMMA TaskChanges ==
  ASSUME LiveInv, NEW g \in Gateways, NEW o \in Orders, NEW t \in Tasks, Home[t] = g,
         NEW new \in {NoTask} \cup [pc: {"placing", "placed", "cancelling", "cancelled"}, order: Orders],
         task' = [task EXCEPT ![t] = new],
         new = NoTask \/ new.order = o,
         new.pc # "cancelled"
  PROVE  TasksGoOn(g, o)
<1>1. task' \in [Tasks -> {NoTask} \cup [pc: {"placing", "placed", "cancelling", "cancelled"}, order: Orders]]
  BY DEF LiveInv, LiveTypeOK
<1>2. task'[t] = new /\ \A u \in Tasks \ {t} : task'[u] = task[u]
  BY DEF LiveInv, LiveTypeOK
<1>3. \A u \in Tasks \ {t} : task'[u] = NoTask \/ (task[u] # NoTask /\ task'[u].order = task[u].order)
  BY <1>2
<1> QED BY <1>1, <1>2, <1>3 DEF TasksGoOn

\* The entry of a new order: nothing was sent yet, so no task has it.
LEMMA RegisterStep ==
  ASSUME LiveInv, NEW g \in Gateways, NEW o \in Orders, Register(g, o)
  PROVE  LiveInv'
<1> USE DEF LiveInv
<1>1. Persist(g, o, Created) /\ UNCHANGED <<task, kill, broker, reports, placed, restarts>>
  BY DEF Register, brokerVars
<1>2. store[o].state = "none"
  BY DEF Register
<1>3. LiveTypeOK'
  BY <1>1, EntryTypes, Written DEF LiveTypeOK
<1>4. OpenHasRoom'
  BY <1>1 DEF OpenHasRoom
<1>5. RecordedEntry'
  <2>1. placed[o] = 0 /\ \A t \in Tasks : task[t] # NoTask => task[t].order # o
    BY <1>2 DEF RecordedEntry, Sent, LiveTypeOK
  <2>2. \A t \in Tasks : task[t] # NoTask => task[t].order \in Orders
    BY DEF LiveTypeOK
  <2> QED BY <1>1, <2>1, <2>2, EntryTypes, Written, Homes DEF RecordedEntry
<1>6. EndedOrder'
  BY <1>1, EntryTypes, Written DEF EndedOrder, TellsTheEnd
<1>7. OpenIsBound'
  BY <1>1, EntryTypes, Written DEF OpenIsBound
<1> QED BY <1>3, <1>4, <1>5, <1>6, <1>7

LEMMA RegisteredEntry ==
  ASSUME LiveTypeOK, NEW o \in Orders
  PROVE  Registered(o) \in EntryType
BY EntryTypes DEF Registered, LiveTypeOK

LEMMA SubmitStep ==
  ASSUME LiveInv, NEW t \in Tasks, NEW o \in Orders, Submit(t, o)
  PROVE  LiveInv'
<1> DEFINE e == [Registered(o) EXCEPT !.state = "submitting"]
<1>1. e \in EntryType /\ e.state = "submitting"
  BY RegisteredEntry DEF LiveInv, EntryType, States, Outstanding
<1>2. Persist(Home[t], o, e) /\ UNCHANGED <<kill, brokerVars>>
  BY DEF Submit, SaveBarrier
<1>3. TasksGoOn(Home[t], o)
  <2> DEFINE new == [pc |-> "placing", order |-> o]
  <2>1. task' = [task EXCEPT ![t] = new]
    BY DEF Submit
  <2>2. new \in [pc: {"placing", "placed", "cancelling", "cancelled"}, order: Orders]
        /\ new.pc # "cancelled" /\ new.order = o
    OBVIOUS
  <2> HIDE DEF new
  <2> QED BY <2>1, <2>2, Homes, TaskChanges
<1> QED BY <1>1, <1>2, <1>3, Homes, EntryStep DEF Sent, TellsTheEnd, BoundIfOpen

\* A task ends after its step.
LEMMA TaskEnds ==
  ASSUME LiveInv, NEW t \in Tasks, NEW o \in Orders, task' = [task EXCEPT ![t] = NoTask]
  PROVE  TasksGoOn(Home[t], o)
BY Homes, TaskChanges, NoTaskIsNone

\* A task that ends and writes nothing.
LEMMA TaskGone ==
  ASSUME LiveInv, NEW t \in Tasks, task' = [task EXCEPT ![t] = NoTask],
         UNCHANGED <<store, memory, kill, brokerVars>>
  PROVE  LiveInv'
<1> USE DEF LiveInv
<1>1. \A u \in Tasks : task'[u] \in {task[u], NoTask}
  BY DEF LiveTypeOK
<1>2. LiveTypeOK' /\ OpenHasRoom' /\ OpenIsBound'
  BY DEF brokerVars, LiveTypeOK, OpenHasRoom, OpenIsBound
<1>3. RecordedEntry'
  BY <1>1 DEF brokerVars, RecordedEntry
<1>4. EndedOrder'
  BY <1>1, NoTaskIsNone DEF brokerVars, EndedOrder, TellsTheEnd
<1> QED BY <1>2, <1>3, <1>4

LEMMA TasksStay ==
  ASSUME LiveInv, NEW g \in Gateways, NEW o \in Orders, UNCHANGED task
  PROVE  TasksGoOn(g, o)
BY DEF LiveInv, LiveTypeOK, TasksGoOn

\* An unknown entry tells nothing, and it is bound to nothing.
LEMMA UnknownTells ==
  ASSUME NEW o \in Orders, NEW e, e.state = "unknown"
  PROVE  Sent(e) /\ TellsTheEnd(e.state, o) /\ BoundIfOpen(e)
BY DEF Sent, TellsTheEnd, BoundIfOpen

LEMMA SubmitFailsStep ==
  ASSUME LiveInv, NEW t \in Tasks, SubmitFails(t) \/ CancelFails(t)
  PROVE  LiveInv'
<1> DEFINE o == task[t].order
           e == Unknown(store[o])
<1>1. o \in Orders
  BY TaskTypes DEF LiveInv, SubmitFails, CancelFails, At
<1>2. e \in EntryType /\ e.state = "unknown"
  BY <1>1, UnknownEntry DEF LiveInv, LiveTypeOK
<1>3. Persist(Home[t], o, e) /\ UNCHANGED <<kill, brokerVars>> /\ task' = [task EXCEPT ![t] = NoTask]
  BY DEF SubmitFails, CancelFails, MarkUnknown
<1> HIDE DEF o, e
<1>4. TasksGoOn(Home[t], o)
  BY <1>1, <1>3, TaskEnds
<1> QED BY <1>1, <1>2, <1>3, <1>4, Homes, UnknownTells, EntryStep

\* The receipt of a placement: its status is one the broker has reported.
LEMMA SubmitAnsweredStep ==
  ASSUME LiveInv, NEW t \in Tasks, NEW status \in ReportStates, SubmitAnswered(t, status)
  PROVE  LiveInv'
<1> DEFINE g == Home[t]
           o == task[t].order
           current == Current(g, o)
           e == [current EXCEPT !.bound = TRUE, !.receipt = TRUE]
           final == [e EXCEPT !.state = status, !.remaining = Quantity]
<1>1. g \in Gateways /\ o \in Orders /\ task[t] # NoTask
  BY TaskTypes, Homes DEF LiveInv, SubmitAnswered, At
<1>2. /\ UNCHANGED <<kill, brokerVars>> /\ task' = [task EXCEPT ![t] = NoTask]
      /\ \/ Persist(g, o, final)
         \/ Spoil(g, o, e)
  BY DEF SubmitAnswered
<1>3. PICK r \in reports[o] : r.status = status
  BY DEF SubmitAnswered
<1>4. TasksGoOn(g, o)
  BY <1>1, <1>2, TaskEnds
<1>5. /\ current \in EntryType /\ Sent(current) /\ TellsTheEnd(current.state, o)
  BY <1>1 DEF LiveInv, LiveTypeOK, RecordedEntry, EndedOrder, Current
<1> HIDE DEF current
<1>6. e \in EntryType /\ e.state = current.state /\ e.bound
  BY <1>5 DEF EntryType
<1> HIDE DEF e
<1>7. TellsTheEnd(status, o)
  BY <1>1, <1>3 DEF LiveInv, EndedOrder
<1>8. status \in States /\ status \notin {"none", "created"} /\ Quantity \in 0..Quantity
  BY OmsAssumption DEF ReportStates, States, Final, Outstanding
<1>9. final \in EntryType /\ final.state = status /\ final.bound
  BY <1>6, <1>8 DEF EntryType
<1> HIDE DEF g, o, final
<1>10. CASE Persist(g, o, final)
  <2>1. Sent(final) /\ TellsTheEnd(final.state, o) /\ BoundIfOpen(final)
    BY <1>7, <1>8, <1>9 DEF Sent, BoundIfOpen
  <2> QED BY <1>1, <1>2, <1>4, <1>9, <1>10, <2>1, EntryStep
<1>11. CASE Spoil(g, o, e)
  <2>1. Sent(e) /\ TellsTheEnd(e.state, o) /\ BoundIfOpen(e)
    BY <1>5, <1>6 DEF Sent, BoundIfOpen
  <2> QED BY <1>1, <1>2, <1>4, <1>6, <1>11, <2>1, EntryStep
<1> QED BY <1>2, <1>10, <1>11

LEMMA ApplyReportStep ==
  ASSUME LiveInv, NEW g \in Gateways, NEW o \in Orders, NEW r \in reports[o], ApplyReport(g, o, r)
  PROVE  LiveInv'
<1> DEFINE e == Applied(store[o], r)
<1>1. r \in Reports /\ store[o] \in EntryType
  BY DEF LiveInv, LiveTypeOK
<1>2. e \in EntryType /\ e.state = r.status /\ e.bound
  BY <1>1, AppliedEntry
<1>3. Persist(g, o, e) /\ UNCHANGED <<task, kill, brokerVars>>
  BY DEF ApplyReport
<1> HIDE DEF e
<1>4. r.status \notin {"none", "created"} /\ TellsTheEnd(r.status, o)
  BY <1>1 DEF LiveInv, EndedOrder, Reports, ReportStates, Final
<1>5. Sent(e) /\ TellsTheEnd(e.state, o) /\ BoundIfOpen(e)
  BY <1>2, <1>4 DEF Sent, BoundIfOpen
<1> QED BY <1>2, <1>3, <1>5, TasksStay, EntryStep

LEMMA MissingStep ==
  ASSUME LiveInv, NEW g \in Gateways, NEW o \in Orders, MissingInSnapshot(g, o)
  PROVE  LiveInv'
<1> DEFINE e == Unknown(store[o])
<1>1. e \in EntryType /\ e.state = "unknown"
  BY UnknownEntry DEF LiveInv, LiveTypeOK
<1>2. Persist(g, o, e) /\ UNCHANGED <<task, kill, brokerVars>>
  BY DEF MissingInSnapshot, MarkUnknown
<1> HIDE DEF e
<1> QED BY <1>1, <1>2, TasksStay, UnknownTells, EntryStep

LEMMA OrderCancelStep ==
  ASSUME LiveInv, NEW t \in Tasks, NEW o \in Orders, Cancel(t, o)
  PROVE  LiveInv'
<1> DEFINE state == IF store[o].bound THEN "cancel_pending" ELSE "unknown"
           e == [store[o] EXCEPT !.state = state]
           new == IF store[o].bound THEN [pc |-> "cancelling", order |-> o] ELSE NoTask
<1>1. Persist(Home[t], o, e) /\ task' = [task EXCEPT ![t] = new] /\ UNCHANGED <<kill, brokerVars>>
  BY DEF Cancel
<1>2. state \in States /\ state \in {"cancel_pending", "unknown"} /\ (state # "unknown" => store[o].bound)
  BY DEF States, Outstanding
<1> HIDE DEF state
<1>3. e \in EntryType /\ e.state = state /\ e.bound = store[o].bound
  BY <1>2 DEF LiveInv, LiveTypeOK, EntryType
<1>4. Sent(e) /\ TellsTheEnd(e.state, o) /\ BoundIfOpen(e)
  BY <1>2, <1>3 DEF Sent, TellsTheEnd, BoundIfOpen
<1>5. /\ new \in {NoTask} \cup [pc: {"placing", "placed", "cancelling", "cancelled"}, order: Orders]
      /\ new.pc # "cancelled" /\ (new = NoTask \/ new.order = o)
  BY NoTaskIsNone
<1> HIDE DEF e, new
<1>6. TasksGoOn(Home[t], o)
  BY <1>1, <1>5, Homes, TaskChanges
<1> QED BY <1>1, <1>3, <1>4, <1>6, Homes, EntryStep

LEMMA CancelAnsweredStep ==
  ASSUME LiveInv, NEW t \in Tasks, CancelAnswered(t)
  PROVE  LiveInv'
<1> DEFINE g == Home[t]
           o == task[t].order
           e == [memory[g][o] EXCEPT !.state = "cancelled", !.remaining = 0]
<1>1. g \in Gateways /\ o \in Orders /\ task[t].pc = "cancelled" /\ task[t] # NoTask
  BY TaskTypes, Homes DEF LiveInv, CancelAnswered, Confirmed, At
<1>2. /\ UNCHANGED <<kill, brokerVars>> /\ task' = [task EXCEPT ![t] = NoTask]
      /\ Persist(g, o, e) \/ UNCHANGED <<store, memory>>
  BY DEF CancelAnswered
<1>3. memory[g][o] \in EntryType /\ "cancelled" \in States /\ 0 \in 0..Quantity
  BY <1>1, OmsAssumption DEF LiveInv, LiveTypeOK, States, Final
<1>4. e \in EntryType /\ e.state = "cancelled"
  BY <1>3 DEF EntryType
<1>5. TasksGoOn(g, o)
  BY <1>1, <1>2, TaskEnds
<1>6. broker[o].phase = "cancelled"
  BY <1>1 DEF LiveInv, EndedOrder
<1>7. memory[g][o] = memory[g][o] /\ Sent(memory[g][o]) /\ TellsTheEnd(memory[g][o].state, o)
  BY <1>1 DEF LiveInv, RecordedEntry, EndedOrder
<1> HIDE DEF g, o, e
<1>8. CASE Persist(g, o, e)
  <2>1. Sent(e) /\ TellsTheEnd(e.state, o) /\ BoundIfOpen(e)
    BY <1>4, <1>6 DEF Sent, TellsTheEnd, BoundIfOpen
  <2> QED BY <1>1, <1>2, <1>4, <1>5, <1>8, <2>1, EntryStep
<1>9. CASE UNCHANGED <<store, memory>>
  BY <1>2, <1>9, TaskGone
<1> QED BY <1>2, <1>8, <1>9

\* The broker accepts or rejects an order it has not seen.
LEMMA PlaceStep ==
  ASSUME LiveInv, NEW t \in Tasks, Place(t)
  PROVE  LiveInv'
<1> DEFINE o == task[t].order
<1> USE DEF LiveInv
<1>1. o \in Orders /\ task[t] # NoTask /\ task[t].pc = "placing"
  BY TaskTypes DEF Place, At
<1>2. UNCHANGED <<store, memory, kill>> /\ placed' = [placed EXCEPT ![o] = @ + 1]
      /\ task' = [task EXCEPT ![t].pc = "placed"]
  BY DEF Place
<1>3. /\ task' \in [Tasks -> {NoTask} \cup [pc: {"placing", "placed", "cancelling", "cancelled"}, order: Orders]]
      /\ \A u \in Tasks : /\ task'[u] # NoTask => task[u] # NoTask /\ task'[u].order = task[u].order
                          /\ task'[u].pc = "cancelled" => task'[u] = task[u]
  <2>1. task[t] \in [pc: {"placing", "placed", "cancelling", "cancelled"}, order: Orders]
    BY <1>1 DEF LiveTypeOK
  <2>2. [task[t] EXCEPT !.pc = "placed"] \in [pc: {"placing", "placed", "cancelling", "cancelled"}, order: Orders]
        /\ [task[t] EXCEPT !.pc = "placed"].order = o /\ [task[t] EXCEPT !.pc = "placed"].pc = "placed"
    BY <2>1
  <2>3. task'[t] = [task[t] EXCEPT !.pc = "placed"] /\ \A u \in Tasks \ {t} : task'[u] = task[u]
    BY <1>2 DEF LiveTypeOK
  <2>4. task' = [u \in Tasks |-> task'[u]]
    BY <1>2 DEF LiveTypeOK
  <2>5. \A u \in Tasks : task'[u] \in {NoTask} \cup [pc: {"placing", "placed", "cancelling", "cancelled"}, order: Orders]
    BY <2>2, <2>3 DEF LiveTypeOK
  <2>6. task' \in [Tasks -> {NoTask} \cup [pc: {"placing", "placed", "cancelling", "cancelled"}, order: Orders]]
    BY <2>4, <2>5
  <2> QED BY <1>1, <2>2, <2>3, <2>6
<1>4. \/ UNCHANGED <<broker, reports>>
      \/ \E outcome \in {"open", "rejected"} :
           /\ broker[o].phase = "none"
           /\ broker' = [broker EXCEPT ![o].phase = outcome]
           /\ reports' = [reports EXCEPT ![o] = {[status |-> IF outcome = "open" THEN "acknowledged" ELSE outcome,
                                                  filled |-> 0]}]
  BY DEF Place
<1>5. placed' \in [Orders -> Nat] /\ \A x \in Orders : x # o => placed'[x] = placed[x]
  BY <1>1, <1>2 DEF LiveTypeOK
<1>6. RecordedEntry'
  BY <1>1, <1>2, <1>3, <1>5 DEF RecordedEntry
<1>7. OpenIsBound'
  BY <1>2 DEF OpenIsBound
<1>8. CASE UNCHANGED <<broker, reports>>
  <2>1. LiveTypeOK'
    BY <1>2, <1>3, <1>5, <1>8 DEF LiveTypeOK
  <2>2. OpenHasRoom'
    BY <1>8 DEF OpenHasRoom
  <2>3. EndedOrder'
    BY <1>2, <1>3, <1>8 DEF EndedOrder, TellsTheEnd
  <2> QED BY <1>6, <1>7, <2>1, <2>2, <2>3
<1>9. ASSUME NEW outcome \in {"open", "rejected"},
             broker[o].phase = "none",
             broker' = [broker EXCEPT ![o].phase = outcome],
             reports' = [reports EXCEPT ![o] = {[status |-> IF outcome = "open" THEN "acknowledged" ELSE outcome,
                                                 filled |-> 0]}]
      PROVE  LiveInv'
  <2> DEFINE r == [status |-> IF outcome = "open" THEN "acknowledged" ELSE outcome, filled |-> 0]
             b == [broker[o] EXCEPT !.phase = outcome]
  <2>1. r \in Reports /\ (r.status \in {"cancelled", "rejected"} => r.status = outcome)
    BY OmsAssumption DEF Reports, ReportStates, Final
  <2>2. b \in [phase: Final \cup {"none", "open"}, filled: 0..Quantity]
        /\ b.phase = outcome
    BY <1>1 DEF LiveTypeOK, Final
  <2>3. broker'[o] = b /\ (\A x \in Orders \ {o} : broker'[x] = broker[x])
        /\ broker' \in [Orders -> [phase: Final \cup {"none", "open"}, filled: 0..Quantity]]
    <3>1. broker' = [broker EXCEPT ![o] = b]
      BY <1>9
    <3> HIDE DEF b
    <3> QED BY <1>1, <2>2, <3>1 DEF LiveTypeOK
  <2>4. reports'[o] = {r} /\ (\A x \in Orders \ {o} : reports'[x] = reports[x])
        /\ reports' \in [Orders -> SUBSET Reports]
    BY <1>1, <1>9, <2>1 DEF LiveTypeOK
  <2>5. LiveTypeOK'
    BY <1>2, <1>3, <1>5, <2>3, <2>4 DEF LiveTypeOK
  <2>6. OpenHasRoom'
    <3>1. b.filled < Quantity
      BY <1>1, <1>9 DEF OpenHasRoom, LiveTypeOK
    <3> QED BY <2>2, <2>3, <3>1 DEF OpenHasRoom
  <2>7. EndedOrder'
    <3> HIDE DEF r, b
    <3>1. ASSUME NEW x \in Orders
          PROVE  /\ TellsTheEnd(store[x].state, x)'
                 /\ (\A g \in Gateways : TellsTheEnd(memory[g][x].state, x))'
                 /\ (\A q \in reports[x] : TellsTheEnd(q.status, x))'
      <4>1. CASE x = o
        <5>1. broker'[x].phase = outcome /\ reports'[x] = {r}
          BY <2>2, <2>3, <2>4, <4>1
        <5>2. \A q \in reports'[x] : q.status \in {"cancelled", "rejected"} => broker'[x].phase = q.status
          BY <2>1, <5>1
        <5>3. /\ store'[x].state \notin {"cancelled", "rejected"}
              /\ \A g \in Gateways : memory'[g][x].state \notin {"cancelled", "rejected"}
          BY <1>1, <1>2, <1>9, <4>1 DEF EndedOrder, TellsTheEnd
        <5>4. TellsTheEnd(store[x].state, x)' /\ (\A g \in Gateways : TellsTheEnd(memory[g][x].state, x))'
          BY <5>3 DEF TellsTheEnd
        <5>5. (\A q \in reports[x] : TellsTheEnd(q.status, x))'
          BY <5>2 DEF TellsTheEnd
        <5> QED BY <5>4, <5>5
      <4>2. CASE x # o
        BY <1>1, <1>2, <2>3, <2>4, <4>2 DEF EndedOrder, TellsTheEnd
      <4> QED BY <4>1, <4>2
    <3>2. ASSUME NEW u \in Tasks, task'[u].pc = "cancelled" PROVE broker'[task'[u].order].phase = "cancelled"
      <4>1. task'[u] = task[u] /\ task[u].order \in Orders
        <5>1. task'[u] = task[u] /\ task[u].pc # "idle"
          BY <1>3, <3>2
        <5> QED BY <5>1, TaskTypes
      <4>2. broker[task[u].order].phase = "cancelled"
        BY <3>2, <4>1 DEF EndedOrder
      <4> QED BY <1>9, <2>3, <4>1, <4>2
    <3> QED BY <3>1, <3>2 DEF EndedOrder
  <2> QED BY <1>6, <1>7, <2>5, <2>6, <2>7
<1> QED BY <1>4, <1>8, <1>9

\* A cancellation or a fill changes one order at the broker and adds its report.
LEMMA BrokerStep ==
  ASSUME LiveInv, NEW o \in Orders, broker[o].phase = "open",
         NEW b \in [phase: Final \cup {"open"}, filled: 0..Quantity], NEW r \in Reports,
         broker' = [broker EXCEPT ![o] = b], reports' = [reports EXCEPT ![o] = @ \cup {r}],
         r.status \in {"cancelled", "rejected"} => b.phase = r.status,
         b.phase = "open" => b.filled < Quantity,
         UNCHANGED <<store, memory, kill, placed>>,
         task' \in [Tasks -> {NoTask} \cup [pc: {"placing", "placed", "cancelling", "cancelled"}, order: Orders]],
         \A u \in Tasks : /\ task'[u] # NoTask => task[u] # NoTask /\ task'[u].order = task[u].order
                          /\ task'[u].pc = "cancelled" => \/ task'[u] = task[u]
                                                          \/ task'[u].order = o /\ b.phase = "cancelled"
  PROVE  LiveInv'
<1> USE DEF LiveInv
<1>1. broker'[o] = b /\ (\A x \in Orders \ {o} : broker'[x] = broker[x])
      /\ broker' \in [Orders -> [phase: Final \cup {"none", "open"}, filled: 0..Quantity]]
  BY DEF LiveTypeOK
<1>2. reports'[o] = reports[o] \cup {r} /\ (\A x \in Orders \ {o} : reports'[x] = reports[x])
      /\ reports' \in [Orders -> SUBSET Reports]
  BY DEF LiveTypeOK
<1>3. LiveTypeOK'
  BY <1>1, <1>2 DEF LiveTypeOK
<1>4. OpenHasRoom'
  BY <1>1 DEF OpenHasRoom, Final
<1>5. RecordedEntry'
  BY DEF RecordedEntry
<1>6. OpenIsBound'
  BY DEF OpenIsBound
<1>7. ASSUME NEW x \in Orders
      PROVE  /\ TellsTheEnd(store[x].state, x)'
             /\ (\A g \in Gateways : TellsTheEnd(memory[g][x].state, x))'
             /\ (\A q \in reports[x] : TellsTheEnd(q.status, x))'
  <2>1. CASE x = o
    <3>1. /\ store'[x].state \notin {"cancelled", "rejected"}
          /\ \A g \in Gateways : memory'[g][x].state \notin {"cancelled", "rejected"}
          /\ \A q \in reports[x] : q.status \notin {"cancelled", "rejected"}
      BY <2>1 DEF EndedOrder, TellsTheEnd
    <3>2. \A q \in reports'[x] : q.status \in {"cancelled", "rejected"} => broker'[x].phase = q.status
      BY <1>1, <1>2, <2>1, <3>1
    <3>3. TellsTheEnd(store[x].state, x)' /\ (\A g \in Gateways : TellsTheEnd(memory[g][x].state, x))'
      BY <3>1 DEF TellsTheEnd
    <3>4. (\A q \in reports[x] : TellsTheEnd(q.status, x))'
      BY <3>2 DEF TellsTheEnd
    <3> QED BY <3>3, <3>4
  <2>2. CASE x # o
    BY <1>1, <1>2, <2>2 DEF EndedOrder, TellsTheEnd
  <2> QED BY <2>1, <2>2
<1>8. ASSUME NEW u \in Tasks, task'[u].pc = "cancelled" PROVE broker'[task'[u].order].phase = "cancelled"
  <2>1. CASE task'[u] = task[u]
    <3>1. task[u].order \in Orders /\ broker[task[u].order].phase = "cancelled"
      BY <1>8, <2>1, TaskTypes DEF EndedOrder
    <3> QED BY <1>1, <2>1, <3>1
  <2>2. CASE task'[u].order = o /\ b.phase = "cancelled"
    BY <1>1, <2>2
  <2> QED BY <1>8, <2>1, <2>2
<1>9. EndedOrder'
  BY <1>7, <1>8 DEF EndedOrder
<1> QED BY <1>3, <1>4, <1>5, <1>6, <1>9

LEMMA AskToCancelStep ==
  ASSUME LiveInv, NEW t \in Tasks, AskToCancel(t)
  PROVE  LiveInv'
<1> DEFINE o == task[t].order
           b == [broker[o] EXCEPT !.phase = "cancelled"]
           r == [status |-> "cancelled", filled |-> broker[o].filled]
<1>1. o \in Orders /\ task[t] # NoTask /\ task[t].pc = "cancelling"
  BY TaskTypes DEF LiveInv, AskToCancel, At
<1>2. /\ broker[o].phase = "open" /\ broker' = [broker EXCEPT ![o] = b]
      /\ reports' = [reports EXCEPT ![o] = @ \cup {r}]
      /\ task' = [task EXCEPT ![t].pc = "cancelled"] /\ UNCHANGED <<store, memory, kill, placed>>
  BY DEF AskToCancel
<1>3. broker[o] \in [phase: Final \cup {"none", "open"}, filled: 0..Quantity]
  BY <1>1 DEF LiveInv, LiveTypeOK
<1>4. b \in [phase: Final \cup {"open"}, filled: 0..Quantity] /\ b.phase = "cancelled"
  BY <1>3 DEF Final
<1>5. r \in Reports /\ r.status = "cancelled"
  BY <1>3 DEF Reports, ReportStates, Final
<1>6. /\ task' \in [Tasks -> {NoTask} \cup [pc: {"placing", "placed", "cancelling", "cancelled"}, order: Orders]]
      /\ task'[t].order = o /\ \A u \in Tasks \ {t} : task'[u] = task[u]
  <2> DEFINE new == [task[t] EXCEPT !.pc = "cancelled"]
  <2>1. task' = [task EXCEPT ![t] = new]
    BY <1>2
  <2>2. new \in [pc: {"placing", "placed", "cancelling", "cancelled"}, order: Orders] /\ new.order = o
    BY <1>1 DEF LiveInv, LiveTypeOK
  <2> HIDE DEF new
  <2> QED BY <2>1, <2>2 DEF LiveInv, LiveTypeOK
<1> HIDE DEF o, b, r
<1>7. \A u \in Tasks : /\ task'[u] # NoTask => task[u] # NoTask /\ task'[u].order = task[u].order
                       /\ task'[u].pc = "cancelled" => \/ task'[u] = task[u]
                                                       \/ task'[u].order = o /\ b.phase = "cancelled"
  BY <1>1, <1>4, <1>6 DEF o
<1>8. (r.status \in {"cancelled", "rejected"} => b.phase = r.status) /\ (b.phase = "open" => b.filled < Quantity)
  BY <1>4, <1>5
<1>9. task' \in [Tasks -> {NoTask} \cup [pc: {"placing", "placed", "cancelling", "cancelled"}, order: Orders]]
  BY <1>6
<1> QED BY <1>1, <1>2, <1>4, <1>5, <1>7, <1>8, <1>9, BrokerStep

LEMMA BrokerFillsStep ==
  ASSUME LiveInv, NEW o \in Orders, BrokerFills(o)
  PROVE  LiveInv'
<1> DEFINE filled == broker[o].filled + 1
           done == filled = Quantity
           b == [phase |-> IF done THEN "filled" ELSE "open", filled |-> filled]
           r == [status |-> IF done THEN "filled" ELSE "partially_filled", filled |-> filled]
<1>1. /\ broker[o].phase = "open" /\ broker' = [broker EXCEPT ![o] = b]
      /\ reports' = [reports EXCEPT ![o] = @ \cup {r}]
      /\ UNCHANGED <<store, memory, task, kill, placed>>
  BY DEF BrokerFills
<1>2. filled \in 0..Quantity /\ (~done => filled < Quantity)
  BY <1>1, OmsAssumption DEF LiveInv, LiveTypeOK, OpenHasRoom
<1> HIDE DEF filled
<1>3. b \in [phase: Final \cup {"open"}, filled: 0..Quantity] /\ (b.phase = "open" => b.filled < Quantity)
  BY <1>2 DEF Final
<1>4. r \in Reports /\ r.status \notin {"cancelled", "rejected"}
  BY <1>2 DEF Reports, ReportStates, Final
<1> HIDE DEF b, r
<1>5. task' \in [Tasks -> {NoTask} \cup [pc: {"placing", "placed", "cancelling", "cancelled"}, order: Orders]]
  BY <1>1 DEF LiveInv, LiveTypeOK
<1> QED BY <1>1, <1>3, <1>4, <1>5, BrokerStep

LEMMA KillSwitchStep ==
  ASSUME LiveInv, NEW g \in Gateways, KillSwitch(g)
  PROVE  LiveInv'
<1> USE DEF LiveInv
<1>1. UNCHANGED <<store, memory, task, broker, reports, placed>> /\ kill' = [kill EXCEPT ![g] = ~@]
  BY DEF KillSwitch, brokerVars
<1>2. LiveTypeOK'
  BY <1>1 DEF LiveTypeOK
<1>3. OpenHasRoom' /\ RecordedEntry' /\ EndedOrder' /\ OpenIsBound'
  BY <1>1 DEF OpenHasRoom, RecordedEntry, EndedOrder, TellsTheEnd, OpenIsBound
<1> QED BY <1>2, <1>3

\* After a restart a row that was sent is still one that was.
LEMMA RestartStep ==
  ASSUME LiveInv, NEW g \in Gateways, Restart(g)
  PROVE  LiveInv'
<1> USE DEF LiveInv
<1>1. /\ store' = [o \in Orders |-> Recovered(store[o])] /\ memory' = [memory EXCEPT ![g] = store']
      /\ task' = [t \in Tasks |-> IF Home[t] = g THEN NoTask ELSE task[t]]
      /\ kill' = [kill EXCEPT ![g] = TRUE] /\ UNCHANGED <<broker, reports, placed>>
  BY DEF Restart, brokerVars
<1>2. \A o \in Orders : /\ store[o] \in EntryType /\ store'[o] \in EntryType
                        /\ store'[o].state \in {store[o].state, "unknown"}
                        /\ store[o].state # "none" => store'[o].state # "created"
                        /\ store'[o].bound = store[o].bound
  <2> TAKE o \in Orders
  <2>1. store[o] \in EntryType /\ store'[o] = Recovered(store[o])
    BY <1>1 DEF LiveTypeOK
  <2> QED BY <2>1, RecoveredEntry DEF Final
<1>3. store' \in [Orders -> EntryType]
  BY <1>1, <1>2
<1>4. /\ memory' \in [Gateways -> [Orders -> EntryType]] /\ memory'[g] = store'
      /\ \A h \in Gateways \ {g} : memory'[h] = memory[h]
  BY <1>1, <1>3 DEF LiveTypeOK
<1>5. task' \in [Tasks -> {NoTask} \cup [pc: {"placing", "placed", "cancelling", "cancelled"}, order: Orders]]
      /\ \A t \in Tasks : task'[t] = NoTask \/ (task'[t] = task[t] /\ Home[t] # g)
  BY <1>1 DEF LiveTypeOK
<1>6. LiveTypeOK' /\ OpenHasRoom'
  BY <1>1, <1>3, <1>4, <1>5 DEF LiveTypeOK, OpenHasRoom
<1>7. RecordedEntry'
  <2>1. \A o \in Orders : Sent(store[o]) => Sent(store'[o])
    BY <1>2 DEF Sent
  <2>2. \A t \in Tasks : task[t] # NoTask => task[t].order \in Orders
    BY DEF LiveTypeOK
  <2> QED BY <1>1, <1>4, <1>5, <2>1, <2>2, Homes DEF RecordedEntry
<1>8. EndedOrder'
  <2>1. ASSUME NEW o \in Orders
        PROVE  /\ TellsTheEnd(store[o].state, o)'
               /\ (\A h \in Gateways : TellsTheEnd(memory[h][o].state, o))'
               /\ (\A r \in reports[o] : TellsTheEnd(r.status, o))'
    BY <1>1, <1>2, <1>4 DEF EndedOrder, TellsTheEnd
  <2>2. \A t \in Tasks : task'[t].pc = "cancelled" => broker'[task'[t].order].phase = "cancelled"
    BY <1>1, <1>5, NoTaskIsNone DEF EndedOrder
  <2> QED BY <2>1, <2>2 DEF EndedOrder
<1>9. OpenIsBound'
  BY <1>2 DEF OpenIsBound
<1> QED BY <1>6, <1>7, <1>8, <1>9

-----------------------------------------------------------------------------
(* The theorems for any number of gateways *)

LEMMA LiveStep == LiveInv /\ [OmsNext]_omsVars => LiveInv'
<1> SUFFICES ASSUME LiveInv, [OmsNext]_omsVars PROVE LiveInv'
    OBVIOUS
<1>1. CASE UNCHANGED omsVars
  <2>1. UNCHANGED <<store, memory, task, kill, broker, reports, placed>>
    BY <1>1 DEF omsVars
  <2>2. LiveTypeOK' /\ OpenHasRoom' /\ RecordedEntry' /\ OpenIsBound'
    BY <2>1 DEF LiveInv, LiveTypeOK, OpenHasRoom, RecordedEntry, OpenIsBound
  <2>3. EndedOrder'
    BY <2>1 DEF LiveInv, EndedOrder, TellsTheEnd
  <2> QED BY <2>2, <2>3 DEF LiveInv
<1>2. ASSUME NEW t \in Tasks, TaskStep(t) PROVE LiveInv'
  <2>1. ASSUME NEW o \in Orders, Submit(t, o) \/ Cancel(t, o) PROVE LiveInv'
    BY <2>1, SubmitStep, OrderCancelStep
  <2>2. CASE Place(t) \/ AskToCancel(t)
    BY <2>2, PlaceStep, AskToCancelStep
  <2>3. CASE SubmitFails(t) \/ CancelFails(t) \/ CancelAnswered(t)
    BY <2>3, SubmitFailsStep, CancelAnsweredStep
  <2>4. ASSUME NEW status \in ReportStates, SubmitAnswered(t, status) PROVE LiveInv'
    BY <2>4, SubmitAnsweredStep
  <2> QED BY <1>2, <2>1, <2>2, <2>3, <2>4 DEF TaskStep
<1>3. ASSUME NEW g \in Gateways, GatewayStep(g) PROVE LiveInv'
  <2>1. ASSUME NEW o \in Orders, Register(g, o) \/ MissingInSnapshot(g, o) PROVE LiveInv'
    BY <2>1, RegisterStep, MissingStep
  <2>2. ASSUME NEW o \in Orders, NEW r \in reports[o], ApplyReport(g, o, r) PROVE LiveInv'
    BY <2>2, ApplyReportStep
  <2>3. CASE KillSwitch(g) \/ Restart(g)
    BY <2>3, KillSwitchStep, RestartStep
  <2> QED BY <1>3, <2>1, <2>2, <2>3 DEF GatewayStep
<1>4. ASSUME NEW o \in Orders, BrokerFills(o) PROVE LiveInv'
  BY <1>4, BrokerFillsStep
<1> QED BY <1>1, <1>2, <1>3, <1>4 DEF OmsNext

LEMMA LiveAlways == OmsSpec => []LiveInv
BY OmsInitially, LiveStep, PTL DEF OmsSpec

\* The rows, the copies, the tasks and the broker keep their types.
THEOREM LiveTypes == OmsSpec => []LiveTypeOK
<1>1. LiveInv => LiveTypeOK
  BY DEF LiveInv
<1> QED BY <1>1, LiveAlways, PTL

\* An order the broker has received is never on record as one that was not sent,
\* whatever the gateways do at the same time and wherever they stop.
THEOREM SentOnRecord == OmsSpec => []SentIsOnRecord
<1>1. LiveInv => SentIsOnRecord
  BY DEF LiveInv, RecordedEntry, Sent, SentIsOnRecord
<1> QED BY <1>1, LiveAlways, PTL

\* A row says cancelled or rejected only of an order the broker ended so.
THEOREM EndedOnlyAtTheBroker == OmsSpec => []EndedAtTheBroker
<1>1. LiveInv => EndedAtTheBroker
  BY DEF LiveInv, EndedOrder, TellsTheEnd, EndedAtTheBroker
<1> QED BY <1>1, LiveAlways, PTL

\* A row that is open has the order id of the broker.
THEOREM OpenOrdersAreBound == OmsSpec => []OpenIsBound
<1>1. LiveInv => OpenIsBound
  BY DEF LiveInv
<1> QED BY <1>1, LiveAlways, PTL

\* What a row says of its order was sent, is known by its id and has ended as it says,
\* for any number of gateways on the store.
THEOREM TrueRecord == OmsSpec => []RecordIsTrue
<1>1. SentIsOnRecord /\ OpenIsBound /\ EndedAtTheBroker => RecordIsTrue
  BY DEF RecordIsTrue
<1> QED BY <1>1, SentOnRecord, EndedOnlyAtTheBroker, OpenOrdersAreBound, PTL

-----------------------------------------------------------------------------
(* A second placement, for any number of gateways *)

Heard(e) == e.applied # {}

\* The order id of the broker comes with a receipt or with a report.
Identified(e) == e.bound <=> e.receipt \/ Heard(e)

Places(t, o) == task[t].pc = "placing" /\ task[t].order = o
Submits(t, o) == task[t].pc \in {"placing", "placed"} /\ task[t].order = o
Asks(t, o) == task[t].pc \in {"cancelling", "cancelled"} /\ task[t].order = o

\* The entry the task of a gateway holds over its call.
Copy(t, o) == memory[Home[t]][o]

\* What is known of the order.  Row and copies may each miss a receipt or a report of
\* the other, but whoever asks for a cancellation and the row, or two who ask, know
\* one of them together whichever overwrites the other.
KnownOrder(o) ==
  /\ store[o].state = "none" => ~store[o].bound
  /\ Identified(store[o]) /\ \A g \in Gateways : Identified(memory[g][o])
  /\ \A r \in reports[o] : r.status = "cancelled" => store[o].bound
  /\ \A t \in Tasks : Asks(t, o) => /\ store[o].bound
                                    /\ Heard(Copy(t, o)) \/ store[o].receipt
                                    /\ Copy(t, o).receipt \/ Heard(store[o])
  /\ \A t, u \in Tasks : Asks(t, o) /\ Asks(u, o) => Copy(u, o).receipt \/ Heard(Copy(t, o))

\* A submission runs alone, the row says so until it hears of the broker, and the copy
\* of its gateway says so as long as the row does.
RunsAlone(o) ==
  /\ \A t, u \in Tasks : Submits(t, o) /\ Submits(u, o) => t = u
  /\ store[o].state = "submitting" => \A t \in Tasks : Submits(t, o) => Copy(t, o).state = "submitting"
  /\ store[o].state = "submitting" /\ ~store[o].bound /\ placed[o] > 0 => Submitting(o)

\* An order that is or will be placed once more.
Repeats(o) == placed[o] > 1 \/ (placed[o] > 0 /\ \E t \in Tasks : Places(t, o))

AllHeard(o) == Heard(store[o]) /\ \A t \in Tasks : Asks(t, o) => Heard(Copy(t, o))

RepeatOf(o) == KnownOrder(o) /\ RunsAlone(o) /\ (Repeats(o) => AllHeard(o))

RepeatInv == \A o \in Orders : RepeatOf(o)

\* What a step leaves alone of an order.
SameOrder(o) ==
  /\ store'[o] = store[o] /\ placed'[o] = placed[o] /\ reports'[o] = reports[o]
  /\ \A g \in Gateways : memory'[g][o] = memory[g][o]
  /\ \A t \in Tasks : /\ Submits(t, o)' <=> Submits(t, o)
                      /\ Places(t, o)' <=> Places(t, o)
                      /\ Asks(t, o)' <=> Asks(t, o)

LEMMA SameOrderKept ==
  ASSUME NEW o \in Orders, RepeatOf(o), SameOrder(o)
  PROVE  RepeatOf(o)'
<1>1. \A t \in Tasks : Copy(t, o)' = Copy(t, o)
  BY Homes DEF SameOrder, Copy
<1>2. Submitting(o)' <=> Submitting(o)
  BY DEF SameOrder, Submitting, Submits
<1>3. KnownOrder(o)'
  BY <1>1 DEF RepeatOf, SameOrder, KnownOrder, Identified, Heard
<1>4. RunsAlone(o)'
  BY <1>1, <1>2 DEF RepeatOf, SameOrder, RunsAlone
<1>5. Repeats(o)' <=> Repeats(o)
  BY DEF SameOrder, Repeats
<1>6. AllHeard(o)' <=> AllHeard(o)
  BY <1>1 DEF SameOrder, AllHeard, Heard
<1> QED BY <1>3, <1>4, <1>5, <1>6 DEF RepeatOf

\* The entry of the order in the row and in one gateway.
WritesEntry(g, o, e) ==
  /\ store'[o] = e /\ memory'[g][o] = e
  /\ \A h \in Gateways \ {g} : memory'[h][o] = memory[h][o]

\* An entry that is made of the row: it has the receipt of the row and at least its
\* order id and its reports.
MadeOfRow(o, e) ==
  /\ e.receipt <=> store[o].receipt
  /\ store[o].bound => e.bound
  /\ Heard(store[o]) => Heard(e)
  /\ Identified(e) /\ e.state # "none"

LEMMA RowWritten ==
  ASSUME NEW o \in Orders, NEW g \in Gateways, NEW e, RepeatOf(o), WritesEntry(g, o, e), MadeOfRow(o, e),
         reports'[o] = reports[o],
         \A t \in Tasks : Asks(t, o)' => Asks(t, o) \/ (Home[t] = g /\ e.bound)
  PROVE  KnownOrder(o)' /\ (AllHeard(o) => AllHeard(o)')
<1>1. \A t \in Tasks : \/ Home[t] = g /\ Copy(t, o)' = e
                       \/ Home[t] # g /\ Copy(t, o)' = Copy(t, o)
  BY Homes DEF WritesEntry, Copy
<1>2. ASSUME NEW t \in Tasks, Asks(t, o)'
      PROVE  /\ e.bound
             /\ Heard(Copy(t, o))' \/ e.receipt
             /\ Copy(t, o)'.receipt \/ Heard(e)
  <2>1. CASE Home[t] = g
    <3>1. e.bound
      BY <1>2 DEF RepeatOf, KnownOrder, MadeOfRow
    <3>2. e.receipt \/ Heard(e)
      BY <3>1 DEF MadeOfRow, Identified
    <3> QED BY <1>1, <2>1, <3>1, <3>2 DEF Heard
  <2>2. CASE Home[t] # g
    <3>1. /\ store[o].bound
          /\ Heard(Copy(t, o)) \/ store[o].receipt
          /\ Copy(t, o).receipt \/ Heard(store[o])
      BY <1>2, <2>2 DEF RepeatOf, KnownOrder
    <3> QED BY <1>1, <2>2, <3>1 DEF MadeOfRow, Heard
  <2> QED BY <2>1, <2>2
<1>3. ASSUME NEW t \in Tasks, NEW u \in Tasks, Asks(t, o)', Asks(u, o)'
      PROVE  Copy(u, o)'.receipt \/ Heard(Copy(t, o))'
  <2>1. CASE Home[u] = g /\ Home[t] = g
    BY <1>1, <1>2, <1>3, <2>1 DEF Heard
  <2>2. CASE Home[u] = g /\ Home[t] # g
    BY <1>1, <1>2, <1>3, <2>2 DEF Heard
  <2>3. CASE Home[u] # g /\ Home[t] = g
    BY <1>1, <1>2, <1>3, <2>3 DEF Heard
  <2>4. CASE Home[u] # g /\ Home[t] # g
    <3>1. Copy(u, o).receipt \/ Heard(Copy(t, o))
      BY <1>3, <2>4 DEF RepeatOf, KnownOrder
    <3> QED BY <1>1, <2>4, <3>1 DEF Heard
  <2> QED BY <2>1, <2>2, <2>3, <2>4
<1>4. \A h \in Gateways : Identified(memory'[h][o])
  BY DEF WritesEntry, MadeOfRow, RepeatOf, KnownOrder
<1>5. KnownOrder(o)'
  <2>1. store'[o] = e /\ e.state # "none" /\ Identified(e)
    BY DEF WritesEntry, MadeOfRow
  <2>2. \A r \in reports'[o] : r.status = "cancelled" => e.bound
    BY DEF RepeatOf, KnownOrder, MadeOfRow
  <2> QED BY <1>2, <1>3, <1>4, <2>1, <2>2 DEF KnownOrder, Identified, Heard
<1>6. AllHeard(o) => AllHeard(o)'
  <2> SUFFICES ASSUME AllHeard(o) PROVE AllHeard(o)'
      OBVIOUS
  <2>1. Heard(e) /\ store'[o] = e
    BY DEF AllHeard, MadeOfRow, WritesEntry
  <2>2. ASSUME NEW t \in Tasks, Asks(t, o)' PROVE Heard(Copy(t, o))'
    BY <1>1, <2>1, <2>2 DEF AllHeard, Heard
  <2> QED BY <2>1, <2>2 DEF AllHeard, Heard
<1> QED BY <1>5, <1>6

\* An entry made of the row that ends the wait for the broker.
LEMMA WrittenOver ==
  ASSUME NEW o \in Orders, NEW g \in Gateways, NEW e, RepeatOf(o), WritesEntry(g, o, e), MadeOfRow(o, e),
         e.state # "submitting",
         placed'[o] = placed[o], reports'[o] = reports[o],
         \A t \in Tasks : /\ Submits(t, o)' => Submits(t, o)
                          /\ Places(t, o)' => Places(t, o)
                          /\ Asks(t, o)' => Asks(t, o) \/ (Home[t] = g /\ e.bound)
  PROVE  RepeatOf(o)'
<1>1. KnownOrder(o)' /\ (AllHeard(o) => AllHeard(o)')
  BY RowWritten
<1>2. RunsAlone(o)'
  <2>1. \A t, u \in Tasks : Submits(t, o)' /\ Submits(u, o)' => t = u
    BY DEF RepeatOf, RunsAlone
  <2>2. store'[o].state # "submitting"
    BY DEF WritesEntry
  <2> QED BY <2>1, <2>2 DEF RunsAlone
<1>3. Repeats(o)' => Repeats(o)
  BY DEF Repeats
<1> QED BY <1>1, <1>2, <1>3 DEF RepeatOf

\* The tasks that change work on the order before and after.
TasksOn(o) ==
  \A t \in Tasks : \/ task'[t] = task[t]
                   \/ /\ task[t].pc = "idle" \/ task[t].order = o
                      /\ task'[t].pc = "idle" \/ task'[t].order = o

\* A step about one order leaves the others alone.
LEMMA OtherOrders ==
  ASSUME RepeatInv, NEW o \in Orders,
         \A x \in Orders \ {o} : /\ store'[x] = store[x] /\ \A h \in Gateways : memory'[h][x] = memory[h][x]
                                 /\ placed'[x] = placed[x] /\ reports'[x] = reports[x],
         TasksOn(o), RepeatOf(o)'
  PROVE  RepeatInv'
<1> SUFFICES ASSUME NEW x \in Orders, x # o PROVE RepeatOf(x)'
    BY DEF RepeatInv
<1>1. ASSUME NEW t \in Tasks
      PROVE  /\ Submits(t, x)' <=> Submits(t, x)
             /\ Places(t, x)' <=> Places(t, x)
             /\ Asks(t, x)' <=> Asks(t, x)
  <2>1. CASE task'[t] = task[t]
    BY <2>1 DEF Submits, Places, Asks
  <2>2. CASE /\ task[t].pc = "idle" \/ task[t].order = o
             /\ task'[t].pc = "idle" \/ task'[t].order = o
    BY <2>2 DEF Submits, Places, Asks
  <2> QED BY <2>1, <2>2 DEF TasksOn
<1> QED BY <1>1, SameOrderKept DEF RepeatInv, SameOrder

LEMMA OneOrder ==
  ASSUME LiveInv, RepeatInv, NEW o \in Orders, NEW g \in Gateways, NEW e \in EntryType,
         Persist(g, o, e) \/ Spoil(g, o, e),
         UNCHANGED <<placed, reports>>, TasksOn(o), RepeatOf(o)'
  PROVE  RepeatInv'
<1>1. \A x \in Orders \ {o} : store'[x] = store[x] /\ \A h \in Gateways : memory'[h][x] = memory[h][x]
  BY Written DEF LiveInv
<1> QED BY <1>1, OtherOrders

LEMMA PersistWrites ==
  ASSUME LiveInv, NEW o \in Orders, NEW g \in Gateways, NEW e \in EntryType, Persist(g, o, e)
  PROVE  WritesEntry(g, o, e)
BY Written DEF LiveInv, WritesEntry

\* One task ends, and no other changes.
LEMMA EndedTask ==
  ASSUME LiveInv, NEW t \in Tasks, NEW o, task[t].order = o, task' = [task EXCEPT ![t] = NoTask]
  PROVE  /\ TasksOn(o)
         /\ \A u \in Tasks : /\ Submits(u, o)' <=> u # t /\ Submits(u, o)
                             /\ Places(u, o)' <=> u # t /\ Places(u, o)
                             /\ Asks(u, o)' <=> u # t /\ Asks(u, o)
<1>1. task'[t] = NoTask /\ \A u \in Tasks \ {t} : task'[u] = task[u]
  BY DEF LiveInv, LiveTypeOK
<1>2. TasksOn(o)
  BY <1>1, NoTaskIsNone DEF TasksOn
<1>3. ASSUME NEW u \in Tasks
      PROVE  /\ Submits(u, o)' <=> u # t /\ Submits(u, o)
             /\ Places(u, o)' <=> u # t /\ Places(u, o)
             /\ Asks(u, o)' <=> u # t /\ Asks(u, o)
  <2>1. CASE u = t
    BY <1>1, <2>1, NoTaskIsNone DEF Submits, Places, Asks
  <2>2. CASE u # t
    BY <1>1, <2>2 DEF Submits, Places, Asks
  <2> QED BY <2>1, <2>2
<1> QED BY <1>2, <1>3

LEMMA TasksSame ==
  ASSUME NEW o, UNCHANGED task
  PROVE  /\ TasksOn(o)
         /\ \A u \in Tasks : /\ Submits(u, o)' <=> Submits(u, o)
                             /\ Places(u, o)' <=> Places(u, o)
                             /\ Asks(u, o)' <=> Asks(u, o)
BY DEF TasksOn, Submits, Places, Asks

\* What an entry of the row becomes when its outcome is unknown.
LEMMA UnknownOfRow ==
  ASSUME LiveInv, RepeatInv, NEW o \in Orders
  PROVE  MadeOfRow(o, Unknown(store[o])) /\ Unknown(store[o]).state # "submitting"
<1> DEFINE e == Unknown(store[o])
<1>1. /\ e.state = "unknown" /\ e.applied = store[o].applied
      /\ e.receipt = store[o].receipt /\ e.bound = store[o].bound
  BY UnknownEntry DEF LiveInv, LiveTypeOK
<1>2. Identified(store[o])
  BY DEF RepeatInv, RepeatOf, KnownOrder
<1> HIDE DEF e
<1>3. MadeOfRow(o, e) /\ e.state # "submitting"
  BY <1>1, <1>2 DEF MadeOfRow, Identified, Heard
<1> QED BY <1>3 DEF e

LEMMA RepeatFails ==
  ASSUME LiveInv, RepeatInv, NEW t \in Tasks, SubmitFails(t) \/ CancelFails(t)
  PROVE  RepeatInv'
<1>1. task[t].order \in Orders /\ Home[t] \in Gateways
  BY TaskTypes, Homes DEF LiveInv, SubmitFails, CancelFails, At
<1>2. PICK o \in Orders : o = task[t].order
  BY <1>1
<1> DEFINE e == Unknown(store[o])
<1>3. /\ Persist(Home[t], o, e) /\ UNCHANGED <<broker, reports, placed>>
      /\ task' = [task EXCEPT ![t] = NoTask]
  BY <1>2 DEF SubmitFails, CancelFails, MarkUnknown, brokerVars
<1>4. e \in EntryType
  BY UnknownEntry DEF LiveInv, LiveTypeOK
<1>5. MadeOfRow(o, e) /\ e.state # "submitting"
  BY UnknownOfRow
<1>6. /\ TasksOn(o)
      /\ \A u \in Tasks : /\ Submits(u, o)' => Submits(u, o)
                          /\ Places(u, o)' => Places(u, o)
                          /\ Asks(u, o)' => Asks(u, o)
  BY <1>2, <1>3, EndedTask
<1> HIDE DEF e
<1>7. WritesEntry(Home[t], o, e) /\ RepeatOf(o)
  BY <1>1, <1>3, <1>4, PersistWrites DEF RepeatInv
<1>8. RepeatOf(o)'
  BY <1>1, <1>3, <1>5, <1>6, <1>7, WrittenOver
<1> QED BY <1>1, <1>3, <1>4, <1>6, <1>8, OneOrder

LEMMA RepeatMissing ==
  ASSUME LiveInv, RepeatInv, NEW g \in Gateways, NEW o \in Orders, MissingInSnapshot(g, o)
  PROVE  RepeatInv'
<1> DEFINE e == Unknown(store[o])
<1>1. Persist(g, o, e) /\ UNCHANGED <<task, broker, reports, placed>>
  BY DEF MissingInSnapshot, MarkUnknown, brokerVars
<1>2. e \in EntryType
  BY UnknownEntry DEF LiveInv, LiveTypeOK
<1>3. MadeOfRow(o, e) /\ e.state # "submitting"
  BY UnknownOfRow
<1> HIDE DEF e
<1>4. WritesEntry(g, o, e) /\ RepeatOf(o)
  BY <1>1, <1>2, PersistWrites DEF RepeatInv
<1>5. RepeatOf(o)'
  BY <1>1, <1>3, <1>4, TasksSame, WrittenOver
<1> QED BY <1>1, <1>2, <1>5, TasksSame, OneOrder

LEMMA RepeatRegister ==
  ASSUME LiveInv, RepeatInv, NEW g \in Gateways, NEW o \in Orders, Register(g, o)
  PROVE  RepeatInv'
<1>1. Persist(g, o, Created) /\ UNCHANGED <<task, broker, reports, placed>> /\ store[o].state = "none"
  BY DEF Register, brokerVars
<1>2. /\ Created \in EntryType /\ Created.state = "created"
      /\ ~Created.receipt /\ ~Created.bound /\ ~Heard(Created)
  BY EntryTypes DEF Created, NoEntry, Heard
<1>3. ~store[o].bound /\ ~store[o].receipt /\ ~Heard(store[o])
  BY <1>1 DEF RepeatInv, RepeatOf, KnownOrder, Identified
<1>4. MadeOfRow(o, Created)
  BY <1>2, <1>3 DEF MadeOfRow, Identified
<1>5. WritesEntry(g, o, Created) /\ RepeatOf(o)
  BY <1>1, <1>2, PersistWrites DEF RepeatInv
<1>6. RepeatOf(o)'
  BY <1>1, <1>2, <1>4, <1>5, TasksSame, WrittenOver
<1> QED BY <1>1, <1>2, <1>6, TasksSame, OneOrder

LEMMA RepeatReport ==
  ASSUME LiveInv, RepeatInv, NEW g \in Gateways, NEW o \in Orders, NEW r \in reports[o], ApplyReport(g, o, r)
  PROVE  RepeatInv'
<1> DEFINE e == Applied(store[o], r)
<1>1. Persist(g, o, e) /\ UNCHANGED <<task, broker, reports, placed>>
  BY DEF ApplyReport, brokerVars
<1>2. r \in Reports /\ store[o] \in EntryType
  BY DEF LiveInv, LiveTypeOK
<1>3. /\ e \in EntryType /\ e.state = r.status /\ e.bound /\ e.receipt = store[o].receipt
      /\ e.applied # {}
  BY <1>2, AppliedEntry
<1>4. r.status \notin {"none", "submitting"}
  BY <1>2 DEF Reports, ReportStates, Final
<1> HIDE DEF e
<1>5. MadeOfRow(o, e) /\ e.state # "submitting"
  BY <1>3, <1>4 DEF MadeOfRow, Identified, Heard
<1>6. WritesEntry(g, o, e) /\ RepeatOf(o)
  BY <1>1, <1>3, PersistWrites DEF RepeatInv
<1>7. RepeatOf(o)'
  BY <1>1, <1>5, <1>6, TasksSame, WrittenOver
<1> QED BY <1>1, <1>3, <1>7, TasksSame, OneOrder

\* A task starts on the order.
LEMMA StartedTask ==
  ASSUME LiveInv, NEW t \in Tasks, NEW o \in Orders, NEW pc,
         task[t].pc = "idle", task' = [task EXCEPT ![t] = [pc |-> pc, order |-> o]]
  PROVE  /\ TasksOn(o)
         /\ task'[t].pc = pc /\ task'[t].order = o
         /\ \A u \in Tasks \ {t} : /\ Submits(u, o)' <=> Submits(u, o)
                                   /\ Places(u, o)' <=> Places(u, o)
                                   /\ Asks(u, o)' <=> Asks(u, o)
<1> DEFINE new == [pc |-> pc, order |-> o]
<1>1. new.pc = pc /\ new.order = o
  OBVIOUS
<1>2. task' = [task EXCEPT ![t] = new]
  OBVIOUS
<1> HIDE DEF new
<1>3. task'[t] = new /\ \A u \in Tasks \ {t} : task'[u] = task[u]
  BY <1>2 DEF LiveInv, LiveTypeOK
<1>4. TasksOn(o)
  BY <1>1, <1>3 DEF TasksOn
<1> QED BY <1>1, <1>3, <1>4 DEF Submits, Places, Asks

\* A cancellation may be asked for when the row knows the order id.
LEMMA RepeatCancel ==
  ASSUME LiveInv, RepeatInv, NEW t \in Tasks, NEW o \in Orders, Cancel(t, o)
  PROVE  RepeatInv'
<1> DEFINE state == IF store[o].bound THEN "cancel_pending" ELSE "unknown"
           e == [store[o] EXCEPT !.state = state]
<1>1. /\ Persist(Home[t], o, e) /\ UNCHANGED <<broker, reports, placed>> /\ task[t].pc = "idle"
      /\ task' = [task EXCEPT ![t] = IF store[o].bound THEN [pc |-> "cancelling", order |-> o] ELSE NoTask]
  BY DEF Cancel, At, brokerVars
<1>2. state \in States /\ state \notin {"none", "submitting"}
  BY DEF States, Outstanding
<1> HIDE DEF state
<1>3. /\ e \in EntryType /\ e.state = state /\ e.bound = store[o].bound
      /\ e.receipt = store[o].receipt /\ e.applied = store[o].applied
  <2>1. store[o] \in EntryType
    BY DEF LiveInv, LiveTypeOK
  <2> QED BY <1>2, <2>1 DEF EntryType
<1> HIDE DEF e
<1>4. MadeOfRow(o, e) /\ e.state # "submitting"
  BY <1>2, <1>3 DEF RepeatInv, RepeatOf, KnownOrder, MadeOfRow, Identified, Heard
<1>5. WritesEntry(Home[t], o, e) /\ RepeatOf(o)
  BY <1>1, <1>3, Homes, PersistWrites DEF RepeatInv
<1>6. /\ TasksOn(o)
      /\ \A u \in Tasks : /\ Submits(u, o)' => Submits(u, o)
                          /\ Places(u, o)' => Places(u, o)
                          /\ Asks(u, o)' => Asks(u, o) \/ (Home[u] = Home[t] /\ e.bound)
  <2>1. CASE store[o].bound
    <3>1. task' = [task EXCEPT ![t] = [pc |-> "cancelling", order |-> o]]
      BY <1>1, <2>1
    <3>2. /\ TasksOn(o) /\ task'[t].pc = "cancelling"
          /\ \A u \in Tasks \ {t} : /\ Submits(u, o)' <=> Submits(u, o)
                                    /\ Places(u, o)' <=> Places(u, o)
                                    /\ Asks(u, o)' <=> Asks(u, o)
      BY <1>1, <3>1, StartedTask
    <3>3. ~Submits(t, o)' /\ ~Places(t, o)'
      BY <3>2 DEF Submits, Places
    <3> QED BY <1>3, <2>1, <3>2, <3>3
  <2>2. CASE ~store[o].bound
    <3>1. task' = [task EXCEPT ![t] = NoTask]
      BY <1>1, <2>2
    <3>2. task'[t] = NoTask /\ \A u \in Tasks \ {t} : task'[u] = task[u]
      BY <3>1 DEF LiveInv, LiveTypeOK
    <3> QED BY <1>1, <3>2, NoTaskIsNone DEF TasksOn, Submits, Places, Asks
  <2> QED BY <2>1, <2>2
<1>7. RepeatOf(o)'
  BY <1>1, <1>4, <1>5, <1>6, Homes, WrittenOver
<1> QED BY <1>1, <1>3, <1>6, <1>7, Homes, OneOrder

\* A submission is repeated only when the row says that nothing was sent, or that it
\* was, with no receipt and no submission at work: then the broker has reported.
LEMMA RepeatSubmit ==
  ASSUME ~Overlapping, LiveInv, RepeatInv, NEW t \in Tasks, NEW o \in Orders, Submit(t, o)
  PROVE  RepeatInv'
<1> DEFINE row == Registered(o)
           e == [row EXCEPT !.state = "submitting"]
<1>1. /\ Persist(Home[t], o, e) /\ UNCHANGED <<broker, reports, placed>> /\ task[t].pc = "idle"
      /\ task' = [task EXCEPT ![t] = [pc |-> "placing", order |-> o]]
      /\ MaySubmit(row) /\ ~Submitting(o)
  BY DEF Submit, SaveBarrier, At, brokerVars
<1>2. RepeatOf(o) /\ Identified(store[o])
  BY DEF RepeatInv, RepeatOf, KnownOrder
<1>3. row \in EntryType
  BY RegisteredEntry DEF LiveInv
<1>4. /\ row.receipt <=> store[o].receipt
      /\ row.bound <=> store[o].bound
      /\ Heard(row) <=> Heard(store[o])
      /\ store[o].state # "none" => row = store[o]
  <2>1. CASE store[o].state = "none"
    <3>1. ~store[o].bound /\ ~store[o].receipt /\ ~Heard(store[o])
      BY <1>2, <2>1 DEF RepeatOf, KnownOrder, Identified
    <3>2. row = Created /\ ~Created.receipt /\ ~Created.bound /\ ~Heard(Created)
      BY <2>1 DEF Registered, Created, NoEntry, Heard
    <3> QED BY <2>1, <3>1, <3>2
  <2>2. CASE store[o].state # "none"
    BY <2>2 DEF Registered
  <2> QED BY <2>1, <2>2
<1> HIDE DEF row
<1>5. /\ e \in EntryType /\ e.state = "submitting" /\ e.bound = row.bound
      /\ e.receipt = row.receipt /\ e.applied = row.applied
  <2>1. "submitting" \in States
    BY DEF States, Outstanding
  <2> QED BY <1>3, <2>1 DEF EntryType
<1> HIDE DEF e
<1>6. MadeOfRow(o, e)
  BY <1>2, <1>4, <1>5 DEF MadeOfRow, Identified, Heard
<1>7. WritesEntry(Home[t], o, e)
  BY <1>1, <1>5, Homes, PersistWrites
<1>8. /\ TasksOn(o) /\ task'[t].pc = "placing" /\ task'[t].order = o
      /\ \A u \in Tasks \ {t} : /\ Submits(u, o)' <=> Submits(u, o)
                                /\ Places(u, o)' <=> Places(u, o)
                                /\ Asks(u, o)' <=> Asks(u, o)
  BY <1>1, StartedTask
<1>9. Submits(t, o)' /\ ~Asks(t, o)' /\ \A u \in Tasks \ {t} : ~Submits(u, o)'
  <2>1. \A u \in Tasks : ~Submits(u, o)
    BY <1>1 DEF Submitting, Submits
  <2> QED BY <1>8, <2>1 DEF Submits, Asks
<1>10. KnownOrder(o)' /\ (AllHeard(o) => AllHeard(o)')
  <2>1. \A u \in Tasks : Asks(u, o)' => Asks(u, o)
    BY <1>8, <1>9
  <2> QED BY <1>1, <1>2, <1>6, <1>7, <2>1, Homes, RowWritten
<1>11. RunsAlone(o)'
  <2>1. Copy(t, o)' = e
    BY <1>7 DEF Copy, WritesEntry
  <2>2. Submitting(o)'
    BY <1>9 DEF Submitting, Submits
  <2> QED BY <1>5, <1>9, <2>1, <2>2 DEF RunsAlone
<1>12. placed[o] > 0 => AllHeard(o)
  <2> SUFFICES ASSUME placed[o] > 0 PROVE AllHeard(o)
      OBVIOUS
  <2>1. store[o].state \notin {"none", "created"}
    BY DEF LiveInv, RecordedEntry, Sent
  <2>2. row = store[o] /\ ~store[o].receipt /\ store[o].state \notin Final \cup {"unknown"}
    BY <1>1, <1>4, <2>1 DEF MaySubmit
  <2>3. store[o].state = "submitting" => store[o].bound
    BY <1>1, <1>2 DEF RepeatOf, RunsAlone
  <2>4. store[o].state \in {"acknowledged", "partially_filled", "cancel_pending", "submitting"}
    BY <2>1, <2>2 DEF LiveInv, LiveTypeOK, EntryType, States, Outstanding
  <2>5. store[o].bound
    BY <2>3, <2>4 DEF LiveInv, OpenIsBound
  <2>6. Heard(store[o])
    BY <1>2, <2>2, <2>5 DEF Identified
  <2>7. \A u \in Tasks : Asks(u, o) => Heard(Copy(u, o))
    BY <1>2, <2>2 DEF RepeatOf, KnownOrder
  <2> QED BY <2>6, <2>7 DEF AllHeard
<1>13. Repeats(o)' => AllHeard(o)'
  <2>1. Repeats(o)' => placed[o] > 0
    BY <1>1 DEF LiveInv, LiveTypeOK, Repeats
  <2> QED BY <1>10, <1>12, <2>1
<1>14. RepeatOf(o)'
  BY <1>10, <1>11, <1>13 DEF RepeatOf
<1> QED BY <1>1, <1>5, <1>8, <1>14, Homes, OneOrder

\* The receipt of a placement.  The call is the only submission of the order, so its
\* end leaves no row that waits for the broker: a copy that waits as well takes every
\* receipt but a cancellation, and that one is known to the row.
LEMMA RepeatAnswered ==
  ASSUME LiveInv, RepeatInv, NEW t \in Tasks, NEW status \in ReportStates, SubmitAnswered(t, status)
  PROVE  RepeatInv'
<1>1. task[t].order \in Orders /\ task[t].pc = "placed"
  BY TaskTypes DEF LiveInv, SubmitAnswered, At
<1>2. PICK o \in Orders : o = task[t].order
  BY <1>1
<1>3. PICK g \in Gateways : g = Home[t]
  BY Homes
<1> DEFINE current == Current(g, o)
           e == [current EXCEPT !.bound = TRUE, !.receipt = TRUE]
           final == [e EXCEPT !.state = status, !.remaining = Quantity]
<1>4. /\ task' = [task EXCEPT ![t] = NoTask] /\ UNCHANGED <<broker, reports, placed>>
      /\ \/ Persist(g, o, final)
         \/ Spoil(g, o, e) /\ ~Allowed(e.state, status)
  BY <1>2, <1>3 DEF SubmitAnswered, brokerVars
<1>5. PICK r \in reports[o] : r.status = status
  BY <1>2 DEF SubmitAnswered
<1>6. KnownOrder(o) /\ RunsAlone(o) /\ (Repeats(o) => AllHeard(o)) /\ RepeatOf(o)
  BY DEF RepeatInv, RepeatOf
<1>7. /\ current \in EntryType /\ Sent(current)
      /\ store[o].bound => current = store[o]
      /\ ~store[o].bound => current = Copy(t, o)
  BY <1>1, <1>2, <1>3 DEF LiveInv, LiveTypeOK, RecordedEntry, Current, Copy, NoTask
<1> HIDE DEF current
<1>8. e \in EntryType /\ e.state = current.state /\ e.bound /\ e.receipt /\ e.applied = current.applied
  BY <1>7 DEF EntryType
<1> HIDE DEF e
<1>9. status \in States /\ status \notin {"none", "created", "submitting"} /\ Quantity \in 0..Quantity
  BY OmsAssumption DEF ReportStates, States, Final, Outstanding
<1>10. /\ final \in EntryType /\ final.state = status /\ final.bound /\ final.receipt
       /\ final.applied = current.applied
  BY <1>8, <1>9 DEF EntryType
<1> HIDE DEF final
<1>11. /\ TasksOn(o)
       /\ \A u \in Tasks : /\ Submits(u, o)' <=> u # t /\ Submits(u, o)
                           /\ Places(u, o)' <=> u # t /\ Places(u, o)
                           /\ Asks(u, o)' <=> u # t /\ Asks(u, o)
  BY <1>2, <1>4, EndedTask
<1>12. \A u \in Tasks : ~Submits(u, o)'
  <2>1. Submits(t, o)
    BY <1>1, <1>2 DEF Submits
  <2> QED BY <1>6, <1>11, <2>1 DEF RunsAlone
<1>13. Repeats(o)' => Repeats(o)
  BY <1>4, <1>11 DEF Repeats
<1>14. /\ AllHeard(o) => store[o].bound
       /\ \A u \in Tasks : Asks(u, o) => store[o].bound
  BY <1>6 DEF KnownOrder, Identified, AllHeard
\* Whichever entry is written, the copy of the gateway has the receipt and, when the
\* row was known, its reports.
<1>15. ASSUME NEW c, memory'[g][o] = c, \A h \in Gateways \ {g} : memory'[h][o] = memory[h][o],
              c.bound, c.receipt, c.applied = current.applied,
              store'[o] = c \/ store'[o] = store[o], c.state # "none"
       PROVE  KnownOrder(o)' /\ (AllHeard(o) => AllHeard(o)')
  <2>1. \A u \in Tasks : \/ Home[u] = g /\ Copy(u, o)' = c
                         \/ Home[u] # g /\ Copy(u, o)' = Copy(u, o)
    BY <1>15, Homes DEF Copy
  <2>2. store[o].bound => (Heard(c) <=> Heard(store[o]))
    BY <1>7, <1>15 DEF Heard
  <2>3. Identified(c)
    BY <1>15 DEF Identified
  <2>4. /\ store[o].bound => store'[o].bound
        /\ store[o].receipt => store'[o].receipt
        /\ store[o].bound => (Heard(store'[o]) <=> Heard(store[o]))
        /\ Identified(store'[o])
        /\ store'[o].state = "none" => ~store'[o].bound
    BY <1>6, <1>15, <2>2, <2>3 DEF KnownOrder
  <2>5. \A h \in Gateways : Identified(memory'[h][o])
    BY <1>6, <1>15, <2>3 DEF KnownOrder
  <2>6. ASSUME NEW u \in Tasks, Asks(u, o)'
        PROVE  /\ store'[o].bound
               /\ Heard(Copy(u, o))' \/ store'[o].receipt
               /\ Copy(u, o)'.receipt \/ Heard(store'[o])
    <3>1. /\ store[o].bound
          /\ Heard(Copy(u, o)) \/ store[o].receipt
          /\ Copy(u, o).receipt \/ Heard(store[o])
      BY <1>6, <1>11, <2>6 DEF KnownOrder
    <3>2. CASE Home[u] = g
      <4>1. store[o].receipt \/ Heard(store[o])
        BY <1>6, <3>1 DEF KnownOrder, Identified
      <4> QED BY <1>15, <2>1, <2>2, <2>4, <3>1, <3>2, <4>1 DEF Heard
    <3>3. CASE Home[u] # g
      BY <2>1, <2>4, <3>1, <3>3 DEF Heard
    <3> QED BY <3>2, <3>3
  <2>7. ASSUME NEW u \in Tasks, NEW v \in Tasks, Asks(u, o)', Asks(v, o)'
        PROVE  Copy(v, o)'.receipt \/ Heard(Copy(u, o))'
    <3>1. /\ Copy(v, o).receipt \/ Heard(Copy(u, o))
          /\ Copy(v, o).receipt \/ Heard(store[o])
          /\ store[o].bound
      BY <1>6, <1>11, <2>7 DEF KnownOrder
    <3> QED BY <1>15, <2>1, <2>2, <3>1 DEF Heard
  <2>8. KnownOrder(o)'
    BY <1>4, <1>6, <2>4, <2>5, <2>6, <2>7 DEF KnownOrder, Identified, Heard
  <2>9. ASSUME AllHeard(o) PROVE AllHeard(o)'
    <3>1. store[o].bound /\ Heard(store[o]) /\ Heard(c)
      BY <1>14, <2>2, <2>9 DEF AllHeard
    <3>2. ASSUME NEW u \in Tasks, Asks(u, o)' PROVE Heard(Copy(u, o))'
      BY <1>11, <2>1, <2>9, <3>1, <3>2 DEF AllHeard, Heard
    <3> QED BY <2>4, <3>1, <3>2 DEF AllHeard, Heard
  <2> QED BY <2>8, <2>9
<1>16. CASE Persist(g, o, final)
  <2>1. WritesEntry(g, o, final)
    BY <1>10, <1>16, PersistWrites
  <2>2. KnownOrder(o)' /\ (AllHeard(o) => AllHeard(o)')
    BY <1>9, <1>10, <1>15, <2>1 DEF WritesEntry
  <2>3. RunsAlone(o)'
    BY <1>9, <1>10, <1>12, <2>1 DEF RunsAlone, WritesEntry
  <2>4. RepeatOf(o)'
    BY <1>6, <1>13, <2>2, <2>3 DEF RepeatOf
  <2> QED BY <1>4, <1>10, <1>11, <1>16, <2>4, OneOrder
<1>17. CASE Spoil(g, o, e) /\ ~Allowed(e.state, status)
  <2>1. /\ store'[o] = store[o] /\ memory'[g][o] = e
        /\ \A h \in Gateways \ {g} : memory'[h][o] = memory[h][o]
    BY <1>8, <1>17, Written DEF LiveInv
  <2>2. KnownOrder(o)' /\ (AllHeard(o) => AllHeard(o)')
    BY <1>7, <1>8, <1>15, <2>1 DEF Sent
  <2>3. ~(store[o].state = "submitting" /\ ~store[o].bound)
    <3> SUFFICES ASSUME store[o].state = "submitting", ~store[o].bound PROVE FALSE
        OBVIOUS
    <3>1. status # "cancelled"
      BY <1>5, <1>6 DEF KnownOrder
    <3>2. Copy(t, o).state = "submitting"
      BY <1>1, <1>2, <1>6 DEF RunsAlone, Submits
    <3>3. e.state = "submitting"
      BY <1>7, <1>8, <3>2
    <3> QED BY <1>17, <3>1, <3>3 DEF Allowed, ReportStates, Final
  <2>4. RunsAlone(o)'
    BY <1>12, <2>1, <2>3 DEF RunsAlone
  <2>5. RepeatOf(o)'
    BY <1>6, <1>13, <2>2, <2>4 DEF RepeatOf
  <2> QED BY <1>4, <1>8, <1>11, <1>17, <2>5, OneOrder
<1> QED BY <1>4, <1>16, <1>17

\* The answer to a cancellation puts the copy of its gateway into the row: the copy
\* knows what the row did, or what the copies of the others need.
LEMMA RepeatCancelled ==
  ASSUME LiveInv, RepeatInv, NEW t \in Tasks, CancelAnswered(t)
  PROVE  RepeatInv'
<1>1. task[t].order \in Orders /\ task[t].pc = "cancelled"
  BY TaskTypes DEF LiveInv, CancelAnswered, Confirmed, At
<1>2. PICK o \in Orders : o = task[t].order
  BY <1>1
<1>3. PICK g \in Gateways : g = Home[t]
  BY Homes
<1> DEFINE e == [memory[g][o] EXCEPT !.state = "cancelled", !.remaining = 0]
<1>4. /\ task' = [task EXCEPT ![t] = NoTask] /\ UNCHANGED <<broker, reports, placed>>
      /\ Persist(g, o, e) \/ UNCHANGED <<store, memory>>
  BY <1>2, <1>3 DEF CancelAnswered, brokerVars
<1>5. KnownOrder(o) /\ RunsAlone(o) /\ (Repeats(o) => AllHeard(o))
  BY DEF RepeatInv, RepeatOf
<1>6. /\ e \in EntryType /\ e.state = "cancelled" /\ e.receipt = Copy(t, o).receipt
      /\ e.bound = Copy(t, o).bound /\ e.applied = Copy(t, o).applied
  <2>1. memory[g][o] \in EntryType /\ "cancelled" \in States /\ 0 \in 0..Quantity
    BY OmsAssumption DEF LiveInv, LiveTypeOK, States, Final
  <2>2. Copy(t, o) = memory[g][o]
    BY <1>3 DEF Copy
  <2> QED BY <2>1, <2>2 DEF EntryType
<1> HIDE DEF e
<1>7. /\ TasksOn(o)
      /\ \A u \in Tasks : /\ Submits(u, o)' <=> u # t /\ Submits(u, o)
                          /\ Places(u, o)' <=> u # t /\ Places(u, o)
                          /\ Asks(u, o)' <=> u # t /\ Asks(u, o)
  BY <1>2, <1>4, EndedTask
<1>8. Repeats(o)' => Repeats(o)
  BY <1>4, <1>7 DEF Repeats
<1>9. Asks(t, o) /\ ~Submits(t, o)
  BY <1>1, <1>2 DEF Asks, Submits
<1>10. CASE Persist(g, o, e)
  <2>1. WritesEntry(g, o, e)
    BY <1>6, <1>10, PersistWrites
  <2>2. \A u \in Tasks : /\ Copy(u, o)'.receipt <=> Copy(u, o).receipt
                         /\ Heard(Copy(u, o))' <=> Heard(Copy(u, o))
    <3> TAKE u \in Tasks
    <3>1. CASE Home[u] = g
      <4>1. Copy(u, o)' = e /\ Copy(u, o) = Copy(t, o)
        BY <1>3, <2>1, <3>1 DEF WritesEntry, Copy
      <4> QED BY <1>6, <4>1 DEF Heard
    <3>2. CASE Home[u] # g
      <4>1. Copy(u, o)' = Copy(u, o)
        BY <2>1, <3>2, Homes DEF WritesEntry, Copy
      <4> QED BY <4>1 DEF Heard
    <3> QED BY <3>1, <3>2
  <2>3. Identified(Copy(t, o)) /\ (Copy(t, o).receipt \/ Heard(Copy(t, o)))
    BY <1>5, <1>9, Homes DEF KnownOrder, Copy
  <2>4. Identified(e) /\ e.bound
    BY <1>6, <2>3 DEF Identified, Heard
  <2>5. ASSUME NEW u \in Tasks, Asks(u, o)'
        PROVE  Heard(Copy(u, o))' \/ e.receipt
    <3>1. Copy(t, o).receipt \/ Heard(Copy(u, o))
      BY <1>5, <1>7, <1>9, <2>5 DEF KnownOrder
    <3> QED BY <1>6, <2>2, <3>1
  <2>6. ASSUME NEW u \in Tasks, Asks(u, o)'
        PROVE  Copy(u, o)'.receipt \/ Heard(e)
    <3>1. Copy(u, o).receipt \/ Heard(Copy(t, o))
      BY <1>5, <1>7, <1>9, <2>6 DEF KnownOrder
    <3>2. Heard(e) <=> Heard(Copy(t, o))
      BY <1>6 DEF Heard
    <3> QED BY <2>2, <3>1, <3>2
  <2>7. ASSUME NEW u \in Tasks, NEW v \in Tasks, Asks(u, o)', Asks(v, o)'
        PROVE  Copy(v, o)'.receipt \/ Heard(Copy(u, o))'
    BY <1>5, <1>7, <2>2, <2>7 DEF KnownOrder
  <2>8. \A h \in Gateways : Identified(memory'[h][o])
    BY <1>5, <2>1, <2>4 DEF KnownOrder, WritesEntry
  <2>9. KnownOrder(o)'
    <3>1. store'[o] = e /\ e.state # "none" /\ reports'[o] = reports[o]
      BY <1>4, <1>6, <2>1 DEF WritesEntry
    <3> QED BY <2>4, <2>5, <2>6, <2>7, <2>8, <3>1 DEF KnownOrder, Identified, Heard
  <2>10. RunsAlone(o)'
    <3>1. store'[o].state = "cancelled"
      BY <1>6, <2>1 DEF WritesEntry
    <3> QED BY <1>5, <1>7, <3>1 DEF RunsAlone
  <2>11. AllHeard(o) => AllHeard(o)'
    <3> SUFFICES ASSUME AllHeard(o) PROVE AllHeard(o)'
        OBVIOUS
    <3>1. Heard(store[o])'
      BY <1>6, <1>9, <2>1 DEF AllHeard, WritesEntry, Heard
    <3>2. \A u \in Tasks : Asks(u, o)' => Heard(Copy(u, o))'
      BY <1>7, <2>2 DEF AllHeard
    <3> QED BY <3>1, <3>2 DEF AllHeard
  <2>12. RepeatOf(o)'
    BY <1>5, <1>8, <2>9, <2>10, <2>11 DEF RepeatOf
  <2> QED BY <1>4, <1>6, <1>7, <1>10, <2>12, OneOrder
<1>11. CASE UNCHANGED <<store, memory>>
  <2>1. \A u \in Tasks : Copy(u, o)' = Copy(u, o)
    BY <1>11 DEF Copy
  <2>2. KnownOrder(o)'
    BY <1>4, <1>5, <1>7, <1>11, <2>1 DEF KnownOrder, Identified, Heard
  <2>3. Submitting(o)' <=> Submitting(o)
    BY <1>7, <1>9 DEF Submitting, Submits
  <2>4. RunsAlone(o)'
    BY <1>4, <1>5, <1>7, <1>11, <2>1, <2>3 DEF RunsAlone
  <2>5. AllHeard(o) => AllHeard(o)'
    BY <1>7, <1>11, <2>1 DEF AllHeard, Heard
  <2>6. RepeatOf(o)'
    BY <1>5, <1>8, <2>2, <2>4, <2>5 DEF RepeatOf
  <2> QED BY <1>4, <1>7, <1>11, <2>6, OtherOrders
<1> QED BY <1>4, <1>10, <1>11

\* The broker receives an order, a cancellation or a fill: it adds at most a report,
\* and one that says cancelled only to an order whose id the row knows.
LEMMA RepeatAtBroker ==
  ASSUME RepeatInv, NEW o \in Orders, UNCHANGED <<store, memory>>,
         \A x \in Orders \ {o} : placed'[x] = placed[x] /\ reports'[x] = reports[x],
         \A r \in reports'[o] : r.status = "cancelled" => store[o].bound,
         TasksOn(o),
         \A u \in Tasks : /\ Submits(u, o)' <=> Submits(u, o)
                          /\ Asks(u, o)' <=> Asks(u, o),
         placed'[o] > 0 => placed[o] > 0 \/ Submitting(o),
         Repeats(o)' => Repeats(o)
  PROVE  RepeatInv'
<1>1. KnownOrder(o) /\ RunsAlone(o) /\ (Repeats(o) => AllHeard(o))
  BY DEF RepeatInv, RepeatOf
<1>2. \A u \in Tasks : Copy(u, o)' = Copy(u, o)
  BY DEF Copy
<1>3. KnownOrder(o)'
  BY <1>1, <1>2 DEF KnownOrder, Identified, Heard
<1>4. Submitting(o)' <=> Submitting(o)
  BY DEF Submitting, Submits
<1>5. RunsAlone(o)'
  BY <1>1, <1>2, <1>4 DEF RunsAlone
<1>6. AllHeard(o) => AllHeard(o)'
  BY <1>2 DEF AllHeard, Heard
<1>7. RepeatOf(o)'
  BY <1>1, <1>3, <1>5, <1>6 DEF RepeatOf
<1> QED BY <1>7, OtherOrders

\* A task whose call has reached the broker.
LEMMA CalledTask ==
  ASSUME LiveInv, NEW t \in Tasks, NEW o \in Orders, NEW pc,
         task[t].pc # "idle", task[t].order = o, task' = [task EXCEPT ![t].pc = pc]
  PROVE  /\ TasksOn(o)
         /\ task'[t].pc = pc /\ task'[t].order = o
         /\ \A u \in Tasks \ {t} : task'[u] = task[u]
<1> DEFINE new == [task[t] EXCEPT !.pc = pc]
<1>1. task[t] \in [pc: {"placing", "placed", "cancelling", "cancelled"}, order: Orders]
  BY NoTaskIsNone DEF LiveInv, LiveTypeOK
<1>2. new.pc = pc /\ new.order = o
  BY <1>1
<1>3. task' = [task EXCEPT ![t] = new]
  OBVIOUS
<1> HIDE DEF new
<1>4. task'[t] = new /\ \A u \in Tasks \ {t} : task'[u] = task[u]
  BY <1>3 DEF LiveInv, LiveTypeOK
<1> QED BY <1>2, <1>4 DEF TasksOn

LEMMA RepeatPlace ==
  ASSUME LiveInv, RepeatInv, NEW t \in Tasks, Place(t)
  PROVE  RepeatInv'
<1>1. task[t].order \in Orders /\ task[t].pc = "placing"
  BY TaskTypes DEF LiveInv, Place, At
<1>2. PICK o \in Orders : o = task[t].order
  BY <1>1
<1>3. /\ UNCHANGED <<store, memory>> /\ task' = [task EXCEPT ![t].pc = "placed"]
      /\ placed' = [placed EXCEPT ![o] = @ + 1]
  BY <1>2 DEF Place
<1>4. /\ TasksOn(o) /\ task'[t].pc = "placed" /\ task'[t].order = o
      /\ \A u \in Tasks \ {t} : task'[u] = task[u]
  BY <1>1, <1>2, <1>3, CalledTask
<1>5. Places(t, o) /\ Submits(t, o) /\ ~Places(t, o)' /\ Submits(t, o)' /\ ~Asks(t, o) /\ ~Asks(t, o)'
  BY <1>1, <1>2, <1>4 DEF Places, Submits, Asks
<1>6. \A u \in Tasks : Submits(u, o)' <=> Submits(u, o)
  BY <1>4, <1>5 DEF Submits
<1>7. \A u \in Tasks : Asks(u, o)' <=> Asks(u, o)
  BY <1>4, <1>5 DEF Asks
<1>8. \A u \in Tasks : ~Places(u, o)'
  <2>1. \A u \in Tasks \ {t} : ~Submits(u, o)
    BY <1>5 DEF RepeatInv, RepeatOf, RunsAlone
  <2> QED BY <1>4, <1>5, <2>1 DEF Places, Submits
<1>9. placed'[o] = placed[o] + 1 /\ placed[o] \in Nat /\ \A x \in Orders \ {o} : placed'[x] = placed[x]
  BY <1>3 DEF LiveInv, LiveTypeOK
<1>10. Repeats(o)' => Repeats(o)
  <2> SUFFICES ASSUME Repeats(o)' PROVE placed[o] > 0
      BY <1>5 DEF Repeats
  <2>1. placed'[o] > 1
    BY <1>8 DEF Repeats
  <2> QED BY <1>9, <2>1
<1>11. /\ \A r \in reports'[o] : r.status = "cancelled" => store[o].bound
       /\ \A x \in Orders \ {o} : reports'[x] = reports[x]
  <2>1. \A r \in reports[o] : r.status = "cancelled" => store[o].bound
    BY DEF RepeatInv, RepeatOf, KnownOrder
  <2>2. CASE UNCHANGED <<broker, reports>>
    BY <2>1, <2>2
  <2>3. ASSUME NEW outcome \in {"open", "rejected"},
               reports' = [reports EXCEPT ![o] = {[status |-> IF outcome = "open" THEN "acknowledged" ELSE outcome,
                                                   filled |-> 0]}]
        PROVE  /\ \A r \in reports'[o] : r.status # "cancelled"
               /\ \A x \in Orders \ {o} : reports'[x] = reports[x]
    <3> DEFINE s == IF outcome = "open" THEN "acknowledged" ELSE outcome
    <3>1. s # "cancelled"
      OBVIOUS
    <3> HIDE DEF s
    <3>2. reports'[o] = {[status |-> s, filled |-> 0]} /\ \A x \in Orders \ {o} : reports'[x] = reports[x]
      BY <2>3 DEF LiveInv, LiveTypeOK, s
    <3> QED BY <3>1, <3>2
  <2> QED BY <1>2, <2>2, <2>3 DEF Place
<1>12. Submitting(o)
  BY <1>5 DEF Submitting, Submits
<1> QED BY <1>3, <1>4, <1>6, <1>7, <1>9, <1>10, <1>11, <1>12, RepeatAtBroker

LEMMA RepeatAsked ==
  ASSUME LiveInv, RepeatInv, NEW t \in Tasks, AskToCancel(t)
  PROVE  RepeatInv'
<1>1. task[t].order \in Orders /\ task[t].pc = "cancelling"
  BY TaskTypes DEF LiveInv, AskToCancel, At
<1>2. PICK o \in Orders : o = task[t].order
  BY <1>1
<1>3. /\ UNCHANGED <<store, memory, placed>> /\ task' = [task EXCEPT ![t].pc = "cancelled"]
      /\ \A x \in Orders \ {o} : reports'[x] = reports[x]
  BY <1>2 DEF AskToCancel, LiveInv, LiveTypeOK
<1>4. /\ TasksOn(o) /\ task'[t].pc = "cancelled" /\ task'[t].order = o
      /\ \A u \in Tasks \ {t} : task'[u] = task[u]
  <2>1. task[t].pc # "idle" /\ task[t].order = o /\ task' = [task EXCEPT ![t].pc = "cancelled"]
    BY <1>1, <1>2, <1>3
  <2> QED BY <2>1, CalledTask
<1>5. Asks(t, o) /\ Asks(t, o)' /\ ~Places(t, o)' /\ ~Submits(t, o) /\ ~Submits(t, o)'
  BY <1>1, <1>2, <1>4 DEF Places, Submits, Asks
<1>6. \A u \in Tasks : /\ Submits(u, o)' <=> Submits(u, o)
                       /\ Asks(u, o)' <=> Asks(u, o)
                       /\ Places(u, o)' => Places(u, o)
  BY <1>4, <1>5 DEF Submits, Asks, Places
<1>7. store[o].bound
  BY <1>5 DEF RepeatInv, RepeatOf, KnownOrder
<1>8. Repeats(o)' => Repeats(o)
  BY <1>3, <1>6 DEF Repeats
<1> QED BY <1>3, <1>4, <1>6, <1>7, <1>8, RepeatAtBroker

LEMMA RepeatFills ==
  ASSUME LiveInv, RepeatInv, NEW o \in Orders, BrokerFills(o)
  PROVE  RepeatInv'
<1> DEFINE filled == broker[o].filled + 1
           s == IF filled = Quantity THEN "filled" ELSE "partially_filled"
<1>1. /\ UNCHANGED <<store, memory, task, placed>>
      /\ reports' = [reports EXCEPT ![o] = @ \cup {[status |-> s, filled |-> filled]}]
  BY DEF BrokerFills
<1>2. s # "cancelled"
  OBVIOUS
<1> HIDE DEF filled, s
<1>3. /\ reports'[o] = reports[o] \cup {[status |-> s, filled |-> filled]}
      /\ \A x \in Orders \ {o} : reports'[x] = reports[x]
  BY <1>1 DEF LiveInv, LiveTypeOK
<1>4. \A r \in reports'[o] : r.status = "cancelled" => store[o].bound
  BY <1>2, <1>3 DEF RepeatInv, RepeatOf, KnownOrder
<1>5. Repeats(o)' => Repeats(o)
  BY <1>1, TasksSame DEF Repeats
<1> QED BY <1>1, <1>3, <1>4, <1>5, TasksSame, RepeatAtBroker

\* A restart puts the row into the copies of one gateway and leaves it no task.
LEMMA RepeatRestart ==
  ASSUME LiveInv, RepeatInv, NEW g \in Gateways, Restart(g)
  PROVE  RepeatInv'
<1> SUFFICES ASSUME NEW o \in Orders PROVE RepeatOf(o)'
    BY DEF RepeatInv
<1>1. /\ store' = [x \in Orders |-> Recovered(store[x])] /\ memory' = [memory EXCEPT ![g] = store']
      /\ task' = [t \in Tasks |-> IF Home[t] = g THEN NoTask ELSE task[t]]
      /\ UNCHANGED <<broker, reports, placed>>
  BY DEF Restart, brokerVars
<1> DEFINE e == Recovered(store[o])
<1>2. store[o] \in EntryType
  BY DEF LiveInv, LiveTypeOK
<1>3. /\ e.receipt = store[o].receipt /\ e.bound = store[o].bound /\ e.applied = store[o].applied
      /\ e.state # "submitting" /\ (e.state = "none" => store[o].state = "none")
  <2>1. e.state \in {store[o].state, "unknown"} /\ (store[o].state = "submitting" => e.state = "unknown")
    BY <1>2, RecoveredEntry DEF Final
  <2> QED BY <1>2, <2>1, RecoveredEntry
<1>4. store'[o] = e
  BY <1>1
<1> HIDE DEF e
<1>5. memory'[g] = store' /\ \A h \in Gateways \ {g} : memory'[h] = memory[h]
  BY <1>1 DEF LiveInv, LiveTypeOK
<1>6. ASSUME NEW t \in Tasks
      PROVE  /\ Submits(t, o)' => Submits(t, o)
             /\ Places(t, o)' => Places(t, o)
             /\ Asks(t, o)' => Asks(t, o) /\ Copy(t, o)' = Copy(t, o)
  <2>1. \/ task'[t] = NoTask
        \/ task'[t] = task[t] /\ Home[t] # g
    BY <1>1
  <2>2. CASE task'[t] = NoTask
    BY <2>2, NoTaskIsNone DEF Submits, Places, Asks
  <2>3. CASE task'[t] = task[t] /\ Home[t] # g
    BY <1>5, <2>3, Homes DEF Submits, Places, Asks, Copy
  <2> QED BY <2>1, <2>2, <2>3
<1>7. KnownOrder(o) /\ RunsAlone(o) /\ (Repeats(o) => AllHeard(o))
  BY DEF RepeatInv, RepeatOf
<1>8. KnownOrder(o)'
  <2>1. Identified(e) /\ \A h \in Gateways : Identified(memory'[h][o])
    BY <1>3, <1>4, <1>5, <1>7 DEF KnownOrder, Identified, Heard
  <2>2. ASSUME NEW t \in Tasks, Asks(t, o)'
        PROVE  e.bound /\ (Heard(Copy(t, o))' \/ e.receipt) /\ (Copy(t, o)'.receipt \/ Heard(e))
    BY <1>3, <1>6, <1>7, <2>2 DEF KnownOrder, Heard
  <2>3. ASSUME NEW t \in Tasks, NEW u \in Tasks, Asks(t, o)', Asks(u, o)'
        PROVE  Copy(u, o)'.receipt \/ Heard(Copy(t, o))'
    BY <1>6, <1>7, <2>3 DEF KnownOrder, Heard
  <2>4. (e.state = "none" => ~e.bound) /\ \A r \in reports'[o] : r.status = "cancelled" => e.bound
    BY <1>1, <1>3, <1>7 DEF KnownOrder
  <2> QED BY <1>4, <2>1, <2>2, <2>3, <2>4 DEF KnownOrder, Identified, Heard
<1>9. RunsAlone(o)'
  BY <1>3, <1>4, <1>6, <1>7 DEF RunsAlone
<1>10. Repeats(o)' => Repeats(o)
  BY <1>1, <1>6 DEF Repeats
<1>11. AllHeard(o) => AllHeard(o)'
  BY <1>3, <1>4, <1>6 DEF AllHeard, Heard
<1> QED BY <1>7, <1>8, <1>9, <1>10, <1>11 DEF RepeatOf

LEMMA RepeatUnchanged ==
  ASSUME RepeatInv, UNCHANGED <<store, memory, task, reports, placed>>
  PROVE  RepeatInv'
<1> SUFFICES ASSUME NEW o \in Orders PROVE RepeatOf(o)'
    BY DEF RepeatInv
<1>1. SameOrder(o)
  BY TasksSame DEF SameOrder
<1> QED BY <1>1, SameOrderKept DEF RepeatInv

LEMMA RepeatInitially == OmsInit => RepeatInv
<1> SUFFICES ASSUME OmsInit, NEW o \in Orders PROVE RepeatOf(o)
    BY DEF RepeatInv
<1>1. ~NoEntry.receipt /\ ~NoEntry.bound /\ ~Heard(NoEntry) /\ NoEntry.state = "none"
  BY DEF NoEntry, Heard
<1>2. /\ store[o] = NoEntry /\ (\A g \in Gateways : memory[g][o] = NoEntry)
      /\ reports[o] = {} /\ placed[o] = 0
      /\ \A t \in Tasks : task[t].pc = "idle"
  BY NoTaskIsNone DEF OmsInit
<1>3. \A t \in Tasks : ~Submits(t, o) /\ ~Places(t, o) /\ ~Asks(t, o)
  BY <1>2 DEF Submits, Places, Asks
<1>4. KnownOrder(o)
  BY <1>1, <1>2, <1>3 DEF KnownOrder, Identified
<1>5. RunsAlone(o)
  BY <1>1, <1>2, <1>3 DEF RunsAlone
<1>6. ~Repeats(o)
  BY <1>2 DEF Repeats
<1> QED BY <1>4, <1>5, <1>6 DEF RepeatOf

LEMMA RepeatStep ==
  ASSUME ~Overlapping, LiveInv, RepeatInv, [OmsNext]_omsVars
  PROVE  RepeatInv'
<1>1. CASE UNCHANGED omsVars
  BY <1>1, RepeatUnchanged DEF omsVars
<1>2. ASSUME NEW t \in Tasks, TaskStep(t) PROVE RepeatInv'
  <2>1. ASSUME NEW o \in Orders, Submit(t, o) \/ Cancel(t, o) PROVE RepeatInv'
    BY <2>1, RepeatSubmit, RepeatCancel
  <2>2. CASE Place(t) \/ AskToCancel(t)
    BY <2>2, RepeatPlace, RepeatAsked
  <2>3. CASE SubmitFails(t) \/ CancelFails(t) \/ CancelAnswered(t)
    BY <2>3, RepeatFails, RepeatCancelled
  <2>4. ASSUME NEW status \in ReportStates, SubmitAnswered(t, status) PROVE RepeatInv'
    BY <2>4, RepeatAnswered
  <2> QED BY <1>2, <2>1, <2>2, <2>3, <2>4 DEF TaskStep
<1>3. ASSUME NEW g \in Gateways, GatewayStep(g) PROVE RepeatInv'
  <2>1. ASSUME NEW o \in Orders, Register(g, o) \/ MissingInSnapshot(g, o) PROVE RepeatInv'
    BY <2>1, RepeatRegister, RepeatMissing
  <2>2. ASSUME NEW o \in Orders, NEW r \in reports[o], ApplyReport(g, o, r) PROVE RepeatInv'
    BY <2>2, RepeatReport
  <2>3. CASE KillSwitch(g)
    BY <2>3, RepeatUnchanged DEF KillSwitch, brokerVars
  <2>4. CASE Restart(g)
    BY <2>4, RepeatRestart
  <2> QED BY <1>3, <2>1, <2>2, <2>3, <2>4 DEF GatewayStep
<1>4. ASSUME NEW o \in Orders, BrokerFills(o) PROVE RepeatInv'
  BY <1>4, RepeatFills
<1> QED BY <1>1, <1>2, <1>3, <1>4 DEF OmsNext

\* Submissions of an intent that do not overlap place it again only when the broker
\* has reported on it, for any number of gateways on the store and wherever they stop:
\* an order that was sent blocks its repetition until the row hears of the broker, and
\* no gateway writes an older entry over what the row has heard.
THEOREM NoBlindRepeat == ASSUME ~Overlapping PROVE OmsSpec => []NeverBlindlyRepeated
<1>1. LiveInv /\ RepeatInv => NeverBlindlyRepeated
  BY DEF RepeatInv, RepeatOf, Repeats, AllHeard, Heard, NeverBlindlyRepeated
<1>2. LiveInv /\ RepeatInv /\ [OmsNext]_omsVars => RepeatInv'
  BY RepeatStep
<1>3. OmsSpec => []RepeatInv
  BY <1>2, RepeatInitially, LiveAlways, PTL DEF OmsSpec
<1> QED BY <1>1, <1>3, LiveAlways, PTL

-----------------------------------------------------------------------------
(* One gateway on the store *)

OneGateway == \A g, h \in Gateways : g = h

\* The copy has the filled quantity of the row, and a row that is not there has none.
FilledAgrees ==
  \A o \in Orders : /\ store[o].state = "none" => store[o].filled = 0
                    /\ \A g \in Gateways : memory[g][o].filled = store[o].filled

FilledGrows == \A o \in Orders : store'[o].filled >= store[o].filled

LEMMA FilledWritten ==
  ASSUME LiveInv, FilledAgrees, OneGateway, NEW g \in Gateways, NEW o \in Orders, NEW e \in EntryType,
         \/ Persist(g, o, e) /\ e.filled >= store[o].filled
         \/ Spoil(g, o, e) /\ e.filled = store[o].filled,
         e.state # "none"
  PROVE  FilledAgrees' /\ FilledGrows
<1>1. LiveTypeOK
  BY DEF LiveInv
<1>2. ASSUME NEW x \in Orders PROVE store[x].filled \in Nat
  BY <1>1, OmsAssumption DEF LiveTypeOK, EntryType
<1>3. ASSUME NEW x \in Orders
      PROVE  /\ store'[x].filled >= store[x].filled
             /\ store'[x].state = "none" => store'[x].filled = 0
             /\ memory'[g][x].filled = store'[x].filled
  <2>1. CASE x = o /\ Persist(g, o, e)
    <3>1. store'[x] = e /\ memory'[g][x] = e
      BY <1>1, <2>1, Written
    <3>2. e.filled >= store[x].filled
      BY <1>2, <2>1
    <3> QED BY <2>1, <3>1, <3>2
  <2>2. CASE x = o /\ Spoil(g, o, e)
    <3>1. store'[x] = store[x] /\ memory'[g][x] = e /\ e.filled = store[x].filled
      BY <1>1, <2>2, Written
    <3> QED BY <1>2, <3>1 DEF FilledAgrees
  <2>3. CASE x # o
    BY <1>1, <1>2, <2>3, Written DEF FilledAgrees
  <2> QED BY <2>1, <2>2, <2>3
<1> QED BY <1>3 DEF FilledAgrees, FilledGrows, OneGateway

LEMMA FilledKeptStep ==
  ASSUME LiveInv, FilledAgrees, OneGateway, OmsNext
  PROVE  FilledAgrees' /\ FilledGrows
<1>1. LiveTypeOK
  BY DEF LiveInv
<1>2. \A o \in Orders : store[o] \in EntryType /\ store[o].filled \in Nat
  BY <1>1, OmsAssumption DEF LiveTypeOK, EntryType
<1>3. CASE UNCHANGED <<store, memory>>
  BY <1>2, <1>3 DEF FilledAgrees, FilledGrows
<1>4. ASSUME NEW g \in Gateways, NEW o \in Orders, Register(g, o) PROVE FilledAgrees' /\ FilledGrows
  <2>1. Persist(g, o, Created) /\ store[o].filled = 0 /\ Created.filled = 0
    BY <1>4, EntryTypes DEF Register, FilledAgrees, Created, NoEntry
  <2> QED BY <2>1, EntryTypes, FilledWritten
<1>5. ASSUME NEW t \in Tasks, NEW o \in Orders, Submit(t, o) PROVE FilledAgrees' /\ FilledGrows
  <2> DEFINE e == [Registered(o) EXCEPT !.state = "submitting"]
  <2>1. Registered(o) \in EntryType
    BY <1>1, RegisteredEntry
  <2>2. Registered(o).filled = store[o].filled
    BY DEF Registered, FilledAgrees, Created, NoEntry
  <2>3. e \in EntryType /\ e.state = "submitting" /\ e.filled = store[o].filled
    BY <2>1, <2>2 DEF EntryType, States, Outstanding
  <2>4. Persist(Home[t], o, e)
    BY <1>5 DEF Submit, SaveBarrier
  <2> HIDE DEF e
  <2> QED BY <1>2, <2>3, <2>4, Homes, FilledWritten
<1>6. ASSUME NEW g \in Gateways, NEW o \in Orders, MarkUnknown(g, o) PROVE FilledAgrees' /\ FilledGrows
  <2> DEFINE e == Unknown(store[o])
  <2>1. e \in EntryType /\ e.state = "unknown" /\ e.filled = store[o].filled
    BY <1>2, UnknownEntry
  <2>2. Persist(g, o, e)
    BY <1>6 DEF MarkUnknown
  <2> HIDE DEF e
  <2> QED BY <1>2, <2>1, <2>2, FilledWritten
<1>7. ASSUME NEW t \in Tasks, NEW status \in ReportStates, SubmitAnswered(t, status)
      PROVE  FilledAgrees' /\ FilledGrows
  <2> DEFINE g == Home[t]
             o == task[t].order
             current == Current(g, o)
             e == [current EXCEPT !.bound = TRUE, !.receipt = TRUE]
             final == [e EXCEPT !.state = status, !.remaining = Quantity]
  <2>1. g \in Gateways /\ o \in Orders /\ task[t] # NoTask
    BY <1>1, <1>7, TaskTypes, Homes DEF SubmitAnswered, At
  <2>2. Persist(g, o, final) \/ Spoil(g, o, e)
    BY <1>7 DEF SubmitAnswered
  <2>3. current \in EntryType /\ current.filled = store[o].filled /\ current.state # "none"
    BY <1>1, <2>1 DEF LiveInv, LiveTypeOK, Current, FilledAgrees, RecordedEntry, Sent
  <2> HIDE DEF current
  <2>4. e \in EntryType /\ e.filled = store[o].filled /\ e.state # "none"
    BY <2>3 DEF EntryType
  <2> HIDE DEF e
  <2>5. status \in States /\ status # "none" /\ Quantity \in 0..Quantity
    BY OmsAssumption DEF ReportStates, States, Final, Outstanding
  <2>6. final \in EntryType /\ final.filled = store[o].filled /\ final.state # "none"
    BY <2>4, <2>5 DEF EntryType
  <2> HIDE DEF final, g, o
  <2> QED BY <1>2, <2>1, <2>2, <2>4, <2>6, FilledWritten
<1>8. ASSUME NEW g \in Gateways, NEW o \in Orders, NEW r \in reports[o], ApplyReport(g, o, r)
      PROVE  FilledAgrees' /\ FilledGrows
  <2> DEFINE e == Applied(store[o], r)
  <2>1. r \in Reports
    BY <1>1 DEF LiveTypeOK
  <2>2. e \in EntryType /\ e.state = r.status /\ e.filled = r.filled
    BY <1>2, <2>1, AppliedEntry
  <2>3. Persist(g, o, e) /\ r.filled >= store[o].filled
    BY <1>8 DEF ApplyReport, Applicable
  <2>4. r.status # "none"
    BY <2>1 DEF Reports, ReportStates, Final
  <2> HIDE DEF e
  <2> QED BY <2>2, <2>3, <2>4, FilledWritten
<1>9. ASSUME NEW t \in Tasks, NEW o \in Orders, Cancel(t, o) PROVE FilledAgrees' /\ FilledGrows
  <2> DEFINE state == IF store[o].bound THEN "cancel_pending" ELSE "unknown"
             e == [store[o] EXCEPT !.state = state]
  <2>1. Persist(Home[t], o, e)
    BY <1>9 DEF Cancel
  <2>2. state \in States /\ state # "none"
    BY DEF States, Outstanding
  <2> HIDE DEF state
  <2>3. e \in EntryType /\ e.state # "none" /\ e.filled = store[o].filled
    BY <1>2, <2>2 DEF EntryType
  <2> HIDE DEF e
  <2> QED BY <1>2, <2>1, <2>3, Homes, FilledWritten
<1>10. ASSUME NEW t \in Tasks, CancelAnswered(t) PROVE FilledAgrees' /\ FilledGrows
  <2> DEFINE g == Home[t]
             o == task[t].order
             e == [memory[g][o] EXCEPT !.state = "cancelled", !.remaining = 0]
  <2>1. g \in Gateways /\ o \in Orders
    BY <1>1, <1>10, TaskTypes, Homes DEF CancelAnswered, Confirmed, At
  <2>2. Persist(g, o, e) \/ UNCHANGED <<store, memory>>
    BY <1>10 DEF CancelAnswered
  <2>3. /\ memory[g][o] \in EntryType /\ memory[g][o].filled = store[o].filled
        /\ "cancelled" \in States /\ 0 \in 0..Quantity
    BY <1>1, <2>1, OmsAssumption DEF LiveTypeOK, FilledAgrees, States, Final
  <2>4. e \in EntryType /\ e.filled = store[o].filled /\ e.state # "none"
    BY <2>3 DEF EntryType
  <2> HIDE DEF e, g, o
  <2> QED BY <1>2, <1>3, <2>1, <2>2, <2>4, FilledWritten
<1>11. ASSUME NEW g \in Gateways, Restart(g) PROVE FilledAgrees' /\ FilledGrows
  <2>1. store' = [o \in Orders |-> Recovered(store[o])] /\ memory' = [memory EXCEPT ![g] = store']
    BY <1>11 DEF Restart
  <2>2. \A o \in Orders : /\ store'[o].filled = store[o].filled
                          /\ store'[o].state = "none" => store[o].state = "none"
    BY <1>2, <2>1, RecoveredEntry
  <2>3. memory'[g] = store'
    BY <1>1, <2>1 DEF LiveTypeOK
  <2> QED BY <1>2, <2>2, <2>3 DEF FilledAgrees, FilledGrows, OneGateway
<1>12. ASSUME NEW t \in Tasks, TaskStep(t) PROVE FilledAgrees' /\ FilledGrows
  <2>1. CASE Place(t) \/ AskToCancel(t)
    BY <1>3, <2>1 DEF Place, AskToCancel
  <2>2. CASE SubmitFails(t) \/ CancelFails(t)
    <3>1. task[t].order \in Orders /\ Home[t] \in Gateways /\ MarkUnknown(Home[t], task[t].order)
      BY <1>1, <2>2, TaskTypes, Homes DEF SubmitFails, CancelFails, At
    <3> QED BY <1>6, <3>1
  <2> QED BY <1>5, <1>7, <1>9, <1>10, <1>12, <2>1, <2>2 DEF TaskStep
<1>13. ASSUME NEW g \in Gateways, GatewayStep(g) PROVE FilledAgrees' /\ FilledGrows
  <2>1. ASSUME NEW o \in Orders, MissingInSnapshot(g, o) PROVE FilledAgrees' /\ FilledGrows
    BY <1>6, <2>1 DEF MissingInSnapshot
  <2>2. CASE KillSwitch(g)
    BY <1>3, <2>2 DEF KillSwitch
  <2> QED BY <1>4, <1>8, <1>11, <1>13, <2>1, <2>2 DEF GatewayStep
<1>14. ASSUME NEW o \in Orders, BrokerFills(o) PROVE FilledAgrees' /\ FilledGrows
  BY <1>3, <1>14 DEF BrokerFills
<1> QED BY <1>12, <1>13, <1>14 DEF OmsNext

\* With one gateway on the store the filled quantity on record never goes back: no
\* task writes an entry that is older than the row.
THEOREM FilledKept == ASSUME OneGateway PROVE OmsSpec => FilledNeverDecreases
<1>1. OmsInit => FilledAgrees
  BY EntryTypes DEF OmsInit, FilledAgrees, NoEntry
<1>2. LiveInv /\ FilledAgrees /\ [OmsNext]_omsVars => FilledAgrees'
  <2>1. UNCHANGED omsVars /\ FilledAgrees => FilledAgrees'
    BY DEF omsVars, FilledAgrees
  <2> QED BY <2>1, FilledKeptStep
<1>3. LiveInv /\ FilledAgrees /\ [OmsNext]_omsVars => [FilledGrows]_omsVars
  BY FilledKeptStep
<1>4. OmsSpec => [][FilledGrows]_omsVars
  BY <1>1, <1>2, <1>3, LiveAlways, PTL DEF OmsSpec
<1> QED BY <1>4 DEF FilledNeverDecreases, FilledGrows
=============================================================================
