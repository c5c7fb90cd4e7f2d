------------------------------ MODULE LiveOms ------------------------------
(***************************************************************************)
(* The order management of live and sandbox brokers: the gateways of       *)
(* stock_ai/brokers/oms.py over the durable rows of order_store.py, with   *)
(* the broker and its reports around them.                                 *)
(*                                                                         *)
(* A gateway is a process.  Its code runs between two awaits without being *)
(* interrupted by its other tasks; every lookup refreshes its one entry of *)
(* an order from the store, and every save writes that whole entry back.   *)
(* Only calls to the broker are awaited, so a task holds the gateway's     *)
(* entry over them.  A restart loses the tasks and marks every open order  *)
(* as unknown.                                                             *)
(*                                                                         *)
(* The broker receives placements and cancellations and emits reports,     *)
(* which may come late, in any order, more than once or never.             *)
(***************************************************************************)
EXTENDS Integers, FiniteSets

CONSTANTS
  Orders,         \* order intents, with one idempotency key each
  Gateways,
  Tasks,          \* concurrent calls
  Home,           \* Home[t]: the gateway of task t
  Quantity,
  Overlapping,    \* an intent may be submitted again while a submission runs
  MaxPlacements,  \* bound: placements of one order
  MaxRestarts     \* bound

Final == {"filled", "cancelled", "rejected"}
\* The states in which reconcile_snapshot expects the broker to know the order.
Outstanding == {"submitting", "acknowledged", "partially_filled", "cancel_pending"}
States == Final \cup Outstanding \cup {"none", "created", "unknown"}
ReportStates == Final \cup {"acknowledged", "partially_filled"}
Reports == [status: ReportStates, filled: 0..Quantity]

ASSUME OmsAssumption ==
  /\ Home \in [Tasks -> Gateways]
  /\ Quantity \in Nat \ {0}
  /\ Overlapping \in BOOLEAN
  /\ {MaxPlacements, MaxRestarts} \subseteq Nat

VARIABLES
  store,     \* broker_oms_orders
  memory,    \* memory[g][o]: the entry of the order in gateway g
  task,
  kill,      \* kill_switch_enabled of each gateway
  broker,    \* what became of an order at the broker
  reports,   \* the reports emitted so far
  placed,    \* place_order calls the broker has received
  restarts

omsVars == <<store, memory, task, kill, broker, reports, placed, restarts>>
brokerVars == <<broker, reports, placed>>

NoEntry == [state |-> "none", receipt |-> FALSE, bound |-> FALSE,
            filled |-> 0, remaining |-> 0, applied |-> {}]
Created == [NoEntry EXCEPT !.state = "created", !.remaining = Quantity]

NoTask == [pc |-> "idle"]

OmsInit ==
  /\ store = [o \in Orders |-> NoEntry]
  /\ memory = [g \in Gateways |-> [o \in Orders |-> NoEntry]]
  /\ task = [t \in Tasks |-> NoTask]
  /\ kill = [g \in Gateways |-> TRUE]
  /\ broker = [o \in Orders |-> [phase |-> "none", filled |-> 0]]
  /\ reports = [o \in Orders |-> {}]
  /\ placed = [o \in Orders |-> 0]
  /\ restarts = 0

-----------------------------------------------------------------------------
(* Entries *)

At(t, pc) == task[t].pc = pc

\* _persist writes the entry of the gateway over the row of the order.
Persist(g, o, e) ==
  /\ store' = [store EXCEPT ![o] = e]
  /\ memory' = [memory EXCEPT ![g][o] = e]

Spoil(g, o, e) ==  \* an error leaves the entry changed in memory only
  /\ memory' = [memory EXCEPT ![g][o] = e]
  /\ UNCHANGED store

\* _transition.
Allowed(from, to) ==
  \/ from = to
  \/ from = "submitting" /\ to \in {"acknowledged", "partially_filled", "filled", "rejected"}
  \/ from = "acknowledged" /\ to \in {"partially_filled", "filled", "cancel_pending", "cancelled", "rejected"}
  \/ from = "partially_filled" /\ to \in {"filled", "cancel_pending", "cancelled"}
  \/ from = "cancel_pending" /\ to \in {"partially_filled", "filled", "cancelled", "rejected"}
  \/ from = "unknown" /\ to \in ReportStates

Unknown(e) == [e EXCEPT !.state = "unknown"]

\* mark_unknown reads the row, whatever its state is by now.
MarkUnknown(g, o) == Persist(g, o, Unknown(store[o]))

-----------------------------------------------------------------------------
(* submit *)

\* The row an intent is registered in: register returns the one it finds.
Registered(o) == IF store[o].state = "none" THEN Created ELSE store[o]

Submitting(o) == \E t \in Tasks : task[t].pc \in {"placing", "placed"} /\ task[t].order = o

\* Faulty: an order in an unknown state is submitted once more.
RetriesUnknown(e) == ~e.receipt /\ e.state \notin Final

\* submit goes on to the broker unless the outcome is unknown or already here.
MaySubmit(e) == e.state # "unknown" /\ ~e.receipt /\ e.state \notin Final

\* register alone, or a submission that the kill switch or the risk gate stops.
Register(g, o) ==
  /\ store[o].state = "none"
  /\ Persist(g, o, Created)
  /\ UNCHANGED <<task, kill, brokerVars, restarts>>

\* Faulty: nothing is saved before the order is sent.
SavesNothing(g, o, e) == Spoil(g, o, e)

\* The write-ahead barrier: the row says SUBMITTING before the broker is called.
SaveBarrier(g, o, e) == Persist(g, o, e)

Submit(t, o) ==
  LET e == Registered(o) IN
  /\ At(t, "idle")
  /\ MaySubmit(e)
  /\ ~kill[Home[t]]
  /\ Overlapping \/ ~Submitting(o)
  /\ SaveBarrier(Home[t], o, [e EXCEPT !.state = "submitting"])
  /\ task' = [task EXCEPT ![t] = [pc |-> "placing", order |-> o]]
  /\ UNCHANGED <<kill, brokerVars, restarts>>

\* The order reaches the broker, which accepts or rejects it.  What becomes of a
\* second order under the same intent is not followed.
Place(t) ==
  LET o == task[t].order IN
  /\ At(t, "placing")
  /\ placed[o] < MaxPlacements
  /\ placed' = [placed EXCEPT ![o] = @ + 1]
  /\ IF broker[o].phase = "none"
     THEN \E outcome \in {"open", "rejected"} :
            /\ broker' = [broker EXCEPT ![o].phase = outcome]
            /\ reports' = [reports EXCEPT ![o] = {[status |-> IF outcome = "open" THEN "acknowledged" ELSE outcome,
                                                   filled |-> 0]}]
     ELSE UNCHANGED <<broker, reports>>
  /\ task' = [task EXCEPT ![t].pc = "placed"]
  /\ UNCHANGED <<store, memory, kill, restarts>>

\* The call fails, before or after the broker has received the order.
SubmitFails(t) ==
  /\ At(t, "placing") \/ At(t, "placed")
  /\ MarkUnknown(Home[t], task[t].order)
  /\ task' = [task EXCEPT ![t] = NoTask]
  /\ UNCHANGED <<kill, brokerVars, restarts>>

\* The entry to go on with: a row that is bound to the broker order is read again.
Current(g, o) == IF store[o].bound THEN store[o] ELSE memory[g][o]

\* The receipt has a status the order has had; the accepted quantity is the whole.
\* A receipt that no longer fits the state raises and is not saved.
SubmitAnswered(t, status) ==
  LET g == Home[t]
      o == task[t].order
      e == [Current(g, o) EXCEPT !.bound = TRUE, !.receipt = TRUE]
  IN /\ At(t, "placed")
     /\ \E r \in reports[o] : r.status = status
     /\ IF Allowed(e.state, status)
        THEN Persist(g, o, [e EXCEPT !.state = status, !.remaining = Quantity])
        ELSE Spoil(g, o, e)
     /\ task' = [task EXCEPT ![t] = NoTask]
     /\ UNCHANGED <<kill, brokerVars, restarts>>

-----------------------------------------------------------------------------
(* Reports and reconciliation *)

\* Faulty: an older report overwrites a newer one.
IgnoresOrder(e, r) == Allowed(e.state, r.status)

\* A report that raises none of the errors of apply_order_report.
Applicable(e, r) == r.filled >= e.filled /\ Allowed(e.state, r.status)

\* Faulty: a cumulative quantity is counted like an increment.
CountsIncrements(e, r) ==
  [e EXCEPT !.bound = TRUE, !.state = r.status, !.filled = r.filled,
            !.remaining = @ - r.filled, !.applied = @ \cup {r}]

\* Faulty: the order id of a report is not kept.
AppliedUnbound(e, r) ==
  [e EXCEPT !.state = r.status, !.filled = r.filled,
            !.remaining = Quantity - r.filled, !.applied = @ \cup {r}]

Applied(e, r) ==
  [e EXCEPT !.bound = TRUE, !.state = r.status, !.filled = r.filled,
            !.remaining = Quantity - r.filled, !.applied = @ \cup {r}]

\* apply_order_report drops a report it has applied; one that goes backwards or
\* does not fit the state is refused.
ApplyReport(g, o, r) ==
  /\ store[o].state # "none"
  /\ r \in reports[o] \ store[o].applied
  /\ Applicable(store[o], r)
  /\ Persist(g, o, Applied(store[o], r))
  /\ UNCHANGED <<task, kill, brokerVars, restarts>>

\* A snapshot without an order the gateway believes to be at the broker.
MissingInSnapshot(g, o) ==
  /\ store[o].state \in Outstanding
  /\ MarkUnknown(g, o)
  /\ UNCHANGED <<task, kill, brokerVars, restarts>>

-----------------------------------------------------------------------------
(* cancel *)

Cancel(t, o) ==
  /\ At(t, "idle")
  /\ store[o].state \in {"acknowledged", "partially_filled"}
  /\ Persist(Home[t], o, [store[o] EXCEPT !.state = IF store[o].bound THEN "cancel_pending" ELSE "unknown"])
  /\ task' = [task EXCEPT ![t] = IF store[o].bound THEN [pc |-> "cancelling", order |-> o] ELSE NoTask]
  /\ UNCHANGED <<kill, brokerVars, restarts>>

\* The request reaches the broker.
AskToCancel(t) ==
  LET o == task[t].order IN
  /\ At(t, "cancelling")
  /\ broker[o].phase = "open"
  /\ broker' = [broker EXCEPT ![o].phase = "cancelled"]
  /\ reports' = [reports EXCEPT ![o] = @ \cup {[status |-> "cancelled", filled |-> broker[o].filled]}]
  /\ task' = [task EXCEPT ![t].pc = "cancelled"]
  /\ UNCHANGED <<store, memory, kill, placed, restarts>>

\* The broker refuses, or its answer is lost.
CancelFails(t) ==
  /\ At(t, "cancelling") \/ At(t, "cancelled")
  /\ MarkUnknown(Home[t], task[t].order)
  /\ task' = [task EXCEPT ![t] = NoTask]
  /\ UNCHANGED <<kill, brokerVars, restarts>>

\* Faulty: any answer to the request counts as its confirmation.
Unconfirmed(t) == At(t, "cancelling") \/ At(t, "cancelled")

\* The receipt names this order and says CANCELLED.
Confirmed(t) == At(t, "cancelled")

CancelAnswered(t) ==
  LET g == Home[t]
      o == task[t].order
      e == memory[g][o]
  IN /\ Confirmed(t)
     /\ IF Allowed(e.state, "cancelled")
        THEN Persist(g, o, [e EXCEPT !.state = "cancelled", !.remaining = 0])
        ELSE UNCHANGED <<store, memory>>
     /\ task' = [task EXCEPT ![t] = NoTask]
     /\ UNCHANGED <<kill, brokerVars, restarts>>

-----------------------------------------------------------------------------
(* The broker, the kill switch, restarts *)

BrokerFills(o) ==
  LET filled == broker[o].filled + 1
      done == filled = Quantity
  IN /\ broker[o].phase = "open"
     /\ broker' = [broker EXCEPT ![o] = [phase |-> IF done THEN "filled" ELSE "open", filled |-> filled]]
     /\ reports' = [reports EXCEPT ![o] =
                      @ \cup {[status |-> IF done THEN "filled" ELSE "partially_filled", filled |-> filled]}]
     /\ UNCHANGED <<store, memory, task, kill, placed, restarts>>

KillSwitch(g) ==
  /\ kill' = [kill EXCEPT ![g] = ~@]
  /\ UNCHANGED <<store, memory, task, brokerVars, restarts>>

\* Faulty: a submission that was interrupted is open again after a restart.
LeavesSubmitting(e) ==
  IF e.state \in Final \cup {"none"} THEN e
  ELSE IF e.state = "submitting" THEN [e EXCEPT !.state = "created"] ELSE Unknown(e)

\* recover_open_orders: every order that is not final becomes unknown.
Recovered(e) == IF e.state \in Final \cup {"none"} THEN e ELSE Unknown(e)

\* The process of a gateway ends and a new one opens the store.
Restart(g) ==
  /\ restarts < MaxRestarts
  /\ restarts' = restarts + 1
  /\ store' = [o \in Orders |-> Recovered(store[o])]
  /\ memory' = [memory EXCEPT ![g] = store']
  /\ task' = [t \in Tasks |-> IF Home[t] = g THEN NoTask ELSE task[t]]
  /\ kill' = [kill EXCEPT ![g] = TRUE]
  /\ UNCHANGED brokerVars

-----------------------------------------------------------------------------

TaskStep(t) ==
  \/ \E o \in Orders : Submit(t, o) \/ Cancel(t, o)
  \/ Place(t) \/ SubmitFails(t) \/ (\E status \in ReportStates : SubmitAnswered(t, status))
  \/ AskToCancel(t) \/ CancelFails(t) \/ CancelAnswered(t)

GatewayStep(g) ==
  \/ \E o \in Orders : \/ Register(g, o) \/ MissingInSnapshot(g, o)
                       \/ \E r \in reports[o] : ApplyReport(g, o, r)
  \/ KillSwitch(g) \/ Restart(g)

OmsNext == \/ \E t \in Tasks : TaskStep(t)
           \/ \E g \in Gateways : GatewayStep(g)
           \/ \E o \in Orders : BrokerFills(o)

OmsSpec == OmsInit /\ [][OmsNext]_omsVars

-----------------------------------------------------------------------------
(* Properties *)

EntryType == [state: States, receipt: BOOLEAN, bound: BOOLEAN, filled: 0..Quantity,
              remaining: 0..Quantity, applied: SUBSET Reports]

LiveTypeOK ==
  /\ store \in [Orders -> EntryType]
  /\ memory \in [Gateways -> [Orders -> EntryType]]
  /\ task \in [Tasks -> {NoTask} \cup [pc: {"placing", "placed", "cancelling", "cancelled"}, order: Orders]]
  /\ broker \in [Orders -> [phase: Final \cup {"none", "open"}, filled: 0..Quantity]]
  /\ kill \in [Gateways -> BOOLEAN]
  /\ reports \in [Orders -> SUBSET Reports]
  /\ placed \in [Orders -> Nat]

\* An order the broker may have received is never on record as one that was not
\* sent, whatever crashes or fails: the row is saved before the order leaves.
SentIsOnRecord == \A o \in Orders : placed[o] > 0 => store[o].state \notin {"none", "created"}

\* While the broker has reported nothing about an order it is not placed again:
\* after a crash or a lost answer its state is unknown, which blocks a retry.
NeverBlindlyRepeated == \A o \in Orders : placed[o] > 1 => store[o].applied # {}

\* The gateway takes an order for open at the broker only when it knows the
\* broker's order id, without which it could not be cancelled.
OpenIsBound ==
  \A o \in Orders : store[o].state \in {"acknowledged", "partially_filled", "cancel_pending"} => store[o].bound

\* An order is on record as cancelled or rejected only when the broker ended it so:
\* a lost, refused or late cancellation is not taken for one that worked.
EndedAtTheBroker ==
  \A o \in Orders : store[o].state \in {"cancelled", "rejected"} => broker[o].phase = store[o].state

\* The broker bears out what the record says of an order.
RecordIsTrue == SentIsOnRecord /\ OpenIsBound /\ EndedAtTheBroker

\* The filled quantity on record never goes back, over late and repeated reports,
\* receipts, failures and restarts.
FilledNeverDecreases == [][\A o \in Orders : store'[o].filled >= store[o].filled]_omsVars

\* An order is placed at the broker at most once.
PlacedOnce == \A o \in Orders : placed[o] <= 1

\* A filled, cancelled or rejected order stays what it is.
FinalStatesStay == [][\A o \in Orders : store[o].state \in Final => store'[o].state = store[o].state]_omsVars
=============================================================================
