---------------------------- MODULE PaperBroker ----------------------------
(***************************************************************************)
(* The broker simulator of execution/paper_broker.py on top of PaperOms:   *)
(* the life of an order ticket, and the fill reports it sends to the OMS.  *)
(*                                                                         *)
(* Each API call and each market tick runs in a thread of its own on one   *)
(* SQLite file.  A SELECT outside a transaction commits at once, so a      *)
(* handler that reads, decides and then writes is several steps; a step    *)
(* below is one transaction.  A crash stops every thread and keeps the     *)
(* tables.  The status "triggered" of a stop order counts as "open".       *)
(***************************************************************************)
EXTENDS PaperOms

CONSTANTS
  Workers,     \* the threads: API calls and market ticks in progress
  NoOne,       \* no order: the value of an unused order field
  MaxCrashes   \* bound: restarts of the process

\* A broker ticket also has tif (time_in_force) and replaces (an order or NoOne).
Quantity(o) == Ticket[o].quantity
Tif(o)      == Ticket[o].tif
OldOrder(o) == Ticket[o].replaces

OpenStatuses  == {"submitted", "acknowledged", "open", "partially_filled"}
FinalStatuses == {"filled", "canceled", "rejected", "replaced", "expired"}
BookStatuses  == {"none"} \cup OpenStatuses \cup FinalStatuses
Steps == {"idle", "acknowledge", "acknowledged", "evaluate", "act", "fill", "measure",
          "number", "report", "record", "rest", "withdraw", "cancel", "expire", "replace"}

ASSUME BrokerAssumption ==
  /\ NoOne \notin Orders
  /\ MaxCrashes \in Nat
  /\ \A o \in Orders : Tif(o) \in {"rod", "ioc", "fok"} /\ OldOrder(o) \in Orders \cup {NoOne}

VARIABLES
  book,     \* paper_broker_orders.status
  worker,   \* what each thread does next, and what it has read so far
  crashes

brokerVars == <<omsVars, book, worker, crashes>>

\* What a thread does next, the order it works on, the position, the quantity and
\* the fill number it has read, the status it has read or is to write, and the
\* order that is to replace its order.
Sized(pc, o, held, quantity, seq) ==
  [pc |-> pc, order |-> o, held |-> held, quantity |-> quantity, seq |-> seq,
   status |-> "none", new |-> NoOne]

Step(pc, o) == Sized(pc, o, 0, 0, 0)

\* A thread between two requests.
Idle == Step("idle", NoOne)

BrokerInit ==
  /\ OmsInit
  /\ book = [o \in Orders |-> "none"]
  /\ worker = [w \in Workers |-> Idle]
  /\ crashes = 0

-----------------------------------------------------------------------------
(* Threads and rows *)

At(w, pc)   == worker[w].pc = pc
OrderOf(w)  == worker[w].order
IsOpen(o)   == book[o] \in OpenStatuses
Remaining(o) == NonNegative(Quantity(o) - orders[o].filled)

GoesOn(w, request) == worker' = [worker EXCEPT ![w] = request]
Returns(w) == GoesOn(w, Idle)
Starts(w, pc, o) == At(w, "idle") /\ GoesOn(w, Step(pc, o))

Write(o, status) == book' = [book EXCEPT ![o] = status]
NoOmsChange == UNCHANGED <<omsVars, crashes>>
ReadsOnly   == UNCHANGED <<omsVars, crashes, book>>

\* Faulty: committed fills are not recovered.
NeverReconciled(o) == book[o]

\* _reconcile_committed_fills: an open row is brought up to its committed fills.
Reconciled(o) ==
  LET complete == orders[o].filled = Quantity(o)
      shown    == IF complete THEN "filled" ELSE "partially_filled"
  IN IF IsOpen(o) /\ orders[o].count > 0 /\ orders[o].status = shown
     THEN IF ~complete /\ Tif(o) = "ioc" THEN "canceled" ELSE shown
     ELSE book[o]

\* _validate_account_side and the borrow preview of a ticket, at one price.
PreviewAllows(o, price) ==
  LET held  == position[SymbolOf(o)]
      gross == Quantity(o) * price
  IN CASE Ticket[o].side = "sell" -> held > 0 /\ Quantity(o) <= held
       [] Ticket[o].side = "short_sell" -> held <= 0 /\ LocateAllows(SymbolOf(o), Quantity(o))
       [] Ticket[o].side = "buy_to_cover" ->
            /\ held < 0 /\ Quantity(o) <= -held
            /\ gross + CumulativeCommission(gross) <= AvailableCash
       [] Ticket[o].side = "buy" -> gross + CumulativeCommission(gross) <= AvailableCash

-----------------------------------------------------------------------------
(* submit and _acknowledge_and_evaluate *)

\* An order id that exists already only returns its row.  A trading restriction or
\* an exchange rule may reject a ticket that the account allows.
Submit(w, o, price) ==
  /\ book[o] = "none"
  /\ OldOrder(o) = NoOne
  /\ \/ PreviewAllows(o, price) /\ Write(o, "submitted") /\ Starts(w, "acknowledge", o)
     \/ At(w, "idle") /\ Write(o, "rejected") /\ UNCHANGED worker
  /\ NoOmsChange

ReadSubmitted(w) ==
  /\ At(w, "acknowledge")
  /\ GoesOn(w, Step(IF book[OrderOf(w)] = "submitted" THEN "acknowledged" ELSE "evaluate",
                    OrderOf(w)))
  /\ ReadsOnly

WriteAcknowledged(w) ==
  /\ At(w, "acknowledged")
  /\ Write(OrderOf(w), "acknowledged")
  /\ GoesOn(w, Step("evaluate", OrderOf(w)))
  /\ NoOmsChange

-----------------------------------------------------------------------------
(* process_market_tick and _evaluate_order *)

\* A tick evaluates the open orders of its symbol one after the other.
Tick(w, o) ==
  /\ IsOpen(o)
  /\ Starts(w, "evaluate", o)
  /\ ReadsOnly

\* The transaction that reconciles the row; everything after it uses this row.
Evaluate(w) ==
  LET o == OrderOf(w) IN
  /\ At(w, "evaluate")
  /\ Write(o, Reconciled(o))
  /\ GoesOn(w, IF Reconciled(o) \in FinalStatuses THEN Idle
               ELSE [Step("act", o) EXCEPT !.status = Reconciled(o)])
  /\ NoOmsChange

\* What an order that does not execute on this tick becomes, by the row read.
RestStatus(w) ==
  IF Tif(OrderOf(w)) # "rod" THEN "canceled"
  ELSE IF worker[w].status = "partially_filled" THEN "partially_filled" ELSE "open"

\* A restriction applies or the price does not match: rest, or cancel ioc and fok.
ActRest(w) ==
  /\ Write(OrderOf(w), RestStatus(w))
  /\ Returns(w)

\* The explicit expiry has passed.
ActExpire(w) ==
  /\ Write(OrderOf(w), "expired")
  /\ Returns(w)

\* The exchange session does not match now: _rest_active.
ActWait(w) == GoesOn(w, Step("rest", OrderOf(w))) /\ UNCHANGED book

\* A stop order triggers: its row is open again before it fills or rests.
ActTrigger(w) ==
  /\ worker[w].status \in {"submitted", "acknowledged", "open"}
  /\ Write(OrderOf(w), "open")
  /\ GoesOn(w, Step("fill", OrderOf(w)))

\* The price matches: _fill.
ActFill(w) == GoesOn(w, Step("fill", OrderOf(w))) /\ UNCHANGED book

Act(w) ==
  /\ At(w, "act")
  /\ ActRest(w) \/ ActExpire(w) \/ ActWait(w) \/ ActTrigger(w) \/ ActFill(w)
  /\ NoOmsChange

-----------------------------------------------------------------------------
(* _fill *)

\* portfolio_summary.
ReadPosition(w) ==
  LET o == OrderOf(w) IN
  /\ At(w, "fill")
  /\ GoesOn(w, Sized("measure", o, position[SymbolOf(o)], 0, 0))
  /\ ReadsOnly

\* _filled_quantity.
Measure(w) ==
  LET o == OrderOf(w) IN
  /\ At(w, "measure")
  /\ GoesOn(w, Sized("number", o, worker[w].held, Remaining(o), 0))
  /\ ReadsOnly

\* Faulty: fok is treated as ioc.
FokFillsInParts(w, quantity) == FALSE

\* A fok order takes all of its remaining quantity or none.
FokFails(w, quantity) == Tif(OrderOf(w)) = "fok" /\ quantity < worker[w].quantity

\* A sale has a size only against a long position, a cover against a short one.
SizeIn(o, held) ==
  /\ Ticket[o].side = "sell" => held > 0
  /\ Ticket[o].side = "buy_to_cover" => held < 0

\* _fill_count and the quantity this tick makes available; _persist_execution_state
\* keeps a replay cursor only.
Number(w, quantity) ==
  LET o == OrderOf(w) IN
  /\ At(w, "number")
  /\ GoesOn(w,
       CASE FokFails(w, quantity) \/ (quantity = 0 /\ Tif(o) = "ioc") -> Step("withdraw", o)
         [] ~FokFails(w, quantity) /\ quantity = 0 /\ Tif(o) # "ioc" -> Step("rest", o)
         [] ~FokFails(w, quantity) /\ quantity > 0 /\ ~SizeIn(o, worker[w].held) ->
              [Step("record", o) EXCEPT !.status = "rejected"]
         [] OTHER -> Sized("report", o, worker[w].held, quantity, orders[o].count + 1))
  /\ ReadsOnly

ActionOf(w) ==
  LET o == OrderOf(w)
  IN IF Ticket[o].side # "sell" THEN Ticket[o].side
     ELSE IF Quantity(o) >= worker[w].held THEN "sell" ELSE "reduce"

\* Faulty: every report counts as a complete fill.
OptimisticOutcome(o, omsStatus) == "filled"

\* The broker status for the OMS status the report comes back with.
Outcome(o, omsStatus) ==
  CASE omsStatus = "filled" -> "filled"
    [] omsStatus = "partially_filled" -> IF Tif(o) = "ioc" THEN "canceled" ELSE "partially_filled"
    [] OTHER -> "rejected"

\* The OMS transaction of the report, with fill id PBF-<order>-<seq>.
Report(w, price) ==
  LET o == OrderOf(w) IN
  /\ At(w, "report")
  /\ SubmitPartialFill(o, ActionOf(w), Quantity(o), worker[w].seq, worker[w].quantity, price)
  /\ GoesOn(w, [Step("record", o) EXCEPT !.status = Outcome(o, orders'[o].status)])
  /\ UNCHANGED <<book, crashes>>

\* cover_short finds less borrowed than the report covers: the OMS transaction
\* is rolled back and the request ends with the error.
ReportRaises(w) ==
  LET o == OrderOf(w) IN
  /\ At(w, "report")
  /\ ActionOf(w) = "buy_to_cover"
  /\ Fillable(o, "buy_to_cover", Quantity(o), worker[w].seq)
  /\ FillQuantity(OrderRow(o, "buy_to_cover", Quantity(o)), worker[w].quantity)
       > reserved[SymbolOf(o)]
  /\ Returns(w)
  /\ ReadsOnly

\* The transaction after the report: the broker row takes the outcome.
Record(w) ==
  /\ At(w, "record")
  /\ Write(OrderOf(w), worker[w].status)
  /\ Returns(w)
  /\ NoOmsChange

\* _rest_active: the fills are read again, the status is not.
Rest(w) ==
  /\ At(w, "rest")
  /\ Write(OrderOf(w), IF orders[OrderOf(w)].filled > 0 THEN "partially_filled" ELSE "open")
  /\ Returns(w)
  /\ NoOmsChange

\* _cancel_unfilled.
Withdraw(w) ==
  /\ At(w, "withdraw")
  /\ Write(OrderOf(w), "canceled")
  /\ Returns(w)
  /\ NoOmsChange

-----------------------------------------------------------------------------
(* cancel, expire_due and _expire_rod_orders, replace, get_order *)

\* cancel and the expiry sweeps read an open row ...
StartCancel(w, o) == IsOpen(o) /\ Starts(w, "cancel", o) /\ ReadsOnly
StartExpire(w, o) == IsOpen(o) /\ Starts(w, "expire", o) /\ ReadsOnly

\* ... and write its final status whatever the row is by then.
Cancel(w) ==
  /\ At(w, "cancel")
  /\ Write(OrderOf(w), "canceled")
  /\ Returns(w)
  /\ NoOmsChange

Expire(w) ==
  /\ At(w, "expire")
  /\ Write(OrderOf(w), "expired")
  /\ Returns(w)
  /\ NoOmsChange

\* The replacement is of the same contract, for no more than what remains of the
\* order it replaces.
Replaceable(o, new, price) ==
  /\ OldOrder(new) = o
  /\ IsOpen(o)
  /\ SymbolOf(new) = SymbolOf(o) /\ Ticket[new].side = Ticket[o].side /\ Tif(new) = Tif(o)
  /\ Quantity(new) <= Remaining(o)
  /\ PreviewAllows(new, price)

StartReplace(w, o, new, price) ==
  /\ Replaceable(o, new, price)
  /\ book[new] = "none"
  /\ At(w, "idle")
  /\ GoesOn(w, [Step("replace", o) EXCEPT !.new = new])
  /\ ReadsOnly

\* Faulty: the old row stays open.
InsertedOnly(o, new) == [book EXCEPT ![new] = "submitted"]

\* One transaction closes the old row and inserts the new one.
Superseded(o, new) == [book EXCEPT ![o] = "replaced", ![new] = "submitted"]

\* Nothing is written when the new order id exists already.
Replace(w) ==
  LET new == worker[w].new IN
  /\ At(w, "replace")
  /\ IF book[new] = "none"
     THEN /\ book' = Superseded(OrderOf(w), new)
          /\ GoesOn(w, Step("acknowledge", new))
     ELSE Returns(w) /\ UNCHANGED book
  /\ NoOmsChange

\* get_order reconciles the row in one transaction.
GetOrder(o) ==
  /\ Reconciled(o) # book[o]
  /\ Write(o, Reconciled(o))
  /\ UNCHANGED <<omsVars, worker, crashes>>

\* The process stops: every thread is lost, what was committed stays.
Crash ==
  /\ crashes < MaxCrashes
  /\ worker # [w \in Workers |-> Idle]
  /\ crashes' = crashes + 1
  /\ worker' = [w \in Workers |-> Idle]
  /\ UNCHANGED <<omsVars, book>>

-----------------------------------------------------------------------------

Continue(w) ==
  \/ ReadSubmitted(w) \/ WriteAcknowledged(w)
  \/ Evaluate(w) \/ Act(w) \/ ReadPosition(w) \/ Measure(w)
  \/ \E quantity \in 0..worker[w].quantity : Number(w, quantity)
  \/ \E price \in Prices : Report(w, price)
  \/ ReportRaises(w)
  \/ Record(w) \/ Rest(w) \/ Withdraw(w)
  \/ Cancel(w) \/ Expire(w) \/ Replace(w)

Request(w) ==
  \E o \in Orders :
    \/ \E price \in Prices : Submit(w, o, price)
    \/ Tick(w, o) \/ StartCancel(w, o) \/ StartExpire(w, o)
    \/ \E new \in Orders, price \in Prices : StartReplace(w, o, new, price)

BrokerNext ==
  \/ \E w \in Workers : Request(w) \/ Continue(w)
  \/ \E o \in Orders : GetOrder(o)
  \/ Crash

BrokerSpec == BrokerInit /\ [][BrokerNext]_brokerVars

\* A thread finishes its request unless the process stops.  A tick comes back to
\* every open order (there is always a thread for it).
BrokerFairness ==
  /\ \A w \in Workers : WF_brokerVars(Continue(w))
  /\ \A o \in Orders : SF_brokerVars(\E w \in Workers : Tick(w, o))

BrokerFairSpec == BrokerSpec /\ BrokerFairness

-----------------------------------------------------------------------------
(* Properties *)

ThreadType ==
  [pc: Steps, order: Orders \cup {NoOne}, held: Int, quantity: Nat, seq: Nat,
   status: BookStatuses, new: Orders \cup {NoOne}]

\* A thread holds the order it works on, and rows and steps have their statuses.
BrokerTypeOK ==
  /\ book \in [Orders -> BookStatuses]
  /\ worker \in [Workers -> ThreadType]
  /\ \A w \in Workers : /\ ~At(w, "idle") => OrderOf(w) \in Orders
                        /\ At(w, "replace") => worker[w].new \in Orders
  /\ crashes \in 0..MaxCrashes

\* The broker shows an order as filled only when the ledger has all its fills,
\* whatever stale row or report a thread acts on (_fill, _reconcile_committed_fills).
FilledIsBacked ==
  \A o \in Orders : book[o] = "filled" => orders[o].status = "filled"

\* A fok order fills completely or not at all, also when two ticks evaluate it at
\* once: both measure the same remaining quantity, and the OMS takes one report.
FokIsAllOrNothing ==
  \A o \in Orders : Tif(o) = "fok" => orders[o].filled \in {0, orders[o].requested}

\* Two purchases previewed against the same cash never spend it twice: the
\* preview may be stale, submit_partial_fill checks again in its transaction.
CashIsNotSpentTwice == cash >= 0

\* A fill the process did not live to record reaches the broker row, and from then
\* on the order stays closed (_reconcile_committed_fills).
FillsReachTheBook ==
  \A o \in Orders : orders[o].status = "filled" ~> [](book[o] \in FinalStatuses)

\* What one thread at a time makes of a ticket: an order that is accepted, filled
\* up to its quantity and closed once (OrderLifecycle).
Phase(o) == IF book[o] = "none" THEN "new" ELSE IF IsOpen(o) THEN "live" ELSE "closed"

Lifecycle == INSTANCE OrderLifecycle WITH
  OrderIds <- Orders,
  Size <- [o \in Orders |-> Quantity(o)],
  Old <- [o \in Orders |-> OldOrder(o)],
  phase <- [o \in Orders |-> Phase(o)],
  filled <- [o \in Orders |-> orders[o].filled]

FollowsLifecycle == Lifecycle!Spec

-----------------------------------------------------------------------------
(* Expectations of the repository that the runs refute *)

\* tests/test_paper_broker.py: cancellation, expiry, rejection and replacement are
\* durable terminal events.
TerminalStaysTerminal ==
  [][\A o \in Orders :
       book[o] \in {"canceled", "expired", "rejected", "replaced"}
         => book'[o] = book[o]]_brokerVars

\* replace's docstring: a replace cannot silently enlarge exposure.
ReplaceKeepsExposure ==
  \A o \in Orders :
    OldOrder(o) # NoOne
      => orders[o].filled + orders[OldOrder(o)].filled <= Quantity(OldOrder(o))
=============================================================================
