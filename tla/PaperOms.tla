------------------------------ MODULE PaperOms ------------------------------
(***************************************************************************)
(* The paper ledger of execution/paper_oms.py: orders, fills, positions,   *)
(* cash and T+2 settlement rows of one paper account, with the stock       *)
(* borrow that short sales take (execution/paper_borrow.py).               *)
(*                                                                         *)
(* Every operation of the class is one SQLite transaction opened with      *)
(* "begin immediate", so every action below is atomic.  Money and          *)
(* quantities are integers; a price is the fill price after slippage; one  *)
(* borrow locate exists per symbol; the clock counts trading days.         *)
(***************************************************************************)
EXTENDS Integers, FiniteSets, FiniteSetsExt

CONSTANTS
  Orders,             \* order ids; their order is the order of the id strings
  Symbols,
  Ticket,             \* Ticket[o]: the immutable ticket [symbol, side, quantity]
  Quantities,         \* the quantities one market tick can fill
  Prices,             \* the fill prices a tick can offer
  MaxSeq,             \* bound: fill sequence numbers of one order
  MaxDay,             \* bound: trading days of the clock
  SettlementDays,     \* days from trade to settlement (NORMAL_SETTLEMENT_DAYS)
  SettlementEnforced, \* quotes carry the exchange settlement contract
  InitialCash,
  MinCommission,      \* charged once per order
  CommissionPct,      \* percent of the gross amount
  TaxPct,             \* percent of the gross amount of a sale
  LocateLimit,        \* quantity a symbol's borrow locate makes available
  BorrowFee           \* bound: the fee of one borrowed share for one day

Sides   == {"buy", "sell", "short_sell", "buy_to_cover"}
Actions == {"buy", "sell", "reduce", "short_sell", "buy_to_cover"}
OmsStatuses == {"none", "submitted", "partially_filled", "filled", "rejected"}
OmsFinal    == {"filled", "rejected"}

ASSUME OmsAssumption ==
  /\ Orders \subseteq Nat
  /\ \A o \in Orders : /\ Ticket[o].symbol \in Symbols
                       /\ Ticket[o].side \in Sides
                       /\ Ticket[o].quantity \in Nat \ {0}
  /\ Quantities \subseteq Nat \ {0}
  /\ Prices \subseteq Nat \ {0}
  /\ {MaxSeq, MaxDay, SettlementDays, InitialCash, LocateLimit} \subseteq Nat
  /\ {MinCommission, CommissionPct, TaxPct, BorrowFee} \subseteq Nat
  /\ SettlementEnforced \in BOOLEAN

VARIABLES
  orders,    \* paper_orders: one row per order, with sums over its paper_fills
  fills,     \* paper_fills: the fill ids (order, sequence) with their amounts
  position,  \* paper_positions.quantity, negative when short
  reserved,  \* open quantity of paper_short_borrows
  recalled,  \* the locate of a symbol is recalled or expired
  accrued,   \* last_fee_accrual_date of the oldest open borrow of a symbol
  fees,      \* the paper_borrow_fee entries of cash_ledger, summed
  cash,      \* paper_accounts.cash_balance
  settled,   \* paper_accounts.settled_cash_balance
  pending,   \* the pending rows of paper_settlements
  today      \* the trading day of the market timestamp

borrowVars == <<reserved, recalled, accrued, fees>>
ledgerVars == <<fills, position, borrowVars, cash, settled, pending, today>>
omsVars == <<orders, ledgerVars>>

NewRow(status, action, requested) ==
  [status |-> status, action |-> action, requested |-> requested, filled |-> 0,
   count |-> 0, gross |-> 0, commission |-> 0]

NoOrder == NewRow("none", "buy", 0)

OmsInit ==
  /\ orders = [o \in Orders |-> NoOrder]
  /\ fills = {}
  /\ position = [s \in Symbols |-> 0]
  /\ reserved = [s \in Symbols |-> 0]
  /\ recalled = [s \in Symbols |-> FALSE]
  /\ accrued = [s \in Symbols |-> 0]
  /\ fees = 0
  /\ cash = InitialCash
  /\ settled = InitialCash
  /\ pending = {}
  /\ today = 0

-----------------------------------------------------------------------------
(* Reading the ledger *)

NonNegative(x) == IF x > 0 THEN x ELSE 0
Smaller(x, y)  == IF x < y THEN x ELSE y
IsBuy(action)  == action \in {"buy", "buy_to_cover"}
SymbolOf(o)    == Ticket[o].symbol
Known(o)       == orders[o].status # "none"

\* Faulty: repeated fill ids are not recognised.
SeenNever(o, seq) == FALSE

HasFill(o, seq) == \E f \in fills : f.order = o /\ f.seq = seq
Total(rows, field) == MapThenSumSet(LAMBDA r : r[field], rows)

\* Faulty: pending sale proceeds can be spent.
PendingSalesSpendable == cash

\* Cash a buy may spend: pending sale proceeds are not in it.
AvailableCash == Smaller(cash, settled - Total(pending, "payable"))

\* The commission of an order depends on its cumulative gross amount only.
CumulativeCommission(gross) ==
  LET proportional == (gross * CommissionPct) \div 100
  IN IF proportional > MinCommission THEN proportional ELSE MinCommission

\* Faulty: each fill pays the minimum commission.
MinimumPerFill(row, gross) == CumulativeCommission(gross)

CommissionIncrement(row, gross) ==
  NonNegative(CumulativeCommission(row.gross + gross) - row.commission)

\* The row a fill report works on: the stored one, or the one it inserts.
OrderRow(o, action, requested) ==
  IF Known(o) THEN orders[o] ELSE NewRow("submitted", action, requested)

\* Asked only when the order is first seen: a sale or a cover of more than is held.
ExceedsHolding(o, action, requested) ==
  LET held == position[SymbolOf(o)]
  IN \/ action \in {"sell", "reduce"} /\ requested > NonNegative(held)
     \/ action = "buy_to_cover" /\ requested > NonNegative(-held)

\* Long and short holdings of a symbol exclude each other.
WrongSide(o, action) ==
  \/ action = "short_sell" /\ position[SymbolOf(o)] > 0
  \/ action = "buy" /\ position[SymbolOf(o)] < 0

LocateAllows(s, quantity) == ~recalled[s] /\ quantity <= LocateLimit - reserved[s]

NetCashDelta(action, gross, commission) ==
  IF IsBuy(action) THEN -(gross + commission)
  ELSE gross - commission - ((gross * TaxPct) \div 100)

NewPosition(action, held, quantity) ==
  CASE action = "buy" -> held + quantity
    [] action \in {"sell", "reduce"} -> NonNegative(held - quantity)
    [] action = "short_sell" -> held - quantity
    [] action = "buy_to_cover" -> -NonNegative(-(held + quantity))

\* Faulty: a cover keeps its lots open.
NeverReleased(action, open, quantity) == IF action = "short_sell" THEN open + quantity ELSE open

\* reserve_short opens a borrow lot, cover_short releases the oldest lots.
BorrowAfter(action, open, quantity) ==
  CASE action = "short_sell" -> open + quantity
    [] action = "buy_to_cover" -> open - quantity
    [] OTHER -> open

-----------------------------------------------------------------------------
(* submit_partial_fill: one fill report of the broker, one transaction *)

SetRow(o, row) == orders' = [orders EXCEPT ![o] = row]

\* _reject: only the status changes, whatever the order has filled before.
Reject(o, row) ==
  /\ SetRow(o, [row EXCEPT !.status = "rejected"])
  /\ UNCHANGED ledgerVars

\* A fill id seen before, another contract or a final order: nothing is written.
Ignored(o, action, seq) ==
  /\ Known(o)
  /\ HasFill(o, seq) \/ orders[o].action # action \/ orders[o].status \in OmsFinal
  /\ UNCHANGED omsVars

\* The report is a new fill of an order that can still fill.
Fillable(o, action, requested, seq) ==
  IF Known(o)
  THEN ~HasFill(o, seq) /\ orders[o].action = action /\ orders[o].status \notin OmsFinal
  ELSE ~ExceedsHolding(o, action, requested)

FillQuantity(row, q) == Smaller(NonNegative(row.requested - row.filled), q)

\* Faulty: the preview is not checked again.
PreviewTrusted(o, action, row, quantity, price) == TRUE

Affordable(o, action, row, quantity, price) ==
  IsBuy(action) =>
    quantity * price + CommissionIncrement(row, quantity * price) <= AvailableCash

\* The checks of a fillable report, in the code's order.
Blocked(o, action, row, quantity, price) ==
  \/ WrongSide(o, action)
  \/ ~Affordable(o, action, row, quantity, price)
  \/ action = "short_sell" /\ ~LocateAllows(SymbolOf(o), quantity)

\* A refused report rejects the order, but an order that has filled before and
\* runs out of cash stays partially filled.
RefuseFill(o, action, row, quantity, price) ==
  /\ Blocked(o, action, row, quantity, price)
  /\ IF /\ ~WrongSide(o, action)
        /\ ~Affordable(o, action, row, quantity, price)
        /\ row.filled > 0
     THEN /\ SetRow(o, [row EXCEPT !.status = "partially_filled"])
          /\ UNCHANGED ledgerVars
     ELSE Reject(o, row)

\* The row after a fill of it.
FilledRow(row, quantity, gross, commission) ==
  [status |-> IF row.filled + quantity >= row.requested THEN "filled" ELSE "partially_filled",
   action |-> row.action, requested |-> row.requested,
   filled |-> row.filled + quantity, count |-> row.count + 1,
   gross |-> row.gross + gross, commission |-> row.commission + commission]

\* The fill: order, fill, position, borrow, cash and settlement change together.
\* cover_short raises, and the transaction rolls back, beyond the open borrow.
ApplyFill(o, action, row, seq, quantity, price) ==
  LET s          == SymbolOf(o)
      gross      == quantity * price
      commission == CommissionIncrement(row, gross)
      delta      == NetCashDelta(action, gross, commission)
  IN
  /\ ~Blocked(o, action, row, quantity, price)
  /\ action = "buy_to_cover" => quantity <= reserved[s]
  /\ SetRow(o, FilledRow(row, quantity, gross, commission))
  /\ fills' = fills \cup {[order |-> o, seq |-> seq, quantity |-> quantity, delta |-> delta]}
  /\ position' = [position EXCEPT ![s] = NewPosition(action, @, quantity)]
  /\ reserved' = [reserved EXCEPT ![s] = BorrowAfter(action, @, quantity)]
  /\ accrued' = IF action = "short_sell" /\ reserved[s] = 0
                THEN [accrued EXCEPT ![s] = today] ELSE accrued
  /\ cash' = cash + delta
  /\ pending' = IF ~SettlementEnforced THEN pending
                ELSE pending \cup {[order |-> o, seq |-> seq, due |-> today + SettlementDays,
                                    payable |-> IF IsBuy(action) THEN -delta ELSE 0,
                                    receivable |-> IF IsBuy(action) THEN 0 ELSE delta]}
  /\ UNCHANGED <<recalled, fees, settled, today>>

SubmitPartialFill(o, action, requested, seq, q, price) ==
  \/ Ignored(o, action, seq)
  \/ /\ ~Known(o)
     /\ ExceedsHolding(o, action, requested)
     /\ Reject(o, OrderRow(o, action, requested))
  \/ /\ Fillable(o, action, requested, seq)
     /\ LET row      == OrderRow(o, action, requested)
            quantity == FillQuantity(row, q)
        IN \/ RefuseFill(o, action, row, quantity, price)
           \/ ApplyFill(o, action, row, seq, quantity, price)

-----------------------------------------------------------------------------
(* settle_due, the borrow fees and the clock *)

\* Faulty: a row settles a day late.
LateRows == {r \in pending : r.due < today}

DueRows == {r \in pending : r.due <= today}

\* Rows settle in the order of (settlement_due_at, settlement_id).
SettlesBefore(q, r) ==
  \/ q.due < r.due
  \/ q.due = r.due /\ q.order < r.order
  \/ q.due = r.due /\ q.order = r.order /\ q.seq <= r.seq

SettledAfter(r) ==
  LET batch == {q \in DueRows : SettlesBefore(q, r)}
  IN settled + Total(batch, "receivable") - Total(batch, "payable")

\* The batch raises settlement_would_overdraw_settled_cash and rolls back.
SettlementOverdraws == \E r \in DueRows : SettledAfter(r) < 0

Settle(rows) ==
  /\ settled' = settled + Total(rows, "receivable") - Total(rows, "payable")
  /\ pending' = pending \ rows
  /\ UNCHANGED <<orders, fills, position, borrowVars, today>>

\* Faulty: settling books the economic cash again.
BookedTwice ==
  /\ ~SettlementOverdraws
  /\ Settle(DueRows)
  /\ cash' = cash + Total(DueRows, "receivable") - Total(DueRows, "payable")

SettleDue ==
  /\ ~SettlementOverdraws
  /\ Settle(DueRows)
  /\ UNCHANGED cash

\* accrue_fees charges each open borrow once a day, up to BorrowFee a share: it
\* takes the fee from the cash balance and leaves the settled balance alone.
AccrueFees(s) ==
  /\ reserved[s] > 0
  /\ accrued[s] < today
  /\ \E fee \in 0..(BorrowFee * reserved[s] * (today - accrued[s])) :
       /\ cash' = cash - fee
       /\ fees' = fees + fee
  /\ accrued' = [accrued EXCEPT ![s] = today]
  /\ UNCHANGED <<orders, fills, position, reserved, recalled, settled, pending, today>>

\* recall_at or expires_at of the symbol's locate passes.
RecallLocate(s) ==
  /\ ~recalled[s]
  /\ recalled' = [recalled EXCEPT ![s] = TRUE]
  /\ UNCHANGED <<orders, fills, position, reserved, accrued, fees, cash, settled, pending, today>>

NextDay ==
  /\ today < MaxDay
  /\ today' = today + 1
  /\ UNCHANGED <<orders, fills, position, borrowVars, cash, settled, pending>>

-----------------------------------------------------------------------------
(* The ledger driven by a broker that sizes and reports one fill at a time *)

\* PaperBrokerSimulator._fill names the action from the position it reads.
ReportedAction(o, requested) ==
  IF Ticket[o].side # "sell" THEN Ticket[o].side
  ELSE IF requested >= position[SymbolOf(o)] THEN "sell" ELSE "reduce"

\* Without a position to sell or to cover the report has no position size and
\* submit_partial_fill returns before it opens a transaction.
HasPositionSize(o) ==
  /\ Ticket[o].side = "sell" => position[SymbolOf(o)] > 0
  /\ Ticket[o].side = "buy_to_cover" => position[SymbolOf(o)] < 0

\* A new report has the next sequence number; a retry repeats an earlier one.
BrokerReport(o, seq, q, price) ==
  /\ HasPositionSize(o)
  /\ seq <= orders[o].count + 1
  /\ today + SettlementDays <= MaxDay
  /\ SubmitPartialFill(o, ReportedAction(o, Ticket[o].quantity), Ticket[o].quantity,
                       seq, q, price)

OmsNext ==
  \/ \E o \in Orders, seq \in 1..MaxSeq, q \in Quantities, price \in Prices :
       BrokerReport(o, seq, q, price)
  \/ DueRows # {} /\ SettleDue
  \/ \E s \in Symbols : AccrueFees(s) \/ RecallLocate(s)
  \/ NextDay

OmsSpec == OmsInit /\ [][OmsNext]_omsVars

\* Every market tick settles what is due, and time passes.
OmsFairness == WF_omsVars(DueRows # {} /\ SettleDue) /\ WF_omsVars(NextDay)

OmsFairSpec == OmsSpec /\ OmsFairness

-----------------------------------------------------------------------------
(* Properties *)

OrderRowType ==
  [status: OmsStatuses, action: Actions, requested: Nat, filled: Nat,
   count: Nat, gross: Nat, commission: Nat]

\* The rows of the ledger have the shapes of the paper_* tables.
LedgerTypeOK ==
  /\ orders \in [Orders -> OrderRowType]
  /\ \A f \in fills : /\ f.order \in Orders
                      /\ {f.seq, f.quantity} \subseteq Nat \ {0}
                      /\ f.delta \in Int
  /\ position \in [Symbols -> Int]
  /\ reserved \in [Symbols -> Nat]
  /\ recalled \in [Symbols -> BOOLEAN]
  /\ accrued \in [Symbols -> Nat]
  /\ fees \in Nat
  /\ cash \in Int
  /\ \A r \in pending : /\ r.order \in Orders
                        /\ {r.seq, r.due, r.payable} \subseteq Nat
                        /\ r.receivable \in Int
  /\ today \in Nat

\* The settled balance is a number too, though a batch of rows is added to it.
TypeOK == LedgerTypeOK /\ settled \in Int

FillsOf(o) == {f \in fills : f.order = o}

\* An order has filled what its fill rows say, whatever reports are repeated, late
\* or concurrent: the row's filled_quantity and its fills change together.
FillsMatchOrders ==
  \A o \in Orders : orders[o].filled = Total(FillsOf(o), "quantity")

\* submit_partial_fill takes each fill id once and leaves no gap, so that the next
\* free number is the count of fills (_fill_count); an order never fills beyond
\* its quantity, and it is "filled" exactly when all of it is.
FillsAreNumbered ==
  \A o \in Orders :
    /\ {f.seq : f \in FillsOf(o)} = 1..orders[o].count
    /\ Cardinality(FillsOf(o)) = orders[o].count
    /\ orders[o].filled <= orders[o].requested
    /\ orders[o].status = "filled" <=> Known(o) /\ orders[o].filled = orders[o].requested

\* An order pays the same commission however its quantity is split into fills:
\* the minimum is charged once (commission_basis of _assumptions).
CommissionIgnoresSplits ==
  \A o \in Orders :
    orders[o].count > 0 => orders[o].commission = CumulativeCommission(orders[o].gross)

\* Economic cash is booked once, at the fill: settling only moves it between the
\* pending and the settled view (settle_due's contract), and nothing is lost.
\* What the two views differ by is exactly the borrow fees accrue_fees charged.
CashIsSettledPlusPending ==
  /\ cash = InitialCash + Total(fills, "delta") - fees
  /\ SettlementEnforced =>
       cash + fees = settled + Total(pending, "receivable") - Total(pending, "payable")

\* Sale proceeds are not spent before they settle: settled cash covers every
\* purchase that is still to be paid (_available_cash).
PurchasesAreCovered ==
  SettlementEnforced => Total(pending, "payable") <= settled

\* What is sold short is borrowed, share for share: the position and the open
\* borrow lots of a symbol change together in submit_partial_fill.
ShortsAreBorrowed ==
  \A s \in Symbols : reserved[s] = NonNegative(-position[s])

\* A filled or rejected order never changes again, and an order never forgets a
\* fill or its contract.
OrdersOnlyAdvance ==
  [][\A o \in Orders :
       /\ orders[o].status \in OmsFinal => orders'[o] = orders[o]
       /\ Known(o) => /\ orders'[o].action = orders[o].action
                      /\ orders'[o].requested = orders[o].requested
       /\ orders'[o].filled >= orders[o].filled]_omsVars

\* Every trade settles in the end: no due row makes the batch fail for good.
TradesSettle == pending # {} ~> pending = {}

-----------------------------------------------------------------------------
(* Expectations of the repository that the runs refute *)

\* tests/test_paper_oms.py asserts that the positions are the signed sum of the fills.
PositionMatchesFills ==
  \A s \in Symbols :
    position[s] =
      Total({f \in fills : SymbolOf(f.order) = s /\ IsBuy(Ticket[f.order].side)}, "quantity")
      - Total({f \in fills : SymbolOf(f.order) = s /\ ~IsBuy(Ticket[f.order].side)}, "quantity")

\* settle_due's RuntimeError is never raised.
SettlementNeverOverdraws == ~SettlementOverdraws

\* submit_partial_fill's guard against another contract under the same order id
\* never meets the broker's own report of a resting order.
ReportsKeepTheContract ==
  \A o \in Orders :
    orders[o].status = "partially_filled" /\ HasPositionSize(o)
      => orders[o].action = ReportedAction(o, orders[o].requested)
=============================================================================
