--------------------------- MODULE PaperOmsProofs ---------------------------
(* Theorems of PaperOms, for every set of orders, tickets, prices and fees. *)
EXTENDS PaperOms, FiniteSetTheorems, WellFoundedInduction, TLAPS

-----------------------------------------------------------------------------
(* The helpers *)

\* NonNegative and Smaller are the maximum with zero and the minimum.
LEMMA HelperFacts ==
  /\ \A x \in Int : NonNegative(x) \in Nat /\ NonNegative(x) >= x
  /\ \A x \in Int : x >= 0 => NonNegative(x) = x
  /\ \A x \in Int : x <= 0 => NonNegative(x) = 0
  /\ \A x, y \in Int : Smaller(x, y) \in {x, y} /\ Smaller(x, y) <= x /\ Smaller(x, y) <= y
BY DEF NonNegative, Smaller

\* A product of natural numbers is one.
LEMMA ProductType ==
  ASSUME NEW a \in Nat, NEW b \in Nat
  PROVE  a * b \in Nat
OBVIOUS

\* A percentage of a larger amount is not smaller (_commission_increment).
LEMMA PercentGrows ==
  ASSUME NEW a \in Nat, NEW b \in Nat, NEW p \in Nat, a <= b
  PROVE  /\ (a * p) \div 100 \in Nat
         /\ (a * p) \div 100 <= (b * p) \div 100
<1>1. a * p \in Nat /\ b * p \in Nat
  OBVIOUS
<1>2. a * p <= b * p
  <2> DEFINE d == b - a
  <2>1. d \in Nat /\ b = a + d
    OBVIOUS
  <2>2. b * p = a * p + d * p /\ d * p \in Nat
    BY <2>1
  <2> QED BY <1>1, <2>2
<1> QED BY <1>1, <1>2

\* The commission of a gross amount and its increment are natural numbers.
LEMMA CommissionTypes ==
  ASSUME NEW row \in OrderRowType, NEW gross \in Nat
  PROVE  /\ CumulativeCommission(gross) \in Nat
         /\ CommissionIncrement(row, gross) \in Nat
<1>1. \A g \in Nat : CumulativeCommission(g) \in Nat
  BY PercentGrows, OmsAssumption DEF CumulativeCommission
<1>2. row.gross + gross \in Nat /\ row.commission \in Nat
  BY DEF OrderRowType
<1> QED BY <1>1, <1>2, HelperFacts DEF CommissionIncrement

-----------------------------------------------------------------------------
(* What the row of an order always says *)

RowOK(o) ==
  /\ Known(o) => orders[o].requested = Ticket[o].quantity
  /\ ~Known(o) => orders[o] = NoOrder
  /\ orders[o].filled <= orders[o].requested
  /\ orders[o].status = "filled" <=> Known(o) /\ orders[o].filled = orders[o].requested

RowsOK == \A o \in Orders : RowOK(o)

\* A report of quantity q for order o, as the broker sends it.
ReportTypes(o, action, requested, seq, q, price) ==
  /\ o \in Orders
  /\ action \in Actions
  /\ requested = Ticket[o].quantity
  /\ {seq, q, price} \subseteq Nat \ {0}

\* The report that passes the first checks fills a positive part of what remains.
LEMMA FillableFacts ==
  ASSUME LedgerTypeOK, RowsOK,
         NEW o, NEW action, NEW requested, NEW seq, NEW q, NEW price,
         ReportTypes(o, action, requested, seq, q, price),
         Fillable(o, action, requested, seq)
  PROVE  LET row == OrderRow(o, action, requested)
         IN /\ row \in OrderRowType
            /\ row.requested = Ticket[o].quantity
            /\ row.status \in {"submitted", "partially_filled"}
            /\ FillQuantity(row, q) \in Nat \ {0}
            /\ row.filled + FillQuantity(row, q) <= row.requested
<1> DEFINE row == OrderRow(o, action, requested)
<1>1. o \in Orders /\ q \in Nat \ {0} /\ action \in Actions /\ requested \in Nat \ {0}
  BY OmsAssumption DEF ReportTypes
<1>2. CASE Known(o)
  <2>1. row = orders[o] /\ row \in OrderRowType /\ row.requested = Ticket[o].quantity
    BY <1>1, <1>2 DEF OrderRow, LedgerTypeOK, RowsOK, RowOK
  <2>2. row.status \in {"submitted", "partially_filled"}
    BY <1>2, <2>1 DEF Fillable, OrderRowType, OmsStatuses, OmsFinal, Known
  <2>3. row.filled < row.requested /\ row.filled \in Nat /\ row.requested \in Nat
    BY <1>1, <1>2, <2>1, <2>2 DEF RowsOK, RowOK, OrderRowType
  <2>4. NonNegative(row.requested - row.filled) = row.requested - row.filled
    BY <2>3, HelperFacts
  <2> QED BY <1>1, <2>1, <2>2, <2>3, <2>4, HelperFacts DEF FillQuantity
<1>3. CASE ~Known(o)
  <2>1. row = NewRow("submitted", action, requested)
    BY <1>3 DEF OrderRow
  <2>2. /\ row \in OrderRowType /\ row.requested = requested
        /\ row.filled = 0 /\ row.status = "submitted"
    BY <1>1, <2>1 DEF NewRow, OrderRowType, OmsStatuses
  <2>3. NonNegative(row.requested - row.filled) = requested
    BY <1>1, <2>2, HelperFacts
  <2> QED BY <1>1, <2>2, <2>3, HelperFacts DEF FillQuantity, ReportTypes
<1> QED BY <1>2, <1>3

-----------------------------------------------------------------------------
(* Every action, and what it leaves alone *)

\* A report either leaves the ledger alone and at most refuses the order, or is
\* the one fill of its number.
LEMMA ReportCases ==
  ASSUME LedgerTypeOK, RowsOK,
         NEW o, NEW action, NEW requested, NEW seq, NEW q, NEW price,
         ReportTypes(o, action, requested, seq, q, price),
         SubmitPartialFill(o, action, requested, seq, q, price)
  PROVE  \/ UNCHANGED omsVars
         \/ \E row \in OrderRowType, status \in {"rejected", "partially_filled"} :
              /\ row = OrderRow(o, action, requested)
              /\ row.status \in {"submitted", "partially_filled"}
              /\ row.requested = Ticket[o].quantity
              /\ row.filled < row.requested
              /\ SetRow(o, [row EXCEPT !.status = status])
              /\ UNCHANGED ledgerVars
         \/ \E row \in OrderRowType, quantity \in Nat \ {0} :
              /\ row = OrderRow(o, action, requested)
              /\ row.status \in {"submitted", "partially_filled"}
              /\ row.requested = Ticket[o].quantity
              /\ quantity = FillQuantity(row, q)
              /\ row.filled + quantity <= row.requested
              /\ Fillable(o, action, requested, seq)
              /\ ApplyFill(o, action, row, seq, quantity, price)
<1> DEFINE row == OrderRow(o, action, requested)
           quantity == FillQuantity(row, q)
<1>1. CASE Ignored(o, action, seq)
  BY <1>1 DEF Ignored
<1>2. CASE ~Known(o) /\ Reject(o, row)
  <2>1. requested \in Nat \ {0} /\ action \in Actions /\ requested = Ticket[o].quantity
    BY OmsAssumption DEF ReportTypes
  <2>2. row = NewRow("submitted", action, requested)
    BY <1>2 DEF OrderRow
  <2>3. row \in OrderRowType /\ row.filled < row.requested /\ row.requested = requested
        /\ row.status = "submitted"
    BY <2>1, <2>2 DEF NewRow, OrderRowType, OmsStatuses
  <2> QED BY <1>2, <2>1, <2>3 DEF Reject
<1>3. CASE Fillable(o, action, requested, seq) /\ RefuseFill(o, action, row, quantity, price)
  <2>1. /\ row \in OrderRowType /\ row.requested = Ticket[o].quantity
        /\ row.status \in {"submitted", "partially_filled"}
        /\ quantity \in Nat \ {0} /\ row.filled + quantity <= row.requested
    BY <1>3, FillableFacts
  <2>2. row.filled < row.requested
    BY <2>1 DEF OrderRowType
  <2>3. \E status \in {"rejected", "partially_filled"} :
          SetRow(o, [row EXCEPT !.status = status]) /\ UNCHANGED ledgerVars
    BY <1>3 DEF RefuseFill, Reject
  <2> QED BY <2>1, <2>2, <2>3
<1>4. CASE Fillable(o, action, requested, seq) /\ ApplyFill(o, action, row, seq, quantity, price)
  BY <1>4, FillableFacts
<1> QED BY <1>1, <1>2, <1>3, <1>4 DEF SubmitPartialFill

\* The amounts a fill books are numbers of the right sign.
LEMMA FillAmounts ==
  ASSUME NEW action \in Actions, NEW row \in OrderRowType,
         NEW quantity \in Nat \ {0}, NEW price \in Nat \ {0}
  PROVE  LET gross      == quantity * price
             commission == CommissionIncrement(row, gross)
         IN /\ gross \in Nat
            /\ commission \in Nat
            /\ NetCashDelta(action, gross, commission) \in Int
            /\ IsBuy(action) => -NetCashDelta(action, gross, commission) \in Nat
<1> DEFINE gross == quantity * price
           commission == CommissionIncrement(row, gross)
<1>1. gross \in Nat
  OBVIOUS
<1>2. commission \in Nat
  BY <1>1, CommissionTypes
<1>3. (gross * TaxPct) \div 100 \in Nat
  BY <1>1, PercentGrows, OmsAssumption
<1> HIDE DEF gross, commission
<1>4. /\ NetCashDelta(action, gross, commission) \in Int
      /\ IsBuy(action) => -NetCashDelta(action, gross, commission) \in Nat
  BY <1>1, <1>2, <1>3 DEF NetCashDelta
<1> QED BY <1>1, <1>2, <1>4 DEF gross, commission

\* What a fill does to the tables.
LEMMA FillWrites ==
  ASSUME LedgerTypeOK, NEW o \in Orders, NEW action \in Actions,
         NEW row \in OrderRowType, NEW seq \in Nat \ {0},
         NEW quantity \in Nat \ {0}, NEW price \in Nat \ {0},
         ApplyFill(o, action, row, seq, quantity, price)
  PROVE  /\ orders'[o] \in OrderRowType
         /\ orders'[o].filled = row.filled + quantity
         /\ orders'[o].count = row.count + 1
         /\ orders'[o].requested = row.requested
         /\ orders'[o].action = row.action
         /\ orders'[o].status = IF row.filled + quantity >= row.requested
                                THEN "filled" ELSE "partially_filled"
         /\ orders'[o].gross = row.gross + quantity * price
         /\ orders'[o].commission = row.commission + CommissionIncrement(row, quantity * price)
         /\ orders' \in [Orders -> OrderRowType]
         /\ \A other \in Orders \ {o} : orders'[other] = orders[other]
         /\ \E delta \in Int :
              fills' = fills \cup {[order |-> o, seq |-> seq, quantity |-> quantity,
                                    delta |-> delta]}
<1> DEFINE gross == quantity * price
           commission == CommissionIncrement(row, gross)
           delta == NetCashDelta(action, gross, commission)
           status == IF row.filled + quantity >= row.requested
                     THEN "filled" ELSE "partially_filled"
           new == FilledRow(row, quantity, gross, commission)
<1>1. gross \in Nat /\ commission \in Nat /\ delta \in Int
  BY FillAmounts
<1>2. orders' = [orders EXCEPT ![o] = new]
  BY DEF ApplyFill, SetRow
<1>3. fills' = fills \cup {[order |-> o, seq |-> seq, quantity |-> quantity, delta |-> delta]}
  BY DEF ApplyFill
<1> HIDE DEF gross, commission, delta
<1>4. /\ new \in OrderRowType
      /\ new.status = status /\ new.filled = row.filled + quantity /\ new.count = row.count + 1
      /\ new.requested = row.requested /\ new.action = row.action
      /\ new.gross = row.gross + gross /\ new.commission = row.commission + commission
  <2>1. /\ status \in OmsStatuses /\ row.filled + quantity \in Nat /\ row.count + 1 \in Nat
        /\ row.gross + gross \in Nat /\ row.commission + commission \in Nat
        /\ row.action \in Actions /\ row.requested \in Nat
    BY <1>1 DEF OrderRowType, OmsStatuses
  <2> QED BY <2>1 DEF FilledRow, OrderRowType
<1> HIDE DEF new
<1>5. orders' \in [Orders -> OrderRowType] /\ orders'[o] = new
      /\ \A other \in Orders \ {o} : orders'[other] = orders[other]
  BY <1>2, <1>4 DEF LedgerTypeOK
<1> QED BY <1>1, <1>3, <1>4, <1>5 DEF gross, commission, delta

\* The same without the money, for the steps that count quantities only.
LEMMA FillEffect ==
  ASSUME LedgerTypeOK, NEW o \in Orders, NEW action \in Actions,
         NEW row \in OrderRowType, NEW seq \in Nat \ {0},
         NEW quantity \in Nat \ {0}, NEW price \in Nat \ {0},
         ApplyFill(o, action, row, seq, quantity, price)
  PROVE  /\ orders' \in [Orders -> OrderRowType]
         /\ orders'[o].filled = row.filled + quantity
         /\ orders'[o].count = row.count + 1
         /\ orders'[o].requested = row.requested
         /\ orders'[o].action = row.action
         /\ orders'[o].status = IF row.filled + quantity >= row.requested
                                THEN "filled" ELSE "partially_filled"
         /\ \A other \in Orders \ {o} : orders'[other] = orders[other]
BY FillWrites

\* What a fill adds to the sums of its row.
LEMMA FillMoney ==
  ASSUME LedgerTypeOK, NEW o \in Orders, NEW action \in Actions,
         NEW row \in OrderRowType, NEW seq \in Nat \ {0},
         NEW quantity \in Nat \ {0}, NEW price \in Nat \ {0},
         ApplyFill(o, action, row, seq, quantity, price)
  PROVE  /\ orders'[o].count = row.count + 1
         /\ orders'[o].gross = row.gross + quantity * price
         /\ orders'[o].commission = row.commission + CommissionIncrement(row, quantity * price)
         /\ \A other \in Orders \ {o} : orders'[other] = orders[other]
<1> DEFINE gross == quantity * price
           commission == CommissionIncrement(row, gross)
           new == FilledRow(row, quantity, gross, commission)
<1>1. orders' = [orders EXCEPT ![o] = new]
  BY DEF ApplyFill, SetRow
<1>2. /\ new.count = row.count + 1
      /\ new.gross = row.gross + gross
      /\ new.commission = row.commission + commission
  BY Zenon DEF FilledRow
<1>3. orders \in [Orders -> OrderRowType]
  BY DEF LedgerTypeOK
<1> HIDE DEF new
<1>4. orders'[o] = new /\ \A other \in Orders \ {o} : orders'[other] = orders[other]
  BY <1>1, <1>3
<1> QED BY <1>2, <1>4, Zenon

\* A refused report changes the status of one row.
LEMMA RefusalEffect ==
  ASSUME LedgerTypeOK, NEW o \in Orders, NEW row \in OrderRowType,
         NEW status \in {"rejected", "partially_filled"},
         SetRow(o, [row EXCEPT !.status = status])
  PROVE  /\ orders' \in [Orders -> OrderRowType]
         /\ orders'[o].status = status
         /\ orders'[o].filled = row.filled
         /\ orders'[o].count = row.count
         /\ orders'[o].requested = row.requested
         /\ orders'[o].action = row.action
         /\ orders'[o].gross = row.gross
         /\ orders'[o].commission = row.commission
         /\ \A other \in Orders \ {o} : orders'[other] = orders[other]
<1> DEFINE new == [row EXCEPT !.status = status]
<1>1. orders' = [orders EXCEPT ![o] = new]
  BY DEF SetRow
<1>2. /\ new \in OrderRowType /\ new.status = status /\ new.filled = row.filled
      /\ new.count = row.count /\ new.requested = row.requested /\ new.action = row.action
      /\ new.gross = row.gross /\ new.commission = row.commission
  BY DEF OrderRowType, OmsStatuses
<1> HIDE DEF new
<1> QED BY <1>1, <1>2 DEF LedgerTypeOK

\* The other actions leave the orders and their fills alone.
LEMMA OtherActions ==
  ASSUME SettleDue \/ (\E s \in Symbols : AccrueFees(s) \/ RecallLocate(s)) \/ NextDay
  PROVE  UNCHANGED <<orders, fills, position, reserved>>
BY DEF SettleDue, Settle, AccrueFees, RecallLocate, NextDay, borrowVars

\* Every action of the ledger is a report of the right types or one of the others.
LEMMA NextCases ==
  ASSUME [OmsNext]_omsVars
  PROVE  \/ \E o \in Orders, seq \in Nat \ {0}, q \in Nat \ {0}, price \in Nat \ {0} :
              /\ ReportTypes(o, ReportedAction(o, Ticket[o].quantity), Ticket[o].quantity,
                             seq, q, price)
              /\ HasPositionSize(o)
              /\ seq <= orders[o].count + 1
              /\ SubmitPartialFill(o, ReportedAction(o, Ticket[o].quantity),
                                   Ticket[o].quantity, seq, q, price)
         \/ SettleDue \/ (\E s \in Symbols : AccrueFees(s) \/ RecallLocate(s)) \/ NextDay
         \/ UNCHANGED omsVars
<1>1. ASSUME NEW o \in Orders, NEW seq \in 1..MaxSeq, NEW q \in Quantities, NEW price \in Prices,
             BrokerReport(o, seq, q, price)
      PROVE  /\ {seq, q, price} \subseteq Nat \ {0}
             /\ ReportTypes(o, ReportedAction(o, Ticket[o].quantity), Ticket[o].quantity,
                            seq, q, price)
             /\ HasPositionSize(o)
             /\ seq <= orders[o].count + 1
             /\ SubmitPartialFill(o, ReportedAction(o, Ticket[o].quantity),
                                  Ticket[o].quantity, seq, q, price)
  <2>1. seq \in Nat \ {0} /\ q \in Nat \ {0} /\ price \in Nat \ {0}
    BY OmsAssumption
  <2>2. ReportedAction(o, Ticket[o].quantity) \in Actions
    BY OmsAssumption DEF ReportedAction, Actions, Sides
  <2> QED BY <1>1, <2>1, <2>2 DEF ReportTypes, BrokerReport
<1> QED BY <1>1 DEF OmsNext

-----------------------------------------------------------------------------
(* Types *)

\* A fill keeps the types of the tables.
LEMMA FillTypes ==
  ASSUME LedgerTypeOK, NEW o \in Orders, NEW action \in Actions,
         NEW row \in OrderRowType, NEW seq \in Nat \ {0},
         NEW quantity \in Nat \ {0}, NEW price \in Nat \ {0},
         ApplyFill(o, action, row, seq, quantity, price)
  PROVE  LedgerTypeOK'
<1> DEFINE s == SymbolOf(o)
           gross == quantity * price
           commission == CommissionIncrement(row, gross)
           delta == NetCashDelta(action, gross, commission)
<1>1. /\ delta \in Int /\ (IsBuy(action) => -delta \in Nat)
  BY FillAmounts
<1>2. s \in Symbols
  BY OmsAssumption DEF SymbolOf
<1>3. orders' \in [Orders -> OrderRowType]
  BY FillEffect
<1>4. fills' = fills \cup {[order |-> o, seq |-> seq, quantity |-> quantity, delta |-> delta]}
  BY DEF ApplyFill
<1>5. /\ position' = [position EXCEPT ![s] = NewPosition(action, position[s], quantity)]
      /\ reserved' = [reserved EXCEPT ![s] = BorrowAfter(action, reserved[s], quantity)]
      /\ action = "buy_to_cover" => quantity <= reserved[s]
      /\ accrued' \in {accrued, [accrued EXCEPT ![s] = today]}
      /\ cash' = cash + delta
      /\ UNCHANGED <<recalled, fees, settled, today>>
  BY DEF ApplyFill
<1>6. \/ pending' = pending
      \/ pending' = pending \cup {[order |-> o, seq |-> seq, due |-> today + SettlementDays,
                                   payable |-> IF IsBuy(action) THEN -delta ELSE 0,
                                   receivable |-> IF IsBuy(action) THEN 0 ELSE delta]}
  BY DEF ApplyFill
<1> HIDE DEF delta, gross, commission, s
<1>7. NewPosition(action, position[s], quantity) \in Int
  <2>1. position[s] \in Int
    BY <1>2 DEF LedgerTypeOK
  <2> QED BY <2>1, HelperFacts DEF NewPosition, Actions
<1>8. BorrowAfter(action, reserved[s], quantity) \in Nat
  <2>1. reserved[s] \in Nat
    BY <1>2 DEF LedgerTypeOK
  <2> QED BY <2>1, <1>5 DEF BorrowAfter, Actions
<1>9. \A f \in fills' : /\ f.order \in Orders
                        /\ {f.seq, f.quantity} \subseteq Nat \ {0}
                        /\ f.delta \in Int
  BY <1>1, <1>4 DEF LedgerTypeOK
<1>10. \A r \in pending' : /\ r.order \in Orders
                           /\ {r.seq, r.due, r.payable} \subseteq Nat
                           /\ r.receivable \in Int
  <2>1. today + SettlementDays \in Nat
    BY OmsAssumption DEF LedgerTypeOK
  <2> QED BY <1>1, <1>6, <2>1 DEF LedgerTypeOK
<1>11. /\ position' \in [Symbols -> Int] /\ reserved' \in [Symbols -> Nat]
       /\ accrued' \in [Symbols -> Nat] /\ recalled' \in [Symbols -> BOOLEAN]
       /\ fees' \in Nat /\ today' \in Nat
  BY <1>5, <1>7, <1>8 DEF LedgerTypeOK
<1>12. cash' \in Int
  BY <1>1, <1>5 DEF LedgerTypeOK
<1> QED BY <1>3, <1>9, <1>10, <1>11, <1>12 DEF LedgerTypeOK

\* So does every fill report.
LEMMA ReportKeepsTypes ==
  ASSUME LedgerTypeOK, RowsOK,
         NEW o, NEW action, NEW requested, NEW seq, NEW q, NEW price,
         ReportTypes(o, action, requested, seq, q, price),
         SubmitPartialFill(o, action, requested, seq, q, price)
  PROVE  LedgerTypeOK'
<1>1. o \in Orders /\ action \in Actions /\ seq \in Nat \ {0} /\ price \in Nat \ {0}
  BY DEF ReportTypes
<1>2. CASE UNCHANGED omsVars
  BY <1>2 DEF omsVars, ledgerVars, borrowVars, LedgerTypeOK
<1>3. ASSUME NEW row \in OrderRowType, NEW status \in {"rejected", "partially_filled"},
             SetRow(o, [row EXCEPT !.status = status]), UNCHANGED ledgerVars
      PROVE  LedgerTypeOK'
  <2>1. orders' \in [Orders -> OrderRowType]
    BY <1>1, <1>3, RefusalEffect
  <2> QED BY <1>3, <2>1 DEF ledgerVars, borrowVars, LedgerTypeOK
<1>4. ASSUME NEW row \in OrderRowType, NEW quantity \in Nat \ {0},
             ApplyFill(o, action, row, seq, quantity, price)
      PROVE  LedgerTypeOK'
  BY <1>1, <1>4, FillTypes
<1> QED BY <1>2, <1>3, <1>4, ReportCases

\* Every action of the ledger keeps the types of the tables.
LEMMA TypesStep ==
  ASSUME LedgerTypeOK, RowsOK, [OmsNext]_omsVars
  PROVE  LedgerTypeOK'
<1>1. CASE SettleDue
  <2>1. pending' \subseteq pending /\ UNCHANGED <<orders, fills, position, borrowVars, today, cash>>
    BY <1>1 DEF SettleDue, Settle
  <2> QED BY <2>1 DEF LedgerTypeOK, borrowVars
<1>2. ASSUME NEW s \in Symbols, AccrueFees(s)
      PROVE  LedgerTypeOK'
  <2>1. PICK fee \in 0..(BorrowFee * reserved[s] * (today - accrued[s])) :
          cash' = cash - fee /\ fees' = fees + fee
    BY <1>2 DEF AccrueFees
  <2>2. fee \in Nat
    OBVIOUS
  <2>3. accrued' = [accrued EXCEPT ![s] = today]
        /\ UNCHANGED <<orders, fills, position, reserved, recalled, settled, pending, today>>
    BY <1>2 DEF AccrueFees
  <2> QED BY <2>1, <2>2, <2>3 DEF LedgerTypeOK
<1>3. ASSUME NEW s \in Symbols, RecallLocate(s)
      PROVE  LedgerTypeOK'
  BY <1>3 DEF RecallLocate, LedgerTypeOK
<1>4. CASE NextDay
  BY <1>4 DEF NextDay, LedgerTypeOK, borrowVars
<1>5. CASE UNCHANGED omsVars
  BY <1>5 DEF omsVars, ledgerVars, borrowVars, LedgerTypeOK
<1>6. ASSUME NEW o \in Orders, NEW seq \in Nat \ {0}, NEW q \in Nat \ {0}, NEW price \in Nat \ {0},
             ReportTypes(o, ReportedAction(o, Ticket[o].quantity), Ticket[o].quantity, seq, q, price),
             SubmitPartialFill(o, ReportedAction(o, Ticket[o].quantity), Ticket[o].quantity,
                               seq, q, price)
      PROVE  LedgerTypeOK'
  BY <1>6, ReportKeepsTypes
<1> QED BY <1>1, <1>2, <1>3, <1>4, <1>5, <1>6, NextCases

-----------------------------------------------------------------------------
(* Order rows *)

\* A fill report keeps every order row within its quantity.
LEMMA ReportKeepsRows ==
  ASSUME LedgerTypeOK, RowsOK,
         NEW o, NEW action, NEW requested, NEW seq, NEW q, NEW price,
         ReportTypes(o, action, requested, seq, q, price),
         SubmitPartialFill(o, action, requested, seq, q, price)
  PROVE  RowsOK'
<1>1. o \in Orders /\ action \in Actions /\ seq \in Nat \ {0} /\ price \in Nat \ {0}
  BY DEF ReportTypes
<1>2. CASE UNCHANGED omsVars
  BY <1>2 DEF omsVars, RowsOK, RowOK, Known
<1>3. ASSUME NEW row \in OrderRowType, NEW status \in {"rejected", "partially_filled"},
             row.requested = Ticket[o].quantity, row.filled < row.requested,
             SetRow(o, [row EXCEPT !.status = status])
      PROVE  RowsOK'
  <2>1. /\ orders'[o].status = status /\ orders'[o].filled = row.filled
        /\ orders'[o].requested = row.requested
        /\ \A other \in Orders \ {o} : orders'[other] = orders[other]
    BY <1>1, <1>3, RefusalEffect
  <2>2. RowOK(o)'
    BY <1>3, <2>1 DEF RowOK, Known, OrderRowType
  <2>3. \A other \in Orders \ {o} : RowOK(other)'
    BY <2>1 DEF RowsOK, RowOK, Known
  <2> QED BY <2>2, <2>3 DEF RowsOK
<1>4. ASSUME NEW row \in OrderRowType, NEW quantity \in Nat \ {0},
             row.requested = Ticket[o].quantity, row.filled + quantity <= row.requested,
             ApplyFill(o, action, row, seq, quantity, price)
      PROVE  RowsOK'
  <2>1. /\ orders'[o].filled = row.filled + quantity
        /\ orders'[o].requested = row.requested
        /\ orders'[o].status = IF row.filled + quantity >= row.requested
                                THEN "filled" ELSE "partially_filled"
        /\ \A other \in Orders \ {o} : orders'[other] = orders[other]
    BY <1>1, <1>4, FillEffect
  <2>2. RowOK(o)'
    BY <1>4, <2>1 DEF RowOK, Known, OrderRowType
  <2>3. \A other \in Orders \ {o} : RowOK(other)'
    BY <2>1 DEF RowsOK, RowOK, Known
  <2> QED BY <2>2, <2>3 DEF RowsOK
<1> QED BY <1>2, <1>3, <1>4, ReportCases

\* So does every action of the ledger.
LEMMA RowsStep ==
  ASSUME LedgerTypeOK, RowsOK, [OmsNext]_omsVars
  PROVE  RowsOK'
<1>1. CASE UNCHANGED orders
  BY <1>1 DEF RowsOK, RowOK, Known
<1> QED BY <1>1, NextCases, OtherActions, ReportKeepsRows DEF omsVars

\* The empty ledger has the types and the rows.
LEMMA InitFacts ==
  ASSUME OmsInit
  PROVE  LedgerTypeOK /\ RowsOK
<1>1. orders \in [Orders -> OrderRowType]
  BY DEF OmsInit, NoOrder, NewRow, OrderRowType, OmsStatuses, Actions
<1>2. LedgerTypeOK
  BY <1>1, OmsAssumption DEF OmsInit, LedgerTypeOK
<1>3. RowsOK
  BY DEF OmsInit, NoOrder, NewRow, RowsOK, RowOK, Known
<1> QED BY <1>2, <1>3

\* The tables of the ledger keep their types, and every order row its quantity.
THEOREM LedgerTypes == OmsSpec => [](LedgerTypeOK /\ RowsOK)
<1>1. OmsInit => LedgerTypeOK /\ RowsOK
  BY InitFacts
<1>2. LedgerTypeOK /\ RowsOK /\ [OmsNext]_omsVars => (LedgerTypeOK /\ RowsOK)'
  BY TypesStep, RowsStep
<1> QED BY <1>1, <1>2, PTL DEF OmsSpec

-----------------------------------------------------------------------------
(* The fills of an order are numbered without a gap *)

NumbersOK ==
  \A o \in Orders :
    /\ {f.seq : f \in FillsOf(o)} = 1..orders[o].count
    /\ IsFiniteSet(FillsOf(o))
    /\ Cardinality(FillsOf(o)) = orders[o].count

\* A fill report keeps the fills of an order numbered without a gap.
LEMMA ReportKeepsNumbers ==
  ASSUME LedgerTypeOK, RowsOK, NumbersOK,
         NEW o, NEW action, NEW requested, NEW seq, NEW q, NEW price,
         ReportTypes(o, action, requested, seq, q, price),
         seq <= orders[o].count + 1,
         SubmitPartialFill(o, action, requested, seq, q, price)
  PROVE  NumbersOK'
<1>1. /\ o \in Orders /\ action \in Actions /\ seq \in Nat \ {0} /\ price \in Nat \ {0}
      /\ orders[o] \in OrderRowType
  BY DEF ReportTypes, LedgerTypeOK
<1>2. CASE UNCHANGED omsVars
  BY <1>2 DEF omsVars, ledgerVars, NumbersOK, FillsOf
<1>3. OrderRow(o, action, requested).count = orders[o].count
  BY <1>1 DEF OrderRow, NewRow, RowsOK, RowOK, NoOrder
<1>4. ASSUME NEW row \in OrderRowType, NEW status \in {"rejected", "partially_filled"},
             row = OrderRow(o, action, requested),
             SetRow(o, [row EXCEPT !.status = status]), UNCHANGED ledgerVars
      PROVE  NumbersOK'
  <2>1. /\ orders'[o].count = orders[o].count
        /\ \A other \in Orders \ {o} : orders'[other] = orders[other]
    BY <1>1, <1>3, <1>4, RefusalEffect
  <2>2. \A other \in Orders : orders'[other].count = orders[other].count
    BY <2>1
  <2>3. \A other \in Orders : FillsOf(other)' = FillsOf(other)
    BY <1>4 DEF FillsOf, ledgerVars
  <2> QED BY <2>2, <2>3 DEF NumbersOK
<1>5. ASSUME NEW row \in OrderRowType, NEW quantity \in Nat \ {0},
             row = OrderRow(o, action, requested),
             Fillable(o, action, requested, seq),
             ApplyFill(o, action, row, seq, quantity, price)
      PROVE  NumbersOK'
  <2>1. PICK delta \in Int : fills' = fills \cup {[order |-> o, seq |-> seq,
                                                   quantity |-> quantity, delta |-> delta]}
    BY <1>1, <1>5, FillWrites
  <2> DEFINE new == [order |-> o, seq |-> seq, quantity |-> quantity, delta |-> delta]
  <2>2. /\ orders'[o].count = orders[o].count + 1
        /\ \A other \in Orders \ {o} : orders'[other] = orders[other]
    BY <1>1, <1>3, <1>5, FillEffect
  <2>3. orders[o].count \in Nat
    BY <1>1 DEF OrderRowType
  <2>4. {f.seq : f \in FillsOf(o)} = 1..orders[o].count
        /\ IsFiniteSet(FillsOf(o)) /\ Cardinality(FillsOf(o)) = orders[o].count
    BY <1>1 DEF NumbersOK
  <2>5. seq \notin 1..orders[o].count
    <3>1. CASE Known(o)
      <4>1. ~\E f \in fills : f.order = o /\ f.seq = seq
        BY <1>5, <3>1 DEF Fillable, HasFill
      <4>2. seq \notin {f.seq : f \in FillsOf(o)}
        BY <4>1 DEF FillsOf
      <4> QED BY <2>4, <4>2
    <3>2. CASE ~Known(o)
      BY <1>1, <3>2 DEF RowsOK, RowOK, NoOrder, NewRow
    <3> QED BY <3>1, <3>2
  <2>6. seq = orders[o].count + 1
    BY <1>1, <2>3, <2>5
  <2>7. new.order = o /\ new.seq = seq
    OBVIOUS
  <2>8. FillsOf(o)' = FillsOf(o) \cup {new} /\ new \notin FillsOf(o)
    <3>1. FillsOf(o)' = FillsOf(o) \cup {new}
      BY <2>1, <2>7 DEF FillsOf
    <3>2. \A f \in FillsOf(o) : f.seq \in 1..orders[o].count
      BY <2>4
    <3> QED BY <2>5, <2>7, <3>1, <3>2
  <2>9. \A other \in Orders \ {o} : FillsOf(other)' = FillsOf(other)
    BY <2>1, <2>7 DEF FillsOf
  <2> HIDE DEF new
  <2>10. {f.seq : f \in FillsOf(o)'} = 1..(orders[o].count + 1)
    <3>1. {f.seq : f \in FillsOf(o)'} = {f.seq : f \in FillsOf(o)} \cup {seq}
      BY <2>7, <2>8
    <3>2. 1..(orders[o].count + 1) = (1..orders[o].count) \cup {orders[o].count + 1}
      BY <2>3
    <3> QED BY <2>4, <2>6, <3>1, <3>2
  <2>11. IsFiniteSet(FillsOf(o)') /\ Cardinality(FillsOf(o)') = orders[o].count + 1
    BY <2>4, <2>8, FS_AddElement
  <2>12. \A other \in Orders :
           /\ {f.seq : f \in FillsOf(other)'} = 1..orders'[other].count
           /\ IsFiniteSet(FillsOf(other)')
           /\ Cardinality(FillsOf(other)') = orders'[other].count
    BY <2>2, <2>9, <2>10, <2>11 DEF NumbersOK
  <2> QED BY <2>12 DEF NumbersOK, FillsOf
<1> QED BY <1>2, <1>4, <1>5, ReportCases

\* So does every action of the ledger.
LEMMA NumbersStep ==
  ASSUME LedgerTypeOK, RowsOK, NumbersOK, [OmsNext]_omsVars
  PROVE  NumbersOK'
<1>1. CASE UNCHANGED <<orders, fills>>
  BY <1>1 DEF NumbersOK, FillsOf
<1> QED BY <1>1, NextCases, OtherActions, ReportKeepsNumbers DEF omsVars, ledgerVars

\* An order without fills has none to number.
LEMMA InitNumbers ==
  ASSUME OmsInit
  PROVE  NumbersOK
<1>1. \A o \in Orders : FillsOf(o) = {} /\ orders[o].count = 0
  BY DEF OmsInit, FillsOf, NoOrder, NewRow
<1> QED BY <1>1, FS_EmptySet DEF NumbersOK

\* Every fill id is used once, the next one is the number of fills plus one, and an
\* order is "filled" exactly when its whole quantity is.
THEOREM NumberedFills == OmsSpec => []FillsAreNumbered
<1>1. OmsInit => NumbersOK
  BY InitNumbers
<1>2. LedgerTypeOK /\ RowsOK /\ NumbersOK /\ [OmsNext]_omsVars => NumbersOK'
  BY NumbersStep
<1>3. LedgerTypeOK /\ RowsOK /\ NumbersOK => FillsAreNumbered
  BY DEF RowsOK, RowOK, NumbersOK, FillsAreNumbered
<1> QED BY <1>1, <1>2, <1>3, LedgerTypes, PTL DEF OmsSpec

-----------------------------------------------------------------------------
(* Short positions are borrowed *)

\* A fill moves the position and the open borrow of its symbol together.
LEMMA FillKeepsBorrow ==
  ASSUME LedgerTypeOK, ShortsAreBorrowed, NEW o \in Orders, NEW action \in Actions,
         NEW row \in OrderRowType, NEW seq \in Nat \ {0},
         NEW quantity \in Nat \ {0}, NEW price \in Nat \ {0},
         action \in {"sell", "reduce"} => position[SymbolOf(o)] > 0,
         action = "buy_to_cover" => position[SymbolOf(o)] < 0,
         ApplyFill(o, action, row, seq, quantity, price)
  PROVE  ShortsAreBorrowed'
<1> DEFINE s == SymbolOf(o)
<1>1. s \in Symbols /\ position[s] \in Int /\ reserved[s] \in Nat
  BY OmsAssumption DEF SymbolOf, LedgerTypeOK
<1>2. /\ position' = [position EXCEPT ![s] = NewPosition(action, position[s], quantity)]
      /\ reserved' = [reserved EXCEPT ![s] = BorrowAfter(action, reserved[s], quantity)]
      /\ action = "buy_to_cover" => quantity <= reserved[s]
      /\ ~WrongSide(o, action)
  BY DEF ApplyFill, Blocked
<1>3. reserved[s] = NonNegative(-position[s])
  BY <1>1 DEF ShortsAreBorrowed
<1>4. /\ action = "short_sell" => position[s] <= 0
      /\ action = "buy" => position[s] >= 0
  BY <1>1, <1>2 DEF WrongSide
<1> HIDE DEF s
<1>5. BorrowAfter(action, reserved[s], quantity)
        = NonNegative(-NewPosition(action, position[s], quantity))
  BY <1>1, <1>2, <1>3, <1>4 DEF s, BorrowAfter, NewPosition, NonNegative, Actions
<1>6. /\ position'[s] = NewPosition(action, position[s], quantity)
      /\ reserved'[s] = BorrowAfter(action, reserved[s], quantity)
      /\ \A t \in Symbols \ {s} : position'[t] = position[t] /\ reserved'[t] = reserved[t]
  BY <1>1, <1>2 DEF LedgerTypeOK
<1> QED BY <1>5, <1>6 DEF ShortsAreBorrowed

\* Every action of the ledger keeps what is short equal to what is borrowed.
LEMMA BorrowStep ==
  ASSUME LedgerTypeOK, RowsOK, ShortsAreBorrowed, [OmsNext]_omsVars
  PROVE  ShortsAreBorrowed'
<1>1. CASE UNCHANGED <<position, reserved>>
  BY <1>1 DEF ShortsAreBorrowed
<1>2. ASSUME NEW o \in Orders, NEW seq \in Nat \ {0}, NEW q \in Nat \ {0}, NEW price \in Nat \ {0},
             ReportTypes(o, ReportedAction(o, Ticket[o].quantity), Ticket[o].quantity, seq, q, price),
             HasPositionSize(o),
             SubmitPartialFill(o, ReportedAction(o, Ticket[o].quantity), Ticket[o].quantity,
                               seq, q, price)
      PROVE  ShortsAreBorrowed'
  <2> DEFINE action == ReportedAction(o, Ticket[o].quantity)
  <2>1. /\ action \in Actions
        /\ action \in {"sell", "reduce"} => position[SymbolOf(o)] > 0
        /\ action = "buy_to_cover" => position[SymbolOf(o)] < 0
    BY <1>2, OmsAssumption DEF ReportTypes, ReportedAction, HasPositionSize, Sides
  <2>2. CASE UNCHANGED omsVars \/ UNCHANGED ledgerVars
    BY <1>1, <2>2 DEF omsVars, ledgerVars, borrowVars
  <2>3. ASSUME NEW row \in OrderRowType, NEW quantity \in Nat \ {0},
               ApplyFill(o, action, row, seq, quantity, price)
        PROVE  ShortsAreBorrowed'
    BY <2>1, <2>3, FillKeepsBorrow
  <2> QED BY <1>2, <2>2, <2>3, ReportCases
<1> QED BY <1>1, <1>2, NextCases, OtherActions DEF omsVars, ledgerVars, borrowVars

\* What is sold short is borrowed share for share, for every sequence of reports.
THEOREM BorrowedShorts == OmsSpec => []ShortsAreBorrowed
<1>1. OmsInit => ShortsAreBorrowed
  BY HelperFacts DEF OmsInit, ShortsAreBorrowed
<1>2. LedgerTypeOK /\ RowsOK /\ ShortsAreBorrowed /\ [OmsNext]_omsVars => ShortsAreBorrowed'
  BY BorrowStep
<1> QED BY <1>1, <1>2, LedgerTypes, PTL DEF OmsSpec

-----------------------------------------------------------------------------
(* The commission of an order *)

\* An order without a fill has paid nothing yet.
UnpaidOK ==
  \A o \in Orders :
    orders[o].count = 0 => orders[o].gross = 0 /\ orders[o].commission = 0

\* The commission of a larger gross amount is not smaller.
LEMMA CommissionGrows ==
  ASSUME NEW g \in Nat, NEW h \in Nat, g <= h
  PROVE  CumulativeCommission(g) <= CumulativeCommission(h)
<1>1. /\ (g * CommissionPct) \div 100 \in Nat /\ (h * CommissionPct) \div 100 \in Nat
      /\ (g * CommissionPct) \div 100 <= (h * CommissionPct) \div 100
  BY PercentGrows, OmsAssumption
<1>2. MinCommission \in Nat
  BY OmsAssumption
<1> QED BY <1>1, <1>2 DEF CumulativeCommission

\* A fill report brings the commission to that of the cumulative amount.
LEMMA ReportKeepsCommission ==
  ASSUME LedgerTypeOK, RowsOK, UnpaidOK, CommissionIgnoresSplits,
         NEW o, NEW action, NEW requested, NEW seq, NEW q, NEW price,
         ReportTypes(o, action, requested, seq, q, price),
         SubmitPartialFill(o, action, requested, seq, q, price)
  PROVE  (UnpaidOK /\ CommissionIgnoresSplits)'
<1> DEFINE Paid(row) == /\ row.count = 0 => row.gross = 0 /\ row.commission = 0
                        /\ row.count > 0 => row.commission = CumulativeCommission(row.gross)
<1>1. /\ o \in Orders /\ action \in Actions /\ seq \in Nat \ {0} /\ price \in Nat \ {0}
      /\ orders[o] \in OrderRowType
  BY DEF ReportTypes, LedgerTypeOK
<1>2. \A other \in Orders : Paid(orders[other])
  BY DEF UnpaidOK, CommissionIgnoresSplits
<1>3. Paid(OrderRow(o, action, requested))
  BY <1>1, <1>2 DEF OrderRow, NewRow
<1>4. ASSUME \A other \in Orders : Paid(orders'[other])
      PROVE  (UnpaidOK /\ CommissionIgnoresSplits)'
  BY <1>4 DEF UnpaidOK, CommissionIgnoresSplits, CumulativeCommission
<1>5. CASE UNCHANGED omsVars
  BY <1>2, <1>4, <1>5 DEF omsVars
<1>6. ASSUME NEW row \in OrderRowType, NEW status \in {"rejected", "partially_filled"},
             row = OrderRow(o, action, requested),
             SetRow(o, [row EXCEPT !.status = status])
      PROVE  \A other \in Orders : Paid(orders'[other])
  <2>1. /\ orders'[o].count = row.count /\ orders'[o].gross = row.gross
        /\ orders'[o].commission = row.commission
        /\ \A other \in Orders \ {o} : orders'[other] = orders[other]
    BY <1>1, <1>6, RefusalEffect
  <2> QED BY <1>2, <1>3, <1>6, <2>1
<1>7. ASSUME NEW row \in OrderRowType, NEW quantity \in Nat \ {0},
             row = OrderRow(o, action, requested),
             ApplyFill(o, action, row, seq, quantity, price)
      PROVE  \A other \in Orders : Paid(orders'[other])
  <2> DEFINE gross == quantity * price
  <2>1. /\ orders'[o].count = row.count + 1 /\ orders'[o].gross = row.gross + gross
        /\ orders'[o].commission = row.commission + CommissionIncrement(row, gross)
        /\ \A other \in Orders \ {o} : orders'[other] = orders[other]
    BY <1>1, <1>7, FillMoney
  <2>2. gross \in Nat
    BY <1>1, ProductType
  <2> HIDE DEF gross
  <2>3. row.count \in Nat /\ row.gross \in Nat /\ row.commission \in Nat
    BY DEF OrderRowType
  <2>4. /\ CumulativeCommission(row.gross) \in Nat
        /\ CumulativeCommission(row.gross + gross) \in Nat
        /\ CumulativeCommission(row.gross) <= CumulativeCommission(row.gross + gross)
    BY <2>2, <2>3, CommissionTypes, CommissionGrows
  <2>5. row.commission <= CumulativeCommission(row.gross + gross)
    BY <1>3, <1>7, <2>3, <2>4
  <2>6. CommissionIncrement(row, gross) = CumulativeCommission(row.gross + gross) - row.commission
    BY <2>3, <2>4, <2>5, HelperFacts DEF CommissionIncrement
  <2>7. orders'[o].commission = CumulativeCommission(orders'[o].gross)
    BY <2>1, <2>3, <2>4, <2>6
  <2> QED BY <1>2, <2>1, <2>3, <2>7
<1> QED BY <1>4, <1>5, <1>6, <1>7, ReportCases

\* Every action of the ledger keeps the commission of an order at that amount.
LEMMA CommissionStep ==
  ASSUME LedgerTypeOK, RowsOK, UnpaidOK, CommissionIgnoresSplits, [OmsNext]_omsVars
  PROVE  (UnpaidOK /\ CommissionIgnoresSplits)'
<1>1. CASE UNCHANGED orders
  BY <1>1 DEF UnpaidOK, CommissionIgnoresSplits, CumulativeCommission
<1> QED BY <1>1, NextCases, OtherActions, ReportKeepsCommission DEF omsVars

\* An order pays the commission of its cumulative amount, however it is split into
\* fills and whatever the prices: the minimum is charged once.
THEOREM SplitsCostNothing == OmsSpec => []CommissionIgnoresSplits
<1>1. OmsInit => UnpaidOK /\ CommissionIgnoresSplits
  BY DEF OmsInit, NoOrder, NewRow, UnpaidOK, CommissionIgnoresSplits
<1>2. LedgerTypeOK /\ RowsOK /\ UnpaidOK /\ CommissionIgnoresSplits /\ [OmsNext]_omsVars
        => (UnpaidOK /\ CommissionIgnoresSplits)'
  BY CommissionStep
<1> QED BY <1>1, <1>2, LedgerTypes, PTL DEF OmsSpec

-----------------------------------------------------------------------------
(* Orders only advance *)

OrdersAdvance ==
  \A o \in Orders :
    /\ orders[o].status \in OmsFinal => orders'[o] = orders[o]
    /\ Known(o) => /\ orders'[o].action = orders[o].action
                   /\ orders'[o].requested = orders[o].requested
    /\ orders'[o].filled >= orders[o].filled

\* A fill report never takes back a fill, a contract or a final status.
LEMMA ReportAdvances ==
  ASSUME LedgerTypeOK, RowsOK,
         NEW o, NEW action, NEW requested, NEW seq, NEW q, NEW price,
         ReportTypes(o, action, requested, seq, q, price),
         SubmitPartialFill(o, action, requested, seq, q, price)
  PROVE  OrdersAdvance
<1>1. /\ o \in Orders /\ action \in Actions /\ seq \in Nat \ {0} /\ price \in Nat \ {0}
      /\ orders \in [Orders -> OrderRowType]
  BY DEF ReportTypes, LedgerTypeOK
<1>2. \A other \in Orders : orders[other].filled \in Nat
  BY <1>1 DEF OrderRowType
<1>3. CASE UNCHANGED omsVars
  BY <1>2, <1>3 DEF omsVars, OrdersAdvance
<1>4. ASSUME NEW row \in OrderRowType, NEW d \in Nat,
             row = OrderRow(o, action, requested),
             row.status \in {"submitted", "partially_filled"},
             orders'[o].filled = row.filled + d,
             orders'[o].requested = row.requested, orders'[o].action = row.action,
             \A other \in Orders \ {o} : orders'[other] = orders[other]
      PROVE  OrdersAdvance
  <2>1. CASE Known(o)
    <3>1. row = orders[o] /\ orders[o].status \notin OmsFinal
      BY <1>4, <2>1 DEF OrderRow, OmsFinal
    <3> QED BY <1>1, <1>2, <1>4, <3>1 DEF OrdersAdvance
  <2>2. CASE ~Known(o)
    <3>1. /\ orders[o].filled = 0 /\ orders[o].status \notin OmsFinal
          /\ row.filled \in Nat
      BY <1>1, <2>2 DEF RowsOK, RowOK, NoOrder, NewRow, OmsFinal, OrderRowType
    <3> QED BY <1>1, <1>2, <1>4, <2>2, <3>1 DEF OrdersAdvance
  <2> QED BY <2>1, <2>2
<1>5. ASSUME NEW row \in OrderRowType, NEW status \in {"rejected", "partially_filled"},
             row = OrderRow(o, action, requested),
             row.status \in {"submitted", "partially_filled"},
             SetRow(o, [row EXCEPT !.status = status])
      PROVE  OrdersAdvance
  <2>1. /\ orders'[o].filled = row.filled
        /\ orders'[o].requested = row.requested /\ orders'[o].action = row.action
        /\ \A other \in Orders \ {o} : orders'[other] = orders[other]
    BY <1>1, <1>5, RefusalEffect
  <2>2. row.filled = row.filled + 0
    BY DEF OrderRowType
  <2> QED BY <1>4, <1>5, <2>1, <2>2
<1>6. ASSUME NEW row \in OrderRowType, NEW quantity \in Nat \ {0},
             row = OrderRow(o, action, requested),
             row.status \in {"submitted", "partially_filled"},
             ApplyFill(o, action, row, seq, quantity, price)
      PROVE  OrdersAdvance
  <2>1. /\ orders'[o].filled = row.filled + quantity
        /\ orders'[o].requested = row.requested /\ orders'[o].action = row.action
        /\ \A other \in Orders \ {o} : orders'[other] = orders[other]
    BY <1>1, <1>6, FillEffect
  <2> QED BY <1>4, <1>6, <2>1
<1> QED BY <1>3, <1>5, <1>6, ReportCases

\* Nor does any action of the ledger.
LEMMA AdvanceStep ==
  ASSUME LedgerTypeOK, RowsOK, [OmsNext]_omsVars
  PROVE  OrdersAdvance
<1>1. CASE UNCHANGED orders
  BY <1>1 DEF OrdersAdvance, LedgerTypeOK, OrderRowType
<1> QED BY <1>1, NextCases, OtherActions, ReportAdvances DEF omsVars

\* A filled or rejected order never changes again, and no report makes an order
\* forget a fill or its contract.
THEOREM AdvancingOrders == OmsSpec => OrdersOnlyAdvance
<1>1. LedgerTypeOK /\ RowsOK /\ [OmsNext]_omsVars => [OrdersAdvance]_omsVars
  BY AdvanceStep
<1>2. OmsSpec => [][OrdersAdvance]_omsVars
  BY <1>1, LedgerTypes, PTL DEF OmsSpec
<1> QED BY <1>2 DEF OrdersOnlyAdvance, OrdersAdvance

-----------------------------------------------------------------------------
(* Sums over rows: Total is a fold, and a fold a recursive function on the  *)
(* subsets of its set.  What it computes is shown for finite sets with      *)
(* minimal counterexamples: the function exists (Partial is its part on the *)
(* small subsets), and its value does not depend on the order of the rows.  *)

\* The row a sum takes first.
First(s) == CHOOSE x \in s : TRUE

\* g sums the subsets of S.
Sums(g, S, field) ==
  g = [s \in SUBSET S |-> IF s = {} THEN 0 ELSE First(s)[field] + g[s \ {First(s)}]]

LEMMA TotalIsSum ==
  ASSUME NEW S, NEW field
  PROVE  Total(S, field) = (CHOOSE g : Sums(g, S, field))[S]
BY DEF Total, MapThenSumSet, MapThenFoldSet, Sums, First

NatOrder == {p \in Nat \X Nat : p[1] < p[2]}

\* A set of numbers has a least one, a set of subsets of a finite set a smallest one.
LEMMA LeastNumber ==
  ASSUME NEW T \in SUBSET Nat, T # {}
  PROVE  \E n \in T : \A m \in T : n <= m
<1>1. IsWellFoundedOn(NatOrder, Nat)
  BY NatLessThanWellFounded DEF NatOrder, OpToRel
<1>2. PICK n \in T : \A m \in T : ~(<<m, n>> \in NatOrder)
  BY <1>1, WFMin
<1>3. ASSUME NEW m \in T PROVE n <= m
  <2>1. ~(m < n)
    BY <1>2 DEF NatOrder
  <2> QED BY <2>1
<1> QED BY <1>3

LEMMA SmallestSubset ==
  ASSUME NEW S, IsFiniteSet(S), NEW T \in SUBSET SUBSET S, T # {}
  PROVE  \E s \in T : \A t \in T : t \subseteq s => t = s
<1> DEFINE sizes == {Cardinality(s) : s \in T}
<1>1. \A s \in T : IsFiniteSet(s) /\ Cardinality(s) \in Nat
  BY FS_Subset, FS_CardinalityType
<1>2. sizes \in SUBSET Nat /\ sizes # {}
  BY <1>1
<1>3. PICK n \in sizes : \A m \in sizes : n <= m
  <2> HIDE DEF sizes
  <2> QED BY <1>2, LeastNumber
<1>4. PICK s \in T : n = Cardinality(s)
  BY <1>3
<1>5. ASSUME NEW t \in T, t \subseteq s, t # s PROVE FALSE
  <2>1. Cardinality(t) < Cardinality(s)
    BY <1>1, <1>5, FS_Subset
  <2>2. Cardinality(s) <= Cardinality(t)
    BY <1>3, <1>4
  <2> QED BY <1>1, <2>1, <2>2
<1> QED BY <1>5

LEMMA FirstIsOne ==
  ASSUME NEW s, s # {}
  PROVE  First(s) \in s
BY DEF First

\* What g is to compute for s.
NextSum(g, s, field) == IF s = {} THEN 0 ELSE First(s)[field] + g[s \ {First(s)}]

Partial(g, S, field, n) ==
  \A s \in SUBSET S : Cardinality(s) <= n => g[s] = NextSum(g, s, field)

LEMMA SumExists ==
  ASSUME NEW S, NEW field, IsFiniteSet(S)
  PROVE  \E g : Sums(g, S, field)
<1> DEFINE Bad == {n \in Nat : ~ \E g : Partial(g, S, field, n)}
<1>1. \A s \in SUBSET S : IsFiniteSet(s) /\ Cardinality(s) \in Nat
  BY FS_Subset, FS_CardinalityType
<1>2. \A s \in SUBSET S : Cardinality(s) <= 0 => s = {}
  BY <1>1, FS_EmptySet
<1>3. Partial([s \in SUBSET S |-> 0], S, field, 0)
  BY <1>2 DEF Partial, NextSum
<1>4. ASSUME NEW n \in Nat, NEW g, Partial(g, S, field, n)
      PROVE  \E h : Partial(h, S, field, n + 1)
  <2> DEFINE h == [s \in SUBSET S |-> NextSum(g, s, field)]
  <2>1. ASSUME NEW s \in SUBSET S, Cardinality(s) <= n + 1 PROVE h[s] = NextSum(h, s, field)
    <3>1. CASE s = {}
      BY <3>1 DEF NextSum
    <3>2. CASE s # {}
      <4> DEFINE t == s \ {First(s)}
      <4>1. First(s) \in s
        BY <3>2, FirstIsOne
      <4>2. t \in SUBSET S /\ Cardinality(t) = Cardinality(s) - 1
        BY <1>1, <4>1, FS_RemoveElement
      <4>3. Cardinality(t) <= n
        BY <1>1, <2>1, <4>2
      <4>4. g[t] = NextSum(g, t, field)
        BY <1>4, <4>2, <4>3 DEF Partial
      <4>5. h[t] = g[t]
        BY <4>2, <4>4
      <4> QED BY <3>2, <4>5 DEF NextSum
    <3> QED BY <3>1, <3>2
  <2>2. Partial(h, S, field, n + 1)
    <3> HIDE DEF h
    <3> QED BY <2>1 DEF Partial
  <2> QED BY <2>2
<1>5. Bad = {}
  <2> SUFFICES ASSUME Bad # {} PROVE FALSE
      OBVIOUS
  <2>1. PICK n \in Bad : \A m \in Bad : n <= m
    BY LeastNumber
  <2>2. n # 0
    BY <1>3
  <2>3. n - 1 \in Nat /\ n - 1 \notin Bad
    BY <2>1, <2>2
  <2>4. PICK g : Partial(g, S, field, n - 1)
    BY <2>3
  <2>5. \E h : Partial(h, S, field, (n - 1) + 1)
    BY <1>4, <2>3, <2>4
  <2>6. (n - 1) + 1 = n
    OBVIOUS
  <2> QED BY <2>5, <2>6
<1>6. Cardinality(S) \in Nat
  BY FS_CardinalityType
<1>7. PICK g : Partial(g, S, field, Cardinality(S))
  BY <1>5, <1>6
<1> DEFINE h == [s \in SUBSET S |-> NextSum(g, s, field)]
<1>8. \A s \in SUBSET S : g[s] = NextSum(g, s, field)
  <2>1. \A s \in SUBSET S : Cardinality(s) <= Cardinality(S)
    BY FS_Subset
  <2> QED BY <1>7, <2>1 DEF Partial
<1>9. \A s \in SUBSET S : s \ {First(s)} \in SUBSET S
  OBVIOUS
<1>10. \A s \in SUBSET S : h[s] = g[s]
  BY <1>8
<1>11. h = [s \in SUBSET S |-> NextSum(h, s, field)]
  <2>1. \A s \in SUBSET S : NextSum(g, s, field) = NextSum(h, s, field)
    <3> HIDE DEF h
    <3> QED BY <1>9, <1>10 DEF NextSum
  <2> QED BY <2>1
<1>12. Sums(h, S, field)
  <2> HIDE DEF h
  <2> QED BY <1>11 DEF Sums, NextSum
<1> QED BY <1>12

SumOn(S, field) == CHOOSE g : Sums(g, S, field)

LEMMA SumEquation ==
  ASSUME NEW S, NEW field, IsFiniteSet(S)
  PROVE  \A s \in SUBSET S : SumOn(S, field)[s] = NextSum(SumOn(S, field), s, field)
<1> DEFINE g == SumOn(S, field)
<1>1. Sums(g, S, field)
  BY SumExists DEF SumOn
<1>2. g = [s \in SUBSET S |-> NextSum(g, s, field)]
  BY <1>1 DEF Sums, NextSum
<1> HIDE DEF g
<1>3. \A s \in SUBSET S : g[s] = NextSum(g, s, field)
  BY <1>2
<1> QED BY <1>3 DEF g

IntegerRows(S, field) == \A x \in S : x[field] \in Int

LEMMA SumTypes ==
  ASSUME NEW S, NEW field, IsFiniteSet(S), IntegerRows(S, field), NEW s \in SUBSET S
  PROVE  SumOn(S, field)[s] \in Int
<1> DEFINE g == SumOn(S, field)
           Bad == {t \in SUBSET S : g[t] \notin Int}
<1>1. \A t \in SUBSET S : g[t] = NextSum(g, t, field)
  BY SumEquation
<1> HIDE DEF g
<1>2. ASSUME Bad # {} PROVE FALSE
  <2>1. PICK t \in Bad : \A u \in Bad : u \subseteq t => u = t
    <3>1. Bad \in SUBSET SUBSET S
      OBVIOUS
    <3> HIDE DEF Bad
    <3> QED BY <1>2, <3>1, SmallestSubset
  <2>2. t # {}
    <3>1. {} \notin Bad
      <4>1. NextSum(g, {}, field) = 0 /\ {} \in SUBSET S
        BY DEF NextSum
      <4>2. g[{}] = 0
        BY <1>1, <4>1
      <4> QED BY <4>2
    <3> QED BY <2>1, <3>1
  <2>3. First(t) \in t
    BY <2>2, FirstIsOne
  <2>4. t \ {First(t)} \in SUBSET S /\ t \ {First(t)} \notin Bad
    BY <2>1, <2>3
  <2>5. g[t] = First(t)[field] + g[t \ {First(t)}]
    BY <1>1, <2>2 DEF NextSum
  <2>6. First(t)[field] \in Int
    BY <2>3 DEF IntegerRows
  <2> QED BY <2>4, <2>5, <2>6
<1> QED BY <1>2 DEF g

\* The sum may take any row first.
LEMMA SumTakesAny ==
  ASSUME NEW S, NEW field, IsFiniteSet(S), IntegerRows(S, field), NEW s \in SUBSET S, NEW x \in s
  PROVE  SumOn(S, field)[s] = x[field] + SumOn(S, field)[s \ {x}]
<1> DEFINE g == SumOn(S, field)
           Bad == {t \in SUBSET S : \E y \in t : g[t] # y[field] + g[t \ {y}]}
<1>1. \A t \in SUBSET S : g[t] = NextSum(g, t, field) /\ g[t] \in Int
  BY SumEquation, SumTypes
<1> HIDE DEF g
<1>2. ASSUME Bad # {} PROVE FALSE
  <2>1. PICK t \in Bad : \A u \in Bad : u \subseteq t => u = t
    <3>1. Bad \in SUBSET SUBSET S
      OBVIOUS
    <3> HIDE DEF Bad
    <3> QED BY <1>2, <3>1, SmallestSubset
  <2>2. PICK y \in t : g[t] # y[field] + g[t \ {y}]
    BY <2>1
  <2> DEFINE c == First(t)
  <2>3. c \in t
    BY <2>2, FirstIsOne
  <2>4. g[t] = c[field] + g[t \ {c}]
    BY <1>1, <2>1, <2>2 DEF NextSum
  <2> HIDE DEF c
  <2>5. c # y
    BY <2>2, <2>4
  <2>6. t \ {c} \in SUBSET S /\ t \ {c} \notin Bad /\ t \ {y} \in SUBSET S /\ t \ {y} \notin Bad
    BY <2>1, <2>2, <2>3
  <2>7. y \in t \ {c} /\ c \in t \ {y}
    BY <2>2, <2>3, <2>5
  <2>8. g[t \ {c}] = y[field] + g[(t \ {c}) \ {y}] /\ g[t \ {y}] = c[field] + g[(t \ {y}) \ {c}]
    BY <2>6, <2>7
  <2>9. (t \ {c}) \ {y} = (t \ {y}) \ {c} /\ (t \ {c}) \ {y} \in SUBSET S
    BY <2>6
  <2>10. c[field] \in Int /\ y[field] \in Int /\ g[(t \ {c}) \ {y}] \in Int
    BY <1>1, <2>2, <2>3, <2>9 DEF IntegerRows
  <2> DEFINE rest == g[(t \ {c}) \ {y}]
  <2>11. g[t] = c[field] + (y[field] + rest) /\ y[field] + g[t \ {y}] = y[field] + (c[field] + rest)
    BY <2>4, <2>8, <2>9
  <2>12. rest \in Int
    BY <2>10
  <2> HIDE DEF rest
  <2>13. c[field] + (y[field] + rest) = y[field] + (c[field] + rest)
    BY <2>10, <2>12
  <2> QED BY <2>2, <2>11, <2>13
<1> QED BY <1>2 DEF g

\* What is summed does not depend on the set around it.
LEMMA SumIsLocal ==
  ASSUME NEW S, NEW field, IsFiniteSet(S), NEW R \in SUBSET S
  PROVE  Total(R, field) = SumOn(S, field)[R]
<1> DEFINE g == SumOn(S, field)
           h == SumOn(R, field)
           Bad == {t \in SUBSET R : g[t] # h[t]}
<1>1. IsFiniteSet(R)
  BY FS_Subset
<1>2. \A t \in SUBSET R : g[t] = NextSum(g, t, field) /\ h[t] = NextSum(h, t, field)
  BY <1>1, SumEquation
<1>3. Total(R, field) = h[R]
  BY TotalIsSum DEF SumOn
<1> HIDE DEF g, h
<1>4. ASSUME Bad # {} PROVE FALSE
  <2>1. PICK t \in Bad : \A u \in Bad : u \subseteq t => u = t
    <3>1. Bad \in SUBSET SUBSET R
      OBVIOUS
    <3> HIDE DEF Bad
    <3> QED BY <1>1, <1>4, <3>1, SmallestSubset
  <2>2. t # {}
    BY <1>2, <2>1 DEF NextSum
  <2>3. First(t) \in t
    BY <2>2, FirstIsOne
  <2>4. g[t \ {First(t)}] = h[t \ {First(t)}]
    BY <2>1, <2>3
  <2> QED BY <1>2, <2>1, <2>2, <2>4 DEF NextSum
<1> QED BY <1>3, <1>4 DEF g

-----------------------------------------------------------------------------
(* What the model needs of Total *)

LEMMA TotalOfNone ==
  ASSUME NEW field
  PROVE  Total({}, field) = 0
<1>1. IsFiniteSet({}) /\ {} \in SUBSET {}
  BY FS_EmptySet
<1>2. Total({}, field) = SumOn({}, field)[{}]
  BY <1>1, SumIsLocal
<1> QED BY <1>1, <1>2, SumEquation DEF NextSum

LEMMA TotalTypes ==
  ASSUME NEW S, NEW field, IsFiniteSet(S), IntegerRows(S, field)
  PROVE  Total(S, field) \in Int
BY SumIsLocal, SumTypes

\* One row more.
LEMMA TotalWithOne ==
  ASSUME NEW S, NEW field, NEW x, IsFiniteSet(S), x \notin S, IntegerRows(S \cup {x}, field)
  PROVE  Total(S \cup {x}, field) = Total(S, field) + x[field]
<1> DEFINE T == S \cup {x}
<1>1. IsFiniteSet(T)
  BY FS_AddElement
<1>2. S \in SUBSET T /\ T \in SUBSET T /\ x \in T /\ T \ {x} = S
  OBVIOUS
<1>3. IntegerRows(T, field)
  OBVIOUS
<1> HIDE DEF T
<1>4. Total(T, field) = SumOn(T, field)[T] /\ Total(S, field) = SumOn(T, field)[S]
  BY <1>1, <1>2, SumIsLocal
<1>5. SumOn(T, field)[T] = x[field] + SumOn(T, field)[S]
  BY <1>1, <1>2, <1>3, SumTakesAny
<1>6. x[field] \in Int /\ SumOn(T, field)[S] \in Int
  BY <1>1, <1>2, <1>3, SumTypes DEF IntegerRows
<1>7. Total(T, field) = Total(S, field) + x[field]
  BY <1>4, <1>5, <1>6
<1> QED BY <1>7 DEF T

\* The rows of a set and the others.
LEMMA TotalSplits ==
  ASSUME NEW S, NEW field, IsFiniteSet(S), IntegerRows(S, field), NEW R \in SUBSET S
  PROVE  Total(S, field) = Total(R, field) + Total(S \ R, field)
<1> DEFINE Bad == {t \in SUBSET S : Total(S, field) # Total(t, field) + Total(S \ t, field)}
<1>1. ASSUME NEW t \in SUBSET S PROVE IsFiniteSet(t) /\ IntegerRows(t, field) /\ Total(t, field) \in Int
  <2>1. IsFiniteSet(t) /\ IntegerRows(t, field)
    BY FS_Subset DEF IntegerRows
  <2> QED BY <2>1, TotalTypes
<1>2. ASSUME Bad # {} PROVE FALSE
  <2>1. PICK t \in Bad : \A u \in Bad : u \subseteq t => u = t
    <3>1. Bad \in SUBSET SUBSET S
      OBVIOUS
    <3> HIDE DEF Bad
    <3> QED BY <1>2, <3>1, SmallestSubset
  <2>2. t # {}
    <3>1. S \ {} = S /\ Total({}, field) = 0 /\ Total(S, field) \in Int
      BY <1>1, TotalOfNone
    <3>2. {} \notin Bad
      BY <3>1
    <3> QED BY <2>1, <3>2
  <2>3. PICK x \in t : TRUE
    BY <2>2
  <2> DEFINE u == t \ {x}
             rest == S \ t
  <2>4. /\ u \in SUBSET S /\ rest \in SUBSET S /\ x \notin u /\ x \notin rest /\ x \in S
        /\ u \cup {x} = t /\ S \ u = rest \cup {x} /\ t \in SUBSET S /\ u # t /\ u \subseteq t
    OBVIOUS
  <2>5. u \notin Bad
    BY <2>1, <2>4
  <2> HIDE DEF u, rest
  <2>6. Total(S, field) = Total(u, field) + Total(rest \cup {x}, field)
    BY <2>4, <2>5
  <2>7. /\ IsFiniteSet(u) /\ IsFiniteSet(rest)
        /\ Total(u, field) \in Int /\ Total(rest, field) \in Int
        /\ IntegerRows(u \cup {x}, field) /\ IntegerRows(rest \cup {x}, field) /\ x[field] \in Int
    BY <1>1, <2>4 DEF IntegerRows
  <2>8. Total(t, field) = Total(u, field) + x[field]
    <3>1. Total(u \cup {x}, field) = Total(u, field) + x[field]
      BY <2>4, <2>7, TotalWithOne
    <3>2. u \cup {x} = t
      BY <2>4
    <3> QED BY <3>1, <3>2
  <2>9. Total(rest \cup {x}, field) = Total(rest, field) + x[field]
    BY <2>4, <2>7, TotalWithOne
  <2>10. Total(S, field) = Total(t, field) + Total(rest, field)
    BY <2>6, <2>7, <2>8, <2>9
  <2> QED BY <2>1, <2>10 DEF rest
<1> QED BY <1>2

\* A sum of natural numbers is one.
LEMMA TotalOfNaturals ==
  ASSUME NEW S, NEW field, IsFiniteSet(S), \A x \in S : x[field] \in Nat
  PROVE  Total(S, field) \in Nat
<1> DEFINE Bad == {t \in SUBSET S : Total(t, field) \notin Nat}
<1>1. ASSUME Bad # {} PROVE FALSE
  <2>1. PICK t \in Bad : \A u \in Bad : u \subseteq t => u = t
    <3>1. Bad \in SUBSET SUBSET S
      OBVIOUS
    <3> HIDE DEF Bad
    <3> QED BY <1>1, <3>1, SmallestSubset
  <2>2. t # {}
    <3>1. {} \notin Bad
      BY TotalOfNone
    <3> QED BY <2>1, <3>1
  <2>3. PICK x \in t : TRUE
    BY <2>2
  <2> DEFINE u == t \ {x}
  <2>4. u \in SUBSET S /\ u \notin Bad /\ x \notin u /\ u \cup {x} = t /\ x \in S
    BY <2>1
  <2>5. IsFiniteSet(u) /\ IntegerRows(u \cup {x}, field)
    BY <2>4, FS_Subset DEF IntegerRows
  <2>6. Total(u, field) \in Nat /\ x[field] \in Nat
    BY <2>4
  <2> HIDE DEF u
  <2>7. Total(t, field) = Total(u, field) + x[field]
    BY <2>4, <2>5, TotalWithOne
  <2> QED BY <2>1, <2>6, <2>7
<1> QED BY <1>1

-----------------------------------------------------------------------------
(* The money of the ledger *)

\* The sums over the rows, and what makes them meaningful: the tables are finite
\* and a row that is still to settle belongs to a fill.
MoneyOK ==
  /\ IsFiniteSet(fills) /\ IsFiniteSet(pending)
  /\ settled \in Int
  /\ \A r \in pending : HasFill(r.order, r.seq)
  /\ FillsMatchOrders
  /\ CashIsSettledPlusPending

\* The report that passes the first checks has a fill id of its own.
LEMMA NewFillId ==
  ASSUME RowsOK, NumbersOK, NEW o \in Orders, NEW action, NEW requested, NEW seq,
         Fillable(o, action, requested, seq)
  PROVE  ~HasFill(o, seq)
<1>1. CASE Known(o)
  BY <1>1 DEF Fillable
<1>2. CASE ~Known(o)
  <2>1. orders[o].count = 0 /\ {f.seq : f \in FillsOf(o)} = 1..orders[o].count
    BY <1>2 DEF RowsOK, RowOK, NoOrder, NewRow, NumbersOK
  <2>2. {f.seq : f \in FillsOf(o)} = {}
    BY <2>1
  <2> QED BY <2>2 DEF HasFill, FillsOf
<1> QED BY <1>1, <1>2

\* The amounts of the tables are numbers.
LEMMA LedgerNumbers ==
  ASSUME LedgerTypeOK
  PROVE  /\ IntegerRows(fills, "delta") /\ IntegerRows(fills, "quantity")
         /\ IntegerRows(pending, "payable") /\ IntegerRows(pending, "receivable")
BY DEF LedgerTypeOK, IntegerRows

\* A fill adds its quantity to the fills of its order ...
LEMMA FillKeepsQuantities ==
  ASSUME LedgerTypeOK, NumbersOK, FillsMatchOrders, NEW o \in Orders, NEW seq,
         NEW quantity \in Nat, NEW delta, ~HasFill(o, seq),
         fills' = fills \cup {[order |-> o, seq |-> seq, quantity |-> quantity, delta |-> delta]},
         orders'[o].filled = orders[o].filled + quantity,
         \A other \in Orders \ {o} : orders'[other] = orders[other]
  PROVE  FillsMatchOrders'
<1> DEFINE new == [order |-> o, seq |-> seq, quantity |-> quantity, delta |-> delta]
<1>1. new.order = o /\ new.seq = seq /\ new.quantity = quantity
  OBVIOUS
<1>2. new \notin FillsOf(o)
  BY <1>1 DEF HasFill, FillsOf
<1>3. FillsOf(o)' = FillsOf(o) \cup {new}
  BY <1>1 DEF FillsOf
<1>4. \A other \in Orders \ {o} : FillsOf(other)' = FillsOf(other)
  BY <1>1 DEF FillsOf
<1> HIDE DEF new
<1>5. IsFiniteSet(FillsOf(o)) /\ IntegerRows(FillsOf(o) \cup {new}, "quantity")
  BY <1>1, LedgerNumbers DEF NumbersOK, IntegerRows, FillsOf
<1>6. Total(FillsOf(o) \cup {new}, "quantity") = Total(FillsOf(o), "quantity") + new["quantity"]
  BY <1>2, <1>5, TotalWithOne
<1>7. Total(FillsOf(o)', "quantity") = orders'[o].filled
  BY <1>1, <1>3, <1>6 DEF FillsMatchOrders
<1>8. \A other \in Orders \ {o} : Total(FillsOf(other)', "quantity") = orders'[other].filled
  BY <1>4 DEF FillsMatchOrders
<1>9. \A x \in Orders : orders'[x].filled = Total(FillsOf(x)', "quantity")
  BY <1>7, <1>8
<1> QED BY <1>9 DEF FillsMatchOrders, FillsOf

\* ... and its delta to the cash and to one view of it.
LEMMA FillKeepsCash ==
  ASSUME LedgerTypeOK, MoneyOK, NEW o \in Orders, NEW seq, NEW quantity,
         NEW delta \in Int, NEW due, NEW buys \in BOOLEAN, ~HasFill(o, seq),
         fills' = fills \cup {[order |-> o, seq |-> seq, quantity |-> quantity, delta |-> delta]},
         cash' = cash + delta,
         pending' = IF ~SettlementEnforced THEN pending
                    ELSE pending \cup {[order |-> o, seq |-> seq, due |-> due,
                                        payable |-> IF buys THEN -delta ELSE 0,
                                        receivable |-> IF buys THEN 0 ELSE delta]},
         UNCHANGED <<fees, settled>>
  PROVE  /\ CashIsSettledPlusPending'
         /\ IsFiniteSet(fills)' /\ IsFiniteSet(pending)'
         /\ (\A r \in pending : HasFill(r.order, r.seq))'
         /\ SettlementEnforced =>
              /\ Total(pending', "payable")
                   = Total(pending, "payable") + (IF buys THEN -delta ELSE 0)
              /\ Total(pending', "receivable")
                   = Total(pending, "receivable") + (IF buys THEN 0 ELSE delta)
<1> DEFINE new == [order |-> o, seq |-> seq, quantity |-> quantity, delta |-> delta]
           row == [order |-> o, seq |-> seq, due |-> due,
                   payable |-> IF buys THEN -delta ELSE 0,
                   receivable |-> IF buys THEN 0 ELSE delta]
           owed == IF buys THEN -delta ELSE 0
           earned == IF buys THEN 0 ELSE delta
<1>1. /\ new.order = o /\ new.seq = seq /\ new.delta = delta
      /\ row.order = o /\ row.seq = seq /\ row.payable = owed /\ row.receivable = earned
      /\ owed \in Int /\ earned \in Int /\ earned - owed = delta
  OBVIOUS
<1>2. new \notin fills /\ row \notin pending
  BY <1>1 DEF HasFill, MoneyOK
<1>3. fills' = fills \cup {new} /\ pending' = IF SettlementEnforced THEN pending \cup {row} ELSE pending
  OBVIOUS
<1>4. /\ IntegerRows(fills \cup {new}, "delta")
      /\ IntegerRows(pending \cup {row}, "payable")
      /\ IntegerRows(pending \cup {row}, "receivable")
  BY <1>1, LedgerNumbers DEF IntegerRows
<1>5. new["delta"] = delta /\ row["payable"] = owed /\ row["receivable"] = earned
  BY <1>1
<1> HIDE DEF new, row, owed, earned
<1>6. IsFiniteSet(fills) /\ IsFiniteSet(pending)
  BY DEF MoneyOK
<1>7. /\ Total(fills \cup {new}, "delta") = Total(fills, "delta") + delta
      /\ Total(pending \cup {row}, "payable") = Total(pending, "payable") + owed
      /\ Total(pending \cup {row}, "receivable") = Total(pending, "receivable") + earned
  BY <1>2, <1>4, <1>5, <1>6, TotalWithOne
<1>8. /\ Total(fills, "delta") \in Int
      /\ Total(pending, "payable") \in Int /\ Total(pending, "receivable") \in Int
  BY <1>6, LedgerNumbers, TotalTypes
<1>9. cash \in Int /\ fees \in Nat /\ settled \in Int /\ InitialCash \in Nat
  BY OmsAssumption DEF LedgerTypeOK, MoneyOK
<1>10. SettlementEnforced =>
         /\ Total(pending', "payable") = Total(pending, "payable") + owed
         /\ Total(pending', "receivable") = Total(pending, "receivable") + earned
  BY <1>3, <1>7
<1>11. Total(fills', "delta") = Total(fills, "delta") + delta
  BY <1>3, <1>7
<1>12. cash' = InitialCash + Total(fills', "delta") - fees'
  BY <1>8, <1>9, <1>11 DEF MoneyOK, CashIsSettledPlusPending
<1>13. SettlementEnforced =>
         cash' + fees' = settled' + Total(pending', "receivable") - Total(pending', "payable")
  BY <1>1, <1>8, <1>9, <1>10 DEF MoneyOK, CashIsSettledPlusPending
<1>14. CashIsSettledPlusPending'
  BY <1>12, <1>13 DEF CashIsSettledPlusPending
<1>15. IsFiniteSet(fills') /\ IsFiniteSet(pending')
  <2>1. IsFiniteSet(fills \cup {new}) /\ IsFiniteSet(pending \cup {row})
    BY <1>6, FS_AddElement
  <2> QED BY <1>3, <1>6, <2>1
<1>16. \A r \in pending' : \E f \in fills' : f.order = r.order /\ f.seq = r.seq
  BY <1>1, <1>3 DEF MoneyOK, HasFill
<1> QED BY <1>10, <1>14, <1>15, <1>16 DEF HasFill, owed, earned

\* A fill report keeps the sums of the ledger.
LEMMA ReportKeepsMoney ==
  ASSUME LedgerTypeOK, RowsOK, NumbersOK, MoneyOK,
         NEW o, NEW action, NEW requested, NEW seq, NEW q, NEW price,
         ReportTypes(o, action, requested, seq, q, price),
         SubmitPartialFill(o, action, requested, seq, q, price)
  PROVE  MoneyOK'
<1>1. /\ o \in Orders /\ action \in Actions /\ seq \in Nat \ {0} /\ price \in Nat \ {0}
  BY DEF ReportTypes
<1>2. CASE UNCHANGED omsVars
  BY <1>2 DEF omsVars, ledgerVars, borrowVars, MoneyOK, HasFill, FillsMatchOrders, FillsOf,
              CashIsSettledPlusPending
<1>3. OrderRow(o, action, requested).filled = orders[o].filled
  BY <1>1 DEF OrderRow, NewRow, RowsOK, RowOK, NoOrder
<1>4. ASSUME NEW row \in OrderRowType, NEW status \in {"rejected", "partially_filled"},
             row = OrderRow(o, action, requested),
             SetRow(o, [row EXCEPT !.status = status]), UNCHANGED ledgerVars
      PROVE  MoneyOK'
  <2>1. /\ orders'[o].filled = orders[o].filled
        /\ \A other \in Orders \ {o} : orders'[other] = orders[other]
    BY <1>1, <1>3, <1>4, RefusalEffect
  <2>2. \A x \in Orders : orders'[x].filled = orders[x].filled
    BY <2>1
  <2> QED BY <1>4, <2>2 DEF ledgerVars, borrowVars, MoneyOK, HasFill, FillsMatchOrders, FillsOf,
                            CashIsSettledPlusPending
<1>5. ASSUME NEW row \in OrderRowType, NEW quantity \in Nat \ {0},
             row = OrderRow(o, action, requested),
             Fillable(o, action, requested, seq),
             ApplyFill(o, action, row, seq, quantity, price)
      PROVE  MoneyOK'
  <2> DEFINE gross == quantity * price
             delta == NetCashDelta(action, gross, CommissionIncrement(row, gross))
             buys == IsBuy(action)
  <2>1. delta \in Int
    BY <1>1, FillAmounts
  <2>2. buys \in BOOLEAN
    BY DEF IsBuy
  <2>3. ~HasFill(o, seq)
    BY <1>1, <1>5, NewFillId
  <2>4. /\ fills' = fills \cup {[order |-> o, seq |-> seq, quantity |-> quantity, delta |-> delta]}
        /\ cash' = cash + delta
        /\ pending' = IF ~SettlementEnforced THEN pending
                      ELSE pending \cup {[order |-> o, seq |-> seq, due |-> today + SettlementDays,
                                          payable |-> IF buys THEN -delta ELSE 0,
                                          receivable |-> IF buys THEN 0 ELSE delta]}
        /\ UNCHANGED <<fees, settled>>
    BY <1>5 DEF ApplyFill
  <2>5. /\ orders'[o].filled = orders[o].filled + quantity
        /\ \A other \in Orders \ {o} : orders'[other] = orders[other]
    BY <1>1, <1>3, <1>5, FillEffect
  <2> HIDE DEF delta, buys
  <2>6. FillsMatchOrders'
    BY <1>1, <2>3, <2>4, <2>5, FillKeepsQuantities DEF MoneyOK
  <2>7. /\ CashIsSettledPlusPending'
        /\ IsFiniteSet(fills)' /\ IsFiniteSet(pending)'
        /\ (\A r \in pending : HasFill(r.order, r.seq))'
    BY <1>1, <2>1, <2>2, <2>3, <2>4, FillKeepsCash
  <2>8. settled' \in Int
    BY <2>4 DEF MoneyOK
  <2> QED BY <2>6, <2>7, <2>8 DEF MoneyOK
<1> QED BY <1>2, <1>4, <1>5, ReportCases

\* A batch of rows leaves the pending rows and enters the settled balance.
LEMMA SettleAmounts ==
  ASSUME LedgerTypeOK, MoneyOK, NEW rows \in SUBSET pending, Settle(rows)
  PROVE  /\ settled' = settled + Total(rows, "receivable") - Total(rows, "payable")
         /\ pending' = pending \ rows
         /\ Total(pending, "payable") = Total(rows, "payable") + Total(pending', "payable")
         /\ Total(pending, "receivable")
              = Total(rows, "receivable") + Total(pending', "receivable")
         /\ {Total(rows, "payable"), Total(rows, "receivable"),
             Total(pending', "payable"), Total(pending', "receivable")} \subseteq Int
<1> DEFINE rest == pending \ rows
<1>1. settled' = settled + Total(rows, "receivable") - Total(rows, "payable")
      /\ pending' = rest
  BY DEF Settle
<1>2. IsFiniteSet(pending) /\ IntegerRows(pending, "payable") /\ IntegerRows(pending, "receivable")
  BY LedgerNumbers DEF MoneyOK
<1>3. /\ Total(pending, "payable") = Total(rows, "payable") + Total(rest, "payable")
      /\ Total(pending, "receivable") = Total(rows, "receivable") + Total(rest, "receivable")
  BY <1>2, TotalSplits
<1>4. IsFiniteSet(rows) /\ IsFiniteSet(rest)
  BY <1>2, FS_Subset
<1>5. /\ IntegerRows(rows, "payable") /\ IntegerRows(rest, "payable")
      /\ IntegerRows(rows, "receivable") /\ IntegerRows(rest, "receivable")
  BY <1>2 DEF IntegerRows
<1>6. {Total(rows, "payable"), Total(rows, "receivable"),
       Total(rest, "payable"), Total(rest, "receivable")} \subseteq Int
  BY <1>4, <1>5, TotalTypes
<1> HIDE DEF rest
<1> QED BY <1>1, <1>3, <1>6 DEF rest

\* Every action of the ledger keeps its sums.
LEMMA MoneyStep ==
  ASSUME LedgerTypeOK, RowsOK, NumbersOK, MoneyOK, [OmsNext]_omsVars
  PROVE  MoneyOK'
<1>1. CASE SettleDue
  <2>1. DueRows \in SUBSET pending
    BY DEF DueRows
  <2>2. Settle(DueRows) /\ UNCHANGED <<orders, fills, cash, fees>>
    BY <1>1 DEF SettleDue, Settle, borrowVars
  <2>3. /\ settled' = settled + Total(DueRows, "receivable") - Total(DueRows, "payable")
        /\ pending' = pending \ DueRows
        /\ Total(pending, "payable") = Total(DueRows, "payable") + Total(pending', "payable")
        /\ Total(pending, "receivable")
             = Total(DueRows, "receivable") + Total(pending', "receivable")
        /\ {Total(DueRows, "payable"), Total(DueRows, "receivable"),
            Total(pending', "payable"), Total(pending', "receivable")} \subseteq Int
    BY <2>1, <2>2, SettleAmounts
  <2>4. settled \in Int /\ cash \in Int /\ fees \in Nat
    BY DEF MoneyOK, LedgerTypeOK
  <2>5. settled' \in Int
    BY <2>3, <2>4
  <2>6. SettlementEnforced =>
          cash' + fees' = settled' + Total(pending', "receivable") - Total(pending', "payable")
    <3>1. SettlementEnforced =>
            cash + fees = settled + Total(pending, "receivable") - Total(pending, "payable")
      BY DEF MoneyOK, CashIsSettledPlusPending
    <3> QED BY <2>2, <2>3, <2>4, <3>1
  <2>7. cash' = InitialCash + Total(fills', "delta") - fees'
    BY <2>2 DEF MoneyOK, CashIsSettledPlusPending
  <2>8. CashIsSettledPlusPending'
    BY <2>6, <2>7 DEF CashIsSettledPlusPending
  <2>9. IsFiniteSet(pending') /\ IsFiniteSet(fills')
    BY <2>2, <2>3, FS_Subset DEF MoneyOK
  <2>10. FillsMatchOrders'
    BY <2>2 DEF MoneyOK, FillsMatchOrders, FillsOf
  <2>11. \A r \in pending' : \E f \in fills' : f.order = r.order /\ f.seq = r.seq
    BY <2>2, <2>3 DEF MoneyOK, HasFill
  <2> QED BY <2>5, <2>8, <2>9, <2>10, <2>11 DEF MoneyOK, HasFill
<1>2. ASSUME NEW s \in Symbols, AccrueFees(s)
      PROVE  MoneyOK'
  <2>1. PICK fee \in 0..(BorrowFee * reserved[s] * (today - accrued[s])) :
          cash' = cash - fee /\ fees' = fees + fee
    BY <1>2 DEF AccrueFees
  <2>2. fee \in Nat
    OBVIOUS
  <2>3. UNCHANGED <<orders, fills, settled, pending>>
    BY <1>2 DEF AccrueFees
  <2>4. /\ cash \in Int /\ fees \in Nat /\ InitialCash \in Nat
        /\ Total(fills, "delta") \in Int
    BY OmsAssumption, LedgerNumbers, TotalTypes DEF LedgerTypeOK, MoneyOK
  <2>5. CashIsSettledPlusPending'
    <3>1. cash' = InitialCash + Total(fills', "delta") - fees' /\ cash' + fees' = cash + fees
      BY <2>1, <2>2, <2>3, <2>4 DEF MoneyOK, CashIsSettledPlusPending
    <3> QED BY <2>3, <3>1 DEF MoneyOK, CashIsSettledPlusPending
  <2> QED BY <2>3, <2>5 DEF MoneyOK, HasFill, FillsMatchOrders, FillsOf
<1>3. ASSUME UNCHANGED <<orders, fills, cash, fees, settled, pending>>
      PROVE  MoneyOK'
  BY <1>3 DEF MoneyOK, HasFill, FillsMatchOrders, FillsOf, CashIsSettledPlusPending
<1>4. CASE NextDay \/ (\E s \in Symbols : RecallLocate(s)) \/ UNCHANGED omsVars
  BY <1>3, <1>4 DEF NextDay, RecallLocate, omsVars, ledgerVars, borrowVars
<1> QED BY <1>1, <1>2, <1>4, NextCases, ReportKeepsMoney

\* The empty ledger has nothing to sum.
LEMMA InitMoney ==
  ASSUME OmsInit
  PROVE  MoneyOK
<1>1. /\ fills = {} /\ pending = {} /\ cash = InitialCash /\ settled = InitialCash /\ fees = 0
      /\ InitialCash \in Nat
  BY OmsAssumption DEF OmsInit
<1>2. \A o \in Orders : FillsOf(o) = {} /\ orders[o].filled = 0
  BY DEF OmsInit, FillsOf, NoOrder, NewRow
<1>3. FillsMatchOrders
  BY <1>2, TotalOfNone DEF FillsMatchOrders
<1>4. CashIsSettledPlusPending
  <2>1. Total(fills, "delta") = 0 /\ Total(pending, "receivable") = 0 /\ Total(pending, "payable") = 0
    BY <1>1, TotalOfNone
  <2> QED BY <1>1, <2>1 DEF CashIsSettledPlusPending
<1> QED BY <1>1, <1>3, <1>4, FS_EmptySet DEF MoneyOK

\* The sums of the ledger are right in every reachable state.
LEMMA MoneyAlways == OmsSpec => []MoneyOK
<1>1. OmsInit => LedgerTypeOK /\ RowsOK /\ NumbersOK /\ MoneyOK
  BY InitFacts, InitNumbers, InitMoney
<1>2. LedgerTypeOK /\ RowsOK /\ NumbersOK /\ MoneyOK /\ [OmsNext]_omsVars
        => (LedgerTypeOK /\ RowsOK /\ NumbersOK /\ MoneyOK)'
  BY TypesStep, RowsStep, NumbersStep, MoneyStep
<1> QED BY <1>1, <1>2, PTL DEF OmsSpec

\* Every variable of the ledger has its type, the settled balance included, which
\* takes up a sum of rows.
THEOREM OmsTypes == OmsSpec => []TypeOK
<1>1. LedgerTypeOK /\ MoneyOK => TypeOK
  BY DEF MoneyOK, TypeOK
<1> QED BY <1>1, LedgerTypes, MoneyAlways, PTL

\* An order has filled exactly what its fill rows say, for every sequence of new,
\* repeated and refused reports.
THEOREM FillsAddUp == OmsSpec => []FillsMatchOrders
<1>1. MoneyOK => FillsMatchOrders
  BY DEF MoneyOK
<1> QED BY <1>1, MoneyAlways, PTL

\* Cash is booked once: the economic balance is the initial cash with the deltas of
\* the fills, and differs from the settled view by what is pending and the fees.
THEOREM CashBookedOnce == OmsSpec => []CashIsSettledPlusPending
<1>1. MoneyOK => CashIsSettledPlusPending
  BY DEF MoneyOK
<1> QED BY <1>1, MoneyAlways, PTL

-----------------------------------------------------------------------------
(* What may be spent *)

\* No sale costs more than it brings: its commission and tax stay within its price.
SalesEarn == \A f \in fills : ~IsBuy(orders[f.order].action) => f.delta >= 0

EarningsOK == \A r \in pending : r.receivable >= 0

\* A purchase spends no more than the cash of either view, and a sale that earns
\* takes nothing away.
LEMMA FillSpends ==
  ASSUME LedgerTypeOK, MoneyOK, SalesEarn', NEW o \in Orders, NEW action \in Actions,
         NEW row \in OrderRowType, NEW seq \in Nat \ {0},
         NEW quantity \in Nat \ {0}, NEW price \in Nat \ {0},
         row.action = action,
         ApplyFill(o, action, row, seq, quantity, price)
  PROVE  LET delta == NetCashDelta(action, quantity * price,
                                   CommissionIncrement(row, quantity * price))
         IN /\ delta \in Int
            /\ IsBuy(action) => /\ -delta \in Nat
                                /\ -delta <= cash
                                /\ -delta <= settled - Total(pending, "payable")
            /\ ~IsBuy(action) => delta \in Nat
<1> DEFINE gross == quantity * price
           commission == CommissionIncrement(row, gross)
           delta == NetCashDelta(action, gross, commission)
<1>1. gross \in Nat /\ commission \in Nat /\ delta \in Int /\ (IsBuy(action) => -delta \in Nat)
  BY FillAmounts
<1>2. /\ fills' = fills \cup {[order |-> o, seq |-> seq, quantity |-> quantity, delta |-> delta]}
      /\ ~Blocked(o, action, row, quantity, price)
  BY DEF ApplyFill
<1>3. IsBuy(action) => gross + commission <= AvailableCash
  BY <1>2 DEF Blocked, Affordable
<1>4. IsBuy(action) => delta = -(gross + commission)
  BY DEF NetCashDelta
<1>5. orders'[o].action = action
  BY FillEffect
<1> HIDE DEF gross, commission, delta
<1>6. ~IsBuy(action) => delta >= 0
  <2>1. \A f \in fills' : ~IsBuy(orders'[f.order].action) => f.delta >= 0
    BY DEF SalesEarn, IsBuy
  <2>2. [order |-> o, seq |-> seq, quantity |-> quantity, delta |-> delta] \in fills'
    BY <1>2
  <2> QED BY <1>5, <2>1, <2>2
<1>7. cash \in Int /\ settled \in Int /\ Total(pending, "payable") \in Int
  BY LedgerNumbers, TotalTypes DEF LedgerTypeOK, MoneyOK
<1>8. AvailableCash <= cash /\ AvailableCash <= settled - Total(pending, "payable")
      /\ AvailableCash \in Int
  BY <1>7, HelperFacts DEF AvailableCash
<1>9. IsBuy(action) => -delta <= cash /\ -delta <= settled - Total(pending, "payable")
  BY <1>1, <1>3, <1>4, <1>7, <1>8
<1>10. ~IsBuy(action) => delta \in Nat
  BY <1>1, <1>6
<1> QED BY <1>1, <1>9, <1>10 DEF gross, commission, delta

\* A fill report keeps every purchase covered and the cash from being overspent.
LEMMA ReportKeepsCover ==
  ASSUME LedgerTypeOK, RowsOK, NumbersOK, MoneyOK, SalesEarn',
         NEW o, NEW action, NEW requested, NEW seq, NEW q, NEW price,
         ReportTypes(o, action, requested, seq, q, price),
         SubmitPartialFill(o, action, requested, seq, q, price)
  PROVE  /\ PurchasesAreCovered /\ EarningsOK => (PurchasesAreCovered /\ EarningsOK)'
         /\ cash >= 0 => cash' >= 0
<1>1. o \in Orders /\ action \in Actions /\ seq \in Nat \ {0} /\ price \in Nat \ {0}
  BY DEF ReportTypes
<1>2. CASE UNCHANGED <<cash, settled, pending>>
  BY <1>2 DEF PurchasesAreCovered, EarningsOK
<1>3. ASSUME NEW row \in OrderRowType, NEW quantity \in Nat \ {0},
             row = OrderRow(o, action, requested),
             Fillable(o, action, requested, seq),
             ApplyFill(o, action, row, seq, quantity, price)
      PROVE  /\ PurchasesAreCovered /\ EarningsOK => (PurchasesAreCovered /\ EarningsOK)'
             /\ cash >= 0 => cash' >= 0
  <2> DEFINE gross == quantity * price
             delta == NetCashDelta(action, gross, CommissionIncrement(row, gross))
             buys == IsBuy(action)
  <2>1. row.action = action
    BY <1>3 DEF OrderRow, NewRow, Fillable
  <2>2. /\ delta \in Int
        /\ buys => /\ -delta \in Nat
                   /\ -delta <= cash
                   /\ -delta <= settled - Total(pending, "payable")
        /\ ~buys => delta \in Nat
    BY <1>1, <1>3, <2>1, FillSpends
  <2>3. /\ fills' = fills \cup {[order |-> o, seq |-> seq, quantity |-> quantity, delta |-> delta]}
        /\ cash' = cash + delta
        /\ pending' = IF ~SettlementEnforced THEN pending
                      ELSE pending \cup {[order |-> o, seq |-> seq, due |-> today + SettlementDays,
                                          payable |-> IF buys THEN -delta ELSE 0,
                                          receivable |-> IF buys THEN 0 ELSE delta]}
        /\ UNCHANGED <<fees, settled>>
    BY <1>3 DEF ApplyFill
  <2>4. ~HasFill(o, seq) /\ buys \in BOOLEAN
    BY <1>1, <1>3, NewFillId DEF IsBuy
  <2> HIDE DEF delta, buys
  <2>5. SettlementEnforced =>
          Total(pending', "payable") = Total(pending, "payable") + (IF buys THEN -delta ELSE 0)
    BY <1>1, <2>2, <2>3, <2>4, FillKeepsCash
  <2>6. cash \in Int /\ settled \in Int /\ Total(pending, "payable") \in Int
    BY LedgerNumbers, TotalTypes DEF LedgerTypeOK, MoneyOK
  <2>7. cash >= 0 => cash' >= 0
    BY <2>2, <2>3, <2>6
  <2>8. EarningsOK => EarningsOK'
    BY <2>2, <2>3 DEF EarningsOK
  <2>9. ASSUME SettlementEnforced, Total(pending, "payable") <= settled
        PROVE  Total(pending', "payable") <= settled'
    BY <2>2, <2>3, <2>5, <2>6, <2>9
  <2>10. PurchasesAreCovered => PurchasesAreCovered'
    BY <2>9 DEF PurchasesAreCovered
  <2> QED BY <2>7, <2>8, <2>10
<1> QED BY <1>2, <1>3, ReportCases DEF omsVars, ledgerVars

\* Every action of the ledger keeps every purchase covered.
LEMMA CoverStep ==
  ASSUME LedgerTypeOK, RowsOK, NumbersOK, MoneyOK, SalesEarn',
         PurchasesAreCovered, EarningsOK, [OmsNext]_omsVars
  PROVE  (PurchasesAreCovered /\ EarningsOK)'
<1>1. CASE SettleDue
  <2>1. DueRows \in SUBSET pending
    BY DEF DueRows
  <2>2. Settle(DueRows)
    BY <1>1 DEF SettleDue
  <2>3. /\ settled' = settled + Total(DueRows, "receivable") - Total(DueRows, "payable")
        /\ pending' = pending \ DueRows
        /\ Total(pending, "payable") = Total(DueRows, "payable") + Total(pending', "payable")
        /\ {Total(DueRows, "payable"), Total(DueRows, "receivable"),
            Total(pending', "payable"), Total(pending', "receivable")} \subseteq Int
    BY <2>1, <2>2, SettleAmounts
  <2>4. Total(DueRows, "receivable") >= 0
    <3>1. \A r \in DueRows : r["receivable"] \in Nat
      BY <2>1 DEF EarningsOK, LedgerTypeOK
    <3>2. IsFiniteSet(DueRows)
      BY <2>1, FS_Subset DEF MoneyOK
    <3>3. Total(DueRows, "receivable") \in Nat
      BY <3>1, <3>2, TotalOfNaturals
    <3> QED BY <3>3
  <2>5. settled \in Int
    BY DEF MoneyOK
  <2>6. SettlementEnforced => Total(pending', "payable") <= settled'
    BY <2>3, <2>4, <2>5 DEF PurchasesAreCovered
  <2>7. EarningsOK'
    BY <2>3 DEF EarningsOK
  <2> QED BY <2>6, <2>7 DEF PurchasesAreCovered
<1>2. CASE UNCHANGED <<settled, pending>>
  BY <1>2 DEF PurchasesAreCovered, EarningsOK
<1>3. CASE NextDay \/ (\E s \in Symbols : AccrueFees(s) \/ RecallLocate(s)) \/ UNCHANGED omsVars
  BY <1>2, <1>3 DEF NextDay, AccrueFees, RecallLocate, omsVars, ledgerVars, borrowVars
<1> QED BY <1>1, <1>3, NextCases, ReportKeepsCover

LEMMA CoverAlways ==
  OmsSpec /\ []SalesEarn => [](LedgerTypeOK /\ MoneyOK /\ PurchasesAreCovered /\ EarningsOK)
<1>1. OmsInit => PurchasesAreCovered /\ EarningsOK
  <2> SUFFICES ASSUME OmsInit PROVE PurchasesAreCovered /\ EarningsOK
    OBVIOUS
  <2>1. pending = {} /\ settled \in Nat
    BY OmsAssumption DEF OmsInit
  <2>2. Total(pending, "payable") = 0
    BY <2>1, TotalOfNone
  <2> QED BY <2>1, <2>2 DEF PurchasesAreCovered, EarningsOK
<1>2. LedgerTypeOK /\ RowsOK /\ NumbersOK /\ MoneyOK /\ SalesEarn'
        /\ PurchasesAreCovered /\ EarningsOK /\ [OmsNext]_omsVars
        => (PurchasesAreCovered /\ EarningsOK)'
  BY CoverStep
<1>3. OmsInit => LedgerTypeOK /\ RowsOK /\ NumbersOK /\ MoneyOK
  BY InitFacts, InitNumbers, InitMoney
<1>4. LedgerTypeOK /\ RowsOK /\ NumbersOK /\ MoneyOK /\ [OmsNext]_omsVars
        => (LedgerTypeOK /\ RowsOK /\ NumbersOK /\ MoneyOK)'
  BY TypesStep, RowsStep, NumbersStep, MoneyStep
<1> QED BY <1>1, <1>2, <1>3, <1>4, PTL DEF OmsSpec

\* As long as no sale costs more than it brings, sale proceeds are not spent before
\* they settle: the settled balance covers every purchase that is still to be paid.
\* (Settling a sale at a loss takes cash that a purchase has been promised.)
THEOREM CoveredPurchases == OmsSpec /\ []SalesEarn => []PurchasesAreCovered
BY CoverAlways, PTL

\* Trades that settle at once leave nothing pending.
NothingPending == ~SettlementEnforced => pending = {}

LEMMA PendingStep ==
  ASSUME NothingPending, [OmsNext]_omsVars
  PROVE  NothingPending'
<1>1. ASSUME NEW o, NEW action, NEW requested, NEW seq, NEW q, NEW price,
             SubmitPartialFill(o, action, requested, seq, q, price), ~SettlementEnforced
      PROVE  UNCHANGED pending
  <2>1. ASSUME NEW row, NEW quantity,
               RefuseFill(o, action, row, quantity, price)
                 \/ ApplyFill(o, action, row, seq, quantity, price)
        PROVE  UNCHANGED pending
    BY <1>1, <2>1, Zenon DEF RefuseFill, ApplyFill, Reject, ledgerVars
  <2>2. CASE Ignored(o, action, seq) \/ Reject(o, OrderRow(o, action, requested))
    BY <2>2 DEF Ignored, Reject, omsVars, ledgerVars
  <2> QED BY <1>1, <2>1, <2>2 DEF SubmitPartialFill
<1>2. CASE SettleDue \/ (\E s \in Symbols : AccrueFees(s) \/ RecallLocate(s)) \/ NextDay
  BY <1>2 DEF SettleDue, Settle, AccrueFees, RecallLocate, NextDay, NothingPending
<1>3. CASE UNCHANGED omsVars
  BY <1>3 DEF omsVars, ledgerVars, NothingPending
<1> QED BY <1>1, <1>2, <1>3, NextCases DEF NothingPending

\* Some of the pending rows take no more than all of them, and what they bring is not
\* negative.
LEMMA PartOfPending ==
  ASSUME LedgerTypeOK, MoneyOK, EarningsOK, NEW rows \in SUBSET pending
  PROVE  /\ Total(rows, "receivable") \in Nat
         /\ Total(rows, "payable") \in Nat
         /\ Total(pending, "payable") \in Nat
         /\ Total(rows, "payable") <= Total(pending, "payable")
<1>1. IsFiniteSet(pending) /\ IsFiniteSet(rows) /\ IsFiniteSet(pending \ rows)
  BY FS_Subset DEF MoneyOK
<1>2. \A r \in pending : r["payable"] \in Nat /\ r["receivable"] \in Nat
  BY DEF LedgerTypeOK, EarningsOK
<1>3. IntegerRows(pending, "payable")
  BY LedgerNumbers
<1>4. Total(pending, "payable") = Total(rows, "payable") + Total(pending \ rows, "payable")
  BY <1>1, <1>3, TotalSplits
<1>5. /\ Total(rows, "receivable") \in Nat /\ Total(rows, "payable") \in Nat
      /\ Total(pending \ rows, "payable") \in Nat
  BY <1>1, <1>2, TotalOfNaturals
<1> QED BY <1>4, <1>5

\* A batch that settles one row after another never reaches a negative balance.
LEMMA BatchCovered ==
  LedgerTypeOK /\ MoneyOK /\ PurchasesAreCovered /\ EarningsOK /\ NothingPending
    => SettlementNeverOverdraws
<1> SUFFICES ASSUME LedgerTypeOK, MoneyOK, PurchasesAreCovered, EarningsOK, NothingPending,
                    NEW r \in DueRows
             PROVE  ~(SettledAfter(r) < 0)
  BY DEF SettlementNeverOverdraws, SettlementOverdraws
<1> DEFINE batch == {q \in DueRows : SettlesBefore(q, r)}
<1>1. batch \in SUBSET pending /\ SettlementEnforced /\ settled \in Int
  BY DEF DueRows, NothingPending, MoneyOK
<1>2. SettledAfter(r) = settled + Total(batch, "receivable") - Total(batch, "payable")
  BY DEF SettledAfter
<1> HIDE DEF batch
<1>3. /\ Total(batch, "receivable") \in Nat /\ Total(batch, "payable") \in Nat
      /\ Total(pending, "payable") \in Nat
      /\ Total(batch, "payable") <= Total(pending, "payable")
  BY <1>1, PartOfPending
<1>4. Total(pending, "payable") <= settled
  BY <1>1 DEF PurchasesAreCovered
<1> QED BY <1>1, <1>2, <1>3, <1>4

\* settle_due never raises, as long as no sale costs more than it brings.
LEMMA SettlesAlways == OmsSpec /\ []SalesEarn => []SettlementNeverOverdraws
<1>1. OmsInit => NothingPending
  BY DEF OmsInit, NothingPending
<1>2. OmsSpec => []NothingPending
  BY <1>1, PendingStep, PTL DEF OmsSpec
<1> QED BY <1>2, CoverAlways, BatchCovered, PTL

-----------------------------------------------------------------------------
(* When sales earn *)

\* The price of one share pays the minimum commission and the tax, and leaves room
\* for rounding: the smallest sale earns.
PricesEarn ==
  /\ CommissionPct + TaxPct <= 100
  /\ \A price \in Prices : /\ 100 * MinCommission <= price * (100 - TaxPct)
                           /\ 100 <= price * (100 - CommissionPct - TaxPct)

\* Rounding a percentage down loses less than one.
LEMMA Rounding ==
  ASSUME NEW n \in Nat
  PROVE  n \div 100 \in Nat /\ 100 * (n \div 100) <= n /\ n < 100 * (n \div 100) + 100
OBVIOUS

\* A fill of gross amount g pays the minimum, or its percentage rounded up.
LEMMA CommissionBound ==
  ASSUME NEW row \in OrderRowType, NEW g \in Nat,
         row.count = 0 => row.gross = 0 /\ row.commission = 0,
         row.count > 0 => row.commission = CumulativeCommission(row.gross)
  PROVE  \/ 100 * CommissionIncrement(row, g) <= 100 * MinCommission
         \/ 100 * CommissionIncrement(row, g) <= g * CommissionPct + 100
<1> DEFINE a == row.gross
           c == CommissionPct
           before == (a * c) \div 100
           after == ((a + g) * c) \div 100
<1>1. a \in Nat /\ row.commission \in Nat /\ row.count \in Nat /\ c \in Nat /\ MinCommission \in Nat
  BY OmsAssumption DEF OrderRowType
<1>2. (a + g) * c = a * c + g * c /\ a * c \in Nat /\ g * c \in Nat /\ (a + g) * c \in Nat
  BY <1>1
<1>3. /\ before \in Nat /\ 100 * before <= a * c /\ a * c < 100 * before + 100
      /\ after \in Nat /\ 100 * after <= (a + g) * c
  BY <1>2, Rounding
<1>4. /\ CumulativeCommission(a) = IF before > MinCommission THEN before ELSE MinCommission
      /\ CumulativeCommission(a + g) = IF after > MinCommission THEN after ELSE MinCommission
  BY DEF CumulativeCommission
<1>5. CommissionIncrement(row, g) = NonNegative(CumulativeCommission(a + g) - row.commission)
  BY DEF CommissionIncrement
<1>6. row.count = 0 => a = 0 /\ row.commission = 0
  OBVIOUS
<1>7. row.count > 0 => row.commission = CumulativeCommission(a)
  OBVIOUS
<1> DEFINE ac == a * c
           gc == g * c
<1>8. /\ ac \in Nat /\ gc \in Nat /\ 100 * before <= ac /\ ac < 100 * before + 100
      /\ 100 * after <= ac + gc
      /\ a = 0 => ac = 0
  BY <1>1, <1>2, <1>3
<1> HIDE DEF a, c, before, after, ac, gc
<1>9. \/ 100 * CommissionIncrement(row, g) <= 100 * MinCommission
      \/ 100 * CommissionIncrement(row, g) <= gc + 100
  BY <1>1, <1>3, <1>4, <1>5, <1>6, <1>7, <1>8 DEF NonNegative
<1> QED BY <1>9 DEF gc, c

\* A sale at these prices brings more than it costs.
LEMMA SaleEarns ==
  ASSUME PricesEarn, NEW action, ~IsBuy(action), NEW row \in OrderRowType,
         NEW quantity \in Nat \ {0}, NEW price \in Prices,
         row.count = 0 => row.gross = 0 /\ row.commission = 0,
         row.count > 0 => row.commission = CumulativeCommission(row.gross)
  PROVE  NetCashDelta(action, quantity * price,
                      CommissionIncrement(row, quantity * price)) >= 0
<1> DEFINE g == quantity * price
           k == CommissionIncrement(row, g)
           tax == (g * TaxPct) \div 100
<1>1. /\ price \in Nat \ {0} /\ TaxPct \in Nat /\ CommissionPct \in Nat /\ MinCommission \in Nat
      /\ CommissionPct + TaxPct <= 100
      /\ 100 * MinCommission <= price * (100 - TaxPct)
      /\ 100 <= price * (100 - CommissionPct - TaxPct)
  BY OmsAssumption DEF PricesEarn
<1>2. g \in Nat /\ k \in Nat
  BY <1>1, ProductType, CommissionTypes
<1>3. g * TaxPct \in Nat /\ g * CommissionPct \in Nat
  BY <1>1, <1>2, ProductType
<1>4. tax \in Nat /\ 100 * tax <= g * TaxPct
  BY <1>3, Rounding
<1>5. 100 * k <= 100 * MinCommission \/ 100 * k <= g * CommissionPct + 100
  BY <1>2, CommissionBound
<1>6. NetCashDelta(action, g, k) = g - k - tax
  BY DEF NetCashDelta
<1>7. ASSUME NEW d \in Nat
      PROVE  price * d \in Nat /\ price * d <= g * d
  <2>1. PICK r \in Nat : quantity = r + 1
    <3>1. quantity - 1 \in Nat /\ quantity = (quantity - 1) + 1
      OBVIOUS
    <3> QED BY <3>1
  <2>2. g * d = price * d + (r * price) * d
    BY <1>1, <2>1
  <2>3. price * d \in Nat /\ r * price \in Nat /\ (r * price) * d \in Nat
    BY <1>1
  <2> QED BY <2>2, <2>3
<1>8. 100 * MinCommission <= g * (100 - TaxPct)
  <2>1. 100 - TaxPct \in Nat
    BY <1>1
  <2>2. price * (100 - TaxPct) <= g * (100 - TaxPct) /\ price * (100 - TaxPct) \in Nat
    BY <1>7, <2>1
  <2>3. g * (100 - TaxPct) \in Nat
    BY <1>2, <2>1, ProductType
  <2> QED BY <1>1, <2>2, <2>3
<1>9. 100 <= g * (100 - CommissionPct - TaxPct)
  <2>1. 100 - CommissionPct - TaxPct \in Nat
    BY <1>1
  <2>2. /\ price * (100 - CommissionPct - TaxPct) <= g * (100 - CommissionPct - TaxPct)
        /\ price * (100 - CommissionPct - TaxPct) \in Nat
    BY <1>7, <2>1
  <2>3. g * (100 - CommissionPct - TaxPct) \in Nat
    BY <1>2, <2>1, ProductType
  <2> QED BY <1>1, <2>2, <2>3
<1>10. /\ g * (100 - TaxPct) = 100 * g - g * TaxPct
       /\ g * (100 - CommissionPct - TaxPct) = 100 * g - g * CommissionPct - g * TaxPct
  BY <1>1, <1>2
<1> DEFINE gt == g * TaxPct
           gc == g * CommissionPct
<1>11. /\ gt \in Nat /\ gc \in Nat /\ 100 * tax <= gt
       /\ 100 * MinCommission <= 100 * g - gt /\ 100 <= 100 * g - gc - gt
       /\ 100 * k <= 100 * MinCommission \/ 100 * k <= gc + 100
  BY <1>3, <1>4, <1>5, <1>8, <1>9, <1>10
<1> HIDE DEF g, k, tax, gt, gc
<1>12. g - k - tax >= 0
  BY <1>1, <1>2, <1>4, <1>11
<1> QED BY <1>6, <1>12 DEF g, k

\* A fill report keeps every sale earning.
LEMMA ReportKeepsEarning ==
  ASSUME PricesEarn, LedgerTypeOK, RowsOK, NumbersOK, UnpaidOK, CommissionIgnoresSplits, SalesEarn,
         NEW o, NEW action, NEW requested, NEW seq, NEW q, NEW price \in Prices,
         ReportTypes(o, action, requested, seq, q, price),
         SubmitPartialFill(o, action, requested, seq, q, price)
  PROVE  SalesEarn'
<1>1. o \in Orders /\ action \in Actions /\ seq \in Nat \ {0} /\ price \in Nat \ {0}
  BY DEF ReportTypes
<1>2. OrdersAdvance
  BY ReportAdvances
<1>3. ASSUME NEW f \in fills
      PROVE  orders'[f.order].action = orders[f.order].action
  <2>1. f.order \in Orders /\ f \in FillsOf(f.order)
    BY DEF LedgerTypeOK, FillsOf
  <2>2. f.seq \in 1..orders[f.order].count
    BY <2>1 DEF NumbersOK
  <2>3. Known(f.order)
    BY <2>1, <2>2 DEF RowsOK, RowOK, NoOrder, NewRow
  <2> QED BY <1>2, <2>1, <2>3 DEF OrdersAdvance
<1>4. ASSUME UNCHANGED fills
      PROVE  SalesEarn'
  <2>1. \A f \in fills' : ~IsBuy(orders'[f.order].action) => f.delta >= 0
    BY <1>3, <1>4 DEF SalesEarn
  <2> QED BY <2>1 DEF SalesEarn, IsBuy
<1>5. ASSUME NEW row \in OrderRowType, NEW quantity \in Nat \ {0},
             row = OrderRow(o, action, requested),
             Fillable(o, action, requested, seq),
             ApplyFill(o, action, row, seq, quantity, price)
      PROVE  SalesEarn'
  <2> DEFINE delta == NetCashDelta(action, quantity * price,
                                   CommissionIncrement(row, quantity * price))
             new == [order |-> o, seq |-> seq, quantity |-> quantity, delta |-> delta]
  <2>1. fills' = fills \cup {new}
    BY <1>5 DEF ApplyFill
  <2>2. orders'[o].action = action
    <3>1. row.action = action
      BY <1>5 DEF OrderRow, NewRow, Fillable
    <3>2. orders'[o].action = row.action
      BY <1>1, <1>5, FillEffect
    <3> QED BY <3>1, <3>2
  <2>3. /\ row.count = 0 => row.gross = 0 /\ row.commission = 0
        /\ row.count > 0 => row.commission = CumulativeCommission(row.gross)
    BY <1>1, <1>5 DEF OrderRow, NewRow, UnpaidOK, CommissionIgnoresSplits
  <2>4. ~IsBuy(action) => delta >= 0
    BY <2>3, SaleEarns
  <2>5. new.order = o /\ new.delta = delta
    OBVIOUS
  <2> HIDE DEF delta, new
  <2>6. \A f \in fills : ~IsBuy(orders'[f.order].action) => f.delta >= 0
    BY <1>3 DEF SalesEarn
  <2>7. \A f \in fills' : ~IsBuy(orders'[f.order].action) => f.delta >= 0
    BY <2>1, <2>2, <2>4, <2>5, <2>6
  <2> QED BY <2>7 DEF SalesEarn, IsBuy
<1> QED BY <1>4, <1>5, ReportCases DEF omsVars, ledgerVars

LEMMA EarningAlways ==
  ASSUME PricesEarn
  PROVE  OmsSpec => []SalesEarn
<1> DEFINE Rows == /\ LedgerTypeOK /\ RowsOK /\ NumbersOK
                   /\ UnpaidOK /\ CommissionIgnoresSplits
<1>1. OmsInit => Rows /\ SalesEarn
  BY InitFacts, InitNumbers
     DEF OmsInit, NoOrder, NewRow, UnpaidOK, CommissionIgnoresSplits, SalesEarn
<1>2. Rows /\ SalesEarn /\ [OmsNext]_omsVars => Rows' /\ SalesEarn'
  <2> SUFFICES ASSUME Rows, SalesEarn, [OmsNext]_omsVars PROVE Rows' /\ SalesEarn'
    OBVIOUS
  <2>1. Rows'
    BY TypesStep, RowsStep, NumbersStep, CommissionStep
  <2>2. CASE UNCHANGED <<orders, fills>>
    BY <2>1, <2>2 DEF SalesEarn, IsBuy
  <2>3. ASSUME NEW o \in Orders, NEW seq \in 1..MaxSeq, NEW q \in Quantities, NEW price \in Prices,
               BrokerReport(o, seq, q, price)
        PROVE  SalesEarn'
    <3> DEFINE action == ReportedAction(o, Ticket[o].quantity)
    <3>1. seq \in Nat \ {0} /\ q \in Nat \ {0} /\ price \in Nat \ {0} /\ action \in Actions
      BY OmsAssumption DEF ReportedAction, Actions, Sides
    <3>2. ReportTypes(o, action, Ticket[o].quantity, seq, q, price)
      BY <3>1 DEF ReportTypes
    <3>3. SubmitPartialFill(o, action, Ticket[o].quantity, seq, q, price)
      BY <2>3 DEF BrokerReport
    <3> HIDE DEF action
    <3> QED BY <3>2, <3>3, ReportKeepsEarning
  <2> QED BY <2>1, <2>2, <2>3, OtherActions DEF OmsNext, omsVars, ledgerVars
<1> QED BY <1>1, <1>2, PTL DEF OmsSpec

\* At these prices every sale earns, so that nothing a purchase was promised is
\* taken away: the settled balance always covers what is to be paid.
THEOREM EarningPrices ==
  ASSUME PricesEarn
  PROVE  OmsSpec => []PurchasesAreCovered
BY EarningAlways, CoveredPurchases, PTL

\* settle_due: at these prices no batch raises settlement_would_overdraw_settled_cash,
\* so that no row keeps the ones after it from settling.
THEOREM SettlementsGoThrough ==
  ASSUME PricesEarn
  PROVE  OmsSpec => []SettlementNeverOverdraws
BY EarningAlways, SettlesAlways, PTL

=============================================================================
