-------------------------- MODULE PaperBrokerProofs --------------------------
(* Theorems of PaperBroker, for any number of threads, orders and restarts. *)
EXTENDS PaperBroker, PaperOmsProofs

-----------------------------------------------------------------------------
(* What a thread may rely on while the others go on *)

IsFok(o) == Tif(o) = "fok"

\* What a thread has read stays true enough: its fill number is at most the next
\* free one, the outcome "filled" it is to write is in the ledger, and the quantity
\* it reports for a fok order is all of the order.
ThreadOK(t) ==
  /\ t.pc # "idle" => t.order \in Orders
  /\ t.pc = "replace" => t.new \in Orders
  /\ t.pc = "report" => t.quantity > 0 /\ t.seq > 0 /\ t.seq <= orders[t.order].count + 1
  /\ t.pc = "record" /\ t.status = "filled" => orders[t.order].status = "filled"
  /\ t.pc = "number" /\ IsFok(t.order) => t.quantity \in {0, Quantity(t.order)}
  /\ t.pc = "report" /\ IsFok(t.order) => t.quantity = Quantity(t.order)

ThreadsOK ==
  /\ worker \in [Workers -> ThreadType]
  /\ \A w \in Workers : ThreadOK(worker[w])

LedgerOK == LedgerTypeOK /\ RowsOK /\ NumbersOK /\ FokIsAllOrNothing

BooksOK == book \in [Orders -> BookStatuses] /\ FilledIsBacked

BrokerInv == LedgerOK /\ BooksOK /\ ThreadsOK /\ crashes \in 0..MaxCrashes

-----------------------------------------------------------------------------
(* The ledger under a report of a thread *)

\* What every report of the broker does to the rows: the other orders stay, the
\* fills of its order only grow, and what it fills is what FillQuantity says.
LEMMA ReportEffect ==
  ASSUME LedgerTypeOK, RowsOK,
         NEW o, NEW action, NEW requested, NEW seq, NEW q, NEW price,
         ReportTypes(o, action, requested, seq, q, price),
         SubmitPartialFill(o, action, requested, seq, q, price)
  PROVE  /\ \A other \in Orders \ {o} : orders'[other] = orders[other]
         /\ orders'[o].count >= orders[o].count
         /\ \/ /\ orders'[o].filled = orders[o].filled
               /\ \/ orders'[o] = orders[o]
                  \/ orders'[o].requested = Ticket[o].quantity /\ orders[o].status # "filled"
            \/ /\ orders'[o].requested = Ticket[o].quantity
               /\ orders[o].filled < Ticket[o].quantity
               /\ orders'[o].filled = orders[o].filled
                    + Smaller(NonNegative(Ticket[o].quantity - orders[o].filled), q)
<1> DEFINE Effect ==
             /\ \A other \in Orders \ {o} : orders'[other] = orders[other]
             /\ orders'[o].count >= orders[o].count
             /\ \/ /\ orders'[o].filled = orders[o].filled
                   /\ \/ orders'[o] = orders[o]
                      \/ orders'[o].requested = Ticket[o].quantity /\ orders[o].status # "filled"
                \/ /\ orders'[o].requested = Ticket[o].quantity
                   /\ orders[o].filled < Ticket[o].quantity
                   /\ orders'[o].filled = orders[o].filled
                        + Smaller(NonNegative(Ticket[o].quantity - orders[o].filled), q)
<1>1. /\ o \in Orders /\ action \in Actions /\ seq \in Nat \ {0} /\ price \in Nat \ {0}
      /\ orders[o] \in OrderRowType /\ requested = Ticket[o].quantity
      /\ orders[o].count \in Nat
  BY DEF ReportTypes, LedgerTypeOK, OrderRowType
<1>2. /\ OrderRow(o, action, requested).count = orders[o].count
      /\ OrderRow(o, action, requested).filled = orders[o].filled
      /\ OrderRow(o, action, requested).status # "filled" => orders[o].status # "filled"
  BY <1>1 DEF OrderRow, NewRow, RowsOK, RowOK, NoOrder
<1>3. ASSUME UNCHANGED omsVars
      PROVE  Effect
  BY <1>1, <1>3 DEF omsVars
<1>4. ASSUME NEW row \in OrderRowType, NEW status \in {"rejected", "partially_filled"},
             row = OrderRow(o, action, requested),
             row.status \in {"submitted", "partially_filled"},
             row.requested = Ticket[o].quantity,
             SetRow(o, [row EXCEPT !.status = status])
      PROVE  Effect
  <2>1. /\ \A other \in Orders \ {o} : orders'[other] = orders[other]
        /\ orders'[o].count = row.count /\ orders'[o].filled = row.filled
        /\ orders'[o].requested = row.requested
    BY <1>1, <1>4, RefusalEffect
  <2> QED BY <1>1, <1>2, <1>4, <2>1
<1>5. ASSUME NEW row \in OrderRowType, NEW quantity \in Nat \ {0},
             row = OrderRow(o, action, requested),
             row.requested = Ticket[o].quantity,
             quantity = FillQuantity(row, q),
             row.filled + quantity <= row.requested,
             ApplyFill(o, action, row, seq, quantity, price)
      PROVE  Effect
  <2>1. /\ \A other \in Orders \ {o} : orders'[other] = orders[other]
        /\ orders'[o].count = row.count + 1
        /\ orders'[o].requested = row.requested
        /\ orders'[o].filled = row.filled + quantity
    BY <1>1, <1>5, FillEffect
  <2>2. row.filled \in Nat /\ row.requested \in Nat
    BY DEF OrderRowType
  <2>3. quantity = Smaller(NonNegative(Ticket[o].quantity - orders[o].filled), q)
    BY <1>2, <1>5 DEF FillQuantity
  <2>4. row.count = orders[o].count /\ row.filled = orders[o].filled
    BY <1>2, <1>5
  <2>5. orders[o].filled < Ticket[o].quantity
    BY <1>5, <2>2, <2>4
  <2>6. orders'[o].filled = orders[o].filled
          + Smaller(NonNegative(Ticket[o].quantity - orders[o].filled), q)
    BY <2>1, <2>3, <2>4, Zenon
  <2>7. orders'[o].count >= orders[o].count /\ orders'[o].requested = Ticket[o].quantity
    BY <1>1, <1>5, <2>1, <2>4
  <2> QED BY <2>1, <2>5, <2>6, <2>7
<1> HIDE DEF Effect
<1>6. Effect
  BY <1>3, <1>4, <1>5, ReportCases
<1> QED BY <1>6 DEF Effect

\* The report of a thread is one the ledger's lemmas are about.
LEMMA ReportOfThread ==
  ASSUME BrokerInv, NEW w \in Workers, NEW price \in Prices, Report(w, price)
  PROVE  LET o == OrderOf(w)
             t == worker[w]
         IN /\ ReportTypes(o, ActionOf(w), Quantity(o), t.seq, t.quantity, price)
            /\ t.seq <= orders[o].count + 1
            /\ SubmitPartialFill(o, ActionOf(w), Quantity(o), t.seq, t.quantity, price)
            /\ IsFok(o) => t.quantity = Quantity(o)
<1>1. worker[w].pc = "report" /\ ThreadOK(worker[w]) /\ worker[w] \in ThreadType
  BY DEF BrokerInv, ThreadsOK, Report, At
<1>2. OrderOf(w) \in Orders /\ worker[w].seq \in Nat \ {0} /\ worker[w].quantity \in Nat \ {0}
      /\ worker[w].seq <= orders[OrderOf(w)].count + 1
      /\ (IsFok(OrderOf(w)) => worker[w].quantity = Quantity(OrderOf(w)))
  BY <1>1 DEF ThreadOK, ThreadType, OrderOf
<1>3. ActionOf(w) \in Actions
  BY <1>2, OmsAssumption DEF ActionOf, Actions, Sides
<1>4. price \in Nat \ {0}
  BY OmsAssumption
<1> QED BY <1>2, <1>3, <1>4 DEF ReportTypes, Report, Quantity

\* A report keeps the ledger in order, and what the other threads rely on.
LEMMA ReportKeepsLedger ==
  ASSUME BrokerInv, NEW w \in Workers, NEW price \in Prices, Report(w, price)
  PROVE  /\ LedgerOK'
         /\ OrdersAdvance
         /\ \A o \in Orders : orders'[o].count >= orders[o].count
<1> DEFINE o == OrderOf(w)
           q == worker[w].quantity
<1>1. /\ ReportTypes(o, ActionOf(w), Quantity(o), worker[w].seq, q, price)
      /\ worker[w].seq <= orders[o].count + 1
      /\ SubmitPartialFill(o, ActionOf(w), Quantity(o), worker[w].seq, q, price)
      /\ IsFok(o) => q = Quantity(o)
  BY ReportOfThread
<1>2. LedgerTypeOK /\ RowsOK /\ NumbersOK /\ FokIsAllOrNothing
  BY DEF BrokerInv, LedgerOK
<1>3. LedgerTypeOK' /\ RowsOK' /\ NumbersOK' /\ OrdersAdvance
  BY <1>1, <1>2, ReportKeepsTypes, ReportKeepsRows, ReportKeepsNumbers, ReportAdvances
<1>4. o \in Orders /\ Ticket[o].quantity \in Nat \ {0}
  BY <1>1, OmsAssumption DEF ReportTypes
<1>5. /\ \A other \in Orders \ {o} : orders'[other] = orders[other]
      /\ orders'[o].count >= orders[o].count
      /\ \/ /\ orders'[o].filled = orders[o].filled
            /\ \/ orders'[o] = orders[o]
               \/ orders'[o].requested = Ticket[o].quantity /\ orders[o].status # "filled"
         \/ /\ orders'[o].requested = Ticket[o].quantity
            /\ orders[o].filled < Ticket[o].quantity
            /\ orders'[o].filled = orders[o].filled
                 + Smaller(NonNegative(Ticket[o].quantity - orders[o].filled), q)
  BY <1>1, <1>2, ReportEffect
<1>6. \A x \in Orders : orders[x].count \in Nat /\ orders[x].filled \in Nat
                        /\ orders[x].requested \in Nat
  BY <1>2 DEF LedgerTypeOK, OrderRowType
<1>7. \A x \in Orders : orders'[x].count >= orders[x].count
  BY <1>5, <1>6
<1>8. ASSUME IsFok(o)
      PROVE  orders'[o].filled \in {0, orders'[o].requested}
  <2>1. orders[o].filled \in {0, orders[o].requested}
    BY <1>2, <1>4, <1>8 DEF FokIsAllOrNothing, IsFok
  <2>2. CASE orders'[o] = orders[o]
    BY <2>1, <2>2
  <2>3. CASE orders'[o].filled = orders[o].filled /\ orders[o].status # "filled"
    <3>1. CASE Known(o)
      BY <1>2, <1>4, <2>1, <2>3, <3>1 DEF RowsOK, RowOK
    <3>2. CASE ~Known(o)
      BY <1>2, <1>4, <2>3, <3>2 DEF RowsOK, RowOK, NoOrder, NewRow
    <3> QED BY <3>1, <3>2
  <2>4. CASE /\ orders'[o].requested = Ticket[o].quantity
             /\ orders[o].filled < Ticket[o].quantity
             /\ orders'[o].filled = orders[o].filled
                  + Smaller(NonNegative(Ticket[o].quantity - orders[o].filled), q)
    <3>1. orders[o].filled = 0
      BY <1>2, <1>4, <2>1, <2>4 DEF RowsOK, RowOK, NoOrder, NewRow
    <3>2. q = Ticket[o].quantity
      BY <1>1, <1>8 DEF Quantity
    <3>3. Smaller(NonNegative(Ticket[o].quantity - orders[o].filled), q) = Ticket[o].quantity
      BY <1>4, <3>1, <3>2 DEF Smaller, NonNegative
    <3> QED BY <1>4, <2>4, <3>1, <3>3
  <2> QED BY <1>5, <2>2, <2>3, <2>4
<1>9. FokIsAllOrNothing'
  BY <1>2, <1>5, <1>8 DEF FokIsAllOrNothing, IsFok, Tif
<1> QED BY <1>3, <1>7, <1>9 DEF LedgerOK

-----------------------------------------------------------------------------
(* Threads and broker rows *)

QuietSteps == Steps \ {"number", "report", "replace"}

\* A thread that has read no quantity relies on nothing but its order.
LEMMA StepFacts ==
  ASSUME NEW pc \in QuietSteps, NEW o \in Orders
  PROVE  /\ Step(pc, o) \in ThreadType
         /\ ThreadOK(Step(pc, o))
<1>1. Step(pc, o) \in ThreadType
  BY DEF Step, Sized, ThreadType, QuietSteps, BookStatuses
<1>2. Step(pc, o).pc = pc /\ Step(pc, o).order = o /\ Step(pc, o).status = "none"
  BY DEF Step, Sized
<1> QED BY <1>1, <1>2 DEF ThreadOK, QuietSteps

\* Nor does a thread between two requests.
LEMMA IdleFacts == Idle \in ThreadType /\ ThreadOK(Idle) /\ Idle.pc = "idle"
<1>1. Idle \in ThreadType
  BY DEF Idle, Step, Sized, ThreadType, Steps, BookStatuses
<1>2. Idle.pc = "idle"
  BY DEF Idle, Step, Sized
<1> QED BY <1>1, <1>2 DEF ThreadOK

\* A thread that carries a status to write, when the ledger backs that status.
LEMMA StatusFacts ==
  ASSUME NEW pc \in QuietSteps, NEW o \in Orders, NEW status \in BookStatuses,
         pc = "record" /\ status = "filled" => orders[o].status = "filled"
  PROVE  /\ [Step(pc, o) EXCEPT !.status = status] \in ThreadType
         /\ ThreadOK([Step(pc, o) EXCEPT !.status = status])
<1> DEFINE t == [Step(pc, o) EXCEPT !.status = status]
<1>1. t \in ThreadType /\ t.pc = pc /\ t.order = o /\ t.status = status
  BY DEF Step, Sized, ThreadType, QuietSteps, BookStatuses
<1> HIDE DEF t
<1>2. ThreadOK(t)
  BY <1>1 DEF ThreadOK, QuietSteps
<1> QED BY <1>1, <1>2 DEF t

\* One thread goes on, the ledger rows stay: the others still rely on what they did.
LEMMA OneThread ==
  ASSUME ThreadsOK, UNCHANGED orders, NEW w \in Workers, NEW t,
         t \in ThreadType, ThreadOK(t), GoesOn(w, t)
  PROVE  ThreadsOK'
<1>1. worker' \in [Workers -> ThreadType] /\ worker'[w] = t
      /\ \A v \in Workers \ {w} : worker'[v] = worker[v]
  BY DEF ThreadsOK, GoesOn
<1>2. \A v \in Workers : ThreadOK(worker'[v])
  BY <1>1 DEF ThreadsOK
<1>3. \A v \in Workers : ThreadOK(worker[v])'
  BY <1>2 DEF ThreadOK
<1> QED BY <1>1, <1>3 DEF ThreadsOK

\* A row takes a status that the ledger backs.
LEMMA OneRow ==
  ASSUME BooksOK, UNCHANGED orders, NEW o \in Orders, NEW status \in BookStatuses,
         Write(o, status),
         status = "filled" => orders[o].status = "filled" \/ book[o] = "filled"
  PROVE  BooksOK'
<1>1. book' \in [Orders -> BookStatuses] /\ book'[o] = status
      /\ \A x \in Orders \ {o} : book'[x] = book[x]
  BY DEF BooksOK, Write
<1> QED BY <1>1 DEF BooksOK, FilledIsBacked

\* Reconciliation shows an order as filled only when the ledger does.
LEMMA ReconciledFacts ==
  ASSUME BooksOK, NEW o \in Orders
  PROVE  /\ Reconciled(o) \in BookStatuses
         /\ Reconciled(o) = "filled" => orders[o].status = "filled"
BY DEF Reconciled, BooksOK, FilledIsBacked, BookStatuses, OpenStatuses, FinalStatuses

\* The ledger as a whole stays in order when nothing of it changes.
LEMMA QuietLedger ==
  ASSUME LedgerOK, UNCHANGED omsVars
  PROVE  LedgerOK'
BY DEF LedgerOK, LedgerTypeOK, RowsOK, RowOK, Known, NumbersOK, FillsOf,
       FokIsAllOrNothing, omsVars, ledgerVars, borrowVars

\* What is left of an order is a number, and a fok order has all or nothing left.
LEMMA RemainingFacts ==
  ASSUME LedgerOK, NEW o \in Orders
  PROVE  /\ Remaining(o) \in Nat
         /\ IsFok(o) => Remaining(o) \in {0, Quantity(o)}
<1>1. /\ orders[o].filled \in Nat /\ orders[o].requested \in Nat
      /\ Quantity(o) \in Nat \ {0}
  BY OmsAssumption DEF LedgerOK, LedgerTypeOK, OrderRowType, Quantity
<1>2. IsFok(o) => orders[o].filled \in {0, Quantity(o)}
  BY <1>1 DEF LedgerOK, FokIsAllOrNothing, RowsOK, RowOK, NoOrder, NewRow, IsFok, Quantity
<1> QED BY <1>1, <1>2 DEF Remaining, NonNegative

-----------------------------------------------------------------------------
(* Every step keeps the invariant *)

\* What a step that leaves the ledger alone has to show.
LEMMA QuietStep ==
  ASSUME BrokerInv, UNCHANGED <<omsVars, crashes>>, BooksOK', ThreadsOK'
  PROVE  BrokerInv'
BY QuietLedger DEF BrokerInv

\* A step that only moves a thread on.
LEMMA ReadStep ==
  ASSUME BrokerInv, NEW w \in Workers, NEW t, t \in ThreadType, ThreadOK(t),
         GoesOn(w, t), UNCHANGED <<omsVars, crashes, book>>
  PROVE  BrokerInv'
<1>1. ThreadsOK'
  BY OneThread DEF BrokerInv, omsVars
<1>2. BooksOK'
  BY DEF BrokerInv, BooksOK, FilledIsBacked, omsVars
<1> QED BY <1>1, <1>2, QuietStep

\* A step that writes one row and moves its thread on.
LEMMA WriteStep ==
  ASSUME BrokerInv, NEW w \in Workers, NEW t, t \in ThreadType, ThreadOK(t),
         GoesOn(w, t), NEW o \in Orders, NEW status \in BookStatuses, Write(o, status),
         status = "filled" => orders[o].status = "filled", UNCHANGED <<omsVars, crashes>>
  PROVE  BrokerInv'
<1>1. ThreadsOK'
  BY OneThread DEF BrokerInv, omsVars
<1>2. BooksOK'
  BY OneRow DEF BrokerInv, omsVars
<1> QED BY <1>1, <1>2, QuietStep

\* A request that starts keeps the invariant.
LEMMA RequestStep ==
  ASSUME BrokerInv, NEW w \in Workers, Request(w)
  PROVE  BrokerInv'
<1>1. PICK o \in Orders :
        \/ \E price \in Prices : Submit(w, o, price)
        \/ Tick(w, o) \/ StartCancel(w, o) \/ StartExpire(w, o)
        \/ \E new \in Orders, price \in Prices : StartReplace(w, o, new, price)
  BY DEF Request
<1>2. ASSUME NEW price \in Prices, Submit(w, o, price)
      PROVE  BrokerInv'
  <2>1. UNCHANGED <<omsVars, crashes>>
    BY <1>2 DEF Submit, NoOmsChange
  <2>2. CASE Write(o, "submitted") /\ Starts(w, "acknowledge", o)
    <3>1. GoesOn(w, Step("acknowledge", o)) /\ "acknowledge" \in QuietSteps
      BY <2>2 DEF Starts, QuietSteps, Steps
    <3>2. "submitted" \in BookStatuses
      BY DEF BookStatuses, OpenStatuses
    <3> QED BY <2>1, <2>2, <3>1, <3>2, StepFacts, WriteStep
  <2>3. CASE Write(o, "rejected") /\ UNCHANGED worker
    <3>1. BooksOK'
      BY <2>1, <2>3, OneRow DEF BrokerInv, omsVars, BookStatuses, FinalStatuses
    <3>2. ThreadsOK'
      BY <2>1, <2>3 DEF BrokerInv, ThreadsOK, ThreadOK, omsVars
    <3> QED BY <2>1, <3>1, <3>2, QuietStep
  <2> QED BY <1>2, <2>2, <2>3 DEF Submit
<1>3. ASSUME Tick(w, o) \/ StartCancel(w, o) \/ StartExpire(w, o)
      PROVE  BrokerInv'
  <2>1. PICK pc \in {"evaluate", "cancel", "expire"} : Starts(w, pc, o)
    BY <1>3 DEF Tick, StartCancel, StartExpire
  <2>2. pc \in QuietSteps /\ GoesOn(w, Step(pc, o))
    BY <2>1 DEF Starts, QuietSteps, Steps
  <2>3. UNCHANGED <<omsVars, crashes, book>>
    BY <1>3 DEF Tick, StartCancel, StartExpire, ReadsOnly
  <2> QED BY <2>2, <2>3, StepFacts, ReadStep
<1>4. ASSUME NEW new \in Orders, NEW price \in Prices, StartReplace(w, o, new, price)
      PROVE  BrokerInv'
  <2> DEFINE t == [Step("replace", o) EXCEPT !.new = new]
  <2>1. t \in ThreadType /\ t.pc = "replace" /\ t.order = o /\ t.new = new
    BY DEF Step, Sized, ThreadType, Steps, BookStatuses
  <2>2. GoesOn(w, t) /\ UNCHANGED <<omsVars, crashes, book>>
    BY <1>4 DEF StartReplace, ReadsOnly
  <2> HIDE DEF t
  <2>3. ThreadOK(t)
    BY <2>1 DEF ThreadOK
  <2> QED BY <2>1, <2>2, <2>3, ReadStep
<1> QED BY <1>1, <1>2, <1>3, <1>4


\* What a busy thread knows of its order.
LEMMA BusyFacts ==
  ASSUME BrokerInv, NEW w \in Workers, ~At(w, "idle")
  PROVE  OrderOf(w) \in Orders /\ ThreadOK(worker[w]) /\ worker[w] \in ThreadType
BY DEF BrokerInv, ThreadsOK, ThreadOK, At, OrderOf

\* Acknowledging an order and evaluating it keep the invariant.
LEMMA EvaluationStep ==
  ASSUME BrokerInv, NEW w \in Workers,
         ReadSubmitted(w) \/ WriteAcknowledged(w) \/ Evaluate(w) \/ Act(w)
  PROVE  BrokerInv'
<1> DEFINE o == OrderOf(w)
<1>1. o \in Orders /\ worker[w] \in ThreadType
  BY BusyFacts DEF ReadSubmitted, WriteAcknowledged, Evaluate, Act, At
<1> HIDE DEF o
<1>2. CASE ReadSubmitted(w)
  <2>1. PICK pc \in {"acknowledged", "evaluate"} : GoesOn(w, Step(pc, o))
    BY <1>2 DEF ReadSubmitted, o
  <2>2. pc \in QuietSteps /\ UNCHANGED <<omsVars, crashes, book>>
    BY <1>2 DEF ReadSubmitted, ReadsOnly, QuietSteps, Steps
  <2> QED BY <1>1, <2>1, <2>2, StepFacts, ReadStep
<1>3. CASE WriteAcknowledged(w)
  <2>1. Write(o, "acknowledged") /\ GoesOn(w, Step("evaluate", o)) /\ UNCHANGED <<omsVars, crashes>>
    BY <1>3 DEF WriteAcknowledged, NoOmsChange, o
  <2>2. "evaluate" \in QuietSteps /\ "acknowledged" \in BookStatuses
    BY DEF QuietSteps, Steps, BookStatuses, OpenStatuses
  <2> QED BY <1>1, <2>1, <2>2, StepFacts, WriteStep
<1>4. CASE Evaluate(w)
  <2>1. /\ Write(o, Reconciled(o)) /\ UNCHANGED <<omsVars, crashes>>
        /\ \/ GoesOn(w, Idle)
           \/ GoesOn(w, [Step("act", o) EXCEPT !.status = Reconciled(o)])
    BY <1>4 DEF Evaluate, NoOmsChange, o
  <2>2. /\ Reconciled(o) \in BookStatuses
        /\ Reconciled(o) = "filled" => orders[o].status = "filled"
    BY <1>1, ReconciledFacts DEF BrokerInv
  <2>3. "act" \in QuietSteps
    BY DEF QuietSteps, Steps
  <2>4. /\ [Step("act", o) EXCEPT !.status = Reconciled(o)] \in ThreadType
        /\ ThreadOK([Step("act", o) EXCEPT !.status = Reconciled(o)])
    BY <1>1, <2>2, <2>3, StatusFacts
  <2> QED BY <1>1, <2>1, <2>2, <2>4, IdleFacts, WriteStep
<1>5. CASE Act(w)
  <2>1. UNCHANGED <<omsVars, crashes>>
    BY <1>5 DEF Act, NoOmsChange
  <2>2. CASE ActRest(w) \/ ActExpire(w)
    <3>1. PICK status \in {"canceled", "partially_filled", "open", "expired"} :
            Write(o, status) /\ GoesOn(w, Idle)
      BY <2>2 DEF ActRest, ActExpire, RestStatus, Returns, o
    <3>2. status \in BookStatuses /\ status # "filled"
      BY DEF BookStatuses, OpenStatuses, FinalStatuses
    <3> QED BY <1>1, <2>1, <3>1, <3>2, IdleFacts, WriteStep
  <2>3. CASE ActWait(w) \/ ActFill(w)
    <3>1. PICK pc \in {"rest", "fill"} : GoesOn(w, Step(pc, o)) /\ UNCHANGED book
      BY <2>3 DEF ActWait, ActFill, o
    <3>2. pc \in QuietSteps
      BY DEF QuietSteps, Steps
    <3> QED BY <1>1, <2>1, <3>1, <3>2, StepFacts, ReadStep
  <2>4. CASE ActTrigger(w)
    <3>1. Write(o, "open") /\ GoesOn(w, Step("fill", o))
      BY <2>4 DEF ActTrigger, o
    <3>2. "fill" \in QuietSteps /\ "open" \in BookStatuses
      BY DEF QuietSteps, Steps, BookStatuses, OpenStatuses
    <3> QED BY <1>1, <2>1, <3>1, <3>2, StepFacts, WriteStep
  <2> QED BY <1>5, <2>2, <2>3, <2>4 DEF Act
<1> QED BY <1>2, <1>3, <1>4, <1>5

\* Sizing a fill keeps the invariant: a fok order is reported whole or withdrawn.
LEMMA SizingStep ==
  ASSUME BrokerInv, NEW w \in Workers,
         ReadPosition(w) \/ Measure(w) \/ \E quantity \in 0..worker[w].quantity : Number(w, quantity)
  PROVE  BrokerInv'
<1> DEFINE o == OrderOf(w)
<1>1. /\ o \in Orders /\ worker[w] \in ThreadType /\ ThreadOK(worker[w])
      /\ worker[w].order = o /\ worker[w].held \in Int /\ worker[w].quantity \in Nat
  BY BusyFacts DEF ReadPosition, Measure, Number, At, ThreadType, OrderOf
<1>2. /\ position[SymbolOf(o)] \in Int /\ orders[o].count \in Nat
  BY <1>1, OmsAssumption DEF BrokerInv, LedgerOK, LedgerTypeOK, OrderRowType, SymbolOf
<1>3. UNCHANGED <<omsVars, crashes, book>>
  BY DEF ReadPosition, Measure, Number, ReadsOnly
<1> HIDE DEF o
<1>4. CASE Measure(w)
  <2> DEFINE t == Sized("number", o, worker[w].held, Remaining(o), 0)
  <2>1. GoesOn(w, t)
    BY <1>4 DEF Measure, o
  <2>2. Remaining(o) \in Nat /\ (IsFok(o) => Remaining(o) \in {0, Quantity(o)})
    BY <1>1, RemainingFacts DEF BrokerInv
  <2>3. t \in ThreadType /\ t.pc = "number" /\ t.order = o /\ t.quantity = Remaining(o)
    BY <1>1, <1>2, <2>2 DEF Sized, ThreadType, Steps, BookStatuses
  <2> HIDE DEF t
  <2>4. ThreadOK(t)
    BY <1>1, <2>2, <2>3 DEF ThreadOK
  <2> QED BY <1>3, <2>1, <2>3, <2>4, ReadStep
<1>5. ASSUME NEW quantity \in 0..worker[w].quantity, Number(w, quantity)
      PROVE  BrokerInv'
  <2> DEFINE t == Sized("report", o, worker[w].held, quantity, orders[o].count + 1)
  <2>1. \/ \E pc \in {"withdraw", "rest"} : GoesOn(w, Step(pc, o))
        \/ GoesOn(w, [Step("record", o) EXCEPT !.status = "rejected"])
        \/ ~FokFails(w, quantity) /\ quantity # 0 /\ GoesOn(w, t)
    BY <1>5 DEF Number, o
  <2>2. CASE \E pc \in {"withdraw", "rest"} : GoesOn(w, Step(pc, o))
    <3>1. PICK pc \in {"withdraw", "rest"} : GoesOn(w, Step(pc, o))
      BY <2>2
    <3>2. pc \in QuietSteps
      BY DEF QuietSteps, Steps
    <3> QED BY <1>1, <1>3, <3>1, <3>2, StepFacts, ReadStep
  <2>3. CASE GoesOn(w, [Step("record", o) EXCEPT !.status = "rejected"])
    <3>1. "record" \in QuietSteps /\ "rejected" \in BookStatuses
      BY DEF QuietSteps, Steps, BookStatuses, FinalStatuses
    <3>2. /\ [Step("record", o) EXCEPT !.status = "rejected"] \in ThreadType
          /\ ThreadOK([Step("record", o) EXCEPT !.status = "rejected"])
      BY <1>1, <3>1, StatusFacts
    <3> QED BY <1>3, <2>3, <3>2, ReadStep
  <2>4. CASE ~FokFails(w, quantity) /\ quantity # 0 /\ GoesOn(w, t)
    <3>1. /\ t \in ThreadType /\ t.pc = "report" /\ t.order = o /\ t.quantity = quantity
          /\ t.seq = orders[o].count + 1
      BY <1>1, <1>2 DEF Sized, ThreadType, Steps, BookStatuses
    <3>2. IsFok(o) => quantity = Quantity(o)
      <4>1. IsFok(o) => worker[w].quantity \in {0, Quantity(o)}
        BY <1>1, <1>5 DEF ThreadOK, Number, At
      <4>2. IsFok(o) => quantity >= worker[w].quantity
        BY <1>1, <2>4 DEF FokFails, IsFok, o
      <4> QED BY <1>1, <2>4, <4>1, <4>2
    <3> HIDE DEF t
    <3>3. ThreadOK(t)
      BY <1>1, <1>2, <2>4, <3>1, <3>2 DEF ThreadOK
    <3> QED BY <1>3, <2>4, <3>1, <3>3, ReadStep
  <2> QED BY <2>1, <2>2, <2>3, <2>4
<1>6. CASE ReadPosition(w)
  <2> DEFINE t == Sized("measure", o, position[SymbolOf(o)], 0, 0)
  <2>1. GoesOn(w, t)
    BY <1>6 DEF ReadPosition, o
  <2>2. t \in ThreadType /\ t.pc = "measure" /\ t.order = o
    BY <1>1, <1>2 DEF Sized, ThreadType, Steps, BookStatuses
  <2> HIDE DEF t
  <2>3. ThreadOK(t)
    BY <1>1, <2>2 DEF ThreadOK
  <2> QED BY <1>3, <2>1, <2>2, <2>3, ReadStep
<1> QED BY <1>4, <1>5, <1>6

\* A report changes the ledger under the other threads, and what they rely on stays.
LEMMA ReportStep ==
  ASSUME BrokerInv, NEW w \in Workers, NEW price \in Prices, Report(w, price)
  PROVE  BrokerInv'
<1> DEFINE o == OrderOf(w)
           status == Outcome(o, orders'[o].status)
           t == [Step("record", o) EXCEPT !.status = status]
<1>1. o \in Orders
  BY BusyFacts DEF Report, At
<1>2. GoesOn(w, t) /\ UNCHANGED <<book, crashes>>
  BY DEF Report
<1>3. /\ LedgerOK' /\ OrdersAdvance
      /\ \A x \in Orders : orders'[x].count >= orders[x].count
  BY ReportKeepsLedger
<1>4. /\ \A x \in Orders : orders[x].count \in Nat /\ orders'[x].count \in Nat
      /\ \A x \in Orders : orders[x].status = "filled" => orders'[x].status = "filled"
  BY <1>3 DEF BrokerInv, LedgerOK, LedgerTypeOK, OrderRowType, OrdersAdvance, OmsFinal
<1>5. /\ status \in BookStatuses
      /\ status = "filled" => orders'[o].status = "filled"
  BY DEF Outcome, BookStatuses, OpenStatuses, FinalStatuses
<1> HIDE DEF o, status
<1>6. t \in ThreadType /\ t.pc = "record" /\ t.order = o /\ t.status = status
  BY <1>1, <1>5 DEF Step, Sized, ThreadType, Steps, BookStatuses
<1> HIDE DEF t
<1>7. /\ worker' \in [Workers -> ThreadType] /\ worker'[w] = t
      /\ \A v \in Workers \ {w} : worker'[v] = worker[v]
  BY <1>2, <1>6 DEF BrokerInv, ThreadsOK, GoesOn
<1>8. ThreadOK(worker[w])'
  BY <1>1, <1>5, <1>6, <1>7 DEF ThreadOK
<1>9. ASSUME NEW v \in Workers \ {w}
      PROVE  ThreadOK(worker[v])'
  <2>1. ThreadOK(worker[v]) /\ worker[v] \in ThreadType
    BY DEF BrokerInv, ThreadsOK
  <2>2. worker[v].seq \in Nat
    BY <2>1 DEF ThreadType
  <2> QED BY <1>3, <1>4, <1>7, <2>1, <2>2 DEF ThreadOK, IsFok, Tif, Quantity
<1>10. ThreadsOK'
  BY <1>7, <1>8, <1>9 DEF ThreadsOK
<1>11. BooksOK'
  BY <1>2, <1>4 DEF BrokerInv, BooksOK, FilledIsBacked
<1> QED BY <1>2, <1>3, <1>10, <1>11 DEF BrokerInv

\* Writing the outcome, resting, withdrawing and closing an order keep the invariant.
LEMMA ClosingStep ==
  ASSUME BrokerInv, NEW w \in Workers,
         \/ ReportRaises(w) \/ Record(w) \/ Rest(w) \/ Withdraw(w)
         \/ Cancel(w) \/ Expire(w)
  PROVE  BrokerInv'
<1> DEFINE o == OrderOf(w)
<1>1. o \in Orders /\ worker[w] \in ThreadType /\ ThreadOK(worker[w])
  BY BusyFacts DEF ReportRaises, Record, Rest, Withdraw, Cancel, Expire, At
<1>2. CASE ReportRaises(w)
  BY <1>2, IdleFacts, ReadStep DEF ReportRaises, Returns, ReadsOnly
<1>3. CASE Record(w)
  <2>1. /\ Write(o, worker[w].status) /\ GoesOn(w, Idle) /\ UNCHANGED <<omsVars, crashes>>
        /\ worker[w].pc = "record"
    BY <1>3 DEF Record, Returns, NoOmsChange, At
  <2>2. /\ worker[w].status \in BookStatuses
        /\ worker[w].status = "filled" => orders[o].status = "filled"
    BY <1>1, <2>1 DEF ThreadType, ThreadOK, OrderOf
  <2> QED BY <1>1, <2>1, <2>2, IdleFacts, WriteStep
<1>4. CASE Rest(w) \/ Withdraw(w) \/ Cancel(w) \/ Expire(w)
  <2>1. PICK status \in {"partially_filled", "open", "canceled", "expired"} :
          Write(o, status) /\ GoesOn(w, Idle) /\ UNCHANGED <<omsVars, crashes>>
    BY <1>4 DEF Rest, Withdraw, Cancel, Expire, Returns, NoOmsChange
  <2>2. status \in BookStatuses /\ status # "filled"
    BY DEF BookStatuses, OpenStatuses, FinalStatuses
  <2> QED BY <1>1, <2>1, <2>2, IdleFacts, WriteStep
<1> QED BY <1>2, <1>3, <1>4

\* A replacement writes two rows, neither of them as filled.
LEMMA ReplacingStep ==
  ASSUME BrokerInv, NEW w \in Workers, Replace(w)
  PROVE  BrokerInv'
<1> DEFINE o == OrderOf(w)
           new == worker[w].new
<1>1. o \in Orders /\ new \in Orders /\ UNCHANGED <<omsVars, crashes>>
  BY BusyFacts DEF Replace, At, ThreadOK, OrderOf, NoOmsChange
<1>2. CASE Returns(w) /\ UNCHANGED book
  BY <1>1, <1>2, IdleFacts, ReadStep DEF Returns
<1>3. CASE /\ book' = [book EXCEPT ![o] = "replaced", ![new] = "submitted"]
           /\ GoesOn(w, Step("acknowledge", new))
  <2>1. "acknowledge" \in QuietSteps
    BY DEF QuietSteps, Steps
  <2>2. ThreadsOK'
    BY <1>1, <1>3, <2>1, StepFacts, OneThread DEF BrokerInv, omsVars
  <2>3. /\ book' \in [Orders -> BookStatuses]
        /\ \A x \in Orders : book'[x] = "filled" => book[x] = "filled"
    BY <1>1, <1>3 DEF BrokerInv, BooksOK, BookStatuses, OpenStatuses, FinalStatuses
  <2>4. BooksOK'
    BY <1>1, <2>3 DEF BrokerInv, BooksOK, FilledIsBacked, omsVars
  <2> QED BY <1>1, <2>2, <2>4, QuietStep
<1> QED BY <1>2, <1>3 DEF Replace, Superseded

\* A read of one order and a crash keep the invariant.
LEMMA OutsideStep ==
  ASSUME BrokerInv, (\E o \in Orders : GetOrder(o)) \/ Crash
  PROVE  BrokerInv'
<1>1. ASSUME NEW o \in Orders, GetOrder(o)
      PROVE  BrokerInv'
  <2>1. Write(o, Reconciled(o)) /\ UNCHANGED <<omsVars, worker, crashes>>
    BY <1>1 DEF GetOrder
  <2>2. BooksOK'
    BY <2>1, ReconciledFacts, OneRow DEF BrokerInv, omsVars
  <2>3. ThreadsOK'
    BY <2>1 DEF BrokerInv, ThreadsOK, ThreadOK, omsVars
  <2> QED BY <2>1, <2>2, <2>3, QuietStep
<1>2. CASE Crash
  <2>1. /\ worker' = [w \in Workers |-> Idle] /\ UNCHANGED <<omsVars, book>>
        /\ crashes' \in 0..MaxCrashes
    BY <1>2, BrokerAssumption DEF Crash, BrokerInv
  <2>2. ThreadsOK'
    BY <2>1, IdleFacts DEF ThreadsOK, ThreadOK
  <2>3. BooksOK' /\ LedgerOK'
    BY <2>1, QuietLedger DEF BrokerInv, BooksOK, FilledIsBacked, omsVars
  <2> QED BY <2>1, <2>2, <2>3 DEF BrokerInv
<1> QED BY <1>1, <1>2

\* Every step of every thread keeps the invariant.
LEMMA BrokerStep ==
  ASSUME BrokerInv, [BrokerNext]_brokerVars
  PROVE  BrokerInv'
<1>1. ASSUME NEW w \in Workers, Continue(w)
      PROVE  BrokerInv'
  BY <1>1, EvaluationStep, SizingStep, ReportStep, ClosingStep, ReplacingStep DEF Continue
<1>2. CASE UNCHANGED brokerVars
  <2>1. UNCHANGED <<omsVars, book, worker, crashes>>
    BY <1>2 DEF brokerVars
  <2>2. BooksOK' /\ ThreadsOK'
    BY <2>1 DEF BrokerInv, BooksOK, FilledIsBacked, ThreadsOK, ThreadOK, omsVars
  <2> QED BY <2>1, <2>2, QuietStep
<1> QED BY <1>1, <1>2, RequestStep, OutsideStep DEF BrokerNext

\* The invariant holds before the first request.
LEMMA BrokerInitially ==
  ASSUME BrokerInit
  PROVE  BrokerInv
<1>1. LedgerTypeOK /\ RowsOK /\ NumbersOK
  BY InitFacts, InitNumbers DEF BrokerInit
<1>2. FokIsAllOrNothing
  BY DEF BrokerInit, OmsInit, NoOrder, NewRow, FokIsAllOrNothing
<1>3. BooksOK
  BY DEF BrokerInit, BooksOK, FilledIsBacked, BookStatuses
<1>4. ThreadsOK
  BY IdleFacts DEF BrokerInit, ThreadsOK
<1>5. crashes \in 0..MaxCrashes
  BY BrokerAssumption DEF BrokerInit
<1> QED BY <1>1, <1>2, <1>3, <1>4, <1>5 DEF BrokerInv, LedgerOK

-----------------------------------------------------------------------------
(* Theorems *)

\* BrokerInv is inductive, for any number of threads and any interleaving of them.
THEOREM BrokerInvariant == BrokerSpec => []BrokerInv
<1>1. BrokerInit => BrokerInv
  BY BrokerInitially
<1>2. BrokerInv /\ [BrokerNext]_brokerVars => BrokerInv'
  BY BrokerStep
<1> QED BY <1>1, <1>2, PTL DEF BrokerSpec

\* Rows, threads and steps keep their types.
THEOREM BrokerTypes == BrokerSpec => []BrokerTypeOK
<1>1. BrokerInv => BrokerTypeOK
  BY DEF BrokerInv, BooksOK, ThreadsOK, ThreadOK, BrokerTypeOK, At, OrderOf
<1> QED BY <1>1, BrokerInvariant, PTL

\* An order the broker shows as filled is filled in the ledger, whatever threads
\* interleave, whatever they have read and wherever the process stops.
THEOREM BackedFills == BrokerSpec => []FilledIsBacked
<1>1. BrokerInv => FilledIsBacked
  BY DEF BrokerInv, BooksOK
<1> QED BY <1>1, BrokerInvariant, PTL

\* A fok order fills whole or not at all, however many ticks evaluate it at once.
THEOREM WholeFok == BrokerSpec => []FokIsAllOrNothing
<1>1. BrokerInv => FokIsAllOrNothing
  BY DEF BrokerInv, LedgerOK
<1> QED BY <1>1, BrokerInvariant, PTL

\* Threads that number their fills from the same count never take a number twice
\* nor leave one out, and no order fills beyond its quantity.
THEOREM ConcurrentFillsAreNumbered == BrokerSpec => []FillsAreNumbered
<1>1. BrokerInv => FillsAreNumbered
  BY DEF BrokerInv, LedgerOK, RowsOK, RowOK, NumbersOK, FillsAreNumbered
<1> QED BY <1>1, BrokerInvariant, PTL

-----------------------------------------------------------------------------
(* The money, when several threads report *)

\* Only a report of a thread changes the ledger.
LEMMA LedgerSteps ==
  ASSUME [BrokerNext]_brokerVars
  PROVE  \/ UNCHANGED omsVars
         \/ \E w \in Workers, price \in Prices : Report(w, price)
<1>1. ASSUME NEW w \in Workers, Request(w)
      PROVE  UNCHANGED omsVars
  BY <1>1 DEF Request, Submit, Tick, StartCancel, StartExpire, StartReplace, NoOmsChange, ReadsOnly
<1>2. ASSUME NEW w \in Workers, Continue(w)
      PROVE  UNCHANGED omsVars \/ \E price \in Prices : Report(w, price)
  <2>1. CASE ReadSubmitted(w) \/ WriteAcknowledged(w) \/ Evaluate(w) \/ Act(w)
    BY <2>1 DEF ReadSubmitted, WriteAcknowledged, Evaluate, Act, NoOmsChange, ReadsOnly
  <2>2. CASE ReadPosition(w) \/ Measure(w) \/ \E quantity \in 0..worker[w].quantity : Number(w, quantity)
    BY <2>2 DEF ReadPosition, Measure, Number, ReadsOnly
  <2>3. CASE ReportRaises(w) \/ Record(w) \/ Rest(w) \/ Withdraw(w)
    BY <2>3 DEF ReportRaises, Record, Rest, Withdraw, NoOmsChange, ReadsOnly
  <2>4. CASE Cancel(w) \/ Expire(w) \/ Replace(w)
    BY <2>4 DEF Cancel, Expire, Replace, NoOmsChange
  <2> QED BY <1>2, <2>1, <2>2, <2>3, <2>4 DEF Continue
<1>3. CASE (\E o \in Orders : GetOrder(o)) \/ Crash
  BY <1>3 DEF GetOrder, Crash
<1>4. CASE UNCHANGED brokerVars
  BY <1>4 DEF brokerVars
<1> QED BY <1>1, <1>2, <1>3, <1>4 DEF BrokerNext

\* Every step of every thread keeps the sums of the ledger, and keeps the cash
\* from being overspent.
LEMMA BrokerMoneyStep ==
  ASSUME BrokerInv, MoneyOK, [BrokerNext]_brokerVars
  PROVE  /\ MoneyOK'
         /\ SalesEarn' /\ CashIsNotSpentTwice => CashIsNotSpentTwice'
<1>1. CASE UNCHANGED omsVars
  BY <1>1 DEF omsVars, ledgerVars, borrowVars, MoneyOK, HasFill, FillsMatchOrders, FillsOf,
              CashIsSettledPlusPending, CashIsNotSpentTwice
<1>2. ASSUME NEW w \in Workers, NEW price \in Prices, Report(w, price)
      PROVE  MoneyOK' /\ (SalesEarn' /\ CashIsNotSpentTwice => CashIsNotSpentTwice')
  <2> DEFINE o == OrderOf(w)
             t == worker[w]
  <2>1. /\ ReportTypes(o, ActionOf(w), Quantity(o), t.seq, t.quantity, price)
        /\ SubmitPartialFill(o, ActionOf(w), Quantity(o), t.seq, t.quantity, price)
    BY <1>2, ReportOfThread
  <2>2. LedgerTypeOK /\ RowsOK /\ NumbersOK
    BY DEF BrokerInv, LedgerOK
  <2> HIDE DEF o, t
  <2>3. MoneyOK'
    BY <2>1, <2>2, ReportKeepsMoney
  <2>4. SalesEarn' /\ cash >= 0 => cash' >= 0
    BY <2>1, <2>2, ReportKeepsCover
  <2> QED BY <2>3, <2>4 DEF CashIsNotSpentTwice
<1> QED BY <1>1, <1>2, LedgerSteps

\* The sums of the ledger are right whatever reports cross.
LEMMA BrokerMoney == BrokerSpec => []MoneyOK
<1>1. BrokerInit => BrokerInv /\ MoneyOK
  BY BrokerInitially, InitMoney DEF BrokerInit
<1>2. BrokerInv /\ MoneyOK /\ [BrokerNext]_brokerVars => BrokerInv' /\ MoneyOK'
  BY BrokerStep, BrokerMoneyStep
<1> QED BY <1>1, <1>2, PTL DEF BrokerSpec

\* The threads' reports add up in the rows and in the cash, in any order: no fill
\* is lost or booked twice.
THEOREM ConcurrentFillsAddUp == BrokerSpec => [](FillsMatchOrders /\ CashIsSettledPlusPending)
<1>1. MoneyOK => FillsMatchOrders /\ CashIsSettledPlusPending
  BY DEF MoneyOK
<1> QED BY <1>1, BrokerMoney, PTL

\* As long as no sale costs more than it brings, no two purchases spend the same
\* cash, however many threads previewed them against it.
THEOREM CashSpentOnce == BrokerSpec /\ []SalesEarn => []CashIsNotSpentTwice
<1>1. BrokerInit => BrokerInv /\ MoneyOK /\ CashIsNotSpentTwice
  <2>1. BrokerInit => CashIsNotSpentTwice
    BY OmsAssumption DEF BrokerInit, OmsInit, CashIsNotSpentTwice
  <2> QED BY <2>1, BrokerInitially, InitMoney DEF BrokerInit
<1>2. BrokerInv /\ MoneyOK /\ CashIsNotSpentTwice /\ SalesEarn' /\ [BrokerNext]_brokerVars
        => BrokerInv' /\ MoneyOK' /\ CashIsNotSpentTwice'
  BY BrokerStep, BrokerMoneyStep
<1> QED BY <1>1, <1>2, PTL DEF BrokerSpec

-----------------------------------------------------------------------------
(* One thread at a time: the life of an order *)

\* One request at a time; other calls only read orders (get_order).
OneAtOnce == \A v, w \in Workers : v = w

\* An ioc order is not replaced.
PlainReplacements == \A o \in Orders : OldOrder(o) # NoOne => Tif(o) # "ioc"

\* What the ledger has of the order closes its row when it is reconciled.
Finished(o) ==
  /\ orders[o].count > 0
  /\ \/ orders[o].filled = Quantity(o) /\ orders[o].status = "filled"
     \/ /\ orders[o].filled # Quantity(o) /\ orders[o].status = "partially_filled"
        /\ Tif(o) = "ioc"

\* The row is open and stays open until its thread writes it.
Standing(o) == IsOpen(o) /\ ~Finished(o)

\* What the only thread knows of its row, whoever reads the order in between.
SerialThread(t) ==
  /\ t.pc \in {"acknowledge", "acknowledged", "act", "fill", "measure", "number", "report",
               "rest", "withdraw", "replace"} => Standing(t.order)
  /\ t.pc \in {"evaluate", "record", "cancel", "expire"} => book[t.order] # "none"
  /\ t.pc = "record" => \/ t.status \in FinalStatuses
                        \/ t.status = "partially_filled" /\ Standing(t.order)
  /\ t.pc = "replace" => /\ OldOrder(t.new) = t.order
                         /\ Quantity(t.new) <= Remaining(t.order)

\* An order without a row is unknown to the ledger.
SerialOK ==
  /\ \A o \in Orders : book[o] = "none" => orders[o] = NoOrder
  /\ \A w \in Workers : SerialThread(worker[w])

\* A row is in one of three phases.
LEMMA PhaseFacts ==
  ASSUME BooksOK, NEW o \in Orders
  PROVE  /\ book[o] \in OpenStatuses <=> Phase(o) = "live"
         /\ book[o] \in FinalStatuses <=> Phase(o) = "closed"
         /\ book[o] = "none" <=> Phase(o) = "new"
BY DEF BooksOK, BookStatuses, OpenStatuses, FinalStatuses, Phase, IsOpen

\* Reconciliation closes the open rows that are finished.
LEMMA ReconciledPhase ==
  ASSUME BooksOK, NEW o \in Orders
  PROVE  /\ ~IsOpen(o) => Reconciled(o) = book[o]
         /\ Standing(o) => Reconciled(o) \in OpenStatuses
         /\ IsOpen(o) /\ Finished(o) => Reconciled(o) \in FinalStatuses
BY DEF BooksOK, BookStatuses, OpenStatuses, FinalStatuses, IsOpen, Standing, Finished, Reconciled

\* What the steps of the broker do to one row is what the lifecycle allows.
LEMMA RowMoves ==
  ASSUME BrokerInv, BooksOK', UNCHANGED orders, NEW o \in Orders,
         \A x \in Orders \ {o} : book'[x] = book[x],
         \/ book'[o] = book[o]
         \/ IsOpen(o) /\ book'[o] # "none"
         \/ book[o] \in FinalStatuses /\ book'[o] \in FinalStatuses
         \/ book[o] = "none" /\ OldOrder(o) = NoOne /\ book'[o] # "none"
  PROVE  [Lifecycle!Next]_(Lifecycle!vars)
<1> DEFINE phases == [x \in Orders |-> Phase(x)]
           fill   == [x \in Orders |-> orders[x].filled]
<1>1. fill' = fill
  OBVIOUS
<1>2. BooksOK
  BY DEF BrokerInv
<1>3. \A x \in Orders \ {o} : Phase(x)' = Phase(x)
  BY DEF Phase, IsOpen
<1>4. phases' = [phases EXCEPT ![o] = Phase(o)']
  BY <1>3
<1>5. Phase(o) \in {"new", "live", "closed"} /\ Phase(o)' \in {"new", "live", "closed"}
  BY DEF Phase
<1>6. \/ Phase(o)' = Phase(o)
      \/ Phase(o) = "live" /\ Phase(o)' = "closed"
      \/ Phase(o) = "new" /\ OldOrder(o) = NoOne /\ Phase(o)' \in {"live", "closed"}
  <2>1. /\ book[o] \in OpenStatuses <=> Phase(o) = "live"
        /\ book[o] \in FinalStatuses <=> Phase(o) = "closed"
        /\ book[o] = "none" <=> Phase(o) = "new"
    BY <1>2, PhaseFacts
  <2>2. /\ book'[o] \in FinalStatuses <=> Phase(o)' = "closed"
        /\ book'[o] = "none" <=> Phase(o)' = "new"
    BY DEF BooksOK, BookStatuses, OpenStatuses, FinalStatuses, Phase, IsOpen
  <2>3. book'[o] = book[o] => Phase(o)' = Phase(o)
    BY DEF Phase, IsOpen
  <2> QED BY <1>5, <2>1, <2>2, <2>3 DEF IsOpen
<1> HIDE DEF phases, fill
<1>7. CASE Phase(o)' = Phase(o)
  <2>1. phases' = phases
    BY <1>4, <1>7 DEF phases
  <2> QED BY <1>1, <2>1 DEF Lifecycle!vars, phases, fill
<1>8. CASE Phase(o) = "live" /\ Phase(o)' = "closed"
  <2>1. phases[o] = "live" /\ phases' = [phases EXCEPT ![o] = "closed"]
    BY <1>4, <1>8 DEF phases
  <2>2. Lifecycle!Close(o)
    BY <1>1, <2>1 DEF Lifecycle!Close, phases, fill
  <2> QED BY <2>2 DEF Lifecycle!Next
<1>9. CASE Phase(o) = "new" /\ OldOrder(o) = NoOne /\ Phase(o)' \in {"live", "closed"}
  <2>1. phases[o] = "new" /\ phases' = [phases EXCEPT ![o] = Phase(o)']
    BY <1>4, <1>9 DEF phases
  <2>2. [x \in Orders |-> OldOrder(x)][o] = NoOne
    BY <1>9
  <2>3. Lifecycle!Accept(o) \/ Lifecycle!TurnAway(o)
    BY <1>1, <1>9, <2>1, <2>2 DEF Lifecycle!Accept, Lifecycle!TurnAway, phases, fill
  <2> QED BY <2>3 DEF Lifecycle!Next
<1> QED BY <1>6, <1>7, <1>8, <1>9

\* A report of a live order is a fill of the lifecycle, or nothing.
LEMMA FillMoves ==
  ASSUME BrokerInv, NEW w \in Workers, NEW price \in Prices, Report(w, price), IsOpen(OrderOf(w))
  PROVE  [Lifecycle!Next]_(Lifecycle!vars)
<1> DEFINE q == worker[w].quantity
<1>0. PICK o \in Orders : o = OrderOf(w)
  BY BusyFacts DEF Report, At
<1> DEFINE phases == [x \in Orders |-> Phase(x)]
           fill   == [x \in Orders |-> orders[x].filled]
           size   == [x \in Orders |-> Quantity(x)]
<1>1. /\ ReportTypes(o, ActionOf(w), Quantity(o), worker[w].seq, q, price)
      /\ SubmitPartialFill(o, ActionOf(w), Quantity(o), worker[w].seq, q, price)
  BY <1>0, ReportOfThread
<1>2. /\ o \in Orders /\ q \in Nat \ {0} /\ Ticket[o].quantity \in Nat \ {0}
      /\ orders[o].filled \in Nat
  BY <1>1, OmsAssumption DEF ReportTypes, BrokerInv, LedgerOK, LedgerTypeOK, OrderRowType
<1>3. /\ \A x \in Orders \ {o} : orders'[x] = orders[x]
      /\ \/ orders'[o].filled = orders[o].filled
         \/ /\ orders[o].filled < Ticket[o].quantity
            /\ orders'[o].filled = orders[o].filled
                 + Smaller(NonNegative(Ticket[o].quantity - orders[o].filled), q)
  BY <1>1, ReportEffect DEF BrokerInv, LedgerOK
<1>4. UNCHANGED book /\ Phase(o) = "live"
  BY <1>0 DEF Report, Phase, IsOpen, OpenStatuses
<1>5. phases' = phases /\ phases[o] = "live"
  BY <1>2, <1>4 DEF Phase, IsOpen
<1>6. CASE orders'[o].filled = orders[o].filled
  <2>1. fill' = fill
    BY <1>3, <1>6
  <2> QED BY <1>5, <2>1 DEF Lifecycle!vars
<1>7. CASE /\ orders[o].filled < Ticket[o].quantity
           /\ orders'[o].filled = orders[o].filled
                + Smaller(NonNegative(Ticket[o].quantity - orders[o].filled), q)
  <2>1. PICK more \in 1..Quantity(o) :
          /\ orders[o].filled + more <= Quantity(o)
          /\ orders'[o].filled = orders[o].filled + more
    BY <1>2, <1>7 DEF Smaller, NonNegative, Quantity
  <2>3. fill' = [fill EXCEPT ![o] = @ + more]
    BY <1>2, <1>3, <2>1
  <2>4. fill[o] + more <= size[o] /\ more \in 1..size[o]
    BY <1>2, <2>1
  <2> HIDE DEF fill, phases, size
  <2>5. Lifecycle!Fill(o, more)
    BY <1>5, <2>3, <2>4 DEF Lifecycle!Fill, fill, phases, size
  <2>6. \E quantity \in 1..size[o] : Lifecycle!Fill(o, quantity)
    BY <2>4, <2>5
  <2> QED BY <1>2, <2>6 DEF Lifecycle!Next, size
<1> QED BY <1>3, <1>6, <1>7

\* The transaction of a replacement is the replacement of the lifecycle.
LEMMA ReplacementMoves ==
  ASSUME BrokerInv, UNCHANGED orders, NEW o \in Orders, NEW new \in Orders,
         IsOpen(o), book[new] = "none", OldOrder(new) = o, Quantity(new) <= Remaining(o),
         book' = [book EXCEPT ![o] = "replaced", ![new] = "submitted"]
  PROVE  [Lifecycle!Next]_(Lifecycle!vars)
<1> DEFINE phases == [x \in Orders |-> Phase(x)]
           fill   == [x \in Orders |-> orders[x].filled]
           size   == [x \in Orders |-> Quantity(x)]
           old    == [x \in Orders |-> OldOrder(x)]
<1>1. o # new /\ book \in [Orders -> BookStatuses]
  BY DEF IsOpen, OpenStatuses, BrokerInv, BooksOK
<1>2. book'[o] = "replaced" /\ book'[new] = "submitted"
      /\ \A x \in Orders \ {o, new} : book'[x] = book[x]
  BY <1>1
<1>3. Phase(o) = "live" /\ Phase(o)' = "closed" /\ Phase(new) = "new" /\ Phase(new)' = "live"
  BY <1>2 DEF Phase, IsOpen, OpenStatuses
<1>4. \A x \in Orders \ {o, new} : Phase(x)' = Phase(x)
  BY <1>2 DEF Phase, IsOpen
<1>5. phases' = [phases EXCEPT ![new] = "live", ![o] = "closed"]
  BY <1>1, <1>3, <1>4
<1>6. phases[new] = "new" /\ phases[o] = "live" /\ fill' = fill
  BY <1>3
<1>7. old[new] = o /\ old[new] # NoOne
  BY BrokerAssumption
<1>8. size[new] <= size[o] - fill[o]
  <2>1. orders[o].filled \in Nat /\ Quantity(o) \in Nat \ {0} /\ Quantity(new) \in Nat \ {0}
    BY OmsAssumption DEF BrokerInv, LedgerOK, LedgerTypeOK, OrderRowType, Quantity
  <2>2. Quantity(new) <= Quantity(o) - orders[o].filled
    BY <2>1 DEF Remaining, NonNegative
  <2> QED BY <2>2
<1> HIDE DEF phases, fill, size, old
<1>9. phases[old[new]] = "live" /\ size[new] <= size[old[new]] - fill[old[new]]
      /\ phases' = [phases EXCEPT ![new] = "live", ![old[new]] = "closed"]
  BY <1>5, <1>6, <1>7, <1>8
<1>10. Lifecycle!Replace(new)
  BY <1>6, <1>7, <1>9 DEF Lifecycle!Replace, phases, fill, size, old
<1> QED BY <1>10 DEF Lifecycle!Next

\* The thread moves on and its row stays true to what it knows; no row vanishes.
LEMMA SerialMoves ==
  ASSUME BrokerInv, SerialOK, OneAtOnce, NEW w \in Workers,
         SerialThread(worker[w])',
         \A o \in Orders : book'[o] = "none" => orders'[o] = NoOrder
  PROVE  SerialOK'
<1>1. \A v \in Workers : v = w
  BY DEF OneAtOnce
<1> QED BY <1>1 DEF SerialOK

\* A step that writes one row at most and keeps what the thread knows.
LEMMA SerialRow ==
  ASSUME BrokerInv, BrokerInv', SerialOK, OneAtOnce, UNCHANGED orders,
         NEW w \in Workers, SerialThread(worker[w])', NEW o \in Orders,
         \A x \in Orders \ {o} : book'[x] = book[x],
         \/ book'[o] = book[o]
         \/ IsOpen(o) /\ book'[o] # "none"
         \/ book[o] \in FinalStatuses /\ book'[o] \in FinalStatuses
         \/ book[o] = "none" /\ OldOrder(o) = NoOne /\ book'[o] # "none"
  PROVE  SerialOK' /\ [Lifecycle!Next]_(Lifecycle!vars)
<1>1. "none" \notin FinalStatuses
  BY DEF FinalStatuses
<1>2. \A x \in Orders : book'[x] = "none" => orders'[x] = NoOrder
  BY <1>1 DEF SerialOK
<1>3. BooksOK'
  BY DEF BrokerInv
<1> QED BY <1>2, <1>3, SerialMoves, RowMoves

\* What the thread does next.
LEMMA NextStep ==
  ASSUME BrokerInv, NEW w \in Workers, NEW t, GoesOn(w, t)
  PROVE  worker'[w] = t
BY DEF BrokerInv, ThreadsOK, GoesOn

LEMMA Fields ==
  ASSUME NEW pc, NEW o
  PROVE  /\ Step(pc, o).pc = pc /\ Step(pc, o).order = o
         /\ Idle.pc = "idle"
BY DEF Step, Sized, Idle

\* What the thread is to write.
LEMMA Carries ==
  ASSUME BrokerInv, NEW w \in Workers, NEW pc, NEW o, NEW status,
         GoesOn(w, [Step(pc, o) EXCEPT !.status = status])
  PROVE  worker'[w].pc = pc /\ worker'[w].order = o /\ worker'[w].status = status
<1> DEFINE t == [Step(pc, o) EXCEPT !.status = status]
<1>1. t.pc = pc /\ t.order = o /\ t.status = status
  BY DEF Step, Sized
<1> HIDE DEF t
<1>2. worker'[w] = t
  BY NextStep DEF t
<1> QED BY <1>1, <1>2

\* A row that was written has its status, the others stay.
LEMMA Written ==
  ASSUME BrokerInv, NEW o \in Orders, NEW status, Write(o, status)
  PROVE  book'[o] = status /\ \A x \in Orders \ {o} : book'[x] = book[x]
BY DEF BrokerInv, BooksOK, Write

\* A thread that is done knows nothing.
LEMMA SerialReturns ==
  ASSUME BrokerInv, NEW w \in Workers, GoesOn(w, Idle)
  PROVE  SerialThread(worker[w])'
<1>1. worker'[w].pc = "idle"
  BY NextStep, Fields
<1> QED BY <1>1 DEF SerialThread

\* A request that starts.
LEMMA SerialRequest ==
  ASSUME BrokerInv, BrokerInv', SerialOK, OneAtOnce, PlainReplacements,
         NEW w \in Workers, Request(w)
  PROVE  SerialOK' /\ [Lifecycle!Next]_(Lifecycle!vars)
<1>1. PICK o \in Orders :
        \/ \E price \in Prices : Submit(w, o, price)
        \/ Tick(w, o) \/ StartCancel(w, o) \/ StartExpire(w, o)
        \/ \E new \in Orders, price \in Prices : StartReplace(w, o, new, price)
  BY DEF Request
<1>2. UNCHANGED orders
  BY DEF Request, Submit, Tick, StartCancel, StartExpire, StartReplace, NoOmsChange, ReadsOnly,
         omsVars
<1>3. ASSUME NEW price \in Prices, Submit(w, o, price)
      PROVE  SerialOK' /\ [Lifecycle!Next]_(Lifecycle!vars)
  <2>1. book[o] = "none" /\ OldOrder(o) = NoOne /\ orders[o].count = 0
    BY <1>3 DEF Submit, SerialOK, NoOrder, NewRow
  <2>2. CASE Write(o, "submitted") /\ GoesOn(w, Step("acknowledge", o))
    <3>1. book'[o] = "submitted" /\ \A x \in Orders \ {o} : book'[x] = book[x]
      BY <2>2, Written
    <3>2. worker'[w].pc = "acknowledge" /\ worker'[w].order = o
      BY <2>2, NextStep, Fields
    <3>3. SerialThread(worker[w])'
      BY <1>2, <2>1, <3>1, <3>2 DEF SerialThread, Standing, Finished, IsOpen, OpenStatuses
    <3> QED BY <1>2, <2>1, <3>1, <3>3, SerialRow
  <2>3. CASE At(w, "idle") /\ Write(o, "rejected") /\ UNCHANGED worker
    <3>1. book'[o] = "rejected" /\ \A x \in Orders \ {o} : book'[x] = book[x]
      BY <2>3, Written
    <3>2. SerialThread(worker[w])'
      BY <2>3 DEF SerialThread, At
    <3> QED BY <1>2, <2>1, <3>1, <3>2, SerialRow
  <2> QED BY <1>3, <2>2, <2>3 DEF Submit, Starts
<1>4. CASE Tick(w, o) \/ StartCancel(w, o) \/ StartExpire(w, o)
  <2>1. PICK pc \in {"evaluate", "cancel", "expire"} :
          GoesOn(w, Step(pc, o)) /\ UNCHANGED book /\ IsOpen(o)
    BY <1>4 DEF Tick, StartCancel, StartExpire, Starts, ReadsOnly
  <2>2. worker'[w].pc = pc /\ worker'[w].order = o
    BY <2>1, NextStep, Fields
  <2>3. SerialThread(worker[w])'
    BY <2>1, <2>2 DEF SerialThread, IsOpen, OpenStatuses
  <2> QED BY <1>2, <2>1, <2>3, SerialRow
<1>5. ASSUME NEW new \in Orders, NEW price \in Prices, StartReplace(w, o, new, price)
      PROVE  SerialOK' /\ [Lifecycle!Next]_(Lifecycle!vars)
  <2>1. /\ OldOrder(new) = o /\ IsOpen(o) /\ Tif(new) = Tif(o) /\ Quantity(new) <= Remaining(o)
        /\ GoesOn(w, [Step("replace", o) EXCEPT !.new = new]) /\ UNCHANGED book
    BY <1>5 DEF StartReplace, Replaceable, ReadsOnly
  <2>2. worker'[w].pc = "replace" /\ worker'[w].order = o /\ worker'[w].new = new
    <3> DEFINE t == [Step("replace", o) EXCEPT !.new = new]
    <3>1. t.pc = "replace" /\ t.order = o /\ t.new = new
      BY DEF Step, Sized
    <3> HIDE DEF t
    <3>2. worker'[w] = t
      BY <2>1, NextStep DEF t
    <3> QED BY <3>1, <3>2
  <2>3. Tif(o) # "ioc"
    BY <2>1, BrokerAssumption DEF PlainReplacements
  <2>4. orders[o].filled # Quantity(o)
    <3>1. orders[o].filled \in Nat /\ Quantity(o) \in Nat \ {0} /\ Quantity(new) \in Nat \ {0}
      BY OmsAssumption DEF BrokerInv, LedgerOK, LedgerTypeOK, OrderRowType, Quantity
    <3> QED BY <2>1, <3>1 DEF Remaining, NonNegative
  <2>5. Standing(o)
    BY <2>1, <2>3, <2>4 DEF Standing, Finished
  <2>6. Standing(o)' /\ Quantity(new) <= Remaining(o)'
    BY <1>2, <2>1, <2>5 DEF Standing, Finished, IsOpen, Remaining
  <2>7. SerialThread(worker[w])'
    BY <2>1, <2>2, <2>6 DEF SerialThread, Remaining
  <2> QED BY <1>2, <2>1, <2>7, SerialRow
<1> QED BY <1>1, <1>3, <1>4, <1>5

\* What the thread knows of its row, in the order of its steps.
LEMMA SerialKnows ==
  ASSUME BrokerInv, SerialOK, NEW w \in Workers, ~At(w, "idle")
  PROVE  LET t == worker[w]
             o == OrderOf(w)
         IN /\ o \in Orders /\ t.order = o
            /\ book[o] \in OpenStatuses \/ book[o] \in FinalStatuses \/ book[o] = "none"
            /\ t.pc \in {"acknowledge", "acknowledged", "act", "fill", "measure", "number", "report",
                         "rest", "withdraw", "replace"} => Standing(o)
            /\ t.pc \in {"evaluate", "record", "cancel", "expire"} => book[o] # "none"
            /\ t.pc = "record" => \/ t.status \in FinalStatuses
                                  \/ t.status = "partially_filled" /\ Standing(o)
            /\ t.pc = "replace" => /\ t.new \in Orders /\ OldOrder(t.new) = o
                                   /\ Quantity(t.new) <= Remaining(o)
<1>1. OrderOf(w) \in Orders /\ ThreadOK(worker[w]) /\ SerialThread(worker[w])
  BY BusyFacts DEF SerialOK
<1>2. book[OrderOf(w)] \in BookStatuses
  BY <1>1 DEF BrokerInv, BooksOK
<1> QED BY <1>1, <1>2 DEF SerialThread, ThreadOK, OrderOf, BookStatuses

\* Acknowledging an order and evaluating it.
LEMMA SerialEvaluation ==
  ASSUME BrokerInv, BrokerInv', SerialOK, OneAtOnce, NEW w \in Workers,
         ReadSubmitted(w) \/ WriteAcknowledged(w) \/ Evaluate(w) \/ Act(w)
  PROVE  SerialOK' /\ [Lifecycle!Next]_(Lifecycle!vars)
<1>1. ~At(w, "idle") /\ UNCHANGED orders
  BY DEF ReadSubmitted, WriteAcknowledged, Evaluate, Act, At, NoOmsChange, ReadsOnly, omsVars
<1>2. PICK o \in Orders : o = OrderOf(w)
  BY <1>1, BusyFacts
<1>3. /\ book[o] \in OpenStatuses \/ book[o] \in FinalStatuses \/ book[o] = "none"
      /\ At(w, "acknowledge") \/ At(w, "acknowledged") \/ At(w, "act") => Standing(o)
      /\ At(w, "evaluate") => book[o] # "none"
  BY <1>1, <1>2, SerialKnows DEF At
<1>4. CASE ReadSubmitted(w)
  <2>1. PICK pc \in {"acknowledged", "evaluate"} : GoesOn(w, Step(pc, o)) /\ UNCHANGED book
    BY <1>2, <1>4 DEF ReadSubmitted, ReadsOnly
  <2>2. worker'[w].pc = pc /\ worker'[w].order = o /\ Standing(o)
    BY <1>3, <1>4, <2>1, NextStep, Fields DEF ReadSubmitted
  <2>3. SerialThread(worker[w])'
    BY <1>1, <2>1, <2>2 DEF SerialThread, Standing, Finished, IsOpen, OpenStatuses
  <2> QED BY <1>1, <2>1, <2>3, SerialRow
<1>5. CASE WriteAcknowledged(w)
  <2>1. Write(o, "acknowledged") /\ GoesOn(w, Step("evaluate", o)) /\ Standing(o)
    BY <1>2, <1>3, <1>5 DEF WriteAcknowledged
  <2>2. book'[o] = "acknowledged" /\ \A x \in Orders \ {o} : book'[x] = book[x]
    BY <2>1, Written
  <2>3. worker'[w].pc = "evaluate" /\ worker'[w].order = o
    BY <2>1, NextStep, Fields
  <2>4. SerialThread(worker[w])'
    BY <2>2, <2>3 DEF SerialThread
  <2> QED BY <1>1, <2>1, <2>2, <2>4, SerialRow DEF Standing
<1>6. CASE Evaluate(w)
  <2>1. /\ Write(o, Reconciled(o)) /\ book[o] # "none"
        /\ \/ GoesOn(w, Idle)
           \/ /\ Reconciled(o) \notin FinalStatuses
              /\ GoesOn(w, [Step("act", o) EXCEPT !.status = Reconciled(o)])
    BY <1>2, <1>3, <1>6 DEF Evaluate
  <2>2. book'[o] = Reconciled(o) /\ \A x \in Orders \ {o} : book'[x] = book[x]
    BY <2>1, Written
  <2>3. /\ ~IsOpen(o) => Reconciled(o) = book[o] /\ book[o] \in FinalStatuses
        /\ Standing(o) => Reconciled(o) \in OpenStatuses
        /\ IsOpen(o) /\ ~Standing(o) => Reconciled(o) \in FinalStatuses
    BY <1>3, <2>1, ReconciledPhase DEF BrokerInv, IsOpen, Standing
  <2>4. SerialThread(worker[w])'
    <3>1. CASE GoesOn(w, Idle)
      BY <3>1, SerialReturns
    <3>2. CASE /\ Reconciled(o) \notin FinalStatuses
               /\ GoesOn(w, [Step("act", o) EXCEPT !.status = Reconciled(o)])
      <4>1. worker'[w].pc = "act" /\ worker'[w].order = o
        BY <3>2, Carries
      <4>2. Standing(o) /\ book'[o] \in OpenStatuses
        BY <2>2, <2>3, <3>2
      <4> QED BY <1>1, <4>1, <4>2 DEF SerialThread, Standing, Finished, IsOpen
    <3> QED BY <2>1, <3>1, <3>2
  <2>5. book'[o] # "none"
    BY <2>2, <2>3 DEF OpenStatuses, FinalStatuses
  <2> QED BY <1>1, <2>2, <2>3, <2>4, <2>5, SerialRow
<1>7. CASE Act(w)
  <2>1. Standing(o)
    BY <1>3, <1>7 DEF Act
  <2>2. CASE ActRest(w) \/ ActExpire(w)
    <3>1. PICK status \in {"canceled", "partially_filled", "open", "expired"} :
            Write(o, status) /\ GoesOn(w, Idle)
      BY <1>2, <2>2 DEF ActRest, ActExpire, RestStatus, Returns
    <3>2. book'[o] # "none" /\ \A x \in Orders \ {o} : book'[x] = book[x]
      BY <3>1, Written
    <3>3. SerialThread(worker[w])'
      BY <3>1, SerialReturns
    <3> QED BY <1>1, <2>1, <3>2, <3>3, SerialRow DEF Standing
  <2>3. CASE ActWait(w) \/ ActFill(w)
    <3>1. PICK pc \in {"rest", "fill"} : GoesOn(w, Step(pc, o)) /\ UNCHANGED book
      BY <1>2, <2>3 DEF ActWait, ActFill
    <3>2. worker'[w].pc = pc /\ worker'[w].order = o
      BY <3>1, NextStep, Fields
    <3>3. SerialThread(worker[w])'
      BY <1>1, <2>1, <3>1, <3>2 DEF SerialThread, Standing, Finished, IsOpen
    <3> QED BY <1>1, <3>1, <3>3, SerialRow
  <2>4. CASE ActTrigger(w)
    <3>1. Write(o, "open") /\ GoesOn(w, Step("fill", o))
      BY <1>2, <2>4 DEF ActTrigger
    <3>2. book'[o] = "open" /\ \A x \in Orders \ {o} : book'[x] = book[x]
      BY <3>1, Written
    <3>3. worker'[w].pc = "fill" /\ worker'[w].order = o
      BY <3>1, NextStep, Fields
    <3>4. SerialThread(worker[w])'
      BY <1>1, <2>1, <3>2, <3>3 DEF SerialThread, Standing, Finished, IsOpen, OpenStatuses
    <3> QED BY <1>1, <2>1, <3>2, <3>4, SerialRow DEF Standing
  <2> QED BY <1>7, <2>2, <2>3, <2>4 DEF Act
<1> QED BY <1>4, <1>5, <1>6, <1>7

\* Sizing a fill.
LEMMA SerialSizing ==
  ASSUME BrokerInv, BrokerInv', SerialOK, OneAtOnce, NEW w \in Workers,
         ReadPosition(w) \/ Measure(w) \/ \E quantity \in 0..worker[w].quantity : Number(w, quantity)
  PROVE  SerialOK' /\ [Lifecycle!Next]_(Lifecycle!vars)
<1>1. ~At(w, "idle") /\ UNCHANGED <<orders, book>>
  BY DEF ReadPosition, Measure, Number, At, ReadsOnly, omsVars
<1>2. PICK o \in Orders : o = OrderOf(w)
  BY <1>1, BusyFacts
<1>3. Standing(o)
  BY <1>1, <1>2, SerialKnows DEF ReadPosition, Measure, Number, At
<1>4. \/ \E pc \in {"measure", "number", "report"} : \E held, quantity, seq :
           GoesOn(w, Sized(pc, o, held, quantity, seq))
      \/ \E pc \in {"withdraw", "rest"} : GoesOn(w, Step(pc, o))
      \/ GoesOn(w, [Step("record", o) EXCEPT !.status = "rejected"])
  BY <1>2 DEF ReadPosition, Measure, Number
<1>5. SerialThread(worker[w])'
  <2>1. ASSUME NEW pc \in {"measure", "number", "report"}, NEW held, NEW quantity, NEW seq,
               GoesOn(w, Sized(pc, o, held, quantity, seq))
        PROVE  worker'[w].pc = pc /\ worker'[w].order = o
    BY <2>1, NextStep DEF Sized
  <2>2. ASSUME NEW pc \in {"withdraw", "rest"}, GoesOn(w, Step(pc, o))
        PROVE  worker'[w].pc = pc /\ worker'[w].order = o
    BY <2>2, NextStep, Fields
  <2>3. CASE GoesOn(w, [Step("record", o) EXCEPT !.status = "rejected"])
    <3>1. worker'[w].pc = "record" /\ worker'[w].order = o /\ worker'[w].status = "rejected"
      BY <2>3, Carries
    <3> QED BY <1>1, <1>3, <3>1 DEF SerialThread, Standing, IsOpen, OpenStatuses, FinalStatuses
  <2>4. CASE \/ \E pc \in {"measure", "number", "report"} : \E held, quantity, seq :
                  GoesOn(w, Sized(pc, o, held, quantity, seq))
             \/ \E pc \in {"withdraw", "rest"} : GoesOn(w, Step(pc, o))
    <3>1. /\ worker'[w].pc \in {"measure", "number", "report", "withdraw", "rest"}
          /\ worker'[w].order = o
      BY <2>1, <2>2, <2>4
    <3> QED BY <1>1, <1>3, <3>1 DEF SerialThread, Standing, Finished, IsOpen
  <2> QED BY <1>4, <2>3, <2>4
<1> QED BY <1>1, <1>5, SerialRow

\* A report: the order fills while it is live, and the thread has its outcome.
LEMMA SerialReport ==
  ASSUME BrokerInv, BrokerInv', SerialOK, OneAtOnce,
         NEW w \in Workers, NEW price \in Prices, Report(w, price)
  PROVE  SerialOK' /\ [Lifecycle!Next]_(Lifecycle!vars)
<1>1. PICK o \in Orders : o = OrderOf(w)
  BY BusyFacts DEF Report, At
<1>2. Standing(o) /\ UNCHANGED book
  BY <1>1, SerialKnows DEF Report, At
<1>3. [Lifecycle!Next]_(Lifecycle!vars)
  BY <1>1, <1>2, FillMoves DEF Standing
<1>4. \A x \in Orders \ {o} : orders'[x] = orders[x]
  BY <1>1, ReportOfThread, ReportEffect DEF BrokerInv, LedgerOK
<1>5. \A x \in Orders : book'[x] = "none" => orders'[x] = NoOrder
  BY <1>2, <1>4 DEF SerialOK, Standing, IsOpen, OpenStatuses
<1>6. SerialThread(worker[w])'
  <2> DEFINE shown  == orders'[o].status
             status == Outcome(o, shown)
  <2>1. status \in FinalStatuses \/ (status = "partially_filled" /\ shown = "partially_filled" /\ Tif(o) # "ioc")
    BY DEF Outcome, FinalStatuses
  <2>2. GoesOn(w, [Step("record", o) EXCEPT !.status = status])
    BY <1>1 DEF Report
  <2> HIDE DEF status
  <2>3. worker'[w].pc = "record" /\ worker'[w].order = o /\ worker'[w].status = status
    BY <2>2, Carries
  <2>4. status = "partially_filled" => Standing(o)' \/ status \in FinalStatuses
    BY <1>2, <2>1 DEF Standing, Finished, IsOpen, Tif
  <2>5. book'[o] # "none"
    BY <1>2 DEF Standing, IsOpen, OpenStatuses
  <2> QED BY <2>1, <2>3, <2>4, <2>5 DEF SerialThread
<1> QED BY <1>3, <1>5, <1>6, SerialMoves

\* Writing the outcome, resting, withdrawing and closing an order.
LEMMA SerialClosing ==
  ASSUME BrokerInv, BrokerInv', SerialOK, OneAtOnce, NEW w \in Workers,
         \/ ReportRaises(w) \/ Record(w) \/ Rest(w) \/ Withdraw(w)
         \/ Cancel(w) \/ Expire(w)
  PROVE  SerialOK' /\ [Lifecycle!Next]_(Lifecycle!vars)
<1>1. ~At(w, "idle") /\ UNCHANGED orders
  BY DEF ReportRaises, Record, Rest, Withdraw, Cancel, Expire, At, NoOmsChange, ReadsOnly, omsVars
<1>2. PICK o \in Orders : o = OrderOf(w)
  BY <1>1, BusyFacts
<1>3. GoesOn(w, Idle)
  BY DEF ReportRaises, Record, Rest, Withdraw, Cancel, Expire, Returns
<1>4. SerialThread(worker[w])'
  BY <1>3, SerialReturns
<1>5. book[o] \in OpenStatuses \/ book[o] \in FinalStatuses \/ book[o] = "none"
  BY <1>1, <1>2, SerialKnows
<1>6. CASE ReportRaises(w)
  <2>1. UNCHANGED book
    BY <1>6 DEF ReportRaises, ReadsOnly
  <2> QED BY <1>1, <1>4, <2>1, SerialRow
<1>7. ASSUME NEW status, Write(o, status), status # "none",
             IsOpen(o) \/ (book[o] # "none" /\ status \in FinalStatuses)
      PROVE  SerialOK' /\ [Lifecycle!Next]_(Lifecycle!vars)
  <2>1. book'[o] = status /\ \A x \in Orders \ {o} : book'[x] = book[x]
    BY <1>7, Written
  <2>2. IsOpen(o) \/ (book[o] \in FinalStatuses /\ book'[o] \in FinalStatuses)
    BY <1>5, <1>7, <2>1 DEF IsOpen
  <2> QED BY <1>1, <1>4, <1>7, <2>1, <2>2, SerialRow
<1>8. CASE Record(w)
  <2>1. /\ Write(o, worker[w].status) /\ book[o] # "none"
        /\ \/ worker[w].status \in FinalStatuses
           \/ worker[w].status = "partially_filled" /\ IsOpen(o)
    BY <1>1, <1>2, <1>8, SerialKnows DEF Record, At, Standing
  <2> QED BY <1>7, <2>1 DEF FinalStatuses
<1>9. CASE Rest(w) \/ Withdraw(w)
  <2>1. PICK status \in {"partially_filled", "open", "canceled"} : Write(o, status)
    BY <1>2, <1>9 DEF Rest, Withdraw
  <2>2. IsOpen(o)
    BY <1>1, <1>2, <1>9, SerialKnows DEF Rest, Withdraw, At, Standing
  <2> QED BY <1>7, <2>1, <2>2
<1>10. CASE Cancel(w) \/ Expire(w)
  <2>1. PICK status \in {"canceled", "expired"} : Write(o, status)
    BY <1>2, <1>10 DEF Cancel, Expire
  <2>2. book[o] # "none"
    BY <1>1, <1>2, <1>10, SerialKnows DEF Cancel, Expire, At
  <2> QED BY <1>7, <2>1, <2>2 DEF FinalStatuses
<1> QED BY <1>6, <1>8, <1>9, <1>10

\* The transaction of a replacement.
LEMMA SerialReplacement ==
  ASSUME BrokerInv, BrokerInv', SerialOK, OneAtOnce, NEW w \in Workers, Replace(w)
  PROVE  SerialOK' /\ [Lifecycle!Next]_(Lifecycle!vars)
<1>1. ~At(w, "idle") /\ UNCHANGED orders
  BY DEF Replace, At, NoOmsChange, omsVars
<1>2. PICK o \in Orders : o = OrderOf(w)
  BY <1>1, BusyFacts
<1>3. /\ Standing(o) /\ worker[w].new \in Orders /\ OldOrder(worker[w].new) = o
      /\ Quantity(worker[w].new) <= Remaining(o)
  BY <1>1, <1>2, SerialKnows DEF Replace, At
<1>4. PICK new \in Orders : new = worker[w].new
  BY <1>3
<1>5. CASE GoesOn(w, Idle) /\ UNCHANGED book
  <2>1. SerialThread(worker[w])'
    BY <1>5, SerialReturns
  <2> QED BY <1>1, <1>5, <2>1, SerialRow
<1>6. CASE /\ book[new] = "none"
           /\ book' = [book EXCEPT ![o] = "replaced", ![new] = "submitted"]
           /\ GoesOn(w, Step("acknowledge", new))
  <2>1. [Lifecycle!Next]_(Lifecycle!vars)
    BY <1>1, <1>3, <1>4, <1>6, ReplacementMoves DEF Standing
  <2>2. worker'[w].pc = "acknowledge" /\ worker'[w].order = new
    BY <1>6, NextStep, Fields
  <2>3. /\ book \in [Orders -> BookStatuses] /\ book'[new] = "submitted"
        /\ \A x \in Orders : book'[x] = "none" => book[x] = "none"
    BY <1>4, <1>6 DEF BrokerInv, BooksOK
  <2>4. orders'[new].count = 0
    BY <1>1, <1>4, <1>6 DEF SerialOK, NoOrder, NewRow
  <2>5. SerialThread(worker[w])'
    BY <2>2, <2>3, <2>4 DEF SerialThread, Standing, Finished, IsOpen, OpenStatuses
  <2>6. \A x \in Orders : book'[x] = "none" => orders'[x] = NoOrder
    BY <1>1, <2>3 DEF SerialOK
  <2> QED BY <2>1, <2>5, <2>6, SerialMoves
<1> QED BY <1>2, <1>4, <1>5, <1>6 DEF Replace, Superseded, Returns

\* A read of an order may close its row, but not one its thread relies on; a crash
\* only loses the thread.
LEMMA SerialOutside ==
  ASSUME BrokerInv, BrokerInv', SerialOK, OneAtOnce,
         (\E o \in Orders : GetOrder(o)) \/ Crash
  PROVE  SerialOK' /\ [Lifecycle!Next]_(Lifecycle!vars)
<1>1. ASSUME NEW o \in Orders, GetOrder(o)
      PROVE  SerialOK' /\ [Lifecycle!Next]_(Lifecycle!vars)
  <2>1. Write(o, Reconciled(o)) /\ Reconciled(o) # book[o] /\ UNCHANGED <<orders, worker>>
    BY <1>1 DEF GetOrder, omsVars
  <2>2. book'[o] = Reconciled(o) /\ \A x \in Orders \ {o} : book'[x] = book[x]
    BY <2>1, Written
  <2>3. IsOpen(o) /\ (Standing(o) => book'[o] \in OpenStatuses)
        /\ book'[o] \in OpenStatuses \cup FinalStatuses
    BY <2>1, <2>2, ReconciledPhase DEF BrokerInv, Standing
  <2>4. book'[o] # "none"
    BY <2>3 DEF OpenStatuses, FinalStatuses
  <2>5. [Lifecycle!Next]_(Lifecycle!vars)
    BY <2>1, <2>2, <2>3, <2>4, RowMoves DEF BrokerInv
  <2>6. \A x \in Orders : /\ Standing(x) => Standing(x)'
                          /\ book'[x] = "none" => book[x] = "none"
                          /\ book[x] # "none" => book'[x] # "none"
    BY <2>1, <2>2, <2>3, <2>4 DEF Standing, Finished, IsOpen
  <2>7. \A x \in Orders : Remaining(x)' = Remaining(x)
    BY <2>1 DEF Remaining
  <2>8. \A w \in Workers : SerialThread(worker[w]) => SerialThread(worker[w])'
    <3>1. \A w \in Workers : worker[w].pc # "idle" => worker[w].order \in Orders
      BY DEF BrokerInv, ThreadsOK, ThreadOK
    <3> QED BY <2>1, <2>6, <2>7, <3>1 DEF SerialThread
  <2> QED BY <2>1, <2>5, <2>6, <2>8 DEF SerialOK
<1>2. CASE Crash
  <2>1. worker' = [w \in Workers |-> Idle] /\ UNCHANGED <<orders, book>>
    BY <1>2 DEF Crash, omsVars
  <2>2. \A w \in Workers : SerialThread(worker[w])'
    <3>1. \A w \in Workers : worker'[w].pc = "idle"
      BY <2>1, Fields
    <3> QED BY <3>1 DEF SerialThread
  <2>3. UNCHANGED Lifecycle!vars
    BY <2>1 DEF Lifecycle!vars, Phase, IsOpen
  <2> QED BY <2>1, <2>2, <2>3 DEF SerialOK
<1> QED BY <1>1, <1>2

LEMMA SerialStep ==
  ASSUME BrokerInv, BrokerInv', SerialOK, OneAtOnce, PlainReplacements, [BrokerNext]_brokerVars
  PROVE  SerialOK' /\ [Lifecycle!Next]_(Lifecycle!vars)
<1>1. ASSUME NEW w \in Workers, Continue(w)
      PROVE  SerialOK' /\ [Lifecycle!Next]_(Lifecycle!vars)
  BY <1>1, SerialEvaluation, SerialSizing, SerialReport, SerialClosing, SerialReplacement
     DEF Continue
<1>2. CASE UNCHANGED brokerVars
  <2>1. UNCHANGED <<orders, book, worker>>
    BY <1>2 DEF brokerVars, omsVars
  <2>2. SerialOK'
    BY <2>1 DEF SerialOK, SerialThread, Standing, Finished, IsOpen, Remaining
  <2>3. UNCHANGED Lifecycle!vars
    BY <2>1 DEF Lifecycle!vars, Phase, IsOpen
  <2> QED BY <2>2, <2>3
<1> QED BY <1>1, <1>2, SerialRequest, SerialOutside DEF BrokerNext

LEMMA SerialInit == BrokerInit => SerialOK /\ Lifecycle!Init
<1> SUFFICES ASSUME BrokerInit PROVE SerialOK /\ Lifecycle!Init
    OBVIOUS
<1>1. \A o \in Orders : orders[o] = NoOrder /\ orders[o].filled = 0 /\ book[o] = "none"
  BY DEF BrokerInit, OmsInit, NoOrder, NewRow
<1>2. \A w \in Workers : worker[w].pc = "idle"
  BY Fields DEF BrokerInit
<1>3. SerialOK
  BY <1>1, <1>2 DEF SerialOK, SerialThread
<1>4. Lifecycle!Init
  BY <1>1 DEF Lifecycle!Init, Phase
<1> QED BY <1>3, <1>4

\* One thread at a time, with crashes between its steps and reads by others, the broker
\* implements the lifecycle of an order: accepted once, filled while it is live and up
\* to its quantity, replaced in one step by what it has left, and closed for good.
THEOREM SerialLifecycle ==
  ASSUME OneAtOnce, PlainReplacements
  PROVE  BrokerSpec => FollowsLifecycle
<1>1. BrokerInit => BrokerInv /\ SerialOK /\ Lifecycle!Init
  BY BrokerInitially, SerialInit
<1>2. BrokerInv /\ SerialOK /\ [BrokerNext]_brokerVars
        => BrokerInv' /\ SerialOK' /\ [Lifecycle!Next]_(Lifecycle!vars)
  BY BrokerStep, SerialStep
<1>3. BrokerSpec => Lifecycle!Spec
  BY <1>1, <1>2, PTL DEF BrokerSpec, Lifecycle!Spec
<1> QED BY <1>3 DEF FollowsLifecycle

\* An order that replaced another took over at most what that one had left when it was
\* closed.
TakesOver(o) ==
  OldOrder(o) # NoOne /\ Phase(o) # "new" =>
    /\ Phase(OldOrder(o)) = "closed"
    /\ Quantity(o) + orders[OldOrder(o)].filled <= Quantity(OldOrder(o))

\* A closed order keeps its fills, and only a replacement opens one that replaces another.
LEMMA LifecycleKeeps ==
  ASSUME BrokerInv, [Lifecycle!Next]_(Lifecycle!vars), NEW x \in Orders
  PROVE  /\ Phase(x) = "closed" => Phase(x)' = "closed" /\ orders'[x].filled = orders[x].filled
         /\ Phase(x) # "new" => Phase(x)' # "new"
         /\ Phase(x) = "new" /\ Phase(x)' # "new" /\ OldOrder(x) \in Orders =>
              /\ Phase(OldOrder(x))' = "closed"
              /\ orders'[OldOrder(x)].filled = orders[OldOrder(x)].filled
              /\ Quantity(x) <= Quantity(OldOrder(x)) - orders[OldOrder(x)].filled
<1> DEFINE phases == [y \in Orders |-> Phase(y)]
           fill   == [y \in Orders |-> orders[y].filled]
           size   == [y \in Orders |-> Quantity(y)]
           old    == [y \in Orders |-> OldOrder(y)]
           Kept   == /\ phases[x] = "closed" => phases'[x] = "closed" /\ fill'[x] = fill[x]
                     /\ phases[x] # "new" => phases'[x] # "new"
                     /\ phases[x] = "new" /\ phases'[x] # "new" /\ old[x] \in Orders =>
                          /\ phases'[old[x]] = "closed"
                          /\ fill'[old[x]] = fill[old[x]]
                          /\ size[x] <= size[old[x]] - fill[old[x]]
<1>1. NoOne \notin Orders
  BY BrokerAssumption
<1>2. DOMAIN phases = Orders /\ DOMAIN fill = Orders
  OBVIOUS
<1>3. Kept
  <2> HIDE DEF phases, fill, size, old
  <2>1. CASE UNCHANGED <<phases, fill>>
    BY <2>1
  <2>2. ASSUME NEW o \in Orders,
               Lifecycle!Accept(o) \/ Lifecycle!TurnAway(o) \/ Lifecycle!Close(o)
        PROVE  Kept
    <3>1. /\ fill' = fill /\ \E p \in {"live", "closed"} : phases' = [phases EXCEPT ![o] = p]
          /\ \/ phases[o] = "live" /\ phases'[o] = "closed"
             \/ phases[o] = "new" /\ old[o] = NoOne
      BY <1>2, <2>2
         DEF Lifecycle!Accept, Lifecycle!TurnAway, Lifecycle!Close, phases, fill, old
    <3> QED BY <1>1, <1>2, <3>1
  <2>3. ASSUME NEW o \in Orders, Lifecycle!Replace(o)
        PROVE  Kept
    <3>1. /\ fill' = fill /\ phases[o] = "new" /\ old[o] # NoOne /\ phases[old[o]] = "live"
          /\ size[o] <= size[old[o]] - fill[old[o]]
          /\ phases' = [phases EXCEPT ![o] = "live", ![old[o]] = "closed"]
      BY <2>3 DEF Lifecycle!Replace, phases, fill, old, size
    <3> QED BY <1>2, <3>1
  <2>4. ASSUME NEW o \in Orders, NEW quantity, Lifecycle!Fill(o, quantity)
        PROVE  Kept
    <3>1. phases' = phases /\ phases[o] = "live" /\ fill' = [fill EXCEPT ![o] = @ + quantity]
      BY <2>4 DEF Lifecycle!Fill, phases, fill
    <3> QED BY <1>2, <3>1
  <2> QED BY <2>1, <2>2, <2>3, <2>4 DEF Lifecycle!Next, Lifecycle!vars, phases, fill
<1> QED BY <1>3

LEMMA TakesOverStep ==
  ASSUME BrokerInv, BrokerInv', \A o \in Orders : TakesOver(o), [Lifecycle!Next]_(Lifecycle!vars)
  PROVE  \A o \in Orders : TakesOver(o)'
<1> SUFFICES ASSUME NEW o \in Orders, OldOrder(o) # NoOne, Phase(o)' # "new"
             PROVE  /\ Phase(OldOrder(o))' = "closed"
                    /\ Quantity(o) + orders'[OldOrder(o)].filled <= Quantity(OldOrder(o))
  BY DEF TakesOver
<1>1. PICK first \in Orders : first = OldOrder(o)
  BY BrokerAssumption
<1>2. /\ Quantity(o) \in Nat /\ Quantity(first) \in Nat /\ orders[first].filled \in Nat
  BY <1>1, OmsAssumption DEF BrokerInv, LedgerOK, LedgerTypeOK, OrderRowType, Quantity
<1>3. CASE Phase(o) # "new"
  <2>1. Phase(first) = "closed" /\ Quantity(o) + orders[first].filled <= Quantity(first)
    BY <1>1, <1>3 DEF TakesOver
  <2>2. Phase(first)' = "closed" /\ orders'[first].filled = orders[first].filled
    BY <2>1, LifecycleKeeps
  <2> QED BY <1>1, <2>1, <2>2
<1>4. CASE Phase(o) = "new"
  <2>1. /\ Phase(first)' = "closed" /\ orders'[first].filled = orders[first].filled
        /\ Quantity(o) <= Quantity(first) - orders[first].filled
    BY <1>1, <1>4, LifecycleKeeps
  <2> QED BY <1>1, <1>2, <2>1
<1> QED BY <1>3, <1>4

\* One thread at a time, an order and its replacement never fill more than the first
\* ticket asked for: what replace promises, and two threads break.
THEOREM SerialExposure ==
  ASSUME OneAtOnce, PlainReplacements
  PROVE  BrokerSpec => []ReplaceKeepsExposure
<1> DEFINE Inv == BrokerInv /\ SerialOK /\ \A o \in Orders : TakesOver(o)
<1>1. BrokerInit => Inv
  <2>1. BrokerInit => \A o \in Orders : TakesOver(o)
    BY DEF BrokerInit, TakesOver, Phase
  <2> QED BY <2>1, BrokerInitially, SerialInit
<1>2. Inv /\ [BrokerNext]_brokerVars => Inv'
  BY BrokerStep, SerialStep, TakesOverStep
<1>3. Inv => ReplaceKeepsExposure
  <2> SUFFICES ASSUME Inv, NEW o \in Orders, OldOrder(o) # NoOne
               PROVE  orders[o].filled + orders[OldOrder(o)].filled <= Quantity(OldOrder(o))
    BY DEF ReplaceKeepsExposure
  <2>1. PICK first \in Orders : first = OldOrder(o)
    BY BrokerAssumption
  <2>2. \A x \in Orders : /\ orders[x].filled \in Nat /\ Quantity(x) \in Nat
                          /\ orders[x].filled <= Quantity(x)
                          /\ book[x] = "none" => orders[x].filled = 0
    BY OmsAssumption DEF BrokerInv, LedgerOK, LedgerTypeOK, OrderRowType, RowsOK, RowOK, NoOrder,
                         NewRow, Quantity, SerialOK
  <2>3. CASE Phase(o) = "new"
    BY <2>1, <2>2, <2>3 DEF Phase
  <2>4. CASE Phase(o) # "new"
    BY <2>1, <2>2, <2>4 DEF TakesOver
  <2> QED BY <2>3, <2>4
<1> QED BY <1>1, <1>2, <1>3, PTL DEF BrokerSpec

-----------------------------------------------------------------------------
(* One thread at a time: short positions stay borrowed *)

SizingSteps == {"measure", "number", "report"}

\* The position a fill is sized by is still the position when it is reported.
Sees(t) ==
  t.pc \in SizingSteps =>
    /\ t.held = position[SymbolOf(t.order)]
    /\ t.pc = "report" => SizeIn(t.order, t.held)

\* A thread that reads or writes rows, or is done, is not sizing a fill.
LEMMA NotSizing ==
  ASSUME BrokerInv, NEW w \in Workers, NEW pc, pc \notin SizingSteps, NEW o, NEW status, NEW new,
         \/ GoesOn(w, Step(pc, o)) \/ GoesOn(w, Idle)
         \/ GoesOn(w, [Step(pc, o) EXCEPT !.status = status])
         \/ GoesOn(w, [Step(pc, o) EXCEPT !.new = new])
  PROVE  worker'[w].pc \notin SizingSteps
<1>1. CASE GoesOn(w, Step(pc, o)) \/ GoesOn(w, Idle)
  BY <1>1, NextStep, Fields DEF SizingSteps
<1>2. CASE GoesOn(w, [Step(pc, o) EXCEPT !.status = status])
  BY <1>2, Carries
<1>3. CASE GoesOn(w, [Step(pc, o) EXCEPT !.new = new])
  <2>1. [Step(pc, o) EXCEPT !.new = new].pc = pc
    BY DEF Step, Sized
  <2> QED BY <1>3, <2>1, NextStep
<1> QED BY <1>1, <1>2, <1>3

LEMMA SizingBegins ==
  ASSUME BrokerInv, NEW w \in Workers, Request(w) \/ Continue(w),
         ~ReadPosition(w), ~Measure(w), ~\E quantity \in 0..worker[w].quantity : Number(w, quantity)
  PROVE  worker'[w] = worker[w] \/ worker'[w].pc \notin SizingSteps
<1>0. SizingSteps \cap {"idle", "acknowledge", "acknowledged", "evaluate", "act", "fill", "rest",
                        "record", "withdraw", "cancel", "expire", "replace"} = {}
  BY DEF SizingSteps
<1>1. CASE Request(w)
  BY <1>0, <1>1, NotSizing, Zenon
     DEF Request, Submit, Tick, StartCancel, StartExpire, StartReplace, Starts
<1>2. CASE ReadSubmitted(w) \/ WriteAcknowledged(w)
  <2>1. \E pc \in {"acknowledged", "evaluate"} : GoesOn(w, Step(pc, OrderOf(w)))
    BY <1>2 DEF ReadSubmitted, WriteAcknowledged
  <2> QED BY <1>0, <2>1, NotSizing
<1>3. CASE Evaluate(w)
  <2>1. \/ GoesOn(w, Idle)
        \/ \E status : GoesOn(w, [Step("act", OrderOf(w)) EXCEPT !.status = status])
    BY <1>3, Zenon DEF Evaluate
  <2> QED BY <1>0, <2>1, NotSizing
<1>4. CASE Act(w)
  <2>1. GoesOn(w, Idle) \/ \E pc \in {"rest", "fill"} : GoesOn(w, Step(pc, OrderOf(w)))
    BY <1>4 DEF Act, ActRest, ActExpire, ActWait, ActTrigger, ActFill, Returns
  <2> QED BY <1>0, <2>1, NotSizing
<1>5. CASE \E price \in Prices : Report(w, price)
  <2>1. \E status : GoesOn(w, [Step("record", OrderOf(w)) EXCEPT !.status = status])
    BY <1>5, Zenon DEF Report
  <2> QED BY <1>0, <2>1, NotSizing
<1>6. CASE ReportRaises(w) \/ Record(w) \/ Rest(w) \/ Withdraw(w) \/ Cancel(w) \/ Expire(w)
  BY <1>0, <1>6, NotSizing DEF ReportRaises, Record, Rest, Withdraw, Cancel, Expire, Returns
<1>7. CASE Replace(w)
  <2>1. GoesOn(w, Idle) \/ GoesOn(w, Step("acknowledge", worker[w].new))
    BY <1>7 DEF Replace, Returns
  <2> QED BY <1>0, <2>1, NotSizing
<1> QED BY <1>1, <1>2, <1>3, <1>4, <1>5, <1>6, <1>7 DEF Continue

\* A thread reads the position, and sizes a fill by it.
LEMMA SizingSees ==
  ASSUME BrokerInv, NEW w \in Workers, Sees(worker[w]),
         ReadPosition(w) \/ Measure(w) \/ \E quantity \in 0..worker[w].quantity : Number(w, quantity)
  PROVE  Sees(worker[w])'
<1>0. UNCHANGED position
  BY DEF ReadPosition, Measure, Number, ReadsOnly, omsVars, ledgerVars
<1>1. PICK o \in Orders : o = OrderOf(w)
  BY BusyFacts DEF ReadPosition, Measure, Number, At
<1>2. ASSUME NEW pc \in SizingSteps, NEW quantity, NEW seq,
             GoesOn(w, Sized(pc, o, position[SymbolOf(o)], quantity, seq)),
             pc = "report" => SizeIn(o, position[SymbolOf(o)])
      PROVE  Sees(worker[w])'
  <2>1. /\ worker'[w].pc = pc /\ worker'[w].order = o
        /\ worker'[w].held = position[SymbolOf(o)]
    BY <1>2, NextStep DEF Sized
  <2> QED BY <1>0, <1>2, <2>1 DEF Sees
<1>3. CASE ReadPosition(w)
  BY <1>1, <1>2, <1>3 DEF ReadPosition, SizingSteps
<1>4. CASE Measure(w)
  <2>1. worker[w].held = position[SymbolOf(o)]
    BY <1>1, <1>4 DEF Measure, At, Sees, SizingSteps, OrderOf
  <2> QED BY <1>1, <1>2, <1>4, <2>1 DEF Measure, SizingSteps
<1>5. ASSUME NEW quantity \in 0..worker[w].quantity, Number(w, quantity)
      PROVE  Sees(worker[w])'
  <2>1. worker[w].held = position[SymbolOf(o)]
    BY <1>1, <1>5 DEF Number, At, Sees, SizingSteps, OrderOf
  <2>2. \/ \E pc \in {"withdraw", "rest"} : GoesOn(w, Step(pc, o))
        \/ GoesOn(w, [Step("record", o) EXCEPT !.status = "rejected"])
        \/ /\ SizeIn(o, position[SymbolOf(o)])
           /\ GoesOn(w, Sized("report", o, position[SymbolOf(o)], quantity, orders[o].count + 1))
    BY <1>1, <1>5, <2>1 DEF Number
  <2>3. CASE \/ \E pc \in {"withdraw", "rest"} : GoesOn(w, Step(pc, o))
             \/ GoesOn(w, [Step("record", o) EXCEPT !.status = "rejected"])
    <3>1. {"withdraw", "rest", "record"} \cap SizingSteps = {}
      BY DEF SizingSteps
    <3>2. worker'[w].pc \notin SizingSteps
      BY <2>3, <3>1, NotSizing
    <3> QED BY <3>2 DEF Sees
  <2>4. CASE /\ SizeIn(o, position[SymbolOf(o)])
             /\ GoesOn(w, Sized("report", o, position[SymbolOf(o)], quantity, orders[o].count + 1))
    BY <1>2, <2>4 DEF SizingSteps
  <2> QED BY <2>2, <2>3, <2>4
<1> QED BY <1>3, <1>4, <1>5

\* The only thread reports by the position of now: what it fills moves the position and
\* the open borrow together.
LEMMA SeenReport ==
  ASSUME BrokerInv, ShortsAreBorrowed, NEW w \in Workers, Sees(worker[w]),
         NEW price \in Prices, Report(w, price)
  PROVE  ShortsAreBorrowed'
<1> DEFINE t == worker[w]
           action == ActionOf(w)
<1>1. PICK o \in Orders : o = OrderOf(w)
  BY BusyFacts DEF Report, At
<1>2. /\ ReportTypes(o, action, Quantity(o), t.seq, t.quantity, price)
      /\ SubmitPartialFill(o, action, Quantity(o), t.seq, t.quantity, price)
  BY <1>1, ReportOfThread
<1>3. SizeIn(o, position[SymbolOf(o)])
  BY <1>1 DEF Report, At, Sees, SizingSteps, OrderOf
<1>4. /\ action \in Actions
      /\ action \in {"sell", "reduce"} => position[SymbolOf(o)] > 0
      /\ action = "buy_to_cover" => position[SymbolOf(o)] < 0
  BY <1>1, <1>2, <1>3, OmsAssumption DEF ReportTypes, ActionOf, SizeIn, Sides
<1>5. t.seq \in Nat \ {0} /\ price \in Nat \ {0} /\ LedgerTypeOK /\ RowsOK
  BY <1>2 DEF ReportTypes, BrokerInv, LedgerOK
<1> HIDE DEF t, action
<1>6. CASE UNCHANGED omsVars \/ UNCHANGED ledgerVars
  BY <1>6 DEF ShortsAreBorrowed, omsVars, ledgerVars, borrowVars
<1>7. ASSUME NEW row \in OrderRowType, NEW quantity \in Nat \ {0},
             ApplyFill(o, action, row, t.seq, quantity, price)
      PROVE  ShortsAreBorrowed'
  BY <1>4, <1>5, <1>7, FillKeepsBorrow
<1> QED BY <1>2, <1>5, <1>6, <1>7, ReportCases

LEMMA SeenStep ==
  ASSUME OneAtOnce, BrokerInv, ShortsAreBorrowed, \A w \in Workers : Sees(worker[w]),
         [BrokerNext]_brokerVars
  PROVE  ShortsAreBorrowed' /\ \A w \in Workers : Sees(worker[w])'
<1>1. CASE UNCHANGED omsVars
  <2>1. ShortsAreBorrowed' /\ UNCHANGED position
    BY <1>1 DEF ShortsAreBorrowed, omsVars, ledgerVars, borrowVars
  <2>2. ASSUME NEW w \in Workers, worker'[w] = worker[w] \/ worker'[w].pc \notin SizingSteps
        PROVE  Sees(worker[w])'
    BY <2>1, <2>2 DEF Sees
  <2>3. ASSUME NEW w \in Workers, Request(w) \/ Continue(w) PROVE Sees(worker[w])'
    BY <2>2, <2>3, SizingBegins, SizingSees
  <2>4. CASE (\E o \in Orders : GetOrder(o)) \/ UNCHANGED brokerVars
    BY <2>1, <2>2, <2>4 DEF GetOrder, brokerVars
  <2>5. CASE Crash
    <3>1. \A w \in Workers : worker'[w].pc \notin SizingSteps
      BY <2>5, Fields DEF Crash, SizingSteps
    <3> QED BY <2>1, <2>2, <3>1
  <2> QED BY <2>1, <2>3, <2>4, <2>5 DEF BrokerNext, OneAtOnce
<1>2. ASSUME NEW w \in Workers, NEW price \in Prices, Report(w, price)
      PROVE  ShortsAreBorrowed' /\ \A v \in Workers : Sees(worker[v])'
  <2>1. ShortsAreBorrowed'
    BY <1>2, SeenReport
  <2>2. worker'[w].pc = "record"
    <3>1. \E status : GoesOn(w, [Step("record", OrderOf(w)) EXCEPT !.status = status])
      BY <1>2, Zenon DEF Report
    <3> QED BY <3>1, Carries
  <2>3. Sees(worker[w])'
    BY <2>2 DEF Sees, SizingSteps
  <2> QED BY <2>1, <2>3 DEF OneAtOnce
<1> QED BY <1>1, <1>2, LedgerSteps

\* _fill sizes a fill by the position it reads: one thread at a time, with crashes between
\* its steps, what is sold short stays borrowed share for share.
THEOREM SerialShorts ==
  ASSUME OneAtOnce
  PROVE  BrokerSpec => []ShortsAreBorrowed
<1>1. BrokerInit => BrokerInv /\ ShortsAreBorrowed /\ \A w \in Workers : Sees(worker[w])
  <2>1. BrokerInit => ShortsAreBorrowed
    BY HelperFacts DEF BrokerInit, OmsInit, ShortsAreBorrowed
  <2>2. BrokerInit => \A w \in Workers : Sees(worker[w])
    BY Fields DEF BrokerInit, Sees, SizingSteps
  <2> QED BY <2>1, <2>2, BrokerInitially
<1>2. BrokerInv /\ ShortsAreBorrowed /\ (\A w \in Workers : Sees(worker[w])) /\ [BrokerNext]_brokerVars
        => BrokerInv' /\ ShortsAreBorrowed' /\ (\A w \in Workers : Sees(worker[w]))'
  BY BrokerStep, SeenStep
<1> QED BY <1>1, <1>2, PTL DEF BrokerSpec
=============================================================================
