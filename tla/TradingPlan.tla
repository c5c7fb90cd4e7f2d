---------------------------- MODULE TradingPlan ----------------------------
(***************************************************************************)
(* The autonomous trading plans of one account: one purchase and the sales *)
(* that follow it, driven by ticks of execution/trading_plan_executor.py   *)
(* over the records of execution/trading_plan_store.py, against a broker   *)
(* behind execution/broker_port.py.                                        *)
(*                                                                         *)
(* The account lease lets one tick run at a time (PlanLease).  A tick is   *)
(* cut at its awaits: between two of them it decides and saves, and at     *)
(* each of them it may end for good, by the 45 second limit, an error of   *)
(* the broker or a restart.  Only what it has saved and what the broker    *)
(* has received survives.                                                  *)
(*                                                                         *)
(* A tick sees one market observation, named by its number, the same as    *)
(* the tick before or a new one.  Prices, deadlines and waiting times only *)
(* choose between branches, so every choice is allowed.                    *)
(***************************************************************************)
EXTENDS Integers, FiniteSets

CONSTANTS
  Plans,
  Quantity,         \* Quantity[p]: quantity_shares, frozen in the definition
  Lot,              \* a larger sale takes whole lots first (single_order_quantity)
  HasPolicy,        \* the plans have an exit order policy
  MaxReplacements,  \* max_replacements of the policy
  MaxCancels,       \* _MAX_EXIT_CANCEL_ATTEMPTS
  MaxQuotes,        \* bound: market observations
  MaxInterrupts     \* bound: ticks that end at an await

\* The orders of a plan: the purchase is order 0, the k-th sale is order k.
Slots == 0..MaxQuotes
Sales == 1..MaxQuotes

TerminalStates == {"closed", "cancelled", "expired", "invalidated", "rejected"}
\* The states unresolved_dispatches looks for.
Unresolved == {"entry_dispatching", "exit_dispatching", "reconciliation_required"}
States == TerminalStates \cup Unresolved
            \cup {"waiting_entry", "entry_submitted", "open", "exit_submitted"}

ASSUME PlanAssumption ==
  /\ Quantity \in [Plans -> Nat \ {0}]
  /\ {Lot, MaxCancels, MaxQuotes} \subseteq Nat \ {0}
  /\ {MaxReplacements, MaxInterrupts} \subseteq Nat
  /\ HasPolicy \in BOOLEAN

VARIABLES
  plan,       \* state_json of each plan
  request,    \* an exit request of the host or an agent is stored
  tick,       \* the tick in progress
  order,      \* the orders the broker knows, by plan and slot
  position,   \* what the plan's orders have bought and not sold
  calls,      \* submissions and cancellations the broker has received
  enabled,    \* the campaign allows entries
  quote,      \* the latest market observation
  interrupts  \* ticks that ended at an await

planVars == <<plan, request, tick, order, position, calls, enabled, quote, interrupts>>
storeVars  == <<plan, request>>
brokerVars == <<order, position, calls>>
hostVars   == <<enabled, quote, interrupts>>

NewPlan ==
  [status |-> "waiting_entry",
   entry |-> FALSE,      \* entry_order_id is set
   exit |-> 0,           \* the slot of exit_order_id, 0 for none
   attempt |-> 0,        \* exit_attempt
   sold |-> 0,           \* sold_before_retry
   decided |-> FALSE,    \* exit_reason is set
   withdrawn |-> FALSE,  \* entry_product_invalidation is set
   retry |-> FALSE,      \* exit_retry_required
   replaced |-> 0,       \* exit_replacement_count
   cancelFor |-> 0,      \* the slot of exit_cancel_intent, 0 for none
   cancels |-> 0,        \* its attempt_count
   matched |-> 0,        \* last_matching_fingerprint
   submitted |-> 0]      \* last_submission_fingerprint

NoReceipt == [open |-> FALSE, filled |-> 0, whole |-> FALSE]

\* What a tick knows: its plan, whether entries were allowed when it began, the
\* state it is changing, its decisions, the receipts it has read and the order it
\* is about to submit.
NoTick == [pc |-> "idle"]
NewTick(p, executable, s) ==
  [pc |-> "orders", plan |-> p, allowed |-> enabled, executable |-> executable, s |-> s,
   reason |-> FALSE, expired |-> FALSE, entry |-> NoReceipt, exit |-> NoReceipt,
   slot |-> 0, size |-> 0]

NoOrder == [phase |-> "none", size |-> 0, filled |-> 0, cancelling |-> FALSE, quote |-> 0]

PlanInit ==
  /\ plan = [p \in Plans |-> NewPlan]
  /\ request = [p \in Plans |-> FALSE]
  /\ tick = NoTick
  /\ order = [p \in Plans |-> [n \in Slots |-> NoOrder]]
  /\ position = [p \in Plans |-> 0]
  /\ calls = [p \in Plans |-> [n \in Slots |-> [submits |-> 0, cancels |-> 0]]]
  /\ enabled \in BOOLEAN
  /\ quote = 1
  /\ interrupts = 0

-----------------------------------------------------------------------------
(* Records, receipts and the steps of a tick *)

At(pc) == tick.pc = pc

SaveAs(p, s) == plan' = [plan EXCEPT ![p] = s]
Saves(s)     == SaveAs(tick.plan, s)
Ends(s)      == Saves(s) /\ tick' = NoTick
Uncertain(s) == Ends([s EXCEPT !.status = "reconciliation_required"])

LocalStep  == UNCHANGED <<request, brokerVars, hostVars>>
BrokerStep == UNCHANGED <<storeVars, hostVars>>

\* broker.order: the cumulative receipt of an order the broker knows.
Known(p, n) == order[p][n].phase \in {"open", "closed"}
Receipt(p, n) ==
  [open   |-> order[p][n].phase = "open",
   filled |-> order[p][n].filled,
   whole  |-> order[p][n].filled = order[p][n].size]

EntryReceipt(p, s) == IF s.entry THEN Receipt(p, 0) ELSE NoReceipt
ExitReceipt(p, s)  == IF s.exit # 0 THEN Receipt(p, s.exit) ELSE NoReceipt

\* Faulty: an order without a receipt counts as one that was never accepted.
AssumesNotAccepted(p, s) == FALSE

\* A submitted order has no receipt.
ReceiptMissing(p, s) ==
  \/ s.entry /\ ~Known(p, 0)
  \/ s.exit # 0 /\ ~Known(p, s.exit)

\* remaining_quantity of position(): filled less what earlier sales and this one sold.
Left(t) == t.entry.filled - (t.s.sold + t.exit.filled)

\* A larger sale takes the whole lots of what is left, and the rest comes later.
SingleOrder(q) == IF q >= Lot THEN (q \div Lot) * Lot ELSE q

\* Faulty: a stored exit request is not read.
WithoutRequest(p) == plan[p]

\* The state a tick starts from: a stored exit request is an exit decision.
Merged(p) == [plan[p] EXCEPT !.decided = @ \/ request[p]]

-----------------------------------------------------------------------------
(* tick: the leases, the stored request and the campaign *)

\* A plan that an agent gives up before its entry was submitted is cancelled.
CancelBeforeEntry(p) ==
  /\ At("idle")
  /\ plan[p].status \notin TerminalStates
  /\ request[p] /\ ~plan[p].entry
  /\ SaveAs(p, [Merged(p) EXCEPT !.status = "cancelled"])
  /\ UNCHANGED <<request, tick, brokerVars, hostVars>>

\* Any other plan that is not final is read, unless its entry is paused.  A new
\* valuation saves the state at once.
Begin(p, executable, observation) ==
  /\ At("idle")
  /\ plan[p].status \notin TerminalStates
  /\ plan[p].entry \/ (enabled /\ ~request[p])
  /\ observation <= MaxQuotes
  /\ quote' = observation
  /\ tick' = NewTick(p, executable, Merged(p))
  /\ UNCHANGED plan \/ SaveAs(p, Merged(p))
  /\ UNCHANGED <<request, brokerVars, enabled, interrupts>>

-----------------------------------------------------------------------------
(* Reconciliation: the receipts, the exit decision, what the entry still risks *)

\* Faulty: an exit that is already under way does not withdraw the entry.
ProtectsWhenPaused(t) == t.entry.open /\ ~t.allowed

\* Faulty: a pause of the campaign does not reach the purchases on their way.
ProtectsWhenStopped(t) ==
  t.entry.open /\ (t.reason \/ t.expired \/ t.s.decided \/ t.s.exit # 0 \/ t.s.withdrawn)

\* An open entry is to be cancelled: pending_protection.
NeedsProtection(t) ==
  /\ t.entry.open
  /\ t.reason \/ t.expired \/ t.s.decided \/ t.s.exit # 0 \/ ~t.allowed \/ t.s.withdrawn

\* An exit is decided on an executable quote (price, thesis, holding time) or,
\* once something was bought, by its time limit on any quote.
MayExit(t) == t.executable \/ t.entry.filled > 0

ReadMissing ==
  /\ At("orders")
  /\ ReceiptMissing(tick.plan, tick.s)
  /\ Uncertain(tick.s)
  /\ LocalStep

\* The tick with the receipts it has read, its exit decision and the entry window.
WithReceipts(hit, expired) ==
  LET read == [tick EXCEPT !.entry = EntryReceipt(tick.plan, tick.s),
                           !.exit = ExitReceipt(tick.plan, tick.s), !.expired = expired]
  IN [read EXCEPT !.reason = hit /\ MayExit(read)]

\* An exit decision is saved before anything is asked of the broker.
Decides(t) == t.reason /\ t.s.entry
Decided(t) == IF Decides(t) THEN [t EXCEPT !.s.decided = TRUE] ELSE t

\* An open entry whose product is no longer admitted is withdrawn like a stopped one.
Admission(t, admitted) ==
  IF t.entry.open /\ ~NeedsProtection(t) /\ ~admitted THEN [t EXCEPT !.s.withdrawn = TRUE] ELSE t

Observes(t) == t.executable /\ ~NeedsProtection(t) /\ t.s.matched # quote

Read(hit, expired, admitted) ==
  LET t == Admission(Decided(WithReceipts(hit, expired)), admitted)
      s == IF Observes(t) THEN [t.s EXCEPT !.matched = quote] ELSE t.s
  IN /\ At("orders")
     /\ ~ReceiptMissing(tick.plan, tick.s)
     /\ tick' = [t EXCEPT !.s = s, !.pc = IF NeedsProtection(t) THEN "cancel entry"
                                          ELSE IF Observes(t) THEN "observe" ELSE "decide"]
     /\ IF s # tick.s THEN Saves(s) ELSE UNCHANGED plan
     /\ LocalStep

\* broker.observe has matched the quote; the receipts are read again.
Observe ==
  /\ At("observe")
  /\ tick' = [tick EXCEPT !.entry = EntryReceipt(tick.plan, tick.s),
                          !.exit = ExitReceipt(tick.plan, tick.s), !.pc = "decide"]
  /\ UNCHANGED plan
  /\ LocalStep

-----------------------------------------------------------------------------
(* Cancellation of the entry or of a sale that does not fill *)

Cancelled(p, n) ==
  order' = [order EXCEPT ![p][n].cancelling = @ \/ order[p][n].phase = "open"]

\* Only the cancellations of sales are counted: that of the entry is repeated
\* until it works.
AskToCancel(n) ==
  /\ Cancelled(tick.plan, n)
  /\ calls' = [calls EXCEPT ![tick.plan][n].cancels = IF n = 0 THEN @ ELSE @ + 1]
  /\ UNCHANGED position

\* The request reaches the broker ...
CancelEntry ==
  /\ At("cancel entry")
  /\ AskToCancel(0)
  /\ tick' = [tick EXCEPT !.pc = "entry answer"]
  /\ BrokerStep

CancelExit ==
  /\ At("cancel exit")
  /\ AskToCancel(tick.s.exit)
  /\ tick' = [tick EXCEPT !.pc = "exit answer"]
  /\ BrokerStep

\* ... which refuses it, or answers with the receipt it has by then.
CancelRefused ==
  /\ At("entry answer") \/ At("exit answer")
  /\ Uncertain(tick.s)
  /\ LocalStep

EntryCancelAnswered ==
  LET receipt == Receipt(tick.plan, 0) IN
  /\ At("entry answer")
  /\ IF receipt.open
     THEN Ends(tick.s)
     ELSE /\ tick' = [tick EXCEPT !.entry = receipt, !.pc = "decide"]
          /\ UNCHANGED plan
  /\ LocalStep

ExitCancelAnswered ==
  LET receipt == Receipt(tick.plan, tick.s.exit) IN
  /\ At("exit answer")
  /\ IF receipt.open
     THEN Ends(tick.s)
     ELSE /\ tick' = [tick EXCEPT !.exit = receipt, !.pc = "decide"]
          /\ UNCHANGED plan
  /\ LocalStep

-----------------------------------------------------------------------------
(* The decision of a tick, from the receipts it has read *)

ExitEnded(t) == t.s.exit # 0 /\ ~t.exit.open
SoldOut(t)   == ExitEnded(t) /\ Left(t) = 0 /\ t.entry.filled > 0

Close ==
  /\ At("decide")
  /\ SoldOut(tick)
  /\ Ends([tick.s EXCEPT !.status = "closed"])
  /\ LocalStep

\* An open sale is left alone: not long enough, no policy, budget or price floor.
ExitRests ==
  /\ At("decide")
  /\ tick.s.exit # 0 /\ tick.exit.open
  /\ Ends([tick.s EXCEPT !.status = "exit_submitted"])
  /\ LocalStep

\* The first cancellation of a sale needs a policy, replacements left and a new
\* executable quote; a repeated one only that attempts are left.
MayCancel(s) ==
  IF s.cancelFor = s.exit THEN s.cancels < MaxCancels
  ELSE /\ HasPolicy /\ s.replaced < MaxReplacements
       /\ tick.executable /\ s.submitted # quote

CancelIntent(s) ==
  [s EXCEPT !.status = "exit_submitted", !.cancelFor = s.exit,
            !.cancels = IF s.cancelFor = s.exit THEN @ + 1 ELSE 1]

\* Faulty: the attempt is counted in memory only.
SavesNoAttempt(s) == UNCHANGED plan

\* The attempt is saved before the broker is asked.
SavesAttempt(s) == Saves(s)

TryCancel ==
  LET s == CancelIntent(tick.s) IN
  /\ At("decide")
  /\ tick.s.exit # 0 /\ tick.exit.open
  /\ MayCancel(tick.s)
  /\ SavesAttempt(s)
  /\ tick' = [tick EXCEPT !.s = s, !.pc = "cancel exit"]
  /\ LocalStep

\* Faulty: what the sale has sold is forgotten.
ForgetsSales(t) ==
  IF ~ExitEnded(t) THEN t
  ELSE [t EXCEPT !.s.attempt = @ + 1, !.s.exit = 0, !.s.status = "open",
                 !.s.retry = ~t.exit.whole, !.s.cancelFor = 0, !.s.cancels = 0,
                 !.exit = NoReceipt]

\* Faulty: the id of the ended sale stays.
KeepsTheSale(t) ==
  IF ~ExitEnded(t) THEN t
  ELSE [t EXCEPT !.s.attempt = @ + 1, !.s.status = "open", !.s.sold = t.entry.filled - Left(t)]

\* A sale that ended with something left makes room for the next one.
Retired(t) ==
  IF ~ExitEnded(t) THEN t
  ELSE [t EXCEPT !.s.attempt = @ + 1, !.s.exit = 0, !.s.status = "open",
                 !.s.sold = t.entry.filled - Left(t), !.s.retry = ~t.exit.whole,
                 !.s.cancelFor = 0, !.s.cancels = 0, !.exit = NoReceipt]

\* What remains to decide when no sale is open.
Deciding == At("decide") /\ ~SoldOut(tick) /\ (tick.s.exit # 0 => ~tick.exit.open)
EndsAs(status) == Ends([Retired(tick).s EXCEPT !.status = status])

NothingBought == tick.s.entry /\ ~tick.entry.open /\ tick.entry.filled = 0

EntryEnded ==
  /\ Deciding
  /\ NothingBought
  /\ \E status \in IF tick.expired THEN {"expired"} ELSE {"rejected", "cancelled"} : EndsAs(status)
  /\ LocalStep

EntryExpired ==
  /\ Deciding
  /\ ~tick.s.entry /\ tick.expired
  /\ EndsAs("expired")
  /\ LocalStep

\* Neither has ended: the tick goes on if its quote is executable.
GoesOn == Deciding /\ ~NothingBought /\ (tick.s.entry \/ ~tick.expired)

\* quote_ineligible, or one of the conditions for the next order is not met: the
\* entry's price and time, product admission, an unresolved order of another
\* plan; for a sale its budget, its price floor or a new observation.
Waits ==
  LET s == Retired(tick).s IN
  /\ GoesOn
  /\ \/ ~tick.executable \/ ~s.entry
     \/ (tick.reason \/ s.decided) /\ (s.submitted = quote \/ (HasPolicy /\ s.retry))
  /\ Ends(s)
  /\ LocalStep

EntryInvalidated ==
  /\ GoesOn
  /\ ~tick.s.entry /\ tick.executable
  /\ EndsAs("invalidated")
  /\ LocalStep

\* Faulty: only orders that were just sent count as unresolved.
JustSent(p) ==
  \E other \in Plans \ {p} : plan[other].status \in {"entry_dispatching", "exit_dispatching"}

\* An order of another plan whose acceptance is unknown.
UnresolvedDispatches(p) == \E other \in Plans \ {p} : plan[other].status \in Unresolved

AdmitEntry ==
  /\ GoesOn
  /\ ~tick.s.entry /\ tick.executable
  /\ ~UnresolvedDispatches(tick.plan)
  /\ tick' = [tick EXCEPT !.pc = "preview", !.slot = 0, !.size = Quantity[tick.plan]]
  /\ UNCHANGED plan
  /\ LocalStep

\* Nothing tells to sell: the position is kept.
Manage ==
  /\ GoesOn
  /\ tick.s.entry /\ tick.executable
  /\ ~tick.reason /\ ~tick.s.decided
  /\ EndsAs(IF tick.entry.open THEN "entry_submitted" ELSE "open")
  /\ LocalStep

MayReplace(s) == HasPolicy /\ s.retry => s.replaced < MaxReplacements

AdmitExit ==
  LET t == Retired(tick) IN
  /\ GoesOn
  /\ tick.s.entry /\ tick.executable
  /\ tick.reason \/ tick.s.decided
  /\ MayReplace(t.s)
  /\ t.s.submitted # quote
  /\ tick' = [t EXCEPT !.pc = "preview",
                       !.slot = t.s.attempt + 1, !.size = SingleOrder(Left(t))]
  /\ UNCHANGED plan
  /\ LocalStep

-----------------------------------------------------------------------------
(* Submission: preview and risk, intent, order, receipt *)

\* The preview, the costs or the risk engine refuse the order, or the entry is
\* paused by now.
PreviewRefused ==
  /\ At("preview")
  /\ \E status \in IF tick.slot = 0 THEN {tick.s.status} ELSE {tick.s.status, "open"} :
       Ends([tick.s EXCEPT !.status = status])
  /\ LocalStep

\* Faulty: the observation is noted only when the order is answered.
IntentWithoutQuote(t) ==
  IF t.slot = 0
  THEN [t.s EXCEPT !.status = "entry_dispatching", !.entry = TRUE]
  ELSE [t.s EXCEPT !.status = "exit_dispatching", !.exit = t.slot,
                   !.replaced = IF t.s.retry THEN @ + 1 ELSE @, !.retry = FALSE]

\* The state that names the order, saved before it is sent.
Intent(t) ==
  IF t.slot = 0
  THEN [t.s EXCEPT !.status = "entry_dispatching", !.entry = TRUE, !.submitted = quote]
  ELSE [t.s EXCEPT !.status = "exit_dispatching", !.exit = t.slot, !.submitted = quote,
                   !.replaced = IF t.s.retry THEN @ + 1 ELSE @, !.retry = FALSE]

\* Faulty: the order is sent first, its intent is saved with its receipt.
SendsFirst(s) == UNCHANGED plan

SavesIntent(s) == Saves(s)

Dispatch ==
  /\ At("preview")
  /\ tick.slot = 0 => enabled
  /\ SavesIntent(Intent(tick))
  /\ tick' = [tick EXCEPT !.s = Intent(tick), !.pc = "submit"]
  /\ LocalStep

\* broker.submit: an order id the broker knows already is not placed again.
Submit ==
  LET p == tick.plan
      n == tick.slot
  IN /\ At("submit")
     /\ calls' = [calls EXCEPT ![p][n].submits = @ + 1]
     /\ order' = IF order[p][n].phase = "none"
                 THEN [order EXCEPT ![p][n] = [NoOrder EXCEPT !.phase = "sent", !.size = tick.size,
                                                              !.quote = quote]]
                 ELSE order
     /\ tick' = [tick EXCEPT !.pc = "receipt"]
     /\ UNCHANGED position
     /\ BrokerStep

SubmitAnswered ==
  /\ At("receipt")
  /\ Known(tick.plan, tick.slot)
  /\ Ends([tick.s EXCEPT !.matched = quote,
             !.status = IF tick.slot = 0 THEN "entry_submitted" ELSE "exit_submitted"])
  /\ LocalStep

\* The broker answers without a receipt it stands by.
SubmitUncertain ==
  /\ At("receipt")
  /\ Uncertain(tick.s)
  /\ LocalStep

\* The tick ends at an await; the leases are released or run out.
Interrupt ==
  /\ ~At("idle")
  /\ interrupts < MaxInterrupts
  /\ interrupts' = interrupts + 1
  /\ tick' = NoTick
  /\ UNCHANGED <<storeVars, brokerVars, enabled, quote>>

-----------------------------------------------------------------------------
(* The broker, the market and the host *)

\* A submission on its way is accepted, or rejected at once; it may also get lost.
Accept(p, n) ==
  /\ order[p][n].phase = "sent"
  /\ \E phase \in {"open", "closed"} : order' = [order EXCEPT ![p][n].phase = phase]
  /\ UNCHANGED <<position, calls, storeVars, tick, hostVars>>

\* An open order fills by one; the last fill closes it.
Fill(p, n) ==
  /\ order[p][n].phase = "open"
  /\ order' = [order EXCEPT ![p][n].filled = @ + 1,
                            ![p][n].phase = IF order[p][n].filled + 1 = order[p][n].size
                                            THEN "closed" ELSE "open"]
  /\ position' = [position EXCEPT ![p] = IF n = 0 THEN @ + 1 ELSE @ - 1]
  /\ UNCHANGED <<calls, storeVars, tick, hostVars>>

\* An open order is cancelled or expires.
Expire(p, n) ==
  /\ order[p][n].phase = "open"
  /\ order' = [order EXCEPT ![p][n].phase = "closed"]
  /\ UNCHANGED <<position, calls, storeVars, tick, hostVars>>

ConfirmCancel(p, n) == order[p][n].cancelling /\ Expire(p, n)

\* record_position_review and request_agent_exit.
RequestExit(p) ==
  /\ ~request[p] /\ plan[p].status \notin TerminalStates
  /\ request' = [request EXCEPT ![p] = TRUE]
  /\ UNCHANGED <<plan, tick, brokerVars, hostVars>>

\* configure of the campaign.
Configure ==
  /\ enabled' = ~enabled
  /\ UNCHANGED <<storeVars, tick, brokerVars, quote, interrupts>>

-----------------------------------------------------------------------------

\* What the tick in progress does next.
Continue ==
  \/ ReadMissing \/ (\E hit, expired, admitted \in BOOLEAN : Read(hit, expired, admitted)) \/ Observe
  \/ CancelEntry \/ CancelExit \/ CancelRefused \/ EntryCancelAnswered \/ ExitCancelAnswered
  \/ Close \/ ExitRests \/ TryCancel
  \/ EntryEnded \/ EntryExpired \/ Waits \/ EntryInvalidated
  \/ AdmitEntry \/ Manage \/ AdmitExit
  \/ PreviewRefused \/ Dispatch \/ Submit \/ SubmitAnswered \/ SubmitUncertain

StartTick(p) ==
  \/ CancelBeforeEntry(p)
  \/ \E executable \in BOOLEAN, observation \in {quote, quote + 1} :
       Begin(p, executable, observation)

Environment ==
  \/ \E p \in Plans : RequestExit(p) \/ \E n \in Slots : Accept(p, n) \/ Fill(p, n) \/ Expire(p, n)
  \/ Configure

PlanNext == (\E p \in Plans : StartTick(p)) \/ Continue \/ Interrupt \/ Environment

PlanSpec == PlanInit /\ [][PlanNext]_planVars

\* manage comes back to every plan in the loop of autonomous_trading_service.py, a
\* tick goes on unless it is interrupted, and a broker that was asked to cancel
\* an order closes it in the end.
PlanFairness ==
  /\ \A p \in Plans : SF_planVars(StartTick(p))
  /\ WF_planVars(Continue)
  /\ \A p \in Plans : WF_planVars(ConfirmCancel(p, 0))

PlanFairSpec == PlanSpec /\ PlanFairness

-----------------------------------------------------------------------------
(* Properties *)

StateType ==
  [status: States, entry: BOOLEAN, exit: Slots, attempt: Slots, sold: Nat,
   decided: BOOLEAN, withdrawn: BOOLEAN, retry: BOOLEAN, replaced: Nat,
   cancelFor: Slots, cancels: Nat, matched: Nat, submitted: Nat]

\* Records have their fields, the sale in progress is the next one after the
\* ended attempts, and the replacement budget of the policy is kept.
PlanTypeOK ==
  /\ plan \in [Plans -> StateType]
  /\ \A p \in Plans : /\ plan[p].exit \in {0, plan[p].attempt + 1}
                      /\ HasPolicy => plan[p].replaced <= MaxReplacements
  /\ request \in [Plans -> BOOLEAN]
  /\ position \in [Plans -> Int]

\* An interrupted submission is never repeated: every order id is sent to the
\* broker once, whatever is lost (test_response_lost_after_broker_acceptance).
SubmittedOnce == \A p \in Plans, n \in Slots : calls[p][n].submits <= 1

Live(p, n) == order[p][n].phase \in {"sent", "open"}

\* A plan has at most one order that can still fill: the next order waits until
\* the broker has closed the one before, also when it was cancelled or lost.
OneLiveOrder == \A p \in Plans, m, n \in Slots : Live(p, m) /\ Live(p, n) => m = n

\* Sales never exceed what the plan has bought, and an open sale is always covered
\* by the position, over partial fills, retries and restarts.
SalesAreCovered ==
  \A p \in Plans : /\ position[p] >= 0
                   /\ \A n \in Sales : Live(p, n) => order[p][n].size - order[p][n].filled <= position[p]

\* A plan that is closed, cancelled, expired, invalidated or rejected holds
\* nothing and has no order that could still fill.
EndedIsFlat ==
  \A p \in Plans : plan[p].status \in TerminalStates =>
    position[p] = 0 /\ \A n \in Slots : ~Live(p, n)

\* What the ticks of an account make of its plans, through lost answers, partial fills
\* and restarts: one purchase, sales of what is held one after another, and an end for
\* good that leaves nothing behind (PlanLifecycle).
Stage(p) ==
  IF plan[p].status \in TerminalStates THEN "ended"
  ELSE IF order[p][0].phase = "none" THEN "waiting" ELSE "entered"

LiveOrder(o, n) ==
  [number |-> n, left |-> o[n].size - o[n].filled, doubt |-> o[n].phase = "sent"]
LiveOrders(p) == {LiveOrder(order[p], n) : n \in {m \in Slots : Live(p, m)}}

Lifecycle == INSTANCE PlanLifecycle WITH
  stage <- [p \in Plans |-> Stage(p)],
  live <- [p \in Plans |-> LiveOrders(p)],
  held <- position

FollowsPlanLifecycle == Lifecycle!Spec

\* The broker is asked at most MaxCancels times to cancel one sale, counted over
\* restarts and lost answers.
CancelsAreBounded == \A p \in Plans, n \in Sales : calls[p][n].cancels <= MaxCancels

\* No two orders of a plan were submitted on the same market observation.
OneOrderPerQuote ==
  \A p \in Plans, m, n \in Slots :
    m # n /\ order[p][m].phase # "none" /\ order[p][n].phase # "none"
      => order[p][m].quote # order[p][n].quote

\* What the broker receives for a plan is counted over lost answers and restarts:
\* every order once, a bounded number of cancellations, one order per observation.
RequestsAreCounted == SubmittedOnce /\ CancelsAreBounded /\ OneOrderPerQuote

\* At most one purchase of the account is in doubt: while its acceptance is
\* unknown no other plan enters (unresolved_dispatches).
OneEntryInDoubt ==
  \A p, q \in Plans : order[p][0].phase = "sent" /\ order[q][0].phase = "sent" => p = q

\* A stored stop decision or exit request closes an open purchase, through
\* restarts, a rebound of the price and a quote outage.
StopsWithdrawTheEntry ==
  \A p \in Plans :
    (plan[p].decided \/ request[p]) /\ order[p][0].phase = "open" ~> order[p][0].phase = "closed"

\* Pausing the campaign for good leaves no open purchase behind.
PauseWithdrawsEntries ==
  (<>[]~enabled) => \A p \in Plans : <>[](order[p][0].phase # "open")

\* A purchase that the system or the user has decided against does not stay at the
\* broker (run, reconcile and the purchases that execute leaves open).
DecisionsWithdrawEntries == StopsWithdrawTheEntry /\ PauseWithdrawsEntries
=============================================================================
