# Verification of the order execution and agent runtime core

TLA+ modules, TLC runs and TLAPS proofs about the parts of the stock system in this repository
that keep durable state and change it from several threads, tasks and processes. Paths are
relative to the repository root; `execution/` abbreviates `src/open_stock_ai/execution/`,
`agent_runtime/` abbreviates `src/open_stock_ai/agent_runtime/`.

    tlc -workers 2 -config MCPaperOms.cfg MCPaperOms.tla
    tlc -workers 2 -config Protocols.cfg MCProtocols.tla
    tlapm PaperBrokerProofs.tla

## 1. Inventory

The program researches Taiwan stocks with language-model agents and trades them on paper; a
gateway to live and sandbox brokers is part of it. What has to be *right* in it, and is hard to
test, is the state kept in SQLite and in memory and changed by several actors, by restarts and by
retries.

| Part | State | Operations | What is hard | What makes it correct |
|---|---|---|---|---|
| **Paper OMS** `execution/paper_oms.py` | orders, fills, positions, cash, settled cash, settlement rows | `submit_partial_fill`, `settle_due`, `accrue_borrow_fees` | repeated and late fill reports, split fills, T+2 cash, errors that roll a batch back | fills booked once, one commission per order, cash = settled + pending, purchases covered, every trade settles |
| **Borrow ledger** `execution/paper_borrow.py` | locates, open short lots, accrual dates | preview, reserve, cover, recall, accrue | position and lots change together; recall in between | what is short is borrowed |
| **Paper broker** `execution/paper_broker.py` | one row per ticket, its events | submit, tick, fill, rest, cancel, expire, replace, get | each call is several transactions, several calls run at once, a crash between OMS and broker | closed stays closed, shown fills are backed, fok whole or not, replaced exposure never grows |
| **Paper API** `src/stock_ai/paper_training_api.py` | none of its own | order, cancel, replace, mark-to-market | sync endpoints in a thread pool on one database file, no lock | see the broker |
| **Trading plans** `execution/trading_plan_executor.py` | plan state, exit requests, dispatches | `tick`: reconcile, decide, cancel, retire, replace, submit | awaits between read and write, intent saved before the broker is called, cut off after 45 s | one submission per intent, one live order, sales covered, decisions survive, ended plans are flat |
| **Plan leases** `execution/trading_plan_store.py` | account lease, plan leases, revisions | `account_lease`, `lease`, `save_state` | a tick that outlives its lease, a worker lost with it | a running tick has both leases and may save |
| **Autonomous service, campaign** `src/stock_ai/autonomous_trading_service.py` | campaign status | drives plan ticks | pausing while a tick runs | a pause withdraws open purchases |
| **Leader lease** `src/open_stock_ai/governance/ha_leader_lease.py` | lease rows | claim, renew, release | check and write apart, expiry | one owner per epoch, epochs only grow |
| **Transport guards** `agent_runtime/circuit_breaker.py`, `rate_limit.py`, `transport_guard.py` | circuit and request budget per scope, in memory | `before_call`, `record_*`, `complete_request` | every way a call may end, late results, one probe | no slot or probe is left behind, a scope becomes usable again |
| **Approvals** `agent_runtime/approval_manager.py` | approvals, challenges | require, issue, resolve, consume | windows that overwrite challenges, expiry, resumption | a tool runs with the user's consent to its arguments, once |
| **Live broker OMS** `src/stock_ai/brokers/oms.py`, `order_store.py` | order ledger with write-ahead states, an entry per gateway | submit, report, reconcile, cancel, kill switch, restart | outcome unknown, reports repeated or late, entries held over awaits | no blind resubmission, fills never go back, the record is true |
| **Market feed** `src/stock_ai/brokers/sequence_tracker.py`, `market_feed_recovery_service.py` | last number, gap receipts | observe, recover | lost, repeated and reordered events, a snapshot on its way | trading only on a feed without a hole |
| **Durable runs** `src/stock_ai/durable_agent_runtime.py`, `agent_run_store.py` | run rows, tasks, budgets | create, pause, cancel, resume, continue, shut down, recover | a call before the first step of a task, recovery beside the user | the user's decision stands, interrupted work is resumed |
| **Tool calls** `agent_runtime/forest/`, `agent_runtime/workers/supervisor.py` | branches, worker rows, worker processes | schedule, execute, cancel, close | calls share a process, answers left in a pipe, processes that die | a result answers its own request, changes are over when recorded, passes end |
| **Automations** `agent_runtime/automation/` | automation, schedule, receipts, executions, daily budget | poll, deliver, analyze, answer, pause, resume, archive | a deadline crosses five transactions, the user acts between any two | each occurrence analyzed once, a pause holds, deadlines are answered |
| Agent orchestration | plans, steps | routing and model calls | depends on model output | — |
| Broker sessions, reconnect | timers and counters | plan a reconnect | — | — |
| Corporate actions, restrictions, market rules, execution models, risk engine | imported facts, none | evaluation | arithmetic | — |
| Research, data sources, storage, UI, vendored projects | caches, files | fetch, parse, show | I/O | — |

How they interact: the API and the plan executor (through `execution/broker_port.py`) call the
broker; the broker calls the OMS for every fill and the borrow ledger for previews; the OMS calls
the borrow ledger inside its own transaction. They share one SQLite file and meet nowhere else:
there is no in-process lock, so SQLite transactions are the only atomic units. Automations start
agent runs; a run executes tool calls in worker processes and waits for approvals; calls of
providers and brokers pass a transport guard. These run on one event loop, whose awaits are the
places where another task may come in between. `PROJECT.json` lists every component with its
status, and every hazard with the line where it bites.

## 2. Plan

Done, in this order: `PaperOms` and `PaperBroker` (money and positions under concurrency) with
`OrderLifecycle`, the abstract promise of an order ticket; `TradingPlan` and `PlanLease`;
`LeaderLease`, `TransportGuard`, `Approvals`; `LiveOms`; `AgentRun`; `Automations`;
`ToolWorkers`; `MarketFeed`; proofs of the safety properties of all of them, and of the step by
step refinement of `OrderLifecycle` by the one-thread broker; `PlanLifecycle`, the abstract promise
of a trading plan, with the proof that `TradingPlan` implements it; proofs of every type invariant.

Next: extensions of the models by the resumption and restoration of a task forest, the registration
and merging of automations, `register_replacement` of the live OMS and the idempotent creation of
plans.

## 3. Modules

### PaperOms (`execution/paper_oms.py`, `paper_borrow.py`, `taiwan_settlement.py`)

One variable per table or column that matters: `orders` (`paper_orders`, with the sums of the
order's fills), `fills` (`paper_fills`), `position`, `reserved` (open lots), `recalled` and
`accrued` (locate status, accrual date), `cash` and `settled` (`paper_accounts`), `pending`
(`paper_settlements`), `fees` (the borrow-fee entries of `cash_ledger`), `today`.

`SubmitPartialFill(o, action, requested, seq, q, price)` is the whole of `submit_partial_fill`:
the ignored reports (fill id seen, other contract, final order), the holding check of an order
seen for the first time, the refusals in the code's order (side, cash, locate), and `ApplyFill`,
which changes order, fill, position, lots, cash and settlement row together. Each class
operation opens `begin immediate`, so each is one atomic action. `cover_short` may raise; the
transaction is then rolled back, and the action is not enabled. `SettleDue` settles the due rows
in order or, when a prefix of them would overdraw, raises and changes nothing.

`OmsNext` drives the ledger with `BrokerReport`: any order, any quantity and price, and any fill
number up to the next free one, so that reports are repeated and come late.

Abstractions: money and quantities are integers and percentages round down; a price is the price
after slippage; the quantity of a ticket always comes from the broker (percent sizing by
`submit_and_fill` is left out), so a report of a known order asks for the same quantity;
`add` counts as `buy`; one locate per symbol, its recall and its expiry are one event; a borrow
fee is any amount up to `BorrowFee` per share and day since the oldest accrual; whether a quote
carries the settlement contract is a constant of the instance; days are trading days. Average
cost, realised profit, net asset value, change-set and retention receipts are left out: no guard
reads them.

### PaperBroker (`execution/paper_broker.py`), EXTENDS PaperOms

`book[o]` is the broker row's status, `worker[w]` the continuation of a thread: the step it takes
next, the order, and what it has read (position, remaining quantity, fill number, row status).
`crashes` counts restarts.

A request is cut where the code cuts its transactions. Python's sqlite3 commits a SELECT outside
a transaction at once and opens a transaction with the first write, so "read the row, decide,
update it" is two steps with other threads in between:

| Code | Steps |
|---|---|
| `submit`, `_acknowledge_and_evaluate` | `Submit`, `ReadSubmitted`, `WriteAcknowledged`, then evaluation |
| `process_market_tick` | `Tick` for each open order, in any order |
| `_evaluate_order` | `Evaluate` (reconciles and reads the row in one transaction), then `Act` with the row read |
| `_fill` | `ReadPosition`, `Measure`, `Number`, `Report` (the OMS transaction), `Record` |
| `_rest_active`, `_cancel_unfilled` | `Rest`, `Withdraw` |
| `cancel`, `expire_due`, `_expire_rod_orders` | `StartCancel`/`StartExpire` read, `Cancel`/`Expire` write |
| `replace` | `StartReplace` reads, `Replace` closes and inserts in one transaction, then acknowledgement |
| `get_order` | `GetOrder`, one transaction |
| restart | `Crash`: every thread is lost, tables stay |

`Act` chooses among what the quote can lead to: rest (or cancel ioc and fok), expiry, waiting for
the exchange session, a stop trigger, a fill. Prices and rules only make that choice, so all of
them are possible at any time; likewise the quantity of a tick is any up to the remaining one.
Status `triggered` counts as `open`. The preview and the insert of `submit` are one step: the
row does not exist before, so nobody can act on it in between. The reads of `replace` are one
step as well. `settle_due`, fees and the clock run in `PaperOms` only; the broker instances have
immediate settlement (`SettlementEnforced = FALSE`), so its ledger changes by reports alone.

### OrderLifecycle

The abstract promise: accepted or turned away once, filled while live and within its size, closed
once; a replacement takes over at most what is left and closes its predecessor in the same step.
`PaperBroker!FollowsLifecycle` is the refinement: `phase` is new, live or closed by the broker
row, `filled` is the ledger's quantity. For one thread it is proved, restarts and reads by others
included, as long as no ioc order is replaced (`SerialLifecycle`; section 5 has the
counterexample). It does not hold for two threads, and the runs `broker_terminal` and
`broker_replace` show the two ways it fails.

### TradingPlan (`execution/trading_plan_executor.py`, `trading_plan_store.py`)

`plan[p]` is the saved state of a plan, `tick` the tick in progress with the copy it works on,
`order[p][n]` what the broker knows of the purchase (0) and of the sales, `calls` what it has been
asked. The account lease lets one tick run at a time (`PlanLease` shows that), so there is one
`tick`; it is cut at its awaits, and `Interrupt` may end it at each of them, for the 45 second
limit of `_tick`, an error and a restart alike. Between two awaits the whole of the code's
decisions is one action.

| Code | Actions |
|---|---|
| `tick`, `_tick`: merged request, reconciliation | `Begin`, `ReadMissing`, `Read` |
| stop decision, entry withdrawal | `Observe`, `CancelEntry`, `EntryCancelAnswered`, `CancelRefused` |
| exit in progress | `Close`, `ExitRests`, `TryCancel`, `CancelExit`, `ExitCancelAnswered` |
| entry over or invalid | `EntryEnded`, `EntryExpired`, `EntryInvalidated`, `Waits`, `Manage` |
| admission, intent, submission | `AdmitEntry`, `AdmitExit`, `PreviewRefused`, `Dispatch`, `Submit`, `SubmitAnswered`, `SubmitUncertain` |
| `record_exit_request`, campaign status | `RequestExit`, `Configure` |
| the broker | `Accept`, `Fill`, `Expire`, `ConfirmCancel`, at any time |

Abstractions: prices, deadlines, waiting times, product admission, preview and risk only choose
between branches and are free; an observation is its number, and observations are assumed
monotone, as the code compares their times and nothing else. The paper ledger behind
the broker is abstracted to orders that fill while they are open.

### PlanLifecycle

The abstract promise of an account's plans, without ticks, records and receipts: a plan enters
once and only when no purchase of the account is in doubt; sells what it holds, one order after
another; ends for good with nothing held and nothing live at the broker. In
`TradingPlan!FollowsPlanLifecycle` the stage of a plan is whether its purchase was sent and whether
its saved state is final (`Stage`), its live orders are those the broker can still fill, with what
is left of them (`LiveOrders`; in doubt until the broker accepts or refuses), and what is held is
`position`. It leaves out what only the record knows; that each order is asked for once is
`RequestsAreCounted`.

### PlanLease (`execution/trading_plan_store.py`, `tick`)

Workers, in one process or several, with the one reading of the clock that both leases are
counted from, the revision that `save_state` compares, and workers that are lost with what they
hold. The named premise is `Setup + Timeout < Duration`: the time between the reading and the
second lease is bounded (by nothing in the code; it is local SQLite work) and with the 45 s
limit fits into the 120 s of the leases. `OneTickRuns` is what `TradingPlan` takes from this module:
one tick at a time.

### LeaderLease, TransportGuard, Approvals

`LeaderLease`: `claim` in one transaction, `renew` and `release` as a check and a write with
everybody else in between, receipts that run out, owners that forget them. `erased` is a history
variable: a release deletes the row, and its epoch with it.

`TransportGuard`: one scope with its circuit and its request budget. A caller is admitted or
refused in one step, awaits its operation and records its end in one step; it may end well, be
refused, be throttled, fail as unavailable or raise. Cancellation is a failure
(`transport_guard.py` catches `BaseException`). A tick of the clock drops from the front of the
window what has expired, as `popleft` does, so that what stays behind a younger entry is kept
(`Popped`, `InWindow`). Threads that use `call_sync` are not interleaved
inside admission.

`Approvals`: the approvals of one mutating step, from the question to the consumption, over
revisions of the arguments, failures and resumptions of the run; windows read and write the
challenge of an approval in two steps. `Guarded` says whether an approval node comes before the
tool. The kill switch is a stored flag that admission reads; it is left out.

### LiveOms (`src/stock_ai/brokers/oms.py`, `order_store.py`)

The durable rows, the entry each gateway holds of an order, and the tasks that keep it over
`place_order` and `cancel_order`. The broker fills, ends and reports orders; reports come late,
repeated, in any order or never. `Restart` marks what is not final as unknown. `Home` says which
gateway a task uses, so that one and several gateway processes are instances of the same module.
Left out: `register_replacement`, the loop of `activate_kill_switch_and_cancel_open_orders`,
live activation receipts and retention.

### MarketFeed (`sequence_tracker.py`, `market_feed_recovery_service.py`, `gateway.py`)

Events of one stream arrive lost, repeated or late; `Observe` is tracker, receipt of a gap and
passing on in one step, with a receipt that may fail to be written; `TakeSnapshot` and
`RecoverSnapshot` are apart because events go on while a snapshot is fetched. `recover_snapshot`
and the allowance are exercised by tests only in this repository: the gateway discards the
observation. The module says what they promise to a caller.

### AgentRun (`src/stock_ai/durable_agent_runtime.py`, `agent_run_store.py`)

`record` is the row of a run, `execution` its asyncio task (created, running, stopping),
`followUp` the host's own continuation, `pausing` the in-memory pause flag, `cancelCall` a cancel
that waits for the task. A call may come before the first step of a task: the task then ends
without having run, which `overtaken` remembers. `CloseHost` is the shutdown, `CrashHost` a crash,
`Reopen` the start with `recover_interrupted` and `start_background`. Calls for one run do
not overlap; `CancelIsTerminal` needs that. Left out: what the agent does in a run, schedules,
steering and proposals, reclassification of rows of older versions, maintenance pause, `failed`.

### Automations (`agent_runtime/automation/`)

The rows of one automation (state, schedule, and receipt, execution and budget per occurrence),
the poller and the deliveries of events as tasks with their position, and the user's call as a
check and a write in a thread of its own. A deadline passes `ClaimDue`, `Prepare`, `Reserve`,
`Analyze`, `RecordExecution`, `Settle`, `Answer`, one transaction each; `Outage` loses the tasks,
and `Poll` takes up receipts that were left `processing`. Time is counted in periods of the
schedule. Left out: market-calendar deferral, the cap of 32 per poll, registration, merging and
retargeting, submissions to n8n, notifications, execution checkpoints, two user calls at once.

### ToolWorkers (`agent_runtime/forest/`, `agent_runtime/workers/supervisor.py`)

Passes of the forest executor, one coroutine per call with its position, row, answer and process,
and the worker processes with what is in their pipes. The event loop is first in, first out,
which the module uses in one place: tasks created before a cancellation take their first step
before the run unwinds. A process dies at once when it is stopped. Left out: dependencies and
joins, child branches, several worker types, resumption of a paused run, restoration of a
forest, the health socket, and the growth of a run's forest (it never shrinks and is limited to
128 nodes, `runtime_authority.py:189`).

### MCProtocols

`OrderLifecycle`, `LeaderLease`, `PlanLease`, `TransportGuard`, `Approvals`, `LiveOms`,
`AgentRun`, `Automations`, `ToolWorkers` and `MarketFeed` share no state. One instance checks them:
`protocol` is chosen in the initial state and the variables of the others stay as they began, so a
behaviour of it is a behaviour of one protocol, and its states are the sum of theirs, not the
product. A property that names one protocol's variables is checked on exactly its behaviours;
liveness is guarded by `protocol = ...` because the others stand still.

Compositions: `PaperBroker` extends `PaperOms` and refines `OrderLifecycle`; `TradingPlan` refines
`PlanLifecycle` and relies on the promise `PlanLease` is checked and proved for.

A definition marked `Faulty` is a plausible mistake in the code (a fill id not recognised, a slot
not given back, an intent saved too late); put in the place of the definition after it, it makes
a property of some run fail. The specifications never use one.

## 4. Runs

| Run | Instance | States | Question |
|---|---|---|---|
| `oms` | four tickets on one symbol (buy 3, sell 2, short 2, cover 1), prices 2 and 3, fees and tax 20 %, minimum 1, T+2 over four days, locate of 1 | 0.2 M | does the ledger keep its books |
| `oms_oversold` | buy 3, sell 3, sell 2 | — | are positions the sum of fills (violated) |
| `broker_concurrent` | two threads, one restart; two purchases for 2 with cash for one and a half, one of them fok; a replacement | 1.5 M | what survives every interleaving |
| `broker_serial` | one thread, one restart; short 3, covers of 3 and 2 (ioc), replacement cover of 1 | 65 k | is the lifecycle implemented, does a committed fill reach the book |
| `broker_terminal` | two threads, one purchase | — | is a closed row final (violated) |
| `broker_replace` | two threads, a purchase and its replacement | — | does replacing keep exposure (violated) |
| `plan_exits` | one plan of three shares in lots of 2, exit policy with one replacement, two cancellations, three observations, one interrupt | 1.6 M | is the lifecycle of a plan implemented, with nothing submitted twice, sold short or left live |
| `plan_account` | two plans of one share, one observation, one interrupt | 3.1 M | is at most one purchase in doubt |
| `plan_stops` | one plan of two shares, two observations, two interrupts, fair ticks | 0.4 M | does a decision withdraw the purchase |
| `protocols` | the ten protocols, below | 0.6 M | each protocol's promise |
| `live_resubmit` | one order, one gateway, two tasks | — | is an order placed once (violated) |
| `agent_cancel` | one run, one stop | — | does a cancellation survive a restart (violated) |

`protocols` is, per protocol: replacements 1 ← 2 ← 3 with a rival 4 and an order of its own;
three owners of a lease, `Ttl` 2, epochs to 3; two workers and two plans, leases of 4, setup 1,
timeout 2, one lost worker; three callers, threshold 2, concurrency 2, three requests per window
of 2, with and without `Retry-After`; two windows, three approvals, one revision, one failure,
with an approval node; one order of 2 at one gateway, two tasks, two restarts; one run with a
ceiling of 2 continuations, three by the user, two stops; an automation of each of four kinds of
triggers with one event, two deadlines and one outage; three tool calls of four workloads, two
active at once, one death of a process; four market events and one restart.

Bounds and why they suffice. Quantities of 2 and 3 are the smallest that fill in several parts
with a remainder; a fill number bound (`MaxSeq`) of the ticket's quantity never cuts a fill of one
share a tick, and in `oms`, where it is 2, the purchase of 3 still fills in parts of 1 and 2. Two
threads give every pair of steps its interleavings, and the ledger only sees one report at a time;
the proofs cover more. One restart hits every step of a thread. Tickets share one symbol and one
cash balance because only there do they meet. In `oms`, a trade is possible on days whose
settlement the clock still reaches (`today + SettlementDays <= MaxDay`), so that no pending row is
cut off by the bound; without it `TradesSettle` would fail for the bound alone. Three shares in
lots of two make a plan sell in two orders, three observations allow a purchase, a sale that ends
early and its successor; an interrupt hits the call whose outcome is unknown, and the second one of
`plan_stops` the tick that repairs it (the theorems allow any number). Three owners are needed for a late renewal to meet a third owner's epoch;
three callers for one that probes, one that is refused and one admitted before the circuit opened;
two stops for a shutdown after a restart; three tool calls for a batch larger than `MaxActive`;
four events for a gap, its recovery and an event that comes late after it. Symmetry
(`Threads`, `SamePlans`) is used only in runs of invariants. Deadlock checking is off because
a system whose orders are final, whose runs have ended or whose bounds are used up may stop.

Fairness.

* `OmsFairness`: `settle_due` runs at the start of every tick and submission, and time passes.
* `BrokerFairness`: a thread finishes its request unless the process stops (weak fairness of
  `Continue`), and a tick comes back to every order that stays open (strong fairness of `Tick`,
  as the order is open again and again while threads work on it): the mark-to-market endpoint and
  the autonomous service poll the open symbols. `GetOrder` is not fair: nobody has to look.
* `PlanFairness`: the service's loop comes back to every plan (strong fairness of `StartTick`,
  which other ticks and leases disable for a while), a tick goes on unless it is interrupted, and
  a broker that was asked to cancel closes the order in the end. Interrupts are bounded; a tick
  that is cut off every time gets nothing done, in the code as well.
* `ProtocolsFairness`: plan leases — time goes on and a worker that has begun goes on unless it
  is lost; transport — callers come again, operations end (each has a timeout), time goes on;
  runs and automations — the event loop runs what is ready, an execution ends at last (its steps,
  its budget and its provider calls are bounded), and the application is opened again; tools —
  the loop runs what is ready and every call has a timeout. The user, the broker's reports,
  approvals, failures and deaths are never fair.

## 5. Properties

Each is a comment and a formula in its module; the list says why it is one.

* **Ledger.** `FillsMatchOrders`, `FillsAreNumbered` (repeated, late and concurrent reports book
  each fill once and leave no gap, which `_fill_count` relies on), `CommissionIgnoresSplits`,
  `CashIsSettledPlusPending` (the economic and the settled view differ by the pending rows and by
  exactly the borrow fees), `PurchasesAreCovered`, `ShortsAreBorrowed`, `TradesSettle`.
* **Broker.** `FilledIsBacked`, `FokIsAllOrNothing`, `CashIsNotSpentTwice` (safe although previews
  are stale, because the OMS checks again), `FillsReachTheBook`, `FollowsLifecycle`,
  `ExposureIsKept` over chains of replacements.
* **Plans.** `RequestsAreCounted` (an order id is sent once, a cancellation a bounded number of
  times, one order per observation, over lost answers), `FollowsPlanLifecycle` (with it one live
  order per plan, `OneLiveOrder`), `SalesAreCovered`, `EndedIsFlat`, `OneEntryInDoubt`, and
  `DecisionsWithdrawEntries`: a stored decision, an exit request or a pause closes an open
  purchase. `RunningTicksMaySave` and `AccountIsTicked` for the leases they run under.
* **Leader lease, transport, approvals.** `EpochHasOneOwner`; `NothingStaysBehind` and
  `ScopeIsUsable`; `AnswersAreKept` (a tool runs with consent to these arguments that has not
  served yet, and a run that waits has asked one question, the one it waits for).
* **Live OMS, market feed.** `RecordIsTrue` (what was sent is on record, what is open can be
  cancelled, what is recorded as ended has ended), `NeverBlindlyRepeated`, `FilledNeverDecreases`;
  `AllowedFeedsAreWhole`.
* **Runs, tools, automations.** `BusyRunsAreDriven`, `UserDecisionsStand`, `WorkIsResumed`;
  `CallsAreAccountedFor` (answers are their own, recorded changes are over, closed runs are quiet),
  `ExecutionsEnd`; `AnalyzedOnce`, `PausesAreKept`, `OutcomesAreFinal`, `DeadlinesAreAnswered`.

### Disagreements between the code and what the repository says of it

Five have a run that ends in the violation; `PROJECT.json` quotes the lines.

1. **Oversold holding** (`oms_oversold`). The holding is checked when an order is first seen. A
   sale that rests is not checked again, and `max(0.0, ...)` hides the shortfall.
2. **Reopened order** (`broker_terminal`). A tick overwrites a cancel, expiry or replace.
3. **Enlarged exposure** (`broker_replace`). A fill in flight is not in the remaining quantity.
4. **Second placement** (`live_resubmit`). A report makes an unknown order acknowledged without
   giving it a receipt; `submit` then places it again.
5. **Lost cancellation** (`agent_cancel`). A process that stops while `cancel` waits leaves a row
   that the next start takes for interrupted work and resumes.

The others are formulas of the modules that no run checks; TLC refutes each in the instance given
here. "As in `Protocols.cfg`" means `MCProtocols` with the constants of that file (a liveness
property restricted to its protocol, as `ProtocolsFairness` is).

| Property | Instance | What the code does, and what is said |
|---|---|---|
| `PaperOms!SettlementNeverOverdraws` | `MCPaperOms`, `RoundTrip`, quantities and prices {1}, cash 4, minimum commission 3, `MaxSeq` 1, enforced | a sale for less than its commission is a negative receivable (`paper_oms.py:438`); its settlement raises "settlement_would_overdraw_settled_cash" (525), and so does every later submission and tick (`paper_broker.py:210`, 256) |
| `PaperOms!ReportsKeepTheContract` | `MCPaperOms`, `PartialSale`, quantities {1, 2, 3}, `MaxSeq` 2, not enforced | "The OMS must retain the original ticket quantity" (`paper_broker.py:897`); a partial sale is `reduce` first and `sell` once fills have shrunk the holding (908), and the OMS refuses the second report for good |
| `PaperOms!ShortsAreBorrowed` | `MCPaperBroker`, `Rounds`, two workers, cash 4, locate 1, `MaxSeq` 2, no crash | a late sale meets a short position and closes it without a cover (`paper_oms.py:762`) |
| `PaperBroker!FollowsLifecycle` | as in `BrokerSerial.cfg` with orders 2 and 4 of `Covers` ioc | "The old order reaches the terminal ``replaced`` state" (`paper_broker.py:352`); a restart leaves an ioc order open with a partial fill, `get_order` closes it as canceled (335) between the read of `replace` (359) and its write (422), which makes the closed row `replaced` and opens another order |
| `LiveOms!NeverBlindlyRepeated` | `Overlapping = TRUE`, no restart | "never converted into a blind duplicate submission" (`oms.py:273`); a second `submit` during the await of the first does not look for SUBMITTING |
| `LiveOms!FilledNeverDecreases` | `TwoHomes`, two gateways, one placement | `cancel` writes the entry it held over its await, and with it an older quantity (`oms.py:442`) |
| `LiveOms!FinalStatesStay` | one placement, no restart | `mark_unknown` assigns the state without `_transition` (`oms.py:173`) |
| `LeaderLease!EpochHasOneOwner` without `~erased` | three owners, `Ttl` 2, `MaxEpoch` 2 | "monotonic fencing epochs" (`ha_leader_lease.py:62`); a release deletes the row and the next claim begins at 1 |
| `LeaderLease!OneLiveHolder` | the same | "only the current unexpired owner can renew" (96); `renew` writes by name after its check (98) |
| `TransportGuard!OneProbe` | two callers, threshold 1, concurrency 2, requests 4, window 1 | a single recovery probe is stated; a failure admitted earlier clears the probe flag (`circuit_breaker.py:104`) |
| `TransportGuard!FailuresOpenTheCircuit` | two callers, outcomes fine and raised, threshold 3, one request at a time | a call the rate limit refuses is recorded as a success of the circuit (`transport_guard.py:48`) |
| `Approvals!StartsInTime` | guarded, two approvals | approvals are "bound to ... expiry"; the approval of a node is not checked again (`orchestrator.py:6663`) |
| `Approvals!DenialsAreTheUsers` | not guarded | "The user denied this action"; an approval given too late is stored as denied (`approval_manager.py:123`) |
| `Approvals!QuestionsAreDecided` | not guarded, one window, `ApprovalFairSpec` | an approval that expires before its first challenge can neither be answered nor replaced (90) |
| `AgentRun!ControlWins` | one run, ceiling, limit 1, no stop | "Their explicit control always wins" (`durable_agent_runtime.py:4526`); pause and cancel return early for a partial result about to be continued |
| `AgentRun!PauseIsDurable` | the same | "an explicit user pause is itself durable state" (345); a task cancelled before its first step records nothing |
| `AgentRun!OnlyPausesArePauses` | the same, one stop | the pause flag stays after a pause without a task, and the next shutdown is taken for a pause (1142) |
| `AgentRun!RepairIsRestored` | as in `Protocols.cfg` | "Restore their bounded self-repair loop after a desktop restart" (351); the loop skips rows that were not reclassified (357) |
| `Automations!PausedIsQuiet` | as in `Protocols.cfg` | the answer of another callback makes a failed schedule of a paused automation active again |
| `Automations!StrandedIsFreed` | the same | "without silently losing" (`time_poller.py:25`); a lost analysis leaves the automation triggered for good |
| `Automations!ChargedToItsDay` | the same | an analysis is charged to the day on which its poll began (`time_poller.py:106`) |
| `Automations!OneShotsAreKept` | the same | a deadline that is dispatched while the user pauses is filtered, and a one-shot has no other |
| `ToolWorkers!ClosedRunsAreStill` | the same | calls are "supervised as cancellable workers"; a process that was replaced, or started during the cancellation, works on |
| `ToolWorkers!SiblingsSurvive` | the same | a local failure is said to leave its siblings alone; the time-out of a call stops the process that they share |
| `ToolWorkers!RowsEnd` | the same | the row is written before the process is started, and a failing start leaves it running (`supervisor.py:169`) |
| `MarketFeed!GapsCanBeRecovered` | the same | a stale snapshot has a recovery receipt that the tracker refuses; later snapshots of the gap are turned away |
| `MarketFeed!GapsAreDurable` | the same | "explicit, durable and fail-closed" (`market_feed_recovery_service.py:32`); after a restart the first event allows trading over a recorded gap |
| `MarketFeed!ConsumersSeeAll` | the same | the tracker advances before the receipt of a gap is written; when that fails the event is passed on to nobody |

In the instances of the passing runs these stay out of the way by what is asked, not by a changed
model: `broker_serial` has one thread, `TradesSettle` holds in an instance where a sale always
earns more than its commission, `EpochHasOneOwner` speaks of rows that were not released.

## 6. Proofs

Eight modules, for every value of the constants under the named assumptions of the modules
(numbers are natural, tickets well formed, `Setup + Timeout < Duration`, event ids are not
deadlines, ...), which TLC evaluates in the runs. A theorem with a further hypothesis has it in
its statement, and the text below says why it is needed.

* **Ledger** (`PaperOmsProofs`). `ReportCases` reduces every report to three cases: ignored,
  refused (one status changes), or a fill with facts about it. `LedgerTypes` is inductive with
  `RowsOK` (an unfilled order has a remainder, and `filled` means all of it). `NumberedFills` adds
  `NumbersOK`: the fill numbers of an order are `1..count` and its fills are finite and as many.
  `SplitsCostNothing` adds `UnpaidOK`, that an order without fills has paid nothing, and needs
  that the commission is monotone (`CommissionGrows`), since an increment is cut off at zero.
  `BorrowedShorts` needs that a report of a sale or cover has a position of its side, which the
  serial driver of `OmsSpec` checks in the same step. `AdvancingOrders` is an action property.
* **Sums of the ledger** (same module). What a sum over a set of rows does when a row is added,
  removed or replaced is shown without induction over data: a set for which it failed would have a
  smallest one, and `WellFoundedInduction` has the theorem about minimal elements. With these
  lemmas `MoneyOK` is inductive (the rows of an order add up to what it has filled, cash is the
  initial cash with the fills and fees, and differs from the settled balance by the pending rows):
  `FillsAddUp`, `CashBookedOnce`, `OmsTypes`. `CoveredPurchases` has the hypothesis `[]SalesEarn`,
  no sale costs more than it brings: without it the receivable of a sale is negative and takes
  what a purchase was promised, which is the `SettlementNeverOverdraws` row of the table above.
  `EarningPrices` replaces the hypothesis by a condition on the prices (`PricesEarn`: a share pays
  the minimum commission, the tax and the rounding), and `SettlementsGoThrough` shows that under it
  `settle_due` never raises. It adds what a batch does row by row: the rows up to any one of it are
  part of the pending ones (`PartOfPending`), whose payables the settled balance covers; rows exist
  only where settlement is enforced (`NothingPending`).
* **Broker** (`PaperBrokerProofs`). `BrokerInv` says what a thread may rely on while the others go
  on: its fill number is at most the next free one, because numbers only grow; a quantity reported
  for a fok order is all of the order, because a fok order has filled nothing or everything when
  it is measured; an outcome `filled` it is about to record is already in the ledger, because
  filled rows are final. `ReportKeepsLedger` shows that a report of one thread keeps what every
  other thread has read; all other steps leave the ledger alone (`QuietStep`). This gives
  `FilledIsBacked`, `FokIsAllOrNothing` and `FillsAreNumbered` for any number of threads and
  restarts, and with the sums `ConcurrentFillsAddUp` and `CashSpentOnce` (under `[]SalesEarn`, as
  in the ledger). `SerialShorts` is `ShortsAreBorrowed` for one thread (`OneAtOnce`), where the
  position a fill was sized by is still the ledger's when it is reported (`Sees`); the table above
  has the counterexample of two.
* **Refinement** (same module). `SerialLifecycle`: one thread at a time the broker implements
  `OrderLifecycle`; every step is mapped to a step of it or to none (`RowMoves`, `FillMoves`,
  `ReplacementMoves`). `SerialOK` is the invariant that this needs beside `BrokerInv`. The thread
  is alone (`OneAtOnce`), but `get_order` is not a thread and closes rows that the ledger has
  finished with; so what the thread has read must be `Standing`, open and not to be closed by such
  a read, until the thread itself writes the row. A replaced ioc order is the case in which it is
  not, hence `PlainReplacements`; the table above has the counterexample. The abstract promise
  then carries over: `SerialExposure` is the property that run `broker_replace` shows two threads
  to break.
* **Lifecycle** (`ProtocolProofs`). `TakenOver` strengthens `ExposureIsKept`: once an order is
  accepted, its predecessor is closed and has left room for the whole of it.
* **Plans** (`TradingPlanProofs`). A plan's state exists twice while a tick runs, saved and in
  memory. `PlanInv` says that both account for everything the broker has received (`Accounts`):
  the state names every order, believes sold what its closed orders have sold, and counts their
  cancellations; what the tick is about to send is saved before, and a purchase on its way is the
  only one in doubt. `NoSecondLiveOrder`, `CoveredSales`, `FlatAtTheEnd`, `CountedRequests` and
  `SinglePurchaseInDoubt` follow from it, for any number of interruptions at any await. So does the
  refinement, `PlansLive`: a submission is a step of the lifecycle because nothing else is live and
  the sale is no larger than what is held (`Covers`), and a plan becomes final only when it is flat;
  everything else a tick does is a stutter. `FinalPlans` is the action property that a final record
  is never written again.
* **Plan leases** (`ProtocolProofs`). `TicksMaySave` with `TickInv`: a running tick's leases are
  its own and outlast its time limit; it uses the premise about the leases and fails with `<=` in
  it. `OneTickRuns` follows. `LeasesAreBounded` gives the bounds of its type invariant.
* **Leader lease** (`ProtocolProofs`). `OwnerInv`: while nothing was erased, the epoch of every
  receipt is at most the row's, and equal only for its owner.
* **Transport guard** (`ProtocolProofs`). The slots are the running calls, and a pending probe is
  one of them; both need only the shape of circuit and limiter, so that the backoff (`2^n`) stays
  out of their proof. `GuardTypes` is about the values: a delay is at most the maximum, whatever
  `2^n` is, and what is in the deque of requests has not left the window.
* **Approvals, market feed** (`ProtocolProofs`). `KeptAnswers` with `AskInv`: consent, and one
  open question at most; that a latest approval of a set exists follows from a minimal
  counterexample (`WFMin`). `WholeFeeds` with `FeedInv`: what an unbroken tracker has counted was
  observed.
* **Live OMS** (`LiveOmsProofs`). `LiveInv` ties the copies of every gateway and what tasks hold
  to row and broker: what the broker has received is unsent neither in its row nor in the copy of
  a task that works on it, and a cancellation that a task takes for confirmed has happened there.
  `EntryStep` is the one lemma all writes go through. `FilledKept` assumes one gateway
  (`OneGateway`), which the table above shows to be necessary. `NoBlindRepeat` is for any number
  of gateways, with submissions that do not overlap (also necessary). Its invariant `RepeatInv` is
  weaker than one would like and so took the most care: a gateway that writes back an old copy
  erases a receipt or the memory of a report, so neither the row nor a copy can be said to know
  the order; but the row and whoever asks for a cancellation, or two who ask, know it together
  (`KnownOrder`), a submission runs alone and marks row and copy (`RunsAlone`), and whenever an order
  has been or will be placed again, all of them have heard of it (`AllHeard`).
* **Runs** (`AgentRunProofs`). `RunInv` relates row, task, continuation and cancel call: only work
  in flight has a task, a cancel call waits only for a task that is being stopped, and no
  continuation is due behind it (`Drives`). `DecisionsStand` is the action property built on it.
* **Tool calls** (`ToolWorkersProofs`). `ToolInv` follows a call into the pipes of the processes:
  it is written once, to one process, which answers it once (`TraceFits`); a change that is in a
  pipe is still waited for, at the registered process (`ChangeFits`); a change runs alone
  (`ChangesAreAlone`); between passes no call is open, and a run that closes knows the calls that
  work on in the host (`PassFits`). `AccountedCalls` follows, for any calls and processes.
* **Automations** (`AutomationsProofs`). `AutoInv` is the types with `Busy` (a callback at work
  knows its occurrence), `Charged` (what is analyzed was reserved) and `Quiet` (what the user
  holds is neither active nor triggered). `OneAtATime` proves `OneCallback`: what a callback works
  on is claimed (`Claimed`), by it only and not by what the poll has yet to recover (`Alone`), and
  no deadline ahead has a receipt (`Ahead`). This is what makes `FinalOutcomes` an invariant of
  every step: nobody else settles the occurrence between a callback's transactions.

* **All protocols** (`ProtocolProofs`). `EveryProtocol`: a behaviour of the instance `protocols` is
  a behaviour of each protocol, so that the theorems above hold where the run checks them;
  `ProtocolTypes` is the conjunction of their type invariants, `ProtocolsTypeOK`.

Checked by TLC only: liveness (`TradesSettle`, `FillsReachTheBook`, `DecisionsWithdrawEntries`,
`AccountIsTicked`, `ScopeIsUsable`, `WorkIsResumed`, `DeadlinesAreAnswered`, `ExecutionsEnd`),
which the prover does not reach. Every other property of a passing run is a theorem.
`FollowsLifecycle`, `ShortsAreBorrowed` (of the broker), `PurchasesAreCovered` and
`CashIsNotSpentTwice` are proved under the hypotheses named above; the runs check the instances of
them where those hold.

## 7. Not modelled

`PROJECT.json` lists every component. The repository has about 176,000 lines of implementation,
most of which keep no state of their own that several actors change:

* the orchestrator and the plan graph decide by what a language model answers; the execution of
  tool calls, approvals, budgets and control of a run around them are modelled;
* data warehouse, migrations, audits, research, replay and reports read inputs, compute and write
  results, one process at a time; their content is arithmetic and formatting;
* market rules, execution models, risk arithmetic and corporate actions are functions of imported
  data, which the models see as the choices they lead to (a tick may match or not, admission may
  be refused);
* broker sessions and adapters are timers and I/O, and the reconnect planner is called by tests
  only; UI and vendored projects are out of scope.

So the map covers the stateful core and a small share of all lines.

Known gaps of the modelled parts are named with each module in section 3 and in the hazards of
`PROJECT.json`; the larger ones are a concurrent instance with short sales and sales,
which final status an order should show that was canceled between its last fill and the record of
it, the resumption of a paused run's tool calls (a process left over from a cancelled start
also breaks `EndedChangesAreStill` then), and overlapping calls of the user for one run.
