-------------------------- MODULE TradingPlanProofs --------------------------
(***************************************************************************)
(* Theorems about TradingPlan for any plans and quantities, any lot, exit  *)
(* policy and budgets, and any number of observations and interruptions.   *)
(*                                                                         *)
(* A state of a plan exists twice while a tick runs: the saved one, which  *)
(* a restart would begin from, and the one in memory.  The invariant says  *)
(* that each of them accounts for everything the broker has received for   *)
(* the plan: every order is named by it, its ended sales are closed, and   *)
(* what it believes sold is what its closed orders have sold.              *)
(***************************************************************************)
EXTENDS TradingPlan, TLAPS

OrderType   == [phase: {"none", "sent", "open", "closed"}, size: Nat, filled: Nat,
                cancelling: BOOLEAN, quote: Nat]
CallType    == [submits: Nat, cancels: Nat]
ReceiptType == [open: BOOLEAN, filled: Nat, whole: BOOLEAN]

\* A tick between its first reading and its decision knows receipts.
Reading == {"cancel entry", "entry answer", "cancel exit", "exit answer", "observe", "decide"}
TickType ==
  [pc: Reading \cup {"orders", "preview", "submit", "receipt"}, plan: Plans, allowed: BOOLEAN,
   executable: BOOLEAN, s: StateType, reason: BOOLEAN, expired: BOOLEAN, entry: ReceiptType,
   exit: ReceiptType, slot: Slots, size: Nat]

-----------------------------------------------------------------------------
(* The invariant, over the orders o, the position held, the calls c of one plan and *)
(* the observation now.                                                             *)

\* An order fills at most what was ordered, and it was submitted once or never.
Booked(order0, call) ==
  /\ call.submits = IF order0.phase = "none" THEN 0 ELSE 1
  /\ order0.phase \in {"none", "sent"} => order0.filled = 0
  /\ order0.phase \in {"sent", "open"} => order0.filled < order0.size
  /\ order0.filled <= order0.size

Books(o, c) ==
  /\ o \in [Slots -> OrderType]
  /\ c \in [Slots -> CallType]
  /\ \A n \in Slots : Booked(o[n], c[n])
  /\ \A m, n \in Slots : m # n /\ o[m].phase # "none" /\ o[n].phase # "none"
                           => o[m].quote # o[n].quote

Names(s, n) == IF n = 0 THEN s.entry ELSE n <= s.attempt \/ n = s.exit
Sells(s)    == s.attempt > 0 \/ s.exit # 0
Selling(s, o)  == IF s.exit = 0 THEN 0 ELSE o[s.exit].filled
Cancels(s, n)  == IF n <= s.attempt THEN MaxCancels
                  ELSE IF n = s.cancelFor THEN s.cancels ELSE 0

\* A state of a plan and its orders: the sales follow one another on distinct
\* observations, after the purchase has ended and within what it bought.
Follows(s, now) ==
  /\ s \in StateType
  /\ s.exit \in {0, s.attempt + 1}
  /\ HasPolicy => s.replaced <= MaxReplacements
  /\ ~s.entry => s.attempt = 0 /\ s.exit = 0
  /\ s.attempt = 0 => s.sold = 0
  /\ s.entry => s.attempt + 1 <= s.submitted
  /\ s.exit # 0 => s.attempt + 2 <= s.submitted
  /\ s.submitted <= now
  /\ s.cancelFor \in {0, s.exit}
  /\ s.cancels <= MaxCancels

Accounts(s, o, held, c) ==
  /\ Sells(s) => o[0].phase = "closed" /\ s.sold < o[0].filled
  /\ \A n \in Slots : o[n].phase # "none" => Names(s, n) /\ o[n].quote <= s.submitted
  /\ \A n \in Sales : n <= s.attempt => o[n].phase = "closed"
  /\ s.exit # 0 /\ o[s.exit].phase # "none" => o[s.exit].size <= o[0].filled - s.sold
  /\ held = o[0].filled - s.sold - Selling(s, o)
  /\ \A n \in Sales : c[n].cancels <= Cancels(s, n)

Fits(s, o, held, c, now) == Follows(s, now) /\ Accounts(s, o, held, c)

\* What a tick has read is true of a closed order for good, of any other at least.
Reads(receipt, order0) ==
  /\ order0.phase \in {"open", "closed"}
  /\ receipt.filled <= order0.filled
  /\ ~receipt.open => order0.phase = "closed" /\ receipt.filled = order0.filled

ReadsOrders(t, o) ==
  /\ IF t.s.entry THEN Reads(t.entry, o[0]) ELSE t.entry = NoReceipt
  /\ IF t.s.exit # 0 THEN Reads(t.exit, o[t.s.exit]) ELSE t.exit = NoReceipt
  /\ Sells(t.s) => ~t.entry.open
  /\ t.pc \notin {"cancel entry", "entry answer"} /\ (t.reason \/ t.s.decided) => ~t.entry.open

\* The order a tick is about to submit: the purchase, or what the purchase has left
\* on an observation no order was submitted on.
Covers(t, o) ==
  IF t.slot = 0 THEN t.size = Quantity[t.plan]
  ELSE /\ t.s.entry
       /\ o[0].phase = "closed"
       /\ t.size > 0
       /\ t.size <= o[0].filled - t.s.sold

Prepares(t, o, now) ==
  /\ Covers(t, o)
  /\ t.s.exit = 0
  /\ IF t.slot = 0 THEN ~t.s.entry
     ELSE /\ t.slot = t.s.attempt + 1
          /\ t.s.submitted < now
          /\ MayReplace(t.s)

Submits(t, o, now) ==
  /\ Covers(t, o)
  /\ t.s.submitted = now
  /\ Names(t.s, t.slot)
  /\ IF t.slot = 0 THEN t.s.status \in Unresolved ELSE t.s.exit = t.slot
  /\ o[t.slot].phase = "none"
  /\ \A n \in Slots : o[n].phase # "none" => o[n].quote < now

TickFits(t, o, held, c, now) ==
  /\ Fits(t.s, o, held, c, now)
  /\ t.s.status \notin TerminalStates
  /\ t.pc \in Reading => ReadsOrders(t, o)
  /\ t.pc \in {"cancel entry", "entry answer"} => t.s.entry
  /\ t.pc \in {"cancel exit", "exit answer"} => t.s.exit # 0 /\ t.s.cancelFor = t.s.exit
  /\ t.pc = "cancel exit" => c[t.s.exit].cancels < t.s.cancels
  /\ t.pc = "preview" => Prepares(t, o, now)
  /\ t.pc = "submit" => Submits(t, o, now)
  /\ t.pc = "receipt" => t.slot = 0 \/ t.s.exit = t.slot

\* The saved state: a final one is flat, a lost purchase is unresolved.
Flat(o, held) == held = 0 /\ \A n \in Slots : o[n].phase \notin {"sent", "open"}
SavedFits(s, o, held, c, now) ==
  /\ Fits(s, o, held, c, now)
  /\ s.status \in TerminalStates => Flat(o, held)
  /\ o[0].phase = "sent" => s.status \in Unresolved

\* The tick in progress: its plan is not final, what it is about to send is saved,
\* and a purchase on its way is the only one in doubt.
TickInv ==
  \/ tick = NoTick
  \/ /\ tick \in TickType
     /\ plan[tick.plan].status \notin TerminalStates
     /\ TickFits(tick, order[tick.plan], position[tick.plan], calls[tick.plan], quote)
     /\ tick.pc \in {"cancel exit", "exit answer", "submit", "receipt"} => plan[tick.plan] = tick.s
     /\ tick.pc \in {"preview", "submit"} /\ tick.slot = 0 => ~UnresolvedDispatches(tick.plan)

StoreType ==
  /\ plan \in [Plans -> StateType]
  /\ request \in [Plans -> BOOLEAN]
  /\ order \in [Plans -> [Slots -> OrderType]]
  /\ position \in [Plans -> Int]
  /\ calls \in [Plans -> [Slots -> CallType]]
  /\ enabled \in BOOLEAN
  /\ quote \in 1..MaxQuotes

PlanInv ==
  /\ StoreType
  /\ \A p \in Plans : Books(order[p], calls[p])
  /\ \A p \in Plans : SavedFits(plan[p], order[p], position[p], calls[p], quote)
  /\ OneEntryInDoubt
  /\ TickInv

-----------------------------------------------------------------------------
(* Arithmetic of one sale *)

LEMMA SingleOrderBounds ==
  ASSUME NEW q \in Nat \ {0}
  PROVE  SingleOrder(q) \in 1..q
<1>1. Lot \in Nat \ {0}
  BY PlanAssumption
<1>2. CASE q >= Lot
  <2>1. /\ (q \div Lot) \in Nat
        /\ (q \div Lot) >= 1
        /\ (q \div Lot) * Lot <= q
    BY <1>1, <1>2
  <2>2. (q \div Lot) * Lot \in Nat /\ (q \div Lot) * Lot >= 1
    BY <1>1, <2>1
  <2> QED BY <1>2, <2>1, <2>2 DEF SingleOrder
<1>3. CASE ~(q >= Lot)
  BY <1>1, <1>3 DEF SingleOrder
<1> QED BY <1>2, <1>3

-----------------------------------------------------------------------------
(* The broker's own steps, over the orders of one plan *)

\* An order is accepted, is asked to be cancelled, or ends; nothing fills.
Moves(o, o2) ==
  /\ o2 \in [Slots -> OrderType]
  /\ \A n \in Slots : /\ o2[n].size = o[n].size
                      /\ o2[n].filled = o[n].filled
                      /\ o2[n].quote = o[n].quote
                      /\ o2[n].phase = "none" <=> o[n].phase = "none"
                      /\ o2[n].phase = "sent" => o[n].phase = "sent"
                      /\ o[n].phase = "closed" => o2[n].phase = "closed"
                      /\ o2[n].phase = "closed" => o[n].phase \in {"sent", "open", "closed"}

LEMMA PhaseMoves ==
  ASSUME NEW o \in [Slots -> OrderType], NEW n \in Slots, NEW phase \in {"open", "closed"},
         o[n].phase = "sent" \/ (o[n].phase = "open" /\ phase = "closed")
  PROVE  Moves(o, [o EXCEPT ![n].phase = phase])
<1> DEFINE o2 == [o EXCEPT ![n].phase = phase]
<1>1. o2[n] = [o[n] EXCEPT !.phase = phase] /\ \A m \in Slots \ {n} : o2[m] = o[m]
  OBVIOUS
<1>2. o[n] \in OrderType
  OBVIOUS
<1>3. /\ o2[n] \in OrderType
      /\ o2[n].size = o[n].size /\ o2[n].filled = o[n].filled /\ o2[n].quote = o[n].quote
      /\ o2[n].phase = phase
  BY <1>1, <1>2 DEF OrderType
<1>4. o2 \in [Slots -> OrderType]
  BY <1>3
<1> HIDE DEF o2
<1>5. Moves(o, o2)
  BY <1>1, <1>3, <1>4 DEF Moves
<1> QED BY <1>5 DEF o2

LEMMA MovesBooks ==
  ASSUME NEW o, NEW o2, NEW c, Books(o, c), Moves(o, o2)
  PROVE  Books(o2, c)
<1>1. /\ o2 \in [Slots -> OrderType]
      /\ c \in [Slots -> CallType]
  BY DEF Books, Moves
<1>2. ASSUME NEW n \in Slots PROVE Booked(o2[n], c[n])
  BY <1>1 DEF Books, Booked, Moves, OrderType
<1>3. \A m, n \in Slots : m # n /\ o2[m].phase # "none" /\ o2[n].phase # "none"
                           => o2[m].quote # o2[n].quote
  BY DEF Books, Moves
<1> QED BY <1>1, <1>2, <1>3 DEF Books

LEMMA ZeroSlot == 0 \in Slots /\ Sales \subseteq Slots /\ MaxQuotes \in Nat \ {0}
BY PlanAssumption DEF Slots, Sales

LEMMA MovesAccounts ==
  ASSUME NEW o, NEW o2, NEW s \in StateType, NEW held, NEW c, Accounts(s, o, held, c), Moves(o, o2)
  PROVE  Accounts(s, o2, held, c)
<1>0. 0 \in Slots /\ s.exit \in Slots /\ Sales \subseteq Slots
  BY ZeroSlot DEF StateType
<1>1. Sells(s) => o2[0].phase = "closed" /\ s.sold < o2[0].filled
  BY <1>0 DEF Accounts, Moves
<1>2. \A n \in Slots : o2[n].phase # "none" => Names(s, n) /\ o2[n].quote <= s.submitted
  BY DEF Accounts, Moves
<1>3. \A n \in Sales : n <= s.attempt => o2[n].phase = "closed"
  BY <1>0 DEF Accounts, Moves
<1>4. s.exit # 0 /\ o2[s.exit].phase # "none" => o2[s.exit].size <= o2[0].filled - s.sold
  BY <1>0 DEF Accounts, Moves
<1>5. held = o2[0].filled - s.sold - Selling(s, o2)
  BY <1>0 DEF Accounts, Moves, Selling
<1> QED BY <1>1, <1>2, <1>3, <1>4, <1>5 DEF Accounts

LEMMA MovesReads ==
  ASSUME NEW o, NEW o2, NEW t \in TickType, ReadsOrders(t, o), Moves(o, o2), o \in [Slots -> OrderType]
  PROVE  ReadsOrders(t, o2)
<1>0. 0 \in Slots /\ t.s.exit \in Slots
  BY ZeroSlot DEF TickType, StateType
<1>1. ASSUME NEW n \in Slots, NEW receipt, Reads(receipt, o[n]) PROVE Reads(receipt, o2[n])
  BY <1>1 DEF Reads, Moves, OrderType
<1> QED BY <1>0, <1>1 DEF ReadsOrders

LEMMA MovesTick ==
  ASSUME NEW o, NEW o2, NEW t \in TickType, NEW held, NEW c, NEW now,
         TickFits(t, o, held, c, now), Moves(o, o2), o \in [Slots -> OrderType]
  PROVE  TickFits(t, o2, held, c, now)
<1>0. 0 \in Slots /\ t.s \in StateType /\ t.slot \in Slots
  BY ZeroSlot DEF TickType
<1>1. Fits(t.s, o2, held, c, now)
  BY <1>0, MovesAccounts DEF TickFits, Fits
<1>2. t.pc \in Reading => ReadsOrders(t, o2)
  BY MovesReads DEF TickFits
<1>3. Covers(t, o) => Covers(t, o2)
  BY <1>0 DEF Covers, Moves
<1>4. t.pc = "preview" => Prepares(t, o2, now)
  BY <1>3 DEF TickFits, Prepares
<1>5. t.pc = "submit" => Submits(t, o2, now)
  BY <1>0, <1>3 DEF TickFits, Submits, Moves
<1> QED BY <1>1, <1>2, <1>4, <1>5 DEF TickFits

LEMMA MovesSaved ==
  ASSUME NEW o, NEW o2, NEW s \in StateType, NEW held, NEW c, NEW now,
         SavedFits(s, o, held, c, now), Moves(o, o2), o \in [Slots -> OrderType]
  PROVE  SavedFits(s, o2, held, c, now)
<1>0. 0 \in Slots
  BY ZeroSlot
<1>1. Fits(s, o2, held, c, now)
  BY MovesAccounts DEF SavedFits, Fits
<1>2. Flat(o, held) => Flat(o2, held)
  BY DEF Flat, Moves, OrderType
<1> QED BY <1>0, <1>1, <1>2 DEF SavedFits, Moves

\* One share of the open order n is executed.
Fills(o, o2, held, held2, n) ==
  /\ n \in Slots
  /\ o[n].phase = "open"
  /\ o2 \in [Slots -> OrderType]
  /\ \A m \in Slots \ {n} : o2[m] = o[m]
  /\ o2[n].size = o[n].size /\ o2[n].quote = o[n].quote /\ o2[n].filled = o[n].filled + 1
  /\ o2[n].phase = IF o[n].filled + 1 = o[n].size THEN "closed" ELSE "open"
  /\ held2 = IF n = 0 THEN held + 1 ELSE held - 1

LEMMA FillBooks ==
  ASSUME NEW o, NEW o2, NEW held, NEW held2, NEW n, NEW c, Books(o, c), Fills(o, o2, held, held2, n)
  PROVE  Books(o2, c)
<1>1. /\ o2 \in [Slots -> OrderType] /\ o \in [Slots -> OrderType]
      /\ c \in [Slots -> CallType]
      /\ n \in Slots
  BY DEF Books, Fills
<1>2. Booked(o2[n], c[n])
  BY <1>1 DEF Books, Booked, Fills, OrderType
<1>3. \A m \in Slots : Booked(o2[m], c[m])
  BY <1>2 DEF Books, Fills
<1>4. \A k \in Slots : o2[k].quote = o[k].quote /\ (o2[k].phase # "none" => o[k].phase # "none")
  BY DEF Fills
<1>5. \A m, k \in Slots : m # k /\ o2[m].phase # "none" /\ o2[k].phase # "none"
                           => o2[m].quote # o2[k].quote
  BY <1>4 DEF Books
<1> QED BY <1>1, <1>3, <1>5 DEF Books

\* The open order is the one the state names last.
LEMMA OpenIsLast ==
  ASSUME NEW o, NEW s \in StateType, NEW held, NEW c, NEW now, Fits(s, o, held, c, now),
         NEW n \in Slots, o[n].phase \in {"sent", "open"}
  PROVE  /\ n = 0 => s.entry /\ s.attempt = 0 /\ s.exit = 0
         /\ n # 0 => s.exit = n
<1>1. n = 0 => ~Sells(s) /\ s.entry
  BY DEF Fits, Accounts, Names
<1>2. s.attempt \in Slots
  BY DEF StateType
<1>3. n # 0 => n \in Sales
  BY PlanAssumption DEF Slots, Sales
<1>4. n # 0 => s.exit = n
  BY <1>3 DEF Fits, Accounts, Names
<1> QED BY <1>1, <1>2, <1>4 DEF Sells, Slots

LEMMA FillAccounts ==
  ASSUME NEW o, NEW o2, NEW s \in StateType, NEW held \in Int, NEW held2, NEW c, NEW now, NEW n,
         Books(o, c), Fits(s, o, held, c, now), Fills(o, o2, held, held2, n)
  PROVE  Accounts(s, o2, held2, c)
<1>0. /\ 0 \in Slots /\ s.exit \in Slots /\ Sales \subseteq Slots /\ n \in Slots
      /\ o \in [Slots -> OrderType] /\ o2 \in [Slots -> OrderType]
      /\ s.sold \in Nat
  BY ZeroSlot DEF StateType, Books, Fills
<1>a. \A m \in Slots : /\ o[m].filled \in Nat /\ o[m].size \in Nat /\ o2[m].filled \in Nat
                       /\ o2[m].quote = o[m].quote /\ o2[m].size = o[m].size
                       /\ o2[m].phase # "none" => o[m].phase # "none"
                       /\ o[m].phase = "closed" => o2[m] = o[m]
  BY <1>0 DEF OrderType, Fills
<1>b. /\ n = 0 => s.entry /\ s.attempt = 0 /\ s.exit = 0
      /\ n # 0 => s.exit = n
  BY <1>0, OpenIsLast DEF Fills
<1>1. Sells(s) => o2[0].phase = "closed" /\ s.sold < o2[0].filled
  BY <1>0, <1>a DEF Fits, Accounts
<1>2. \A m \in Slots : o2[m].phase # "none" => Names(s, m) /\ o2[m].quote <= s.submitted
  BY <1>a DEF Fits, Accounts
<1>3. \A m \in Sales : m <= s.attempt => o2[m].phase = "closed"
  BY <1>0, <1>a DEF Fits, Accounts
<1>4. s.exit # 0 => o2[0] = o[0]
  BY <1>0, <1>a DEF Fits, Accounts, Sells
<1>5. s.exit # 0 /\ o2[s.exit].phase # "none" => o2[s.exit].size <= o2[0].filled - s.sold
  BY <1>0, <1>a, <1>4 DEF Fits, Accounts
<1>6. held2 = o2[0].filled - s.sold - Selling(s, o2)
  <2>1. held = o[0].filled - s.sold - Selling(s, o)
    BY DEF Fits, Accounts
  <2>2. CASE n = 0
    BY <1>0, <1>a, <1>b, <2>1, <2>2 DEF Selling, Fills
  <2>3. CASE n # 0
    BY <1>0, <1>a, <1>b, <1>4, <2>1, <2>3 DEF Selling, Fills
  <2> QED BY <2>2, <2>3
<1> QED BY <1>1, <1>2, <1>3, <1>5, <1>6 DEF Fits, Accounts

LEMMA FillReads ==
  ASSUME NEW o, NEW o2, NEW held, NEW held2, NEW n, NEW t \in TickType,
         ReadsOrders(t, o), Fills(o, o2, held, held2, n), o \in [Slots -> OrderType]
  PROVE  ReadsOrders(t, o2)
<1>0. 0 \in Slots /\ t.s.exit \in Slots /\ n \in Slots
      /\ t.entry \in ReceiptType /\ t.exit \in ReceiptType
  BY ZeroSlot DEF TickType, StateType, Fills
<1>1. ASSUME NEW m \in Slots, NEW receipt \in ReceiptType, Reads(receipt, o[m]) PROVE Reads(receipt, o2[m])
  <2>1. CASE m = n
    BY <1>1, <2>1 DEF Reads, Fills, OrderType, ReceiptType
  <2>2. CASE m # n
    BY <1>1, <2>2 DEF Reads, Fills
  <2> QED BY <2>1, <2>2
<1> QED BY <1>0, <1>1 DEF ReadsOrders

LEMMA FillTick ==
  ASSUME NEW o, NEW o2, NEW t \in TickType, NEW held \in Int, NEW held2, NEW n, NEW c, NEW now,
         Books(o, c), TickFits(t, o, held, c, now), Fills(o, o2, held, held2, n)
  PROVE  TickFits(t, o2, held2, c, now)
<1>0. /\ 0 \in Slots /\ t.s \in StateType /\ t.slot \in Slots /\ n \in Slots
      /\ o \in [Slots -> OrderType]
  BY ZeroSlot DEF TickType, Books, Fills
<1>1. Fits(t.s, o2, held2, c, now)
  BY <1>0, FillAccounts DEF TickFits, Fits
<1>2. t.pc \in Reading => ReadsOrders(t, o2)
  BY <1>0, FillReads DEF TickFits
<1>3. \A m \in Slots : /\ o[m].phase = "closed" => o2[m] = o[m]
                       /\ o[m].phase = "none" => o2[m] = o[m]
                       /\ o2[m].quote = o[m].quote
                       /\ o2[m].phase # "none" => o[m].phase # "none"
  BY <1>0 DEF Fills
<1>4. Covers(t, o) => Covers(t, o2)
  BY <1>0, <1>3 DEF Covers
<1>5. t.pc = "preview" => Prepares(t, o2, now)
  BY <1>4 DEF TickFits, Prepares
<1>6. t.pc = "submit" => Submits(t, o2, now)
  BY <1>0, <1>3, <1>4 DEF TickFits, Submits
<1> QED BY <1>1, <1>2, <1>5, <1>6 DEF TickFits

LEMMA FillSaved ==
  ASSUME NEW o, NEW o2, NEW s \in StateType, NEW held \in Int, NEW held2, NEW n, NEW c, NEW now,
         Books(o, c), SavedFits(s, o, held, c, now), Fills(o, o2, held, held2, n)
  PROVE  SavedFits(s, o2, held2, c, now)
<1>0. 0 \in Slots /\ n \in Slots
  BY ZeroSlot DEF Fills
<1>1. Fits(s, o2, held2, c, now)
  BY FillAccounts DEF SavedFits, Fits
<1>2. ~Flat(o, held)
  BY <1>0 DEF Flat, Fills
<1>3. o2[0].phase = "sent" => o[0].phase = "sent"
  BY <1>0 DEF Fills
<1> QED BY <1>1, <1>2, <1>3 DEF SavedFits

-----------------------------------------------------------------------------
(* The invariant and the steps of the broker, the market and the host *)

LEMMA PlanInit0 == PlanInit => PlanInv
<1> SUFFICES ASSUME PlanInit PROVE PlanInv
    OBVIOUS
<1>0. 0 \in Slots /\ Sales \subseteq Slots /\ MaxQuotes \in Nat \ {0} /\ Slots \subseteq Nat
  BY ZeroSlot DEF Slots
<1>1. NewPlan \in StateType
  BY <1>0 DEF NewPlan, StateType, States
<1>2. NoOrder \in OrderType
  BY DEF NoOrder, OrderType
<1>3. StoreType
  BY <1>0, <1>1, <1>2 DEF PlanInit, StoreType, CallType
<1>4. ASSUME NEW p \in Plans PROVE Books(order[p], calls[p])
  BY <1>2, <1>3, <1>4 DEF PlanInit, Books, Booked, NoOrder, StoreType
<1>5. ASSUME NEW p \in Plans PROVE SavedFits(plan[p], order[p], position[p], calls[p], quote)
  <2>1. /\ plan[p] = NewPlan /\ position[p] = 0 /\ quote = 1
        /\ \A n \in Slots : order[p][n] = NoOrder /\ calls[p][n].cancels = 0
    BY <1>5 DEF PlanInit
  <2>2. Follows(plan[p], quote)
    BY <1>1, <2>1, PlanAssumption DEF Follows, NewPlan
  <2>3. Accounts(plan[p], order[p], position[p], calls[p])
    BY <1>0, <2>1, PlanAssumption DEF Accounts, NewPlan, NoOrder, Sells, Selling, Cancels, Sales
  <2> QED BY <1>0, <2>1, <2>2, <2>3 DEF SavedFits, Fits, NewPlan, NoOrder, TerminalStates
<1>6. OneEntryInDoubt
  BY <1>0 DEF PlanInit, OneEntryInDoubt, NoOrder
<1> QED BY <1>3, <1>4, <1>5, <1>6 DEF PlanInit, PlanInv, TickInv

\* Orders that move or fill leave the rest of the invariant alone.
LEMMA OrdersStep ==
  ASSUME PlanInv, NEW p \in Plans, NEW o2, NEW held2,
         \/ Moves(order[p], o2) /\ held2 = position[p]
         \/ \E n \in Slots : Fills(order[p], o2, position[p], held2, n),
         order' = [order EXCEPT ![p] = o2], position' = [position EXCEPT ![p] = held2],
         position' \in [Plans -> Int],
         UNCHANGED <<calls, storeVars, tick, enabled, quote>>
  PROVE  PlanInv'
<1>0. /\ StoreType
      /\ UNCHANGED <<calls, plan, request, tick, enabled, quote>>
      /\ 0 \in Slots
  BY ZeroSlot DEF PlanInv, storeVars
<1>1. /\ \A q \in Plans \ {p} : order'[q] = order[q] /\ position'[q] = position[q]
      /\ order'[p] = o2 /\ position'[p] = held2
      /\ order[p] \in [Slots -> OrderType] /\ position[p] \in Int
      /\ o2 \in [Slots -> OrderType]
      /\ plan \in [Plans -> StateType]
  BY <1>0 DEF StoreType, Moves, Fills
<1>2. StoreType'
  BY <1>0, <1>1 DEF StoreType
<1>3. Books(o2, calls[p])
  BY MovesBooks, FillBooks DEF PlanInv
<1>4. \A q \in Plans : Books(order'[q], calls'[q])
  BY <1>0, <1>1, <1>3 DEF PlanInv
<1>5. SavedFits(plan[p], o2, held2, calls[p], quote)
  BY <1>1, MovesSaved, FillSaved DEF PlanInv
<1>6. \A q \in Plans : SavedFits(plan'[q], order'[q], position'[q], calls'[q], quote')
  BY <1>0, <1>1, <1>5 DEF PlanInv
<1>7. o2[0].phase = "sent" => order[p][0].phase = "sent"
  BY <1>0 DEF Moves, Fills
<1>8. OneEntryInDoubt'
  BY <1>1, <1>7 DEF PlanInv, OneEntryInDoubt
<1>9. TickInv'
  <2>1. CASE tick = NoTick
    BY <1>0, <2>1 DEF TickInv
  <2>2. CASE tick # NoTick
    <3>1. tick \in TickType /\ tick.plan \in Plans
          /\ TickFits(tick, order[tick.plan], position[tick.plan], calls[tick.plan], quote)
      BY <2>2 DEF PlanInv, TickInv, TickType
    <3>2. tick.plan = p => TickFits(tick, o2, held2, calls[p], quote)
      BY <1>1, <3>1, MovesTick, FillTick DEF PlanInv
    <3>3. TickFits(tick, order'[tick.plan], position'[tick.plan], calls[tick.plan], quote)
      BY <1>1, <3>1, <3>2
    <3> QED BY <1>0, <2>2, <3>3 DEF PlanInv, TickInv, UnresolvedDispatches
  <2> QED BY <2>1, <2>2
<1> QED BY <1>2, <1>4, <1>6, <1>8, <1>9 DEF PlanInv

LEMMA AcceptStep ==
  ASSUME PlanInv, NEW p \in Plans, NEW n \in Slots, Accept(p, n)
  PROVE  PlanInv'
<1>0. order \in [Plans -> [Slots -> OrderType]] /\ position \in [Plans -> Int]
  BY DEF PlanInv, StoreType
<1>1. PICK phase \in {"open", "closed"} : order' = [order EXCEPT ![p][n].phase = phase]
  BY DEF Accept
<1> DEFINE o2 == [order[p] EXCEPT ![n].phase = phase]
<1>2. order' = [order EXCEPT ![p] = o2]
  BY <1>0, <1>1
<1>3. Moves(order[p], o2)
  BY <1>0, PhaseMoves DEF Accept
<1>4. position' = [position EXCEPT ![p] = position[p]]
      /\ UNCHANGED <<calls, storeVars, tick, enabled, quote>>
  BY <1>0 DEF Accept, hostVars
<1> HIDE DEF o2
<1> QED BY <1>0, <1>2, <1>3, <1>4, OrdersStep

LEMMA ExpireStep ==
  ASSUME PlanInv, NEW p \in Plans, NEW n \in Slots, Expire(p, n)
  PROVE  PlanInv'
<1>0. order \in [Plans -> [Slots -> OrderType]] /\ position \in [Plans -> Int]
  BY DEF PlanInv, StoreType
<1> DEFINE o2 == [order[p] EXCEPT ![n].phase = "closed"]
<1>2. order' = [order EXCEPT ![p] = o2]
  BY <1>0 DEF Expire
<1>3. Moves(order[p], o2)
  BY <1>0, PhaseMoves DEF Expire
<1>4. position' = [position EXCEPT ![p] = position[p]]
      /\ UNCHANGED <<calls, storeVars, tick, enabled, quote>>
  BY <1>0 DEF Expire, hostVars
<1> HIDE DEF o2
<1> QED BY <1>0, <1>2, <1>3, <1>4, OrdersStep

LEMMA FillStep ==
  ASSUME PlanInv, NEW p \in Plans, NEW n \in Slots, Fill(p, n)
  PROVE  PlanInv'
<1>0. order \in [Plans -> [Slots -> OrderType]] /\ position \in [Plans -> Int]
  BY DEF PlanInv, StoreType
<1> DEFINE last  == order[p][n].filled + 1 = order[p][n].size
           o2    == [order[p] EXCEPT ![n].filled = @ + 1,
                                     ![n].phase = IF last THEN "closed" ELSE "open"]
           held2 == IF n = 0 THEN position[p] + 1 ELSE position[p] - 1
<1>2. order' = [order EXCEPT ![p] = o2]
  BY <1>0 DEF Fill
<1>3. position' = [position EXCEPT ![p] = held2] /\ held2 \in Int
  BY <1>0 DEF Fill
<1>4. Fills(order[p], o2, position[p], held2, n)
  BY <1>0 DEF Fill, Fills, OrderType
<1>5. position' \in [Plans -> Int] /\ UNCHANGED <<calls, storeVars, tick, enabled, quote>>
  BY <1>0, <1>3 DEF Fill, hostVars
<1> HIDE DEF o2, held2
<1> QED BY <1>0, <1>2, <1>3, <1>4, <1>5, OrdersStep

\* The host changes nothing the orders or the tick depend on.
LEMMA HostStep ==
  ASSUME PlanInv, Configure \/ (\E p \in Plans : RequestExit(p)) \/ UNCHANGED planVars
  PROVE  PlanInv'
<1>1. UNCHANGED <<plan, tick, order, position, calls, quote>>
  BY DEF Configure, RequestExit, planVars, storeVars, brokerVars, hostVars
<1>2. request' \in [Plans -> BOOLEAN] /\ enabled' \in BOOLEAN
  BY DEF PlanInv, StoreType, Configure, RequestExit, planVars, storeVars, hostVars
<1>3. StoreType'
  BY <1>1, <1>2 DEF PlanInv, StoreType
<1>4. TickInv'
  BY <1>1 DEF PlanInv, TickInv, UnresolvedDispatches
<1>5. OneEntryInDoubt'
  BY <1>1 DEF PlanInv, OneEntryInDoubt
<1> QED BY <1>1, <1>3, <1>4, <1>5 DEF PlanInv

-----------------------------------------------------------------------------
(* What a step of the tick must establish *)

LEMMA Running ==
  ASSUME PlanInv, ~At("idle")
  PROVE  /\ tick \in TickType /\ tick.plan \in Plans /\ tick.s \in StateType
         /\ plan[tick.plan] \in StateType /\ plan[tick.plan].status \notin TerminalStates
         /\ TickFits(tick, order[tick.plan], position[tick.plan], calls[tick.plan], quote)
         /\ tick.pc \in {"cancel exit", "exit answer", "submit", "receipt"} => plan[tick.plan] = tick.s
         /\ tick.pc \in {"preview", "submit"} /\ tick.slot = 0 => ~UnresolvedDispatches(tick.plan)
         /\ SavedFits(plan[tick.plan], order[tick.plan], position[tick.plan], calls[tick.plan], quote)
         /\ Books(order[tick.plan], calls[tick.plan])
         /\ order[tick.plan] \in [Slots -> OrderType] /\ calls[tick.plan] \in [Slots -> CallType]
         /\ position[tick.plan] \in Int
         /\ quote \in Nat
<1>1. tick # NoTick
  BY DEF At, NoTick
<1>2. /\ tick \in TickType /\ plan[tick.plan].status \notin TerminalStates
      /\ TickFits(tick, order[tick.plan], position[tick.plan], calls[tick.plan], quote)
      /\ tick.pc \in {"cancel exit", "exit answer", "submit", "receipt"} => plan[tick.plan] = tick.s
      /\ tick.pc \in {"preview", "submit"} /\ tick.slot = 0 => ~UnresolvedDispatches(tick.plan)
  BY <1>1 DEF PlanInv, TickInv
<1>3. tick.plan \in Plans /\ tick.s \in StateType
  BY <1>2 DEF TickType
<1>4. /\ plan[tick.plan] \in StateType /\ order[tick.plan] \in [Slots -> OrderType]
      /\ calls[tick.plan] \in [Slots -> CallType] /\ position[tick.plan] \in Int
      /\ quote \in Nat
  BY <1>3 DEF PlanInv, StoreType
<1> QED BY <1>2, <1>3, <1>4 DEF PlanInv

LEMMA Idle == PlanInv /\ At("idle") => tick = NoTick
BY DEF PlanInv, TickInv, TickType, Reading, At

\* What is true of the orders stays true on a later observation.
LEMMA LaterFits ==
  ASSUME NEW s, NEW o, NEW held, NEW c, NEW now \in Nat, NEW later \in Nat, now <= later,
         s \in StateType
  PROVE  /\ Fits(s, o, held, c, now) => Fits(s, o, held, c, later)
         /\ SavedFits(s, o, held, c, now) => SavedFits(s, o, held, c, later)
<1>1. s.submitted \in Nat
  BY DEF StateType
<1>2. Follows(s, now) => Follows(s, later)
  BY <1>1 DEF Follows
<1> QED BY <1>2 DEF Fits, SavedFits

LEMMA QuoteType ==
  /\ PlanInv => quote \in 1..MaxQuotes /\ quote \in Nat /\ quote <= quote
  /\ \A observation \in 1..MaxQuotes : observation \in Nat
<1>1. MaxQuotes \in Nat
  BY ZeroSlot
<1>2. PlanInv => quote \in 1..MaxQuotes
  BY DEF PlanInv, StoreType
<1> QED BY <1>1, <1>2

\* A step of the tick of plan p that leaves the broker alone: what it saves accounts
\* for the orders, and so does what it remembers.
LEMMA ObservedStep ==
  ASSUME PlanInv, NEW p \in Plans, NEW s \in StateType,
         At("idle") \/ tick.plan = p,
         plan' = [plan EXCEPT ![p] = s], UNCHANGED <<request, order, position, calls>>,
         enabled' \in BOOLEAN, quote' \in 1..MaxQuotes, quote <= quote',
         SavedFits(s, order[p], position[p], calls[p], quote'),
         \/ tick' = NoTick
         \/ /\ tick' \in TickType
            /\ tick'.plan = p
            /\ s.status \notin TerminalStates
            /\ TickFits(tick', order[p], position[p], calls[p], quote')
            /\ tick'.pc \in {"cancel exit", "exit answer", "submit", "receipt"} => s = tick'.s
            /\ tick'.pc \in {"preview", "submit"} /\ tick'.slot = 0 => ~UnresolvedDispatches(p)
  PROVE  PlanInv'
<1>0. StoreType
  BY DEF PlanInv
<1>1. StoreType'
  BY <1>0 DEF StoreType
<1>2. plan'[p] = s /\ \A q \in Plans \ {p} : plan'[q] = plan[q]
  BY <1>0 DEF StoreType
<1>3. \A q \in Plans : Books(order'[q], calls'[q])
  BY DEF PlanInv
<1>4. ASSUME NEW q \in Plans PROVE SavedFits(plan'[q], order'[q], position'[q], calls'[q], quote')
  <2>1. CASE q = p
    BY <1>2, <2>1
  <2>2. CASE q # p
    <3>1. quote \in Nat /\ quote' \in Nat /\ plan[q] \in StateType
      BY <1>0, QuoteType DEF StoreType
    <3>2. SavedFits(plan[q], order[q], position[q], calls[q], quote)
      BY DEF PlanInv
    <3>3. SavedFits(plan[q], order[q], position[q], calls[q], quote')
      BY <3>1, <3>2, LaterFits
    <3> QED BY <1>2, <2>2, <3>3
  <2> QED BY <2>1, <2>2
<1>5. OneEntryInDoubt'
  BY DEF PlanInv, OneEntryInDoubt
<1>6. TickInv'
  <2>1. CASE tick' = NoTick
    BY <2>1 DEF TickInv
  <2>2. CASE tick' # NoTick
    <3>1. tick'.pc \in {"preview", "submit"} /\ tick'.slot = 0 => ~UnresolvedDispatches(p)'
      BY <1>2, <2>2 DEF UnresolvedDispatches
    <3> QED BY <1>2, <2>2, <3>1 DEF TickInv, UnresolvedDispatches
  <2> QED BY <2>1, <2>2
<1> QED BY <1>1, <1>3, <1>4, <1>5, <1>6 DEF PlanInv

LEMMA TickStep ==
  ASSUME PlanInv, NEW p \in Plans, NEW s \in StateType,
         At("idle") \/ tick.plan = p,
         plan' = [plan EXCEPT ![p] = s], UNCHANGED <<request, order, position, calls, quote>>,
         enabled' \in BOOLEAN,
         SavedFits(s, order[p], position[p], calls[p], quote),
         \/ tick' = NoTick
         \/ /\ tick' \in TickType
            /\ tick'.plan = p
            /\ s.status \notin TerminalStates
            /\ TickFits(tick', order[p], position[p], calls[p], quote)
            /\ tick'.pc \in {"cancel exit", "exit answer", "submit", "receipt"} => s = tick'.s
            /\ tick'.pc \in {"preview", "submit"} /\ tick'.slot = 0 => ~UnresolvedDispatches(p)
  PROVE  PlanInv'
<1>0. quote' = quote
  OBVIOUS
<1>1. quote' \in 1..MaxQuotes /\ quote <= quote'
  BY <1>0, QuoteType
<1>2. SavedFits(s, order[p], position[p], calls[p], quote')
      /\ (TickFits(tick', order[p], position[p], calls[p], quote)
            => TickFits(tick', order[p], position[p], calls[p], quote'))
  BY <1>0
<1> QED BY <1>1, <1>2, ObservedStep

\* Only some fields of a state account for orders.
SameBooks(s, s2) ==
  /\ s2 \in StateType
  /\ s2.entry = s.entry /\ s2.exit = s.exit /\ s2.attempt = s.attempt /\ s2.sold = s.sold
  /\ s2.replaced = s.replaced /\ s2.cancelFor = s.cancelFor /\ s2.cancels = s.cancels
  /\ s2.submitted = s.submitted

LEMMA SameFits ==
  ASSUME NEW s, NEW s2, NEW o, NEW held, NEW c, NEW now, Fits(s, o, held, c, now), SameBooks(s, s2)
  PROVE  Fits(s2, o, held, c, now)
<1>1. Follows(s2, now)
  BY DEF Fits, Follows, SameBooks
<1>2. Accounts(s2, o, held, c)
  <2>1. /\ Sells(s2) <=> Sells(s)
        /\ Selling(s2, o) = Selling(s, o)
        /\ \A n \in Slots : Names(s2, n) <=> Names(s, n)
        /\ \A n \in Slots : Cancels(s2, n) = Cancels(s, n)
    BY DEF Sells, Selling, Names, Cancels, SameBooks
  <2>2. Sales \subseteq Slots
    BY ZeroSlot
  <2> HIDE DEF Sells, Selling, Names, Cancels
  <2> QED BY <2>1, <2>2 DEF Fits, Accounts, SameBooks
<1> QED BY <1>1, <1>2 DEF Fits

\* Saving a state that differs in such fields only.
LEMMA SameSaved ==
  ASSUME NEW s, NEW s2, NEW o, NEW held, NEW c, NEW now, Fits(s, o, held, c, now), SameBooks(s, s2),
         s2.status \notin TerminalStates, o[0].phase = "sent" => s2.status \in Unresolved
  PROVE  SavedFits(s2, o, held, c, now)
BY SameFits DEF SavedFits

LEMMA StatusBooks ==
  ASSUME NEW s \in StateType, NEW status \in States
  PROVE  SameBooks(s, [s EXCEPT !.status = status])
BY DEF SameBooks, StateType

\* A tick that ends without knowing what became of its order says so.
LEMMA UncertainStep ==
  ASSUME PlanInv, ~At("idle"), Uncertain(tick.s), LocalStep
  PROVE  PlanInv'
<1> DEFINE s2 == [tick.s EXCEPT !.status = "reconciliation_required"]
<1>1. /\ s2 \in StateType /\ s2.status = "reconciliation_required" /\ SameBooks(tick.s, s2)
  BY Running, StatusBooks DEF StateType, States, Unresolved
<1>2. SavedFits(s2, order[tick.plan], position[tick.plan], calls[tick.plan], quote)
  BY <1>1, Running, SameSaved DEF TickFits, TerminalStates, Unresolved
<1>3. plan' = [plan EXCEPT ![tick.plan] = s2] /\ tick' = NoTick
      /\ UNCHANGED <<request, order, position, calls, quote, enabled>>
  BY DEF Uncertain, Ends, Saves, SaveAs, LocalStep, brokerVars, hostVars
<1>4. enabled' \in BOOLEAN
  BY <1>3 DEF PlanInv, StoreType
<1> HIDE DEF s2
<1> QED BY <1>1, <1>2, <1>3, <1>4, Running, TickStep

LEMMA InterruptStep ==
  ASSUME PlanInv, Interrupt
  PROVE  PlanInv'
<1>1. plan[tick.plan] \in StateType /\ tick.plan \in Plans
      /\ SavedFits(plan[tick.plan], order[tick.plan], position[tick.plan], calls[tick.plan], quote)
  BY Running DEF Interrupt
<1>2. plan' = [plan EXCEPT ![tick.plan] = plan[tick.plan]] /\ tick' = NoTick
      /\ UNCHANGED <<request, order, position, calls, quote, enabled>> /\ enabled' \in BOOLEAN
  BY DEF Interrupt, PlanInv, StoreType, storeVars, brokerVars
<1> QED BY <1>1, <1>2, TickStep

-----------------------------------------------------------------------------
(* A tick begins, reads, and asks for cancellations *)

\* Before the purchase is dispatched there is no order and nothing is held.
LEMMA NothingBefore ==
  ASSUME NEW s \in StateType, NEW o, NEW held, NEW c, NEW now, Fits(s, o, held, c, now), Books(o, c),
         ~s.entry
  PROVE  Flat(o, held) /\ \A n \in Slots : o[n].phase = "none" /\ o[n].filled = 0
<1>0. 0 \in Slots /\ \A n \in Slots \ {0} : n \in Sales
  BY PlanAssumption DEF Slots, Sales
<1>1. s.attempt = 0 /\ s.exit = 0 /\ s.sold = 0
  BY DEF Fits, Follows
<1>2. ASSUME NEW n \in Slots PROVE ~Names(s, n)
  BY <1>0, <1>1 DEF Names, Slots
<1>3. \A n \in Slots : o[n].phase = "none" /\ o[n].filled = 0
  BY <1>2 DEF Fits, Accounts, Books, Booked
<1>4. held = 0
  BY <1>0, <1>1, <1>3 DEF Fits, Accounts, Selling
<1> QED BY <1>3, <1>4 DEF Flat

LEMMA MergedBooks ==
  ASSUME PlanInv, NEW p \in Plans
  PROVE  /\ Merged(p) \in StateType
         /\ SameBooks(plan[p], Merged(p))
         /\ Merged(p).status = plan[p].status
         /\ SavedFits(plan[p], order[p], position[p], calls[p], quote)
         /\ plan[p] \in StateType /\ quote \in 1..MaxQuotes /\ MaxQuotes \in Nat
<1>1. plan[p] \in StateType /\ request[p] \in BOOLEAN /\ quote \in 1..MaxQuotes
  BY DEF PlanInv, StoreType
<1>2. Merged(p) \in StateType /\ SameBooks(plan[p], Merged(p)) /\ Merged(p).status = plan[p].status
  <2> DEFINE d == plan[p].decided \/ request[p]
  <2>1. Merged(p) = [plan[p] EXCEPT !.decided = d] /\ d \in BOOLEAN
    BY DEF Merged
  <2> HIDE DEF d
  <2> QED BY <1>1, <2>1 DEF StateType, SameBooks
<1> QED BY <1>1, <1>2, PlanAssumption DEF PlanInv

LEMMA CancelBeforeEntryStep ==
  ASSUME PlanInv, NEW p \in Plans, CancelBeforeEntry(p)
  PROVE  PlanInv'
<1> DEFINE s2 == [Merged(p) EXCEPT !.status = "cancelled"]
<1>1. /\ s2 \in StateType /\ s2.status = "cancelled" /\ SameBooks(Merged(p), s2)
      /\ ~s2.entry
  BY MergedBooks, StatusBooks DEF StateType, States, TerminalStates, CancelBeforeEntry, SameBooks
<1>2. Fits(s2, order[p], position[p], calls[p], quote)
  BY <1>1, MergedBooks, SameFits DEF SavedFits
<1>3. SavedFits(s2, order[p], position[p], calls[p], quote)
  BY <1>1, <1>2, NothingBefore, ZeroSlot DEF SavedFits, PlanInv
<1>4. /\ plan' = [plan EXCEPT ![p] = s2] /\ tick' = NoTick /\ At("idle")
      /\ UNCHANGED <<request, order, position, calls, quote>> /\ enabled' \in BOOLEAN
  BY Idle DEF CancelBeforeEntry, SaveAs, brokerVars, hostVars, PlanInv, StoreType
<1> HIDE DEF s2
<1> QED BY <1>1, <1>3, <1>4, TickStep

LEMMA BeginStep ==
  ASSUME PlanInv, NEW p \in Plans, NEW executable \in BOOLEAN,
         NEW observation \in {quote, quote + 1}, Begin(p, executable, observation)
  PROVE  PlanInv'
<1>1. /\ quote' = observation /\ quote' \in 1..MaxQuotes /\ quote <= quote'
      /\ At("idle") /\ enabled' = enabled /\ enabled \in BOOLEAN
      /\ UNCHANGED <<request, order, position, calls>>
      /\ plan[p].status \notin TerminalStates
      /\ tick' = NewTick(p, executable, Merged(p))
      /\ quote \in Nat /\ quote' \in Nat
  BY MergedBooks DEF Begin, brokerVars, PlanInv, StoreType
<1>2. /\ Fits(Merged(p), order[p], position[p], calls[p], quote')
      /\ SavedFits(Merged(p), order[p], position[p], calls[p], quote')
      /\ SavedFits(plan[p], order[p], position[p], calls[p], quote')
  <2>1. Fits(Merged(p), order[p], position[p], calls[p], quote)
    BY MergedBooks, SameFits DEF SavedFits
  <2>2. SavedFits(Merged(p), order[p], position[p], calls[p], quote)
    BY <1>1, <2>1, MergedBooks DEF SavedFits
  <2> QED BY <1>1, <2>1, <2>2, MergedBooks, LaterFits
<1>3. /\ tick' \in TickType /\ tick'.plan = p /\ tick'.pc = "orders" /\ tick'.s = Merged(p)
  BY <1>1, MergedBooks, ZeroSlot DEF NewTick, TickType, NoReceipt, ReceiptType
<1>4. TickFits(tick', order[p], position[p], calls[p], quote')
  BY <1>1, <1>2, <1>3, MergedBooks DEF TickFits, Reading
<1>5. PICK s \in {plan[p], Merged(p)} : plan' = [plan EXCEPT ![p] = s]
  <2>1. UNCHANGED plan => plan' = [plan EXCEPT ![p] = plan[p]]
    BY DEF PlanInv, StoreType
  <2> QED BY <2>1 DEF Begin, SaveAs
<1>6. /\ s \in StateType /\ s.status \notin TerminalStates
      /\ SavedFits(s, order[p], position[p], calls[p], quote')
  BY <1>1, <1>2, <1>5, MergedBooks
<1> QED BY <1>1, <1>3, <1>4, <1>5, <1>6, ObservedStep

LEMMA ReadMissingStep == PlanInv /\ ReadMissing => PlanInv'
BY UncertainStep DEF ReadMissing, At

LEMMA SubmitUncertainStep == PlanInv /\ SubmitUncertain => PlanInv'
BY UncertainStep DEF SubmitUncertain, At

LEMMA CancelRefusedStep == PlanInv /\ CancelRefused => PlanInv'
BY UncertainStep DEF CancelRefused, At

\* The tick goes on and saves nothing, or saves a state it has made.
LEMMA GoesOnStep ==
  ASSUME PlanInv, ~At("idle"), LocalStep,
         tick' \in TickType, tick'.plan = tick.plan,
         TickFits(tick', order[tick.plan], position[tick.plan], calls[tick.plan], quote),
         tick'.pc \in {"preview", "submit"} /\ tick'.slot = 0 => ~UnresolvedDispatches(tick.plan),
         NEW s \in StateType,
         \/ UNCHANGED plan /\ s = plan[tick.plan]
         \/ /\ Saves(s)
            /\ SavedFits(s, order[tick.plan], position[tick.plan], calls[tick.plan], quote)
            /\ s.status \notin TerminalStates,
         tick'.pc \in {"cancel exit", "exit answer", "submit", "receipt"} => s = tick'.s
  PROVE  PlanInv'
<1>1. /\ UNCHANGED <<request, order, position, calls, quote>>
      /\ enabled' \in BOOLEAN
  BY DEF LocalStep, brokerVars, hostVars, PlanInv, StoreType
<1>2. plan' = [plan EXCEPT ![tick.plan] = s]
  BY DEF PlanInv, StoreType, Saves, SaveAs
<1>3. /\ SavedFits(s, order[tick.plan], position[tick.plan], calls[tick.plan], quote)
      /\ s.status \notin TerminalStates
  BY Running
<1> QED BY <1>1, <1>2, <1>3, Running, TickStep

LEMMA EndsStep ==
  ASSUME PlanInv, ~At("idle"), LocalStep, NEW s \in StateType, Ends(s),
         SavedFits(s, order[tick.plan], position[tick.plan], calls[tick.plan], quote)
  PROVE  PlanInv'
<1>1. /\ UNCHANGED <<request, order, position, calls, quote>>
      /\ enabled' \in BOOLEAN
  BY DEF LocalStep, brokerVars, hostVars, PlanInv, StoreType
<1>2. plan' = [plan EXCEPT ![tick.plan] = s] /\ tick' = NoTick
  BY DEF Ends, Saves, SaveAs
<1> QED BY <1>1, <1>2, Running, TickStep

LEMMA ReceiptReads ==
  ASSUME PlanInv, NEW p \in Plans, NEW n \in Slots, Known(p, n)
  PROVE  /\ Receipt(p, n) \in ReceiptType
         /\ Reads(Receipt(p, n), order[p][n])
         /\ Receipt(p, n).open <=> order[p][n].phase = "open"
<1>1. order[p][n] \in OrderType
  BY DEF PlanInv, StoreType
<1> DEFINE open  == order[p][n].phase = "open"
           whole == order[p][n].filled = order[p][n].size
<1>2. open \in BOOLEAN /\ whole \in BOOLEAN
  OBVIOUS
<1>3. Receipt(p, n) = [open |-> open, filled |-> order[p][n].filled, whole |-> whole]
  BY DEF Receipt
<1>4. open <=> order[p][n].phase = "open"
  OBVIOUS
<1> HIDE DEF open, whole
<1>5. Receipt(p, n) \in ReceiptType /\ Receipt(p, n).filled = order[p][n].filled
      /\ (Receipt(p, n).open <=> open)
  BY <1>1, <1>2, <1>3 DEF ReceiptType, OrderType
<1> QED BY <1>1, <1>4, <1>5 DEF Known, Reads, OrderType

\* The receipts of a tick whose orders are all known, whatever else it remembers.
LEMMA ReadingReads ==
  ASSUME PlanInv, NEW t \in TickType, NEW o, NEW held, NEW c, NEW now,
         o = order[t.plan], Fits(t.s, o, held, c, now), ~ReceiptMissing(t.plan, t.s),
         t.entry = EntryReceipt(t.plan, t.s), t.exit = ExitReceipt(t.plan, t.s),
         t.pc \notin {"cancel entry", "entry answer"} /\ (t.reason \/ t.s.decided) => ~t.entry.open
  PROVE  ReadsOrders(t, o)
<1>0. 0 \in Slots /\ t.s.exit \in Slots /\ t.plan \in Plans
  BY ZeroSlot DEF TickType, StateType
<1>1. IF t.s.entry THEN Reads(t.entry, o[0]) ELSE t.entry = NoReceipt
  BY <1>0, ReceiptReads DEF EntryReceipt, ReceiptMissing
<1>2. IF t.s.exit # 0 THEN Reads(t.exit, o[t.s.exit]) ELSE t.exit = NoReceipt
  BY <1>0, ReceiptReads DEF ExitReceipt, ReceiptMissing
<1>3. Sells(t.s) => ~t.entry.open
  <2>1. Sells(t.s) => o[0].phase = "closed"
    BY DEF Fits, Accounts
  <2>2. t.s.entry => (t.entry.open <=> o[0].phase = "open")
    BY <1>0, ReceiptReads DEF EntryReceipt, ReceiptMissing
  <2>3. ~t.s.entry => ~t.entry.open
    BY DEF EntryReceipt, NoReceipt
  <2> QED BY <2>1, <2>2, <2>3
<1> QED BY <1>1, <1>2, <1>3 DEF ReadsOrders

LEMMA ReceiptTypes ==
  ASSUME PlanInv, NEW p \in Plans, NEW s \in StateType, ~ReceiptMissing(p, s)
  PROVE  EntryReceipt(p, s) \in ReceiptType /\ ExitReceipt(p, s) \in ReceiptType
<1>0. 0 \in Slots /\ s.exit \in Slots
  BY ZeroSlot DEF StateType
<1>1. NoReceipt \in ReceiptType
  BY DEF NoReceipt, ReceiptType
<1> QED BY <1>0, <1>1, ReceiptReads DEF EntryReceipt, ExitReceipt, ReceiptMissing

\* A state all of whose orders are known may be saved under any state that is not final.
LEMMA KnownSaved ==
  ASSUME PlanInv, NEW p \in Plans, NEW s \in StateType, NEW s2,
         Fits(s, order[p], position[p], calls[p], quote), SameBooks(s, s2),
         s2.status \notin TerminalStates, s.entry => Known(p, 0)
  PROVE  SavedFits(s2, order[p], position[p], calls[p], quote)
<1>1. order[p][0].phase # "sent"
  BY ZeroSlot DEF Fits, Accounts, Names, Known
<1> QED BY <1>1, SameSaved

LEMMA ReadTick ==
  ASSUME PlanInv, At("orders"), ~ReceiptMissing(tick.plan, tick.s),
         NEW hit \in BOOLEAN, NEW expired \in BOOLEAN, NEW admitted \in BOOLEAN,
         NEW t, t = Admission(Decided(WithReceipts(hit, expired)), admitted)
  PROVE  /\ t \in TickType /\ t.plan = tick.plan /\ t.executable = tick.executable
         /\ SameBooks(tick.s, t.s) /\ t.s.status = tick.s.status
         /\ t.entry = EntryReceipt(tick.plan, tick.s) /\ t.exit = ExitReceipt(tick.plan, tick.s)
<1>0. /\ tick \in TickType /\ tick.plan \in Plans /\ tick.s \in StateType
      /\ EntryReceipt(tick.plan, tick.s) \in ReceiptType
      /\ ExitReceipt(tick.plan, tick.s) \in ReceiptType
  BY Running, ReceiptTypes DEF At
<1> DEFINE read == [tick EXCEPT !.entry = EntryReceipt(tick.plan, tick.s),
                                !.exit = ExitReceipt(tick.plan, tick.s), !.expired = expired]
           r == [read EXCEPT !.reason = hit /\ MayExit(read)]
<1>1. r = WithReceipts(hit, expired)
  BY DEF WithReceipts
<1>2. (hit /\ MayExit(read)) \in BOOLEAN
  BY DEF MayExit
<1>3. /\ r \in TickType /\ r.plan = tick.plan /\ r.executable = tick.executable /\ r.s = tick.s
      /\ r.entry = EntryReceipt(tick.plan, tick.s) /\ r.exit = ExitReceipt(tick.plan, tick.s)
  <2> DEFINE why == hit /\ MayExit(read)
  <2>1. why \in BOOLEAN /\ r = [read EXCEPT !.reason = why]
    BY <1>2
  <2> HIDE DEF why, r
  <2>2. read \in TickType /\ read.plan = tick.plan /\ read.executable = tick.executable
        /\ read.s = tick.s
        /\ read.entry = EntryReceipt(tick.plan, tick.s) /\ read.exit = ExitReceipt(tick.plan, tick.s)
    BY <1>0 DEF TickType
  <2> HIDE DEF read
  <2> QED BY <2>1, <2>2 DEF TickType
<1> HIDE DEF r
<1> DEFINE Keeps(u, v) == /\ v \in TickType /\ v.plan = u.plan /\ v.executable = u.executable
                          /\ v.entry = u.entry /\ v.exit = u.exit
                          /\ SameBooks(u.s, v.s) /\ v.s.status = u.s.status
<1>4. ASSUME NEW u \in TickType
      PROVE  /\ Keeps(u, u)
             /\ Keeps(u, [u EXCEPT !.s.decided = TRUE])
             /\ Keeps(u, [u EXCEPT !.s.withdrawn = TRUE])
  BY DEF TickType, StateType, SameBooks
<1> DEFINE d == Decided(r)
<1>5. Keeps(r, d)
  <2> HIDE DEF Keeps
  <2> QED BY <1>3, <1>4 DEF Decided
<1> HIDE DEF d
<1>6. Keeps(d, Admission(d, admitted))
  <2>1. d \in TickType
    BY <1>5
  <2> HIDE DEF Keeps
  <2> QED BY <2>1, <1>4 DEF Admission
<1>7. t = Admission(d, admitted)
  BY <1>1 DEF d
<1> QED BY <1>3, <1>5, <1>6, <1>7 DEF SameBooks

LEMMA ReadStep ==
  ASSUME PlanInv, NEW hit \in BOOLEAN, NEW expired \in BOOLEAN, NEW admitted \in BOOLEAN,
         Read(hit, expired, admitted)
  PROVE  PlanInv'
<1> DEFINE t0 == Admission(Decided(WithReceipts(hit, expired)), admitted)
<1>a. PICK t : t = t0
  OBVIOUS
<1>b. PICK s : s = IF Observes(t) THEN [t.s EXCEPT !.matched = quote] ELSE t.s
  OBVIOUS
<1>0. /\ At("orders") /\ ~ReceiptMissing(tick.plan, tick.s) /\ LocalStep
      /\ tick' = [t EXCEPT !.s = s, !.pc = IF NeedsProtection(t) THEN "cancel entry"
                                           ELSE IF Observes(t) THEN "observe" ELSE "decide"]
      /\ IF s # tick.s THEN Saves(s) ELSE UNCHANGED plan
  BY <1>a, <1>b DEF Read
<1> HIDE DEF t0
<1>1. /\ t \in TickType /\ t.plan = tick.plan /\ t.executable = tick.executable
      /\ SameBooks(tick.s, t.s) /\ t.s.status = tick.s.status
      /\ t.entry = EntryReceipt(tick.plan, tick.s) /\ t.exit = ExitReceipt(tick.plan, tick.s)
  BY <1>0, <1>a, ReadTick DEF t0
<1>2. ~At("idle") /\ tick.s \in StateType /\ tick.plan \in Plans /\ quote \in Nat
      /\ TickFits(tick, order[tick.plan], position[tick.plan], calls[tick.plan], quote)
  BY <1>0, Running DEF At
<1>3. /\ SameBooks(tick.s, s) /\ s.status = tick.s.status
      /\ s.decided = t.s.decided /\ s.withdrawn = t.s.withdrawn
  BY <1>1, <1>2, <1>b DEF SameBooks, StateType
<1>4. Fits(s, order[tick.plan], position[tick.plan], calls[tick.plan], quote)
  BY <1>2, <1>3, SameFits DEF TickFits
<1>5. SavedFits(s, order[tick.plan], position[tick.plan], calls[tick.plan], quote)
      /\ s.status \notin TerminalStates /\ s \in StateType
  BY <1>0, <1>2, <1>3, KnownSaved DEF TickFits, ReceiptMissing, SameBooks
<1> DEFINE pc == IF NeedsProtection(t) THEN "cancel entry"
                 ELSE IF Observes(t) THEN "observe" ELSE "decide"
<1>6. /\ tick' \in TickType /\ tick'.plan = tick.plan /\ tick'.s = s /\ tick'.pc = pc
      /\ tick'.entry = t.entry /\ tick'.exit = t.exit /\ tick'.reason = t.reason
  BY <1>0, <1>1, <1>5 DEF TickType, Reading
<1>7. /\ tick'.entry = EntryReceipt(tick'.plan, tick'.s) /\ tick'.exit = ExitReceipt(tick'.plan, tick'.s)
      /\ ~ReceiptMissing(tick'.plan, tick'.s)
  BY <1>0, <1>1, <1>3, <1>6 DEF EntryReceipt, ExitReceipt, ReceiptMissing, SameBooks
<1>8. pc # "cancel entry" => (t.entry.open => ~(t.reason \/ s.decided))
  BY <1>3 DEF NeedsProtection
<1>9. pc = "cancel entry" => s.entry
  <2>1. pc = "cancel entry" => t.entry.open
    BY DEF NeedsProtection
  <2> QED BY <2>1, <1>1, <1>3 DEF EntryReceipt, NoReceipt, SameBooks
<1>10. pc \in {"cancel entry", "observe", "decide"}
  OBVIOUS
<1> HIDE DEF pc
<1>11. ReadsOrders(tick', order[tick.plan])
  BY <1>4, <1>6, <1>7, <1>8, <1>10, ReadingReads
<1>12. TickFits(tick', order[tick.plan], position[tick.plan], calls[tick.plan], quote)
  BY <1>4, <1>5, <1>6, <1>9, <1>10, <1>11 DEF TickFits
<1>13. CASE s # tick.s
  BY <1>0, <1>2, <1>5, <1>6, <1>10, <1>12, <1>13, GoesOnStep
<1>14. CASE s = tick.s
  BY <1>0, <1>2, <1>5, <1>6, <1>10, <1>12, <1>14, GoesOnStep, Running
<1> QED BY <1>13, <1>14

LEMMA KnownInReading ==
  ASSUME PlanInv, tick.pc \in Reading
  PROVE  /\ ~At("idle")
         /\ ~ReceiptMissing(tick.plan, tick.s)
         /\ tick.s.entry => Known(tick.plan, 0)
         /\ tick.s.exit # 0 => Known(tick.plan, tick.s.exit)
         /\ ReadsOrders(tick, order[tick.plan])
         /\ Fits(tick.s, order[tick.plan], position[tick.plan], calls[tick.plan], quote)
         /\ tick.s.status \notin TerminalStates
<1>1. ~At("idle")
  BY DEF At, Reading
<1>2. /\ ReadsOrders(tick, order[tick.plan])
      /\ Fits(tick.s, order[tick.plan], position[tick.plan], calls[tick.plan], quote)
      /\ tick.s.status \notin TerminalStates
  BY <1>1, Running DEF TickFits
<1> QED BY <1>1, <1>2 DEF ReceiptMissing, Known, ReadsOrders, Reads

LEMMA ObserveStep == PlanInv /\ Observe => PlanInv'
<1> SUFFICES ASSUME PlanInv, Observe PROVE PlanInv'
    OBVIOUS
<1>0. tick.pc = "observe" /\ tick.pc \in Reading /\ ~At("idle") /\ LocalStep /\ UNCHANGED plan
  BY KnownInReading DEF Observe, At, Reading
<1>1. /\ tick \in TickType /\ tick.plan \in Plans /\ tick.s \in StateType
      /\ ReadsOrders(tick, order[tick.plan])
      /\ Fits(tick.s, order[tick.plan], position[tick.plan], calls[tick.plan], quote)
      /\ tick.s.status \notin TerminalStates /\ ~ReceiptMissing(tick.plan, tick.s)
  BY <1>0, KnownInReading, Running
<1>2. /\ EntryReceipt(tick.plan, tick.s) \in ReceiptType
      /\ ExitReceipt(tick.plan, tick.s) \in ReceiptType
  BY <1>1, ReceiptTypes
<1>3. /\ tick' \in TickType /\ tick'.plan = tick.plan /\ tick'.s = tick.s /\ tick'.pc = "decide"
      /\ tick'.entry = EntryReceipt(tick.plan, tick.s) /\ tick'.exit = ExitReceipt(tick.plan, tick.s)
      /\ tick'.reason = tick.reason
  BY <1>1, <1>2 DEF Observe, TickType, Reading
<1>4. tick.reason \/ tick.s.decided => ~tick'.entry.open
  <2>1. tick.reason \/ tick.s.decided => ~tick.entry.open
    BY <1>0, <1>1 DEF ReadsOrders
  <2>2. CASE tick.s.entry
    <3>1. Known(tick.plan, 0) /\ 0 \in Slots /\ tick'.entry = Receipt(tick.plan, 0)
      BY <1>0, <1>3, <2>2, KnownInReading, ZeroSlot DEF EntryReceipt
    <3>2. ~tick.entry.open => order[tick.plan][0].phase = "closed"
      BY <1>1, <2>2 DEF ReadsOrders, Reads
    <3> QED BY <1>1, <2>1, <3>1, <3>2, ReceiptReads
  <2>3. CASE ~tick.s.entry
    BY <1>3, <2>3 DEF EntryReceipt, NoReceipt
  <2> QED BY <2>2, <2>3
<1>5. ReadsOrders(tick', order[tick.plan])
  BY <1>1, <1>3, <1>4, ReadingReads
<1>6. TickFits(tick', order[tick.plan], position[tick.plan], calls[tick.plan], quote)
  BY <1>1, <1>3, <1>5 DEF TickFits
<1> QED BY <1>0, <1>3, <1>6, GoesOnStep, Running

\* A step of the tick that reaches the broker.
LEMMA RequestStep ==
  ASSUME PlanInv, ~At("idle"), BrokerStep, UNCHANGED position, NEW o2, NEW c2,
         order' = [order EXCEPT ![tick.plan] = o2], calls' = [calls EXCEPT ![tick.plan] = c2],
         Books(o2, c2),
         SavedFits(plan[tick.plan], o2, position[tick.plan], c2, quote),
         o2[0].phase = "sent" =>
           order[tick.plan][0].phase = "sent" \/ ~UnresolvedDispatches(tick.plan),
         tick' \in TickType, tick'.plan = tick.plan, tick'.pc \in {"entry answer", "exit answer", "receipt"},
         TickFits(tick', o2, position[tick.plan], c2, quote),
         tick'.pc \in {"exit answer", "receipt"} => plan[tick.plan] = tick'.s
  PROVE  PlanInv'
<1> DEFINE p == tick.plan
<1>0. /\ StoreType /\ p \in Plans /\ UNCHANGED <<plan, request, position, enabled, quote>>
      /\ o2 \in [Slots -> OrderType] /\ c2 \in [Slots -> CallType]
      /\ plan[p].status \notin TerminalStates
  BY Running DEF PlanInv, BrokerStep, storeVars, hostVars, Books
<1>1. /\ order'[p] = o2 /\ calls'[p] = c2
      /\ \A q \in Plans \ {p} : order'[q] = order[q] /\ calls'[q] = calls[q]
  BY <1>0 DEF StoreType
<1>2. StoreType'
  BY <1>0 DEF StoreType
<1>3. \A q \in Plans : Books(order'[q], calls'[q])
  BY <1>1 DEF PlanInv
<1>4. \A q \in Plans : SavedFits(plan'[q], order'[q], position'[q], calls'[q], quote')
  BY <1>0, <1>1 DEF PlanInv
<1>5. OneEntryInDoubt'
  <2>1. \A q \in Plans : order[q][0].phase = "sent" => plan[q].status \in Unresolved
    BY DEF PlanInv, SavedFits
  <2>2. \A q \in Plans \ {p} :
          o2[0].phase = "sent" /\ order[q][0].phase = "sent" => order[p][0].phase = "sent"
    BY <2>1 DEF UnresolvedDispatches
  <2>3. \A q \in Plans \ {p} : ~(o2[0].phase = "sent" /\ order[q][0].phase = "sent")
    BY <1>0, <2>2 DEF PlanInv, OneEntryInDoubt
  <2>4. ASSUME NEW a \in Plans, NEW b \in Plans,
               order'[a][0].phase = "sent", order'[b][0].phase = "sent", a # b
        PROVE  FALSE
    <3>1. CASE a = p
      BY <1>1, <2>3, <2>4, <3>1
    <3>2. CASE b = p
      BY <1>1, <2>3, <2>4, <3>2
    <3>3. CASE a # p /\ b # p
      BY <1>1, <2>4, <3>3 DEF PlanInv, OneEntryInDoubt
    <3> QED BY <3>1, <3>2, <3>3
  <2> QED BY <2>4 DEF OneEntryInDoubt
<1>6. TickInv'
  BY <1>0, <1>1 DEF TickInv, UnresolvedDispatches
<1> QED BY <1>2, <1>3, <1>4, <1>5, <1>6 DEF PlanInv

LEMMA AskMoves ==
  ASSUME NEW o \in [Slots -> OrderType], NEW n \in Slots
  PROVE  Moves(o, [o EXCEPT ![n].cancelling = @ \/ o[n].phase = "open"])
<1> DEFINE asked == o[n].cancelling \/ o[n].phase = "open"
           o2 == [o EXCEPT ![n].cancelling = asked]
<1>0. asked \in BOOLEAN
  BY DEF OrderType
<1> HIDE DEF asked
<1>1. o2[n] = [o[n] EXCEPT !.cancelling = asked] /\ \A m \in Slots \ {n} : o2[m] = o[m]
  OBVIOUS
<1>2. o[n] \in OrderType
  OBVIOUS
<1>3. /\ o2[n] \in OrderType
      /\ o2[n].size = o[n].size /\ o2[n].filled = o[n].filled /\ o2[n].quote = o[n].quote
      /\ o2[n].phase = o[n].phase
  BY <1>0, <1>1, <1>2 DEF OrderType
<1>4. o2 \in [Slots -> OrderType]
  BY <1>3
<1>5. \A m \in Slots : o[m].phase \in {"none", "sent", "open", "closed"}
  BY DEF OrderType
<1>6. [o EXCEPT ![n].cancelling = @ \/ o[n].phase = "open"] = o2
  BY DEF asked
<1> HIDE DEF o2
<1>7. Moves(o, o2)
  BY <1>1, <1>3, <1>4, <1>5 DEF Moves
<1> QED BY <1>6, <1>7

Asked(c, n) == [c EXCEPT ![n].cancels = IF n = 0 THEN @ ELSE @ + 1]

\* A cancellation may be asked for as long as the state has counted it.
LEMMA AskAccounts ==
  ASSUME NEW s \in StateType, NEW o, NEW held, NEW c, NEW now, NEW n \in Slots,
         Books(o, c), Fits(s, o, held, c, now),
         n # 0 => n = s.exit /\ n = s.cancelFor /\ c[n].cancels < s.cancels
  PROVE  Books(o, Asked(c, n)) /\ Fits(s, o, held, Asked(c, n), now)
<1> DEFINE c2 == Asked(c, n)
<1>0. c \in [Slots -> CallType] /\ s.attempt \in Nat /\ s.cancels \in Nat
  BY DEF Books, StateType, Slots
<1>1. /\ c2 \in [Slots -> CallType]
      /\ \A m \in Slots : c2[m].submits = c[m].submits
      /\ \A m \in Slots \ {n} : c2[m] = c[m]
      /\ c2[n].cancels = IF n = 0 THEN c[n].cancels ELSE c[n].cancels + 1
  BY <1>0 DEF CallType, Asked
<1> HIDE DEF c2
<1>2. Books(o, c2)
  BY <1>1 DEF Books, Booked
<1>3. ASSUME NEW m \in Sales PROVE c2[m].cancels <= Cancels(s, m)
  <2>0. m \in Slots /\ m # 0
    BY ZeroSlot DEF Sales
  <2>1. CASE m # n
    BY <1>1, <2>0, <2>1 DEF Fits, Accounts
  <2>2. CASE m = n
    <3>1. s.exit = s.attempt + 1
      BY <2>0, <2>2 DEF Fits, Follows
    <3>2. Cancels(s, m) = s.cancels
      BY <1>0, <2>0, <2>2, <3>1 DEF Cancels
    <3> QED BY <1>0, <1>1, <2>0, <2>2, <3>2 DEF CallType
  <2> QED BY <2>1, <2>2
<1>4. Fits(s, o, held, c2, now)
  BY <1>3 DEF Fits, Accounts
<1> QED BY <1>2, <1>4 DEF c2

LEMMA CancelStep ==
  ASSUME PlanInv, ~At("idle"), tick.pc \in {"cancel entry", "cancel exit"}, NEW n \in Slots,
         n = IF At("cancel entry") THEN 0 ELSE tick.s.exit,
         AskToCancel(n), BrokerStep,
         tick' = [tick EXCEPT !.pc = IF At("cancel entry") THEN "entry answer" ELSE "exit answer"]
  PROVE  PlanInv'
<1> DEFINE p  == tick.plan
           o2 == [order[p] EXCEPT ![n].cancelling = @ \/ order[p][n].phase = "open"]
           c2 == Asked(calls[p], n)
<1>0. /\ tick \in TickType /\ p \in Plans /\ tick.s \in StateType /\ plan[p] \in StateType
      /\ order[p] \in [Slots -> OrderType] /\ calls[p] \in [Slots -> CallType]
      /\ SavedFits(plan[p], order[p], position[p], calls[p], quote)
      /\ TickFits(tick, order[p], position[p], calls[p], quote)
      /\ At("cancel exit") => plan[p] = tick.s
      /\ Books(order[p], calls[p]) /\ plan[p].status \notin TerminalStates
  BY Running DEF At
<1>1. n # 0 => At("cancel exit") /\ n = tick.s.exit /\ n = tick.s.cancelFor
               /\ calls[p][n].cancels < tick.s.cancels
  BY <1>0 DEF At, TickFits
<1>2. /\ order' = [order EXCEPT ![p] = o2] /\ calls' = [calls EXCEPT ![p] = c2]
      /\ UNCHANGED position
  BY <1>0 DEF AskToCancel, Cancelled, PlanInv, StoreType, Asked
<1>3. c2 = Asked(calls[p], n)
  OBVIOUS
<1>4. Moves(order[p], o2)
  BY <1>0, AskMoves
<1> HIDE DEF o2, c2
<1>a. /\ Fits(tick.s, order[p], position[p], calls[p], quote)
      /\ Fits(plan[p], order[p], position[p], calls[p], quote)
      /\ n # 0 => n = plan[p].exit /\ n = plan[p].cancelFor /\ calls[p][n].cancels < plan[p].cancels
  BY <1>0, <1>1 DEF SavedFits, TickFits
<1>b. Books(order[p], c2) /\ Fits(tick.s, order[p], position[p], c2, quote)
  BY <1>0, <1>1, <1>3, <1>a, AskAccounts
<1>c. Fits(plan[p], order[p], position[p], c2, quote)
  BY <1>0, <1>3, <1>a, AskAccounts
<1>5. /\ Books(order[p], c2)
      /\ Fits(tick.s, order[p], position[p], c2, quote)
      /\ Fits(plan[p], order[p], position[p], c2, quote)
  BY <1>b, <1>c
<1>6. SavedFits(plan[p], order[p], position[p], c2, quote)
  BY <1>0, <1>5 DEF SavedFits
<1>7. /\ tick' \in TickType /\ tick'.plan = p /\ tick'.s = tick.s
      /\ tick'.entry = tick.entry /\ tick'.exit = tick.exit /\ tick'.reason = tick.reason
      /\ tick'.pc \in {"entry answer", "exit answer"} /\ (tick'.pc = "entry answer" <=> At("cancel entry"))
  BY <1>0 DEF TickType, Reading
<1>8. ReadsOrders(tick', order[p])
  BY <1>0, <1>7 DEF TickFits, ReadsOrders, Reading, At
<1>9. TickFits(tick', order[p], position[p], c2, quote)
  BY <1>0, <1>5, <1>7, <1>8 DEF TickFits, At
<1>10. /\ Books(o2, c2)
       /\ SavedFits(plan[p], o2, position[p], c2, quote)
       /\ TickFits(tick', o2, position[p], c2, quote)
  BY <1>0, <1>4, <1>5, <1>6, <1>7, <1>9, MovesBooks, MovesSaved, MovesTick
<1>11. o2[0].phase = "sent" => order[p][0].phase = "sent"
  BY <1>4, ZeroSlot DEF Moves
<1>12. tick'.pc \in {"exit answer", "receipt"} => plan[p] = tick'.s
  BY <1>0, <1>7 DEF At
<1> QED BY <1>2, <1>7, <1>10, <1>11, <1>12, RequestStep

LEMMA CancelEntryStep == PlanInv /\ CancelEntry => PlanInv'
<1> SUFFICES ASSUME PlanInv, CancelEntry PROVE PlanInv'
    OBVIOUS
<1>1. ~At("idle") /\ tick.pc = "cancel entry" /\ At("cancel entry") /\ 0 \in Slots
  BY ZeroSlot DEF CancelEntry, At
<1>2. tick' = [tick EXCEPT !.pc = IF At("cancel entry") THEN "entry answer" ELSE "exit answer"]
  BY <1>1 DEF CancelEntry
<1> QED BY <1>1, <1>2, CancelStep DEF CancelEntry

LEMMA CancelExitStep == PlanInv /\ CancelExit => PlanInv'
<1> SUFFICES ASSUME PlanInv, CancelExit PROVE PlanInv'
    OBVIOUS
<1>1. ~At("idle") /\ tick.pc = "cancel exit" /\ ~At("cancel entry")
  BY DEF CancelExit, At
<1>2. tick.s.exit \in Slots
  BY <1>1, Running DEF StateType
<1>3. tick' = [tick EXCEPT !.pc = IF At("cancel entry") THEN "entry answer" ELSE "exit answer"]
  BY <1>1 DEF CancelExit
<1> QED BY <1>1, <1>2, <1>3, CancelStep DEF CancelExit

\* Ending with the state in memory, under a status that is not final.
LEMMA EndsKnownStep ==
  ASSUME PlanInv, tick.pc \in Reading, LocalStep, NEW s, SameBooks(tick.s, s),
         s.status \notin TerminalStates, Ends(s)
  PROVE  PlanInv'
<1>1. /\ ~At("idle") /\ tick.plan \in Plans /\ tick.s \in StateType
      /\ Fits(tick.s, order[tick.plan], position[tick.plan], calls[tick.plan], quote)
      /\ tick.s.entry => Known(tick.plan, 0)
  BY KnownInReading, Running
<1>2. /\ SavedFits(s, order[tick.plan], position[tick.plan], calls[tick.plan], quote)
      /\ s \in StateType
  BY <1>1, KnownSaved DEF SameBooks
<1> QED BY <1>1, <1>2, EndsStep

LEMMA ExitRestsStep == PlanInv /\ ExitRests => PlanInv'
<1> SUFFICES ASSUME PlanInv, ExitRests PROVE PlanInv'
    OBVIOUS
<1> DEFINE s == [tick.s EXCEPT !.status = "exit_submitted"]
<1>1. tick.pc \in Reading /\ tick.s \in StateType /\ "exit_submitted" \in States
  BY Running DEF ExitRests, At, Reading, States
<1>2. SameBooks(tick.s, s) /\ s.status \notin TerminalStates
  BY <1>1, StatusBooks DEF StateType, TerminalStates
<1> QED BY <1>1, <1>2, EndsKnownStep DEF ExitRests

LEMMA CancelAnsweredStep == PlanInv /\ (EntryCancelAnswered \/ ExitCancelAnswered) => PlanInv'
<1> SUFFICES ASSUME PlanInv, EntryCancelAnswered \/ ExitCancelAnswered PROVE PlanInv'
    OBVIOUS
<1>0. tick.pc \in {"entry answer", "exit answer"} /\ LocalStep
  BY DEF EntryCancelAnswered, ExitCancelAnswered, At
<1>1. /\ tick.pc \in Reading /\ ~At("idle") /\ tick \in TickType /\ tick.plan \in Plans
      /\ tick.s \in StateType /\ tick.s.status \notin TerminalStates
      /\ Fits(tick.s, order[tick.plan], position[tick.plan], calls[tick.plan], quote)
      /\ ReadsOrders(tick, order[tick.plan])
      /\ tick.s.entry => Known(tick.plan, 0)
      /\ tick.s.exit # 0 => Known(tick.plan, tick.s.exit)
      /\ 0 \in Slots /\ tick.s.exit \in Slots
      /\ TickFits(tick, order[tick.plan], position[tick.plan], calls[tick.plan], quote)
  BY <1>0, KnownInReading, Running, ZeroSlot DEF Reading, StateType
<1>2. ASSUME Ends(tick.s) PROVE PlanInv'
  <2>1. SameBooks(tick.s, tick.s)
    BY <1>1 DEF SameBooks
  <2> QED BY <1>0, <1>1, <1>2, <2>1, EndsKnownStep
<1>3. ASSUME At("entry answer"), ~Receipt(tick.plan, 0).open, UNCHANGED plan,
             tick' = [tick EXCEPT !.entry = Receipt(tick.plan, 0), !.pc = "decide"]
      PROVE  PlanInv'
  <2>1. tick.s.entry /\ Known(tick.plan, 0)
    BY <1>1, <1>3 DEF TickFits, At
  <2>2. Receipt(tick.plan, 0) \in ReceiptType /\ Reads(Receipt(tick.plan, 0), order[tick.plan][0])
    BY <1>1, <2>1, ReceiptReads
  <2>3. /\ tick' \in TickType /\ tick'.plan = tick.plan /\ tick'.s = tick.s /\ tick'.pc = "decide"
        /\ tick'.entry = Receipt(tick.plan, 0) /\ tick'.exit = tick.exit
        /\ tick'.reason = tick.reason
    BY <1>1, <1>3, <2>2 DEF TickType, Reading
  <2>4. ReadsOrders(tick', order[tick.plan])
    BY <1>1, <1>3, <2>1, <2>2, <2>3 DEF ReadsOrders
  <2>5. TickFits(tick', order[tick.plan], position[tick.plan], calls[tick.plan], quote)
    BY <1>1, <2>3, <2>4 DEF TickFits
  <2> QED BY <1>0, <1>1, <1>3, <2>3, <2>5, GoesOnStep, Running
<1>4. ASSUME At("exit answer"), ~Receipt(tick.plan, tick.s.exit).open, UNCHANGED plan,
             tick' = [tick EXCEPT !.exit = Receipt(tick.plan, tick.s.exit), !.pc = "decide"]
      PROVE  PlanInv'
  <2>1. tick.s.exit # 0 /\ Known(tick.plan, tick.s.exit)
    BY <1>1, <1>4 DEF TickFits, At
  <2>2. /\ Receipt(tick.plan, tick.s.exit) \in ReceiptType
        /\ Reads(Receipt(tick.plan, tick.s.exit), order[tick.plan][tick.s.exit])
    BY <1>1, <2>1, ReceiptReads
  <2>3. /\ tick' \in TickType /\ tick'.plan = tick.plan /\ tick'.s = tick.s /\ tick'.pc = "decide"
        /\ tick'.exit = Receipt(tick.plan, tick.s.exit) /\ tick'.entry = tick.entry
        /\ tick'.reason = tick.reason
    BY <1>1, <1>4, <2>2 DEF TickType, Reading
  <2>4. ReadsOrders(tick', order[tick.plan])
    BY <1>1, <1>4, <2>1, <2>2, <2>3 DEF ReadsOrders, At
  <2>5. TickFits(tick', order[tick.plan], position[tick.plan], calls[tick.plan], quote)
    BY <1>1, <2>3, <2>4 DEF TickFits
  <2> QED BY <1>0, <1>1, <1>4, <2>3, <2>5, GoesOnStep, Running
<1>5. CASE EntryCancelAnswered
  BY <1>2, <1>3, <1>5 DEF EntryCancelAnswered
<1>6. CASE ExitCancelAnswered
  BY <1>2, <1>4, <1>6 DEF ExitCancelAnswered
<1> QED BY <1>5, <1>6

\* Another cancellation of the sale in progress is counted before it is asked for.
LEMMA IntentFits ==
  ASSUME NEW s \in StateType, NEW o, NEW held, NEW c, NEW now, Books(o, c),
         Fits(s, o, held, c, now), s.exit # 0,
         s.cancelFor = s.exit => s.cancels < MaxCancels
  PROVE  LET s2 == CancelIntent(s) IN
         /\ s2 \in StateType /\ s2.status = "exit_submitted" /\ s2.exit = s.exit
         /\ s2.entry = s.entry /\ s2.attempt = s.attempt /\ s2.decided = s.decided
         /\ s2.cancelFor = s2.exit
         /\ c[s2.exit].cancels < s2.cancels
         /\ Fits(s2, o, held, c, now)
<1> DEFINE n  == IF s.cancelFor = s.exit THEN s.cancels + 1 ELSE 1
           s2 == [s EXCEPT !.status = "exit_submitted", !.cancelFor = s.exit, !.cancels = n]
<1>0. CancelIntent(s) = s2
  BY DEF CancelIntent
<1>1. /\ MaxCancels \in Nat \ {0} /\ s.cancels \in Nat /\ s.attempt \in Nat
      /\ s.exit \in Sales /\ s.exit = s.attempt + 1 /\ c[s.exit].cancels \in Nat
  <2>1. MaxCancels \in Nat \ {0} /\ MaxQuotes \in Nat
    BY PlanAssumption
  <2>2. s.cancels \in Nat /\ s.attempt \in 0..MaxQuotes /\ s.exit \in 0..MaxQuotes
    BY DEF StateType, Slots
  <2>3. s.exit = s.attempt + 1
    BY DEF Fits, Follows
  <2>4. s.exit \in Sales /\ s.exit \in Slots
    BY <2>1, <2>2 DEF Sales, Slots
  <2>5. c[s.exit].cancels \in Nat
    BY <2>4 DEF Books, CallType
  <2> QED BY <2>1, <2>2, <2>3, <2>4, <2>5
<1>2. n \in Nat /\ n <= MaxCancels
  BY <1>1
<1>3. c[s.exit].cancels < n
  <2>1. c[s.exit].cancels <= Cancels(s, s.exit)
    BY <1>1 DEF Fits, Accounts
  <2>2. Cancels(s, s.exit) = IF s.cancelFor = s.exit THEN s.cancels ELSE 0
    BY <1>1 DEF Cancels
  <2> QED BY <1>1, <2>1, <2>2
<1> HIDE DEF n
<1>4. /\ s2 \in StateType /\ s2.status = "exit_submitted" /\ s2.exit = s.exit
      /\ s2.entry = s.entry /\ s2.attempt = s.attempt /\ s2.decided = s.decided
      /\ s2.sold = s.sold /\ s2.replaced = s.replaced /\ s2.submitted = s.submitted
      /\ s2.cancelFor = s.exit /\ s2.cancels = n
  BY <1>2 DEF StateType, States
<1> HIDE DEF s2
<1>5. Follows(s2, now)
  BY <1>2, <1>4 DEF Fits, Follows
<1>6. /\ Sells(s2) <=> Sells(s)
      /\ Selling(s2, o) = Selling(s, o)
      /\ \A m \in Slots : Names(s2, m) <=> Names(s, m)
  BY <1>4 DEF Sells, Selling, Names
<1>7. ASSUME NEW m \in Sales PROVE c[m].cancels <= Cancels(s2, m)
  <2>0. m \in Nat /\ m # 0 /\ c[m].cancels \in Nat /\ c[m].cancels <= Cancels(s, m)
    BY ZeroSlot DEF Sales, Fits, Accounts, Books, CallType
  <2>1. CASE m = s.exit
    BY <1>1, <1>3, <1>4, <2>0, <2>1, <1>2 DEF Cancels
  <2>2. CASE m # s.exit
    <3>1. m # s.cancelFor
      BY <2>0, <2>2 DEF Fits, Follows
    <3>2. Cancels(s2, m) = Cancels(s, m)
      BY <1>4, <2>2, <3>1 DEF Cancels
    <3> QED BY <2>0, <3>2
  <2> QED BY <2>1, <2>2
<1>8. Accounts(s2, o, held, c)
  BY <1>4, <1>6, <1>7 DEF Fits, Accounts
<1> QED BY <1>0, <1>3, <1>4, <1>5, <1>8 DEF Fits

LEMMA TryCancelStep == PlanInv /\ TryCancel => PlanInv'
<1> SUFFICES ASSUME PlanInv, TryCancel PROVE PlanInv'
    OBVIOUS
<1> DEFINE s == CancelIntent(tick.s)
<1>0. /\ tick.pc = "decide" /\ LocalStep /\ Saves(s) /\ tick.s.exit # 0 /\ tick.exit.open
      /\ tick' = [tick EXCEPT !.s = s, !.pc = "cancel exit"]
      /\ tick.s.cancelFor = tick.s.exit => tick.s.cancels < MaxCancels
  BY DEF TryCancel, At, SavesAttempt, MayCancel
<1>1. /\ tick.pc \in Reading /\ ~At("idle") /\ tick \in TickType /\ tick.plan \in Plans
      /\ tick.s \in StateType
      /\ Fits(tick.s, order[tick.plan], position[tick.plan], calls[tick.plan], quote)
      /\ ReadsOrders(tick, order[tick.plan])
      /\ tick.s.entry => Known(tick.plan, 0)
      /\ Books(order[tick.plan], calls[tick.plan])
  BY <1>0, KnownInReading, Running DEF Reading
<1>2. /\ s \in StateType /\ s.status = "exit_submitted" /\ s.exit = tick.s.exit
      /\ s.entry = tick.s.entry /\ s.attempt = tick.s.attempt /\ s.decided = tick.s.decided
      /\ s.cancelFor = s.exit /\ calls[tick.plan][s.exit].cancels < s.cancels
      /\ Fits(s, order[tick.plan], position[tick.plan], calls[tick.plan], quote)
  BY <1>0, <1>1, IntentFits
<1> HIDE DEF s
<1>3. s.status \notin TerminalStates /\ SameBooks(s, s)
  BY <1>2 DEF TerminalStates, SameBooks
<1>4. SavedFits(s, order[tick.plan], position[tick.plan], calls[tick.plan], quote)
  BY <1>1, <1>2, <1>3, KnownSaved
<1>5. /\ tick' \in TickType /\ tick'.plan = tick.plan /\ tick'.s = s /\ tick'.pc = "cancel exit"
      /\ tick'.entry = tick.entry /\ tick'.exit = tick.exit /\ tick'.reason = tick.reason
  BY <1>0, <1>1, <1>2 DEF TickType, Reading
<1>6. ReadsOrders(tick', order[tick.plan])
  BY <1>0, <1>1, <1>2, <1>5 DEF ReadsOrders, Sells
<1>7. TickFits(tick', order[tick.plan], position[tick.plan], calls[tick.plan], quote)
  BY <1>0, <1>2, <1>3, <1>5, <1>6 DEF TickFits
<1> QED BY <1>0, <1>1, <1>2, <1>3, <1>4, <1>5, <1>7, GoesOnStep

-----------------------------------------------------------------------------
(* The decision *)

\* What a tick has read when it decides: an order that is not open is closed, and
\* its receipt is final.
LEMMA DecideReads ==
  ASSUME PlanInv, At("decide")
  PROVE  /\ tick.pc = "decide" /\ tick.pc \in Reading /\ ~At("idle")
         /\ tick \in TickType /\ tick.plan \in Plans /\ tick.s \in StateType
         /\ tick.entry \in ReceiptType /\ tick.exit \in ReceiptType
         /\ Fits(tick.s, order[tick.plan], position[tick.plan], calls[tick.plan], quote)
         /\ ReadsOrders(tick, order[tick.plan]) /\ Books(order[tick.plan], calls[tick.plan])
         /\ tick.s.status \notin TerminalStates
         /\ tick.s.entry => Known(tick.plan, 0)
         /\ 0 \in Slots /\ tick.s.exit \in Slots
         /\ order[tick.plan] \in [Slots -> OrderType] /\ position[tick.plan] \in Int
         /\ quote \in 1..MaxQuotes /\ quote \in Nat
<1>1. tick.pc = "decide" /\ tick.pc \in Reading
  BY DEF At, Reading
<1> QED BY <1>1, KnownInReading, Running, ZeroSlot, QuoteType DEF TickType, StateType

LEMMA RetiredFits ==
  ASSUME PlanInv, Deciding, NEW t, t = Retired(tick)
  PROVE  /\ t \in TickType /\ t.plan = tick.plan /\ t.s \in StateType
         /\ t.s.exit = 0 /\ t.s.entry = tick.s.entry /\ t.s.submitted = tick.s.submitted
         /\ t.s.decided = tick.s.decided /\ t.s.status \notin TerminalStates
         /\ t.exit = NoReceipt /\ t.entry = tick.entry /\ t.reason = tick.reason
         /\ t.s.sold \in Nat /\ Left(t) = t.entry.filled - t.s.sold
         /\ Fits(t.s, order[tick.plan], position[tick.plan], calls[tick.plan], quote)
<1> DEFINE o == order[tick.plan]
           c == calls[tick.plan]
           held == position[tick.plan]
<1>0. At("decide") /\ ~SoldOut(tick) /\ (tick.s.exit # 0 => ~tick.exit.open)
  BY DEF Deciding
<1>1. /\ tick \in TickType /\ tick.s \in StateType /\ tick.entry \in ReceiptType
      /\ tick.exit \in ReceiptType /\ tick.s.sold \in Nat /\ tick.s.attempt \in Nat
      /\ tick.entry.filled \in Nat /\ tick.exit.filled \in Nat
      /\ tick.s.status \notin TerminalStates
      /\ Fits(tick.s, o, held, c, quote)
      /\ ReadsOrders(tick, o) /\ Books(o, c)
      /\ 0 \in Slots /\ tick.s.exit \in Slots /\ o \in [Slots -> OrderType] /\ held \in Int
  BY <1>0, DecideReads DEF StateType, ReceiptType, Slots
<1>2. CASE tick.s.exit = 0
  <2>1. t = tick
    BY <1>2 DEF Retired, ExitEnded
  <2>2. tick.exit = NoReceipt
    BY <1>1, <1>2 DEF ReadsOrders
  <2> QED BY <1>1, <1>2, <2>1, <2>2 DEF Left, NoReceipt
<1>3. CASE tick.s.exit # 0
  <2> DEFINE sold == tick.s.sold + tick.exit.filled
             retry == ~tick.exit.whole
  <2>1. /\ tick.s.exit = tick.s.attempt + 1 /\ tick.s.entry
        /\ tick.s.exit \in Sales /\ tick.s.exit \in Nat
    BY <1>1, <1>3 DEF Fits, Follows, Slots, Sales
  <2>2. /\ o[0].phase = "closed" /\ tick.entry.filled = o[0].filled
        /\ o[tick.s.exit].phase = "closed" /\ tick.exit.filled = o[tick.s.exit].filled
    BY <1>0, <1>1, <1>3, <2>1 DEF ReadsOrders, Reads, Sells, Fits, Accounts
  <2>3. tick.entry.filled - Left(tick) = sold /\ sold \in Nat /\ retry \in BOOLEAN
    BY <1>1 DEF Left
  <2> DEFINE s2 == [tick.s EXCEPT !.attempt = @ + 1, !.exit = 0, !.status = "open", !.sold = sold,
                                  !.retry = retry, !.cancelFor = 0, !.cancels = 0]
  <2>4. t = [tick EXCEPT !.s = s2, !.exit = NoReceipt]
    BY <1>0, <1>3, <2>3 DEF Retired, ExitEnded
  <2> HIDE DEF sold, retry
  <2>5. /\ s2 \in StateType /\ s2.attempt = tick.s.exit /\ s2.exit = 0 /\ s2.sold = sold
        /\ s2.entry = tick.s.entry /\ s2.submitted = tick.s.submitted /\ s2.decided = tick.s.decided
        /\ s2.replaced = tick.s.replaced /\ s2.cancelFor = 0 /\ s2.cancels = 0
        /\ s2.status = "open"
    BY <1>1, <2>1, <2>3, ZeroSlot DEF StateType, States
  <2> HIDE DEF s2
  <2>6. NoReceipt \in ReceiptType
    BY DEF NoReceipt, ReceiptType
  <2>7. /\ t \in TickType /\ t.plan = tick.plan /\ t.s = s2 /\ t.exit = NoReceipt
        /\ t.entry = tick.entry /\ t.reason = tick.reason
    BY <1>1, <2>4, <2>5, <2>6 DEF TickType
  <2>8. Follows(s2, quote)
    <3>1. tick.s.submitted \in Nat /\ quote \in Nat /\ MaxCancels \in Nat
      BY <1>0, <1>1, DecideReads, PlanAssumption DEF StateType
    <3> QED BY <1>1, <1>3, <2>1, <2>5, <3>1 DEF Fits, Follows
  <2>9. o[tick.s.exit].filled \in Nat /\ o[0].filled \in Nat /\ sold = tick.s.sold + o[tick.s.exit].filled
    BY <1>1, <2>2 DEF sold, OrderType
  <2>10. held = o[0].filled - sold
    BY <1>1, <1>3, <2>9 DEF Fits, Accounts, Selling
  <2>11. o[tick.s.exit].filled <= o[tick.s.exit].size
         /\ o[tick.s.exit].size <= o[0].filled - tick.s.sold
         /\ o[tick.s.exit].size \in Nat
    BY <1>1, <1>3, <2>2 DEF Books, Booked, Fits, Accounts, OrderType
  <2>12. sold < o[0].filled
    <3>1. tick.s.sold < o[0].filled
      BY <1>1, <1>3 DEF Fits, Accounts, Sells
    <3>2. Left(tick) # 0 \/ tick.entry.filled <= 0
      <4>1. ~SoldOut(tick) /\ ExitEnded(tick)
        BY <1>0, <1>3 DEF ExitEnded
      <4>2. tick.entry.filled \in Nat
        BY <1>1
      <4> QED BY <4>1, <4>2 DEF SoldOut
    <3>3. Left(tick) = o[0].filled - sold /\ tick.s.sold \in Nat
      <4>1. tick.entry.filled - Left(tick) = sold /\ tick.entry.filled = o[0].filled
        BY <2>2, <2>3
      <4>2. Left(tick) = tick.entry.filled - (tick.s.sold + tick.exit.filled)
        BY DEF Left
      <4>3. tick.entry.filled \in Nat /\ tick.s.sold \in Nat /\ tick.exit.filled \in Nat
        BY <1>1
      <4> QED BY <2>3, <4>1, <4>2, <4>3
    <3>4. tick.entry.filled = o[0].filled
      BY <2>2
    <3> QED BY <2>9, <2>11, <3>1, <3>2, <3>3, <3>4
  <2>13. \A n \in Slots : o[n].phase # "none" => Names(s2, n) /\ o[n].quote <= s2.submitted
    <3>1. \A n \in Slots : Names(tick.s, n) => Names(s2, n)
      BY <1>1, <2>1, <2>5 DEF Names, Slots
    <3> QED BY <1>1, <2>5, <3>1 DEF Fits, Accounts
  <2>14. \A n \in Sales : n <= s2.attempt => o[n].phase = "closed"
    BY <1>1, <2>1, <2>2, <2>5 DEF Fits, Accounts, Sales
  <2>15. ASSUME NEW n \in Sales PROVE c[n].cancels <= Cancels(s2, n)
    <3>1. n \in Nat /\ n # 0 /\ n \in Slots /\ c[n].cancels \in Nat /\ MaxCancels \in Nat /\ tick.s.cancels \in Nat
      BY <1>1, ZeroSlot, PlanAssumption DEF Sales, Books, CallType, StateType
    <3>2. c[n].cancels <= Cancels(tick.s, n) /\ tick.s.cancels <= MaxCancels
          /\ tick.s.cancelFor \in {0, tick.s.exit}
      BY <1>1 DEF Fits, Accounts, Follows
    <3> QED BY <1>1, <2>1, <2>5, <3>1, <3>2 DEF Cancels
  <2>16. Accounts(s2, o, held, c)
    <3>1. held = o[0].filled - s2.sold - Selling(s2, o)
      BY <2>3, <2>5, <2>9, <2>10 DEF Selling
    <3> QED BY <2>2, <2>5, <2>12, <2>13, <2>14, <2>15, <3>1 DEF Accounts
  <2>17. Left(t) = t.entry.filled - t.s.sold
    BY <1>1, <2>3, <2>5, <2>7 DEF Left, NoReceipt
  <2> QED BY <1>1, <2>3, <2>5, <2>7, <2>8, <2>16, <2>17 DEF Fits, TerminalStates
<1> QED BY <1>2, <1>3

\* The tick ends with the ended sale put away, under a status that is not final.
LEMMA EndsRetiredStep ==
  ASSUME PlanInv, Deciding, LocalStep, NEW status \in States \ TerminalStates,
         Ends([Retired(tick).s EXCEPT !.status = status])
  PROVE  PlanInv'
<1>a. PICK t : t = Retired(tick)
  OBVIOUS
<1> DEFINE s == [t.s EXCEPT !.status = status]
<1>1. /\ t.s \in StateType /\ t.s.entry = tick.s.entry
      /\ Fits(t.s, order[tick.plan], position[tick.plan], calls[tick.plan], quote)
  BY <1>a, RetiredFits
<1>2. SameBooks(t.s, s) /\ s.status = status /\ s \in StateType
  BY <1>1, StatusBooks DEF StateType, SameBooks
<1>3. ~At("idle") /\ tick.plan \in Plans /\ (tick.s.entry => Known(tick.plan, 0)) /\ Ends(s)
  BY <1>a, DecideReads DEF Deciding
<1> HIDE DEF s
<1>4. SavedFits(s, order[tick.plan], position[tick.plan], calls[tick.plan], quote)
  BY <1>1, <1>2, <1>3, KnownSaved
<1> QED BY <1>2, <1>3, <1>4, EndsStep

LEMMA WaitsStep == PlanInv /\ Waits => PlanInv'
<1> SUFFICES ASSUME PlanInv, Waits PROVE PlanInv'
    OBVIOUS
<1>a. PICK t : t = Retired(tick)
  OBVIOUS
<1>1. Deciding /\ LocalStep /\ Ends(t.s)
  BY <1>a DEF Waits, GoesOn
<1>2. /\ t.s \in StateType /\ t.s.entry = tick.s.entry /\ t.s.status \notin TerminalStates
      /\ Fits(t.s, order[tick.plan], position[tick.plan], calls[tick.plan], quote)
  BY <1>1, <1>a, RetiredFits
<1>3. SameBooks(t.s, t.s)
  BY <1>2 DEF SameBooks
<1>4. ~At("idle") /\ tick.plan \in Plans /\ (tick.s.entry => Known(tick.plan, 0))
  BY <1>1, DecideReads DEF Deciding
<1>5. SavedFits(t.s, order[tick.plan], position[tick.plan], calls[tick.plan], quote)
  BY <1>2, <1>3, <1>4, KnownSaved
<1> QED BY <1>1, <1>2, <1>4, <1>5, EndsStep

LEMMA ManageStep == PlanInv /\ Manage => PlanInv'
<1> SUFFICES ASSUME PlanInv, Manage PROVE PlanInv'
    OBVIOUS
<1>1. PICK status : status = IF tick.entry.open THEN "entry_submitted" ELSE "open"
  OBVIOUS
<1>2. status \in States \ TerminalStates
  BY <1>1 DEF States, TerminalStates
<1> QED BY <1>1, <1>2, EndsRetiredStep DEF Manage, GoesOn, EndsAs

\* A final state is saved when the plan is flat.
LEMMA EndsFlatStep ==
  ASSUME PlanInv, Deciding, LocalStep, NEW status \in States,
         Ends([Retired(tick).s EXCEPT !.status = status]),
         Flat(order[tick.plan], position[tick.plan])
  PROVE  PlanInv'
<1>a. PICK t : t = Retired(tick)
  OBVIOUS
<1> DEFINE s == [t.s EXCEPT !.status = status]
<1>1. /\ t.s \in StateType
      /\ Fits(t.s, order[tick.plan], position[tick.plan], calls[tick.plan], quote)
  BY <1>a, RetiredFits
<1>2. SameBooks(t.s, s) /\ s \in StateType
  BY <1>1, StatusBooks DEF SameBooks
<1>3. ~At("idle") /\ tick.plan \in Plans /\ Ends(s) /\ 0 \in Slots
  BY <1>a, DecideReads DEF Deciding
<1> HIDE DEF s
<1>4. Fits(s, order[tick.plan], position[tick.plan], calls[tick.plan], quote)
  BY <1>1, <1>2, SameFits
<1>5. SavedFits(s, order[tick.plan], position[tick.plan], calls[tick.plan], quote)
  BY <1>3, <1>4 DEF SavedFits, Flat
<1> QED BY <1>2, <1>3, <1>5, EndsStep

LEMMA EntryEndedStep == PlanInv /\ EntryEnded => PlanInv'
<1> SUFFICES ASSUME PlanInv, EntryEnded PROVE PlanInv'
    OBVIOUS
<1> DEFINE o == order[tick.plan]
           held == position[tick.plan]
<1>0. Deciding /\ NothingBought /\ LocalStep /\ At("decide")
  BY DEF EntryEnded, Deciding
<1>1. /\ tick.s \in StateType /\ 0 \in Slots /\ o \in [Slots -> OrderType]
      /\ Fits(tick.s, o, held, calls[tick.plan], quote) /\ ReadsOrders(tick, o)
      /\ tick.s.sold \in Nat /\ tick.s.attempt \in Nat
  BY <1>0, DecideReads DEF StateType, Slots
<1>2. o[0].phase = "closed" /\ o[0].filled = 0
  BY <1>0, <1>1 DEF NothingBought, ReadsOrders, Reads
<1>3. ~Sells(tick.s)
  BY <1>1, <1>2 DEF Fits, Accounts
<1>4. tick.s.attempt = 0 /\ tick.s.exit = 0 /\ tick.s.sold = 0
  BY <1>1, <1>3 DEF Sells, Fits, Follows
<1>5. held = 0
  BY <1>1, <1>2, <1>4 DEF Fits, Accounts, Selling
<1>6. \A n \in Slots : n # 0 => o[n].phase = "none"
  BY <1>1, <1>4 DEF Fits, Accounts, Names, Slots
<1>7. Flat(o, held)
  BY <1>2, <1>5, <1>6 DEF Flat
<1>8. PICK status \in {"expired", "rejected", "cancelled"} :
        Ends([Retired(tick).s EXCEPT !.status = status])
  BY DEF EntryEnded, EndsAs
<1>9. status \in States
  BY DEF States, TerminalStates
<1> QED BY <1>0, <1>7, <1>8, <1>9, EndsFlatStep

LEMMA NotEnteredStep == PlanInv /\ (EntryExpired \/ EntryInvalidated) => PlanInv'
<1> SUFFICES ASSUME PlanInv, EntryExpired \/ EntryInvalidated PROVE PlanInv'
    OBVIOUS
<1>1. Deciding /\ ~tick.s.entry /\ LocalStep /\ At("decide")
  BY DEF EntryExpired, EntryInvalidated, GoesOn, Deciding
<1>2. Flat(order[tick.plan], position[tick.plan])
  BY <1>1, DecideReads, NothingBefore
<1>3. PICK status \in {"expired", "invalidated"} :
        Ends([Retired(tick).s EXCEPT !.status = status])
  BY DEF EntryExpired, EntryInvalidated, EndsAs
<1>4. status \in States
  BY DEF States, TerminalStates
<1> QED BY <1>1, <1>2, <1>3, <1>4, EndsFlatStep

LEMMA CloseStep == PlanInv /\ Close => PlanInv'
<1> SUFFICES ASSUME PlanInv, Close PROVE PlanInv'
    OBVIOUS
<1> DEFINE o == order[tick.plan]
           held == position[tick.plan]
           s == [tick.s EXCEPT !.status = "closed"]
<1>0. At("decide") /\ SoldOut(tick) /\ LocalStep /\ Ends(s)
  BY DEF Close
<1>1. /\ tick.s \in StateType /\ 0 \in Slots /\ tick.s.exit \in Slots /\ o \in [Slots -> OrderType]
      /\ Fits(tick.s, o, held, calls[tick.plan], quote) /\ ReadsOrders(tick, o)
      /\ tick.s.sold \in Nat /\ tick.s.attempt \in Nat /\ tick.s.exit # 0 /\ ~tick.exit.open
      /\ Left(tick) = 0 /\ ~At("idle") /\ tick.plan \in Plans
  BY <1>0, DecideReads DEF StateType, Slots, SoldOut, ExitEnded
<1>2. /\ o[0].phase = "closed" /\ tick.entry.filled = o[0].filled
      /\ o[tick.s.exit].phase = "closed" /\ tick.exit.filled = o[tick.s.exit].filled
      /\ o[0].filled \in Nat /\ o[tick.s.exit].filled \in Nat
  BY <1>1 DEF ReadsOrders, Reads, Sells, Fits, Accounts, Follows, OrderType
<1>3. held = 0
  BY <1>1, <1>2 DEF Fits, Accounts, Selling, Left
<1>4. \A n \in Slots : o[n].phase \notin {"sent", "open"}
  <2>1. ASSUME NEW n \in Slots, o[n].phase \in {"sent", "open"} PROVE FALSE
    BY <1>1, <1>2, <2>1, OpenIsLast
  <2> QED BY <2>1
<1>5. s \in StateType /\ SameBooks(tick.s, s) /\ "closed" \in States
  BY <1>1, StatusBooks DEF SameBooks, States, TerminalStates
<1> HIDE DEF s
<1>6. Fits(s, o, held, calls[tick.plan], quote)
  BY <1>1, <1>5, SameFits
<1>7. SavedFits(s, o, held, calls[tick.plan], quote)
  BY <1>1, <1>3, <1>4, <1>6 DEF SavedFits, Flat
<1> QED BY <1>0, <1>1, <1>5, <1>7, EndsStep

-----------------------------------------------------------------------------
(* Submission *)

LEMMA AdmitEntryStep == PlanInv /\ AdmitEntry => PlanInv'
<1> SUFFICES ASSUME PlanInv, AdmitEntry PROVE PlanInv'
    OBVIOUS
<1>0. /\ At("decide") /\ ~tick.s.entry /\ LocalStep /\ UNCHANGED plan
      /\ ~UnresolvedDispatches(tick.plan)
      /\ tick' = [tick EXCEPT !.pc = "preview", !.slot = 0, !.size = Quantity[tick.plan]]
  BY DEF AdmitEntry, GoesOn, Deciding
<1>1. /\ tick \in TickType /\ tick.plan \in Plans /\ tick.s \in StateType /\ 0 \in Slots /\ ~At("idle")
      /\ Fits(tick.s, order[tick.plan], position[tick.plan], calls[tick.plan], quote)
      /\ tick.s.status \notin TerminalStates
  BY <1>0, DecideReads
<1>2. Quantity[tick.plan] \in Nat \ {0}
  BY <1>1, PlanAssumption
<1>3. /\ tick' \in TickType /\ tick'.plan = tick.plan /\ tick'.s = tick.s /\ tick'.pc = "preview"
      /\ tick'.slot = 0 /\ tick'.size = Quantity[tick.plan]
  BY <1>0, <1>1, <1>2 DEF TickType
<1>4. Prepares(tick', order[tick.plan], quote)
  BY <1>0, <1>1, <1>2, <1>3 DEF Prepares, Covers, Fits, Follows
<1>5. TickFits(tick', order[tick.plan], position[tick.plan], calls[tick.plan], quote)
  BY <1>1, <1>3, <1>4 DEF TickFits, Reading
<1> QED BY <1>0, <1>1, <1>3, <1>5, GoesOnStep, Running

LEMMA AdmitExitStep == PlanInv /\ AdmitExit => PlanInv'
<1> SUFFICES ASSUME PlanInv, AdmitExit PROVE PlanInv'
    OBVIOUS
<1> DEFINE o == order[tick.plan]
<1>a. PICK t : t = Retired(tick)
  OBVIOUS
<1>0. /\ Deciding /\ At("decide") /\ ~NothingBought /\ tick.s.entry /\ (tick.reason \/ tick.s.decided)
      /\ LocalStep /\ UNCHANGED plan /\ MayReplace(t.s) /\ t.s.submitted # quote
      /\ tick' = [t EXCEPT !.pc = "preview", !.slot = t.s.attempt + 1, !.size = SingleOrder(Left(t))]
  BY <1>a DEF AdmitExit, GoesOn, Deciding
<1>1. /\ tick \in TickType /\ tick.plan \in Plans /\ tick.s \in StateType /\ 0 \in Slots /\ ~At("idle")
      /\ ReadsOrders(tick, o) /\ o \in [Slots -> OrderType] /\ tick.pc = "decide"
      /\ quote \in 1..MaxQuotes /\ quote \in Nat
  BY <1>0, DecideReads
<1>2. /\ t \in TickType /\ t.plan = tick.plan /\ t.s \in StateType
      /\ t.s.exit = 0 /\ t.s.entry /\ t.s.status \notin TerminalStates
      /\ t.entry = tick.entry
      /\ t.s.sold \in Nat /\ Left(t) = t.entry.filled - t.s.sold
      /\ Fits(t.s, o, position[tick.plan], calls[tick.plan], quote)
  BY <1>0, <1>a, RetiredFits
<1>3. o[0].phase = "closed" /\ tick.entry.filled = o[0].filled /\ ~tick.entry.open
      /\ o[0].filled \in Nat /\ o[0].filled > 0
  <2>1. ~tick.entry.open
    BY <1>0, <1>1 DEF ReadsOrders
  <2>2. o[0].phase = "closed" /\ tick.entry.filled = o[0].filled /\ o[0].filled \in Nat
    BY <1>0, <1>1, <2>1 DEF ReadsOrders, Reads, OrderType
  <2>3. tick.entry.filled # 0
    BY <1>0, <2>1 DEF NothingBought
  <2> QED BY <2>1, <2>2, <2>3
<1>4. t.s.sold < o[0].filled
  <2>1. CASE t.s.attempt = 0
    BY <1>2, <1>3, <2>1 DEF Fits, Follows
  <2>2. CASE t.s.attempt # 0
    <3>1. Sells(t.s)
      BY <1>2, <2>2 DEF Sells, StateType, Slots
    <3> QED BY <1>2, <3>1 DEF Fits, Accounts
  <2> QED BY <2>1, <2>2
<1>5. /\ Left(t) = o[0].filled - t.s.sold /\ Left(t) \in Nat \ {0}
      /\ SingleOrder(Left(t)) \in 1..Left(t)
  <2>1. Left(t) = o[0].filled - t.s.sold /\ Left(t) \in Nat \ {0}
    BY <1>2, <1>3, <1>4
  <2> QED BY <2>1, SingleOrderBounds
<1>6. t.s.attempt + 1 \in Slots /\ t.s.submitted < quote
  <2>1. /\ t.s.attempt \in Nat /\ t.s.submitted \in Nat /\ t.s.attempt + 1 <= t.s.submitted
        /\ t.s.submitted <= quote
    BY <1>2 DEF Fits, Follows, StateType, Slots
  <2>2. quote <= MaxQuotes /\ MaxQuotes \in Nat
    BY <1>1, ZeroSlot
  <2> QED BY <1>0, <1>1, <2>1, <2>2 DEF Slots
<1> DEFINE size == SingleOrder(Left(t))
<1>7. size \in Nat /\ size > 0 /\ size <= o[0].filled - t.s.sold
  BY <1>5
<1>8. tick' = [t EXCEPT !.pc = "preview", !.slot = t.s.attempt + 1, !.size = size]
  BY <1>0
<1> HIDE DEF size
<1>9. /\ tick' \in TickType /\ tick'.plan = tick.plan /\ tick'.s = t.s /\ tick'.pc = "preview"
      /\ tick'.slot = t.s.attempt + 1 /\ tick'.size = size
  BY <1>2, <1>6, <1>7, <1>8 DEF TickType
<1>10. t.s.attempt + 1 # 0
  BY <1>2 DEF StateType, Slots
<1>11. Prepares(tick', o, quote)
  BY <1>0, <1>2, <1>3, <1>6, <1>7, <1>9, <1>10 DEF Prepares, Covers
<1>12. TickFits(tick', o, position[tick.plan], calls[tick.plan], quote)
  BY <1>2, <1>9, <1>11 DEF TickFits, Reading
<1> QED BY <1>0, <1>1, <1>9, <1>10, <1>12, GoesOnStep, Running

\* Before it is submitted the order has left no trace, and the purchase is not on its way.
LEMMA PreviewFits ==
  ASSUME PlanInv, At("preview")
  PROVE  /\ ~At("idle") /\ tick \in TickType /\ tick.plan \in Plans /\ tick.s \in StateType
         /\ tick.slot \in Slots /\ 0 \in Slots /\ tick.size \in Nat /\ quote \in Nat
         /\ tick.s.status \notin TerminalStates
         /\ Fits(tick.s, order[tick.plan], position[tick.plan], calls[tick.plan], quote)
         /\ Books(order[tick.plan], calls[tick.plan])
         /\ Prepares(tick, order[tick.plan], quote)
         /\ tick.slot = 0 => ~UnresolvedDispatches(tick.plan)
         /\ order[tick.plan][0].phase # "sent"
         /\ order[tick.plan][tick.slot].phase = "none"
         /\ \A n \in Slots : order[tick.plan][n].phase # "none" => order[tick.plan][n].quote < quote
<1> DEFINE o == order[tick.plan]
<1>0. tick.pc = "preview" /\ ~At("idle")
  BY DEF At
<1>1. /\ tick \in TickType /\ tick.plan \in Plans /\ tick.s \in StateType
      /\ tick.slot \in Slots /\ 0 \in Slots /\ tick.size \in Nat /\ quote \in Nat
      /\ tick.s.status \notin TerminalStates
      /\ Fits(tick.s, o, position[tick.plan], calls[tick.plan], quote)
      /\ Books(o, calls[tick.plan]) /\ o \in [Slots -> OrderType]
      /\ Prepares(tick, o, quote)
      /\ tick.slot = 0 => ~UnresolvedDispatches(tick.plan)
  BY <1>0, Running, ZeroSlot DEF TickFits, TickType
<1>2. CASE tick.slot = 0
  <2>1. \A n \in Slots : o[n].phase = "none"
    BY <1>1, <1>2, NothingBefore DEF Prepares
  <2> QED BY <1>0, <1>1, <1>2, <2>1
<1>3. CASE tick.slot # 0
  <2>1. o[0].phase = "closed" /\ tick.slot = tick.s.attempt + 1 /\ tick.s.exit = 0
        /\ tick.s.submitted < quote /\ tick.s.attempt \in Nat /\ tick.s.submitted \in Nat
    BY <1>1, <1>3 DEF Prepares, Covers, StateType, Slots
  <2>2. ~Names(tick.s, tick.slot)
    BY <1>3, <2>1 DEF Names
  <2>3. o[tick.slot].phase = "none"
    BY <1>1, <2>2 DEF Fits, Accounts
  <2>4. \A n \in Slots : o[n].phase # "none" => o[n].quote < quote
    BY <1>1, <2>1 DEF Fits, Accounts, OrderType
  <2> QED BY <1>0, <1>1, <1>3, <2>1, <2>3, <2>4
<1> QED BY <1>2, <1>3

LEMMA PreviewRefusedStep == PlanInv /\ PreviewRefused => PlanInv'
<1> SUFFICES ASSUME PlanInv, PreviewRefused PROVE PlanInv'
    OBVIOUS
<1>1. PICK status \in {tick.s.status, "open"} : Ends([tick.s EXCEPT !.status = status])
  BY DEF PreviewRefused
<1> DEFINE s == [tick.s EXCEPT !.status = status]
<1>2. At("preview") /\ LocalStep
  BY DEF PreviewRefused
<1>3. status \in States \ TerminalStates
  BY <1>2, PreviewFits DEF StateType, States, TerminalStates
<1>4. SameBooks(tick.s, s) /\ s \in StateType /\ s.status = status
  BY <1>2, <1>3, PreviewFits, StatusBooks DEF SameBooks, StateType
<1>5. Ends(s)
  BY <1>1
<1> HIDE DEF s
<1>6. SavedFits(s, order[tick.plan], position[tick.plan], calls[tick.plan], quote)
  BY <1>2, <1>3, <1>4, PreviewFits, SameSaved
<1> QED BY <1>2, <1>4, <1>5, <1>6, PreviewFits, EndsStep

\* The intent names the order that is about to be sent.
LEMMA IntentNames ==
  ASSUME PlanInv, At("preview"), NEW s, s = Intent(tick)
  PROVE  /\ s \in StateType /\ s.submitted = quote /\ s.sold = tick.s.sold
         /\ s.status \notin TerminalStates
         /\ tick.slot = 0 => s.status \in Unresolved /\ s.entry /\ s.exit = 0
         /\ tick.slot # 0 => s.entry /\ s.exit = tick.slot
         /\ Fits(s, order[tick.plan], position[tick.plan], calls[tick.plan], quote)
<1> DEFINE o == order[tick.plan]
           c == calls[tick.plan]
           held == position[tick.plan]
<1>1. /\ tick.s \in StateType /\ tick.slot \in Slots /\ 0 \in Slots /\ quote \in Nat
      /\ Fits(tick.s, o, held, c, quote) /\ Books(o, c) /\ Prepares(tick, o, quote)
      /\ o[tick.slot].phase = "none"
      /\ \A n \in Slots : o[n].phase # "none" => o[n].quote < quote
      /\ o \in [Slots -> OrderType] /\ held \in Int
  BY PreviewFits, Running
<1>2. /\ tick.s.exit = 0 /\ tick.s.cancelFor = 0 /\ tick.s.attempt \in Nat /\ tick.s.submitted \in Nat
      /\ tick.s.replaced \in Nat /\ tick.s.cancels \in Nat /\ tick.s.sold \in Nat
  BY <1>1 DEF Prepares, Fits, Follows, StateType, Slots
<1>3. \A n \in Sales : n \in Slots /\ n \in Nat /\ n # 0
  BY ZeroSlot DEF Sales
<1>4. CASE tick.slot = 0
  <2>1. ~tick.s.entry /\ tick.s.attempt = 0 /\ tick.s.sold = 0
    BY <1>1, <1>4 DEF Prepares, Fits, Follows
  <2>2. s = [tick.s EXCEPT !.status = "entry_dispatching", !.entry = TRUE, !.submitted = quote]
    BY <1>4 DEF Intent
  <2>3. /\ s \in StateType /\ s.status = "entry_dispatching" /\ s.entry /\ s.submitted = quote
        /\ s.exit = 0 /\ s.attempt = 0 /\ s.sold = 0 /\ s.replaced = tick.s.replaced
        /\ s.cancelFor = 0 /\ s.cancels = tick.s.cancels
    BY <1>1, <1>2, <2>1, <2>2 DEF StateType, States, Unresolved
  <2>4. 1 <= quote
    BY QuoteType, ZeroSlot
  <2>5. Follows(s, quote)
    BY <1>1, <1>2, <2>3, <2>4 DEF Fits, Follows
  <2>6. \A n \in Slots : o[n].phase = "none" /\ o[n].filled = 0
    BY <1>1, <2>1, NothingBefore
  <2>7. held = 0
    BY <1>1, <2>1, NothingBefore DEF Flat
  <2>8. \A n \in Sales : c[n].cancels <= Cancels(s, n)
    BY <1>1, <1>2, <1>3, <2>1, <2>3 DEF Fits, Accounts, Cancels
  <2>9. Accounts(s, o, held, c)
    BY <1>1, <2>3, <2>6, <2>7, <2>8, <1>3 DEF Accounts, Sells, Selling
  <2> QED BY <1>4, <2>1, <2>3, <2>5, <2>9 DEF Fits, TerminalStates, Unresolved
<1>5. CASE tick.slot # 0
  <2>1. /\ tick.s.entry /\ tick.slot = tick.s.attempt + 1 /\ tick.s.submitted < quote
        /\ MayReplace(tick.s) /\ o[0].phase = "closed"
        /\ tick.size > 0 /\ tick.size <= o[0].filled - tick.s.sold /\ tick.size \in Nat
        /\ o[0].filled \in Nat
    BY <1>1, <1>5, PreviewFits DEF Prepares, Covers, OrderType
  <2> DEFINE replaced == IF tick.s.retry THEN tick.s.replaced + 1 ELSE tick.s.replaced
  <2>2. s = [tick.s EXCEPT !.status = "exit_dispatching", !.exit = tick.slot, !.submitted = quote,
                           !.replaced = replaced, !.retry = FALSE]
    BY <1>5 DEF Intent
  <2>3. replaced \in Nat /\ (HasPolicy => replaced <= MaxReplacements)
    BY <1>1, <1>2, <2>1, PlanAssumption DEF MayReplace, Fits, Follows
  <2> HIDE DEF replaced
  <2>4. /\ s \in StateType /\ s.status = "exit_dispatching" /\ s.entry = tick.s.entry
        /\ s.submitted = quote /\ s.exit = tick.slot /\ s.attempt = tick.s.attempt
        /\ s.sold = tick.s.sold /\ s.replaced = replaced
        /\ s.cancelFor = 0 /\ s.cancels = tick.s.cancels
    BY <1>1, <1>2, <2>2, <2>3 DEF StateType, States, Unresolved
  <2>5. tick.s.attempt + 1 <= tick.s.submitted
    BY <1>1, <2>1 DEF Fits, Follows
  <2>6. Follows(s, quote)
    <3>1. s.attempt + 2 <= quote /\ s.attempt + 1 <= quote
      BY <1>1, <1>2, <2>1, <2>4, <2>5
    <3> QED BY <1>1, <2>1, <2>3, <2>4, <3>1 DEF Fits, Follows
  <2>7. tick.s.sold < o[0].filled
    BY <1>2, <2>1
  <2>8. \A n \in Slots : o[n].phase # "none" => Names(s, n) /\ o[n].quote <= s.submitted
    <3>1. \A n \in Slots : Names(tick.s, n) => Names(s, n)
      BY <1>2, <2>1, <2>4 DEF Names
    <3>2. \A n \in Slots : o[n].quote \in Nat
      BY <1>1 DEF OrderType
    <3> QED BY <1>1, <2>4, <3>1, <3>2 DEF Fits, Accounts
  <2>9. held = o[0].filled - s.sold - Selling(s, o)
    <3>1. held = o[0].filled - tick.s.sold - 0
      BY <1>1, <1>2 DEF Fits, Accounts, Selling
    <3>2. Selling(s, o) = 0
      BY <1>1, <1>5, <2>4 DEF Selling, Books, Booked
    <3> QED BY <2>4, <3>1, <3>2
  <2>10. \A n \in Sales : c[n].cancels <= Cancels(s, n)
    BY <1>1, <1>2, <1>3, <2>4 DEF Fits, Accounts, Cancels
  <2>11. \A n \in Sales : n <= s.attempt => o[n].phase = "closed"
    BY <1>1, <2>4 DEF Fits, Accounts
  <2>12. Accounts(s, o, held, c)
    BY <1>1, <2>1, <2>4, <2>7, <2>8, <2>9, <2>10, <2>11 DEF Accounts
  <2> QED BY <1>5, <2>1, <2>4, <2>6, <2>12 DEF Fits, TerminalStates
<1> QED BY <1>4, <1>5

LEMMA DispatchStep == PlanInv /\ Dispatch => PlanInv'
<1> SUFFICES ASSUME PlanInv, Dispatch PROVE PlanInv'
    OBVIOUS
<1>a. PICK s : s = Intent(tick)
  OBVIOUS
<1>0. /\ At("preview") /\ LocalStep /\ Saves(s)
      /\ tick' = [tick EXCEPT !.s = s, !.pc = "submit"]
  BY <1>a DEF Dispatch, SavesIntent
<1>1. /\ tick \in TickType /\ tick.plan \in Plans /\ ~At("idle") /\ tick.slot \in Slots
      /\ Prepares(tick, order[tick.plan], quote)
      /\ tick.slot = 0 => ~UnresolvedDispatches(tick.plan)
      /\ order[tick.plan][0].phase # "sent"
      /\ order[tick.plan][tick.slot].phase = "none"
      /\ \A n \in Slots : order[tick.plan][n].phase # "none" => order[tick.plan][n].quote < quote
  BY <1>0, PreviewFits
<1>2. /\ s \in StateType /\ s.submitted = quote /\ s.sold = tick.s.sold
      /\ s.status \notin TerminalStates
      /\ tick.slot = 0 => s.status \in Unresolved /\ s.entry
      /\ tick.slot # 0 => s.entry /\ s.exit = tick.slot
      /\ Fits(s, order[tick.plan], position[tick.plan], calls[tick.plan], quote)
  BY <1>0, <1>a, IntentNames
<1>3. SavedFits(s, order[tick.plan], position[tick.plan], calls[tick.plan], quote)
  BY <1>1, <1>2 DEF SavedFits
<1>4. /\ tick' \in TickType /\ tick'.plan = tick.plan /\ tick'.s = s /\ tick'.pc = "submit"
      /\ tick'.slot = tick.slot /\ tick'.size = tick.size
  BY <1>0, <1>1, <1>2 DEF TickType
<1>5. Submits(tick', order[tick.plan], quote)
  <2>1. Covers(tick', order[tick.plan])
    BY <1>1, <1>2, <1>4 DEF Prepares, Covers
  <2> QED BY <1>1, <1>2, <1>4, <2>1 DEF Submits, Names
<1>6. TickFits(tick', order[tick.plan], position[tick.plan], calls[tick.plan], quote)
  BY <1>2, <1>4, <1>5 DEF TickFits, Reading
<1> QED BY <1>0, <1>1, <1>2, <1>3, <1>4, <1>6, GoesOnStep

LEMMA SubmitStep == PlanInv /\ Submit => PlanInv'
<1> SUFFICES ASSUME PlanInv, Submit PROVE PlanInv'
    OBVIOUS
<1> DEFINE p  == tick.plan
           n  == tick.slot
           o  == order[p]
           c  == calls[p]
           s  == tick.s
           held == position[p]
           new == [NoOrder EXCEPT !.phase = "sent", !.size = tick.size, !.quote = quote]
           o2 == [o EXCEPT ![n] = new]
           c2 == [c EXCEPT ![n].submits = @ + 1]
<1>0. tick.pc = "submit" /\ ~At("idle") /\ BrokerStep /\ UNCHANGED position
      /\ tick' = [tick EXCEPT !.pc = "receipt"]
  BY DEF Submit, At
<1>1. /\ tick \in TickType /\ p \in Plans /\ n \in Slots /\ s \in StateType /\ 0 \in Slots
      /\ plan[p] = s /\ s.status \notin TerminalStates /\ held \in Int /\ quote \in Nat
      /\ tick.size \in Nat /\ s.sold \in Nat /\ s.exit \in Slots
      /\ Fits(s, o, held, c, quote) /\ Books(o, c) /\ Submits(tick, o, quote)
      /\ o \in [Slots -> OrderType] /\ c \in [Slots -> CallType]
      /\ n = 0 => ~UnresolvedDispatches(p)
      /\ SavedFits(s, o, held, c, quote)
  BY <1>0, Running, ZeroSlot DEF TickFits, TickType, StateType
<1>2. /\ new \in OrderType /\ new.phase = "sent" /\ new.size = tick.size /\ new.filled = 0
      /\ new.quote = quote
  BY <1>1 DEF NoOrder, OrderType
<1>3. order' = [order EXCEPT ![p] = o2] /\ calls' = [calls EXCEPT ![p] = c2]
  BY <1>1 DEF Submit, Submits, PlanInv, StoreType
<1> HIDE DEF new
<1>4. /\ o2 \in [Slots -> OrderType] /\ o2[n] = new
      /\ \A m \in Slots \ {n} : o2[m] = o[m]
  BY <1>1, <1>2
<1>5. /\ c2 \in [Slots -> CallType] /\ c2[n].submits = c[n].submits + 1
      /\ \A m \in Slots \ {n} : c2[m] = c[m]
      /\ \A m \in Slots : c2[m].cancels = c[m].cancels
  BY <1>1 DEF CallType
<1> HIDE DEF o2, c2
<1>6. /\ o[n].phase = "none" /\ o[n].filled = 0 /\ c[n].submits = 0 /\ tick.size > 0
      /\ \A m \in Slots : o[m].phase # "none" => o[m].quote < quote
      /\ s.submitted = quote
  BY <1>1, PlanAssumption DEF Submits, Covers, Books, Booked
<1>7. Books(o2, c2)
  <2>1. Booked(o2[n], c2[n])
    BY <1>1, <1>2, <1>4, <1>5, <1>6 DEF Booked
  <2>2. \A m \in Slots : Booked(o2[m], c2[m])
    BY <1>1, <1>4, <1>5, <2>1 DEF Books
  <2>3. \A m \in Slots \ {n} : o[m].quote \in Nat
    BY <1>1 DEF OrderType
  <2>4. \A m \in Slots \ {n} : o2[m].phase # "none" => o2[m].quote # o2[n].quote
    BY <1>1, <1>2, <1>4, <1>6, <2>3
  <2>5. \A m, k \in Slots : m # k /\ o2[m].phase # "none" /\ o2[k].phase # "none"
                              => o2[m].quote # o2[k].quote
    BY <1>1, <1>4, <2>4 DEF Books
  <2> QED BY <1>4, <1>5, <2>2, <2>5 DEF Books
<1>8. Fits(s, o2, held, c2, quote)
  <2>0. \A m \in Slots : o2[m].filled = o[m].filled /\ (o[m].phase = "closed" => o2[m] = o[m])
    BY <1>2, <1>4, <1>6
  <2>1. Sells(s) => o2[0].phase = "closed" /\ s.sold < o2[0].filled
    BY <1>1, <2>0 DEF Fits, Accounts
  <2>2. \A m \in Slots : o2[m].phase # "none" => Names(s, m) /\ o2[m].quote <= s.submitted
    BY <1>1, <1>2, <1>4, <1>6 DEF Fits, Accounts, Submits
  <2>3. \A m \in Sales : m <= s.attempt => o2[m].phase = "closed"
    BY <1>1, <2>0, ZeroSlot DEF Fits, Accounts
  <2>4. s.exit # 0 /\ o2[s.exit].phase # "none" => o2[s.exit].size <= o2[0].filled - s.sold
    <3>1. CASE s.exit = n /\ n # 0
      BY <1>1, <1>2, <1>4, <2>0, <3>1 DEF Submits, Covers
    <3>2. CASE s.exit # n
      BY <1>1, <1>4, <2>0, <3>2 DEF Fits, Accounts
    <3> QED BY <3>1, <3>2
  <2>5. held = o2[0].filled - s.sold - Selling(s, o2)
    BY <1>1, <2>0 DEF Fits, Accounts, Selling
  <2>6. \A m \in Sales : c2[m].cancels <= Cancels(s, m)
    BY <1>1, <1>5, ZeroSlot DEF Fits, Accounts
  <2>7. Accounts(s, o2, held, c2)
    BY <2>1, <2>2, <2>3, <2>4, <2>5, <2>6 DEF Accounts
  <2> QED BY <1>1, <2>7 DEF Fits
<1>9. o2[0].phase = "sent" => o[0].phase = "sent" \/ n = 0
  BY <1>1, <1>4
<1>10. SavedFits(plan[p], o2, held, c2, quote)
  BY <1>1, <1>8, <1>9 DEF SavedFits, Submits
<1>11. /\ tick' \in TickType /\ tick'.plan = p /\ tick'.s = s /\ tick'.pc = "receipt"
       /\ tick'.slot = n
  BY <1>0, <1>1 DEF TickType
<1>12. TickFits(tick', o2, held, c2, quote)
  BY <1>1, <1>8, <1>11 DEF TickFits, Submits, Reading
<1> QED BY <1>0, <1>1, <1>3, <1>7, <1>9, <1>10, <1>11, <1>12, RequestStep

LEMMA SubmitAnsweredStep == PlanInv /\ SubmitAnswered => PlanInv'
<1> SUFFICES ASSUME PlanInv, SubmitAnswered PROVE PlanInv'
    OBVIOUS
<1> DEFINE s == [tick.s EXCEPT !.matched = quote,
                   !.status = IF tick.slot = 0 THEN "entry_submitted" ELSE "exit_submitted"]
<1>0. tick.pc = "receipt" /\ ~At("idle") /\ LocalStep /\ Ends(s) /\ Known(tick.plan, tick.slot)
  BY DEF SubmitAnswered, At
<1>1. /\ tick.plan \in Plans /\ tick.s \in StateType /\ quote \in Nat
      /\ Fits(tick.s, order[tick.plan], position[tick.plan], calls[tick.plan], quote)
      /\ tick.slot = 0 \/ tick.s.exit = tick.slot
  BY <1>0, Running DEF TickFits
<1>2. SameBooks(tick.s, s) /\ s \in StateType /\ s.status \notin TerminalStates
  <2> DEFINE status == IF tick.slot = 0 THEN "entry_submitted" ELSE "exit_submitted"
  <2>1. status \in States \ TerminalStates /\ s = [tick.s EXCEPT !.matched = quote, !.status = status]
    BY DEF States, TerminalStates
  <2> HIDE DEF status, s
  <2> QED BY <1>1, <2>1 DEF SameBooks, StateType
<1> HIDE DEF s
<1>3. Known(tick.plan, 0)
  <2>1. CASE tick.slot = 0
    BY <1>0, <2>1
  <2>2. CASE tick.slot # 0
    BY <1>1, <2>2 DEF Fits, Accounts, Sells, Known
  <2> QED BY <2>1, <2>2
<1>4. SavedFits(s, order[tick.plan], position[tick.plan], calls[tick.plan], quote)
  BY <1>1, <1>2, <1>3, KnownSaved
<1> QED BY <1>0, <1>2, <1>4, EndsStep

-----------------------------------------------------------------------------
(* The theorems *)

LEMMA ContinueStep == PlanInv /\ Continue => PlanInv'
<1> SUFFICES ASSUME PlanInv, Continue PROVE PlanInv'
    OBVIOUS
<1>1. CASE ReadMissing \/ (\E hit, expired, admitted \in BOOLEAN : Read(hit, expired, admitted)) \/ Observe
  BY <1>1, ReadMissingStep, ReadStep, ObserveStep
<1>2. CASE CancelEntry \/ CancelExit \/ CancelRefused \/ EntryCancelAnswered \/ ExitCancelAnswered
  BY <1>2, CancelEntryStep, CancelExitStep, CancelRefusedStep, CancelAnsweredStep
<1>3. CASE Close \/ ExitRests \/ TryCancel
  BY <1>3, CloseStep, ExitRestsStep, TryCancelStep
<1>4. CASE EntryEnded \/ EntryExpired \/ Waits \/ EntryInvalidated
  BY <1>4, EntryEndedStep, NotEnteredStep, WaitsStep
<1>5. CASE AdmitEntry \/ Manage \/ AdmitExit
  BY <1>5, AdmitEntryStep, ManageStep, AdmitExitStep
<1>6. CASE PreviewRefused \/ Dispatch \/ Submit \/ SubmitAnswered \/ SubmitUncertain
  BY <1>6, PreviewRefusedStep, DispatchStep, SubmitStep, SubmitAnsweredStep, SubmitUncertainStep
<1> QED BY <1>1, <1>2, <1>3, <1>4, <1>5, <1>6 DEF Continue

LEMMA PlanStep == PlanInv /\ [PlanNext]_planVars => PlanInv'
<1> SUFFICES ASSUME PlanInv, [PlanNext]_planVars PROVE PlanInv'
    OBVIOUS
<1>1. ASSUME NEW p \in Plans, StartTick(p) PROVE PlanInv'
  BY <1>1, CancelBeforeEntryStep, BeginStep DEF StartTick
<1>2. ASSUME Environment PROVE PlanInv'
  <2>1. ASSUME NEW p \in Plans, NEW n \in Slots, Accept(p, n) \/ Fill(p, n) \/ Expire(p, n) PROVE PlanInv'
    BY <2>1, AcceptStep, FillStep, ExpireStep
  <2> QED BY <1>2, <2>1, HostStep DEF Environment
<1> QED BY <1>1, <1>2, ContinueStep, InterruptStep, HostStep DEF PlanNext

\* A plan and what the broker has received for it account for one another, whatever
\* ticks are interrupted and however the broker answers.
THEOREM PlansAccount == PlanSpec => []PlanInv
BY PlanInit0, PlanStep, PTL DEF PlanSpec

\* The records of the store keep their fields, the sale in progress follows the ended
\* attempts and the replacement budget of the policy is kept.
THEOREM PlanTypes == PlanSpec => []PlanTypeOK
<1>1. PlanInv => PlanTypeOK
  BY DEF PlanInv, StoreType, SavedFits, Fits, Follows, PlanTypeOK
<1> QED BY <1>1, PlansAccount, PTL

\* tick: the next order of a plan waits until the broker has closed the one before.
THEOREM NoSecondLiveOrder == PlanSpec => []OneLiveOrder
<1>1. PlanInv => OneLiveOrder
  <2> SUFFICES ASSUME PlanInv, NEW p \in Plans, NEW m \in Slots, NEW n \in Slots,
                      Live(p, m), Live(p, n)
               PROVE  m = n
      BY DEF OneLiveOrder
  <2>1. plan[p] \in StateType /\ Fits(plan[p], order[p], position[p], calls[p], quote)
    BY DEF PlanInv, StoreType, SavedFits
  <2>2. \A k \in {m, n} : (k = 0 => plan[p].exit = 0) /\ (k # 0 => plan[p].exit = k)
    BY <2>1, OpenIsLast DEF Live
  <2> QED BY <2>2
<1> QED BY <1>1, PlansAccount, PTL

\* tick: sales never exceed what the plan has bought, over partial fills, retries and
\* restarts.
THEOREM CoveredSales == PlanSpec => []SalesAreCovered
<1>1. PlanInv => SalesAreCovered
  <2> SUFFICES ASSUME PlanInv, NEW p \in Plans
               PROVE  /\ position[p] >= 0
                      /\ \A n \in Sales : Live(p, n)
                           => order[p][n].size - order[p][n].filled <= position[p]
      BY DEF SalesAreCovered
  <2> DEFINE o == order[p]
             s == plan[p]
  <2>1. /\ s \in StateType /\ Fits(s, o, position[p], calls[p], quote) /\ Books(o, calls[p])
        /\ o \in [Slots -> OrderType] /\ position[p] \in Int /\ 0 \in Slots /\ s.exit \in Slots
        /\ s.sold \in Nat /\ s.attempt \in Slots
    BY ZeroSlot DEF PlanInv, StoreType, SavedFits, StateType
  <2>2. /\ \A n \in Slots : o[n].filled \in Nat /\ o[n].size \in Nat /\ o[n].filled <= o[n].size
        /\ \A n \in Slots : o[n].phase = "none" => o[n].filled = 0
    BY <2>1 DEF Books, Booked, OrderType
  <2>3. CASE s.exit = 0
    <3>1. position[p] = o[0].filled - s.sold
      BY <2>1, <2>2, <2>3 DEF Fits, Accounts, Selling
    <3>2. s.sold <= o[0].filled
      <4>1. CASE s.attempt = 0
        BY <2>1, <2>2, <4>1 DEF Fits, Follows
      <4>2. CASE s.attempt # 0
        BY <2>1, <2>2, <4>2 DEF Fits, Accounts, Sells, Slots
      <4> QED BY <4>1, <4>2
    <3>3. \A n \in Sales : n \in Slots /\ n # 0 /\ ~Live(p, n)
      BY <2>1, <2>3, OpenIsLast, ZeroSlot DEF Live, Sales
    <3> QED BY <2>1, <2>2, <3>1, <3>2, <3>3
  <2>4. CASE s.exit # 0
    <3>1. /\ position[p] = o[0].filled - s.sold - o[s.exit].filled
          /\ s.sold < o[0].filled
          /\ o[s.exit].phase # "none" => o[s.exit].size <= o[0].filled - s.sold
      BY <2>1, <2>4 DEF Fits, Accounts, Selling, Sells
    <3>2. \A n \in Sales : Live(p, n) => n = s.exit
      BY <2>1, OpenIsLast, ZeroSlot DEF Live, Sales
    <3>3. o[s.exit].filled \in Nat /\ o[s.exit].size \in Nat /\ o[0].filled \in Nat
          /\ o[s.exit].filled <= o[s.exit].size /\ (o[s.exit].phase = "none" => o[s.exit].filled = 0)
      BY <2>1, <2>2
    <3>4. position[p] >= 0 /\ (o[s.exit].phase # "none" => o[s.exit].size - o[s.exit].filled <= position[p])
      BY <2>1, <3>1, <3>3
    <3> QED BY <3>2, <3>4 DEF Live
  <2> QED BY <2>3, <2>4
<1> QED BY <1>1, PlansAccount, PTL

\* tick: a plan in a final state holds nothing and leaves nothing at the broker.
THEOREM FlatAtTheEnd == PlanSpec => []EndedIsFlat
<1>1. PlanInv => EndedIsFlat
  BY DEF PlanInv, SavedFits, Flat, EndedIsFlat, Live
<1> QED BY <1>1, PlansAccount, PTL

\* What the broker receives for a plan is counted: every order once, a bounded number
\* of cancellations of a sale, one order per observation.
THEOREM CountedRequests == PlanSpec => []RequestsAreCounted
<1>1. PlanInv => RequestsAreCounted
  <2> SUFFICES ASSUME PlanInv PROVE SubmittedOnce /\ CancelsAreBounded /\ OneOrderPerQuote
      BY DEF RequestsAreCounted
  <2>1. \A p \in Plans : Books(order[p], calls[p])
    BY DEF PlanInv
  <2>2. SubmittedOnce
    BY <2>1 DEF SubmittedOnce, Books, Booked
  <2>3. OneOrderPerQuote
    BY <2>1 DEF OneOrderPerQuote, Books
  <2>4. ASSUME NEW p \in Plans, NEW n \in Sales PROVE calls[p][n].cancels <= MaxCancels
    <3>1. plan[p] \in StateType /\ Fits(plan[p], order[p], position[p], calls[p], quote)
          /\ calls[p] \in [Slots -> CallType] /\ n \in Slots
      BY ZeroSlot DEF PlanInv, StoreType, SavedFits
    <3>2. /\ calls[p][n].cancels <= Cancels(plan[p], n) /\ plan[p].cancels <= MaxCancels
          /\ calls[p][n].cancels \in Nat /\ plan[p].cancels \in Nat /\ MaxCancels \in Nat
      BY <3>1, PlanAssumption DEF Fits, Accounts, Follows, StateType, CallType
    <3>3. Cancels(plan[p], n) \in {MaxCancels, plan[p].cancels, 0}
      BY DEF Cancels
    <3> QED BY <3>2, <3>3
  <2> QED BY <2>2, <2>3, <2>4 DEF CancelsAreBounded
<1> QED BY <1>1, PlansAccount, PTL

\* unresolved_dispatches: while the acceptance of a purchase is unknown, no other plan
\* of the account enters.
THEOREM SinglePurchaseInDoubt == PlanSpec => []OneEntryInDoubt
<1>1. PlanInv => OneEntryInDoubt
  BY DEF PlanInv
<1> QED BY <1>1, PlansAccount, PTL

-----------------------------------------------------------------------------
(* The lifecycle of a plan: every step of the ticks, of the broker and of the host *)
(* is a step of PlanLifecycle, or none                                             *)

\* The live orders among the orders o of one plan.
LiveSet(o) == {LiveOrder(o, n) : n \in {m \in Slots : o[m].phase \in {"sent", "open"}}}

LEMMA LiveOrdersOf == \A p \in Plans : LiveOrders(p) = LiveSet(order[p])
BY DEF LiveOrders, LiveSet, Live

LEMMA LiveOrdersNext == \A p \in Plans : LiveOrders(p)' = LiveSet(order'[p])
BY DEF LiveOrders, LiveSet, Live

LEMMA SingleLive ==
  ASSUME NEW o, NEW s \in StateType, NEW held, NEW c, NEW now, Fits(s, o, held, c, now),
         NEW n \in Slots, o[n].phase \in {"sent", "open"}
  PROVE  LiveSet(o) = {LiveOrder(o, n)}
<1>1. ASSUME NEW m \in Slots, o[m].phase \in {"sent", "open"} PROVE m = n
  <2>1. (m = 0 => s.exit = 0) /\ (m # 0 => s.exit = m)
    BY <1>1, OpenIsLast
  <2>2. (n = 0 => s.exit = 0) /\ (n # 0 => s.exit = n)
    BY OpenIsLast
  <2> QED BY <2>1, <2>2
<1>2. {m \in Slots : o[m].phase \in {"sent", "open"}} = {n}
  BY <1>1
<1> QED BY <1>2 DEF LiveSet

LEMMA NoneLive ==
  ASSUME NEW o, \A n \in Slots : o[n].phase \notin {"sent", "open"}
  PROVE  LiveSet(o) = {}
BY DEF LiveSet

\* Only the sizes, the fills and the phases of the orders matter.
LEMMA SameLive ==
  ASSUME NEW o, NEW o2,
         \A n \in Slots : /\ o2[n].phase = o[n].phase
                          /\ o2[n].size = o[n].size
                          /\ o2[n].filled = o[n].filled
  PROVE  LiveSet(o2) = LiveSet(o)
<1>1. \A n \in Slots : LiveOrder(o2, n) = LiveOrder(o, n)
  BY DEF LiveOrder
<1>2. {m \in Slots : o2[m].phase \in {"sent", "open"}} = {m \in Slots : o[m].phase \in {"sent", "open"}}
  OBVIOUS
<1> QED BY <1>1, <1>2 DEF LiveSet

LEMMA SavedFitsNow ==
  ASSUME PlanInv, NEW p \in Plans
  PROVE  /\ plan[p] \in StateType /\ order[p] \in [Slots -> OrderType] /\ position[p] \in Int
         /\ SavedFits(plan[p], order[p], position[p], calls[p], quote)
         /\ Fits(plan[p], order[p], position[p], calls[p], quote)
         /\ Books(order[p], calls[p])
BY DEF PlanInv, StoreType, SavedFits

LEMMA SavedFitsNext ==
  ASSUME PlanInv', NEW p \in Plans
  PROVE  /\ plan'[p] \in StateType /\ order'[p] \in [Slots -> OrderType] /\ position'[p] \in Int
         /\ SavedFits(plan'[p], order'[p], position'[p], calls'[p], quote')
         /\ Fits(plan'[p], order'[p], position'[p], calls'[p], quote')
BY DEF PlanInv, StoreType, SavedFits

\* A step that saves one plan that is not final, or none, ends that plan or changes
\* nothing of its lifecycle.
LEMMA SavingStep ==
  ASSUME PlanInv', UNCHANGED <<order, position>>,
         NEW p \in Plans, plan[p].status \notin TerminalStates,
         \A q \in Plans \ {p} : plan'[q] = plan[q]
  PROVE  [Lifecycle!Next]_(Lifecycle!vars)
<1> DEFINE stages == [q \in Plans |-> Stage(q)]
           orders == [q \in Plans |-> LiveOrders(q)]
<1>1. UNCHANGED orders
  BY LiveOrdersOf, LiveOrdersNext
<1>2. \A q \in Plans \ {p} : Stage(q)' = Stage(q)
  BY DEF Stage
<1>3. CASE plan'[p].status \notin TerminalStates
  <2>1. Stage(p)' = Stage(p)
    BY <1>3 DEF Stage
  <2>2. UNCHANGED stages
    BY <1>2, <2>1
  <2> QED BY <1>1, <2>2 DEF Lifecycle!vars, stages, orders
<1>4. CASE plan'[p].status \in TerminalStates
  <2>1. Stage(p)' = "ended" /\ Stage(p) # "ended"
    BY <1>4 DEF Stage
  <2>2. stages' = [stages EXCEPT ![p] = "ended"]
    BY <1>2, <2>1
  <2>3. Flat(order[p], position[p])
    BY <1>4, SavedFitsNext DEF SavedFits
  <2>4. LiveOrders(p) = {} /\ position[p] = 0
    BY <2>3, NoneLive, LiveOrdersOf DEF Flat
  <2>5. Lifecycle!End(p)
    BY <1>1, <2>1, <2>2, <2>4 DEF Lifecycle!End, stages, orders
  <2> QED BY <2>5 DEF Lifecycle!Next
<1> QED BY <1>3, <1>4

\* The broker moves one live order of one plan.
LEMMA LiveOrderMoves ==
  ASSUME PlanInv, PlanInv', UNCHANGED plan, NEW p \in Plans, NEW n \in Slots, Live(p, n),
         \A q \in Plans \ {p} : order'[q] = order[q],
         \A m \in Slots \ {n} : order'[p][m] = order[p][m],
         order'[p][n].phase # "none"
  PROVE  /\ UNCHANGED [q \in Plans |-> Stage(q)]
         /\ LiveOrders(p) = {LiveOrder(order[p], n)}
         /\ LiveOrders(p)' = IF order'[p][n].phase \in {"sent", "open"}
                             THEN {LiveOrder(order'[p], n)} ELSE {}
         /\ [q \in Plans |-> LiveOrders(q)]'
              = [[q \in Plans |-> LiveOrders(q)] EXCEPT ![p] = LiveOrders(p)']
<1>1. ASSUME NEW q \in Plans PROVE Stage(q)' = Stage(q)
  <2>1. order'[q][0].phase = "none" <=> order[q][0].phase = "none"
    BY ZeroSlot DEF Live
  <2> QED BY <2>1 DEF Stage
<1>2. LiveOrders(p) = {LiveOrder(order[p], n)}
  BY SavedFitsNow, SingleLive, LiveOrdersOf DEF Live
<1>3. ASSUME order'[p][n].phase \in {"sent", "open"}
      PROVE  LiveOrders(p)' = {LiveOrder(order'[p], n)}
  BY <1>3, SavedFitsNext, SingleLive, LiveOrdersNext
<1>4. ASSUME order'[p][n].phase \notin {"sent", "open"}
      PROVE  LiveOrders(p)' = {}
  <2>1. ASSUME NEW m \in Slots, order'[p][m].phase \in {"sent", "open"} PROVE FALSE
    <3>1. m # n /\ order[p][m].phase \in {"sent", "open"}
      BY <1>4, <2>1
    <3>2. LiveSet(order[p]) = {LiveOrder(order[p], m)}
      BY <3>1, SavedFitsNow, SingleLive
    <3>3. LiveOrder(order[p], m) = LiveOrder(order[p], n)
      BY <1>2, <3>2, LiveOrdersOf
    <3> QED BY <3>1, <3>3 DEF LiveOrder
  <2> QED BY <1>4, <2>1, NoneLive, LiveOrdersNext
<1>5. \A q \in Plans \ {p} : LiveOrders(q)' = LiveOrders(q)
  BY LiveOrdersOf, LiveOrdersNext
<1> QED BY <1>1, <1>2, <1>3, <1>4, <1>5

LEMMA BrokerSteps ==
  ASSUME PlanInv, PlanInv', NEW p \in Plans, NEW n \in Slots, Accept(p, n) \/ Fill(p, n) \/ Expire(p, n)
  PROVE  [Lifecycle!Next]_(Lifecycle!vars)
<1> DEFINE stages == [q \in Plans |-> Stage(q)]
           orders == [q \in Plans |-> LiveOrders(q)]
           o  == order[p]
           o2 == order'[p]
           l  == LiveOrder(o, n)
<1>0. /\ o \in [Slots -> OrderType] /\ order \in [Plans -> [Slots -> OrderType]]
      /\ position \in [Plans -> Int] /\ o[n] \in OrderType /\ Booked(o[n], calls[p][n])
  BY SavedFitsNow DEF PlanInv, StoreType, Books
<1>1. UNCHANGED plan /\ Live(p, n)
  BY DEF Accept, Fill, Expire, Live, storeVars
<1>2. CASE Accept(p, n) \/ Expire(p, n)
  <2>1. PICK phase \in {"open", "closed"} :
          /\ order' = [order EXCEPT ![p][n].phase = phase] /\ UNCHANGED position
          /\ Expire(p, n) => phase = "closed" /\ o[n].phase = "open"
          /\ Accept(p, n) => o[n].phase = "sent"
    BY <1>2 DEF Accept, Expire
  <2>2. /\ \A q \in Plans \ {p} : order'[q] = order[q]
        /\ \A m \in Slots \ {n} : o2[m] = o[m]
        /\ o2[n].phase = phase /\ o2[n].size = o[n].size /\ o2[n].filled = o[n].filled
    BY <1>0, <2>1 DEF OrderType
  <2>3. /\ UNCHANGED stages
        /\ LiveOrders(p) = {l}
        /\ LiveOrders(p)' = IF phase = "open" THEN {LiveOrder(o2, n)} ELSE {}
        /\ orders' = [orders EXCEPT ![p] = LiveOrders(p)']
    BY <1>1, <2>1, <2>2, LiveOrderMoves
  <2>4. LiveOrder(o2, n) = [l EXCEPT !.doubt = phase = "sent"]
    BY <2>2 DEF LiveOrder
  <2>5. CASE o[n].phase = "sent"
    <3>1. l.doubt
      BY <2>5 DEF LiveOrder
    <3>2. LiveOrders(p)' \in {{}, {[l EXCEPT !.doubt = FALSE]}}
      BY <2>1, <2>3, <2>4
    <3>3. Lifecycle!Answer(p, l)
      BY <2>1, <2>3, <3>1, <3>2 DEF Lifecycle!Answer, stages, orders
    <3>4. l \in orders[p]
      BY <2>3
    <3> QED BY <3>3, <3>4 DEF Lifecycle!Next, orders
  <2>6. CASE o[n].phase # "sent"
    <3>1. ~l.doubt /\ LiveOrders(p)' = {}
      BY <1>2, <2>1, <2>3, <2>6 DEF LiveOrder
    <3>2. Lifecycle!Drop(p, l)
      BY <2>1, <2>3, <3>1 DEF Lifecycle!Drop, stages, orders
    <3>3. l \in orders[p]
      BY <2>3
    <3> QED BY <3>2, <3>3 DEF Lifecycle!Next, orders
  <2> QED BY <2>5, <2>6
<1>3. CASE Fill(p, n)
  <2>1. PICK phase \in {"open", "closed"} :
          /\ phase = IF o[n].filled + 1 = o[n].size THEN "closed" ELSE "open"
          /\ order' = [order EXCEPT ![p][n].filled = @ + 1, ![p][n].phase = phase]
    BY <1>3 DEF Fill
  <2>2. /\ o[n].phase = "open"
        /\ position' = [position EXCEPT ![p] = IF n = 0 THEN @ + 1 ELSE @ - 1]
    BY <1>3 DEF Fill
  <2>3. /\ \A q \in Plans \ {p} : order'[q] = order[q]
        /\ \A m \in Slots \ {n} : o2[m] = o[m]
        /\ o2[n].phase = phase /\ o2[n].size = o[n].size /\ o2[n].filled = o[n].filled + 1
    BY <1>0, <2>1 DEF OrderType
  <2>4. /\ UNCHANGED stages
        /\ LiveOrders(p) = {l}
        /\ LiveOrders(p)' = IF phase = "open" THEN {LiveOrder(o2, n)} ELSE {}
        /\ orders' = [orders EXCEPT ![p] = LiveOrders(p)']
    BY <1>1, <2>1, <2>3, LiveOrderMoves
  <2>5. /\ o[n].size \in Nat /\ o[n].filled \in Nat
        /\ l.left = o[n].size - o[n].filled /\ l.number = n /\ ~l.doubt
    BY <1>0, <2>2 DEF LiveOrder, OrderType
  <2>6. phase = "open" => LiveOrder(o2, n) = [l EXCEPT !.left = @ - 1]
    <3>1. o[n].size - (o[n].filled + 1) = (o[n].size - o[n].filled) - 1
      BY <2>5
    <3> QED BY <2>2, <2>3, <3>1 DEF LiveOrder
  <2>7. LiveOrders(p)' = IF l.left = 1 THEN {} ELSE {[l EXCEPT !.left = @ - 1]}
    <3>1. phase = "closed" <=> l.left = 1
      BY <2>1, <2>5
    <3> QED BY <2>1, <2>4, <2>6, <3>1
  <2>8. Lifecycle!Fill(p, l)
    BY <2>2, <2>4, <2>5, <2>7 DEF Lifecycle!Fill, stages, orders
  <2>9. l \in orders[p]
    BY <2>4
  <2> QED BY <2>8, <2>9 DEF Lifecycle!Next, orders
<1> QED BY <1>2, <1>3

LEMMA SubmitLifecycle ==
  ASSUME PlanInv, PlanInv', Submit
  PROVE  [Lifecycle!Next]_(Lifecycle!vars)
<1>a. tick.plan \in Plans /\ tick.slot \in Slots
  BY Running DEF Submit, At, TickType
<1>b. PICK p \in Plans, n \in Slots : p = tick.plan /\ n = tick.slot
  BY <1>a
<1> DEFINE s == tick.s
           o == order[p]
           o2 == order'[p]
           new == [NoOrder EXCEPT !.phase = "sent", !.size = tick.size, !.quote = quote]
           stages == [q \in Plans |-> Stage(q)]
           orders == [q \in Plans |-> LiveOrders(q)]
<1>0. tick.pc = "submit" /\ ~At("idle") /\ UNCHANGED <<plan, position>>
  BY DEF Submit, At, BrokerStep, storeVars
<1>1. /\ tick \in TickType /\ p \in Plans /\ n \in Slots /\ s \in StateType /\ 0 \in Slots
      /\ plan[p] = s /\ s.status \notin TerminalStates /\ tick.size \in Nat
      /\ Submits(tick, o, quote) /\ Fits(s, o, position[p], calls[p], quote)
      /\ n = 0 => ~UnresolvedDispatches(p)
  BY <1>0, <1>b, Running, ZeroSlot DEF TickFits, TickType, StateType
<1>2. /\ new.phase = "sent" /\ new.size = tick.size /\ new.filled = 0
      /\ order' = [order EXCEPT ![p][n] = new]
      /\ o[n].phase = "none"
  BY <1>1, <1>b DEF Submit, Submits, NoOrder
<1> HIDE DEF new
<1>3. /\ order \in [Plans -> [Slots -> OrderType]] /\ position[p] \in Int
      /\ Books(o, calls[p])
  BY <1>1, SavedFitsNow DEF PlanInv, StoreType
<1>4. /\ o2[n] = new /\ \A m \in Slots \ {n} : o2[m] = o[m]
      /\ \A q \in Plans \ {p} : order'[q] = order[q]
  BY <1>1, <1>2, <1>3
<1>5. LiveOrders(p)' = {Lifecycle!Sent(n, tick.size)}
  <2>1. LiveOrders(p)' = {LiveOrder(o2, n)}
    <3>1. o2[n].phase = "sent"
      BY <1>2, <1>4
    <3>2. plan'[p] \in StateType /\ Fits(plan'[p], o2, position'[p], calls'[p], quote')
      BY SavedFitsNext
    <3>3. LiveSet(o2) = {LiveOrder(o2, n)}
      BY <3>1, <3>2, SingleLive
    <3> QED BY <3>3, LiveOrdersNext
  <2>2. LiveOrder(o2, n) = Lifecycle!Sent(n, tick.size)
    <3>1. o2[n].phase = "sent" /\ o2[n].size - o2[n].filled = tick.size
      BY <1>1, <1>2, <1>4
    <3>2. (o2[n].phase = "sent") = TRUE
      BY <3>1
    <3> QED BY <3>1, <3>2, Zenon DEF LiveOrder, Lifecycle!Sent
  <2> QED BY <2>1, <2>2
<1>6. orders' = [orders EXCEPT ![p] = {Lifecycle!Sent(n, tick.size)}]
  <2>1. \A q \in Plans \ {p} : LiveOrders(q)' = LiveOrders(q)
    BY <1>4, LiveOrdersOf, LiveOrdersNext
  <2> QED BY <1>1, <1>5, <2>1
<1>7. \A q \in Plans \ {p} : Stage(q)' = Stage(q)
  BY <1>0, <1>4 DEF Stage
<1>8. CASE n = 0
  <2>1. Stage(p) = "waiting" /\ Stage(p)' = "entered"
    BY <1>0, <1>1, <1>2, <1>4, <1>8 DEF Stage
  <2>2. stages' = [stages EXCEPT ![p] = "entered"]
    BY <1>7, <2>1
  <2>3. ASSUME NEW q \in Plans, NEW l \in LiveOrders(q), l.number = 0, l.doubt PROVE FALSE
    <3>1. PICK m \in Slots : l = LiveOrder(order[q], m)
      BY <2>3, LiveOrdersOf DEF LiveSet
    <3>2. m = 0 /\ order[q][0].phase = "sent"
      BY <2>3, <3>1 DEF LiveOrder
    <3>3. q # p /\ plan[q].status \in Unresolved
      BY <1>2, <1>8, <3>2, SavedFitsNow DEF SavedFits
    <3> QED BY <1>1, <1>8, <3>3 DEF UnresolvedDispatches
  <2>4. tick.size = Quantity[p]
    BY <1>1, <1>8, <1>b DEF Submits, Covers
  <2>5. Lifecycle!Enter(p)
    BY <1>0, <1>1, <1>6, <1>8, <2>1, <2>2, <2>3, <2>4
       DEF Lifecycle!Enter, Lifecycle!PurchaseInDoubt, stages, orders
  <2> QED BY <1>1, <2>5 DEF Lifecycle!Next
<1>9. CASE n # 0
  <2>1. /\ n \in Sales /\ s.exit = n /\ o[0].phase = "closed"
        /\ tick.size > 0 /\ tick.size <= o[0].filled - s.sold
    BY <1>1, <1>9, <1>b, ZeroSlot DEF Submits, Covers, Slots, Sales
  <2>2. Stage(p) = "entered" /\ Stage(p)' = "entered"
    BY <1>0, <1>1, <1>4, <1>9, <2>1 DEF Stage
  <2>3. UNCHANGED stages
    BY <1>7, <2>2
  <2>4. LiveOrders(p) = {}
    <3>1. ASSUME NEW m \in Slots, o[m].phase \in {"sent", "open"} PROVE FALSE
      <4>1. (m = 0 => s.exit = 0) /\ (m # 0 => s.exit = m)
        BY <1>1, <3>1, OpenIsLast
      <4> QED BY <1>2, <1>9, <2>1, <3>1, <4>1
    <3> QED BY <1>1, <3>1, NoneLive, LiveOrdersOf
  <2>5. tick.size \in 1..position[p] /\ position[p] > 0
    <3>1. position[p] = o[0].filled - s.sold - o[n].filled /\ o[n].filled = 0
      BY <1>1, <1>2, <1>3, <1>9, <2>1 DEF Fits, Accounts, Selling, Books, Booked
    <3>2. o[0].filled \in Nat /\ s.sold \in Nat
      BY <1>1, <1>3 DEF Books, OrderType, StateType
    <3> QED BY <1>1, <1>3, <2>1, <3>1, <3>2
  <2>6. Lifecycle!Sell(p)
    BY <1>0, <1>1, <1>6, <2>1, <2>2, <2>3, <2>4, <2>5 DEF Lifecycle!Sell, stages, orders
  <2> QED BY <1>1, <2>6 DEF Lifecycle!Next
<1> QED BY <1>8, <1>9

\* A request to cancel leaves every order as live as it was.
LEMMA AskLifecycle ==
  ASSUME PlanInv, CancelEntry \/ CancelExit
  PROVE  UNCHANGED Lifecycle!vars
<1>1. PICK n \in Slots : Cancelled(tick.plan, n)
  <2>1. CASE CancelEntry
    BY <2>1, ZeroSlot DEF CancelEntry, AskToCancel
  <2>2. CASE CancelExit
    <3>1. tick.s.exit \in Slots
      BY <2>2, Running DEF CancelExit, At, TickType, StateType
    <3> QED BY <2>2, <3>1 DEF CancelExit, AskToCancel
  <2> QED BY <2>1, <2>2
<1>2. UNCHANGED <<plan, position>>
  BY DEF CancelEntry, CancelExit, AskToCancel, BrokerStep, storeVars
<1>3. order \in [Plans -> [Slots -> OrderType]]
  BY DEF PlanInv, StoreType
<1>4. ASSUME NEW p \in Plans, NEW m \in Slots
      PROVE  /\ order'[p][m].phase = order[p][m].phase
             /\ order'[p][m].size = order[p][m].size
             /\ order'[p][m].filled = order[p][m].filled
  <2>1. order[p] \in [Slots -> OrderType] /\ order[p][m] \in OrderType
    BY <1>3
  <2>2. CASE p = tick.plan /\ m = n
    BY <1>1, <1>3, <2>1, <2>2 DEF Cancelled, OrderType
  <2>3. CASE ~(p = tick.plan /\ m = n)
    BY <1>1, <1>3, <2>1, <2>3 DEF Cancelled
  <2> QED BY <2>2, <2>3
<1>5. \A p \in Plans : LiveOrders(p)' = LiveOrders(p)
  BY <1>4, SameLive, LiveOrdersOf, LiveOrdersNext
<1>6. \A p \in Plans : Stage(p)' = Stage(p)
  BY <1>2, <1>4, ZeroSlot DEF Stage
<1> QED BY <1>2, <1>5, <1>6 DEF Lifecycle!vars

\* All other steps of a tick only save the plan, if anything.
LEMMA ContinueSaves ==
  ASSUME Continue, ~Submit, ~(CancelEntry \/ CancelExit)
  PROVE  /\ UNCHANGED <<order, position>>
         /\ ~At("idle")
         /\ UNCHANGED plan \/ \E s : Saves(s)
<1>1. LocalStep /\ ~At("idle")
  BY DEF Continue, ReadMissing, Read, Observe, CancelRefused, EntryCancelAnswered, ExitCancelAnswered,
         Close, ExitRests, TryCancel, EntryEnded, EntryExpired, Waits, EntryInvalidated,
         AdmitEntry, Manage, AdmitExit, PreviewRefused, Dispatch, SubmitAnswered, SubmitUncertain,
         Deciding, GoesOn, At
<1>2. UNCHANGED plan \/ \E s : Saves(s)
  BY DEF Continue, ReadMissing, Read, Observe, CancelRefused, EntryCancelAnswered, ExitCancelAnswered,
         Close, ExitRests, TryCancel, EntryEnded, EntryExpired, Waits, EntryInvalidated,
         AdmitEntry, Manage, AdmitExit, PreviewRefused, Dispatch, SubmitAnswered, SubmitUncertain,
         Uncertain, EndsAs, Ends, SavesAttempt, SavesIntent
<1> QED BY <1>1, <1>2 DEF LocalStep, brokerVars

LEMMA LifecycleStep ==
  ASSUME PlanInv, PlanInv', [PlanNext]_planVars
  PROVE  [Lifecycle!Next]_(Lifecycle!vars)
<1>0. plan \in [Plans -> StateType]
  BY DEF PlanInv, StoreType
<1>1. CASE UNCHANGED <<plan, order, position>>
  BY <1>1 DEF Lifecycle!vars, Stage, LiveOrders, Live
<1>2. ASSUME NEW p \in Plans, StartTick(p) PROVE [Lifecycle!Next]_(Lifecycle!vars)
  <2>1. UNCHANGED <<order, position>> /\ plan[p].status \notin TerminalStates
    BY <1>2 DEF StartTick, CancelBeforeEntry, Begin, brokerVars
  <2>2. UNCHANGED plan \/ \E s : SaveAs(p, s)
    BY <1>2 DEF StartTick, CancelBeforeEntry, Begin
  <2>3. \A q \in Plans \ {p} : plan'[q] = plan[q]
    BY <1>0, <2>2 DEF SaveAs
  <2> QED BY <2>1, <2>3, SavingStep
<1>3. CASE Continue
  <2>1. CASE Submit
    BY <2>1, SubmitLifecycle
  <2>2. CASE CancelEntry \/ CancelExit
    BY <2>2, AskLifecycle
  <2>3. CASE ~Submit /\ ~(CancelEntry \/ CancelExit)
    <3>1. /\ UNCHANGED <<order, position>> /\ ~At("idle")
          /\ UNCHANGED plan \/ \E s : Saves(s)
      BY <1>3, <2>3, ContinueSaves
    <3>2. tick.plan \in Plans /\ plan[tick.plan].status \notin TerminalStates
      BY <3>1, Running DEF TickType
    <3>3. \A q \in Plans \ {tick.plan} : plan'[q] = plan[q]
      BY <1>0, <3>1 DEF Saves, SaveAs
    <3> QED BY <3>1, <3>2, <3>3, SavingStep
  <2> QED BY <2>1, <2>2, <2>3
<1>4. CASE Interrupt
  BY <1>1, <1>4 DEF Interrupt, storeVars, brokerVars
<1>5. CASE Environment
  <2>1. ASSUME NEW p \in Plans, NEW n \in Slots, Accept(p, n) \/ Fill(p, n) \/ Expire(p, n)
        PROVE  [Lifecycle!Next]_(Lifecycle!vars)
    BY <2>1, BrokerSteps
  <2>2. ASSUME NEW p \in Plans, RequestExit(p) PROVE [Lifecycle!Next]_(Lifecycle!vars)
    BY <1>1, <2>2 DEF RequestExit, brokerVars
  <2>3. CASE Configure
    BY <1>1, <2>3 DEF Configure, storeVars, brokerVars
  <2> QED BY <1>5, <2>1, <2>2, <2>3 DEF Environment
<1>6. CASE UNCHANGED planVars
  BY <1>1, <1>6 DEF planVars
<1> QED BY <1>2, <1>3, <1>4, <1>5, <1>6 DEF PlanNext

LEMMA LifecycleInit == PlanInit => Lifecycle!Init
<1> SUFFICES ASSUME PlanInit PROVE Lifecycle!Init
    OBVIOUS
<1>1. \A p \in Plans : Stage(p) = "waiting"
  BY ZeroSlot DEF PlanInit, Stage, NewPlan, NoOrder, TerminalStates
<1>2. \A p \in Plans : LiveOrders(p) = {}
  BY DEF PlanInit, LiveOrders, Live, NoOrder
<1> QED BY <1>1, <1>2 DEF Lifecycle!Init, PlanInit

\* What ticks, interruptions, the broker and the host make of the plans of an account is
\* a run of their lifecycle: one purchase per plan and one of the account in doubt, sales
\* of what is held one after another, an end for good with nothing held or live.
THEOREM PlansLive == PlanSpec => FollowsPlanLifecycle
<1>1. PlanInit => Lifecycle!Init
  BY LifecycleInit
<1>2. PlanInv /\ PlanInv' /\ [PlanNext]_planVars => [Lifecycle!Next]_(Lifecycle!vars)
  BY LifecycleStep
<1>3. PlanSpec => Lifecycle!Spec
  BY <1>1, <1>2, PlansAccount, PTL DEF PlanSpec, Lifecycle!Spec
<1> QED BY <1>3 DEF FollowsPlanLifecycle

LEMMA FinalStep ==
  ASSUME PlanInv, [PlanNext]_planVars, NEW p \in Plans, plan[p].status \in TerminalStates
  PROVE  plan'[p] = plan[p] /\ position'[p] = position[p] /\ LiveOrders(p)' = {}
<1>0. plan \in [Plans -> StateType] /\ position \in [Plans -> Int]
      /\ order \in [Plans -> [Slots -> OrderType]]
  BY DEF PlanInv, StoreType
<1>1. Flat(order[p], position[p])
  BY SavedFitsNow DEF SavedFits
<1> SUFFICES /\ plan'[p] = plan[p] /\ position'[p] = position[p]
             /\ \A m \in Slots : order'[p][m].phase = order[p][m].phase
  BY <1>1, NoneLive, LiveOrdersNext DEF Flat
<1>2. CASE UNCHANGED <<order, position>> /\ \E q \in Plans \ {p} : UNCHANGED plan \/ \E s : SaveAs(q, s)
  BY <1>0, <1>2 DEF SaveAs
<1>3. CASE UNCHANGED <<plan, order, position>>
  BY <1>3
<1>4. ASSUME NEW q \in Plans, StartTick(q)
      PROVE  UNCHANGED <<order, position>> /\ q # p /\ (UNCHANGED plan \/ \E s : SaveAs(q, s))
  BY <1>4 DEF StartTick, CancelBeforeEntry, Begin, brokerVars
<1>5. ASSUME Continue PROVE tick.plan \in Plans \ {p}
  <2>1. ~At("idle")
    BY <1>5 DEF Continue, ReadMissing, Read, Observe, CancelEntry, CancelExit, CancelRefused,
         EntryCancelAnswered, ExitCancelAnswered, Close, ExitRests, TryCancel, EntryEnded,
         EntryExpired, Waits, EntryInvalidated, AdmitEntry, Manage, AdmitExit, PreviewRefused,
         Dispatch, Submit, SubmitAnswered, SubmitUncertain, Deciding, GoesOn, At
  <2> QED BY <2>1, Running DEF TickType
<1>6. CASE Continue /\ ~Submit /\ ~(CancelEntry \/ CancelExit)
  BY <1>2, <1>5, <1>6, ContinueSaves DEF Saves
<1>7. CASE Continue /\ (Submit \/ CancelEntry \/ CancelExit)
  <2>1. PICK q \in Plans \ {p} : q = tick.plan
    BY <1>5, <1>7
  <2>2. UNCHANGED <<plan, position>>
    BY <1>7 DEF Submit, CancelEntry, CancelExit, AskToCancel, BrokerStep, storeVars
  <2>3. order'[p] = order[p]
    BY <1>0, <1>7, <2>1 DEF Submit, CancelEntry, CancelExit, AskToCancel, Cancelled
  <2> QED BY <2>2, <2>3
<1>8. CASE Environment
  <2>1. ASSUME NEW q \in Plans, NEW n \in Slots, Accept(q, n) \/ Fill(q, n) \/ Expire(q, n)
        PROVE  q # p /\ UNCHANGED plan /\ order'[p] = order[p] /\ position'[p] = position[p]
    <3>1. order[q][n].phase \in {"sent", "open"} /\ UNCHANGED plan
      BY <2>1 DEF Accept, Fill, Expire, storeVars
    <3>2. q # p
      BY <1>1, <3>1 DEF Flat
    <3> QED BY <1>0, <2>1, <3>1, <3>2 DEF Accept, Fill, Expire
  <2>2. ASSUME NEW q \in Plans, RequestExit(q) PROVE UNCHANGED <<plan, order, position>>
    BY <2>2 DEF RequestExit, brokerVars
  <2>3. ASSUME Configure PROVE UNCHANGED <<plan, order, position>>
    BY <2>3 DEF Configure, storeVars, brokerVars
  <2> QED BY <1>3, <1>8, <2>1, <2>2, <2>3 DEF Environment
<1>9. CASE Interrupt \/ UNCHANGED planVars
  BY <1>3, <1>9 DEF Interrupt, planVars, storeVars, brokerVars
<1> QED BY <1>2, <1>4, <1>6, <1>7, <1>8, <1>9 DEF PlanNext

\* TERMINAL_PLAN_STATES: the record of a final plan is never written again, and nothing
\* of it is bought, sold or live any more.
THEOREM FinalPlans ==
  PlanSpec => [][\A p \in Plans : plan[p].status \in TerminalStates
                   => plan'[p] = plan[p] /\ position'[p] = position[p] /\ LiveOrders(p)' = {}]_planVars
<1>1. PlanInv /\ [PlanNext]_planVars =>
        [\A p \in Plans : plan[p].status \in TerminalStates
           => plan'[p] = plan[p] /\ position'[p] = position[p] /\ LiveOrders(p)' = {}]_planVars
  BY FinalStep
<1> QED BY <1>1, PlansAccount, PTL DEF PlanSpec
=============================================================================
