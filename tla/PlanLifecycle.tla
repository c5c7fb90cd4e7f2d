--------------------------- MODULE PlanLifecycle ---------------------------
(***************************************************************************)
(* What the account is promised about its trading plans, without ticks,    *)
(* records and receipts: a plan buys once, sells what it holds in one      *)
(* order after another, and ends for good when it holds nothing and has    *)
(* nothing at the broker.  At most one purchase of the account is in doubt *)
(* when another one is sent.                                               *)
(***************************************************************************)
EXTENDS Integers

CONSTANTS
  Plans,
  Quantity,  \* Quantity[p]: the shares the plan buys
  Sales      \* the numbers of sales; the purchase is number 0

VARIABLES
  stage,  \* waiting, entered (the purchase was sent) or ended
  live,   \* the orders that can still fill; one is in doubt until the broker answers
  held    \* the shares the plan holds

vars == <<stage, live, held>>

Sent(number, size) == [number |-> number, left |-> size, doubt |-> TRUE]

\* A purchase of the account whose acceptance is not known.
PurchaseInDoubt == \E p \in Plans : \E l \in live[p] : l.number = 0 /\ l.doubt

Init ==
  /\ stage = [p \in Plans |-> "waiting"]
  /\ live = [p \in Plans |-> {}]
  /\ held = [p \in Plans |-> 0]

Enter(p) ==
  /\ stage[p] = "waiting"
  /\ ~PurchaseInDoubt
  /\ stage' = [stage EXCEPT ![p] = "entered"]
  /\ live' = [live EXCEPT ![p] = {Sent(0, Quantity[p])}]
  /\ UNCHANGED held

\* The next sale asks for what is held at most, and only when nothing is live.
Sell(p) ==
  /\ stage[p] = "entered" /\ held[p] > 0 /\ live[p] = {}
  /\ \E number \in Sales, size \in 1..held[p] : live' = [live EXCEPT ![p] = {Sent(number, size)}]
  /\ UNCHANGED <<stage, held>>

\* The broker accepts the order, or turns it away.
Answer(p, l) ==
  /\ l.doubt
  /\ \E answered \in {{}, {[l EXCEPT !.doubt = FALSE]}} :
       live' = [live EXCEPT ![p] = answered]
  /\ UNCHANGED <<stage, held>>

\* One share is traded; the last one takes the order away.
Fill(p, l) ==
  /\ ~l.doubt
  /\ held' = [held EXCEPT ![p] = IF l.number = 0 THEN @ + 1 ELSE @ - 1]
  /\ live' = [live EXCEPT ![p] = IF l.left = 1 THEN {} ELSE {[l EXCEPT !.left = @ - 1]}]
  /\ UNCHANGED stage

\* An accepted order is cancelled or expires.
Drop(p, l) ==
  /\ ~l.doubt
  /\ live' = [live EXCEPT ![p] = {}]
  /\ UNCHANGED <<stage, held>>

End(p) ==
  /\ stage[p] # "ended" /\ live[p] = {} /\ held[p] = 0
  /\ stage' = [stage EXCEPT ![p] = "ended"]
  /\ UNCHANGED <<live, held>>

Next ==
  \E p \in Plans :
    \/ Enter(p) \/ Sell(p) \/ End(p)
    \/ \E l \in live[p] : Answer(p, l) \/ Fill(p, l) \/ Drop(p, l)

Spec == Init /\ [][Next]_vars
=============================================================================
