--------------------------- MODULE OrderLifecycle ---------------------------
(***************************************************************************)
(* What the paper broker promises about an order ticket: it is accepted or *)
(* turned away once, it fills while it is live and never beyond its size,  *)
(* and it is closed for good.  A replacement takes over at most what its   *)
(* predecessor has left, and closes it in the same step.                   *)
(***************************************************************************)
EXTENDS Integers

CONSTANTS
  OrderIds,
  NoOne,  \* the predecessor of an order that replaces none
  Size,   \* Size[o]: the quantity of the ticket
  Old     \* Old[o]: the order that o replaces, or NoOne

ASSUME LifecycleAssumption ==
  /\ NoOne \notin OrderIds
  /\ Size \in [OrderIds -> Nat \ {0}]
  /\ Old \in [OrderIds -> OrderIds \cup {NoOne}]

VARIABLES
  phase,  \* new, live or closed
  filled  \* the quantity filled so far

vars == <<phase, filled>>

Init ==
  /\ phase = [o \in OrderIds |-> "new"]
  /\ filled = [o \in OrderIds |-> 0]

Accept(o) ==
  /\ phase[o] = "new" /\ Old[o] = NoOne
  /\ phase' = [phase EXCEPT ![o] = "live"]
  /\ UNCHANGED filled

TurnAway(o) ==
  /\ phase[o] = "new" /\ Old[o] = NoOne
  /\ phase' = [phase EXCEPT ![o] = "closed"]
  /\ UNCHANGED filled

\* Faulty: fills of the old order are not deducted.
ReplaceWhole(o) ==
  /\ phase[o] = "new" /\ Old[o] # NoOne
  /\ phase[Old[o]] = "live"
  /\ phase' = [phase EXCEPT ![o] = "live", ![Old[o]] = "closed"]
  /\ UNCHANGED filled

\* One step closes the predecessor and opens an order for what it has left at most.
Replace(o) ==
  /\ phase[o] = "new" /\ Old[o] # NoOne
  /\ phase[Old[o]] = "live"
  /\ Size[o] <= Size[Old[o]] - filled[Old[o]]
  /\ phase' = [phase EXCEPT ![o] = "live", ![Old[o]] = "closed"]
  /\ UNCHANGED filled

Fill(o, quantity) ==
  /\ phase[o] = "live"
  /\ filled[o] + quantity <= Size[o]
  /\ filled' = [filled EXCEPT ![o] = @ + quantity]
  /\ UNCHANGED phase

Close(o) ==
  /\ phase[o] = "live"
  /\ phase' = [phase EXCEPT ![o] = "closed"]
  /\ UNCHANGED filled

Next ==
  \E o \in OrderIds :
    \/ Accept(o) \/ TurnAway(o) \/ Replace(o) \/ Close(o)
    \/ \E quantity \in 1..Size[o] : Fill(o, quantity)

Spec == Init /\ [][Next]_vars

-----------------------------------------------------------------------------

TypeOK ==
  /\ phase \in [OrderIds -> {"new", "live", "closed"}]
  /\ filled \in [OrderIds -> Nat]

\* Whatever is replaced and filled in whatever order, an order and the one that
\* replaced it together never fill more than the first ticket asked for.
ExposureIsKept ==
  \A o \in OrderIds :
    Old[o] # NoOne => filled[o] + filled[Old[o]] <= Size[Old[o]]

\* A closed order is closed for good and fills no more.
ClosedIsFinal ==
  [][\A o \in OrderIds :
       phase[o] = "closed" => phase'[o] = "closed" /\ filled'[o] = filled[o]]_vars
=============================================================================
