---------------------------- MODULE LeaderLease ----------------------------
(***************************************************************************)
(* The leader lease of one service: SQLiteLeaderLease of                   *)
(* governance/ha_leader_lease.py, used by several owners.                  *)
(*                                                                         *)
(* claim runs in one transaction.  renew and release read the row in one   *)
(* statement and change it in the next, in a transaction that begins only  *)
(* there: other owners and the clock may come in between.                  *)
(*                                                                         *)
(* Times are what is left of them: every tick of the clock takes one from  *)
(* each.                                                                   *)
(***************************************************************************)
EXTENDS Integers, FiniteSets

CONSTANTS
  Owners,
  Ttl,        \* ttl_seconds, in ticks
  MaxEpoch    \* bound

ASSUME LeaseAssumption ==
  /\ Ttl \in Nat \ {0}
  /\ MaxEpoch \in Nat

VARIABLES
  row,      \* the row of the lease, or NoRow
  receipt,  \* the latest receipt of each owner
  pending,  \* a renewal or release between its two statements
  erased    \* history: a release has deleted the row, and its epoch with it

leaderVars == <<row, receipt, pending, erased>>

NoRow   == [epoch |-> 0]
NoReceipt == [epoch |-> 0, left |-> 0]
Nothing == [op |-> "none"]

LeaseInit ==
  /\ row = NoRow
  /\ receipt = [o \in Owners |-> NoReceipt]
  /\ pending = [o \in Owners |-> Nothing]
  /\ erased = FALSE

Held       == row # NoRow
Live       == Held /\ row.left > 0
OwnedBy(o) == Held /\ row.owner = o /\ row.epoch = receipt[o].epoch

\* Faulty: an expired lease is taken over in the same epoch.
SameEpoch(o) == IF Held THEN row.epoch ELSE 1

\* Faulty: the first epoch is 0.
FromZero(o) == IF Held THEN row.epoch + 1 ELSE 0

\* A live lease of the same owner goes on, any other claim begins a new epoch.
EpochFor(o) == IF Live /\ row.owner = o THEN row.epoch ELSE row.epoch + 1

Claim(o) ==
  /\ pending[o] = Nothing
  /\ Live => row.owner = o
  /\ EpochFor(o) <= MaxEpoch
  /\ row' = [owner |-> o, epoch |-> EpochFor(o), left |-> Ttl]
  /\ receipt' = [receipt EXCEPT ![o] = [epoch |-> EpochFor(o), left |-> Ttl]]
  /\ UNCHANGED <<pending, erased>>

RenewCheck(o) ==
  /\ pending[o] = Nothing
  /\ OwnedBy(o) /\ Live
  /\ pending' = [pending EXCEPT ![o] = [op |-> "renew", left |-> Ttl]]
  /\ UNCHANGED <<row, receipt, erased>>

\* The update names the lease, not its owner.
RenewWrite(o) ==
  /\ pending[o].op = "renew"
  /\ row' = IF Held THEN [row EXCEPT !.left = pending[o].left] ELSE row
  /\ receipt' = [receipt EXCEPT ![o].left = pending[o].left]
  /\ pending' = [pending EXCEPT ![o] = Nothing]
  /\ UNCHANGED erased

ReleaseCheck(o) ==
  /\ pending[o] = Nothing
  /\ OwnedBy(o)
  /\ pending' = [pending EXCEPT ![o] = [op |-> "release", left |-> 0]]
  /\ UNCHANGED <<row, receipt, erased>>

\* The row is deleted, whoever has it by now.
ReleaseWrite(o) ==
  /\ pending[o].op = "release"
  /\ row' = NoRow
  /\ receipt' = [receipt EXCEPT ![o] = NoReceipt]
  /\ pending' = [pending EXCEPT ![o] = Nothing]
  /\ erased' = TRUE

\* The owner ends or is restarted and has lost its receipt.
Forget(o) ==
  /\ receipt' = [receipt EXCEPT ![o] = NoReceipt]
  /\ pending' = [pending EXCEPT ![o] = Nothing]
  /\ UNCHANGED <<row, erased>>

Less(n) == IF n > 0 THEN n - 1 ELSE 0

LeaderTick ==
  /\ row' = IF Held THEN [row EXCEPT !.left = Less(@)] ELSE row
  /\ receipt' = [o \in Owners |-> [receipt[o] EXCEPT !.left = Less(@)]]
  /\ pending' = [o \in Owners |-> IF pending[o] = Nothing THEN Nothing
                                  ELSE [pending[o] EXCEPT !.left = Less(@)]]
  /\ UNCHANGED erased

LeaseNext ==
  \/ \E o \in Owners : \/ Claim(o) \/ RenewCheck(o) \/ RenewWrite(o)
                       \/ ReleaseCheck(o) \/ ReleaseWrite(o) \/ Forget(o)
  \/ LeaderTick

LeaseSpec == LeaseInit /\ [][LeaseNext]_leaderVars

-----------------------------------------------------------------------------
(* Properties *)

ReceiptType == [epoch: Nat, left: 0..Ttl]

LeaseTypeOK ==
  /\ row = NoRow \/ row \in [owner: Owners, epoch: Nat \ {0}, left: 0..Ttl]
  /\ receipt \in [Owners -> ReceiptType]
  /\ pending \in [Owners -> {Nothing} \cup [op: {"renew", "release"}, left: 0..Ttl]]
  /\ erased \in BOOLEAN

\* An epoch fences off every other owner: until a release deletes the row, no two
\* owners have receipts of the same epoch, also when a renewal comes too late.
EpochHasOneOwner ==
  \A a, b \in Owners :
    ~erased /\ receipt[a].epoch = receipt[b].epoch /\ receipt[a].epoch # 0 => a = b

\* As long as the row is there its fencing epoch never goes back, and it advances with
\* every change of the owner.
EpochsAdvance ==
  [][Held /\ row' # NoRow =>
       /\ row'.epoch >= row.epoch
       /\ row'.owner # row.owner => row'.epoch > row.epoch]_leaderVars

\* Two owners never both have a receipt that is still valid.
OneLiveHolder == \A a, b \in Owners : receipt[a].left > 0 /\ receipt[b].left > 0 => a = b
=============================================================================
