--------------------------- MODULE ProtocolProofs ---------------------------
(***************************************************************************)
(* Proofs about the protocols whose theorems are few: the leader lease,    *)
(* the leases of the trading plans, approvals, the market feed, the guard  *)
(* of a transport and the lifecycle of orders.  At the end, what is proved *)
(* of each protocol here and in the modules below is carried over to the   *)
(* instance of all of them, MCProtocols.                                   *)
(***************************************************************************)
EXTENDS MCProtocols, LiveOmsProofs, AgentRunProofs, AutomationsProofs, ToolWorkersProofs,
        FiniteSetTheorems, WellFoundedInduction, TLAPS

-----------------------------------------------------------------------------
(* The leader lease, for any set of owners and any time to live *)

\* The epoch of a claim is positive, whatever the row is.
LEMMA EpochForType ==
  ASSUME LeaseTypeOK, NEW o \in Owners
  PROVE  /\ EpochFor(o) \in Nat \ {0}
         /\ Held => EpochFor(o) >= row.epoch
         /\ ~(Live /\ row.owner = o) => EpochFor(o) = row.epoch + 1
         /\ row.epoch \in Nat
<1>1. row.epoch \in Nat /\ (Held => row.epoch # 0)
  BY DEF LeaseTypeOK, NoRow, Held
<1>2. CASE Live /\ row.owner = o
  BY <1>1, <1>2 DEF EpochFor, Live
<1>3. CASE ~(Live /\ row.owner = o)
  BY <1>1, <1>3 DEF EpochFor
<1> QED BY <1>2, <1>3

LEMMA LessType ==
  ASSUME NEW n \in 0..Ttl
  PROVE  Less(n) \in 0..Ttl
BY LeaseAssumption DEF Less

LEMMA TypeInit == LeaseInit => LeaseTypeOK
<1>1. NoReceipt \in ReceiptType
  BY LeaseAssumption DEF NoReceipt, ReceiptType
<1>2. LeaseInit => erased \in BOOLEAN
  BY Zenon DEF LeaseInit
<1> QED BY <1>1, <1>2 DEF LeaseInit, LeaseTypeOK

LEMMA TypeStep == LeaseTypeOK /\ [LeaseNext]_leaderVars => LeaseTypeOK'
<1> SUFFICES ASSUME LeaseTypeOK, [LeaseNext]_leaderVars PROVE LeaseTypeOK'
    OBVIOUS
<1> USE LeaseAssumption
<1>1. ASSUME NEW o \in Owners, Claim(o) PROVE LeaseTypeOK'
  BY <1>1, EpochForType DEF Claim, LeaseTypeOK, ReceiptType
<1>2. ASSUME NEW o \in Owners, RenewCheck(o) PROVE LeaseTypeOK'
  BY <1>2 DEF RenewCheck, LeaseTypeOK
<1>3. ASSUME NEW o \in Owners, RenewWrite(o) PROVE LeaseTypeOK'
  <2>1. pending[o].left \in 0..Ttl
    BY <1>3 DEF RenewWrite, LeaseTypeOK, Nothing
  <2>2. (row = NoRow \/ row \in [owner: Owners, epoch: Nat \ {0}, left: 0..Ttl])'
    BY <1>3, <2>1 DEF RenewWrite, LeaseTypeOK, Held
  <2>3. receipt' \in [Owners -> ReceiptType]
    BY <1>3, <2>1 DEF RenewWrite, LeaseTypeOK, ReceiptType
  <2>4. pending' \in [Owners -> {Nothing} \cup [op: {"renew", "release"}, left: 0..Ttl]]
    BY <1>3 DEF RenewWrite, LeaseTypeOK
  <2> QED BY <1>3, <2>2, <2>3, <2>4 DEF RenewWrite, LeaseTypeOK
<1>4. ASSUME NEW o \in Owners, ReleaseCheck(o) PROVE LeaseTypeOK'
  BY <1>4 DEF ReleaseCheck, LeaseTypeOK
<1>5. ASSUME NEW o \in Owners, ReleaseWrite(o) PROVE LeaseTypeOK'
  BY <1>5 DEF ReleaseWrite, LeaseTypeOK, ReceiptType, NoReceipt
<1>6. ASSUME NEW o \in Owners, Forget(o) PROVE LeaseTypeOK'
  BY <1>6 DEF Forget, LeaseTypeOK, ReceiptType, NoReceipt
<1>7. ASSUME LeaderTick PROVE LeaseTypeOK'
  <2>1. (row = NoRow \/ row \in [owner: Owners, epoch: Nat \ {0}, left: 0..Ttl])'
    BY <1>7, LessType DEF LeaderTick, LeaseTypeOK, Held
  <2>2. receipt' \in [Owners -> ReceiptType]
    BY <1>7, LessType DEF LeaderTick, LeaseTypeOK, ReceiptType
  <2>3. pending' \in [Owners -> {Nothing} \cup [op: {"renew", "release"}, left: 0..Ttl]]
    BY <1>7, LessType DEF LeaderTick, LeaseTypeOK
  <2> QED BY <2>1, <2>2, <2>3, <1>7 DEF LeaderTick, LeaseTypeOK
<1>8. CASE UNCHANGED leaderVars
  BY <1>8 DEF leaderVars, LeaseTypeOK
<1> QED BY <1>1, <1>2, <1>3, <1>4, <1>5, <1>6, <1>7, <1>8 DEF LeaseNext

\* The rows, receipts and pending statements of SQLiteLeaderLease keep their types.
THEOREM LeaseTypes == LeaseSpec => []LeaseTypeOK
BY TypeInit, TypeStep, PTL DEF LeaseSpec

-----------------------------------------------------------------------------
(* Epochs *)

Advances ==
  Held /\ row' # NoRow =>
    /\ row'.epoch >= row.epoch
    /\ row'.owner # row.owner => row'.epoch > row.epoch

LEMMA AdvancesStep == LeaseTypeOK /\ [LeaseNext]_leaderVars => Advances \/ UNCHANGED leaderVars
<1> SUFFICES ASSUME LeaseTypeOK, LeaseNext, Held, row' # NoRow
             PROVE  /\ row'.epoch >= row.epoch
                    /\ row'.owner # row.owner => row'.epoch > row.epoch
    BY DEF Advances
<1>1. row.epoch \in Nat
  BY DEF LeaseTypeOK, Held
<1>2. ASSUME NEW o \in Owners, Claim(o)
      PROVE  /\ row'.epoch >= row.epoch
             /\ row'.owner # row.owner => row'.epoch > row.epoch
  BY <1>1, <1>2, EpochForType DEF Claim
<1>3. CASE row'.epoch = row.epoch /\ row'.owner = row.owner
  BY <1>1, <1>3
<1>4. ASSUME NEW o \in Owners, RenewCheck(o) \/ RenewWrite(o) \/ ReleaseCheck(o) \/ Forget(o)
      PROVE  row'.epoch = row.epoch /\ row'.owner = row.owner
  BY <1>4 DEF RenewCheck, RenewWrite, ReleaseCheck, Forget, LeaseTypeOK, Held
<1>5. ASSUME LeaderTick PROVE row'.epoch = row.epoch /\ row'.owner = row.owner
  BY <1>5 DEF LeaderTick, LeaseTypeOK, Held
<1>6. ASSUME NEW o \in Owners, ReleaseWrite(o) PROVE FALSE
  BY <1>6 DEF ReleaseWrite
<1> QED BY <1>2, <1>3, <1>4, <1>5, <1>6 DEF LeaseNext

\* claim: while the row exists its epoch never goes back and grows with every change of
\* the owner, over late renewals, expiry and lost receipts.
THEOREM AdvancingEpochs == LeaseSpec => EpochsAdvance
<1>1. LeaseTypeOK /\ [LeaseNext]_leaderVars
        => [Held /\ row' # NoRow =>
              /\ row'.epoch >= row.epoch
              /\ row'.owner # row.owner => row'.epoch > row.epoch]_leaderVars
  BY AdvancesStep DEF Advances
<1> QED BY <1>1, LeaseTypes, PTL DEF LeaseSpec, EpochsAdvance

-----------------------------------------------------------------------------
(* Owners of an epoch, until a release deletes the row *)

\* No receipt is ahead of the row, and one of its epoch is that of its owner.
ReceiptsFollowTheRow ==
  ~erased => \A o \in Owners :
    /\ receipt[o].epoch <= row.epoch
    /\ receipt[o].epoch = row.epoch /\ Held => row.owner = o

OwnerInv == LeaseTypeOK /\ ReceiptsFollowTheRow /\ EpochHasOneOwner

LEMMA OwnerInit == LeaseInit => OwnerInv
<1> SUFFICES ASSUME LeaseInit PROVE ReceiptsFollowTheRow /\ EpochHasOneOwner
    BY TypeInit DEF OwnerInv
<1> QED BY DEF LeaseInit, ReceiptsFollowTheRow, EpochHasOneOwner, NoReceipt, NoRow, Held

LEMMA OwnerStep == OwnerInv /\ [LeaseNext]_leaderVars => OwnerInv'
<1> SUFFICES ASSUME OwnerInv, [LeaseNext]_leaderVars
             PROVE  ReceiptsFollowTheRow' /\ EpochHasOneOwner'
    BY TypeStep DEF OwnerInv
<1> USE DEF OwnerInv
<1>0. /\ LeaseTypeOK /\ LeaseTypeOK'
      /\ \A o \in Owners : receipt[o].epoch \in Nat
      /\ row.epoch \in Nat
  BY TypeStep DEF LeaseTypeOK, ReceiptType, NoRow
<1>1. ASSUME NEW o \in Owners, Claim(o) PROVE ReceiptsFollowTheRow' /\ EpochHasOneOwner'
  <2>1. /\ receipt'[o].epoch = EpochFor(o) /\ row'.epoch = EpochFor(o) /\ row'.owner = o
        /\ \A a \in Owners \ {o} : receipt'[a].epoch = receipt[a].epoch
        /\ erased' = erased
    BY <1>0, <1>1 DEF Claim, LeaseTypeOK
  <2>2. ~erased => \A a \in Owners \ {o} : receipt[a].epoch < EpochFor(o)
    BY <1>0, EpochForType DEF ReceiptsFollowTheRow, EpochHasOneOwner, Live, EpochFor, NoRow, Held
  <2>3. EpochFor(o) \in Nat
    BY <1>0, EpochForType
  <2>4. ReceiptsFollowTheRow'
    BY <1>0, <2>1, <2>2, <2>3 DEF ReceiptsFollowTheRow
  <2>5. EpochHasOneOwner'
    BY <1>0, <2>1, <2>2, <2>3 DEF EpochHasOneOwner
  <2> QED BY <2>4, <2>5
<1>2. ASSUME NEW o \in Owners, RenewWrite(o) PROVE ReceiptsFollowTheRow' /\ EpochHasOneOwner'
  <2>1. /\ row'.epoch = row.epoch /\ (Held' <=> Held) /\ (Held => row'.owner = row.owner)
        /\ \A a \in Owners : receipt'[a].epoch = receipt[a].epoch
        /\ erased' = erased
    BY <1>0, <1>2 DEF RenewWrite, LeaseTypeOK, Held, ReceiptType, NoRow
  <2> QED BY <1>0, <2>1 DEF ReceiptsFollowTheRow, EpochHasOneOwner
<1>3. ASSUME NEW o \in Owners, RenewCheck(o) \/ ReleaseCheck(o)
      PROVE  ReceiptsFollowTheRow' /\ EpochHasOneOwner'
  BY <1>3 DEF RenewCheck, ReleaseCheck, ReceiptsFollowTheRow, EpochHasOneOwner, Held
<1>4. ASSUME NEW o \in Owners, Forget(o) PROVE ReceiptsFollowTheRow' /\ EpochHasOneOwner'
  <2>1. /\ row' = row /\ erased' = erased
        /\ \A a \in Owners : receipt'[a].epoch = receipt[a].epoch \/ receipt'[a].epoch = 0
    BY <1>0, <1>4 DEF Forget, LeaseTypeOK, NoReceipt
  <2>2. Held => row.epoch # 0
    BY <1>0 DEF LeaseTypeOK, Held
  <2> QED BY <1>0, <2>1, <2>2 DEF ReceiptsFollowTheRow, EpochHasOneOwner, Held
<1>5. ASSUME LeaderTick PROVE ReceiptsFollowTheRow' /\ EpochHasOneOwner'
  <2>1. /\ row'.epoch = row.epoch /\ (Held' <=> Held) /\ (Held => row'.owner = row.owner)
        /\ \A a \in Owners : receipt'[a].epoch = receipt[a].epoch
        /\ erased' = erased
    BY <1>0, <1>5 DEF LeaderTick, LeaseTypeOK, Held, ReceiptType, NoRow
  <2> QED BY <1>0, <2>1 DEF ReceiptsFollowTheRow, EpochHasOneOwner
<1>6. ASSUME NEW o \in Owners, ReleaseWrite(o) PROVE ReceiptsFollowTheRow' /\ EpochHasOneOwner'
  BY <1>6 DEF ReleaseWrite, ReceiptsFollowTheRow, EpochHasOneOwner
<1>7. CASE UNCHANGED leaderVars
  BY <1>7 DEF leaderVars, ReceiptsFollowTheRow, EpochHasOneOwner, Held
<1> QED BY <1>1, <1>2, <1>3, <1>4, <1>5, <1>6, <1>7 DEF LeaseNext

\* claim: until a release deletes the row, an epoch belongs to one owner, over expiry,
\* late renewals and lost receipts.
THEOREM OneOwnerPerEpoch == LeaseSpec => []EpochHasOneOwner
<1>1. OwnerInv => EpochHasOneOwner
  BY DEF OwnerInv
<1> QED BY <1>1, OwnerInit, OwnerStep, PTL DEF LeaseSpec

-----------------------------------------------------------------------------
(* The guard of a transport, for any finite set of callers and any policy; the delays   *)
(* are left out, since nothing here depends on them                                    *)

\* The shape of the circuit and the limiter, without the values of their times.
Shape ==
  /\ DOMAIN circuit = {"state", "failures", "left", "probe"}
  /\ circuit.state \in {"closed", "open", "half_open"}
  /\ DOMAIN limiter = {"running", "requests", "blocked", "throttled"}
  /\ calls \in [Callers -> {"idle", "closed", "half_open"}]

-----------------------------------------------------------------------------
(* What the operations return *)

\* A call is admitted in the state that before_call leaves, which is never open.
LEMMA Admitted ==
  ASSUME Shape, CircuitAllows
  PROVE  /\ DOMAIN BeforeCall = {"state", "failures", "left", "probe"}
         /\ BeforeCall.state \in {"closed", "half_open"}
         /\ MayProbe => BeforeCall.state = "half_open"
         /\ ~MayProbe => BeforeCall = circuit
BY DEF Shape, CircuitAllows, BeforeCall

\* record_failure and record_success end the wait for the probe.
LEMMA Recorded ==
  ASSUME Shape
  PROVE  \A c \in {RecordFailure(circuit), RecordSuccess(circuit), Closed} :
           /\ DOMAIN c = {"state", "failures", "left", "probe"}
           /\ c.state \in {"closed", "open", "half_open"}
           /\ ~c.probe
<1>1. RecordSuccess(circuit) = Closed
  BY DEF RecordSuccess
<1>2. /\ DOMAIN Closed = {"state", "failures", "left", "probe"}
      /\ Closed.state = "closed" /\ Closed.probe = FALSE
  BY DEF Closed
<1>3. /\ DOMAIN RecordFailure(circuit) = {"state", "failures", "left", "probe"}
      /\ RecordFailure(circuit).state \in {"closed", "open"}
      /\ RecordFailure(circuit).probe = FALSE
  BY DEF Shape, RecordFailure
<1> QED BY <1>1, <1>2, <1>3

\* complete_request gives one slot back, however the call ended.
LEMMA Freed ==
  ASSUME Shape, NEW o \in Outcomes, NEW after
  PROVE  /\ DOMAIN CompleteRequest(o, after) = {"running", "requests", "blocked", "throttled"}
         /\ CompleteRequest(o, after).running = Most(0, limiter.running - 1)
BY DEF Shape, CompleteRequest

LEMMA SlotTaken ==
  ASSUME Shape
  PROVE  /\ DOMAIN BeforeRequest = {"running", "requests", "blocked", "throttled"}
         /\ BeforeRequest.running = limiter.running + 1
BY DEF Shape, BeforeRequest

-----------------------------------------------------------------------------
(* The shape *)

LEMMA ShapeInit == GuardInit => Shape
BY DEF GuardInit, Shape, Closed

LEMMA ShapeStep == Shape /\ [GuardNext]_guardVars => Shape'
<1> SUFFICES ASSUME Shape, [GuardNext]_guardVars PROVE Shape'
    OBVIOUS
<1>1. ASSUME NEW c \in Callers, Admit(c) PROVE Shape'
  <2>1. CircuitAllows
    BY <1>1 DEF Admit
  <2> QED BY <1>1, <2>1, Admitted, SlotTaken DEF Admit, Shape
<1>2. ASSUME NEW c \in Callers, Refuse(c) PROVE Shape'
  BY <1>2, Recorded DEF Refuse, AfterRefusal, Shape
<1>3. ASSUME NEW c \in Callers, NEW o \in Outcomes, NEW after \in RetryAfter, End(c, o, after)
      PROVE  Shape'
  BY <1>3, Recorded, Freed DEF End, Shape
<1>4. CASE GuardTick
  BY <1>4 DEF GuardTick, Shape
<1>5. CASE UNCHANGED guardVars
  BY <1>5 DEF guardVars, Shape
<1> QED BY <1>1, <1>2, <1>3, <1>4, <1>5 DEF GuardNext, Comes, Returns

-----------------------------------------------------------------------------
(* The types of the guard: the deque of a scope is in the order of its requests, and    *)
(* every delay is a number that the maximum bounds                                      *)

\* Requests are appended with the whole window left, so that the oldest are at the head.
OldestFirst ==
  \A i, j \in DOMAIN limiter.requests : i <= j => limiter.requests[i] <= limiter.requests[j]

LEMMA PowerOfTwo == \A n \in Nat : 2^n \in Nat
<1> SUFFICES ASSUME NEW n \in Nat PROVE 2^n \in Nat
    OBVIOUS
<1>1. IsFiniteSet(1..n) /\ Cardinality(1..n) = n
  BY FS_Interval
<1>2. IsFiniteSet(SUBSET (1..n)) /\ Cardinality(SUBSET (1..n)) = 2^n
  BY <1>1, FS_SUBSET
<1> QED BY <1>2, FS_CardinalityType

\* A delay never exceeds its maximum.
LEMMA BackoffType ==
  ASSUME NEW first \in Nat, NEW n \in Nat
  PROVE  Backoff(first, n) \in 0..MaxBackoff
<1>1. PICK power \in Nat : power = 2^n
  BY PowerOfTwo
<1>2. first * power \in Nat
  OBVIOUS
<1> QED BY <1>1, <1>2, GuardAssumption DEF Backoff, Least

Smaller == {p \in Nat \X Nat : p[1] < p[2]}

LEMMA SmallerIsWellFounded == IsWellFoundedOn(Smaller, Nat)
BY NatLessThanWellFounded DEF Smaller, OpToRel

\* Of a set of positions that is not empty one is the first.
LEMMA FirstExists ==
  ASSUME NEW S \in SUBSET Nat, S # {}
  PROVE  \E k \in S : \A j \in S : k <= j
<1>1. PICK k \in S : \A j \in S : ~(<<j, k>> \in Smaller)
  BY SmallerIsWellFounded, WFMin
<1>2. ASSUME NEW j \in S PROVE k <= j
  <2>1. ~(j < k)
    BY <1>1 DEF Smaller
  <2> QED BY <2>1
<1> QED BY <1>2

\* Of a set of positions that is bounded and not empty one is the last.
LEMMA LastExists ==
  ASSUME NEW n \in Nat, NEW S \in SUBSET (1 .. n), S # {}
  PROVE  \E k \in S : \A j \in S : j <= k
<1>1. PICK T \in SUBSET Nat : T = {n - i : i \in S}
  <2>1. {n - i : i \in S} \subseteq Nat
    OBVIOUS
  <2> QED BY <2>1
<1>2. T # {}
  BY <1>1
<1>3. PICK t \in T : \A u \in T : t <= u
  BY <1>2, FirstExists
<1>4. PICK k \in S : t = n - k
  BY <1>1
<1>5. ASSUME NEW j \in S PROVE j <= k
  <2>1. n - j \in T
    BY <1>1
  <2>2. n - k <= n - j
    BY <1>3, <1>4, <2>1
  <2> QED BY <2>2
<1> QED BY <1>5

\* The loop of before_request stops: at a request within the window, or at the end.
LEMMA StopsAt ==
  ASSUME NEW len \in Nat, NEW s, \A i \in 1..len : s[i] \in Int
  PROVE  \E k \in 0..len : /\ \A i \in 1..k : s[i] <= 1
                           /\ k < len => s[k + 1] > 1
<1>1. PICK W \in SUBSET Nat : \A i \in Nat : i \in W <=> i \in 1..len /\ s[i] > 1
  <2>1. {i \in Nat : i \in 1..len /\ s[i] > 1} \in SUBSET Nat
    OBVIOUS
  <2> QED BY <2>1
<1>2. CASE W = {}
  <2>1. \A i \in 1..len : s[i] <= 1
    BY <1>1, <1>2
  <2> QED BY <2>1
<1>3. CASE W # {}
  <2>1. PICK f \in W : \A j \in W : f <= j
    BY <1>3, FirstExists
  <2>2. f \in 1..len /\ s[f] > 1
    BY <1>1, <2>1
  <2>3. ASSUME NEW i \in 1..(f - 1) PROVE s[i] <= 1
    <3>1. i \in 1..len /\ ~(f <= i)
      BY <2>2
    <3>2. i \notin W
      BY <2>1, <3>1
    <3> QED BY <1>1, <3>1, <3>2
  <2>4. f - 1 \in 0..len /\ (f - 1) + 1 = f
    BY <2>2
  <2> QED BY <2>2, <2>3, <2>4
<1> QED BY <1>2, <1>3

\* What is behind the first request within the window is within it too, and in order.
LEMMA KeptInOrder ==
  ASSUME NEW len \in Nat, NEW s, \A i \in 1..len : s[i] \in 1..Window,
         \A i, j \in 1..len : i <= j => s[i] <= s[j],
         NEW k \in 0..len, k < len => s[k + 1] > 1
  PROVE  /\ \A i \in 1..(len - k) : s[k + i] - 1 \in 1..Window
         /\ \A i, j \in 1..(len - k) : i <= j => s[k + i] - 1 <= s[k + j] - 1
<1>1. Window \in Nat
  BY GuardAssumption
<1>2. ASSUME NEW i \in 1..(len - k) PROVE s[k + i] \in 2..Window
  <2>1. k + i \in 1..len /\ k + 1 \in 1..len /\ k + 1 <= k + i /\ k < len
    OBVIOUS
  <2>2. PICK x \in 1..Window : x = s[k + 1] /\ x > 1
    BY <2>1
  <2>3. PICK y \in 1..Window : y = s[k + i]
    BY <2>1
  <2>4. x <= y
    BY <2>1, <2>2, <2>3
  <2> QED BY <1>1, <2>2, <2>3, <2>4
<1>3. ASSUME NEW i \in 1..(len - k), NEW j \in 1..(len - k), i <= j
      PROVE  s[k + i] <= s[k + j]
  <2>1. k + i \in 1..len /\ k + j \in 1..len /\ k + i <= k + j
    BY <1>3
  <2> QED BY <2>1
<1> QED BY <1>1, <1>2, <1>3

\* What is in order stays in order: what is taken from the head is what has left the window.
LEMMA InWindowIs ==
  ASSUME NEW s \in Seq(1..Window), \A i, j \in 1..Len(s) : i <= j => s[i] <= s[j]
  PROVE  /\ InWindow(s) \in Seq(1..Window)
         /\ \A i, j \in DOMAIN InWindow(s) : i <= j => InWindow(s)[i] <= InWindow(s)[j]
<1>1. Len(s) \in Nat /\ \A i \in 1..Len(s) : s[i] \in 1..Window /\ s[i] \in Int
  BY GuardAssumption
<1>2. PICK k \in 0..Len(s) : k = Popped(s) /\ (k < Len(s) => s[k + 1] > 1)
  <2>1. \E k \in 0..Len(s) : /\ \A i \in 1..k : s[i] <= 1
                             /\ k < Len(s) => s[k + 1] > 1
    <3>1. PICK len \in Nat : len = Len(s)
      BY <1>1
    <3>2. \A i \in 1..len : s[i] \in Int
      BY <1>1, <3>1
    <3>3. \E k \in 0..len : /\ \A i \in 1..k : s[i] <= 1
                            /\ k < len => s[k + 1] > 1
      BY <3>2, StopsAt
    <3>4. PICK k \in 0..len : (\A i \in 1..k : s[i] <= 1) /\ (k < len => s[k + 1] > 1)
      BY <3>3
    <3>5. k \in 0..Len(s) /\ (k < Len(s) => s[k + 1] > 1)
      BY <3>1, <3>4
    <3> QED BY <3>4, <3>5
  <2>2. /\ Popped(s) \in 0..Len(s)
        /\ Popped(s) < Len(s) => s[Popped(s) + 1] > 1
    BY <2>1, Zenon DEF Popped
  <2> QED BY <2>2
<1>3. /\ \A i \in 1..(Len(s) - k) : s[k + i] - 1 \in 1..Window
      /\ \A i, j \in 1..(Len(s) - k) : i <= j => s[k + i] - 1 <= s[k + j] - 1
  BY <1>1, <1>2, KeptInOrder
<1>4. PICK n \in Nat : n = Len(s) - k
  BY <1>1
<1>5. InWindow(s) = [i \in 1..n |-> s[k + i] - 1]
  BY <1>2, <1>4, Zenon DEF InWindow
<1>6. \A i \in 1..n : s[k + i] - 1 \in 1..Window
  BY <1>3, <1>4
<1>7. [i \in 1..n |-> s[k + i] - 1] \in [1..n -> 1..Window]
  BY <1>6
<1>8. InWindow(s) \in Seq(1..Window)
  <2>1. PICK f \in [1..n -> 1..Window] : f = InWindow(s)
    BY <1>5, <1>7
  <2>2. f \in Seq(1..Window)
    BY SeqDef, Zenon
  <2> QED BY <2>1, <2>2
<1>9. ASSUME NEW i \in 1..n, NEW j \in 1..n, i <= j PROVE s[k + i] - 1 <= s[k + j] - 1
  BY <1>3, <1>4, <1>9
<1>10. DOMAIN InWindow(s) = 1..n
  BY <1>5
<1>11. \A i \in 1..n : InWindow(s)[i] = s[k + i] - 1
  BY <1>5
<1> QED BY <1>8, <1>9, <1>10, <1>11

LEMMA GuardTypeInit == GuardInit => GuardTypeOK /\ OldestFirst
<1> SUFFICES ASSUME GuardInit PROVE GuardTypeOK /\ OldestFirst
    OBVIOUS
<1>1. Cap \in Nat
  BY GuardAssumption DEF Cap
<1>2. <<>> \in Seq(1..Window) /\ DOMAIN << >> = {}
  OBVIOUS
<1>3. circuit \in [state: {"closed", "open", "half_open"}, failures: 0..Cap,
                    left: 0..MaxBackoff, probe: BOOLEAN]
  BY <1>1, GuardAssumption DEF GuardInit, Closed
<1>4. limiter \in [running: Nat, requests: Seq(1..Window), blocked: Nat, throttled: 0..Cap]
  BY <1>1, <1>2 DEF GuardInit
<1>5. storm \in 0..Threshold
  BY GuardAssumption DEF GuardInit
<1>6. OldestFirst
  BY <1>2 DEF GuardInit, OldestFirst
<1> QED BY <1>3, <1>4, <1>5, <1>6 DEF GuardInit, GuardTypeOK

\* What the breaker records of a call.
LEMMA RecordTypes ==
  ASSUME GuardTypeOK
  PROVE  \A c \in {RecordFailure(circuit), RecordSuccess(circuit), BeforeCall} :
           c \in [state: {"closed", "open", "half_open"}, failures: 0..Cap,
                  left: 0..MaxBackoff, probe: BOOLEAN]
<1>1. Cap \in Nat /\ Threshold \in Nat \ {0} /\ Threshold <= Cap /\ MaxBackoff \in Nat
      /\ Base \in Nat
  BY GuardAssumption DEF Cap
<1>2. Closed \in [state: {"closed", "open", "half_open"}, failures: 0..Cap,
                   left: 0..MaxBackoff, probe: BOOLEAN]
  BY <1>1 DEF Closed
<1>3. BeforeCall \in [state: {"closed", "open", "half_open"}, failures: 0..Cap,
                       left: 0..MaxBackoff, probe: BOOLEAN]
  BY DEF GuardTypeOK, BeforeCall
<1>4. RecordFailure(circuit) \in [state: {"closed", "open", "half_open"}, failures: 0..Cap,
                                  left: 0..MaxBackoff, probe: BOOLEAN]
  <2>1. PICK n \in 0..Cap : n = Least(circuit.failures + 1, Cap)
    BY <1>1 DEF GuardTypeOK, Least
  <2>2. CASE n >= Threshold
    <3>1. PICK m \in Nat : m = n - Threshold
      BY <1>1, <2>2
    <3>2. Backoff(Base, n - Threshold) \in 0..MaxBackoff
      BY <1>1, <3>1, BackoffType
    <3> QED BY <2>1, <2>2, <3>2 DEF RecordFailure
  <2>3. CASE ~(n >= Threshold)
    BY <2>1, <2>3 DEF RecordFailure, GuardTypeOK
  <2> QED BY <2>2, <2>3
<1> QED BY <1>2, <1>3, <1>4 DEF RecordSuccess

\* What the governor records of a request and of its end.
LEMMA LimiterTypes ==
  ASSUME GuardTypeOK, NEW o \in Outcomes, NEW after \in RetryAfter
  PROVE  /\ CompleteRequest(o, after) \in [running: Nat, requests: Seq(1..Window), blocked: Nat,
                                           throttled: 0..Cap]
         /\ CompleteRequest(o, after).requests = limiter.requests
<1> DEFINE Deques == Seq(1..Window)
           Limiter == [running: Nat, requests: Deques, blocked: Nat, throttled: 0..Cap]
<1>0. limiter \in Limiter
  BY DEF GuardTypeOK
<1> HIDE DEF Deques
<1>1. Cap \in Nat \ {0} /\ after \in Nat /\ MaxBackoff \in Nat
  BY GuardAssumption DEF Cap
<1>2. PICK m \in Nat : m = Most(0, limiter.running - 1)
  BY <1>0 DEF Most
<1>3. PICK n \in 1..Cap : n = Least(limiter.throttled + 1, Cap)
  BY <1>0, <1>1 DEF Least
<1>4. PICK b \in Nat : b = Most(after, Backoff(1, n - 1))
  <2>1. PICK k \in Nat : k = n - 1
    OBVIOUS
  <2>2. Backoff(1, k) \in 0..MaxBackoff
    BY BackoffType
  <2> QED BY <1>1, <2>1, <2>2 DEF Most
<1>5. PICK freed \in Limiter :
        /\ freed = [limiter EXCEPT !.running = m]
        /\ freed.requests = limiter.requests
  <2>1. [limiter EXCEPT !.running = m] \in Limiter
    BY <1>0
  <2>2. [limiter EXCEPT !.running = m].requests = limiter.requests
    BY <1>0
  <2> QED BY <2>1, <2>2
<1>6. /\ [freed EXCEPT !.throttled = n, !.blocked = b] \in Limiter
      /\ [freed EXCEPT !.throttled = n, !.blocked = b].requests = limiter.requests
  <2>1. PICK l \in Limiter : l = [freed EXCEPT !.throttled = n]
    <3>1. n \in 0..Cap
      BY <1>1
    <3>2. [freed EXCEPT !.throttled = n] \in Limiter
      BY <3>1
    <3> QED BY <3>2
  <2>2. [l EXCEPT !.blocked = b] \in Limiter
    OBVIOUS
  <2>3. [l EXCEPT !.blocked = b] = [freed EXCEPT !.throttled = n, !.blocked = b]
    BY <2>1
  <2>4. [freed EXCEPT !.throttled = n, !.blocked = b].requests = freed.requests
    OBVIOUS
  <2> QED BY <1>5, <2>2, <2>3, <2>4
<1>7. /\ [freed EXCEPT !.throttled = 0, !.blocked = 0] \in Limiter
      /\ [freed EXCEPT !.throttled = 0, !.blocked = 0].requests = limiter.requests
  <2>1. PICK l \in Limiter : l = [freed EXCEPT !.throttled = 0]
    <3>1. 0 \in 0..Cap
      BY <1>1
    <3>2. [freed EXCEPT !.throttled = 0] \in Limiter
      BY <3>1
    <3> QED BY <3>2
  <2>2. [l EXCEPT !.blocked = 0] \in Limiter
    OBVIOUS
  <2>3. [l EXCEPT !.blocked = 0] = [freed EXCEPT !.throttled = 0, !.blocked = 0]
    BY <2>1
  <2>4. [freed EXCEPT !.throttled = 0, !.blocked = 0].requests = freed.requests
    OBVIOUS
  <2> QED BY <1>5, <2>2, <2>3, <2>4
<1>8. CompleteRequest(o, after) =
        IF o = "throttled" THEN [freed EXCEPT !.throttled = n, !.blocked = b]
        ELSE IF o = "fine" THEN [freed EXCEPT !.throttled = 0, !.blocked = 0]
        ELSE freed
  BY <1>2, <1>3, <1>4, <1>5 DEF CompleteRequest
<1>9. CompleteRequest(o, after) \in Limiter /\ CompleteRequest(o, after).requests = limiter.requests
  BY <1>5, <1>6, <1>7, <1>8
<1> QED BY <1>9 DEF Deques

LEMMA TakenSlot ==
  ASSUME GuardTypeOK
  PROVE  /\ BeforeRequest \in [running: Nat, requests: Seq(1..Window), blocked: Nat,
                               throttled: 0..Cap]
         /\ BeforeRequest.requests = IF Window = 0 THEN limiter.requests
                                     ELSE Append(limiter.requests, Window)
<1> DEFINE Deques == Seq(1..Window)
           Limiter == [running: Nat, requests: Deques, blocked: Nat, throttled: 0..Cap]
<1>1. limiter \in Limiter
  BY DEF GuardTypeOK
<1>2. PICK q \in Deques : q = IF Window = 0 THEN limiter.requests
                             ELSE Append(limiter.requests, Window)
  <2>1. limiter.requests \in Seq(1..Window)
    BY <1>1
  <2>2. Window # 0 => Append(limiter.requests, Window) \in Seq(1..Window)
    BY <2>1, GuardAssumption
  <2> QED BY <2>1, <2>2
<1> HIDE DEF Deques
<1>3. BeforeRequest = [limiter EXCEPT !.running = @ + 1, !.requests = q]
  BY <1>2 DEF BeforeRequest
<1>4. BeforeRequest \in Limiter
  <2>1. PICK m \in Nat : m = limiter.running + 1
    BY <1>1
  <2>2. PICK l \in Limiter : l = [limiter EXCEPT !.running = m]
    BY <1>1
  <2>3. [l EXCEPT !.requests = q] \in Limiter
    OBVIOUS
  <2> QED BY <1>3, <2>1, <2>2, <2>3
<1>5. BeforeRequest.requests = q
  BY <1>1, <1>3
<1> QED BY <1>2, <1>4, <1>5 DEF Deques

LEMMA GuardTypeStep ==
  GuardTypeOK /\ OldestFirst /\ [GuardNext]_guardVars => GuardTypeOK' /\ OldestFirst'
<1> SUFFICES ASSUME GuardTypeOK, OldestFirst, [GuardNext]_guardVars
             PROVE  GuardTypeOK' /\ OldestFirst'
    OBVIOUS
<1> DEFINE Limiter == [running: Nat, requests: Seq(1..Window), blocked: Nat, throttled: 0..Cap]
           Ordered(s) == \A i, j \in DOMAIN s : i <= j => s[i] <= s[j]
<1>1. ASSUME NEW c \in Callers, Admit(c) PROVE GuardTypeOK' /\ OldestFirst'
  <2>1. calls' \in [Callers -> {"idle", "closed", "half_open"}]
    <3>1. Shape
      BY DEF GuardTypeOK, Shape
    <3>2. BeforeCall.state \in {"closed", "half_open"}
      BY <1>1, <3>1, Admitted DEF Admit
    <3> QED BY <1>1, <3>2 DEF Admit, GuardTypeOK
  <2>2. limiter.requests \in Seq(1..Window) /\ Window \in Nat
    BY GuardAssumption DEF GuardTypeOK
  <2>3. CASE Window = 0
    <3>1. limiter' \in Limiter /\ limiter'.requests = limiter.requests
      BY <1>1, <2>3, TakenSlot DEF Admit
    <3>2. OldestFirst'
      BY <3>1 DEF OldestFirst
    <3> QED BY <1>1, <2>1, <3>1, <3>2, RecordTypes DEF Admit, GuardTypeOK
  <2>4. CASE Window # 0
    <3>1. limiter' \in Limiter /\ limiter'.requests = Append(limiter.requests, Window)
      BY <1>1, <2>4, TakenSlot DEF Admit
    <3>2. PICK s \in Seq(1..Window) : s = limiter.requests
      BY <2>2
    <3>3. Ordered(Append(s, Window))
      <4>1. \A i \in 1..Len(s) : s[i] \in 1..Window
        BY <2>2
      <4>2. Ordered(s)
        BY <3>2 DEF OldestFirst
      <4>3. \A i \in 1..Len(s) : Append(s, Window)[i] = s[i]
        BY <2>2
      <4>4. Append(s, Window)[Len(s) + 1] = Window /\ Len(Append(s, Window)) = Len(s) + 1
        BY <2>2, <2>4
      <4>5. DOMAIN Append(s, Window) = 1..(Len(s) + 1)
        BY <2>2, <2>4
      <4>6. ASSUME NEW i \in 1..(Len(s) + 1), NEW j \in 1..(Len(s) + 1), i <= j
            PROVE  Append(s, Window)[i] <= Append(s, Window)[j]
        <5>1. CASE j = Len(s) + 1
          BY <2>2, <4>1, <4>3, <4>4, <5>1
        <5>2. CASE j # Len(s) + 1
          <6>1. i \in 1..Len(s) /\ j \in 1..Len(s)
            BY <4>6, <5>2
          <6> QED BY <6>1, <4>2, <4>3, <4>6
        <5> QED BY <5>1, <5>2
      <4> QED BY <4>5, <4>6
    <3>4. OldestFirst'
      BY <3>1, <3>2, <3>3 DEF OldestFirst
    <3> QED BY <1>1, <2>1, <3>1, <3>4, RecordTypes DEF Admit, GuardTypeOK
  <2> QED BY <2>3, <2>4
<1>2. ASSUME NEW c \in Callers, Refuse(c) PROVE GuardTypeOK' /\ OldestFirst'
  BY <1>2, RecordTypes DEF Refuse, AfterRefusal, GuardTypeOK, OldestFirst
<1>3. ASSUME NEW c \in Callers, NEW o \in Outcomes, NEW after \in RetryAfter, End(c, o, after)
      PROVE  GuardTypeOK' /\ OldestFirst'
  <2>1. storm' \in 0..Threshold
    BY <1>3, GuardAssumption DEF End, GuardTypeOK, Least
  <2>2. limiter' \in Limiter /\ limiter'.requests = limiter.requests
    BY <1>3, LimiterTypes DEF End
  <2>3. OldestFirst'
    BY <2>2 DEF OldestFirst
  <2> QED BY <1>3, <2>1, <2>2, <2>3, RecordTypes DEF End, GuardTypeOK
<1>4. CASE GuardTick
  <2>1. limiter.requests \in Seq(1..Window)
    BY DEF GuardTypeOK
  <2>2. PICK s \in Seq(1..Window) : s = limiter.requests
    BY <2>1
  <2>3. InWindow(s) \in Seq(1..Window) /\ Ordered(InWindow(s))
    BY <2>2, InWindowIs DEF OldestFirst
  <2>4. PICK b \in Nat : b = OneLess(limiter.blocked)
    BY DEF GuardTypeOK, OneLess
  <2>5. limiter' = [limiter EXCEPT !.blocked = b, !.requests = InWindow(s)]
    BY <1>4, <2>2, <2>4 DEF GuardTick
  <2>6. limiter' \in Limiter /\ limiter'.requests = InWindow(s)
    BY <2>3, <2>5 DEF GuardTypeOK
  <2>7. OldestFirst'
    BY <2>3, <2>6 DEF OldestFirst
  <2>8. OneLess(circuit.left) \in 0..MaxBackoff
    BY GuardAssumption DEF GuardTypeOK, OneLess
  <2> QED BY <1>4, <2>6, <2>7, <2>8 DEF GuardTick, GuardTypeOK
<1>5. CASE UNCHANGED guardVars
  BY <1>5 DEF guardVars, GuardTypeOK, OldestFirst
<1> QED BY <1>1, <1>2, <1>3, <1>4, <1>5 DEF GuardNext, Comes, Returns

\* Every delay of a breaker and of a governor is a number that the maximum bounds, and
\* the deque of a scope holds requests of the window only, whatever calls end with.
THEOREM GuardTypes == GuardSpec => []GuardTypeOK
BY GuardTypeInit, GuardTypeStep, PTL DEF GuardSpec

-----------------------------------------------------------------------------
(* Slots *)

LEMMA RunningIsFinite == IsFiniteSet(Running) /\ Cardinality(Running) \in Nat
<1>1. Running \subseteq Callers
  BY DEF Running
<1> QED BY <1>1, GuardAssumption, FS_Subset, FS_CardinalityType

LEMMA SlotsStep == Shape /\ SlotsAreExact /\ [GuardNext]_guardVars => SlotsAreExact'
<1> SUFFICES ASSUME Shape, SlotsAreExact, [GuardNext]_guardVars PROVE SlotsAreExact'
    OBVIOUS
<1>1. ASSUME NEW c \in Callers, Admit(c) PROVE SlotsAreExact'
  <2>1. BeforeCall.state # "idle"
    BY <1>1, Admitted DEF Admit
  <2>2. c \notin Running /\ Running' = Running \cup {c}
    BY <1>1, <2>1 DEF Admit, Running, Shape
  <2>3. Cardinality(Running') = Cardinality(Running) + 1
    BY <2>2, RunningIsFinite, FS_AddElement
  <2>4. limiter'.running = limiter.running + 1
    BY <1>1, SlotTaken DEF Admit
  <2> QED BY <2>3, <2>4 DEF SlotsAreExact
<1>2. ASSUME NEW c \in Callers, Refuse(c) PROVE SlotsAreExact'
  BY <1>2 DEF Refuse, SlotsAreExact, Running
<1>3. ASSUME NEW c \in Callers, NEW o \in Outcomes, NEW after \in RetryAfter, End(c, o, after)
      PROVE  SlotsAreExact'
  <2>1. c \in Running /\ Running' = Running \ {c}
    BY <1>3 DEF End, Running, Shape
  <2>2. Cardinality(Running') = Cardinality(Running) - 1
    BY <2>1, RunningIsFinite, FS_RemoveElement
  <2>3. Cardinality(Running) # 0
    BY <2>1, RunningIsFinite, FS_EmptySet
  <2>4. limiter'.running = Most(0, limiter.running - 1)
    BY <1>3, Freed DEF End
  <2> QED BY <2>2, <2>3, <2>4, RunningIsFinite DEF SlotsAreExact, Most
<1>4. CASE GuardTick
  BY <1>4 DEF GuardTick, SlotsAreExact, Running, Shape
<1>5. CASE UNCHANGED guardVars
  BY <1>5 DEF guardVars, SlotsAreExact, Running
<1> QED BY <1>1, <1>2, <1>3, <1>4, <1>5 DEF GuardNext, Comes, Returns

\* complete_request: the governor counts exactly the operations that run, for any
\* number of callers, any policy and every way a call may end.
THEOREM ExactSlots == GuardSpec => []SlotsAreExact
<1>1. GuardInit => SlotsAreExact
  <2> SUFFICES ASSUME GuardInit PROVE SlotsAreExact
      OBVIOUS
  <2>1. Running = {}
    BY DEF GuardInit, Running
  <2> QED BY <2>1, FS_EmptySet DEF GuardInit, SlotsAreExact
<1> QED BY <1>1, ShapeInit, ShapeStep, SlotsStep, PTL DEF GuardSpec

-----------------------------------------------------------------------------
(* The probe *)

LEMMA ProbeStep == Shape /\ ProbeIsRunning /\ [GuardNext]_guardVars => ProbeIsRunning'
<1> SUFFICES ASSUME Shape, ProbeIsRunning, [GuardNext]_guardVars PROVE ProbeIsRunning'
    OBVIOUS
<1>1. ASSUME NEW c \in Callers, Admit(c) PROVE ProbeIsRunning'
  <2>1. CASE MayProbe
    <3>1. calls'[c] = "half_open"
      BY <1>1, <2>1, Admitted DEF Admit, Shape
    <3> QED BY <3>1 DEF ProbeIsRunning
  <2>2. CASE ~MayProbe
    <3>1. circuit' = circuit /\ \A d \in Callers \ {c} : calls'[d] = calls[d]
      BY <1>1, <2>2, Admitted DEF Admit, Shape
    <3> QED BY <1>1, <3>1 DEF Admit, ProbeIsRunning
  <2> QED BY <2>1, <2>2
<1>2. ASSUME NEW c \in Callers, Refuse(c) PROVE ProbeIsRunning'
  BY <1>2, Recorded DEF Refuse, AfterRefusal, ProbeIsRunning
<1>3. ASSUME NEW c \in Callers, NEW o \in Outcomes, NEW after \in RetryAfter, End(c, o, after)
      PROVE  ProbeIsRunning'
  BY <1>3, Recorded DEF End, ProbeIsRunning
<1>4. CASE GuardTick
  BY <1>4 DEF GuardTick, ProbeIsRunning, Shape
<1>5. CASE UNCHANGED guardVars
  BY <1>5 DEF guardVars, ProbeIsRunning
<1> QED BY <1>1, <1>2, <1>3, <1>4, <1>5 DEF GuardNext, Comes, Returns

\* before_call: a circuit that refuses calls because a probe is in flight has one in
\* flight, whatever the rate limit refused and however calls end.
THEOREM RunningProbe == GuardSpec => []ProbeIsRunning
<1>1. GuardInit => ProbeIsRunning
  BY DEF GuardInit, ProbeIsRunning, Closed
<1> QED BY <1>1, ShapeInit, ShapeStep, ProbeStep, PTL DEF GuardSpec

\* No way a call may end leaves a slot or a probe behind.
THEOREM NothingIsLeft == GuardSpec => []NothingStaysBehind
<1>1. SlotsAreExact /\ ProbeIsRunning => NothingStaysBehind
  BY DEF NothingStaysBehind
<1> QED BY <1>1, ExactSlots, RunningProbe, PTL

-----------------------------------------------------------------------------
(* The lifecycle of orders, for every set of orders and every replacement *)

\* A new order has filled nothing and no order fills beyond its size.
FillsFit ==
  \A o \in OrderIds : /\ phase[o] = "new" => filled[o] = 0
                      /\ filled[o] <= Size[o]

\* Once an order has replaced another, the other is closed and what the two may
\* fill fits the first ticket: ExposureIsKept needs this of the sizes, since the
\* fills of the new order are still to come.
TakenOver ==
  \A o \in OrderIds :
    Old[o] # NoOne /\ phase[o] # "new"
      => phase[Old[o]] = "closed" /\ Size[o] <= Size[Old[o]] - filled[Old[o]]

LifecycleInv == TypeOK /\ FillsFit /\ TakenOver

\* What the constants are.
LEMMA Tickets ==
  /\ \A o \in OrderIds : Size[o] \in Nat \ {0}
  /\ \A o \in OrderIds : Old[o] \in OrderIds \cup {NoOne}
  /\ NoOne \notin OrderIds
BY LifecycleAssumption

\* A step that opens or closes one order keeps the invariant, if nothing takes
\* over the order it opens and the order it opens takes nothing over.
LEMMA OnePhase ==
  ASSUME LifecycleInv, NEW o \in OrderIds, NEW p \in {"live", "closed"},
         phase' = [phase EXCEPT ![o] = p], UNCHANGED filled,
         \/ phase[o] = "new" /\ Old[o] = NoOne
         \/ phase[o] = "live" /\ p = "closed"
  PROVE  LifecycleInv'
<1>1. TypeOK'
  BY DEF LifecycleInv, TypeOK
<1>2. phase'[o] = p /\ \A x \in OrderIds \ {o} : phase'[x] = phase[x]
  BY DEF LifecycleInv, TypeOK
<1>3. FillsFit'
  BY <1>2 DEF LifecycleInv, FillsFit
<1>4. ASSUME NEW x \in OrderIds, Old[x] # NoOne, phase'[x] # "new"
      PROVE  phase'[Old[x]] = "closed" /\ Size[x] <= Size[Old[x]] - filled'[Old[x]]
  <2>1. phase[x] # "new" /\ Old[x] \in OrderIds
    BY <1>2, <1>4, Tickets
  <2>2. phase[Old[x]] = "closed" /\ Size[x] <= Size[Old[x]] - filled[Old[x]]
    BY <1>4, <2>1 DEF LifecycleInv, TakenOver
  <2> QED BY <1>2, <2>1, <2>2
<1> QED BY <1>1, <1>3, <1>4 DEF LifecycleInv, TakenOver

\* The replacement takes its predecessor over.
LEMMA ReplaceStep ==
  ASSUME LifecycleInv, NEW o \in OrderIds, Replace(o)
  PROVE  LifecycleInv'
<1> DEFINE old == Old[o]
<1>1. /\ old \in OrderIds /\ o # old
      /\ phase[o] = "new" /\ phase[old] = "live" /\ Size[o] <= Size[old] - filled[old]
      /\ filled' = filled
  BY Tickets DEF Replace
<1>2. /\ phase'[o] = "live" /\ phase'[old] = "closed"
      /\ \A x \in OrderIds \ {o, old} : phase'[x] = phase[x]
  BY <1>1 DEF LifecycleInv, TypeOK, Replace
<1>3. TypeOK'
  BY <1>1 DEF LifecycleInv, TypeOK, Replace
<1>4. FillsFit'
  BY <1>1, <1>2 DEF LifecycleInv, FillsFit
<1>5. ASSUME NEW x \in OrderIds, Old[x] # NoOne, phase'[x] # "new"
      PROVE  phase'[Old[x]] = "closed" /\ Size[x] <= Size[Old[x]] - filled'[Old[x]]
  <2>1. Old[x] \in OrderIds
    BY <1>5, Tickets
  <2>2. CASE x = o
    BY <1>1, <1>2, <2>2
  <2>3. CASE x # o
    <3>1. phase[x] # "new"
      BY <1>1, <1>2, <1>5, <2>3
    <3>2. phase[Old[x]] = "closed" /\ Size[x] <= Size[Old[x]] - filled[Old[x]]
      BY <1>5, <3>1 DEF LifecycleInv, TakenOver
    <3> QED BY <1>1, <1>2, <2>1, <3>2
  <2> QED BY <2>2, <2>3
<1> QED BY <1>3, <1>4, <1>5 DEF LifecycleInv, TakenOver

\* A fill stays within the size and leaves closed orders alone.
LEMMA FillStep ==
  ASSUME LifecycleInv, NEW o \in OrderIds, NEW quantity \in 1..Size[o], Fill(o, quantity)
  PROVE  LifecycleInv'
<1>1. quantity \in Nat /\ phase[o] = "live" /\ phase' = phase
      /\ filled[o] + quantity <= Size[o] /\ filled[o] \in Nat
  BY Tickets DEF Fill, LifecycleInv, TypeOK
<1>2. /\ filled' \in [OrderIds -> Nat]
      /\ filled'[o] = filled[o] + quantity
      /\ \A x \in OrderIds \ {o} : filled'[x] = filled[x]
  BY <1>1 DEF LifecycleInv, TypeOK, Fill
<1>3. TypeOK' /\ FillsFit'
  BY <1>1, <1>2 DEF LifecycleInv, TypeOK, FillsFit
<1>4. ASSUME NEW x \in OrderIds, Old[x] # NoOne, phase'[x] # "new"
      PROVE  phase'[Old[x]] = "closed" /\ Size[x] <= Size[Old[x]] - filled'[Old[x]]
  <2>1. /\ Old[x] \in OrderIds /\ phase[Old[x]] = "closed"
        /\ Size[x] <= Size[Old[x]] - filled[Old[x]]
    BY <1>1, <1>4, Tickets DEF LifecycleInv, TakenOver
  <2> QED BY <1>1, <1>2, <2>1
<1> QED BY <1>3, <1>4 DEF LifecycleInv, TakenOver

\* Every step of the lifecycle keeps the invariant.
LEMMA LifecycleStep ==
  ASSUME LifecycleInv, [Next]_vars
  PROVE  LifecycleInv'
<1>1. ASSUME NEW o \in OrderIds, Accept(o) \/ TurnAway(o) \/ Close(o)
      PROVE  LifecycleInv'
  BY <1>1, OnePhase DEF Accept, TurnAway, Close
<1>2. CASE UNCHANGED vars
  BY <1>2 DEF LifecycleInv, TypeOK, FillsFit, TakenOver, vars
<1> QED BY <1>1, <1>2, ReplaceStep, FillStep DEF Next

\* The invariant holds from the start: nothing is accepted and nothing is filled.
LEMMA LifecycleInit ==
  ASSUME Init
  PROVE  LifecycleInv
BY Tickets DEF Init, LifecycleInv, TypeOK, FillsFit, TakenOver

\* LifecycleInv is invariant.
THEOREM LifecycleInvariant == Spec => []LifecycleInv
<1>1. Init => LifecycleInv
  BY LifecycleInit
<1>2. LifecycleInv /\ [Next]_vars => LifecycleInv'
  BY LifecycleStep
<1> QED BY <1>1, <1>2, PTL DEF Spec

\* Whatever is replaced and filled in whatever order, an order and its replacement
\* never fill more than the first ticket asked for.
THEOREM KeptExposure == Spec => []ExposureIsKept
<1>1. LifecycleInv => ExposureIsKept
  <2> SUFFICES ASSUME LifecycleInv, NEW o \in OrderIds, Old[o] # NoOne
               PROVE  filled[o] + filled[Old[o]] <= Size[Old[o]]
    BY DEF ExposureIsKept
  <2>1. /\ Old[o] \in OrderIds /\ filled[o] \in Nat /\ filled[Old[o]] \in Nat
        /\ Size[o] \in Nat /\ Size[Old[o]] \in Nat
    BY Tickets DEF LifecycleInv, TypeOK
  <2>2. CASE phase[o] = "new"
    BY <2>1, <2>2 DEF LifecycleInv, FillsFit
  <2>3. CASE phase[o] # "new"
    BY <2>1, <2>3 DEF LifecycleInv, FillsFit, TakenOver
  <2> QED BY <2>2, <2>3
<1> QED BY <1>1, LifecycleInvariant, PTL

\* A closed order stays closed and fills no more.
THEOREM FinalClosed == Spec => ClosedIsFinal
<1> DEFINE Stays == \A o \in OrderIds :
             phase[o] = "closed" => phase'[o] = "closed" /\ filled'[o] = filled[o]
<1>1. ASSUME LifecycleInv, [Next]_vars
      PROVE  Stays
  <2>1. phase \in [OrderIds -> {"new", "live", "closed"}] /\ filled \in [OrderIds -> Nat]
    BY <1>1 DEF LifecycleInv, TypeOK
  <2>2. ASSUME NEW o \in OrderIds, Accept(o) \/ TurnAway(o) \/ Close(o)
        PROVE  Stays
    BY <2>1, <2>2 DEF Accept, TurnAway, Close
  <2>3. ASSUME NEW o \in OrderIds, Replace(o)
        PROVE  Stays
    BY <2>1, <2>3, Tickets DEF Replace
  <2>4. ASSUME NEW o \in OrderIds, NEW quantity \in 1..Size[o], Fill(o, quantity)
        PROVE  Stays
    BY <2>1, <2>4 DEF Fill
  <2>5. CASE UNCHANGED vars
    BY <2>5 DEF vars
  <2> QED BY <1>1, <2>2, <2>3, <2>4, <2>5 DEF Next
<1>2. LifecycleInv /\ [Next]_vars => [Stays]_vars
  BY <1>1
<1>3. Spec => [][Stays]_vars
  BY <1>2, LifecycleInvariant, PTL DEF Spec
<1> QED BY <1>3 DEF ClosedIsFinal

-----------------------------------------------------------------------------
(* The market feed *)

FeedTypes ==
  /\ emitted \in Nat
  /\ tracker \in [last: Nat, unresolved: BOOLEAN, allowed: BOOLEAN]
  /\ snapshot \in Nat
  /\ origin \in Nat

\* A tracker that counts began with an event or a snapshot, and without an unresolved
\* gap it has seen everything since.  What was allowed last was allowed on such a feed.
Whole == origin .. tracker.last \subseteq observed
FeedInv ==
  /\ FeedTypes
  /\ tracker.last # 0 => origin # 0
  /\ tracker.last # 0 /\ ~tracker.unresolved => Whole
  /\ tracker.allowed => tracker.last # 0 /\ Whole

\* The first event or snapshot is where the tracker begins to count.
LEMMA FeedInitInv == FeedInit => FeedInv
BY DEF FeedInit, FeedInv, FeedTypes, NotStarted

\* An event that is observed, whatever becomes of its receipt.
LEMMA ObserveInv ==
  ASSUME FeedInv, NEW s \in 1 .. emitted, Observe(s)
  PROVE  FeedInv'
<1> USE DEF FeedInv, FeedTypes, Whole
<1>1. /\ tracker' = Tracked(s)
      /\ origin' = IF tracker.last = 0 THEN s ELSE origin
      /\ observed' = observed \cup {s}
      /\ UNCHANGED <<emitted, snapshot>>
  BY DEF Observe
<1>2. s \in Nat \ {0}
  OBVIOUS
<1>3. /\ Tracked(s).last = IF s > tracker.last THEN s ELSE tracker.last
      /\ Tracked(s).unresolved = (tracker.unresolved \/ IsGap(s))
      /\ Tracked(s).allowed = MayTrade(s)
      /\ Tracked(s) \in [last: Nat, unresolved: BOOLEAN, allowed: BOOLEAN]
  BY <1>2 DEF Tracked, IsGap, MayTrade, IsNext
<1>4. CASE tracker.last = 0
  BY <1>1, <1>2, <1>3, <1>4
<1>5. CASE tracker.last # 0
  <2>1. FeedTypes' /\ tracker'.last # 0 /\ origin' # 0
    BY <1>1, <1>2, <1>3, <1>5
  <2>2. ASSUME ~tracker.unresolved, ~IsGap(s)
        PROVE  Whole'
    BY <1>1, <1>2, <1>3, <1>5, <2>2 DEF IsGap
  <2>3. MayTrade(s) => ~tracker.unresolved /\ ~IsGap(s)
    BY <1>2, <1>5 DEF MayTrade, IsNext, IsGap
  <2> QED
    BY <1>1, <1>3, <2>1, <2>2, <2>3
<1> QED
  BY <1>4, <1>5

\* A snapshot stands for everything up to its number.
LEMMA RecoverInv ==
  ASSUME FeedInv, RecoverSnapshot
  PROVE  FeedInv'
<1> USE DEF FeedInv, FeedTypes, Whole
<1>1. /\ snapshot # 0 /\ snapshot' = 0
      /\ emitted' = emitted
      /\ \/ /\ IsCurrent
            /\ tracker' = [tracker EXCEPT !.last = snapshot, !.unresolved = FALSE]
            /\ origin' = IF tracker.last = 0 THEN snapshot ELSE origin
            /\ observed' = observed \cup 1 .. snapshot
         \/ UNCHANGED <<tracker, seen>>
  BY DEF RecoverSnapshot
<1>2. CASE UNCHANGED <<tracker, seen>>
  BY <1>1, <1>2 DEF seen
<1>3. CASE /\ IsCurrent
           /\ tracker' = [tracker EXCEPT !.last = snapshot, !.unresolved = FALSE]
           /\ origin' = IF tracker.last = 0 THEN snapshot ELSE origin
           /\ observed' = observed \cup 1 .. snapshot
  <2>1. FeedTypes' /\ origin' # 0 /\ tracker'.last = snapshot
    BY <1>1, <1>3
  <2>2. Whole'
    BY <1>1, <1>3, <2>1
  <2> QED
    BY <1>1, <2>1, <2>2
<1> QED
  BY <1>1, <1>2, <1>3

LEMMA FeedStepInv == FeedInv /\ [FeedNext]_feedVars => FeedInv'
<1> SUFFICES ASSUME FeedInv, [FeedNext]_feedVars PROVE FeedInv'
  OBVIOUS
<1> USE DEF FeedInv, FeedTypes, Whole
<1>1. CASE Emit
  BY <1>1 DEF Emit, seen
<1>2. ASSUME NEW s \in 1 .. emitted, Observe(s) PROVE FeedInv'
  BY <1>2, ObserveInv
<1>3. CASE ObserveUnsequenced
  BY <1>3 DEF ObserveUnsequenced, seen
<1>4. CASE TakeSnapshot
  BY <1>4 DEF TakeSnapshot, seen
<1>5. CASE RecoverSnapshot
  BY <1>5, RecoverInv
<1>6. CASE FeedRestarts
  BY <1>6 DEF FeedRestarts, NotStarted
<1>7. CASE UNCHANGED feedVars
  BY <1>7 DEF feedVars, seen
<1> QED
  BY <1>1, <1>2, <1>3, <1>4, <1>5, <1>6, <1>7 DEF FeedNext

-----------------------------------------------------------------------------
(* The types of the feed *)

\* A longer range of numbers holds the sequences of the shorter one.
LEMMA MoreNumbers ==
  ASSUME NEW n \in Nat, NEW s \in Seq(1 .. n)
  PROVE  s \in Seq(1 .. (n + 1))
OBVIOUS

LEMMA OneMore ==
  ASSUME NEW n \in Nat, NEW s \in Seq(1 .. n), NEW x \in 1 .. n
  PROVE  /\ Append(s, x) \in Seq(1 .. n) /\ Len(Append(s, x)) = Len(s) + 1
         /\ DOMAIN s = 1 .. Len(s) /\ Len(s) \in Nat
         /\ DOMAIN Append(s, x) = 1 .. (Len(s) + 1)
OBVIOUS

\* _latest_durable_gap finds one of the receipts, when there is one to find.
LEMMA GapIsReceipt ==
  ASSUME FeedTypeOK
  PROVE  GapToRecover \in DOMAIN gaps \cup {0}
<1>1. PICK n \in Nat : DOMAIN gaps = 1 .. n
  BY DEF FeedTypeOK
<1>2. Unrecovered \in SUBSET (1 .. n)
  BY <1>1 DEF Unrecovered
<1>3. LatestDurableGap \in (1 .. n) \cup {0}
  <2>1. CASE Unrecovered = {}
    BY <2>1 DEF LatestDurableGap
  <2>2. CASE Unrecovered # {}
    <3>1. \E k \in Unrecovered : \A j \in Unrecovered : j <= k
      BY <1>2, <2>2, LastExists
    <3>2. LatestDurableGap \in Unrecovered
      BY <2>2, <3>1, Zenon DEF LatestDurableGap
    <3> QED BY <1>2, <3>2
  <2> QED BY <2>1, <2>2
<1> QED BY <1>1, <1>3 DEF GapToRecover, FeedTypeOK

LEMMA FeedTypeInit == FeedInit => FeedTypeOK
<1>1. << >> \in Seq(1 .. 0) /\ DOMAIN << >> = {}
  OBVIOUS
<1> QED BY <1>1, FeedAssumption DEF FeedInit, FeedTypeOK, NotStarted

LEMMA ObserveTypes ==
  ASSUME FeedTypeOK, NEW s \in 1 .. emitted, Observe(s)
  PROVE  FeedTypeOK'
<1>1. /\ tracker' = Tracked(s)
      /\ origin' = IF tracker.last = 0 THEN s ELSE origin
      /\ observed' = observed \cup {s}
      /\ UNCHANGED <<emitted, recovered, snapshot, starts>>
      /\ \/ /\ gaps' = Append(gaps, s) /\ latest' = Len(gaps')
         \/ gaps' = gaps /\ latest' = latest
      /\ passedOn' \in {passedOn, passedOn \cup {s}}
  BY DEF Observe
<1>2. emitted \in Nat /\ s \in 1 .. emitted /\ gaps \in Seq(1 .. emitted)
  BY DEF FeedTypeOK
<1>3. /\ tracker' \in [last: 0 .. emitted, unresolved: BOOLEAN, allowed: BOOLEAN]
      /\ tracker'.last = IF s > tracker.last THEN s ELSE tracker.last
  BY <1>1, <1>2 DEF FeedTypeOK, Tracked, IsGap, MayTrade, IsNext
<1>4. origin' \in 0 .. tracker'.last
  BY <1>1, <1>2, <1>3 DEF FeedTypeOK
<1>5. /\ gaps' \in Seq(1 .. emitted) /\ recovered \subseteq DOMAIN gaps'
      /\ latest' \in DOMAIN gaps' \cup {0}
  <2>1. CASE gaps' = gaps /\ latest' = latest
    BY <2>1 DEF FeedTypeOK
  <2>2. CASE gaps' = Append(gaps, s) /\ latest' = Len(gaps')
    <3>1. PICK l \in Nat : /\ DOMAIN gaps = 1 .. l /\ DOMAIN gaps' = 1 .. (l + 1)
                           /\ gaps' \in Seq(1 .. emitted) /\ latest' = l + 1
      BY <1>2, <2>2, OneMore
    <3> QED BY <3>1 DEF FeedTypeOK
  <2> QED BY <1>1, <2>1, <2>2
<1>6. passedOn' \subseteq observed' /\ observed' \subseteq 1 .. emitted
  BY <1>1, <1>2 DEF FeedTypeOK
<1> QED BY <1>1, <1>3, <1>4, <1>5, <1>6 DEF FeedTypeOK

LEMMA RecoverTypes ==
  ASSUME FeedTypeOK, RecoverSnapshot
  PROVE  FeedTypeOK'
<1>1. /\ snapshot # 0 /\ snapshot' = 0 /\ UNCHANGED <<emitted, gaps, starts>>
      /\ snapshot \in 1 .. emitted /\ emitted \in Nat
  BY DEF RecoverSnapshot, FeedTypeOK
<1>2. recovered' \subseteq DOMAIN gaps
  <2>1. MayBeRecorded(GapToRecover) => GapToRecover \in DOMAIN gaps
    BY GapIsReceipt DEF MayBeRecorded
  <2> QED BY <2>1 DEF RecoverSnapshot, FeedTypeOK
<1>3. CASE UNCHANGED <<tracker, latest, seen>>
  BY <1>1, <1>2, <1>3 DEF FeedTypeOK, seen
<1>4. CASE /\ IsCurrent
           /\ tracker' = [tracker EXCEPT !.last = snapshot, !.unresolved = FALSE]
           /\ latest' = 0
           /\ origin' = IF tracker.last = 0 THEN snapshot ELSE origin
           /\ observed' = observed \cup 1 .. snapshot
           /\ passedOn' = passedOn \cup 1 .. snapshot
  <2>1. /\ tracker' \in [last: 0 .. emitted, unresolved: BOOLEAN, allowed: BOOLEAN]
        /\ tracker'.last = snapshot
    BY <1>1, <1>4 DEF FeedTypeOK
  <2>2. origin' \in 0 .. tracker'.last
    BY <1>1, <1>4, <2>1 DEF FeedTypeOK, IsCurrent
  <2>3. passedOn' \subseteq observed' /\ observed' \subseteq 1 .. emitted
    BY <1>1, <1>4 DEF FeedTypeOK
  <2> QED BY <1>1, <1>2, <1>4, <2>1, <2>2, <2>3 DEF FeedTypeOK
<1> QED BY <1>3, <1>4 DEF RecoverSnapshot

LEMMA FeedTypeStep == FeedTypeOK /\ [FeedNext]_feedVars => FeedTypeOK'
<1> SUFFICES ASSUME FeedTypeOK, [FeedNext]_feedVars PROVE FeedTypeOK'
  OBVIOUS
<1>1. CASE Emit
  <2>1. emitted \in Nat /\ emitted' = emitted + 1 /\ emitted' \in 0 .. MaxEvents
    BY <1>1, FeedAssumption DEF Emit, FeedTypeOK
  <2>2. gaps \in Seq(1 .. emitted')
    BY <2>1, MoreNumbers DEF FeedTypeOK
  <2>3. /\ tracker \in [last: 0 .. emitted', unresolved: BOOLEAN, allowed: BOOLEAN]
        /\ snapshot \in 0 .. emitted' /\ observed \subseteq 1 .. emitted'
    BY <2>1 DEF FeedTypeOK
  <2> QED BY <1>1, <2>1, <2>2, <2>3 DEF Emit, FeedTypeOK, receipts, seen
<1>2. ASSUME NEW s \in 1 .. emitted, Observe(s) PROVE FeedTypeOK'
  BY <1>2, ObserveTypes
<1>3. CASE ObserveUnsequenced
  BY <1>3 DEF ObserveUnsequenced, FeedTypeOK, receipts, seen
<1>4. CASE TakeSnapshot
  BY <1>4 DEF TakeSnapshot, FeedTypeOK, receipts, seen
<1>5. CASE RecoverSnapshot
  BY <1>5, RecoverTypes
<1>6. CASE FeedRestarts
  BY <1>6, FeedAssumption DEF FeedRestarts, FeedTypeOK, NotStarted, receipts
<1>7. CASE UNCHANGED feedVars
  BY <1>7 DEF feedVars, FeedTypeOK, receipts, seen
<1> QED
  BY <1>1, <1>2, <1>3, <1>4, <1>5, <1>6, <1>7 DEF FeedNext

\* What the tracker holds, the receipts of gaps and recoveries and what was passed on
\* belong to events the broker has emitted.
THEOREM FeedTypesOK == FeedSpec => []FeedTypeOK
BY FeedTypeInit, FeedTypeStep, PTL DEF FeedSpec

-----------------------------------------------------------------------------
(* Feeds without holes *)

\* AllowedFeedsAreWhole: whatever the connection loses, repeats or reorders and whichever
\* receipts fail, an observation of the tracker allows trading only on a feed without holes.
THEOREM WholeFeeds == FeedSpec => []AllowedFeedsAreWhole
<1>1. FeedInv => AllowedFeedsAreWhole
  BY DEF FeedInv, Whole, AllowedFeedsAreWhole
<1> QED
  BY <1>1, FeedInitInv, FeedStepInv, PTL DEF FeedSpec
-----------------------------------------------------------------------------
(* The leases of the trading plans *)

Working == [pc: {"account", "plan", "begin", "run", "release", "leave"},
            plan: Plans, passed: Nat, read: Nat]
LeaseRow == [owner: Workers \cup {"none"}, left: Int]

LeasesTypes ==
  /\ account \in LeaseRow
  /\ lease \in [Plans -> LeaseRow]
  /\ revision \in [Plans -> Nat]
  /\ worker \in [Workers -> {Idle} \cup Working]

\* The leases of a tick begin with it: until its 45 seconds begin, what is left of them
\* is the duration less the time since its start.
Fresh(w, l) == l.owner = w /\ l.left = Duration - worker[w].passed

\* From then on what is left is at least what remains when the setup took all it may.
Lasting(w, l) == l.owner = w /\ l.left >= Duration - Setup - worker[w].passed

\* What a tick may rely on at each step.
TickInv(w) ==
  /\ WorkerAt(w, "account") => worker[w].passed <= Setup
  /\ WorkerAt(w, "plan") => worker[w].passed <= Setup /\ Fresh(w, account)
  /\ WorkerAt(w, "begin") => /\ worker[w].passed <= Setup
                             /\ Fresh(w, account) /\ Fresh(w, lease[worker[w].plan])
  /\ WorkerAt(w, "run") => /\ worker[w].passed <= Timeout
                           /\ Lasting(w, account) /\ Lasting(w, lease[worker[w].plan])
                           /\ revision[worker[w].plan] = worker[w].read

LeasesInv == LeasesTypes /\ \A w \in Workers : TickInv(w)

\* The step is that of a worker whose step leaves alone the record, the account lease and
\* the plan lease that another worker relies on: that worker may go on.
LEMMA OtherGoesOn ==
  ASSUME LeasesInv, NEW w \in Workers,
         worker'[w] = worker[w],
         WorkerAt(w, "plan") \/ WorkerAt(w, "begin") \/ WorkerAt(w, "run")
           => account' = account,
         WorkerAt(w, "begin") \/ WorkerAt(w, "run")
           => lease'[worker[w].plan] = lease[worker[w].plan],
         WorkerAt(w, "run") => revision'[worker[w].plan] = revision[worker[w].plan]
  PROVE  TickInv(w)'
BY DEF LeasesInv, TickInv, WorkerAt, Fresh, Lasting

\* A lease that a tick relies on cannot be taken over: it has not expired by any instant.
LEMMA HeldIsUnavailable ==
  ASSUME LeasesInv, NEW w \in Workers, NEW v \in Workers, WorkerAt(v, "account") \/ WorkerAt(v, "plan"),
         NEW l \in LeaseRow,
         \/ WorkerAt(w, "plan") /\ Fresh(w, l)
         \/ WorkerAt(w, "begin") /\ Fresh(w, l)
         \/ WorkerAt(w, "run") /\ Lasting(w, l)
  PROVE  ~Available(v, l)
<1>1. worker[v] \in Working /\ worker[w] \in Working
  BY DEF LeasesInv, LeasesTypes, WorkerAt, Idle, Working
<1>2. l.left > 0
  BY <1>1, LeaseTimesAssumption DEF LeasesInv, TickInv, WorkerAt, Working, Fresh, Lasting, LeaseRow
<1>3. l # NoLease
  BY <1>2, LeaseTimesAssumption DEF NoLease
<1> QED
  BY <1>1, <1>2, <1>3 DEF Available, ExpiredAtStart, Working, LeaseRow

LEMMA LeasesInit == PlanLeaseInit => LeasesInv
BY LeaseTimesAssumption
DEF PlanLeaseInit, LeasesInv, LeasesTypes, LeaseRow, NoLease, TickInv, WorkerAt, Idle, Working

LEMMA WorkingAt ==
  ASSUME LeasesInv, NEW w \in Workers, ~WorkerAt(w, "idle")
  PROVE  worker[w] \in Working
BY DEF LeasesInv, LeasesTypes, WorkerAt, Idle

LEMMA StartLeases ==
  ASSUME LeasesInv, NEW w \in Workers, NEW p \in Plans, Start(w, p)
  PROVE  LeasesInv'
<1>1. LeasesTypes'
  BY DEF Start, LeasesInv, LeasesTypes, Working
<1>2. TickInv(w)'
  BY LeaseTimesAssumption DEF Start, LeasesInv, LeasesTypes, TickInv, WorkerAt
<1>3. ASSUME NEW u \in Workers, u # w PROVE TickInv(u)'
  BY <1>3, OtherGoesOn DEF Start, LeasesInv, LeasesTypes
<1> QED
  BY <1>1, <1>2, <1>3 DEF LeasesInv

LEMMA TakeAccountLeases ==
  ASSUME LeasesInv, NEW w \in Workers, TakeAccount(w)
  PROVE  LeasesInv'
<1>1. worker[w] \in Working /\ WorkerAt(w, "account") /\ TickInv(w) /\ account \in LeaseRow
  BY WorkingAt DEF TakeAccount, WorkerAt, LeasesInv, LeasesTypes
<1>2. CASE Available(w, account)
  <2>1. /\ account' = Taken(w) /\ UNCHANGED <<lease, revision>>
        /\ worker' = [worker EXCEPT ![w].pc = "plan"]
    BY <1>2 DEF TakeAccount, Go
  <2>2. LeasesTypes'
    BY <1>1, <2>1, LeaseTimesAssumption DEF LeasesInv, LeasesTypes, Working, LeaseRow, Taken
  <2>3. TickInv(w)'
    BY <1>1, <2>1 DEF LeasesInv, LeasesTypes, TickInv, WorkerAt, Fresh, Taken, Working
  <2>4. ASSUME NEW u \in Workers, u # w PROVE TickInv(u)'
    <3>1. ~(WorkerAt(u, "plan") \/ WorkerAt(u, "begin") \/ WorkerAt(u, "run"))
      BY <1>1, <1>2, HeldIsUnavailable DEF LeasesInv, TickInv
    <3> QED
      BY <2>1, <2>4, <3>1, OtherGoesOn DEF LeasesInv, LeasesTypes
  <2> QED
    BY <2>2, <2>3, <2>4 DEF LeasesInv
<1>3. CASE ~Available(w, account)
  <2>1. /\ UNCHANGED <<account, lease, revision>>
        /\ worker' = [worker EXCEPT ![w] = Idle]
    BY <1>3 DEF TakeAccount
  <2>2. LeasesTypes' /\ TickInv(w)'
    BY <2>1 DEF LeasesInv, LeasesTypes, TickInv, WorkerAt, Idle
  <2>3. ASSUME NEW u \in Workers, u # w PROVE TickInv(u)'
    BY <2>1, <2>3, OtherGoesOn DEF LeasesInv, LeasesTypes
  <2> QED
    BY <2>2, <2>3 DEF LeasesInv
<1> QED
  BY <1>2, <1>3

LEMMA TakePlanLeases ==
  ASSUME LeasesInv, NEW w \in Workers, TakePlan(w)
  PROVE  LeasesInv'
<1> DEFINE p == worker[w].plan
<1>1. /\ worker[w] \in Working /\ WorkerAt(w, "plan") /\ TickInv(w)
      /\ p \in Plans /\ lease[p] \in LeaseRow
  BY WorkingAt DEF TakePlan, WorkerAt, Working, LeasesInv, LeasesTypes
<1>2. CASE Available(w, lease[p])
  <2>1. /\ lease' = [lease EXCEPT ![p] = Taken(w)] /\ UNCHANGED <<account, revision>>
        /\ worker' = [worker EXCEPT ![w].pc = "begin"]
    BY <1>2 DEF TakePlan, Go
  <2>2. LeasesTypes'
    BY <1>1, <2>1, LeaseTimesAssumption DEF LeasesInv, LeasesTypes, Working, LeaseRow, Taken
  <2>3. TickInv(w)'
    BY <1>1, <2>1 DEF LeasesInv, LeasesTypes, TickInv, WorkerAt, Fresh, Taken, Working
  <2>4. ASSUME NEW u \in Workers, u # w PROVE TickInv(u)'
    <3>1. WorkerAt(u, "begin") \/ WorkerAt(u, "run") => worker[u].plan # p
      BY <1>1, <1>2, HeldIsUnavailable DEF LeasesInv, TickInv
    <3>2. lease'[worker[u].plan] = lease[worker[u].plan] \/ worker[u].plan = p
      BY <2>1, <1>1
    <3> QED
      BY <2>1, <2>4, <3>1, <3>2, OtherGoesOn DEF LeasesInv, LeasesTypes
  <2> QED
    BY <2>2, <2>3, <2>4 DEF LeasesInv
<1>3. CASE ~Available(w, lease[p])
  <2>1. /\ UNCHANGED <<account, lease, revision>>
        /\ worker' = [worker EXCEPT ![w].pc = "leave"]
    BY <1>3 DEF TakePlan, Go
  <2>2. LeasesTypes' /\ TickInv(w)'
    BY <1>1, <2>1 DEF LeasesInv, LeasesTypes, TickInv, WorkerAt, Working
  <2>3. ASSUME NEW u \in Workers, u # w PROVE TickInv(u)'
    BY <2>1, <2>3, OtherGoesOn DEF LeasesInv, LeasesTypes
  <2> QED
    BY <2>2, <2>3 DEF LeasesInv
<1> QED
  BY <1>2, <1>3

LEMMA BeginLeases ==
  ASSUME LeasesInv, NEW w \in Workers, BeginTick(w)
  PROVE  LeasesInv'
<1>1. worker[w] \in Working /\ WorkerAt(w, "begin") /\ TickInv(w)
  BY WorkingAt DEF BeginTick, WorkerAt, LeasesInv
<1>2. /\ UNCHANGED <<account, lease, revision>>
      /\ worker' = [worker EXCEPT ![w] = [@ EXCEPT !.pc = "run", !.passed = 0,
                                                  !.read = revision[worker[w].plan]]]
  BY DEF BeginTick
<1>3. LeasesTypes'
  BY <1>1, <1>2 DEF LeasesInv, LeasesTypes, Working
<1>4. TickInv(w)'
  BY <1>1, <1>2, LeaseTimesAssumption
  DEF LeasesInv, LeasesTypes, TickInv, WorkerAt, Fresh, Lasting, Working, LeaseRow
<1>5. ASSUME NEW u \in Workers, u # w PROVE TickInv(u)'
  BY <1>2, <1>5, OtherGoesOn DEF LeasesInv, LeasesTypes
<1> QED
  BY <1>3, <1>4, <1>5 DEF LeasesInv

LEMMA SaveLeases ==
  ASSUME LeasesInv, NEW w \in Workers, Save(w) \/ EndTick(w)
  PROVE  LeasesInv'
<1> DEFINE p == worker[w].plan
<1>1. worker[w] \in Working /\ WorkerAt(w, "run") /\ TickInv(w) /\ p \in Plans
  BY WorkingAt DEF Save, EndTick, WorkerAt, LeasesInv, Working
<1>2. MaySave(w)
  BY <1>1 DEF TickInv, MaySave, Lasting
<1>3. CASE Save(w)
  <2>1. /\ revision' = [revision EXCEPT ![p] = @ + 1]
        /\ worker' = [worker EXCEPT ![w].read = @ + 1]
        /\ UNCHANGED <<account, lease>>
    BY <1>2, <1>3 DEF Save
  <2>2. LeasesTypes'
    BY <1>1, <2>1 DEF LeasesInv, LeasesTypes, Working
  <2>3. TickInv(w)'
    BY <1>1, <2>1 DEF LeasesInv, LeasesTypes, TickInv, WorkerAt, Lasting, Working
  <2>4. ASSUME NEW u \in Workers, u # w PROVE TickInv(u)'
    <3>1. WorkerAt(u, "run") => worker[u].plan # p
      BY <1>1, <2>4 DEF LeasesInv, TickInv, Lasting
    <3>2. revision'[worker[u].plan] = revision[worker[u].plan] \/ worker[u].plan = p
      BY <2>1, <1>1
    <3> QED
      BY <2>1, <2>4, <3>1, <3>2, OtherGoesOn DEF LeasesInv, LeasesTypes
  <2> QED
    BY <2>2, <2>3, <2>4 DEF LeasesInv
<1>4. CASE EndTick(w)
  <2>1. /\ worker' = [worker EXCEPT ![w].pc = "release"]
        /\ UNCHANGED <<account, lease, revision>>
    BY <1>4 DEF EndTick, Go
  <2>2. LeasesTypes' /\ TickInv(w)'
    BY <1>1, <2>1 DEF LeasesInv, LeasesTypes, TickInv, WorkerAt, Working
  <2>3. ASSUME NEW u \in Workers, u # w PROVE TickInv(u)'
    BY <2>1, <2>3, OtherGoesOn DEF LeasesInv, LeasesTypes
  <2> QED
    BY <2>2, <2>3 DEF LeasesInv
<1> QED
  BY <1>3, <1>4

\* A late release finds the lease of another tick and leaves it.
LEMMA ReleaseLeases ==
  ASSUME LeasesInv, NEW w \in Workers, ReleasePlan(w) \/ ReleaseAccount(w)
  PROVE  LeasesInv'
<1> DEFINE p == worker[w].plan
<1>1. /\ worker[w] \in Working /\ p \in Plans
      /\ ~WorkerAt(w, "plan") /\ ~WorkerAt(w, "begin") /\ ~WorkerAt(w, "run")
  BY WorkingAt DEF ReleasePlan, ReleaseAccount, WorkerAt, Working
<1>2. NoLease \in LeaseRow
  BY LeaseTimesAssumption DEF NoLease, LeaseRow
<1>3. CASE ReleasePlan(w)
  <2>1. /\ lease' = [lease EXCEPT ![p] = Released(w, @)]
        /\ worker' = [worker EXCEPT ![w].pc = "leave"]
        /\ UNCHANGED <<account, revision>>
    BY <1>3 DEF ReleasePlan, Go
  <2>2. LeasesTypes' /\ TickInv(w)'
    BY <1>1, <1>2, <2>1 DEF LeasesInv, LeasesTypes, TickInv, WorkerAt, Working, Released
  <2>3. ASSUME NEW u \in Workers, u # w PROVE TickInv(u)'
    <3>1. WorkerAt(u, "begin") \/ WorkerAt(u, "run")
            => lease'[worker[u].plan] = lease[worker[u].plan]
      BY <1>1, <2>1, <2>3 DEF LeasesInv, LeasesTypes, TickInv, Fresh, Lasting, Released
    <3> QED
      BY <2>1, <2>3, <3>1, OtherGoesOn DEF LeasesInv, LeasesTypes
  <2> QED
    BY <2>2, <2>3 DEF LeasesInv
<1>4. CASE ReleaseAccount(w)
  <2>1. /\ account' = Released(w, account)
        /\ worker' = [worker EXCEPT ![w] = Idle]
        /\ UNCHANGED <<lease, revision>>
    BY <1>4 DEF ReleaseAccount
  <2>2. LeasesTypes' /\ TickInv(w)'
    BY <1>2, <2>1 DEF LeasesInv, LeasesTypes, TickInv, WorkerAt, Idle, Released
  <2>3. ASSUME NEW u \in Workers, u # w PROVE TickInv(u)'
    <3>1. WorkerAt(u, "plan") \/ WorkerAt(u, "begin") \/ WorkerAt(u, "run")
            => account' = account
      BY <2>1, <2>3 DEF LeasesInv, TickInv, Fresh, Lasting, Released
    <3> QED
      BY <2>1, <2>3, <3>1, OtherGoesOn DEF LeasesInv, LeasesTypes
  <2> QED
    BY <2>2, <2>3 DEF LeasesInv
<1> QED
  BY <1>3, <1>4

LEMMA LoseLeases ==
  ASSUME LeasesInv, NEW w \in Workers, LoseWorker(w)
  PROVE  LeasesInv'
<1>1. worker' = [worker EXCEPT ![w] = Idle] /\ UNCHANGED <<account, lease, revision>>
  BY DEF LoseWorker
<1>2. LeasesTypes' /\ TickInv(w)'
  BY <1>1 DEF LeasesInv, LeasesTypes, TickInv, WorkerAt, Idle
<1>3. ASSUME NEW u \in Workers, u # w PROVE TickInv(u)'
  BY <1>1, <1>3, OtherGoesOn DEF LeasesInv, LeasesTypes
<1> QED
  BY <1>2, <1>3 DEF LeasesInv

\* Leases and ticks grow older together, and no tick is older than its bound.
LEMMA TickLeases ==
  ASSUME LeasesInv, LeaseTick
  PROVE  LeasesInv'
<1> DEFINE Ages(w) == worker[w].pc \in {"account", "plan", "begin", "run"}
           Aged(w) == [worker[w] EXCEPT !.passed = @ + 1]
<1>1. /\ account' = Older(account)
      /\ lease' = [p \in Plans |-> Older(lease[p])]
      /\ worker' = [w \in Workers |-> IF Ages(w) THEN Aged(w) ELSE worker[w]]
      /\ UNCHANGED revision
  BY DEF LeaseTick
<1>2. ASSUME NEW l \in LeaseRow
      PROVE  /\ Older(l) \in LeaseRow /\ Older(l).owner = l.owner
             /\ l.left > 0 => Older(l).left = l.left - 1
             /\ Older(l).left >= l.left - 1
  BY LeaseTimesAssumption DEF Older, LeaseRow
<1>3. ASSUME NEW w \in Workers, Ages(w)
      PROVE  /\ worker[w] \in Working /\ worker'[w] \in Working
             /\ worker'[w].pc = worker[w].pc /\ worker'[w].plan = worker[w].plan
             /\ worker'[w].read = worker[w].read
             /\ worker'[w].passed = worker[w].passed + 1
  <2>1. worker[w] \in Working
    BY <1>3, WorkingAt DEF WorkerAt
  <2> QED
    BY <1>1, <1>3, <2>1 DEF Working
<1>4. LeasesTypes'
  <2>1. account' \in LeaseRow /\ lease' \in [Plans -> LeaseRow] /\ revision' \in [Plans -> Nat]
    BY <1>1, <1>2 DEF LeasesInv, LeasesTypes
  <2>2. ASSUME NEW w \in Workers PROVE worker'[w] \in {Idle} \cup Working
    BY <1>1, <1>3 DEF LeasesInv, LeasesTypes
  <2> QED
    BY <1>1, <2>1, <2>2 DEF LeasesTypes
<1>5. ASSUME NEW w \in Workers PROVE TickInv(w)'
  <2>1. CASE ~Ages(w)
    BY <1>1, <2>1 DEF TickInv, WorkerAt
  <2>2. CASE Ages(w)
    <3>1. TickInv(w) /\ InTime(w) /\ account \in LeaseRow
      BY DEF LeasesInv, LeasesTypes, LeaseTick
    <3>2. /\ worker[w].plan \in Plans /\ lease[worker[w].plan] \in LeaseRow
          /\ worker[w].passed \in Nat /\ revision' = revision
          /\ lease'[worker[w].plan] = Older(lease[worker[w].plan])
      BY <1>1, <1>3, <2>2 DEF LeasesInv, LeasesTypes, Working
    <3>3. WorkerAt(w, "account") => TickInv(w)'
      BY <1>3, <2>2, <3>1, <3>2, LeaseTimesAssumption DEF TickInv, WorkerAt, InTime
    <3>4. WorkerAt(w, "plan") \/ WorkerAt(w, "begin") => TickInv(w)'
      BY <1>1, <1>2, <1>3, <2>2, <3>1, <3>2, LeaseTimesAssumption
      DEF TickInv, WorkerAt, InTime, Fresh, LeaseRow
    <3>5. WorkerAt(w, "run") => TickInv(w)'
      BY <1>1, <1>2, <1>3, <2>2, <3>1, <3>2, LeaseTimesAssumption
      DEF TickInv, WorkerAt, InTime, Lasting, LeaseRow
    <3> QED
      BY <2>2, <3>3, <3>4, <3>5 DEF WorkerAt
  <2> QED
    BY <2>1, <2>2
<1> QED
  BY <1>4, <1>5 DEF LeasesInv

LEMMA LeasesStep == LeasesInv /\ [PlanLeaseNext]_planLeaseVars => LeasesInv'
<1> SUFFICES ASSUME LeasesInv, [PlanLeaseNext]_planLeaseVars PROVE LeasesInv'
  OBVIOUS
<1>1. ASSUME NEW w \in Workers, Step(w) PROVE LeasesInv'
  BY <1>1, StartLeases, TakeAccountLeases, TakePlanLeases, BeginLeases, SaveLeases, ReleaseLeases
  DEF Step
<1>2. ASSUME NEW w \in Workers, LoseWorker(w) PROVE LeasesInv'
  BY <1>2, LoseLeases
<1>3. CASE LeaseTick
  BY <1>3, TickLeases
<1>4. CASE UNCHANGED planLeaseVars
  BY <1>4 DEF planLeaseVars, LeasesInv, LeasesTypes, TickInv, WorkerAt, Fresh, Lasting
<1> QED
  BY <1>1, <1>2, <1>3, <1>4 DEF PlanLeaseNext

-----------------------------------------------------------------------------
(* The bounds of the leases *)

\* No lease lasts longer than its duration, none is compared with an instant before the
\* expiry that is remembered, and no tick is older than its setup and its timeout.
LeaseBounds ==
  /\ account.left \in (-Setup)..Duration
  /\ \A p \in Plans : lease[p].left \in (-Setup)..Duration /\ revision[p] # 0
  /\ \A w \in Workers : worker[w] # Idle => worker[w].passed <= Setup + Timeout
  /\ crashes \in Nat

LEMMA BoundsType == LeasesInv /\ LeaseBounds => PlanLeaseTypeOK
<1> SUFFICES ASSUME LeasesInv, LeaseBounds PROVE PlanLeaseTypeOK
  OBVIOUS
<1>1. account \in Lease /\ lease \in [Plans -> Lease] /\ revision \in [Plans -> Nat \ {0}]
  BY DEF LeasesInv, LeasesTypes, LeaseBounds, LeaseRow, Lease
<1>2. ASSUME NEW w \in Workers, worker[w] # Idle
      PROVE  worker[w] \in Working /\ worker[w].passed \in 0..(Setup + Timeout)
  BY <1>2, LeaseTimesAssumption DEF LeasesInv, LeasesTypes, LeaseBounds, Working
<1> QED BY <1>1, <1>2 DEF PlanLeaseTypeOK, Working, LeaseBounds

\* What a step leaves of the bounds when it changes the record of one worker at most.
LEMMA BoundsOfOne ==
  ASSUME LeasesInv, LeaseBounds, NEW w \in Workers,
         \A u \in Workers \ {w} : worker'[u] = worker[u],
         worker'[w] # Idle => worker'[w].passed <= Setup + Timeout,
         account'.left \in (-Setup)..Duration,
         \A p \in Plans : lease'[p].left \in (-Setup)..Duration /\ revision'[p] # 0,
         crashes' \in Nat
  PROVE  LeaseBounds'
BY DEF LeaseBounds

\* A lease that is taken lasts for what is left of the duration.
LEMMA TakenBounds ==
  ASSUME LeasesInv, NEW w \in Workers, WorkerAt(w, "account") \/ WorkerAt(w, "plan")
  PROVE  Taken(w).left \in (-Setup)..Duration /\ worker[w].passed \in 0..Setup
<1>1. worker[w] \in Working /\ worker[w].passed <= Setup
  BY WorkingAt DEF WorkerAt, LeasesInv, TickInv
<1> QED BY <1>1, LeaseTimesAssumption DEF Taken, Working

LEMMA BoundsStepOf ==
  ASSUME LeasesInv, LeaseBounds, NEW w \in Workers, Step(w) \/ LoseWorker(w)
  PROVE  LeaseBounds'
<1> USE LeaseTimesAssumption
<1>1. /\ worker \in [Workers -> {Idle} \cup Working] /\ revision \in [Plans -> Nat]
      /\ lease \in [Plans -> LeaseRow] /\ account.left \in (-Setup)..Duration
      /\ NoLease.left \in (-Setup)..Duration
      /\ \A p \in Plans : lease[p].left \in (-Setup)..Duration /\ revision[p] # 0
      /\ crashes \in Nat
  BY DEF LeasesInv, LeasesTypes, LeaseBounds, NoLease
<1>2. ASSUME NEW p \in Plans, Start(w, p) PROVE LeaseBounds'
  BY <1>1, <1>2, BoundsOfOne DEF Start
<1>3. ASSUME ~WorkerAt(w, "idle")
      PROVE  worker[w] \in Working /\ worker[w].passed <= Setup + Timeout
  BY <1>3, WorkingAt DEF LeaseBounds, WorkerAt, Idle
<1>4. CASE TakeAccount(w)
  <2>1. WorkerAt(w, "account") /\ worker[w] \in Working /\ worker[w].passed <= Setup + Timeout
    BY <1>3, <1>4 DEF TakeAccount, WorkerAt
  <2>2. account' = account \/ account' = Taken(w)
    BY <1>4 DEF TakeAccount
  <2>3. account'.left \in (-Setup)..Duration
    BY <1>1, <2>1, <2>2, TakenBounds
  <2>4. worker'[w] # Idle => worker'[w].passed <= Setup + Timeout
    BY <1>1, <1>4, <2>1 DEF TakeAccount, Go, Working
  <2>5. \A u \in Workers \ {w} : worker'[u] = worker[u]
    BY <1>1, <1>4 DEF TakeAccount, Go
  <2> QED BY <1>1, <1>4, <2>3, <2>4, <2>5, BoundsOfOne DEF TakeAccount
<1>5. CASE TakePlan(w)
  <2>1. WorkerAt(w, "plan") /\ worker[w] \in Working /\ worker[w].passed <= Setup + Timeout
    BY <1>3, <1>5 DEF TakePlan, WorkerAt
  <2>2. \A p \in Plans : lease'[p].left \in (-Setup)..Duration
    BY <1>1, <1>5, <2>1, TakenBounds DEF TakePlan, Working
  <2>3. worker'[w] # Idle => worker'[w].passed <= Setup + Timeout
    BY <1>1, <1>5, <2>1 DEF TakePlan, Go, Working
  <2>4. \A u \in Workers \ {w} : worker'[u] = worker[u]
    BY <1>1, <1>5 DEF TakePlan, Go
  <2> QED BY <1>1, <1>5, <2>2, <2>3, <2>4, BoundsOfOne DEF TakePlan
<1>6. CASE BeginTick(w)
  <2>1. worker[w] \in Working
    BY <1>3, <1>6 DEF BeginTick, WorkerAt
  <2>2. worker'[w].passed = 0 /\ \A u \in Workers \ {w} : worker'[u] = worker[u]
    BY <1>1, <1>6, <2>1 DEF BeginTick, Working
  <2> QED BY <1>1, <1>6, <2>2, BoundsOfOne DEF BeginTick
<1>7. CASE Save(w) \/ EndTick(w)
  <2>1. worker[w] \in Working /\ worker[w].passed <= Setup + Timeout /\ worker[w].plan \in Plans
    BY <1>3, <1>7 DEF Save, EndTick, WorkerAt, Working
  <2>2. \/ worker' = [worker EXCEPT ![w].read = @ + 1]
        \/ worker' = [worker EXCEPT ![w].pc = "release"]
    BY <1>7 DEF Save, EndTick, Go
  <2>3. /\ worker'[w].passed = worker[w].passed
        /\ \A u \in Workers \ {w} : worker'[u] = worker[u]
    BY <1>1, <2>1, <2>2 DEF Working
  <2>4. \A p \in Plans : revision'[p] # 0
    <3>1. \/ revision' = [revision EXCEPT ![worker[w].plan] = @ + 1]
          \/ revision' = revision
      BY <1>7 DEF Save, EndTick
    <3> QED BY <1>1, <2>1, <3>1
  <2>5. UNCHANGED <<account, lease, crashes>>
    BY <1>7 DEF Save, EndTick
  <2> QED BY <1>1, <2>1, <2>3, <2>4, <2>5, BoundsOfOne
<1>8. CASE ReleasePlan(w)
  <2>1. worker[w] \in Working /\ worker[w].passed <= Setup + Timeout
    BY <1>3, <1>8 DEF ReleasePlan, WorkerAt
  <2>2. \A p \in Plans : lease'[p].left \in (-Setup)..Duration
    BY <1>1, <1>8, <2>1 DEF ReleasePlan, Released, Working
  <2>3. /\ worker'[w].passed = worker[w].passed
        /\ \A u \in Workers \ {w} : worker'[u] = worker[u]
    BY <1>1, <1>8, <2>1 DEF ReleasePlan, Go, Working
  <2> QED BY <1>1, <1>8, <2>1, <2>2, <2>3, BoundsOfOne DEF ReleasePlan
<1>9. CASE ReleaseAccount(w)
  BY <1>1, <1>9, BoundsOfOne DEF ReleaseAccount, Released
<1>10. CASE LoseWorker(w)
  BY <1>1, <1>10, BoundsOfOne DEF LoseWorker
<1> QED BY <1>2, <1>4, <1>5, <1>6, <1>7, <1>8, <1>9, <1>10 DEF Step

LEMMA BoundsTick ==
  ASSUME LeasesInv, LeaseBounds, LeaseTick
  PROVE  LeaseBounds'
<1> USE LeaseTimesAssumption
<1>1. ASSUME NEW l \in LeaseRow, l.left \in (-Setup)..Duration
      PROVE  Older(l).left \in (-Setup)..Duration
  BY <1>1 DEF Older, LeaseRow
<1>2. account'.left \in (-Setup)..Duration
  BY <1>1 DEF LeaseTick, LeaseBounds, LeasesInv, LeasesTypes
<1>3. \A p \in Plans : lease'[p].left \in (-Setup)..Duration
  BY <1>1 DEF LeaseTick, LeaseBounds, LeasesInv, LeasesTypes
<1>4. ASSUME NEW w \in Workers, worker'[w] # Idle
      PROVE  worker'[w].passed <= Setup + Timeout
  <2>1. CASE worker[w].pc \in {"account", "plan", "begin", "run"}
    <3>1. worker[w] \in Working /\ InTime(w)
      BY <2>1, WorkingAt DEF WorkerAt, LeaseTick
    <3>2. worker'[w].passed = worker[w].passed + 1
      BY <2>1, <3>1 DEF LeaseTick, Working
    <3>3. worker[w].passed < Setup \/ worker[w].passed < Timeout
      BY <2>1, <3>1 DEF InTime
    <3> QED BY <3>1, <3>2, <3>3 DEF Working
  <2>2. CASE worker[w].pc \notin {"account", "plan", "begin", "run"}
    BY <1>4, <2>2 DEF LeaseTick, LeaseBounds
  <2> QED BY <2>1, <2>2
<1> QED BY <1>2, <1>3, <1>4 DEF LeaseTick, LeaseBounds

LEMMA BoundsInit == PlanLeaseInit => LeaseBounds
BY LeaseTimesAssumption DEF PlanLeaseInit, LeaseBounds, NoLease

LEMMA BoundsStep == LeasesInv /\ LeaseBounds /\ [PlanLeaseNext]_planLeaseVars => LeaseBounds'
<1> SUFFICES ASSUME LeasesInv, LeaseBounds, [PlanLeaseNext]_planLeaseVars PROVE LeaseBounds'
  OBVIOUS
<1>1. CASE UNCHANGED planLeaseVars
  BY <1>1 DEF planLeaseVars, LeaseBounds
<1> QED BY <1>1, BoundsStepOf, BoundsTick DEF PlanLeaseNext

\* No lease of a plan or of the account outlasts its duration, and no tick its setup and
\* its timeout, for any number of workers and plans.
THEOREM LeasesAreBounded == PlanLeaseSpec => []PlanLeaseTypeOK
BY LeasesInit, LeasesStep, BoundsInit, BoundsStep, BoundsType, PTL DEF PlanLeaseSpec

-----------------------------------------------------------------------------
(* What the leases are for *)

\* RunningTicksMaySave: for any number of workers and plans, and any lease that outlasts the
\* setup and the timeout of a tick, a tick that runs has both its leases and the latest
\* revision, whoever is lost or late around it.
THEOREM TicksMaySave == PlanLeaseSpec => []RunningTicksMaySave
<1>1. LeasesInv => RunningTicksMaySave
  BY DEF LeasesInv, TickInv, RunningTicksMaySave, MaySave, Lasting
<1> QED
  BY <1>1, LeasesInit, LeasesStep, PTL DEF PlanLeaseSpec

\* account_lease: two ticks never run at once, on one plan or on two, so that the exposure a
\* tick decides on is changed by itself and the broker alone.  TradingPlan has one tick for
\* this reason.
THEOREM OneTickRuns ==
  PlanLeaseSpec => [](\A v, w \in Workers : WorkerAt(v, "run") /\ WorkerAt(w, "run") => v = w)
<1>1. RunningTicksMaySave
      => \A v, w \in Workers : WorkerAt(v, "run") /\ WorkerAt(w, "run") => v = w
  BY DEF RunningTicksMaySave
<1> QED BY <1>1, TicksMaySave, PTL

-----------------------------------------------------------------------------
(* Approvals *)

\* Of the approvals of a step one is the latest.
LEMMA LatestExists ==
  ASSUME NEW n \in Nat, NEW S \in SUBSET (1 .. n), S # {}
  PROVE  Latest(S) \in S /\ \A i \in S : i <= Latest(S)
BY LastExists DEF Latest

Approval == [step: {"guard", "tool"}, args: Nat, expired: BOOLEAN,
             status: {"pending", "approved", "denied", "consumed"},
             challenge: SUBSET Windows, answer: {"none", "approved", "denied"}]

ApprovalTypes ==
  /\ approvals \in Seq(Approval)
  /\ run \in [step: {"guard", "tool"}, pc: {"ready", "waiting", "execute"}, args: Nat,
              by: Nat, late: BOOLEAN]
  /\ window \in [Windows -> {Unused} \cup [pc: {"issue", "shown"}, id: Ids]]

Pending == {i \in Ids : approvals[i].status = "pending"}

\* The run asks one question at a time, and none while an approval still serves it.
OneQuestion ==
  /\ Pending \subseteq {Matching}
  /\ run.step = "tool" /\ Pending # {} => Dependency = 0
  /\ run.pc = "waiting" => Pending # {}

\* What is approved was approved by the user and has not served yet.
Consent ==
  /\ \A i \in Ids : approvals[i].status = "approved" => approvals[i].answer = "approved"
  /\ \A i \in served : i \in Ids /\ approvals[i].status = "consumed"
  /\ run.pc = "execute" =>
       /\ Pending = {}
       /\ run.by \in Ids /\ approvals[run.by].status = "approved"
       /\ approvals[run.by].args = run.args

AskInv == ApprovalTypes /\ OneQuestion /\ Consent

RunType == [step: {"guard", "tool"}, pc: {"ready", "waiting", "execute"}, args: Nat,
            by: Nat, late: BOOLEAN]

\* One approval is changed.
LEMMA ChangedApproval ==
  ASSUME ApprovalTypes, NEW i \in Ids, NEW a \in Approval,
         approvals' = [approvals EXCEPT ![i] = a]
  PROVE  /\ Ids' = Ids /\ approvals' \in Seq(Approval)
         /\ approvals'[i] = a
         /\ \A j \in Ids \ {i} : approvals'[j] = approvals[j]
BY DEF ApprovalTypes, Ids

\* The run goes on over the same approvals and windows.
LEMMA RunGoesOn ==
  ASSUME ApprovalTypes, run' \in RunType, approvals' \in Seq(Approval), Ids' = Ids, UNCHANGED window
  PROVE  ApprovalTypes'
BY DEF ApprovalTypes, RunType

LEMMA AskInit == ApprovalInit => AskInv
<1> SUFFICES ASSUME ApprovalInit PROVE AskInv
  OBVIOUS
<1>1. approvals = <<>> /\ Ids = {}
  BY DEF ApprovalInit, Ids
<1> QED
  BY <1>1 DEF ApprovalInit, AskInv, ApprovalTypes, OneQuestion, Consent, Pending, FirstStep, Unused

LEMMA IdsAreNumbers ==
  ASSUME ApprovalTypes
  PROVE  /\ Ids = 1 .. Len(approvals) /\ Len(approvals) \in Nat
         /\ \A i \in Ids : approvals[i] \in Approval /\ i # 0
BY DEF ApprovalTypes, Ids

\* What the run looks up is an approval with its step and arguments, or nothing.
LEMMA MatchingIs ==
  ASSUME ApprovalTypes, Matching # 0
  PROVE  /\ Matching \in Ids
         /\ approvals[Matching].step = run.step /\ approvals[Matching].args = run.args
<1> DEFINE S == {i \in Ids : approvals[i].step = run.step /\ approvals[i].args = run.args}
<1>1. S \in SUBSET (1 .. Len(approvals)) /\ Matching = Latest(S)
  BY IdsAreNumbers DEF Matching
<1>2. S # {}
  BY <1>1 DEF Latest
<1>3. Matching \in S
  BY <1>1, <1>2, IdsAreNumbers, LatestExists
<1> QED
  BY <1>3

LEMMA DependencyIs ==
  ASSUME ApprovalTypes, Dependency # 0
  PROVE  /\ Dependency \in Ids /\ run.step = "tool"
         /\ approvals[Dependency].status = "approved"
         /\ approvals[Dependency].args = run.args
<1> DEFINE S == {i \in Ids : approvals[i].step = "guard"}
           l == Latest(S)
<1>1. /\ Dependency = l /\ run.step = "tool" /\ Is(l, "approved")
      /\ approvals[l].args = run.args
  BY DEF Dependency, LatestForStep
<1>2. S \in SUBSET (1 .. Len(approvals)) /\ S # {}
  BY <1>1, IdsAreNumbers DEF Latest
<1>3. l \in S
  BY <1>2, IdsAreNumbers, LatestExists
<1> QED
  BY <1>1, <1>3 DEF Is

\* A question that is new is the one the run looks up.
LEMMA NewQuestionMatches ==
  ASSUME ApprovalTypes, approvals' = Append(approvals, NewApproval),
         run'.step = run.step, run'.args = run.args
  PROVE  /\ Matching' = Len(approvals) + 1
         /\ run.step = "tool" => Dependency' = Dependency
<1> DEFINE n == Len(approvals)
<1>1. /\ n \in Nat /\ Ids = 1 .. n /\ Ids' = 1 .. n + 1
      /\ \A i \in 1 .. n : approvals'[i] = approvals[i]
      /\ approvals'[n + 1] = NewApproval
  BY DEF ApprovalTypes, Ids, NewApproval, Approval
<1>2. Matching' = n + 1
  <2> DEFINE S == {i \in Ids' : approvals'[i].step = run.step /\ approvals'[i].args = run.args}
  <2>1. Matching' = Latest(S)
    BY DEF Matching
  <2>2. n + 1 \in S /\ S \in SUBSET (1 .. n + 1)
    BY <1>1 DEF NewApproval
  <2> HIDE DEF S, n
  <2>3. n + 1 \in Nat /\ S # {}
    BY <1>1, <2>2
  <2>4. Latest(S) \in 1 .. n + 1 /\ n + 1 <= Latest(S)
    BY <2>2, <2>3, LatestExists
  <2> QED
    BY <1>1, <2>1, <2>4
<1>3. ASSUME run.step = "tool" PROVE Dependency' = Dependency
  <2> DEFINE S == {i \in Ids : approvals[i].step = "guard"}
             l == Latest(S)
  <2>1. {i \in Ids' : approvals'[i].step = "guard"} = S
    BY <1>1, <1>3 DEF NewApproval
  <2>2. l = 0 \/ l \in 1 .. n
    BY <1>1, LatestExists DEF Latest
  <2>3. l # 0 => approvals'[l] = approvals[l]
    BY <1>1, <2>2
  <2>4. LatestForStep("guard") = l /\ LatestForStep("guard")' = l
    BY <2>1 DEF LatestForStep
  <2> QED
    BY <2>3, <2>4 DEF Dependency, Is
<1> QED
  BY <1>2, <1>3

\* Neither the run nor what it looks up is changed by the other fields of an approval.
LEMMA SameQuestions ==
  ASSUME ApprovalTypes, Ids' = Ids,
         run'.step = run.step, run'.args = run.args,
         \A i \in Ids : /\ approvals'[i].step = approvals[i].step
                        /\ approvals'[i].args = approvals[i].args
  PROVE  /\ Matching' = Matching
         /\ (\A i \in Ids : approvals'[i].status = approvals[i].status)
              => Dependency' = Dependency /\ Pending' = Pending
<1>1. Matching' = Matching
  <2>1. {i \in Ids' : approvals'[i].step = run'.step /\ approvals'[i].args = run'.args}
          = {i \in Ids : approvals[i].step = run.step /\ approvals[i].args = run.args}
    OBVIOUS
  <2> QED
    BY <2>1 DEF Matching
<1>2. ASSUME \A i \in Ids : approvals'[i].status = approvals[i].status
      PROVE  Dependency' = Dependency /\ Pending' = Pending
  <2> DEFINE S == {i \in Ids : approvals[i].step = "guard"}
             l == Latest(S)
  <2>1. {i \in Ids' : approvals'[i].step = "guard"} = S
    OBVIOUS
  <2>2. LatestForStep("guard") = l /\ LatestForStep("guard")' = l
    BY <2>1 DEF LatestForStep
  <2>3. l = 0 \/ l \in Ids
    BY IdsAreNumbers, LatestExists DEF Latest
  <2>4. Dependency' = Dependency
    BY <1>2, <2>2, <2>3 DEF Dependency, Is
  <2>5. Pending' = Pending
    BY <1>2 DEF Pending
  <2> QED
    BY <2>4, <2>5
<1> QED
  BY <1>1, <1>2

LEMMA AskKeeps ==
  ASSUME AskInv, Ask
  PROVE  AskInv'
<1>1. /\ ApprovalTypes /\ OneQuestion /\ Consent
      /\ run.pc = "ready" /\ Dependency = 0
      /\ run' = [run EXCEPT !.pc = "waiting"] /\ UNCHANGED <<window, failures, served>>
  BY DEF AskInv, Ask
<1>2. run'.step = run.step /\ run'.args = run.args /\ run'.pc = "waiting"
  BY <1>1 DEF ApprovalTypes
<1>3. CASE Waits(Matching)
  <2>1. UNCHANGED <<approvals, window, served>>
    BY <1>1, <1>3 DEF Ask
  <2>2. Ids' = Ids /\ Matching \in Pending
    BY <1>1, <1>3, <2>1, MatchingIs DEF Waits, Is, Ids, Pending
  <2>3. Matching' = Matching /\ Dependency' = Dependency /\ Pending' = Pending
    BY <1>1, <1>2, <2>1, <2>2, SameQuestions
  <2>4. ApprovalTypes'
    BY <1>1, <2>1, <2>2 DEF ApprovalTypes
  <2>5. OneQuestion' /\ Consent'
    BY <1>1, <1>2, <2>1, <2>2, <2>3 DEF OneQuestion, Consent
  <2> QED
    BY <2>4, <2>5 DEF AskInv
<1>4. CASE ~Waits(Matching)
  <2> DEFINE n == Len(approvals)
  <2>1. approvals' = Append(approvals, NewApproval) /\ UNCHANGED <<window, served>>
    BY <1>1, <1>4 DEF Ask
  <2>2. Pending = {}
    BY <1>1, <1>4, IdsAreNumbers DEF OneQuestion, Pending, Waits, Is
  <2>3. /\ n \in Nat /\ Ids = 1 .. n /\ Ids' = 1 .. n + 1
        /\ \A i \in Ids : approvals'[i] = approvals[i]
        /\ approvals'[n + 1] = NewApproval /\ NewApproval \in Approval
        /\ approvals' \in Seq(Approval)
    BY <1>1, <2>1 DEF ApprovalTypes, Ids, NewApproval, Approval
  <2>4. Pending' = {n + 1}
    BY <2>2, <2>3 DEF Pending, NewApproval
  <2>5. Matching' = n + 1 /\ (run.step = "tool" => Dependency' = 0)
    BY <1>1, <1>2, <2>1, NewQuestionMatches
  <2>6. ApprovalTypes'
    BY <1>1, <2>1, <2>3 DEF ApprovalTypes
  <2>7. OneQuestion'
    BY <1>2, <2>4, <2>5 DEF OneQuestion
  <2>8. Consent'
    BY <1>1, <1>2, <2>1, <2>3 DEF Consent, NewApproval
  <2> QED
    BY <2>6, <2>7, <2>8 DEF AskInv
<1> QED
  BY <1>3, <1>4

\* The step of the run leaves the approvals alone and goes on with none of them pending.
LEMMA NothingPending ==
  ASSUME ApprovalTypes, OneQuestion, ~Is(Matching, "pending")
  PROVE  Pending = {}
BY IdsAreNumbers DEF OneQuestion, Pending, Is

LEMMA PassGuardKeeps ==
  ASSUME AskInv, PassGuard \/ Revise
  PROVE  AskInv'
<1>1. /\ ApprovalTypes /\ OneQuestion /\ Consent /\ run.pc = "ready"
      /\ ~Is(Matching, "pending") /\ UNCHANGED <<approvals, window, served>>
  BY DEF AskInv, PassGuard, Revise, Valid, Is
<1>2. Pending = {} /\ Pending' = {}
  BY <1>1, NothingPending DEF Pending, Ids
<1>3. run' \in RunType /\ run'.pc = "ready"
  <2>1. run \in RunType /\ FirstStep \in {"guard", "tool"}
    BY <1>1 DEF ApprovalTypes, RunType, FirstStep
  <2>2. CASE PassGuard
    BY <1>1, <2>1, <2>2 DEF PassGuard, RunType
  <2>3. CASE Revise
    <3>1. run' = [run EXCEPT !.args = @ + 1, !.step = FirstStep]
      BY <2>3 DEF Revise
    <3>2. run.args + 1 \in Nat
      BY <2>1 DEF RunType
    <3> QED
      BY <1>1, <2>1, <3>1, <3>2 DEF RunType
  <2> QED
    BY <2>2, <2>3
<1>4. ApprovalTypes'
  BY <1>1, <1>3, RunGoesOn DEF ApprovalTypes, Ids
<1> QED
  BY <1>1, <1>2, <1>3, <1>4 DEF AskInv, OneQuestion, Consent, Ids

\* Whatever the tool runs under is approved, for these arguments, and nothing is pending.
LEMMA ExecuteKeeps ==
  ASSUME AskInv, Execute
  PROVE  AskInv'
<1> DEFINE i == IF Dependency # 0 THEN Dependency ELSE Matching
<1>1. /\ ApprovalTypes /\ OneQuestion /\ Consent /\ run.step = "tool"
      /\ Dependency # 0 \/ Valid(Matching)
      /\ UNCHANGED <<approvals, window, served>>
      /\ run' = [run EXCEPT !.pc = "execute", !.by = i, !.late = approvals[i].expired]
  BY DEF AskInv, Execute
<1>2. /\ i \in Ids /\ approvals[i].status = "approved" /\ approvals[i].args = run.args
  BY <1>1, DependencyIs, MatchingIs DEF Valid, Is
<1>3. Pending = {} /\ Pending' = {}
  <2>1. CASE Dependency # 0
    BY <1>1, <2>1 DEF OneQuestion, Pending, Ids
  <2>2. CASE Dependency = 0
    BY <1>1, <2>2, NothingPending DEF Valid, Is, Pending, Ids
  <2> QED
    BY <2>1, <2>2
<1>4. /\ run'.pc = "execute" /\ run'.by = i /\ run'.args = run.args
      /\ run' \in RunType
  <2>1. i \in Nat /\ approvals[i].expired \in BOOLEAN /\ run \in RunType
    BY <1>1, <1>2, IdsAreNumbers DEF ApprovalTypes, Approval, RunType
  <2> HIDE DEF i
  <2> QED
    BY <1>1, <2>1 DEF RunType
<1>5. ApprovalTypes'
  BY <1>1, <1>4, RunGoesOn DEF ApprovalTypes, Ids
<1> QED
  BY <1>1, <1>2, <1>3, <1>4, <1>5 DEF AskInv, OneQuestion, Consent, Ids

LEMMA CompleteKeeps ==
  ASSUME AskInv, Complete
  PROVE  AskInv'
<1> DEFINE i == run.by
<1>1. /\ ApprovalTypes /\ OneQuestion /\ Consent
      /\ Pending = {} /\ i \in Ids
      /\ approvals' = [approvals EXCEPT ![i].status = "consumed"]
      /\ served' = served \cup {i} /\ UNCHANGED window
      /\ run' = [run EXCEPT !.pc = "ready", !.by = 0, !.late = FALSE]
  BY DEF AskInv, Complete, Consent, Consumed, Ended
<1>2. /\ Ids' = Ids /\ approvals' \in Seq(Approval)
      /\ \A j \in Ids : /\ approvals'[j].status = IF j = i THEN "consumed" ELSE approvals[j].status
                        /\ approvals'[j].answer = approvals[j].answer
  <2> DEFINE a == [approvals[i] EXCEPT !.status = "consumed"]
  <2>1. /\ a \in Approval /\ a.status = "consumed" /\ a.answer = approvals[i].answer
        /\ approvals' = [approvals EXCEPT ![i] = a]
    BY <1>1, IdsAreNumbers DEF Approval
  <2> HIDE DEF a
  <2>2. /\ Ids' = Ids /\ approvals' \in Seq(Approval) /\ approvals'[i] = a
        /\ \A j \in Ids \ {i} : approvals'[j] = approvals[j]
    BY <1>1, <2>1, ChangedApproval
  <2>3. ASSUME NEW j \in Ids
        PROVE  /\ approvals'[j].status = IF j = i THEN "consumed" ELSE approvals[j].status
               /\ approvals'[j].answer = approvals[j].answer
    <3> HIDE DEF i
    <3>1. CASE j = i
      BY <2>1, <2>2, <3>1
    <3>2. CASE j # i
      BY <2>2, <3>2
    <3> QED
      BY <3>1, <3>2
  <2> HIDE DEF i
  <2> QED
    BY <2>2, <2>3
<1>3. ApprovalTypes' /\ run'.pc = "ready"
  <2>1. run' \in RunType /\ run'.pc = "ready"
    BY <1>1 DEF ApprovalTypes, RunType
  <2> QED
    BY <1>1, <1>2, <2>1, RunGoesOn
<1>4. Pending' = {}
  BY <1>1, <1>2 DEF Pending
<1>5. Consent'
  BY <1>1, <1>2, <1>3 DEF Consent
<1> QED
  BY <1>3, <1>4, <1>5 DEF AskInv, OneQuestion

LEMMA FailKeeps ==
  ASSUME AskInv, Fail \/ Resume
  PROVE  AskInv'
<1>1. /\ ApprovalTypes /\ OneQuestion /\ Consent
      /\ UNCHANGED <<approvals, window, served>>
      /\ run' \in {Ended, [run EXCEPT !.pc = "ready"]}
  BY DEF AskInv, Fail, Resume, Resumed
<1>2. /\ run' \in RunType /\ Ids' = Ids
      /\ run'.pc = "ready" /\ run'.step = run.step /\ run'.args = run.args
  <2>1. run \in RunType /\ Ids' = Ids
    BY <1>1 DEF ApprovalTypes, RunType, Ids
  <2>2. CASE run' = Ended
    BY <2>1, <2>2 DEF Ended, RunType
  <2>3. CASE run' = [run EXCEPT !.pc = "ready"]
    BY <2>1, <2>3 DEF RunType
  <2> QED
    BY <1>1, <2>1, <2>2, <2>3
<1>3. Matching' = Matching /\ Dependency' = Dependency /\ Pending' = Pending
  BY <1>1, <1>2, SameQuestions
<1>4. ApprovalTypes'
  BY <1>1, <1>2, RunGoesOn DEF ApprovalTypes
<1> QED
  BY <1>1, <1>2, <1>3, <1>4 DEF AskInv, OneQuestion, Consent

\* The user interface and the clock change what no lookup reads.
LEMMA UnreadKeeps ==
  ASSUME AskInv, ApprovalTypes', UNCHANGED <<run, served>>, Ids' = Ids,
         \A i \in Ids : /\ approvals'[i].step = approvals[i].step
                        /\ approvals'[i].args = approvals[i].args
                        /\ approvals'[i].status = approvals[i].status
                        /\ approvals'[i].answer = approvals[i].answer
  PROVE  AskInv'
<1>1. Matching' = Matching /\ Dependency' = Dependency /\ Pending' = Pending
  BY SameQuestions DEF AskInv
<1> QED
  BY <1>1 DEF AskInv, OneQuestion, Consent

LEMMA ReadChallengeKeeps ==
  ASSUME AskInv, NEW w \in Windows, NEW i \in Ids, ReadChallenge(w, i)
  PROVE  AskInv'
<1>1. UNCHANGED <<approvals, run, served>> /\ window' = [window EXCEPT ![w] = [pc |-> "issue", id |-> i]]
  BY DEF ReadChallenge
<1>2. ApprovalTypes' /\ Ids' = Ids
  BY <1>1 DEF AskInv, ApprovalTypes, Ids
<1> QED
  BY <1>1, <1>2, UnreadKeeps

LEMMA WriteChallengeKeeps ==
  ASSUME AskInv, NEW w \in Windows, WriteChallenge(w)
  PROVE  AskInv'
<1> DEFINE i == window[w].id
<1>1. /\ ApprovalTypes /\ window[w] \in [pc: {"issue", "shown"}, id: Ids] /\ i \in Ids
  BY DEF AskInv, ApprovalTypes, WriteChallenge, Unused
<1>2. /\ approvals' \in {approvals, [approvals EXCEPT ![i].challenge = {w}]}
      /\ window' = [window EXCEPT ![w].pc = "shown"] /\ UNCHANGED <<run, served>>
  BY DEF WriteChallenge
<1>3. /\ Ids' = Ids /\ approvals' \in Seq(Approval)
      /\ \A j \in Ids : /\ approvals'[j].step = approvals[j].step
                        /\ approvals'[j].args = approvals[j].args
                        /\ approvals'[j].status = approvals[j].status
                        /\ approvals'[j].answer = approvals[j].answer
  <2>1. CASE approvals' = approvals
    BY <1>1, <2>1 DEF ApprovalTypes, Ids
  <2>2. CASE approvals' = [approvals EXCEPT ![i].challenge = {w}]
    <3> DEFINE a == [approvals[i] EXCEPT !.challenge = {w}]
    <3>1. /\ a \in Approval /\ a.step = approvals[i].step /\ a.args = approvals[i].args
          /\ a.status = approvals[i].status /\ a.answer = approvals[i].answer
          /\ approvals' = [approvals EXCEPT ![i] = a]
      BY <1>1, <2>2, IdsAreNumbers DEF Approval
    <3> HIDE DEF a
    <3>2. /\ Ids' = Ids /\ approvals' \in Seq(Approval) /\ approvals'[i] = a
          /\ \A j \in Ids \ {i} : approvals'[j] = approvals[j]
      <4>1. ApprovalTypes /\ i \in Ids
        BY <1>1
      <4> HIDE DEF i
      <4> QED BY <3>1, <4>1, ChangedApproval
    <3> QED
      BY <3>1, <3>2
  <2> QED
    BY <1>2, <2>1, <2>2
<1>4. ApprovalTypes'
  BY <1>1, <1>2, <1>3 DEF ApprovalTypes
<1> QED
  BY <1>2, <1>3, <1>4, UnreadKeeps

\* An answer decides the question that is pending; after it none is.
LEMMA ResolveKeeps ==
  ASSUME AskInv, NEW w \in Windows, NEW approved \in BOOLEAN, Resolve(w, approved)
  PROVE  AskInv'
<1> DEFINE i == window[w].id
<1>1. /\ ApprovalTypes /\ OneQuestion /\ Consent /\ i \in Ids
      /\ window' = [window EXCEPT ![w] = Unused] /\ UNCHANGED served
  BY DEF AskInv, ApprovalTypes, Resolve, Unused
<1>2. CASE MayResolve(w)
  <2>1. /\ approvals' = [approvals EXCEPT
              ![i].status = Decision(i, approved), ![i].challenge = {},
              ![i].answer = IF approved THEN "approved" ELSE "denied"]
        /\ run' = Resumed
    BY <1>2 DEF Resolve
  <2>2. i \in Pending
    BY <1>1, <1>2 DEF MayResolve, Is, Pending
  <2>3. /\ Ids' = Ids /\ approvals' \in Seq(Approval)
        /\ \A j \in Ids \ {i} : approvals'[j] = approvals[j]
        /\ approvals'[i].status = Decision(i, approved)
        /\ approvals'[i].answer = IF approved THEN "approved" ELSE "denied"
    <3> DEFINE d == IF approved THEN "approved" ELSE "denied"
               a == [approvals[i] EXCEPT !.status = Decision(i, approved), !.challenge = {},
                                         !.answer = d]
    <3>1. d \in {"approved", "denied"} /\ Decision(i, approved) \in {"approved", "denied"}
      BY DEF Decision
    <3>2. approvals[i] \in Approval /\ approvals' = [approvals EXCEPT ![i] = a]
      BY <1>1, <2>1, IdsAreNumbers
    <3> HIDE DEF d
    <3>3. a \in Approval /\ a.status = Decision(i, approved) /\ a.answer = d
      BY <3>1, <3>2 DEF Approval
    <3> HIDE DEF a
    <3> QED
      BY <1>1, <3>2, <3>3, ChangedApproval DEF d
  <2>4. Pending' = {}
    BY <1>1, <2>2, <2>3 DEF Pending, OneQuestion, Decision
  <2>5. run.pc # "execute" /\ run'.pc = "ready"
    BY <1>1, <2>1, <2>2 DEF Consent, Resumed, ApprovalTypes
  <2>6. ApprovalTypes'
    BY <1>1, <2>1, <2>3 DEF ApprovalTypes, Resumed
  <2>7. Consent'
    BY <1>1, <2>2, <2>3, <2>5 DEF Consent, Pending, Decision
  <2> QED
    BY <2>4, <2>5, <2>6, <2>7 DEF AskInv, OneQuestion
<1>3. CASE ~MayResolve(w)
  <2>1. UNCHANGED <<approvals, run, served>>
    BY <1>1, <1>3 DEF Resolve
  <2>2. ApprovalTypes' /\ Ids' = Ids
    BY <1>1, <2>1 DEF ApprovalTypes, Ids
  <2> QED
    BY <2>1, <2>2, UnreadKeeps
<1> QED
  BY <1>2, <1>3

LEMMA ExpireKeeps ==
  ASSUME AskInv, NEW i \in Ids, Expire(i)
  PROVE  AskInv'
<1>1. /\ ApprovalTypes /\ UNCHANGED <<run, window, served>>
      /\ approvals' = [approvals EXCEPT ![i].expired = TRUE]
  BY DEF AskInv, Expire
<1>2. /\ Ids' = Ids /\ approvals' \in Seq(Approval)
      /\ \A j \in Ids : /\ approvals'[j].step = approvals[j].step
                        /\ approvals'[j].args = approvals[j].args
                        /\ approvals'[j].status = approvals[j].status
                        /\ approvals'[j].answer = approvals[j].answer
  <2> DEFINE a == [approvals[i] EXCEPT !.expired = TRUE]
  <2>1. /\ a \in Approval /\ a.step = approvals[i].step /\ a.args = approvals[i].args
        /\ a.status = approvals[i].status /\ a.answer = approvals[i].answer
        /\ approvals' = [approvals EXCEPT ![i] = a]
    BY <1>1, IdsAreNumbers DEF Approval
  <2> HIDE DEF a
  <2>2. /\ Ids' = Ids /\ approvals' \in Seq(Approval) /\ approvals'[i] = a
        /\ \A j \in Ids \ {i} : approvals'[j] = approvals[j]
    BY <1>1, <2>1, ChangedApproval
  <2> QED
    BY <2>1, <2>2
<1>3. ApprovalTypes'
  BY <1>1, <1>2 DEF ApprovalTypes
<1> QED
  BY <1>1, <1>2, <1>3, UnreadKeeps

LEMMA ApprovalStep == AskInv /\ [ApprovalNext]_approvalVars => AskInv'
<1> SUFFICES ASSUME AskInv, [ApprovalNext]_approvalVars PROVE AskInv'
  OBVIOUS
<1>1. CASE RunStep
  BY <1>1, AskKeeps, PassGuardKeeps, ExecuteKeeps, CompleteKeeps, FailKeeps DEF RunStep
<1>2. ASSUME NEW w \in Windows, Answers(w) PROVE AskInv'
  BY <1>2, ReadChallengeKeeps, WriteChallengeKeeps, ResolveKeeps DEF Answers
<1>3. ASSUME NEW i \in Ids, Expire(i) PROVE AskInv'
  BY <1>3, ExpireKeeps
<1>4. CASE UNCHANGED approvalVars
  <2>1. UNCHANGED <<approvals, run, window, served>> /\ Ids' = Ids
    BY <1>4 DEF approvalVars, Ids
  <2>2. ApprovalTypes'
    BY <2>1 DEF AskInv, ApprovalTypes
  <2> QED
    BY <2>1, <2>2, UnreadKeeps
<1> QED
  BY <1>1, <1>2, <1>3, <1>4 DEF ApprovalNext

\* AnswersAreKept: for any number of windows, revisions and failures, with an approval node
\* or without, a tool runs under the user's consent to its arguments that has not served
\* yet, and a run that waits waits for the one question it has asked.
THEOREM KeptAnswers == ApprovalSpec => []AnswersAreKept
<1>1. AskInv => AnswersAreKept
  <2> SUFFICES ASSUME AskInv PROVE AnswersAreKept
    OBVIOUS
  <2>1. ExecutesWithConsent
    BY IdsAreNumbers DEF AskInv, Consent, ExecutesWithConsent, Is
  <2>2. {i \in Ids : Is(i, "pending")} = Pending
    BY IdsAreNumbers DEF AskInv, Pending, Is
  <2>3. WaitsForItsQuestion
    BY <2>2 DEF AskInv, OneQuestion, WaitsForItsQuestion
  <2> QED
    BY <2>1, <2>3 DEF AnswersAreKept
<1> QED
  BY <1>1, AskInit, ApprovalStep, PTL DEF ApprovalSpec

-----------------------------------------------------------------------------
(* The types of approvals *)

ByBounds == run.by \in Ids \cup {0} /\ failures \in Nat

\* Approvals are never deleted.
LEMMA ApprovalsStay ==
  ASSUME AskInv, [ApprovalNext]_approvalVars
  PROVE  Ids \subseteq Ids'
<1>1. /\ ApprovalTypes /\ Ids = 1 .. Len(approvals) /\ Len(approvals) \in Nat
      /\ approvals \in Seq(Approval)
  BY IdsAreNumbers DEF AskInv, ApprovalTypes
<1>2. CASE approvals' = approvals
  BY <1>2 DEF Ids
<1>3. CASE approvals' = Append(approvals, NewApproval)
  <2>1. NewApproval \in Approval
    BY <1>1 DEF NewApproval, Approval, ApprovalTypes
  <2>2. DOMAIN approvals' = 1 .. (Len(approvals) + 1)
    BY <1>1, <1>3, <2>1
  <2> QED BY <1>1, <2>2 DEF Ids
<1>4. ASSUME NEW i, NEW a, approvals' = [approvals EXCEPT ![i] = a] PROVE Ids' = Ids
  BY <1>4 DEF Ids
<1>5. CASE RunStep
  <2>1. \/ approvals' = approvals
        \/ approvals' = Append(approvals, NewApproval)
        \/ approvals' = Consumed(run.by)
    BY <1>5 DEF RunStep, Ask, PassGuard, Execute, Revise, Complete, Fail, Resume
  <2>2. CASE approvals' = Consumed(run.by)
    BY <2>2 DEF Consumed, Ids
  <2> QED BY <1>2, <1>3, <2>1, <2>2
<1>6. ASSUME NEW w \in Windows, Answers(w) PROVE Ids \subseteq Ids'
  <2>1. CASE \E i \in Ids : ReadChallenge(w, i)
    BY <1>2, <2>1 DEF ReadChallenge
  <2>2. CASE WriteChallenge(w)
    BY <2>2 DEF WriteChallenge, Ids
  <2>3. ASSUME NEW approved \in BOOLEAN, Resolve(w, approved) PROVE Ids' = Ids
    BY <2>3 DEF Resolve, Ids
  <2> QED BY <1>6, <2>1, <2>2, <2>3 DEF Answers
<1>7. ASSUME NEW i \in Ids, Expire(i) PROVE Ids' = Ids
  BY <1>7 DEF Expire, Ids
<1>8. CASE UNCHANGED approvalVars
  BY <1>8 DEF approvalVars, Ids
<1> QED BY <1>5, <1>6, <1>7, <1>8 DEF ApprovalNext

\* What a tool runs under is an approval that was looked up.
LEMMA LookedUp ==
  ASSUME AskInv, [ApprovalNext]_approvalVars
  PROVE  run'.by \in Ids \cup {0, run.by}
<1>1. ApprovalTypes /\ run \in RunType
  BY DEF AskInv, ApprovalTypes, RunType
<1>2. CASE Ask \/ PassGuard \/ Revise
  <2>1. \/ run' = [run EXCEPT !.pc = "waiting"]
        \/ run' = [run EXCEPT !.step = "tool"]
        \/ run' = [run EXCEPT !.args = @ + 1, !.step = FirstStep]
    BY <1>2 DEF Ask, PassGuard, Revise
  <2> QED BY <1>1, <2>1 DEF RunType
<1>3. CASE Execute
  <2>1. PICK i : /\ i = IF Dependency # 0 THEN Dependency ELSE Matching
                 /\ run' = [run EXCEPT !.pc = "execute", !.by = i,
                                       !.late = approvals[i].expired]
    BY <1>3 DEF Execute
  <2>2. i \in Ids
    BY <1>1, <1>3, <2>1, DependencyIs, MatchingIs DEF Execute, Valid, Is
  <2>3. run'.by = i
    BY <1>1, <2>1 DEF RunType
  <2> QED BY <2>2, <2>3
<1>4. CASE Complete \/ Fail
  <2>1. run'.by = 0
    BY <1>1, <1>4 DEF Complete, Fail, Ended, RunType
  <2> QED BY <2>1
<1>5. ASSUME run' \in {run, Resumed} PROVE run'.by = run.by
  BY <1>1, <1>5 DEF Resumed, RunType
<1>6. CASE Resume
  BY <1>5, <1>6 DEF Resume
<1>7. ASSUME NEW w \in Windows, Answers(w) PROVE run' \in {run, Resumed}
  BY <1>7 DEF Answers, ReadChallenge, WriteChallenge, Resolve
<1>8. ASSUME NEW i \in Ids, Expire(i) PROVE run' = run
  BY <1>8 DEF Expire
<1>9. CASE UNCHANGED approvalVars
  BY <1>9 DEF approvalVars
<1> QED BY <1>2, <1>3, <1>4, <1>5, <1>6, <1>7, <1>8, <1>9 DEF ApprovalNext, RunStep

LEMMA ByStep == AskInv /\ ByBounds /\ [ApprovalNext]_approvalVars => ByBounds'
<1> SUFFICES ASSUME AskInv, ByBounds, [ApprovalNext]_approvalVars PROVE ByBounds'
  OBVIOUS
<1>1. run'.by \in Ids' \cup {0}
  BY LookedUp, ApprovalsStay DEF ByBounds
<1>2. failures' = failures \/ failures' = failures + 1
  BY DEF ApprovalNext, RunStep, Ask, PassGuard, Execute, Revise, Complete, Fail, Resume, Answers,
         ReadChallenge, WriteChallenge, Resolve, Expire, approvalVars
<1> QED BY <1>1, <1>2 DEF ByBounds

\* Approvals, the run and its windows have their types, and whatever a tool runs under or
\* has run under is an approval of the table.
THEOREM ApprovalsTyped == ApprovalSpec => []ApprovalTypeOK
<1>1. ApprovalInit => ByBounds
  BY DEF ApprovalInit, ByBounds
<1>2. AskInv /\ ByBounds => ApprovalTypeOK
  BY DEF AskInv, ApprovalTypes, Approval, Consent, ByBounds, ApprovalTypeOK
<1> QED BY <1>1, <1>2, AskInit, ApprovalStep, ByStep, PTL DEF ApprovalSpec

-----------------------------------------------------------------------------
(* The instance of all protocols *)

LEMMA FirstOfEach ==
  ProtocolsInit =>
    /\ Init /\ LeaseInit /\ PlanLeaseInit /\ GuardInit /\ ApprovalInit
    /\ OmsInit /\ RunInit /\ AutomationInit /\ ToolInit /\ FeedInit
BY DEF ProtocolsInit

LEMMA StepOfEach ==
  [ProtocolsNext]_AllVars =>
    /\ [Next]_vars /\ [LeaseNext]_leaderVars /\ [PlanLeaseNext]_planLeaseVars
    /\ [GuardNext]_guardVars /\ [ApprovalNext]_approvalVars /\ [OmsNext]_omsVars
    /\ [RunNext]_runVars /\ [AutomationNext]_automationVars /\ [ToolNext]_toolVars
    /\ [FeedNext]_feedVars
BY DEF ProtocolsNext, Moves, AllVars

\* A behaviour of the instance is one of every protocol, so that whatever is proved of a
\* protocol on its own holds where the instance is checked.
THEOREM EveryProtocol ==
  ProtocolsSpec =>
    /\ Spec /\ LeaseSpec /\ PlanLeaseSpec /\ GuardSpec /\ ApprovalSpec
    /\ OmsSpec /\ RunSpec /\ AutomationSpec /\ ToolSpec /\ FeedSpec
BY FirstOfEach, StepOfEach, PTL
DEF ProtocolsSpec, Spec, LeaseSpec, PlanLeaseSpec, GuardSpec, ApprovalSpec, OmsSpec, RunSpec,
    AutomationSpec, ToolSpec, FeedSpec

\* ProtocolsTypeOK: every protocol stays within its types, for all values of the constants.
THEOREM ProtocolTypes == ProtocolsSpec => []ProtocolsTypeOK
<1>1. (LeaseTypeOK /\ PlanLeaseTypeOK /\ GuardTypeOK /\ ApprovalTypeOK /\ LiveTypeOK
       /\ RunTypeOK /\ AutomationTypeOK /\ ToolTypeOK /\ FeedTypeOK)
      => ProtocolsTypeOK
  BY DEF ProtocolsTypeOK
<1>2. ProtocolsSpec => [](LeaseTypeOK /\ PlanLeaseTypeOK /\ GuardTypeOK /\ ApprovalTypeOK)
  BY EveryProtocol, LeaseTypes, LeasesAreBounded, GuardTypes, ApprovalsTyped, PTL
<1>3. ProtocolsSpec => [](LiveTypeOK /\ RunTypeOK /\ AutomationTypeOK)
  BY EveryProtocol, LiveTypes, RunTypes, AutomationTypes, PTL
<1>4. ProtocolsSpec => [](ToolTypeOK /\ FeedTypeOK)
  BY EveryProtocol, ToolsTyped, FeedTypesOK, PTL
<1> QED BY <1>1, <1>2, <1>3, <1>4, PTL
=============================================================================
