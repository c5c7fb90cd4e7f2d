----------------------------- MODULE MarketFeed -----------------------------
(***************************************************************************)
(* One stream of market events of a broker: BrokerSequenceTracker of       *)
(* stock_ai/brokers/sequence_tracker.py, the recovery service of           *)
(* market_feed_recovery_service.py with its durable receipts, and the      *)
(* stream of gateway.py that passes events on.                             *)
(*                                                                         *)
(* The broker numbers its events.  Connections lose them, repeat them and  *)
(* bring them out of order.  An event is observed in one step; a caller    *)
(* that recovers a gap asks the broker for a snapshot first, and events    *)
(* go on while it waits.                                                   *)
(***************************************************************************)
EXTENDS Integers, Sequences

CONSTANTS
  MaxEvents,   \* bound: events of the broker
  MaxStarts    \* bound: starts of the host after the first

ASSUME FeedAssumption == {MaxEvents, MaxStarts} \subseteq Nat

VARIABLES
  emitted,    \* events the broker has emitted: 1 .. emitted
  tracker,    \* _last (0 for none) and _unresolved, with the allowance of the
              \* latest observation
  gaps,       \* durable receipts of gaps, in their order
  recovered,  \* the gaps with a durable receipt of their recovery
  latest,     \* _latest_gap_by_stream, or 0
  snapshot,   \* a snapshot on its way to recover_snapshot, or 0
  starts,
  origin,     \* history: where the tracker began to count
  observed,   \* history: events and snapshots the host has seen since its start
  passedOn    \* history: those of them that consumers have seen

receipts == <<gaps, recovered>>
seen     == <<origin, observed, passedOn>>
feedVars == <<emitted, tracker, receipts, latest, snapshot, starts, seen>>

NotStarted == [last |-> 0, unresolved |-> FALSE, allowed |-> FALSE]

FeedInit ==
  /\ emitted = 0
  /\ tracker = NotStarted
  /\ gaps = <<>> /\ recovered = {}
  /\ latest = 0
  /\ snapshot = 0
  /\ starts = 0
  /\ origin = 0 /\ observed = {} /\ passedOn = {}

Emit ==
  /\ emitted < MaxEvents
  /\ emitted' = emitted + 1
  /\ UNCHANGED <<tracker, receipts, latest, snapshot, starts, seen>>

-----------------------------------------------------------------------------
(* Observations *)

IsGap(s) == tracker.last # 0 /\ s > tracker.last + 1
IsNext(s) == tracker.last # 0 /\ s = tracker.last + 1

\* Faulty: the next event of a broken stream may be traded on.
TradesOnTheNext(s) == tracker.last = 0 \/ IsNext(s)

\* A stream with a gap allows nothing, nor does an event that comes late.
MayTrade(s) ==
  \/ tracker.last = 0
  \/ ~tracker.unresolved /\ (IsNext(s) \/ s = tracker.last)

\* observe of the tracker.
Tracked(s) ==
  [last |-> IF s > tracker.last THEN s ELSE tracker.last,
   unresolved |-> tracker.unresolved \/ IsGap(s),
   allowed |-> MayTrade(s)]

\* observe of the service, and the stream of the gateway: the event is passed on when its
\* receipt and its sample have been recorded.  Either may fail, which ends the stream.
Observe(s) ==
  /\ tracker' = Tracked(s)
  /\ origin' = IF tracker.last = 0 THEN s ELSE origin
  /\ observed' = observed \cup {s}
  /\ \/ /\ gaps' = IF IsGap(s) THEN Append(gaps, s) ELSE gaps
        /\ latest' = IF IsGap(s) THEN Len(gaps') ELSE latest
        /\ passedOn' \in {passedOn, passedOn \cup {s}}
     \/ UNCHANGED <<gaps, latest, passedOn>>
  /\ UNCHANGED <<emitted, recovered, snapshot, starts>>

\* An event without a sequence number allows nothing.
ObserveUnsequenced ==
  /\ tracker' = [tracker EXCEPT !.allowed = FALSE]
  /\ UNCHANGED <<emitted, receipts, latest, snapshot, starts, seen>>

-----------------------------------------------------------------------------
(* Recovery *)

\* The caller gets a snapshot of what the broker has emitted so far.
TakeSnapshot ==
  /\ snapshot = 0 /\ emitted > 0
  /\ snapshot' = emitted
  /\ UNCHANGED <<emitted, tracker, receipts, latest, starts, seen>>

\* _latest_durable_gap; 0 for none.
Unrecovered == DOMAIN gaps \ recovered
LatestDurableGap ==
  IF Unrecovered = {} THEN 0 ELSE CHOOSE g \in Unrecovered : \A h \in Unrecovered : h <= g

GapToRecover == IF latest # 0 THEN latest ELSE LatestDurableGap

\* The receipt of a recovery is for a gap that has none, and its snapshot is not older
\* than the event that showed the gap.
MayBeRecorded(g) == g # 0 /\ g \notin recovered /\ snapshot >= gaps[g]

\* mark_snapshot_recovered refuses to count backwards.
IsCurrent == snapshot >= tracker.last

\* recover_snapshot.  When the tracker refuses, the receipt has been recorded before.
RecoverSnapshot ==
  /\ snapshot # 0
  /\ snapshot' = 0
  /\ \/ /\ MayBeRecorded(GapToRecover)
        /\ recovered' = recovered \cup {GapToRecover}
        /\ IF IsCurrent
           THEN /\ tracker' = [tracker EXCEPT !.last = snapshot, !.unresolved = FALSE]
                /\ latest' = 0
                /\ origin' = IF tracker.last = 0 THEN snapshot ELSE origin
                /\ observed' = observed \cup 1 .. snapshot
                /\ passedOn' = passedOn \cup 1 .. snapshot
           ELSE UNCHANGED <<tracker, latest, seen>>
     \/ UNCHANGED <<tracker, recovered, latest, seen>>
  /\ UNCHANGED <<emitted, gaps, starts>>

\* The host starts again: only the receipts are left.
FeedRestarts ==
  /\ starts < MaxStarts
  /\ starts' = starts + 1
  /\ tracker' = NotStarted
  /\ latest' = 0 /\ snapshot' = 0
  /\ origin' = 0 /\ observed' = {} /\ passedOn' = {}
  /\ UNCHANGED <<emitted, receipts>>

FeedNext ==
  \/ Emit
  \/ \E s \in 1 .. emitted : Observe(s)
  \/ ObserveUnsequenced
  \/ TakeSnapshot
  \/ RecoverSnapshot
  \/ FeedRestarts

FeedSpec == FeedInit /\ [][FeedNext]_feedVars

-----------------------------------------------------------------------------

\* Types.
FeedTypeOK ==
  /\ emitted \in 0 .. MaxEvents
  /\ tracker \in [last: 0 .. emitted, unresolved: BOOLEAN, allowed: BOOLEAN]
  /\ gaps \in Seq(1 .. emitted) /\ recovered \subseteq DOMAIN gaps
  /\ latest \in DOMAIN gaps \cup {0}
  /\ snapshot \in 0 .. emitted
  /\ starts \in 0 .. MaxStarts
  /\ origin \in 0 .. tracker.last
  /\ passedOn \subseteq observed /\ observed \subseteq 1 .. emitted

\* When an observation allows trading, the host has seen every event since its start up to
\* the latest, or a snapshot in its place, over losses, repetitions, reordering, stale
\* snapshots and receipts that could not be written (observe and mark_snapshot_recovered
\* of the tracker).
AllowedFeedsAreWhole ==
  tracker.allowed => origin .. tracker.last \subseteq observed

-----------------------------------------------------------------------------
(* What the code or its comments say and the code does not keep *)

\* market_feed_recovery_service.py:34: a gap can be recovered with a snapshot that is new
\* enough.
GapsCanBeRecovered ==
  tracker.unresolved => GapToRecover # 0 /\ GapToRecover \notin recovered

\* market_feed_recovery_service.py:32, "explicit, durable and fail-closed": a gap without
\* the receipt of its recovery allows nothing, also after a restart.
GapsAreDurable == tracker.allowed => Unrecovered = {}

\* gateway.py:113: the stream fails closed, so consumers that may trade have seen all.
ConsumersSeeAll == tracker.allowed => origin .. tracker.last - 1 \subseteq passedOn
=============================================================================
