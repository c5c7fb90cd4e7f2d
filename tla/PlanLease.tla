----------------------------- MODULE PlanLease -----------------------------
(***************************************************************************)
(* The leases of the trading plans of one account: account_lease, lease    *)
(* and the compare-and-swap of save_state of                               *)
(* execution/trading_plan_store.py, as tick of                             *)
(* execution/trading_plan_executor.py uses them.  Workers are calls of     *)
(* tick, in one process or several; what a tick does is in TradingPlan.    *)
(*                                                                         *)
(* A worker reads the clock once, when it starts: both leases begin and    *)
(* expire by that instant, and the 45 seconds of _tick begin later.  Times *)
(* are what is left or what has passed, in ticks of the clock.             *)
(***************************************************************************)
EXTENDS Integers

CONSTANTS
  Workers,
  Plans,
  Duration,   \* seconds of both leases
  Setup,      \* bound: time from the start of a tick to its second lease
  Timeout,    \* timeout of asyncio.wait_for
  MaxSaves,   \* bound: revisions of a plan
  MaxCrashes  \* bound: workers that are lost with their leases

\* "Finish before either lease can expire."
ASSUME LeaseTimesAssumption ==
  /\ {Duration, Setup, Timeout, MaxSaves, MaxCrashes} \subseteq Nat
  /\ Setup + Timeout < Duration

VARIABLES
  account,   \* the row of autonomous_account_leases, or NoLease
  lease,     \* lease_owner and lease_until of each plan
  revision,  \* revision of each plan
  worker,    \* the calls of tick
  crashes

planLeaseVars == <<account, lease, revision, worker, crashes>>

\* An expiry is remembered for as long as a worker may compare it with its instant.
NoLease == [owner |-> "none", left |-> -Setup]
Idle    == [pc |-> "idle"]

PlanLeaseInit ==
  /\ account = NoLease
  /\ lease = [p \in Plans |-> NoLease]
  /\ revision = [p \in Plans |-> 1]
  /\ worker = [w \in Workers |-> Idle]
  /\ crashes = 0

WorkerAt(w, pc) == worker[w].pc = pc
Go(w, pc) == worker' = [worker EXCEPT ![w].pc = pc]

\* The instant of the tick's start, against which every expiry is compared.
ExpiredAtStart(w, l) == l.left + worker[w].passed <= 0

\* Faulty: a lease that was not released is never taken over.
OnlyReleased(w, l) == l = NoLease

\* No row, or one that had expired when the tick began.
Available(w, l) == l = NoLease \/ ExpiredAtStart(w, l)

\* Faulty: the time a tick has waited for its leases is added to them.
TakenLonger(w) == [owner |-> w, left |-> Duration + worker[w].passed]

Taken(w) == [owner |-> w, left |-> Duration - worker[w].passed]

Start(w, p) ==
  /\ WorkerAt(w, "idle")
  /\ worker' = [worker EXCEPT ![w] = [pc |-> "account", plan |-> p, passed |-> 0, read |-> 0]]
  /\ UNCHANGED <<account, lease, revision, crashes>>

\* account_lease; another tick has it: account_busy.
TakeAccount(w) ==
  /\ WorkerAt(w, "account")
  /\ IF Available(w, account)
     THEN account' = Taken(w) /\ Go(w, "plan")
     ELSE UNCHANGED account /\ worker' = [worker EXCEPT ![w] = Idle]
  /\ UNCHANGED <<lease, revision, crashes>>

\* lease; plan_busy releases the account lease.
TakePlan(w) ==
  /\ WorkerAt(w, "plan")
  /\ LET p == worker[w].plan
     IN IF Available(w, lease[p])
        THEN lease' = [lease EXCEPT ![p] = Taken(w)] /\ Go(w, "begin")
        ELSE UNCHANGED lease /\ Go(w, "leave")
  /\ UNCHANGED <<account, revision, crashes>>

\* The first read of _tick; its 45 seconds begin.
BeginTick(w) ==
  /\ WorkerAt(w, "begin")
  /\ worker' = [worker EXCEPT ![w].pc = "run", ![w].passed = 0,
                              ![w].read = revision[worker[w].plan]]
  /\ UNCHANGED <<account, lease, revision, crashes>>

\* save_state: the update finds the row, or the tick ends with an error.
MaySave(w) ==
  LET p == worker[w].plan
  IN revision[p] = worker[w].read /\ lease[p].owner = w

Save(w) ==
  /\ WorkerAt(w, "run")
  /\ revision[worker[w].plan] < MaxSaves
  /\ IF MaySave(w)
     THEN /\ revision' = [revision EXCEPT ![worker[w].plan] = @ + 1]
          /\ worker' = [worker EXCEPT ![w].read = @ + 1]
     ELSE UNCHANGED revision /\ Go(w, "release")
  /\ UNCHANGED <<account, lease, crashes>>

\* _tick returns, fails, or is cancelled by its timeout.
EndTick(w) ==
  /\ WorkerAt(w, "run")
  /\ Go(w, "release")
  /\ UNCHANGED <<account, lease, revision, crashes>>

\* Faulty: the lease is deleted whoever has it by now.
ReleasesAny(w, l) == NoLease

\* Only the worker's own lease is released: it may have been taken over.
Released(w, l) == IF l.owner = w THEN NoLease ELSE l

ReleasePlan(w) ==
  /\ WorkerAt(w, "release")
  /\ lease' = [lease EXCEPT ![worker[w].plan] = Released(w, @)]
  /\ Go(w, "leave")
  /\ UNCHANGED <<account, revision, crashes>>

ReleaseAccount(w) ==
  /\ WorkerAt(w, "leave")
  /\ account' = Released(w, account)
  /\ worker' = [worker EXCEPT ![w] = Idle]
  /\ UNCHANGED <<lease, revision, crashes>>

\* The process ends: its leases stay until they expire.
LoseWorker(w) ==
  /\ ~WorkerAt(w, "idle")
  /\ crashes < MaxCrashes
  /\ crashes' = crashes + 1
  /\ worker' = [worker EXCEPT ![w] = Idle]
  /\ UNCHANGED <<account, lease, revision>>

\* The leases are taken within the setup bound and _tick is over by its timeout;
\* a release may come as late as it likes.
InTime(w) ==
  CASE worker[w].pc \in {"account", "plan", "begin"} -> worker[w].passed < Setup
    [] worker[w].pc = "run"                          -> worker[w].passed < Timeout
    [] OTHER                                         -> TRUE

Older(l) == IF l.left > -Setup THEN [l EXCEPT !.left = @ - 1] ELSE l

LeaseTick ==
  /\ \A w \in Workers : InTime(w)
  /\ account' = Older(account)
  /\ lease' = [p \in Plans |-> Older(lease[p])]
  /\ worker' = [w \in Workers |->
       IF worker[w].pc \in {"account", "plan", "begin", "run"}
       THEN [worker[w] EXCEPT !.passed = @ + 1] ELSE worker[w]]
  /\ UNCHANGED <<revision, crashes>>

Step(w) ==
  \/ \E p \in Plans : Start(w, p)
  \/ TakeAccount(w) \/ TakePlan(w) \/ BeginTick(w) \/ Save(w) \/ EndTick(w)
  \/ ReleasePlan(w) \/ ReleaseAccount(w)

PlanLeaseNext == (\E w \in Workers : Step(w) \/ LoseWorker(w)) \/ LeaseTick

PlanLeaseSpec == PlanLeaseInit /\ [][PlanLeaseNext]_planLeaseVars

-----------------------------------------------------------------------------
(* Properties *)

Lease == [owner: Workers \cup {"none"}, left: (-Setup)..Duration]

PlanLeaseTypeOK ==
  /\ account \in Lease
  /\ lease \in [Plans -> Lease]
  /\ revision \in [Plans -> Nat \ {0}]
  /\ \A w \in Workers :
       \/ worker[w] = Idle
       \/ /\ worker[w].pc \in {"account", "plan", "begin", "run", "release", "leave"}
          /\ worker[w].plan \in Plans
          /\ worker[w].passed \in 0..(Setup + Timeout)
          /\ worker[w].read \in Nat
  /\ crashes \in Nat

\* A tick that runs still has the lease of the account, so that no other tick decides
\* on the same exposure, the lease of its plan and the latest revision: none of its
\* saves is refused, in particular not between its submission and the receipt.
RunningTicksMaySave ==
  \A w \in Workers : WorkerAt(w, "run") => account.owner = w /\ MaySave(w)

\* lease and account_lease: what a lost worker held runs out; the account is
\* reconciled again and again.
AccountIsTickedAgain == []<>(\E w \in Workers : WorkerAt(w, "run"))
=============================================================================
