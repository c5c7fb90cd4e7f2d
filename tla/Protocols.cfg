CONSTANTS
  OrderIds = {1, 2, 3, 4, 5}
  NoOne = NoOne
  Size <- Sizes
  Old <- Chain
  Owners = {a, b, c}
  Ttl = 2
  MaxEpoch = 3
  Workers = {v, w}
  Plans = {p, q}
  Duration = 4
  Setup = 1
  Timeout = 2
  MaxSaves = 2
  MaxCrashes = 1
  Callers = {a, b, c}
  Outcomes <- External
  Threshold = 2
  Base = 1
  MaxBackoff = 2
  Concurrency = 2
  Requests = 3
  Window = 2
  RetryAfter = {0, 3}
  Windows = {v, w}
  Guarded = TRUE
  MaxApprovals = 3
  MaxRevisions = 1
  MaxFailures = 1
  Orders = {o1}
  Gateways = {g1}
  Tasks = {t1, t2}
  Home <- OneHome
  Quantity = 2
  Overlapping = FALSE
  MaxPlacements = 2
  MaxRestarts = 2
  Runs = {r1}
  Ceiling = 2
  MaxLimit = 3
  MaxStops = 2
  Triggers <- SomeTriggers
  Events = {e1}
  Deliveries = {x1}
  Poller = poller
  Daily = 1
  DayLength = 2
  MaxClock = 2
  MaxOutages = 1
  ToolCalls = {1, 2, 3}
  Workloads <- SomeWork
  MaxActive = 2
  MaxDeaths = 1
  Nobody = Nobody
  MaxEvents = 4
  MaxStarts = 1
SPECIFICATION ProtocolsSpec
INVARIANT ProtocolsTypeOK
INVARIANT ExposureIsKept
INVARIANT EpochHasOneOwner
INVARIANT RunningTicksMaySave
PROPERTY AccountIsTicked
INVARIANT NothingStaysBehind
PROPERTY ScopeIsUsable
INVARIANT AnswersAreKept
INVARIANT RecordIsTrue
INVARIANT NeverBlindlyRepeated
PROPERTY FilledNeverDecreases
INVARIANT BusyRunsAreDriven
PROPERTY UserDecisionsStand
PROPERTY WorkIsResumed
INVARIANT AnalyzedOnce
PROPERTY PausesAreKept
PROPERTY OutcomesAreFinal
PROPERTY DeadlinesAreAnswered
INVARIANT CallsAreAccountedFor
INVARIANT AllowedFeedsAreWhole
PROPERTY ExecutionsEnd
CHECK_DEADLOCK FALSE
