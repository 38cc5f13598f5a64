SPECIFICATION MCSpec
CONSTANTS
  Conns = {k1, k2}
  None = None
  MaxEpochs = 3
  MaxRecords = 11
  Ids = {"c1", "c2"}
  LegacyIds = {"c1"}
  StoreTime = 2
  StoreLifetime = 1
  Budget = 5
  Interval = 1
  MaxStale = 2
  MaxDelay = 2
  Lifetime = 3
  MaxTime = 4
  Requests = 2
  Candidates = {alice, bob}
  Nobody = Nobody
  Shows = {"s1"}
  Callers = {r1, r2}
  Sockets = {"obs"}
  MaxTokens = 2
  MaxSessions = 1
  MaxCrashes = 1
  MaxFailures = 1
SYMMETRY Symmetry
INVARIANTS HistoryVerifies AuditMatchesSessions EarlierConnectionsAreClosed FileStaysUsable StalenessIsBounded OwnerIsFinal
PROPERTY NoResurrection
CHECK_DEADLOCK FALSE
