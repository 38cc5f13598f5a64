SPECIFICATION MCSpec
CONSTANTS
  k1 = k1
  k2 = k2
  Conns = {k1, k2}
  NoConn = NoConn
  Faults = {"ledger", "issuer", "observe", "commands", "start", "dispose"}
  MaxFaults = 2
  Targets = {"preview", "program"}
  SyncRetries = 1
  SyncBudget = 2
  SyncEvents = {"change", "rotate", "confirm", "age", "create", "send", "dispose", "silence", "refuse", "stray"}
  BootRetries = 0
  BootBudget = 2
  BootEvents = {"change", "age", "create", "send", "ready", "ledger", "dispose", "error", "silence", "stray"}
  Parts = {"gateway", "boot", "solo", "both", "narrow"}
CHECK_DEADLOCK FALSE
INVARIANTS NothingOutlivesTheTransport EvidenceIsCurrent RegistryIsCurrent
PROPERTIES ClosedConnectionsEnd Settles BootstrapEnds
