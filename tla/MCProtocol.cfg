SPECIFICATION MCSpec
CONSTANTS
  Flaws = {"issuer", "audience"}
  Skews <- MCSkews
  Timeout = 1
  MaxClock = 2
  MaxRevision = 1
  MaxSent = 3
  MaxChecks = 2
  MaxAdmitted = 3
  Targets = {"program"}
  Components = {"a", "b", "c"}
  Parent <- Tree
  Labels = {"l1", "l2"}
  Scenes <- Panels
  Allowed = {"a", "b"}
  FrameRevisions = 3
  MaxSequence = 3
  MaxTime = 0
  MaxKey = 1
  FrameTimeout = 2
  MaxSkew = 0
  NoFrame = NoFrame
  NoComponent = NoComponent
INVARIANTS FeedbackIsFaithful ReplicaIsProduction CurrentMeansRecent
CHECK_DEADLOCK FALSE
