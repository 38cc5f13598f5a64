SPECIFICATION MCSpec
CONSTANTS
  Targets = {"preview", "program"}
  Granted = {"program"}
  Ops = {"op1", "op2"}
  Frames = 2
  Capacity = 2
  Budget = 3
  CanTake = TRUE
  Presses = {"o1"}
  Calls = 2
  MaxLeases = 2
  Events = 4
INVARIANTS AnswersAreJournalled OutcomesAreTrue DeadAuthorityDoesNothing ReadinessBelongsToTheNewest
PROPERTIES ImplementsJournal AdmissionIsCurrent
CHECK_DEADLOCK FALSE
