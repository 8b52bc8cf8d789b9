SPECIFICATION MCSpec
CONSTANTS
  None = None
  Ids = {1, 3}
  InitialWindow = 2
  WINDOW_MAX = 3
  LeftOut = {"grant", "start", "held"}
  Scenarios <- MCScenarios
CHECK_DEADLOCK FALSE
INVARIANTS
  ConfirmedIsReal
  MessagesOnce
  FindingsTrue
