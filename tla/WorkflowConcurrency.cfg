SPECIFICATION WorkflowSpec
CONSTANTS
  Targets = {"t"}
  Handlers = {"h1", "h2"}
  Hour = 3
  MaxClock = 5
CHECK_DEADLOCK FALSE
INVARIANTS
  OneWinnerPerVersion
