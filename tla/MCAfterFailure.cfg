SPECIFICATION Spec
CONSTANTS
  Paths <- Library
  Up <- LibraryUp
  MayBeDir = {1, 2}
  MayBeFile = {3, 4}
  Flaky = {}
  InitialDisks <- Full
  MaxClock = 1
  Supported = {3, 4}
  SettingsValues <- Root
  InitialTables <- NothingIndexed
  PromptWidget = TRUE
  MaxRequests = 1
  MaxFaults = 1
CHECK_DEADLOCK FALSE
INVARIANTS
  PlayerSurvives
