SPECIFICATION Spec
CONSTANTS
  Paths <- Library
  Up <- LibraryUp
  MayBeDir = {1, 2}
  MayBeFile = {3, 4}
  Flaky = {2}
  InitialDisks <- Full
  MaxClock = 2
  Supported = {3, 4}
  SettingsValues <- Root
  InitialTables <- NothingOrAllIndexed
  PromptWidget = TRUE
  MaxRequests = 1
  MaxFaults = 1
CHECK_DEADLOCK FALSE
INVARIANTS
  Rooted
  NothingMissing
PROPERTIES
  PartialScanWritesNothing
