SPECIFICATION FairSpec
CONSTANTS
  Paths <- Library
  Up <- LibraryUp
  MayBeDir = {1, 2}
  MayBeFile = {3, 4}
  Flaky = {}
  InitialDisks <- Full
  MaxClock = 2
  Supported = {3, 4}
  SettingsValues <- Root
  InitialTables <- AllIndexed
  PromptWidget = TRUE
  MaxRequests = 3
  MaxFaults = 0
CHECK_DEADLOCK FALSE
PROPERTIES
  StopEndsThread
  RestartIsServed
  ExpandedRowsFollow
