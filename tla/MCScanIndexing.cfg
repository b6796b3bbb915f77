SPECIFICATION FairSpec
CONSTANTS
  Paths <- Library
  Up <- LibraryUp
  MayBeDir = {1, 2}
  MayBeFile = {3, 4}
  Flaky = {}
  InitialDisks <- Full
  MaxClock = 1
  Supported = {3, 4}
  SettingsValues <- RootOrSub
  InitialTables <- NothingOrAllIndexed
  PromptWidget = TRUE
  MaxRequests = 3
  MaxFaults = 0
CHECK_DEADLOCK FALSE
PROPERTIES
  LibraryIsIndexed
