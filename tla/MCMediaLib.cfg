SPECIFICATION FairMediaLib
CONSTANTS
  Paths <- Library
  Up <- LibraryUp
  MayBeDir = {1, 2}
  MayBeFile = {3, 4}
  Flaky = {}
  InitialDisks <- Single
  MaxClock = 3
  Supported = {3, 4}
  SettingsValues <- Root
  InitialTables <- SingleIndexed
  PromptWidget = FALSE
  MaxRequests = 1
  MaxFaults = 0
CHECK_DEADLOCK FALSE
INVARIANTS
  WidgetTypeOK
  TreeIsTable
  NoRowTwice
  ExpandedRowsAreShown
PROPERTIES
  ViewCatchesUp
