SPECIFICATION Spec
CONSTANTS
  Paths <- Drives
  Up <- DrivesUp
  MayBeDir = {1, 2}
  MayBeFile = {}
  Flaky = {1}
  InitialDisks <- BothDrives
  MaxClock = 2
  Supported = {}
  SettingsValues <- DriveSettings
  InitialTables <- NothingIndexed
  PromptWidget = TRUE
  MaxRequests = 2
  MaxFaults = 0
CHECK_DEADLOCK FALSE
INVARIANTS
  AtMostOneRecord
