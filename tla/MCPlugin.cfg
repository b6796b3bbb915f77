SPECIFICATION FairSpec
CONSTANTS
  d1 = d1
  d2 = d2
  Dirs <- TwoDirs
  InitialFiles <- NoneOrEdited
  sleepMs = 500
  maxSleepMs = 2500
INVARIANTS
  PluginTypeOK
  UsersSettings
  NextStartReadsTheSame
  ThreadHasItsObjects
  RequestsAreNoticed
PROPERTIES
  JoinsReturn
