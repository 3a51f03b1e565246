\* Two invocations of any command lines over one cache.
SPECIFICATION InvocationSpec
CONSTANTS
  CompleteProfile = 16
  MinimumUseful = 6
  MaxSource = 4
  QualitySource = 21
  QualityAttribution = 12
  QualityMinimum = 5
  Unread = Unread
  Profiles <- MCProfiles
  Readings <- MCReadings
  Handles <- MCHandles
  Need <- MCNeed
  Files <- MCFiles
  Empty <- MCEmpty
  Lines <- MCLines
  MaxRuns = 2
  Editions = {1}
CHECK_DEADLOCK FALSE
INVARIANTS
  BeginsAsPlanned
  SpendsWithinPlan
  AllowanceKept
  ServedInScope
  ExitTellsAll
PROPERTIES
  PrivateLeavesNothing
  InvocationEnds
