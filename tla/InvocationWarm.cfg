\* The same invocations: the allowance a complete run reads a snapshot with.
SPECIFICATION InvocationSpec
CONSTANTS
  CompleteProfile = 16
  MinimumUseful = 6
  MaxSource = 4
  QualitySource = 21
  QualityAttribution = 12
  QualityMinimum = 5
  Unread = Unread
  Profiles <- MCProfiles
  Readings <- MCReadings
  Handles <- MCHandles
  Need <- MCNeed
  Files <- MCFiles
  Empty <- MCEmpty
  Lines <- MCLines
  MaxRuns = 2
  Editions = {1}
CHECK_DEADLOCK FALSE
INVARIANT
  SameReadingWarm
