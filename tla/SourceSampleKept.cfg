SPECIFICATION Spec
CONSTANTS
  Worlds <- Crowded
  Bodies <- TextBodies
  Errors = {"rate-limited", "timeout"}
  Policies <- Default
  Allowances = {4}
  PerFile = 12000
  Total = 24000
  Floor = 512
  MaxCandidates = 12
  MaxFailures = 16
  MaxMetadata = 8
  MinRepositories = 2
  Preferred = 3
  MaxFiles = 4
  MaxRuns = 1
INVARIANT RateLimitedIsNotKept
CHECK_DEADLOCK FALSE
