\* Two invocations over every small world, with ceilings low enough to be met.
SPECIFICATION Spec
CONSTANTS
  Worlds <- Small
  Bodies <- SmallBodies
  Errors = {"rate-limited", "timeout"}
  Policies <- AllPolicies
  Allowances = {0, 2, 3}
  PerFile = 2
  Total = 3
  Floor = 1
  MaxCandidates = 12
  MaxFailures = 4
  MaxMetadata = 1
  MinRepositories = 2
  Preferred = 3
  MaxFiles = 4
  MaxRuns = 2
INVARIANTS TestsOnlySupplement OneAnswer ReceiptsTellAll KeptReadingsLast
CHECK_DEADLOCK FALSE
