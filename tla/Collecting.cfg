\* Every pair of profiles and every allowance with the constants of the code; then
\* the collection of either profile with its cap, any request of it failing.
SPECIFICATION CollectingSpec
CONSTANTS
  CompleteProfile = 16
  MinimumUseful = 6
  MaxSource = 4
  QualitySource = 21
  QualityAttribution = 12
  QualityMinimum = 5
  Unread = Unread
  Profiles <- MCProfiles
  Remainings <- MCRemainings
  GivenCaps = {0, 1, 2, 3, 4, 5, 6, 7, 8, 9, 10, 11, 12, 13, 14, 15, 16}
  RepositoryPages = 2
  EventPages = 2
  Inspected = 3
  PerRepository = 3
CHECK_DEADLOCK FALSE
INVARIANTS
  LimitedSpendsAll
  EventsKeepReserve
  LossIsStated
PROPERTIES
  PlanPaysOff
  BudgetSpec
