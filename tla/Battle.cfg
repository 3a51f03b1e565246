\* Battles of fixtures and quiet accounts, clean and spicy; no battle is stuck.
SPECIFICATION BattleSpec
CONSTANTS
  Profiles <- AllProfiles
  Snapshots <- AllSnapshots
  Matches <- MCMatches
INVARIANTS
  MatchupAlways
  NothingOverused
  ThinEvidenceIsTold
  WordsMatchNumbers
