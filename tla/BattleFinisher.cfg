\* Two battles nobody can tell the end of.
SPECIFICATION BattleSpec
CONSTANTS
  Profiles <- AllProfiles
  Snapshots <- AllSnapshots
  Matches <- ThinMatches
INVARIANT BattleHasFinisher
