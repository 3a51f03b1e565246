\* Two invocations and a clearer on one cache root and one export destination.
SPECIFICATION FilesSpec
CONSTANTS
  Procs <- MCProcs
  Exporters <- MCProcs
  Clearers <- MCClearers
  LegacyFiles <- MCLegacyFiles
  Attempts = 2
  Leftovers <- MCLeftovers
CHECK_DEADLOCK FALSE
INVARIANTS
  NeverMixed
  RaceHasAWinner
  ReportIsTrue
PROPERTIES
  NeverReplaced
