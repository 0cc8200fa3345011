SPECIFICATION FairStatsSpec
CONSTANTS
  Rule = {r1, r2}
  MaxBytes = 2
  MaxReports = 2
  MaxFailures = 1
  MaxDbErrors = 1
  MaxCrashes = 1
INVARIANTS Conserved AckMeansBilled
PROPERTY Reported
CHECK_DEADLOCK FALSE
