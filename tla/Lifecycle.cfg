SPECIFICATION FairSpec
CONSTANTS
  MaxTerms = 2
  MaxHups = 2
  MaxAborts = 1
INVARIANTS TypeOK ShutdownOnce OrderlyExit
PROPERTIES QueuedShutdownRuns TermEndsProcess
