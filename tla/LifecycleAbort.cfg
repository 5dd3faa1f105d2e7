SPECIFICATION FairSpec
CONSTANTS
  MaxTerms = 0
  MaxHups = 0
  MaxAborts = 1
PROPERTY AbortEndsProcess
