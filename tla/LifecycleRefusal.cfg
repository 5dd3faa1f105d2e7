SPECIFICATION FairSpec
CONSTANTS
  MaxTerms = 1
  MaxHups = 1
  MaxAborts = 0
PROPERTY RefusalIsHarmless
