SPECIFICATION FairSpec
CONSTANTS
  Addresses = {a1, a2}
  Tries = 2
  MaxCalls = 2
  MaxFaults = 2
  TelegramsAcked = FALSE
INVARIANT TypeOK
PROPERTIES SetMeansSet Recovers DestructorEnds
