SPECIFICATION Spec
CONSTANTS
  Addresses = {a1, a2}
  Tries = 2
  MaxCalls = 2
  MaxFaults = 1
  TelegramsAcked = TRUE

PROPERTY SetMeansSet
