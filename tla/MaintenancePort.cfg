SPECIFICATION Spec
CONSTANTS
  MaxCalls = 1
  MaxFaults = 0
INVARIANT UnconfiguredPort
