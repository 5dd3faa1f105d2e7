SPECIFICATION FairSpec
CONSTANTS
  MaxCalls = 2
  MaxFaults = 2
INVARIANTS TypeOK OneCall OrderlyShutdown CrashNeedsOverlap
PROPERTIES AnnouncesStatus ConfiguredForGood BecomesConfigured ShutdownEnds
