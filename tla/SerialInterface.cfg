SPECIFICATION FairSpec
CONSTANTS
  GetCrc8 <- FamilyCrc8
  Frames <- ModuleFrames
  TryCounts = {1}
  MaxFrames = 2
  MaxFaults = 1
INVARIANTS TypeOK EveryFrame EarlyMeansEmptied
PROPERTIES ImplementsFrameChannel Resynchronises CallsReturn StopEnds Recovers
