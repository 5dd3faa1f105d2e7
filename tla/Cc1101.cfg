SPECIFICATION FairSpec
CONSTANT MaxFaults <- Faults
INVARIANTS TypeOK LockIsReleased NeverDeaf
PROPERTIES CallsReturn StopEnds Recovers
