CONSTANTS
  Commands = {"land"}
  Events = {"armed", "positionLost"}
  MaxGoals = 1
  MaxLandReplans = 1
  RampTicks = 1
SPECIFICATION FairSpec
INVARIANT TypeOK
PROPERTY LandingEnds
PROPERTY PositionLossLands
