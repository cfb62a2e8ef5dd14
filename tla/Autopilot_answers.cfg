CONSTANTS
  Commands = {"goto", "estop"}
  Events = {"armed"}
  MaxGoals = 2
  MaxLandReplans = 1
  RampTicks = 1
SPECIFICATION FairSpec
PROPERTY WaitResolves
PROPERTY CancelResolves
PROPERTY EstopKills
