CONSTANTS
  Commands = {"goto"}
  Events = {"armed"}
  MaxGoals = 2
  MaxLandReplans = 1
  RampTicks = 1
SPECIFICATION Spec
PROPERTY NoStaleSettle
