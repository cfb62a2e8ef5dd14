CONSTANTS
  Commands = {"arm", "rtl", "set_origin", "eland"}
  Events = {"fault"}
  MaxGoals = 2
  MaxLandReplans = 1
  RampTicks = 1
SPECIFICATION Spec
INVARIANT ResultMatchesStatus
INVARIANT FreshSession
PROPERTY ActionServerSpec
