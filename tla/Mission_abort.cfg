CONSTANTS
  NoPlan = NoPlan
  Plans = {"insist"}
  Nodes = {"outer", "inner", "hop"}
  Root <- MCRoot
  Kind <- MCKind
  Kids <- MCKids
  Limit <- MCLimit
  Capable = {"outer", "inner", "hop"}
  NeedsArm = {"goto", "hop"}
  MaxInFlight = 2
SPECIFICATION Spec
INVARIANT AbortCancelsEverything
