CONSTANTS
  NoPlan = NoPlan
  Plans = {"search", "insist", "broken"}
  Nodes = {"all", "until", "again", "leg", "goto", "spin", "land", "outer", "inner", "hop", "never", "nothing"}
  Root <- MCRoot
  Kind <- MCKind
  Kids <- MCKids
  Limit <- MCLimit
  Capable = {"all", "until", "again", "leg", "goto", "spin", "land", "outer", "inner", "hop", "never", "nothing"}
  NeedsArm = {"goto"}
  MaxInFlight = 2
SPECIFICATION FairSpec
INVARIANT TypeOK
INVARIANT IndexInRange
INVARIANT OneTaskWaits
INVARIANT StartsBounded
PROPERTY NothingAbandoned
PROPERTY PlanEnds
PROPERTY ExecutorSpec
