CONSTANTS
  copy1 = copy1
  copy2 = copy2
  Copies = {copy1, copy2}
  Ring = 6
  Half = 3
  First = 4
  Lag = 2
  Overlap = 1
  MaxPackets = 6
  MaxRestarts = 1
  Missing = Missing
  Stats = Stats
  Blobs <- MCBlobs
  Slots = 2
  MaxFrags = 3
  Corrections <- MCCorrections
  FrameSizes = {1, 2, 3}
  MaxFrames = 3
  MaxCameraRuns = 2
  Targets = {0, 7}
  Leg = 3
  MaxSpin = 3
  MaxPlans = 2
  MaxLate = 2
  MaxStamp = 4
  Places = {0, 1, 2, 3}
  merge_distance = 2
  Markers = {7}
  MaxDetections = 5
  MaxStatuses = 5
  MaxSeconds = 3
  MaxPowerLosses = 1
SPECIFICATION VehicleSpec
INVARIANT HandledOnce
INVARIANT BlobsIntact
INVARIANT CorrectionsWhole
INVARIANT CorrectionsArrive
INVARIANT FramesWhole
INVARIANT TargetNear
INVARIANT SettleAtGoal
INVARIANT ObservationsConserved
INVARIANT MergedApart
INVARIANT FlightLogged
PROPERTY ImageShownOnce
SYMMETRY Symmetry
CHECK_DEADLOCK FALSE
