CONSTANTS
  Plans = {"survey"}
  NoPlan = NoPlan
  Valid = {"survey"}
  MaxAttempts = 2
  MaxRequests = 3
  MaxCopies = 2
  Known = {"arm"}
  Unknown = {"rth"}
  Video = {"video"}
  NoCommand = ""
  MaxGiven = 3
  GcsHosts = {"gcs1", "gcs2"}
  UavHosts = {"uav1", "uav2"}
  NoHost = "none"
  Keepalive = 2
  MaxEvents = 4
  LinkTimeout = 2
  Wrap = 16
  MaxClock = 4
  MaxUnplugs = 2
  MaxFaults = 4
SPECIFICATION FairEndsSpec
INVARIANT RunsBounded
INVARIANT AckTellsFate
INVARIANT SilentUnlessAsked
INVARIANT StreamSurveyed
PROPERTY RequestSettles
PROPERTY EveryRequestAnswered
PROPERTY StreamReachesSender
PROPERTY StreamStarts
PROPERTY PeersFound
PROPERTY LinkStateTrue
PROPERTY RadioReadAgain
PROPERTY SurveyKept
PROPERTY CorrectionsResume
CHECK_DEADLOCK FALSE
