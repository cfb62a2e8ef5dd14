CONSTANTS
  Plans = {"survey"}
  NoPlan = NoPlan
  Valid = {"survey"}
  MaxAttempts = 2
  MaxRequests = 3
  MaxCopies = 2
SPECIFICATION BridgeSpec
PROPERTY StatusConfirmsAbort
CHECK_DEADLOCK FALSE
