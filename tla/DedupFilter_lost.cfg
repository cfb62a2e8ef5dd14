CONSTANTS
  Copies = {"radio", "wifi"}
  Ring = 4
  Half = 2
  First = 0
  Lag = 2
  Overlap = 0
  MaxPackets = 6
  MaxRestarts = 0
SPECIFICATION DedupSpec
PROPERTY OnlyDuplicatesDropped
CHECK_DEADLOCK FALSE
