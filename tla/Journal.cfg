\* Up to four records of two bytes through a buffer that holds two of them.
CONSTANTS
  B = 8
  Events <- SessionEvents
  Config <- SessionConfig
  Magic = 12345
  Outputs <- SessionOutputs
  MaxAppends = 4
  MaxReplays = 2
  HeaderLen = 2
  RecordLen = 2
  BufCap = 5
SPECIFICATION Spec
INVARIANTS ReplaysPrefix LossBounded RecordsRoundTrip
PROPERTIES FinishedReplaysWhole ReplayEnds
CHECK_DEADLOCK FALSE
