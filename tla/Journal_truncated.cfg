\* The writer is killed in the middle of a record.
CONSTANTS
  B = 8
  Events <- SessionEvents
  Config <- SessionConfig
  Magic = 12345
  Outputs <- SessionOutputs
  MaxAppends = 4
  MaxReplays = 2
  HeaderLen = 2
  RecordLen = 2
  BufCap = 5
SPECIFICATION Spec
PROPERTIES TruncationIsAnError
CHECK_DEADLOCK FALSE
