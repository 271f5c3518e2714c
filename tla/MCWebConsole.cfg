SPECIFICATION Spec
CONSTANTS
  Fields <- MCFields
  OnExpiry = "approve"
  MaxTries = 2
  MaxFaults = 2
INVARIANTS
  TypeOK
  SentAsReviewed
  VerdictHolds
PROPERTIES
  WritesShow
  QueueDrains
CHECK_DEADLOCK FALSE
