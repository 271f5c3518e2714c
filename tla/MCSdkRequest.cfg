\* Two calls of any operation, one retry each, one fault of the server.
CONSTANTS
  Calls = {c1, c2}
  Bodies = {b1, b2}
  Operations <- SdkOperations
  CallerKeyed <- RequestOptions
  Refusals <- MCRefusals
  MaxRetries = 1
  HasDeadline = TRUE
  Crowded <- MCCrowded
  Fleeting <- MCFleeting
  MaxFaults = 1
  SharedKey = SharedKey
  NoHandler = NoHandler
  NoBody = NoBody
SYMMETRY Symmetric
SPECIFICATION Spec
INVARIANTS TypeOK SuccessIsReturned NotFoundIsTruthful AdviceMatchesCatalog
PROPERTIES KeepsPromise FinalMeansUnsent
CHECK_DEADLOCK FALSE
