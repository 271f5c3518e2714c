\* Expected violation: SignalsDoNotConflict is what the documents say, not what the code does.
CONSTANTS
  Recipients = {r1}
  MaxSendAttempts = 2
  MaxFaults = 1
  HeaderEcho = TRUE
  RampEligible = TRUE
SPECIFICATION Spec
INVARIANT SignalsDoNotConflict
