\* One ramped recipient, two attempts, two faults, notifications that echo the id.
CONSTANTS
  Recipients = {r1}
  MaxSendAttempts = 2
  MaxFaults = 2
  HeaderEcho = TRUE
  RampEligible = TRUE
SPECIFICATION Spec
INVARIANTS TypeOK EvidenceSettles MeteredOnce DuplicatesOnlyFromLostOutcomes NoSubmitAfterFallback
PROPERTY OutcomesAreKept
