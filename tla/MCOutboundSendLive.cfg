\* Two recipients with independent feedback; no symmetry, liveness is checked.
CONSTANTS
  Recipients = {r1, r2}
  MaxSendAttempts = 2
  MaxFaults = 1
  HeaderEcho = TRUE
  RampEligible = TRUE
SPECIFICATION FairSpec
PROPERTIES EveryAcceptSettles ReservationsSettle RecipientsMonotonic
