\* Three messages compete for the shared allowance of two sibling domains.
CONSTANTS
  m1 = m1
  m2 = m2
  m3 = m3
  Messages = {m1, m2, m3}
  Domains = {d1, d2}
  Units <- MCUnits
  Schedules <- TwoDays
  MaxDay = 2
  KeepResv = 7
  KeepCounter = 35
  OpenDays = 3
SPECIFICATION Spec
SYMMETRY Symmetric
INVARIANTS TypeOK CountersAccount OverrunOnlyByCorrection ProgressIsEarned CompletionIsEarned
