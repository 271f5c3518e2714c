\* Fewer messages, more days: retention, with its windows scaled down.
CONSTANTS
  m1 = m1
  m2 = m2
  m3 = m3
  Messages = {m1, m2}
  Domains = {d1}
  Units <- MCUnits
  Schedules <- BothConfigs
  MaxDay = 4
  KeepResv = 1
  KeepCounter = 2
  OpenDays = 1
SPECIFICATION Spec
SYMMETRY Symmetric
INVARIANTS CountersAccount CounterOutlivesReservation
