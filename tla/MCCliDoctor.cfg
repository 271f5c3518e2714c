\* Setups with up to two peculiarities, two probes that fail, one revocation.
CONSTANT MaxFailures = 2
SPECIFICATION Spec
INVARIANTS CleanBillIsEarned ExitCodeIsWarranted
CHECK_DEADLOCK FALSE
