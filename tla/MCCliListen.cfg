\* A listener and a rival client on one agent with two messages.
CONSTANTS
  Streams = {s1}
  Rivals = {r1}
  Messages = {m1, m2}
  DrainLimit = 1
  Matching = {m1}
  Options <- MCOptions
  MaxBuffered = 1
  MaxDials = 2
  MaxFaults = 1
  NoMsg = NoMsg
SPECIFICATION MCSpec
INVARIANTS ListenTypeOK NothingUnannounced NoOrphanPull ErrorsSurface NoStealBack RetryOnOneIsSafe ExitZeroIsHandOff
CHECK_DEADLOCK FALSE
