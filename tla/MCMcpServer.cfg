\* Two requests in flight, a cache with room for one bearer.
CONSTANTS
  account = account
  agent = agent
  Slots = {s1, s2}
  Bearers = {account, agent}
  Scope <- MCScope
  TTL = 2
  ResolveTimeout = 1
  MaxEntries = 1
  MaxTime = 4
  MaxRevoked = 1
  NoBearer = NoBearer
SYMMETRY Symmetric
SPECIFICATION Spec
INVARIANTS TypeOK TierIsTheCredentials RevocationTakesHold OfferedToolsWork
CHECK_DEADLOCK FALSE
