SPECIFICATION GatewaySpec
CONSTANTS
  Call = {c1, c2, c3}
  FailureThreshold = 3
  ResetTicks = 2
  HalfOpenMaxCalls = 2
  ServerSpec = {s1, s2}
  Admin = {a1}
  Reader = {r1}
  PoolMax = 1
  Caller = {c1, c2}
  MaxVersion = 2
  Resolution = {"skip"}
  Node = {n1}
  Operator = {o1, o2}
  MaxRounds = 4
  PluginOverlap = FALSE
  Faults = {"hook", "db", "crash"}
  None = None
  Client = {k1, k2}
  Handler = {h1, h2}
  MaxLen = 2
  MaxNotice = 3
  MaxDrops = 1
  MaxErrors = 1
INVARIANTS TypeOK NoLeakedSlot ProbeBudget EndedCallsHoldNothing ChoiceIsDurable NoGap PoolIsOfRow
PROPERTIES HealsWithUpstream CachesConverge CallsEnd ReadersCatchUp
CHECK_DEADLOCK FALSE
