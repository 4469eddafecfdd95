CONSTANTS
  Spec = {s1, s2}
  External = {s1}
  Admin = {a1, a2}
  Reader = {r1}
  None = None
  OverlapAllowed = FALSE
  Event = {e1, e2}
  MaxVersion = 2
  MaxStamp = 5
  Call = {c1, c2}
  Key = {k1, k2}
  Options <- Deployments
  Ttl = 2
  MaxClock = 3
  MaxCount = 4
  Apis <- SmallApis
  Depths <- SomeDepths
  Docs <- SmallDocs
SPECIFICATION AdmissionSpec
SYMMETRY Symmetric
INVARIANTS ApprovedWasProbed RoutesOnlyProbed
  ToolsAreExact OperationIsSent RunsOnlyArmed SchemaIsOfTarget  RemovalIsFinal
CHECK_DEADLOCK FALSE
