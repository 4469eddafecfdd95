SPECIFICATION ToolCallSpec
CONSTANTS
  Call = {c1}
  Kinds <- PerUser
  PoolMax = 1
  MaxVersion = 1
  Resolution = {"ready"}
  None = None
INVARIANTS CredentialIsSent
CHECK_DEADLOCK FALSE
