SPECIFICATION CredentialsSpec
CONSTANTS
  Call = {c1, c2}
  Configured = {"rotating", "reusing", "exchange"}
  MaxIssued = 3
  Fault <- Everything
  Node = {n1}
  Key = {v1, v2}
  FirstKey = v1
  v1 = v1
  None = None
  Writer = {w1}
  MaxPut = 2
  Happens = {"admin", "force", "prepend", "restart"}
SYMMETRY Symmetric
INVARIANTS RefusedCredentialIsGone ReusingNeedsNoConsent TokensSurviveRotation
