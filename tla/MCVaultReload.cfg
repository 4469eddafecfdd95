SPECIFICATION RotationSpec
CONSTANTS
  Node = {n1, n2}
  Key = {v1, v2}
  FirstKey = v1
  v1 = v1
  None = None
  Writer = {w1}
  MaxPut = 1
  Allowed <- Endpoints
PROPERTIES ReloadReachesVault
