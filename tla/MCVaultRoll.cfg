SPECIFICATION KeysSpec
CONSTANTS
  Node = {n1, n2}
  Key = {v1, v2, v3}
  FirstKey = v1
  v1 = v1
  None = None
  Writer = {w1, w2}
  MaxPut = 2
  Allowed <- Roll
  MaxRotation = 3
  MaxFailure = 2
  Reports = {TRUE}
  Overlap = FALSE
INVARIANTS EveryReplicaReads TokensReadable
PROPERTIES RewrapCompletes RotationIsInvisible StampsConverge
CHECK_DEADLOCK FALSE
