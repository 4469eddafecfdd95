SPECIFICATION FairSpec
CONSTANTS
  Request = {d1}
  Row = {i1, i2}
  RoleName <- Names
  Roles <- Table
  Dim <- Dims
  Scope <- Assignable
  Resource <- Asked
  Action <- Required
  MaxChanges = 1
  Engines <- Builtin
  None = None
INVARIANT PrecedenceDecides
CHECK_DEADLOCK FALSE
