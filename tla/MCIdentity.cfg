SPECIFICATION Spec
CONSTANTS
  Request = {d1}
  Row = {i1, i2}
  RoleName <- Names
  Roles <- Table
  Dim <- Dims
  Scope <- Assignable
  Resource <- Asked
  Action <- Required
  MaxChanges = 1
  Engines <- Both
  None = None
  Trip = {t1, t2}
  Handling = {c1, c2}
  MaxVersion = 2
  Kinds <- Each
  Overlap = FALSE
  Allowed = {"idp", "db", "crash"}
INVARIANTS AllowIsGranted SeparateRolesDecide
  BegunHereIsRecognised ReloadIsHarmless RoleIsSeeded
PROPERTIES RequestsAreDecided ClientConverges DeletedAccountIsOut
CHECK_DEADLOCK FALSE
