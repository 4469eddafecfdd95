SPECIFICATION TokenSpec
CONSTANTS
  Call = {c1, c2}
  Configured = {"rotating"}
  MaxIssued = 3
  Fault <- Nothing
SYMMETRY Symmetric
INVARIANTS RefreshedIsKept
