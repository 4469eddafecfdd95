SPECIFICATION FairSpec
CONSTANTS
  Trip = {t1}
  Request = {d1}
  None = None
  Kinds <- FromRefusals
  MaxVersion = 2
  Overlap = FALSE
  Allowed <- Everything
INVARIANT ReturnIsRecognised

CHECK_DEADLOCK FALSE
