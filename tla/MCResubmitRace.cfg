CONSTANTS
    Spec = {s1, s2}
    External = {}
    Admin = {a1}
    Reader = {r1}
    None = None
    OverlapAllowed = TRUE
SPECIFICATION LifeSpec
INVARIANT ApprovedWasProbed
