------------------------ MODULE MCStreamableSession ------------------------
EXTENDS StreamableSession, TLC
\* What each run allows.
Nothing == {}
Drops == {"drop"}
LateClose == {"drop", "oldclose"}
Overlap == {"drop", "overlap"}
LateEnd == {"terminate"}
Touch == {"terminate", "touch"}
Lifecycle == {"drop", "overlap", "terminate", "touch", "expire", "restart"}
=============================================================================
