-------------------------- MODULE MCUpstreamToken --------------------------
EXTENDS UpstreamToken, TLC
\* The calls are interchangeable.
Symmetric == Permutations(Call)
Everything == Faults
WithoutDatabaseFaults == {"crash", "admin"}
OnlyAdmin == {"admin"}
Nothing == {}
=============================================================================
