-------------------------- MODULE MCImportApproval --------------------------
EXTENDS ImportApproval, TLC
\* The administrators' requests, and the readers, are interchangeable.
Symmetric == Permutations(Admin) \cup Permutations(Reader)
=============================================================================
