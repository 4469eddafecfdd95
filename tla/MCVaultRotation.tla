-------------------------- MODULE MCVaultRotation --------------------------
EXTENDS VaultRotation
\* The circumstances of each run.
Roll == {"restart"}
RollWithOverlap == {"restart", "overlap"}
Endpoints == {"admin"}
=============================================================================
