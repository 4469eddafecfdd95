----------------------------- MODULE MCVaultKeys -----------------------------
(***************************************************************************)
(* The vault over either of its key wrappers, the keyring in the           *)
(* environment or Vault Transit.  A behaviour is of one of them, while the *)
(* other rests as it begins.                                               *)
(***************************************************************************)
EXTENDS MCVaultRotation
CONSTANTS MaxRotation, MaxFailure, Reports, Overlap
VARIABLES wrapper, tReports, tNewest, tOldest, tRow, tPut, tSweep, tIssued, tStored, tFailures

Transit == INSTANCE TransitKeys WITH
    MaxPut <- MaxPut + 1,
    reports <- tReports, newest <- tNewest, oldest <- tOldest, row <- tRow, put <- tPut,
    sweep <- tSweep, issued <- tIssued, stored <- tStored, failures <- tFailures

ASSUME KeysAssumption == Transit!TransitAssumption

transit == <<tReports, tNewest, tOldest, tRow, tPut, tSweep, tIssued, tStored, tFailures>>
MCInit ==
    /\ wrapper \in {"local", "transit"}
    /\ Init /\ Transit!Init
MCNext ==
    /\ UNCHANGED wrapper
    /\ \/ wrapper = "local" /\ Next /\ UNCHANGED transit
       \/ wrapper = "transit" /\ Transit!Next /\ UNCHANGED vars
WrapperSpec == MCInit /\ [][MCNext]_<<wrapper, vars, transit>>

\* Fairness of the two; no sweep of the local keys finds a row while they rest.
Running == wrapper = "transit"
KeysSpec ==
    /\ WrapperSpec
    /\ \A n \in Node : WF_vars(Sweeping(n))
    /\ WF_transit(Running /\ Transit!SweepStep)

\* TokensReadable of TransitKeys: no version is given up that a row is under.
TokensReadable == Transit!TokensReadable
\* StampsConverge of TransitKeys: after a rotation every row comes under the new version.
StampsConverge == Transit!StampsConverge
=============================================================================
