---------------------------- MODULE MCCredentials ----------------------------
(***************************************************************************)
(* A stored credential from both its sides: the tokens that calls refresh, *)
(* with everything that can fail meanwhile, and the key the row is under,  *)
(* with everything administrators and operators may do.  A behaviour is of *)
(* one of them, while the other rests as it begins.                        *)
(***************************************************************************)
EXTENDS MCUpstreamToken
CONSTANTS Node, Key, FirstKey, None, Writer, MaxPut,
          Happens \* Allowed of VaultRotation
VARIABLES side, vEnv, vBoot, vRing, vHandle, vOwn, vReload, vRetiring, vRow, vPut, vSweep,
          vIssued, vLatest

Vault == INSTANCE VaultRotation WITH
    Allowed <- Happens,
    env <- vEnv, boot <- vBoot, ring <- vRing, handle <- vHandle, own <- vOwn,
    reload <- vReload, retiring <- vRetiring, row <- vRow, put <- vPut, sweep <- vSweep,
    issued <- vIssued, latest <- vLatest

ASSUME CredentialsAssumption == Vault!VaultAssumption

vault == <<vEnv, vBoot, vRing, vHandle, vOwn, vReload, vRetiring, vRow, vPut, vSweep,
           vIssued, vLatest>>
MCInit ==
    /\ side \in {"tokens", "keys"}
    /\ Init /\ Vault!Init
    /\ side = "keys" => provider = "exchange"
MCNext ==
    /\ UNCHANGED side
    /\ \/ side = "tokens" /\ Next /\ UNCHANGED vault
       \/ side = "keys" /\ Vault!Next /\ UNCHANGED vars
CredentialsSpec == MCInit /\ [][MCNext]_<<side, vars, vault>>

\* TokensSurviveRotation of VaultRotation: no rotation loses or replaces a token.
TokensSurviveRotation == Vault!TokensSurviveRotation
=============================================================================
