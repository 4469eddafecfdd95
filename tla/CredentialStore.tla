--------------------------- MODULE CredentialStore ---------------------------
(***************************************************************************)
(* What the credential vault promises, without keys, sweeps or restarts    *)
(* (ADR-019; PrincipalUpstreamCredentialsRepository): a token that put()   *)
(* was called with becomes, in one step, what every replica reads, until   *)
(* another one or a revocation does.                                       *)
(***************************************************************************)
EXTENDS Naturals

CONSTANTS Reader, MaxPut

VARIABLES
    issued,   \* tokens given to put() so far
    pending,  \* those it has neither stored nor lost
    seen      \* the token each replica reads, 0 for none

storeVars == <<issued, pending, seen>>

All(t) == [r \in Reader |-> t]

StoreInit == issued = 0 /\ pending = {} /\ seen = All(0)

Issue ==
    /\ issued < MaxPut
    /\ issued' = issued + 1
    /\ pending' = pending \cup {issued + 1}
    /\ UNCHANGED seen

\* put() returns.
Store ==
    \E t \in pending :
        /\ pending' = pending \ {t}
        /\ seen' = All(t)
        /\ UNCHANGED issued

\* A replica dies with calls of put() under way.
Lose ==
    /\ pending' \in SUBSET pending
    /\ UNCHANGED <<issued, seen>>

Forget ==
    /\ seen' = All(0)
    /\ UNCHANGED <<issued, pending>>

StoreSpec == StoreInit /\ [][Issue \/ Store \/ Lose \/ Forget]_storeVars
=============================================================================
