----------------------------- MODULE MCIdentity -----------------------------
(***************************************************************************)
(* Signing in and being allowed, side by side: a behaviour is of one of    *)
(* the two, while the other rests.                                         *)
(***************************************************************************)
EXTENDS MCAccess
CONSTANTS Trip, Handling, Kinds, MaxVersion, Overlap, Allowed
VARIABLES part, sKinds, sProvider, sClient, sAccount, sTrip, sStates, sVerifiers, sRedeemed,
          sRequest, sPrincipals, sRole, sSessions, sSubject, sCred, sDead, sGone, sMissed

\* The round trips to one provider, or the logins with a local account.
Each == {{"oidc"}, {"consent", "refusal"}, {"local"}}

SignIn == INSTANCE SignIn WITH
    Request <- Handling,
    kinds <- sKinds, provider <- sProvider, client <- sClient, account <- sAccount,
    trip <- sTrip, states <- sStates, verifiers <- sVerifiers, redeemed <- sRedeemed,
    request <- sRequest, principals <- sPrincipals, role <- sRole, sessions <- sSessions,
    subject <- sSubject, cred <- sCred, dead <- sDead, gone <- sGone, missed <- sMissed

ASSUME IdentityAssumption == SignIn!SignInAssumption

signIn == <<sKinds, sProvider, sClient, sAccount, sTrip, sStates, sVerifiers, sRedeemed,
            sRequest, sPrincipals, sRole, sSessions, sSubject, sCred, sDead, sGone, sMissed>>
MCInit ==
    /\ part \in {"access", "sign-in"}
    /\ Init /\ SignIn!Init
    /\ part = "access" => sKinds = {"local"}
    /\ part = "sign-in" => engine = "builtin" /\ adminKey /\ rows = [i \in Row |-> None]
MCNext ==
    /\ UNCHANGED part
    /\ \/ part = "access" /\ Next /\ UNCHANGED signIn
       \/ part = "sign-in" /\ SignIn!Next /\ UNCHANGED vars
IdentitySpec == MCInit /\ [][MCNext]_<<part, vars, signIn>>
\* No fair action of a part that rests is enabled.
Spec == IdentitySpec /\ Fairness /\ SignIn!Fairness

\* BegunHereIsRecognised of SignIn: the state of a round trip is known when it returns.
BegunHereIsRecognised == SignIn!BegunHereIsRecognised
\* ReloadIsHarmless of SignIn: a redirect delivered again loses no token.
ReloadIsHarmless == SignIn!ReloadIsHarmless
\* RoleIsSeeded of SignIn: whoever races, the first login assigns the default role.
RoleIsSeeded == SignIn!RoleIsSeeded
\* ClientConverges of SignIn: no client of an old provider row is used for ever.
ClientConverges == SignIn!ClientConverges
\* DeletedAccountIsOut of SignIn: a deleted local account loses its sessions at last.
DeletedAccountIsOut == SignIn!DeletedAccountIsOut
=============================================================================
