--------------------------- MODULE UpstreamToken ---------------------------
(***************************************************************************)
(* The upstream credential of one principal at one provider: how a         *)
(* tools/call resolves it before dispatch (UpstreamTokenService,           *)
(* apps/server/src/upstream-auth.module.ts), with the providers of         *)
(* packages/upstream-auth/src/providers, while other calls, the consent    *)
(* callback (upstream-auth.controller.ts) and an administrator             *)
(* (upstream-admin.controller.ts) do the same.  The vault is a row that is *)
(* read and written whole; VaultRotation looks inside.                     *)
(***************************************************************************)
EXTENDS Naturals

CONSTANTS
    Call,       \* concurrent tools/call requests
    Configured, \* what identity providers there may be, a subset of Providers
    MaxIssued,  \* bound: tokens the identity provider issues
    Fault       \* what may go wrong or interfere, a subset of Faults

\* "rotating": each refresh token works once (Slack with token rotation);
\* "reusing": the first one stays good (Google); "exchange": RFC 8693, none.
Providers == {"rotating", "reusing", "exchange"}
\* "idp": the provider refuses, is down, or its answer is lost; "db": put() throws;
\* "crash": the process dies mid-call; "admin": an administrator revokes.
Faults == {"idp", "db", "crash", "admin"}

ASSUME UpstreamAssumption ==
    /\ Configured \subseteq Providers
    /\ MaxIssued \in Nat
    /\ Fault \subseteq Faults

VARIABLES
    provider, \* what the identity provider does with a refresh token
    cred,     \* the row: an access token and the refresh token stored with it
    issued,   \* tokens issued so far; they are numbered
    expiring, \* access tokens within 60 s of their end
    live,     \* refresh tokens the provider accepts
    revoked,  \* refresh tokens an administrator had the provider revoke
    granted,  \* the credential the consent callback has obtained and not yet stored
    call,     \* where each call is, the credential it read and the one it obtained,
              \* and whether the provider or the database has failed it
    admin     \* where the administrator's DELETE is, and the credential it read

vars == <<provider, cred, issued, expiring, live, revoked, granted, call, admin>>

Token == 0..MaxIssued
Credential == [access : Token, refresh : Token]
NoCred == [access |-> 0, refresh |-> 0]
Pc == {"idle", "mint", "refresh", "store", "storeMinted", "revoke", "ready", "consent"}
CallState == [pc : Pc, saw : Credential, got : Credential, hit : BOOLEAN]
NoCall == [pc |-> "idle", saw |-> NoCred, got |-> NoCred, hit |-> FALSE]

Init ==
    /\ provider \in Configured
    /\ cred = NoCred
    /\ issued = 0
    /\ expiring = {}
    /\ live = {}
    /\ revoked = {}
    /\ granted = NoCred
    /\ call = [c \in Call |-> NoCall]
    /\ admin = [pc |-> "idle", saw |-> NoCred]

-----------------------------------------------------------------------------
(* The provider *)

Fresh == issued + 1
CanIssue == issued < MaxIssued

\* A new grant, with its first access and refresh token.
Grant == [access |-> Fresh, refresh |-> Fresh]

\* The user completes the consent flow: callback() exchanges the code ...
Exchange ==
    /\ provider # "exchange"
    /\ granted = NoCred
    /\ CanIssue
    /\ issued' = Fresh
    /\ live' = live \cup {Fresh}
    /\ granted' = Grant
    /\ UNCHANGED <<provider, cred, expiring, revoked, call, admin>>

\* ... and persists what it got, unless it fails first.
Store ==
    /\ granted # NoCred
    /\ \/ cred' = granted
       \/ {"db", "crash"} \cap Fault # {} /\ UNCHANGED cred
    /\ granted' = NoCred
    /\ UNCHANGED <<provider, issued, expiring, live, revoked, call, admin>>

Expire(t) ==
    /\ expiring' = expiring \cup {t}
    /\ UNCHANGED <<provider, cred, issued, live, revoked, granted, call, admin>>

-----------------------------------------------------------------------------
(* resolveForDispatch() *)

At(c, pc) == call[c].pc = pc
Goto(c, pc) == call' = [call EXCEPT ![c].pc = pc]
Fail(c, pc) == call' = [call EXCEPT ![c].pc = pc, ![c].hit = TRUE]
Obtain(c, pc, new) == call' = [call EXCEPT ![c].pc = pc, ![c].got = new]

\* repo.get(), and the branch on what it returns.
Resolve(c) ==
    /\ At(c, "idle")
    /\ call' = [call EXCEPT ![c] =
            [pc |-> CASE cred = NoCred /\ provider = "exchange" -> "mint"
                      [] cred = NoCred /\ provider # "exchange" -> "consent"
                      [] cred # NoCred /\ cred.access \in expiring -> "refresh"
                      [] OTHER -> "ready",
             saw |-> cred, got |-> cred, hit |-> FALSE]]
    /\ UNCHANGED <<provider, cred, issued, expiring, live, revoked, granted, admin>>

\* provider.mint(), with the subject token of the principal's login.
Mint(c) ==
    /\ At(c, "mint")
    /\ CanIssue
    /\ issued' = Fresh
    /\ Obtain(c, "storeMinted", [access |-> Fresh, refresh |-> 0])
    /\ UNCHANGED <<provider, cred, expiring, live, revoked, granted, admin>>

MintFails(c) ==
    /\ At(c, "mint")
    /\ "idp" \in Fault
    /\ Fail(c, "consent")
    /\ UNCHANGED <<provider, cred, issued, expiring, live, revoked, granted, admin>>

\* What the provider still accepts after a refresh with r.
LiveAfter(r) == IF provider = "rotating" THEN (live \ {r}) \cup {Fresh} ELSE live

\* Mutation of Refreshed: the provider's answer as it came.
RefreshedAsAnswered(r) ==
    [access |-> Fresh, refresh |-> IF provider = "rotating" THEN Fresh ELSE 0]

Refreshed(r) ==
    [access |-> Fresh, refresh |-> IF provider = "rotating" THEN Fresh ELSE r]

\* provider.refresh(): an answer without a refresh token keeps the one there was.
Refresh(c) ==
    /\ At(c, "refresh")
    /\ call[c].saw.refresh \in live
    /\ CanIssue
    /\ issued' = Fresh
    /\ live' = LiveAfter(call[c].saw.refresh)
    /\ Obtain(c, "store", Refreshed(call[c].saw.refresh))
    /\ UNCHANGED <<provider, cred, expiring, revoked, granted, admin>>

\* It throws without a refresh token, always for a token exchange, whose tokens
\* carry no subject, and when the provider refuses or cannot be reached.
RefreshFails(c) ==
    /\ At(c, "refresh")
    /\ \/ call[c].saw.refresh \notin live /\ Goto(c, "revoke")
       \/ "idp" \in Fault /\ Fail(c, "revoke")
    /\ UNCHANGED <<provider, cred, issued, expiring, live, revoked, granted, admin>>

\* The provider has refreshed, but its answer does not arrive.
RefreshLost(c) ==
    /\ At(c, "refresh")
    /\ "idp" \in Fault
    /\ call[c].saw.refresh \in live
    /\ CanIssue
    /\ issued' = Fresh
    /\ live' = LiveAfter(call[c].saw.refresh)
    /\ Fail(c, "revoke")
    /\ UNCHANGED <<provider, cred, expiring, revoked, granted, admin>>

\* persist(): the upsert, whatever the row now is.
Persist(c) ==
    /\ At(c, "store") \/ At(c, "storeMinted")
    /\ cred' = call[c].got
    /\ Goto(c, "ready")
    /\ UNCHANGED <<provider, issued, expiring, live, revoked, granted, admin>>

PersistFails(c) ==
    /\ "db" \in Fault
    /\ \/ At(c, "store") /\ Fail(c, "revoke")
       \/ At(c, "storeMinted") /\ Fail(c, "consent")
    /\ UNCHANGED <<provider, cred, issued, expiring, live, revoked, granted, admin>>

\* Mutation of Revoke: the failed refresh leaves the row.
RevokeNothing(c) ==
    /\ At(c, "revoke")
    /\ Goto(c, "consent")
    /\ UNCHANGED <<provider, cred, issued, expiring, live, revoked, granted, admin>>

\* repo.revoke() in the catch: the row of the principal, whatever it now holds.
Revoke(c) ==
    /\ At(c, "revoke")
    /\ cred' = NoCred
    /\ Goto(c, "consent")
    /\ UNCHANGED <<provider, issued, expiring, live, revoked, granted, admin>>

\* The call is dispatched with the credential, or answered with -32020.
Answer(c) ==
    /\ At(c, "ready") \/ At(c, "consent")
    /\ call' = [call EXCEPT ![c] = NoCall]
    /\ UNCHANGED <<provider, cred, issued, expiring, live, revoked, granted, admin>>

Crash(c) ==
    /\ "crash" \in Fault
    /\ ~At(c, "idle")
    /\ call' = [call EXCEPT ![c] = NoCall]
    /\ UNCHANGED <<provider, cred, issued, expiring, live, revoked, granted, admin>>

-----------------------------------------------------------------------------
(* DELETE upstream-tokens/:providerId *)

\* repo.get() for the best-effort remote revocation ...
AdminRead ==
    /\ "admin" \in Fault
    /\ admin.pc = "idle"
    /\ admin' = [pc |-> IF cred = NoCred \/ provider = "exchange" THEN "delete" ELSE "remote",
                saw |-> cred]
    /\ UNCHANGED <<provider, cred, issued, expiring, live, revoked, granted, call>>

\* ... provider.revoke(), the failure of which is only logged.  It sends the access
\* token; a provider that revokes it ends the refresh token beside it too ...
AdminRemote ==
    /\ admin.pc = "remote"
    /\ admin' = [admin EXCEPT !.pc = "delete"]
    /\ \/ /\ live' = live \ {admin.saw.refresh}
          /\ revoked' = revoked \cup {admin.saw.refresh}
       \/ "idp" \in Fault /\ UNCHANGED <<live, revoked>>
    /\ UNCHANGED <<provider, cred, issued, expiring, granted, call>>

\* ... and repo.revoke().
AdminDelete ==
    /\ admin.pc = "delete"
    /\ cred' = NoCred
    /\ admin' = [pc |-> "idle", saw |-> NoCred]
    /\ UNCHANGED <<provider, issued, expiring, live, revoked, granted, call>>

-----------------------------------------------------------------------------

Step(c) ==
    \/ Resolve(c) \/ Mint(c) \/ MintFails(c)
    \/ Refresh(c) \/ RefreshFails(c) \/ RefreshLost(c)
    \/ Persist(c) \/ PersistFails(c) \/ Revoke(c) \/ Answer(c) \/ Crash(c)

Next ==
    \/ Exchange \/ Store
    \/ \E t \in 1..issued : Expire(t)
    \/ \E c \in Call : Step(c)
    \/ AdminRead \/ AdminRemote \/ AdminDelete

TokenSpec == Init /\ [][Next]_vars

-----------------------------------------------------------------------------

TypeOK ==
    /\ provider \in Providers
    /\ cred \in Credential
    /\ issued \in Token
    /\ expiring \subseteq Token
    /\ live \subseteq Token
    /\ revoked \subseteq Token
    /\ granted \in Credential
    /\ call \in [Call -> CallState]
    /\ admin \in [pc : {"idle", "remote", "delete"}, saw : Credential]

\* Unless the provider or the database has failed it, a call is sent back to the user
\* for consent only if it found no credential or one an administrator had revoked:
\* expiry alone never is a reason ("refreshes automatically when within 60s of
\* expiry", docs/UPSTREAM_AUTH.md).
NoNeedlessConsent ==
    \A c \in Call : At(c, "consent") /\ ~call[c].hit =>
        call[c].saw = NoCred \/ call[c].saw.refresh \in revoked

\* Expiry is not the end of a credential ("refreshes automatically when within 60s of
\* expiry", docs/UPSTREAM_AUTH.md:87): when no call, consent or DELETE is under way, what is
\* stored is a credential that the provider accepts, as long as it accepts one.
RefreshedIsKept ==
    granted = NoCred /\ admin.pc = "idle" /\ (\A c \in Call : At(c, "idle")) =>
        live = {} \/ cred.refresh \in live

\* So it is where refresh tokens can be used again, whatever else fails, is revoked or
\* runs at the same time: what one call stores, another call can refresh.
ReusingNeedsNoConsent == provider = "reusing" => NoNeedlessConsent

\* A credential a call was refused for is no longer stored, so no later call runs
\* into it again and a token exchange mints anew ("revoke local +
\* consent_required ... No stale token ever dispatched", docs/UPSTREAM_AUTH.md).
RefusedCredentialIsGone ==
    \A c \in Call : At(c, "consent") /\ call[c].saw # NoCred => cred # call[c].saw

\* "Non-interactive providers (token-exchange) mint automatically", "zero extra
\* clicks" (docs/UPSTREAM_AUTH.md).
ExchangeNeedsNoConsent == \A c \in Call : ~At(c, "consent")

\* A credential an administrator had revoked is not stored any more once the DELETE
\* is through ("Revoke", "Force reconsent (deletes stored token ...)",
\* docs/UPSTREAM_AUTH.md).
RevokeHolds ==
    admin.pc = "idle" => cred = NoCred \/ cred.refresh \notin revoked
=============================================================================
