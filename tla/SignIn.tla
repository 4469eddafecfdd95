------------------------------- MODULE SignIn -------------------------------
(***************************************************************************)
(* The round trips a user makes through the browser, and what they leave   *)
(* behind: the OIDC login (login.controller.ts), the consent to an         *)
(* upstream provider (upstream-auth.controller.ts), started by the user or *)
(* by the URL of a -32020 answer (buildConsentUrl() of                     *)
(* upstream-auth.module.ts), and the login with a local account            *)
(* (local-auth.controller.ts).  They share session.store.ts in Redis; the  *)
(* PKCE verifiers are in Redis too (redis-pkce-store.ts).  One user.       *)
(***************************************************************************)
EXTENDS Naturals

CONSTANTS
    Trip,       \* round trips to a provider
    Request,    \* callbacks and local logins the server handles
    None,       \* no token
    Kinds,      \* what users do: each behaviour takes one member, a subset of AllKinds
    MaxVersion, \* bound: versions of the OIDC provider's row
    Overlap,    \* may two callbacks of one round trip run at once?
    Allowed     \* what may go wrong, a subset of Faults

\* "refusal" is the consent that a -32020 answer starts.
AllKinds == {"oidc", "consent", "refusal", "local"}
\* "idp": the provider refuses, or its answer is lost; "db": a write fails;
\* "crash": the process dies while it handles the request.
Faults == {"idp", "db", "crash"}

SignInAssumption ==
    /\ None \notin Trip
    /\ Kinds \subseteq SUBSET AllKinds
    /\ MaxVersion \in Nat \ {0}
    /\ Overlap \in BOOLEAN
    /\ Allowed \subseteq Faults

VARIABLES
    kinds,      \* the round trips of this behaviour
    provider,   \* version of the row of oidc_providers, 0 for none; no login begins while it is
                \* disabled
    client,     \* the version OidcClientCache holds a client of, 0 for none
    account,    \* the row of local_users
    trip,       \* where each round trip is, and the client it was sent off with
    states,     \* round trips whose state is in Redis
    verifiers,  \* round trips whose PKCE verifier is in the store
    redeemed,   \* round trips whose code the provider has exchanged
    request,    \* where each request is
    principals, \* the user's rows in principals: as an OIDC and as a local user
    role,       \* the OIDC user holds MAVIO_OIDC_DEFAULT_ROLE
    sessions,   \* requests that opened a session which has not ended
    subject,    \* the row "mavio-session": the round trip its token came from
    cred,       \* the row of the upstream provider, likewise
    dead,       \* round trips whose tokens the provider has revoked
    gone,       \* history: round trips whose state was consumed or has expired
    missed      \* history: assigning the default role failed

vars == <<kinds, provider, client, account, trip, states, verifiers, redeemed, request, principals,
          role, sessions, subject, cred, dead, gone, missed>>

Version == 0..MaxVersion
TripState ==
    [pc : {"none", "discover", "save", "authorize", "away", "back"},
     kind : AllKinds \cup {None}, version : Version]
RequestState ==
    [pc : {"idle", "discover", "get", "delete", "take", "forget", "redeem", "verify", "ensure",
           "assign", "open", "capture", "persist", "answered", "mismatch", "failed"},
     kind : AllKinds \cup {None}, trip : Trip \cup {None}, version : Version]
NoTrip == [pc |-> "none", kind |-> None, version |-> 0]
NoRequest == [pc |-> "idle", kind |-> None, trip |-> None, version |-> 0]
Ended == {"answered", "mismatch", "failed"}

Init ==
    /\ kinds \in Kinds
    /\ provider = 1
    /\ client = 0
    /\ account = "none"
    /\ trip = [t \in Trip |-> NoTrip]
    /\ states = {} /\ verifiers = {} /\ redeemed = {}
    /\ request = [d \in Request |-> NoRequest]
    /\ principals = {} /\ role = FALSE
    /\ sessions = {} /\ subject = None /\ cred = None
    /\ dead = {} /\ gone = {} /\ missed = FALSE

admin == <<kinds, provider, account>>
stores == <<states, verifiers, gone>>
idp == <<redeemed, dead>>
user == <<principals, role, missed>>
kept == <<sessions, subject, cred>>

-----------------------------------------------------------------------------
(* Administrators, and what expires *)

\* PUT and DELETE /api/auth/providers/:id; the cached clients are left alone.
Configure(v) ==
    /\ "oidc" \in kinds
    /\ provider' = v
    /\ UNCHANGED <<kinds, client, account, trip, stores, idp, request, user, kept>>

\* POST and DELETE /api/auth/local/users.
CreateAccount ==
    /\ "local" \in kinds
    /\ account = "none"
    /\ account' = "enabled"
    /\ UNCHANGED <<kinds, provider, client, trip, stores, idp, request, user, kept>>

DeleteAccount ==
    /\ account = "enabled"
    /\ account' = "deleted"
    /\ UNCHANGED <<kinds, provider, client, trip, stores, idp, request, user, kept>>

\* Mutation of ExpireClient: a client is kept until the process ends.
KeepClient == FALSE /\ UNCHANGED vars

\* One hour after it was fetched, or with the process.
ExpireClient ==
    /\ client # 0
    /\ client' = 0
    /\ UNCHANGED <<admin, trip, stores, idp, request, user, kept>>

\* 600 s after saveState() and put().
ExpireState(t) ==
    /\ t \in states
    /\ states' = states \ {t}
    /\ gone' = gone \cup {t}
    /\ UNCHANGED <<admin, client, trip, verifiers, idp, request, user, kept>>

ExpireVerifier(t) ==
    /\ t \in verifiers
    /\ verifiers' = verifiers \ {t}
    /\ UNCHANGED <<admin, client, trip, states, gone, idp, request, user, kept>>

\* logout(): read() and destroy().
Logout(d) ==
    /\ d \in sessions
    /\ sessions' = sessions \ {d}
    /\ UNCHANGED <<admin, client, trip, stores, idp, request, user, subject, cred>>

\* Mutation of ExpireSession: the session is stored without EX.
KeepSession(d) == FALSE /\ UNCHANGED vars

\* MAVIO_SESSION_TTL after create(), by Redis or by read().
ExpireSession(d) == Logout(d)

-----------------------------------------------------------------------------
(* Sending the browser off *)

Go(t, pc) == trip' = [trip EXCEPT ![t].pc = pc]

\* login(): getProvider() of an enabled row and getClient(), from the cache if it is there.
Login(t) ==
    /\ "oidc" \in kinds
    /\ trip[t].pc = "none"
    /\ provider # 0
    /\ trip' = [trip EXCEPT ![t] = [pc |-> IF client # 0 THEN "save" ELSE "discover",
                                    kind |-> "oidc",
                                    version |-> IF client # 0 THEN client ELSE provider]]
    /\ UNCHANGED <<admin, client, stores, idp, request, user, kept>>

\* Issuer.discover() has answered; the client is cached.
LoginDiscover(t) ==
    /\ trip[t].pc = "discover"
    /\ client' = trip[t].version
    /\ Go(t, "save")
    /\ UNCHANGED <<admin, stores, idp, request, user, kept>>

\* Mutation of SaveState: the redirect goes out without the state.
ForgetState(t) ==
    /\ \/ trip[t].pc = "save" /\ Go(t, "away")
       \/ /\ "consent" \in kinds
          /\ trip[t].pc = "none"
          /\ trip' = [trip EXCEPT ![t] = [NoTrip EXCEPT !.pc = "authorize", !.kind = "consent"]]
    /\ UNCHANGED <<admin, client, stores, idp, request, user, kept>>

\* saveState(), of the login before its redirect and of the consent, for a user who is
\* signed in or holds an API key, before provider.authorize().
SaveState(t) ==
    /\ \/ trip[t].pc = "save" /\ Go(t, "away")
       \/ /\ "consent" \in kinds
          /\ trip[t].pc = "none"
          /\ trip' = [trip EXCEPT ![t] = [NoTrip EXCEPT !.pc = "authorize", !.kind = "consent"]]
    /\ states' = states \cup {t}
    /\ UNCHANGED <<admin, client, verifiers, gone, idp, request, user, kept>>

\* provider.authorize(): the verifier is stored under the state.
Authorize(t) ==
    /\ trip[t].pc = "authorize"
    /\ verifiers' = verifiers \cup {t}
    /\ Go(t, "away")
    /\ UNCHANGED <<admin, client, states, gone, idp, request, user, kept>>

\* buildConsentUrl(): authorize() under a state of its own, which is not saved.
Refuse(t) ==
    /\ "refusal" \in kinds
    /\ trip[t].pc = "none"
    /\ verifiers' = verifiers \cup {t}
    /\ trip' = [trip EXCEPT ![t] = [NoTrip EXCEPT !.pc = "away", !.kind = "refusal"]]
    /\ UNCHANGED <<admin, client, states, gone, idp, request, user, kept>>

\* The user agrees at the provider, which sends the browser back with a code.
Agree(t) ==
    /\ trip[t].pc = "away"
    /\ Go(t, "back")
    /\ UNCHANGED <<admin, client, stores, idp, request, user, kept>>

-----------------------------------------------------------------------------
(* callback() of both controllers, one action per await *)

At(d, pc) == request[d].pc = pc
Goto(d, pc) == request' = [request EXCEPT ![d].pc = pc]
Of(d) == request[d].trip
Oidc(d) == request[d].kind = "oidc"
Running(t) == {d \in Request : Of(d) = t /\ request[d].pc \notin Ended}

\* A browser may deliver the same redirect again.
Deliver(d, t) ==
    /\ At(d, "idle")
    /\ trip[t].pc = "back"
    /\ Overlap \/ Running(t) = {}
    /\ IF trip[t].kind # "oidc"
         THEN request' = [request EXCEPT ![d] =
                  [pc |-> "get", kind |-> trip[t].kind, trip |-> t, version |-> 0]]
         ELSE /\ provider # 0
              /\ request' = [request EXCEPT ![d] =
                     [pc |-> IF client # 0 THEN "get" ELSE "discover", kind |-> "oidc", trip |-> t,
                      version |-> IF client # 0 THEN client ELSE provider]]
    /\ UNCHANGED <<admin, client, trip, stores, idp, user, kept>>

Discover(d) ==
    /\ At(d, "discover")
    /\ client' = request[d].version
    /\ Goto(d, "get")
    /\ UNCHANGED <<admin, trip, stores, idp, user, kept>>

\* consumeState(): get ...
GetState(d) ==
    /\ At(d, "get")
    /\ Goto(d, IF Of(d) \in states THEN "delete" ELSE "mismatch")
    /\ UNCHANGED <<admin, client, trip, stores, idp, user, kept>>

\* Mutation of DeleteState: the state stays until it expires.
LeaveState(d) ==
    /\ At(d, "delete")
    /\ Goto(d, IF Oidc(d) THEN "redeem" ELSE "take")
    /\ UNCHANGED <<admin, client, trip, stores, idp, user, kept>>

\* ... and del.
DeleteState(d) ==
    /\ At(d, "delete")
    /\ states' = states \ {Of(d)}
    /\ gone' = gone \cup {Of(d)}
    /\ Goto(d, IF Oidc(d) THEN "redeem" ELSE "take")
    /\ UNCHANGED <<admin, client, trip, verifiers, idp, user, kept>>

\* RedisPkceStateStore.take(): get ...
TakeVerifier(d) ==
    /\ At(d, "take")
    /\ Goto(d, IF Of(d) \in verifiers THEN "forget" ELSE "failed")
    /\ UNCHANGED <<admin, client, trip, stores, idp, user, kept>>

\* ... and del.
ForgetVerifier(d) ==
    /\ At(d, "forget")
    /\ verifiers' = verifiers \ {Of(d)}
    /\ Goto(d, "redeem")
    /\ UNCHANGED <<admin, client, trip, states, gone, idp, user, kept>>

\* client.callback() or postToken(): the provider exchanges a code once, with the client
\* it was issued to; when one comes again it revokes what it gave for it (RFC 6749 4.1.2).
Redeem(d) ==
    /\ At(d, "redeem")
    /\ IF Oidc(d) /\ request[d].version # trip[Of(d)].version
         THEN Goto(d, "failed") /\ UNCHANGED idp
         ELSE IF Of(d) \in redeemed
         THEN Goto(d, "failed") /\ dead' = dead \cup {Of(d)} /\ UNCHANGED redeemed
         ELSE /\ redeemed' = redeemed \cup {Of(d)}
              /\ Goto(d, IF Oidc(d) THEN "ensure" ELSE "persist")
              /\ UNCHANGED dead
    /\ UNCHANGED <<admin, client, trip, stores, user, kept>>

RedeemFails(d) ==
    /\ "idp" \in Allowed
    /\ At(d, "redeem")
    /\ Goto(d, "failed")
    /\ redeemed' \in {redeemed, redeemed \cup {Of(d)}}
    /\ UNCHANGED <<admin, client, trip, stores, dead, user, kept>>

\* The consent: repo.put().
Persist(d) ==
    /\ At(d, "persist")
    /\ cred' = Of(d)
    /\ Goto(d, "answered")
    /\ UNCHANGED <<admin, client, trip, stores, idp, user, sessions, subject>>

-----------------------------------------------------------------------------
(* The local login, and what both logins do with the user they know *)

\* verify(): the enabled row ...
ReadAccount(d) ==
    /\ "local" \in kinds
    /\ At(d, "idle")
    /\ account = "enabled"
    /\ request' = [request EXCEPT ![d] = [NoRequest EXCEPT !.pc = "verify", !.kind = "local"]]
    /\ UNCHANGED <<admin, client, trip, stores, idp, user, kept>>

\* ... and scrypt over the hash read.
VerifyPassword(d) ==
    /\ At(d, "verify")
    /\ Goto(d, "ensure") \/ Goto(d, "failed")
    /\ UNCHANGED <<admin, client, trip, stores, idp, user, kept>>

\* Mutation of EnsurePrincipal: a principal that was found, not one that was created,
\* is given the role.
EnsureKnown(d) ==
    /\ At(d, "ensure")
    /\ principals' = principals \cup {request[d].kind}
    /\ Goto(d, IF Oidc(d) /\ "oidc" \in principals THEN "assign" ELSE "open")
    /\ UNCHANGED <<admin, client, trip, stores, idp, role, missed, kept>>

\* ensurePrincipal(): INSERT ... ON CONFLICT DO NOTHING says who created the row.
EnsurePrincipal(d) ==
    /\ At(d, "ensure")
    /\ principals' = principals \cup {request[d].kind}
    /\ Goto(d, IF Oidc(d) /\ "oidc" \notin principals THEN "assign" ELSE "open")
    /\ UNCHANGED <<admin, client, trip, stores, idp, role, missed, kept>>

\* assign() of the default role; a failure is only logged.
AssignRole(d) ==
    /\ At(d, "assign")
    /\ \/ role' = TRUE /\ UNCHANGED missed
       \/ "db" \in Allowed /\ missed' = TRUE /\ UNCHANGED role
    /\ Goto(d, "open")
    /\ UNCHANGED <<admin, client, trip, stores, idp, principals, kept>>

\* sessions.create().
OpenSession(d) ==
    /\ At(d, "open")
    /\ sessions' = sessions \cup {d}
    /\ Goto(d, IF Oidc(d) THEN "capture" ELSE "answered")
    /\ UNCHANGED <<admin, client, trip, stores, idp, user, subject, cred>>

\* upstreamRepo.put() of the provider's token; a failure is only logged.
CaptureToken(d) ==
    /\ At(d, "capture")
    /\ \/ subject' = Of(d)
       \/ "db" \in Allowed /\ UNCHANGED subject
    /\ Goto(d, "answered")
    /\ UNCHANGED <<admin, client, trip, stores, idp, user, sessions, cred>>

\* The process dies, or Redis or the database fails a step that is not caught.
Fail(d) ==
    /\ "crash" \in Allowed
    /\ request[d].pc \notin Ended \cup {"idle"}
    /\ Goto(d, "failed")
    /\ missed' = (missed \/ At(d, "assign"))
    /\ UNCHANGED <<admin, client, trip, stores, idp, principals, role, kept>>

-----------------------------------------------------------------------------

Callback(d) ==
    \/ Discover(d) \/ GetState(d) \/ DeleteState(d) \/ Redeem(d) \/ RedeemFails(d)
    \/ EnsurePrincipal(d) \/ AssignRole(d) \/ OpenSession(d) \/ CaptureToken(d)

\* What the callback of a consent does that a login's does not.
ConsentCallback(d) == TakeVerifier(d) \/ ForgetVerifier(d) \/ Persist(d)

Handle(d) == Callback(d) \/ ConsentCallback(d) \/ VerifyPassword(d) \/ Fail(d)

Leave(t) == Login(t) \/ LoginDiscover(t) \/ SaveState(t) \/ Authorize(t) \/ Refuse(t) \/ Agree(t)

Administer ==
    \/ \E v \in Version : Configure(v)
    \/ CreateAccount \/ DeleteAccount

Next ==
    \/ Administer \/ ExpireClient
    \/ \E t \in Trip : ExpireState(t) \/ ExpireVerifier(t) \/ Leave(t)
    \/ \E d \in Request : \/ Logout(d) \/ ExpireSession(d) \/ ReadAccount(d) \/ Handle(d)
                          \/ \E t \in Trip : Deliver(d, t)

SignInSpec == Init /\ [][Next]_vars

\* What has been begun is finished, and what has a time to live ends.
Fairness ==
    /\ WF_vars(ExpireClient)
    /\ \A t \in Trip : WF_vars(LoginDiscover(t))
    /\ \A d \in Request : WF_vars(Handle(d)) /\ WF_vars(ExpireSession(d))

FairSpec == SignInSpec /\ Fairness

-----------------------------------------------------------------------------

TypeOK ==
    /\ kinds \in Kinds
    /\ provider \in Version
    /\ client \in Version
    /\ account \in {"none", "enabled", "deleted"}
    /\ trip \in [Trip -> TripState]
    /\ states \subseteq Trip /\ verifiers \subseteq Trip /\ redeemed \subseteq Trip
    /\ request \in [Request -> RequestState]
    /\ principals \subseteq {"oidc", "local"} /\ role \in BOOLEAN
    /\ sessions \subseteq Request
    /\ subject \in Trip \cup {None} /\ cred \in Trip \cup {None}
    /\ dead \subseteq Trip /\ gone \subseteq Trip /\ missed \in BOOLEAN

\* A callback is answered "state mismatch or expired" only if its state was consumed
\* before or has expired; a user who agreed comes through otherwise ("Server exchanges
\* the code, encrypts + stores ...", docs/UPSTREAM_AUTH.md).
ReturnIsRecognised == \A d \in Request : At(d, "mismatch") => Of(d) \in gone

\* The same of the round trips that login() of either controller began; the URL of
\* buildConsentUrl() is the exception.
BegunHereIsRecognised ==
    \A d \in Request :
        At(d, "mismatch") => Of(d) \in gone \/ request[d].kind = "refusal"

\* Delivering a redirect again, once the first callback is through, never costs the
\* user the tokens it obtained: the state lets no code be redeemed twice.
ReloadIsHarmless == {subject, cred} \cap dead = {}

\* However many first logins run at once, one of them creates the principal, and it
\* seeds the default role before the user has a session, unless that very step fails
\* ("First successful OIDC login upserts a principal ..., seeds the default role",
\* ADR-015).
RoleIsSeeded ==
    (\E d \in sessions : Oidc(d)) =>
        role \/ missed \/ \E d \in Request : At(d, "assign")

\* Once the provider's row is left alone, logins come to use it: a client of an earlier
\* version, also one that a slow discovery caches late, is not used for ever
\* ("retained until the process restarts or TTL expires", oidc-client.cache.ts).
ClientConverges ==
    <>[][FALSE]_provider => <>[](client \in {0, provider})

\* Deleting a local account ends its access at last, whatever login was in progress.
DeletedAccountIsOut ==
    account = "deleted" ~> \A d \in sessions : request[d].kind # "local"
=============================================================================
