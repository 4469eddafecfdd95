--------------------------- MODULE VaultRotation ---------------------------
(***************************************************************************)
(* Rotation of the key-encryption keys of the credential vault             *)
(* (packages/upstream-auth/src/{keyring,key-wrapper,vault,repo}.ts and     *)
(* apps/server/src/{vault-admin.controller,vault-rewrap.service,           *)
(* upstream-auth.module}.ts) over several replicas: the keyring each Vault *)
(* reads through, the keyring the admin endpoints write, the environment   *)
(* both are built from, and one row of principal_upstream_credentials.     *)
(* Rows meet only in countByKeyId(), where one stands for all.  The local  *)
(* key wrapper is modelled; Vault Transit keeps its keys elsewhere.        *)
(***************************************************************************)
EXTENDS FiniteSets, Naturals

CONSTANTS
    Node,      \* replicas
    Key,       \* key ids
    FirstKey,  \* the one the deployment starts with
    None,      \* no row, no key
    Writer,    \* concurrent calls of put()
    MaxPut,    \* bound: tokens issued to put()
    Allowed    \* what may happen around the code, a subset of Circumstance

\* "admin":   the rotate and retire endpoints are used
\* "force":   retire is called with force:true
\* "prepend": a new key enters the environment as primary at once, without a
\*            first roll in which the replicas can only decrypt with it
\* "restart": replicas restart
\* "overlap": a credential is overwritten while a sweep holds the row it selected
Circumstance == {"admin", "force", "prepend", "restart", "overlap"}

ASSUME VaultAssumption ==
    /\ FirstKey \in Key
    /\ None \notin Key
    /\ MaxPut \in Nat
    /\ Allowed \subseteq Circumstance

VARIABLES
    env,      \* MAVIO_VAULT_KEYRING as the deployment would pass it to a new process
    boot,     \* process.env.MAVIO_VAULT_KEYRING of each running process
    ring,     \* the EnvKekProvider inside the LocalKeyWrapper of the replica's Vault
    handle,   \* what sharedKek is: that same instance, null, or an instance of its own
    own,      \* the latter's keyring
    reload,   \* replicas a reload signal is on its way to
    retiring, \* the key a retire request has counted the rows of, per replica
    row,      \* the credential's row
    put,      \* calls of put() between encrypt() and the upsert
    sweep,    \* the row a rewrapStale() has selected, per replica
    issued,   \* tokens issued so far
    latest    \* history: the token last stored, 0 after revoke()

keyrings == <<env, boot, ring, handle, own, reload, retiring>>
rows == <<row, put, sweep, issued, latest>>
vars == <<env, boot, ring, handle, own, reload, retiring, row, put, sweep, issued, latest>>

\* Of the order of a keyring only the first entry matters.
Ring == [primary : Key \cup {None}, keys : SUBSET Key]
Empty == [primary |-> None, keys |-> {}]
Version == 0..MaxPut
\* A row's id is the token it was inserted with.
Row == [id : Version, key : Key \cup {None}, token : Version]
NoRow == [id |-> 0, key |-> None, token |-> 0]
Stored == row # NoRow
Put == [pc : {"idle", "encrypted"}, node : Node \cup {None}, key : Key \cup {None}, token : Version]
NoPut == [pc |-> "idle", node |-> None, key |-> None, token |-> 0]
Sweep == [pc : {"idle", "selected", "wrapped"}, of : Row, key : Key \cup {None}]
NoSweep == [pc |-> "idle", of |-> NoRow, key |-> None]

FirstRing == [primary |-> FirstKey, keys |-> {FirstKey}]

Init ==
    /\ env = FirstRing
    /\ boot = [n \in Node |-> FirstRing]
    /\ ring = [n \in Node |-> FirstRing]
    /\ handle = [n \in Node |-> "wrapper"]
    /\ own = [n \in Node |-> Empty]
    /\ reload = {}
    /\ retiring = [n \in Node |-> None]
    /\ row = NoRow
    /\ put = [w \in Writer |-> NoPut]
    /\ sweep = [n \in Node |-> NoSweep]
    /\ issued = 0
    /\ latest = 0

-----------------------------------------------------------------------------
(* PrincipalUpstreamCredentialsRepository *)

\* Mutation of PutEncrypt: any key of the ring, say the newest, instead of the primary.
PutEncryptAnyKey(w, n) ==
    /\ put[w].pc = "idle"
    /\ issued < MaxPut
    /\ issued' = issued + 1
    /\ \E k \in ring[n].keys :
         put' = [put EXCEPT ![w] = [pc |-> "encrypted", node |-> n,
                                    key |-> k, token |-> issued + 1]]
    /\ UNCHANGED keyrings
    /\ UNCHANGED <<row, sweep, latest>>

\* put(): vault.encrypt() wraps under the primary; an empty keyring throws.
PutEncrypt(w, n) ==
    /\ put[w].pc = "idle"
    /\ issued < MaxPut
    /\ ring[n].primary # None
    /\ issued' = issued + 1
    /\ put' = [put EXCEPT ![w] = [pc |-> "encrypted", node |-> n,
                                  key |-> ring[n].primary, token |-> issued + 1]]
    /\ UNCHANGED keyrings
    /\ UNCHANGED <<row, sweep, latest>>

\* Does a rewrapStale() hold this very row?
Swept == \E n \in Node : sweep[n].pc # "idle" /\ sweep[n].of.id = row.id

\* The upsert: on conflict everything but the id is overwritten.
PutWrite(w) ==
    /\ put[w].pc = "encrypted"
    /\ Swept => "overlap" \in Allowed
    /\ row' = [id |-> IF Stored THEN row.id ELSE put[w].token,
               key |-> put[w].key, token |-> put[w].token]
    /\ latest' = put[w].token
    /\ put' = [put EXCEPT ![w] = NoPut]
    /\ UNCHANGED keyrings
    /\ UNCHANGED <<sweep, issued>>

\* revoke(): by an administrator, or after a refresh or a put() that failed.
Revoke ==
    /\ Stored
    /\ row' = NoRow
    /\ latest' = 0
    /\ UNCHANGED keyrings
    /\ UNCHANGED <<put, sweep, issued>>

\* rewrapStale(): the rows not under this replica's primary ...
SweepSelect(n) ==
    /\ sweep[n].pc = "idle"
    /\ Stored
    /\ row.key # ring[n].primary
    /\ sweep' = [sweep EXCEPT ![n] = [pc |-> "selected", of |-> row, key |-> None]]
    /\ UNCHANGED keyrings
    /\ UNCHANGED <<row, put, issued, latest>>

\* Mutation of SweepWrap: wraps under the row's own key again.
SweepWrapSameKey(n) ==
    /\ sweep[n].pc = "selected"
    /\ sweep' = [sweep EXCEPT ![n] =
            IF sweep[n].of.key \in ring[n].keys
              THEN [pc |-> "wrapped", of |-> sweep[n].of, key |-> sweep[n].of.key]
              ELSE NoSweep]
    /\ UNCHANGED keyrings
    /\ UNCHANGED <<row, put, issued, latest>>

\* ... vault.rewrap() each: skipped if it cannot be decrypted, if there is no
\* primary to encrypt with, or if the primary now is the row's own key ...
SweepWrap(n) ==
    /\ sweep[n].pc = "selected"
    /\ sweep' = [sweep EXCEPT ![n] =
            IF sweep[n].of.key \in ring[n].keys \ {ring[n].primary}
              THEN [pc |-> "wrapped", of |-> sweep[n].of, key |-> ring[n].primary]
              ELSE NoSweep]
    /\ UNCHANGED keyrings
    /\ UNCHANGED <<row, put, issued, latest>>

\* Mutation of SweepWrite: matched by principal and provider instead of by id.
SweepWriteByPrincipal(n) ==
    /\ sweep[n].pc = "wrapped"
    /\ row' = IF Stored
                THEN [row EXCEPT !.key = sweep[n].key, !.token = sweep[n].of.token]
                ELSE row
    /\ sweep' = [sweep EXCEPT ![n] = NoSweep]
    /\ UNCHANGED keyrings
    /\ UNCHANGED <<put, issued, latest>>

\* ... and UPDATE by id, with the ciphertext of what was selected.
SweepWrite(n) ==
    /\ sweep[n].pc = "wrapped"
    /\ row' = IF Stored /\ row.id = sweep[n].of.id
                THEN [row EXCEPT !.key = sweep[n].key, !.token = sweep[n].of.token]
                ELSE row
    /\ sweep' = [sweep EXCEPT ![n] = NoSweep]
    /\ UNCHANGED keyrings
    /\ UNCHANGED <<put, issued, latest>>

-----------------------------------------------------------------------------
(* VaultAdminController *)

\* readKek(): a new EnvKekProvider of the process environment if there is none.
Shared(n) ==
    CASE handle[n] = "wrapper" -> ring[n]
      [] handle[n] = "own" -> own[n]
      [] handle[n] = "none" -> boot[n]

\* rotate() and retire() mutate the shared instance, then publish to every replica.
Mutate(n, r) ==
    /\ IF handle[n] = "wrapper"
         THEN ring' = [ring EXCEPT ![n] = r] /\ UNCHANGED <<handle, own>>
         ELSE /\ handle' = [handle EXCEPT ![n] = "own"]
              /\ own' = [own EXCEPT ![n] = r]
              /\ UNCHANGED ring
    /\ reload' = Node

\* POST rotate: a key id already present is refused.
Rotate(n, k) ==
    /\ "admin" \in Allowed
    /\ k \notin Shared(n).keys
    /\ Mutate(n, [primary |-> k, keys |-> Shared(n).keys \cup {k}])
    /\ UNCHANGED <<env, boot, retiring>>
    /\ UNCHANGED rows

\* POST retire: countByKeyId() ...
RetireCount(n, k) ==
    /\ "admin" \in Allowed
    /\ retiring[n] = None
    /\ row.key = k => "force" \in Allowed
    /\ retiring' = [retiring EXCEPT ![n] = k]
    /\ UNCHANGED <<env, boot, ring, handle, own, reload>>
    /\ UNCHANGED rows

\* ... and, one await later, retire(): an unknown key is refused, and the primary
\* unless it is the only one.
RetireApply(n) ==
    /\ retiring[n] # None
    /\ LET k == retiring[n]
           r == Shared(n)
           Refused == k \notin r.keys \/ (k = r.primary /\ r.keys # {k})
       IN  IF Refused
             THEN UNCHANGED <<ring, handle, own, reload>>
             ELSE Mutate(n, [primary |-> IF k = r.primary THEN None ELSE r.primary,
                             keys |-> r.keys \ {k}])
    /\ retiring' = [retiring EXCEPT ![n] = None]
    /\ UNCHANGED <<env, boot>>
    /\ UNCHANGED rows

\* UpstreamAuthModule's subscriber: resetSharedKek().  The Vault is not told.
ReloadSignal(n) ==
    /\ n \in reload
    /\ reload' = reload \ {n}
    /\ handle' = [handle EXCEPT ![n] = "none"]
    /\ own' = [own EXCEPT ![n] = Empty]
    /\ UNCHANGED <<env, boot, ring, retiring>>
    /\ UNCHANGED rows

\* The subscriber is away, or the replica died between mutation and publish.
LoseSignal(n) ==
    /\ n \in reload
    /\ reload' = reload \ {n}
    /\ UNCHANGED <<env, boot, ring, handle, own, retiring>>
    /\ UNCHANGED rows

-----------------------------------------------------------------------------
(* The operator: edits of the environment, and restarts *)

\* A key joins as decrypt-only ...
Announce(k) ==
    /\ "prepend" \notin Allowed
    /\ k \notin env.keys
    /\ env' = [env EXCEPT !.keys = @ \cup {k}]
    /\ UNCHANGED <<boot, ring, handle, own, reload, retiring>>
    /\ UNCHANGED rows

\* ... becomes primary when every replica has been restarted with it ...
Promote(k) ==
    /\ \A n \in Node : k \in ring[n].keys
    /\ k \in env.keys \ {env.primary}
    /\ env' = [env EXCEPT !.primary = k]
    /\ UNCHANGED <<boot, ring, handle, own, reload, retiring>>
    /\ UNCHANGED rows

\* ... or is the primary at once, as documented.
Prepend(k) ==
    /\ "prepend" \in Allowed
    /\ k \notin env.keys
    /\ env' = [primary |-> k, keys |-> env.keys \cup {k}]
    /\ UNCHANGED <<boot, ring, handle, own, reload, retiring>>
    /\ UNCHANGED rows

\* A key leaves when no replica writes under it, nothing is on its way to the
\* database under it and no row is left under it.
Drop(k) ==
    /\ k \in env.keys \ {env.primary}
    /\ row.key # k
    /\ \A n \in Node : ring[n].primary # k /\ sweep[n].key # k
    /\ \A w \in Writer : put[w].key # k
    /\ env' = [env EXCEPT !.keys = @ \ {k}]
    /\ UNCHANGED <<boot, ring, handle, own, reload, retiring>>
    /\ UNCHANGED rows

\* buildKeyWrapper() at boot: one EnvKekProvider, shared by wrapper and endpoints.
Restart(n) ==
    /\ "restart" \in Allowed
    /\ boot' = [boot EXCEPT ![n] = env]
    /\ ring' = [ring EXCEPT ![n] = env]
    /\ handle' = [handle EXCEPT ![n] = "wrapper"]
    /\ own' = [own EXCEPT ![n] = Empty]
    /\ reload' = reload \ {n}
    /\ retiring' = [retiring EXCEPT ![n] = None]
    /\ put' = [w \in Writer |-> IF put[w].node = n THEN NoPut ELSE put[w]]
    /\ sweep' = [sweep EXCEPT ![n] = NoSweep]
    /\ UNCHANGED <<env, row, issued, latest>>

-----------------------------------------------------------------------------

Operator(k) == Announce(k) \/ Promote(k) \/ Prepend(k) \/ Drop(k)
Credential ==
    \/ \E w \in Writer : PutWrite(w) \/ \E n \in Node : PutEncrypt(w, n)
    \/ Revoke
Sweeping(n) == SweepSelect(n) \/ SweepWrap(n) \/ SweepWrite(n)
Admin(n) ==
    \/ \E k \in Key : Rotate(n, k) \/ RetireCount(n, k)
    \/ RetireApply(n)
Signal(n) == ReloadSignal(n) \/ LoseSignal(n)

Next ==
    \/ \E k \in Key : Operator(k)
    \/ Credential
    \/ \E n \in Node : Sweeping(n) \/ Admin(n) \/ Signal(n) \/ Restart(n)

RotationSpec == Init /\ [][Next]_vars

\* VaultRewrapService: setInterval() comes round again, a sweep finishes.
FairSpec == RotationSpec /\ \A n \in Node : WF_vars(Sweeping(n))

-----------------------------------------------------------------------------

TypeOK ==
    /\ env \in Ring
    /\ boot \in [Node -> Ring]
    /\ ring \in [Node -> Ring]
    /\ handle \in [Node -> {"wrapper", "none", "own"}]
    /\ own \in [Node -> Ring]
    /\ reload \subseteq Node
    /\ retiring \in [Node -> Key \cup {None}]
    /\ row \in Row
    /\ put \in [Writer -> Put]
    /\ sweep \in [Node -> Sweep]
    /\ issued \in Version
    /\ latest \in Version

\* Changing keys never changes the secret: the row holds the token that was stored
\* last, and none after a revoke, whatever sweep of any replica, retirement or
\* restart came between (ADR-019: re-encryptable "without invalidating live user
\* sessions"; repo.ts rewrapStale()).
TokensSurviveRotation == row.token = latest

\* Every replica can decrypt the row at any time: rotation without downtime
\* (ADR-019), when the environment is rolled in two steps.
EveryReplicaReads == Stored => \A n \in Node : row.key \in ring[n].keys

\* get() on a replica: a row whose key it does not have cannot be decrypted.
Reading(n) ==
    IF ~Stored THEN 0 ELSE IF row.key \in ring[n].keys THEN row.token ELSE None

Pending == {put[w].token : w \in {v \in Writer : put[v].pc = "encrypted"}}

Credentials == INSTANCE CredentialStore WITH
    Reader <- Node, pending <- Pending, seen <- [n \in Node |-> Reading(n)]

\* Announcing, promoting and dropping keys, sweeps and restarts of single replicas are
\* invisible: what replicas read changes for all of them at once, and only by put() and
\* revoke() ("re-encryptable without invalidating live user sessions", ADR-019).
RotationIsInvisible == Credentials!StoreSpec

\* rotate "mutate[s] the same instance the Vault reads through"
\* (upstream-auth.module.ts, buildKeyWrapper()).
RotateReachesVault ==
    [][\A n \in Node, k \in Key : Rotate(n, k) => ring'[n].primary = k]_vars

\* A replica that got the reload signal can decrypt what the other replicas now
\* write ("so replicas hot-reload without restart", ADR-019).
ReloadReachesVault ==
    [][\A n, m \in Node : ReloadSignal(n) => ring[m].primary \in ring'[n].keys]_vars

\* Without force, retire() leaves no row that nobody can decrypt ("safe to retire
\* an old key once mavio_vault_rows_by_key{key_id=X} hits zero", repo.ts).
RetireIsSafe == Stored => \E n \in Node : row.key \in ring[n].keys

\* Once the operator and the users are quiet and every replica runs with the same
\* keyring, the sweep brings the row under its primary and leaves it there.
RewrapCompletes ==
    (/\ <>[][(\E n \in Node : Sweeping(n))]_vars
     /\ <>[](\A n \in Node : ring[n] = env))
        => <>[](Stored => row.key = env.primary)
=============================================================================
