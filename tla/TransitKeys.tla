---------------------------- MODULE TransitKeys ----------------------------
(***************************************************************************)
(* The credential vault over HashiCorp Vault Transit: the other key        *)
(* wrapper of packages/upstream-auth/src/key-wrapper.ts.  The key and its  *)
(* versions live in Vault, where an operator rotates it and raises         *)
(* min_decryption_version; a row says in key_id which version it is under, *)
(* and its ciphertext holds the version it really is under.  One           *)
(* credential, one replica that sweeps.                                    *)
(***************************************************************************)
EXTENDS Naturals

CONSTANTS
    Writer,      \* concurrent calls of put()
    MaxRotation, \* bound: versions of the key
    MaxPut,      \* bound: tokens issued to put()
    MaxFailure,  \* bound: requests to Vault that fail or time out
    Reports,     \* may the answer of encrypt lack key_version? a subset of BOOLEAN
    Overlap      \* may a credential be overwritten while a sweep holds its row?

TransitAssumption ==
    /\ MaxRotation \in Nat \ {0} /\ MaxPut \in Nat /\ MaxFailure \in Nat
    /\ Reports \subseteq BOOLEAN /\ Overlap \in BOOLEAN

VARIABLES
    reports,  \* whether encrypt answers with key_version
    newest,   \* latest_version of the key in Vault
    oldest,   \* its min_decryption_version
    row,      \* the credential's row
    put,      \* calls of put() between encrypt() and the upsert
    sweep,    \* where rewrapStale() is
    issued,   \* tokens issued so far
    stored,   \* history: the token last stored
    failures  \* requests to Vault that have failed

vars == <<reports, newest, oldest, row, put, sweep, issued, stored, failures>>

KeyVersion == 1..MaxRotation
\* The key_id is vault-transit:<keyName>:v<stamp>; the id is the token the row began with.
Row == [id : 0..MaxPut, stamp : 0..MaxRotation, version : 0..MaxRotation, token : 0..MaxPut]
NoRow == [id |-> 0, stamp |-> 0, version |-> 0, token |-> 0]
Stored == row # NoRow
SweepState ==
    [pc : {"idle", "select", "selected", "unwrap", "wrap", "write"},
     primary : 0..MaxRotation, of : Row, next : Row]
NoSweep == [pc |-> "idle", primary |-> 0, of |-> NoRow, next |-> NoRow]

Init ==
    /\ reports \in Reports
    /\ newest = 1 /\ oldest = 1
    /\ row = NoRow /\ put = [w \in Writer |-> NoRow] /\ sweep = NoSweep
    /\ issued = 0 /\ stored = 0 /\ failures = 0

key == <<reports, newest, oldest>>

-----------------------------------------------------------------------------
(* The operator, with Vault's own control plane *)

Rotate ==
    /\ newest < MaxRotation
    /\ newest' = newest + 1
    /\ UNCHANGED <<reports, oldest, row, put, sweep, issued, stored, failures>>

\* Old versions are given up when countByKeyId() has no row under them, and later than
\* any put() that was on its way when the key was rotated.
GiveUp(v) ==
    /\ v \in oldest + 1 .. newest
    /\ Stored => row.stamp \notin 1 .. v - 1
    /\ \A w \in Writer : put[w] = NoRow \/ put[w].version >= v
    /\ oldest' = v
    /\ UNCHANGED <<reports, newest, row, put, sweep, issued, stored, failures>>

-----------------------------------------------------------------------------
(* VaultTransitKeyWrapper *)

\* Mutation of Wrapped: the stamp is the version that was primary before.
WrappedLate(id, token) ==
    [id |-> id, stamp |-> oldest, version |-> newest, token |-> token]

\* wrap(): Vault encrypts under its latest version; the row is stamped with the
\* key_version of the answer, or 0.
Wrapped(id, token) ==
    [id |-> id, stamp |-> IF reports THEN newest ELSE 0, version |-> newest, token |-> token]

\* unwrap(): Vault reads the version in the ciphertext.
CanUnwrap(r) == r.version >= oldest

\* A request is answered with a status from 400 on, or aborted after timeoutMs.
RequestFails ==
    /\ failures < MaxFailure
    /\ failures' = failures + 1

-----------------------------------------------------------------------------
(* put() *)

PutEncrypt(w) ==
    /\ put[w] = NoRow /\ issued < MaxPut
    /\ issued' = issued + 1
    /\ put' = [put EXCEPT ![w] = Wrapped(issued + 1, issued + 1)]
    /\ UNCHANGED <<key, row, sweep, stored, failures>>

\* The upsert, where a row that is there keeps its id.
PutWrite(w) ==
    /\ put[w] # NoRow
    /\ Stored /\ sweep.of.id = row.id => Overlap
    /\ row' = [put[w] EXCEPT !.id = IF Stored THEN row.id ELSE @]
    /\ stored' = put[w].token
    /\ put' = [put EXCEPT ![w] = NoRow]
    /\ UNCHANGED <<key, sweep, issued, failures>>

\* The database refuses it.
PutFails(w) ==
    /\ put[w] # NoRow
    /\ put' = [put EXCEPT ![w] = NoRow]
    /\ UNCHANGED <<key, row, sweep, issued, stored, failures>>

Revoke ==
    /\ Stored
    /\ row' = NoRow
    /\ UNCHANGED <<key, put, sweep, issued, stored, failures>>

-----------------------------------------------------------------------------
(* rewrapStale() *)

SweepTo(s) ==
    /\ sweep' = s
    /\ UNCHANGED <<key, row, put, issued, stored, failures>>

SweepBegin ==
    /\ sweep.pc = "idle"
    /\ SweepTo([NoSweep EXCEPT !.pc = "select", !.primary = newest])

\* The rows whose key_id is not the primary's.
SweepSelect ==
    /\ sweep.pc = "select"
    /\ SweepTo(IF Stored /\ row.stamp # sweep.primary
               THEN [sweep EXCEPT !.pc = "selected", !.of = row] ELSE NoSweep)

\* Vault.rewrap() asks for the primary once more.
SweepPrimary ==
    /\ sweep.pc = "selected"
    /\ SweepTo(IF sweep.of.stamp = newest THEN NoSweep ELSE [sweep EXCEPT !.pc = "unwrap"])

\* A row that cannot be read is skipped.
SweepUnwrap ==
    /\ sweep.pc = "unwrap"
    /\ SweepTo(IF CanUnwrap(sweep.of) THEN [sweep EXCEPT !.pc = "wrap"] ELSE NoSweep)

\* So is one that would keep its key_id.
SweepWrap ==
    /\ sweep.pc = "wrap"
    /\ LET next == Wrapped(sweep.of.id, sweep.of.token)
       IN  SweepTo(IF next.stamp = sweep.of.stamp THEN NoSweep
                   ELSE [sweep EXCEPT !.pc = "write", !.next = next])

\* Mutation of SweepWrite: only the key_id and the wrapped key are written, not the
\* ciphertext under the new data key.
SweepWriteStamp ==
    /\ sweep.pc = "write"
    /\ row' = IF row.id = sweep.of.id THEN [row EXCEPT !.stamp = sweep.next.stamp] ELSE row
    /\ sweep' = NoSweep
    /\ UNCHANGED <<key, put, issued, stored, failures>>

SweepWrite ==
    /\ sweep.pc = "write"
    /\ row' = IF row.id = sweep.of.id THEN sweep.next ELSE row
    /\ sweep' = NoSweep
    /\ UNCHANGED <<key, put, issued, stored, failures>>

\* A request of the sweep fails: the row is skipped, or the sweep given up.
SweepFails ==
    /\ sweep.pc \in {"selected", "unwrap", "wrap"}
    /\ RequestFails
    /\ sweep' = NoSweep
    /\ UNCHANGED <<key, row, put, issued, stored>>

SweepStep ==
    \/ SweepBegin \/ SweepSelect \/ SweepPrimary \/ SweepUnwrap \/ SweepWrap \/ SweepWrite

-----------------------------------------------------------------------------

Next ==
    \/ Rotate \/ \E v \in KeyVersion : GiveUp(v)
    \/ \E w \in Writer : PutEncrypt(w) \/ PutWrite(w) \/ PutFails(w)
    \/ Revoke
    \/ SweepStep \/ SweepFails

TransitSpec == Init /\ [][Next]_vars

\* The interval of vault-rewrap.service.ts, and requests that come back.
Fairness == WF_vars(SweepStep)
FairSpec == TransitSpec /\ Fairness

-----------------------------------------------------------------------------

TypeOK ==
    /\ reports \in BOOLEAN /\ newest \in KeyVersion /\ oldest \in 1..newest
    /\ row \in Row /\ put \in [Writer -> Row]
    /\ sweep \in SweepState
    /\ issued \in 0..MaxPut /\ stored \in 0..MaxPut /\ failures \in 0..MaxFailure

\* The token last stored is there and can be read, however the rotations in Vault and the
\* operator's look at the key_ids interleave with a sweep ("key_id column format ... so
\* per-key row counting still works and retire logic can be scoped per version",
\* key-wrapper.ts).
TokensReadable == Stored => CanUnwrap(row) /\ row.token = stored

\* Once the key is left alone every row comes under its latest version, which is what
\* the operator waits for.
StampsConverge == <>[][FALSE]_newest => <>[](Stored => row.stamp = newest)
=============================================================================
