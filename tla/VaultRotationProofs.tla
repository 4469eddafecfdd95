------------------------ MODULE VaultRotationProofs ------------------------
(***************************************************************************)
(* Proofs about the vault over both of its key wrappers.  VaultRotation,   *)
(* for any replicas, keys, writers and bounds: the types, that no          *)
(* rotation, sweep, retirement or restart brings an old token back, that a *)
(* two-step roll of the environment never leaves a replica unable to       *)
(* decrypt a row, and that the rotation implements CredentialStore.        *)
(* TransitKeys, for any writers, rotations and failures: the row can       *)
(* always be read.                                                         *)
(***************************************************************************)
EXTENDS MCVaultKeys, TLAPS

\* A row type-checks after each of the two ways it is written.
LEMMA RowTypes ==
    /\ NoRow \in Row
    /\ \A i, t \in Version, k \in Key \cup {None} : [id |-> i, key |-> k, token |-> t] \in Row
    /\ \A r \in Row : r.id \in Version /\ r.key \in Key \cup {None} /\ r.token \in Version
    /\ \A r \in Row, k \in Key \cup {None}, t \in Version :
          [r EXCEPT !.key = k, !.token = t] \in Row
<1>1. NoRow \in Row
  BY VaultAssumption DEF Row, NoRow, Version
<1>2. \A i, t \in Version, k \in Key \cup {None} : [id |-> i, key |-> k, token |-> t] \in Row
  BY DEF Row
<1>3. \A r \in Row : r.id \in Version /\ r.key \in Key \cup {None} /\ r.token \in Version
  BY DEF Row
<1>4. \A r \in Row, k \in Key \cup {None}, t \in Version :
        [r EXCEPT !.key = k, !.token = t] \in Row
  BY DEF Row
<1> QED
  BY <1>1, <1>2, <1>3, <1>4

\* The keyrings that the endpoints, the operator and a restart make.
LEMMA RingTypes ==
    /\ FirstRing \in Ring
    /\ Empty \in Ring
    /\ \A r \in Ring : r.primary \in Key \cup {None} /\ r.keys \in SUBSET Key
    /\ \A k \in Key \cup {None}, s \in SUBSET Key : [primary |-> k, keys |-> s] \in Ring
    /\ \A r \in Ring, k \in Key : [r EXCEPT !.primary = k] \in Ring
    /\ \A r \in Ring, s \in SUBSET Key : [r EXCEPT !.keys = s] \in Ring
BY VaultAssumption DEF Ring, FirstRing, Empty

\* What put() and a sweep hold.
LEMMA RequestTypes ==
    /\ NoPut \in Put
    /\ \A n \in Node, k \in Key \cup {None}, t \in Version :
          [pc |-> "encrypted", node |-> n, key |-> k, token |-> t] \in Put
    /\ \A p \in Put : p.key \in Key \cup {None} /\ p.token \in Version
    /\ NoSweep \in Sweep
    /\ \A r \in Row, k \in Key \cup {None}, pc \in {"selected", "wrapped"} :
          [pc |-> pc, of |-> r, key |-> k] \in Sweep
    /\ \A s \in Sweep : s.of \in Row /\ s.key \in Key \cup {None}
<1>1. NoPut \in Put
  BY VaultAssumption DEF Put, NoPut, Version
<1>2. \A n \in Node, k \in Key \cup {None}, t \in Version :
        [pc |-> "encrypted", node |-> n, key |-> k, token |-> t] \in Put
  BY DEF Put
<1>3. \A p \in Put : p.key \in Key \cup {None} /\ p.token \in Version
  BY DEF Put
<1>4. NoSweep \in Sweep
  BY RowTypes DEF Sweep, NoSweep
<1>5. \A r \in Row, k \in Key \cup {None}, pc \in {"selected", "wrapped"} :
        [pc |-> pc, of |-> r, key |-> k] \in Sweep
  BY DEF Sweep
<1>6. \A s \in Sweep : s.of \in Row /\ s.key \in Key \cup {None}
  BY DEF Sweep
<1> QED
  BY <1>1, <1>2, <1>3, <1>4, <1>5, <1>6

\* The types hold at the beginning.
LEMMA InitTypes == Init => TypeOK
<1> SUFFICES ASSUME Init PROVE TypeOK
  OBVIOUS
<1>1. FirstRing \in Ring /\ Empty \in Ring /\ NoRow \in Row /\ NoPut \in Put /\ NoSweep \in Sweep
  BY RowTypes, RingTypes, RequestTypes
<1>2. 0 \in Version
  BY VaultAssumption DEF Version
<1> QED
  BY <1>1, <1>2 DEF Init, TypeOK

\* The keyring the endpoints work on is one.
LEMMA SharedType ==
    ASSUME TypeOK, NEW n \in Node
    PROVE Shared(n) \in Ring
BY DEF TypeOK, Shared

\* rotate() and retire() keep the types.
LEMMA MutateTypes ==
    ASSUME TypeOK, NEW n \in Node, NEW r \in Ring, Mutate(n, r)
    PROVE /\ ring' \in [Node -> Ring]
          /\ own' \in [Node -> Ring]
          /\ handle' \in [Node -> {"wrapper", "none", "own"}]
          /\ reload' \subseteq Node
BY DEF TypeOK, Mutate

\* Every step keeps the types.
LEMMA TypesKept == TypeOK /\ [Next]_vars => TypeOK'
<1> SUFFICES ASSUME TypeOK, [Next]_vars PROVE TypeOK'
  OBVIOUS
<1>1. ASSUME NEW k \in Key, Operator(k) PROVE TypeOK'
  <2>1. env' \in Ring
    <3>1. env.primary \in Key \cup {None} /\ env.keys \in SUBSET Key /\ env \in Ring
      BY RingTypes DEF TypeOK
    <3>2. CASE Announce(k)
      <4>1. env.keys \cup {k} \in SUBSET Key
        BY <3>1
      <4> QED
        BY <3>1, <3>2, <4>1, RingTypes DEF Announce
    <3>3. CASE Promote(k)
      BY <3>1, <3>3, RingTypes DEF Promote
    <3>4. CASE Prepend(k)
      <4>1. env.keys \cup {k} \in SUBSET Key
        BY <3>1
      <4> QED
        BY <3>4, <4>1, RingTypes DEF Prepend
    <3>5. CASE Drop(k)
      <4>1. env.keys \ {k} \in SUBSET Key
        BY <3>1
      <4> QED
        BY <3>1, <3>5, <4>1, RingTypes DEF Drop
    <3> QED
      BY <1>1, <3>2, <3>3, <3>4, <3>5 DEF Operator
  <2> QED
    BY <1>1, <2>1 DEF TypeOK, Operator, Announce, Promote, Prepend, Drop, rows
<1>2. CASE Credential
  <2>1. ASSUME NEW w \in Writer, PutWrite(w) PROVE TypeOK'
    <3>1. put[w] \in Put
      BY DEF TypeOK
    <3>2. row' \in Row
      <4>1. row.id \in Version /\ put[w].token \in Version /\ put[w].key \in Key \cup {None}
        BY <3>1, RowTypes, RequestTypes DEF TypeOK
      <4> QED
        BY <2>1, <4>1, RowTypes DEF PutWrite
    <3> QED
      BY <2>1, <3>1, <3>2, RequestTypes DEF TypeOK, PutWrite, keyrings
  <2>2. ASSUME NEW w \in Writer, NEW n \in Node, PutEncrypt(w, n) PROVE TypeOK'
    <3>1. issued + 1 \in Version
      <4>1. issued \in 0..MaxPut /\ issued < MaxPut
        BY <2>2 DEF TypeOK, PutEncrypt, Version
      <4> QED
        BY <4>1, VaultAssumption DEF Version
    <3>2. ring[n].primary \in Key \cup {None}
      BY RingTypes DEF TypeOK
    <3>3. put' \in [Writer -> Put]
      <4>1. [pc |-> "encrypted", node |-> n, key |-> ring[n].primary, token |-> issued + 1] \in Put
        BY <3>1, <3>2, RequestTypes
      <4> QED
        BY <2>2, <4>1 DEF TypeOK, PutEncrypt
    <3> QED
      BY <2>2, <3>1, <3>3 DEF TypeOK, PutEncrypt, keyrings
  <2>3. CASE Revoke
    <3>1. 0 \in Version
      BY VaultAssumption DEF Version
    <3> QED
      BY <2>3, <3>1, RowTypes DEF TypeOK, Revoke, keyrings
  <2> QED
    BY <1>2, <2>1, <2>2, <2>3 DEF Credential
<1>3. ASSUME NEW n \in Node, Sweeping(n) PROVE TypeOK'
  <2>0. /\ sweep[n] \in Sweep /\ row \in Row
        /\ sweep[n].of \in Row /\ sweep[n].key \in Key \cup {None}
        /\ ring[n].primary \in Key \cup {None}
    BY RingTypes, RequestTypes DEF TypeOK
  <2>1. CASE SweepSelect(n)
    <3>1. [pc |-> "selected", of |-> row, key |-> None] \in Sweep
      BY <2>0, RequestTypes
    <3> QED
      BY <2>1, <3>1 DEF TypeOK, SweepSelect, keyrings
  <2>2. CASE SweepWrap(n)
    <3>1. /\ [pc |-> "wrapped", of |-> sweep[n].of, key |-> ring[n].primary] \in Sweep
          /\ NoSweep \in Sweep
      BY <2>0, RequestTypes
    <3> QED
      BY <2>2, <3>1 DEF TypeOK, SweepWrap, keyrings
  <2>3. CASE SweepWrite(n)
    <3>1. [row EXCEPT !.key = sweep[n].key, !.token = sweep[n].of.token] \in Row
      <4>1. sweep[n].of.token \in Version
        BY <2>0, RowTypes
      <4> QED
        BY <2>0, <4>1, RowTypes
    <3>2. NoSweep \in Sweep
      BY RequestTypes
    <3> QED
      BY <2>0, <2>3, <3>1, <3>2 DEF TypeOK, SweepWrite, keyrings
  <2> QED
    BY <1>3, <2>1, <2>2, <2>3 DEF Sweeping
<1>4. ASSUME NEW n \in Node, Admin(n) PROVE TypeOK'
  <2>0. Shared(n) \in Ring
    BY SharedType
  <2>1. ASSUME NEW k \in Key, Rotate(n, k) PROVE TypeOK'
    <3>1. [primary |-> k, keys |-> Shared(n).keys \cup {k}] \in Ring
      <4>1. Shared(n).keys \cup {k} \in SUBSET Key
        BY <2>0, RingTypes
      <4> QED
        BY <4>1, RingTypes
    <3>2. /\ ring' \in [Node -> Ring]
          /\ own' \in [Node -> Ring]
          /\ handle' \in [Node -> {"wrapper", "none", "own"}]
          /\ reload' \subseteq Node
      BY <2>1, <3>1, MutateTypes DEF Rotate
    <3> QED
      BY <2>1, <3>2 DEF TypeOK, Rotate, rows
  <2>2. ASSUME NEW k \in Key, RetireCount(n, k) PROVE TypeOK'
    BY <2>2 DEF TypeOK, RetireCount, rows
  <2>3. CASE RetireApply(n)
    <3> DEFINE k == retiring[n]
               r == Shared(n)
               s == [primary |-> IF k = r.primary THEN None ELSE r.primary,
                     keys |-> r.keys \ {k}]
    <3>1. s \in Ring
      <4>1. r.primary \in Key \cup {None} /\ r.keys \ {k} \in SUBSET Key
        BY <2>0, RingTypes
      <4>2. (IF k = r.primary THEN None ELSE r.primary) \in Key \cup {None}
        BY <4>1
      <4> QED
        BY <4>1, <4>2, RingTypes
    <3>2. \/ UNCHANGED <<ring, handle, own, reload>>
          \/ Mutate(n, s)
      BY <2>3 DEF RetireApply
    <3>3. /\ ring' \in [Node -> Ring]
          /\ own' \in [Node -> Ring]
          /\ handle' \in [Node -> {"wrapper", "none", "own"}]
          /\ reload' \subseteq Node
      BY <3>1, <3>2, MutateTypes DEF TypeOK
    <3>4. retiring' \in [Node -> Key \cup {None}]
      BY <2>3 DEF TypeOK, RetireApply
    <3> QED
      BY <2>3, <3>3, <3>4 DEF TypeOK, RetireApply, rows
  <2> QED
    BY <1>4, <2>1, <2>2, <2>3 DEF Admin
<1>5. ASSUME NEW n \in Node, Signal(n) PROVE TypeOK'
  <2>1. /\ reload' \subseteq Node /\ handle' \in [Node -> {"wrapper", "none", "own"}]
        /\ own' \in [Node -> Ring]
    BY <1>5, RingTypes DEF TypeOK, Signal, ReloadSignal, LoseSignal
  <2>2. UNCHANGED <<env, boot, ring, retiring, rows>>
    BY <1>5 DEF Signal, ReloadSignal, LoseSignal
  <2> QED
    BY <2>1, <2>2 DEF TypeOK, rows
<1>6. ASSUME NEW n \in Node, Restart(n) PROVE TypeOK'
  <2>1. NoPut \in Put /\ NoSweep \in Sweep /\ Empty \in Ring
    BY RingTypes, RequestTypes
  <2>2. ring' \in [Node -> Ring] /\ own' \in [Node -> Ring]
    BY <1>6, <2>1 DEF TypeOK, Restart
  <2>3. put' \in [Writer -> Put] /\ sweep' \in [Node -> Sweep]
    BY <1>6, <2>1 DEF TypeOK, Restart
  <2>4. /\ boot' \in [Node -> Ring] /\ handle' \in [Node -> {"wrapper", "none", "own"}]
        /\ reload' \subseteq Node /\ retiring' \in [Node -> Key \cup {None}]
    BY <1>6 DEF TypeOK, Restart
  <2>5. UNCHANGED <<env, row, issued, latest>>
    BY <1>6 DEF Restart
  <2> QED
    BY <2>2, <2>3, <2>4, <2>5 DEF TypeOK
<1>7. CASE UNCHANGED vars
  BY <1>7 DEF TypeOK, vars
<1> QED
  BY <1>1, <1>2, <1>3, <1>4, <1>5, <1>6, <1>7 DEF Next

\* Every state of the vault is well formed.
THEOREM TypeCorrect == RotationSpec => []TypeOK
BY InitTypes, TypesKept, PTL DEF RotationSpec

-----------------------------------------------------------------------------
(* No old token comes back.  A sweep writes what it selected, so the argument *)
(* is about identities: a row a sweep holds has the content the sweep holds,  *)
(* and a token still on its way to an insert is the id of nothing yet.        *)

Holds(n) == sweep[n].pc # "idle"
InFlight(w) == put[w].pc = "encrypted"

TokenIsLatest == row.token = latest
RowIdIssued == row.id <= issued /\ (Stored => row.id > 0)
SweepHoldsContent ==
    \A n \in Node : Holds(n) =>
        /\ sweep[n].of.id > 0
        /\ sweep[n].of.id <= issued
        /\ sweep[n].of.id = row.id => sweep[n].of.token = row.token
TokensAreFresh ==
    \A w \in Writer : InFlight(w) =>
        /\ put[w].token > 0
        /\ put[w].token <= issued
        /\ put[w].token # row.id
        /\ \A n \in Node : Holds(n) => sweep[n].of.id # put[w].token
        /\ \A v \in Writer : InFlight(v) /\ v # w => put[v].token # put[w].token

TokenInv == TokenIsLatest /\ RowIdIssued /\ SweepHoldsContent /\ TokensAreFresh

\* What TypeOK says of the numbers involved.
LEMMA Numbers ==
    ASSUME TypeOK
    PROVE /\ issued \in Nat /\ latest \in Nat /\ row.id \in Nat /\ row.token \in Nat
          /\ \A w \in Writer : put[w].token \in Nat
          /\ \A n \in Node : sweep[n].of.id \in Nat /\ sweep[n].of.token \in Nat
<1>1. \A v \in Version : v \in Nat
  BY VaultAssumption DEF Version
<1>2. issued \in Nat /\ latest \in Nat
  BY <1>1 DEF TypeOK
<1>3. row.id \in Nat /\ row.token \in Nat
  BY <1>1, RowTypes DEF TypeOK
<1>4. ASSUME NEW w \in Writer PROVE put[w].token \in Nat
  BY <1>1, RequestTypes DEF TypeOK
<1>5. ASSUME NEW n \in Node PROVE sweep[n].of.id \in Nat /\ sweep[n].of.token \in Nat
  <2>1. sweep[n].of \in Row
    BY RequestTypes DEF TypeOK
  <2> QED
    BY <1>1, <2>1, RowTypes
<1> QED
  BY <1>2, <1>3, <1>4, <1>5

\* It holds before anything is stored.
LEMMA InitTokenInv == Init => TokenInv
<1> SUFFICES ASSUME Init PROVE TokenInv
  OBVIOUS
<1>1. row.id = 0 /\ row.token = 0 /\ latest = 0 /\ issued = 0 /\ ~Stored
  BY DEF Init, NoRow, Stored
<1>2. \A n \in Node : ~Holds(n)
  BY DEF Init, Holds, NoSweep
<1>3. \A w \in Writer : ~InFlight(w)
  BY DEF Init, InFlight, NoPut
<1> QED
  BY <1>1, <1>2, <1>3
     DEF TokenInv, TokenIsLatest, RowIdIssued, SweepHoldsContent, TokensAreFresh

\* Every step keeps it, when no put() overwrites a row that a sweep holds.
LEMMA TokenInvKept ==
    ASSUME "overlap" \notin Allowed, TypeOK, TokenInv, [Next]_vars
    PROVE TokenInv'
<1> USE Numbers DEF TokenInv, TokenIsLatest, RowIdIssued, SweepHoldsContent, TokensAreFresh,
                    Holds, InFlight, Stored
<1>1. ASSUME NEW w \in Writer, PutWrite(w) PROVE TokenInv'
  <2>1. ~Swept
    BY <1>1 DEF PutWrite
  <2>2. row'.token = put[w].token /\ latest' = put[w].token /\ row'.id \in {row.id, put[w].token}
    BY <1>1 DEF PutWrite
  <2> QED
    BY <1>1, <2>1, <2>2 DEF PutWrite, Swept, NoPut, NoRow, TypeOK
<1>2. ASSUME NEW w \in Writer, NEW n \in Node, PutEncrypt(w, n) PROVE TokenInv'
  BY <1>2 DEF PutEncrypt, TypeOK
<1>3. CASE Revoke
  BY <1>3 DEF Revoke, NoRow, TypeOK
<1>4. ASSUME NEW n \in Node, SweepSelect(n) PROVE TokenInv'
  BY <1>4 DEF SweepSelect, TypeOK
<1>5. ASSUME NEW n \in Node, SweepWrap(n) PROVE TokenInv'
  BY <1>5 DEF SweepWrap, NoSweep, TypeOK
<1>6. ASSUME NEW n \in Node, SweepWrite(n) PROVE TokenInv'
  BY <1>6 DEF SweepWrite, NoSweep, NoRow, TypeOK
<1>7. ASSUME NEW n \in Node, Restart(n) PROVE TokenInv'
  BY <1>7 DEF Restart, NoPut, NoSweep, TypeOK
<1>8. CASE UNCHANGED rows
  BY <1>8 DEF rows
<1>9. ASSUME NEW k \in Key, Operator(k) PROVE UNCHANGED rows
  BY <1>9 DEF Operator, Announce, Promote, Prepend, Drop
<1>10. ASSUME NEW n \in Node, Admin(n) \/ Signal(n) PROVE UNCHANGED rows
  BY <1>10 DEF Admin, Rotate, RetireCount, RetireApply, Signal, ReloadSignal, LoseSignal
<1>11. CASE UNCHANGED vars
  BY <1>8, <1>11 DEF vars, rows
<1> QED
  BY <1>1, <1>2, <1>3, <1>4, <1>5, <1>6, <1>7, <1>8, <1>9, <1>10, <1>11
     DEF Next, Credential, Sweeping

\* No rotation, sweep, retirement or restart, of any number of replicas, changes the
\* token a row holds, provided no credential is overwritten under a sweep's feet.
THEOREM RotationKeepsTokens ==
    ASSUME "overlap" \notin Allowed
    PROVE RotationSpec => []TokensSurviveRotation
<1>1. Init => TokenInv
  BY InitTokenInv
<1>2. TypeOK /\ TokenInv /\ [Next]_vars => TokenInv'
  BY TokenInvKept
<1>3. TokenInv => TokensSurviveRotation
  BY DEF TokenInv, TokenIsLatest, TokensSurviveRotation
<1> QED
  BY <1>1, <1>2, <1>3, TypeCorrect, PTL DEF RotationSpec

-----------------------------------------------------------------------------
(* Rotation without downtime.  A key is safe when the environment and every    *)
(* replica have it; everything that is, or is about to be, written under a key *)
(* is under a safe one, and so is whatever a replica will write next.          *)

Safe(k) == k \in env.keys /\ \A n \in Node : k \in ring[n].keys

KeyInv ==
    /\ \A n \in Node : retiring[n] = None
    /\ Safe(env.primary)
    /\ \A n \in Node : Safe(ring[n].primary)
    /\ Stored => Safe(row.key)
    /\ \A w \in Writer : InFlight(w) => Safe(put[w].key)
    /\ \A n \in Node : sweep[n].pc = "wrapped" => Safe(sweep[n].key)

\* Steps that leave the keyrings alone leave safe keys safe.
LEMMA SafeKept ==
    ASSUME UNCHANGED keyrings
    PROVE \A k : Safe(k) => Safe(k)'
BY DEF keyrings, Safe

\* The first key is everywhere.
LEMMA InitKeyInv == Init => KeyInv
<1> SUFFICES ASSUME Init PROVE KeyInv
  OBVIOUS
<1>1. Safe(FirstKey)
  BY DEF Init, Safe, FirstRing
<1> QED
  BY <1>1 DEF Init, KeyInv, FirstRing, NoRow, NoPut, NoSweep, InFlight, Stored

\* Every step keeps it, when keys enter and leave by way of the environment, in two steps.
LEMMA KeyInvKept ==
    ASSUME "admin" \notin Allowed, "prepend" \notin Allowed, TypeOK, KeyInv, [Next]_vars
    PROVE KeyInv'
<1> USE DEF InFlight, Stored
<1>1. ASSUME NEW k \in Key, Operator(k) PROVE KeyInv'
  <2>1. CASE Announce(k)
    <3>1. \A j : Safe(j) => Safe(j)'
      BY <2>1 DEF Announce, Safe, TypeOK, Ring
    <3>2. env'.primary = env.primary
      BY <2>1 DEF Announce, TypeOK, Ring
    <3> QED
      BY <2>1, <3>1, <3>2 DEF Announce, KeyInv, rows
  <2>2. CASE Promote(k)
    <3>1. \A j : Safe(j) => Safe(j)'
      BY <2>2 DEF Promote, Safe, TypeOK, Ring
    <3>2. env'.primary = k /\ Safe(k)
      BY <2>2 DEF Promote, Safe, TypeOK, Ring
    <3> QED
      BY <2>2, <3>1, <3>2 DEF Promote, KeyInv, rows
  <2>3. CASE Drop(k)
    <3>1. \A j : Safe(j) /\ j # k => Safe(j)'
      BY <2>3 DEF Drop, Safe, TypeOK, Ring
    <3>2. env'.primary = env.primary /\ env.primary # k
      BY <2>3 DEF Drop, TypeOK, Ring
    <3> QED
      BY <2>3, <3>1, <3>2 DEF Drop, KeyInv, rows
  <2> QED
    BY <1>1, <2>1, <2>2, <2>3 DEF Operator, Prepend
<1>2. CASE Credential
  <2>0. UNCHANGED keyrings
    BY <1>2 DEF Credential, PutWrite, PutEncrypt, Revoke
  <2>1. ASSUME NEW w \in Writer, PutWrite(w) PROVE KeyInv'
    <3>1. row'.key = put[w].key /\ Safe(put[w].key)
      BY <2>1 DEF PutWrite, KeyInv
    <3> QED
      BY <2>0, <2>1, <3>1, SafeKept DEF PutWrite, KeyInv, keyrings, NoPut, TypeOK
  <2>2. ASSUME NEW w \in Writer, NEW n \in Node, PutEncrypt(w, n) PROVE KeyInv'
    BY <2>0, <2>2, SafeKept DEF PutEncrypt, KeyInv, keyrings, TypeOK
  <2>3. CASE Revoke
    BY <2>0, <2>3, SafeKept DEF Revoke, KeyInv, keyrings
  <2> QED
    BY <1>2, <2>1, <2>2, <2>3 DEF Credential
<1>3. ASSUME NEW n \in Node, Sweeping(n) PROVE KeyInv'
  <2>0. UNCHANGED keyrings
    BY <1>3 DEF Sweeping, SweepSelect, SweepWrap, SweepWrite
  <2>1. CASE SweepSelect(n)
    BY <2>0, <2>1, SafeKept DEF SweepSelect, KeyInv, keyrings, TypeOK
  <2>2. CASE SweepWrap(n)
    BY <2>0, <2>2, SafeKept DEF SweepWrap, KeyInv, keyrings, NoSweep, TypeOK
  <2>3. CASE SweepWrite(n)
    <3>1. Stored' => Safe(row'.key)
      BY <2>3, RowTypes DEF SweepWrite, KeyInv, TypeOK, Row
    <3> QED
      BY <2>0, <2>3, <3>1, SafeKept DEF SweepWrite, KeyInv, keyrings, NoSweep, TypeOK
  <2> QED
    BY <1>3, <2>1, <2>2, <2>3 DEF Sweeping
<1>4. ASSUME NEW n \in Node, Admin(n) PROVE KeyInv'
  <2>1. retiring[n] = None
    BY DEF KeyInv
  <2> QED
    BY <1>4, <2>1 DEF Admin, Rotate, RetireCount, RetireApply
<1>5. ASSUME NEW n \in Node, Signal(n) PROVE KeyInv'
  BY <1>5 DEF Signal, ReloadSignal, LoseSignal, KeyInv, Safe, rows
<1>6. ASSUME NEW n \in Node, Restart(n) PROVE KeyInv'
  <2>1. \A j : Safe(j) => Safe(j)'
    BY <1>6 DEF Restart, Safe, TypeOK
  <2>2. \A m \in Node : ring'[m].primary \in {ring[m].primary, env.primary}
    BY <1>6 DEF Restart, TypeOK
  <2> QED
    BY <1>6, <2>1, <2>2 DEF Restart, KeyInv, NoPut, NoSweep, TypeOK
<1>7. CASE UNCHANGED vars
  BY <1>7 DEF vars, KeyInv, Safe
<1> QED
  BY <1>1, <1>2, <1>3, <1>4, <1>5, <1>6, <1>7 DEF Next

\* If keys are rotated through the environment in two rolling restarts, every replica
\* can decrypt every row in every state, sweeps and writes racing or not.
THEOREM RollWithoutDowntime ==
    ASSUME "admin" \notin Allowed, "prepend" \notin Allowed
    PROVE RotationSpec => []EveryReplicaReads
<1>1. Init => KeyInv
  BY InitKeyInv
<1>2. TypeOK /\ KeyInv /\ [Next]_vars => KeyInv'
  BY KeyInvKept
<1>3. KeyInv => EveryReplicaReads
  BY DEF KeyInv, Safe, EveryReplicaReads
<1> QED
  BY <1>1, <1>2, <1>3, TypeCorrect, PTL DEF RotationSpec

-----------------------------------------------------------------------------
(* Rotation is invisible: under the refinement mapping every step is one of    *)
(* CredentialStore or changes nothing that it knows of.                        *)

Seen == [n \in Node |-> Reading(n)]

\* Every replica reads the token of the row, before a step and after it.
LEMMA SeenIsToken ==
    /\ KeyInv => Seen = [n \in Node |-> row.token]
    /\ KeyInv' => Seen' = [n \in Node |-> row'.token]
<1>1. ASSUME KeyInv PROVE Seen = [n \in Node |-> row.token]
  <2>1. ~Stored => row.token = 0
    BY DEF Stored, NoRow
  <2>2. \A n \in Node : Stored => row.key \in ring[n].keys
    BY <1>1 DEF KeyInv, Safe
  <2> QED
    BY <2>1, <2>2 DEF Seen, Reading
<1>2. ASSUME KeyInv' PROVE Seen' = [n \in Node |-> row'.token]
  <2>1. ~Stored' => row'.token = 0
    BY DEF Stored, NoRow
  <2>2. \A n \in Node : Stored' => row'.key \in ring'[n].keys
    BY <1>2 DEF KeyInv, Safe
  <2> QED
    BY <2>1, <2>2 DEF Seen, Reading
<1> QED
  BY <1>1, <1>2

\* Any step of the vault is a step of the store, or the store sees nothing of it.
LEMMA StoreStep ==
    ASSUME "overlap" \notin Allowed, TypeOK, TokenInv, KeyInv, KeyInv', [Next]_vars
    PROVE [Credentials!Issue \/ Credentials!Store \/ Credentials!Lose \/ Credentials!Forget]_
              (Credentials!storeVars)
<1> DEFINE Goal == [Credentials!Issue \/ Credentials!Store \/ Credentials!Lose
                      \/ Credentials!Forget]_(Credentials!storeVars)
<1>a. Seen = [n \in Node |-> row.token] /\ Seen' = [n \in Node |-> row'.token]
  BY SeenIsToken
<1> USE Numbers DEF InFlight
<1>0. ASSUME UNCHANGED <<put, issued>>, row'.token = row.token PROVE Goal
  <2>1. UNCHANGED <<issued, Pending, Seen>>
    BY <1>0, <1>a DEF Pending
  <2> QED
    BY <2>1 DEF Credentials!storeVars, Seen
<1>1. ASSUME NEW w \in Writer, PutWrite(w) PROVE Goal
  <2>1. put[w].token \in Pending /\ row'.token = put[w].token /\ UNCHANGED issued
    BY <1>1 DEF PutWrite, Pending
  <2>2. put' = [put EXCEPT ![w] = NoPut]
    BY <1>1 DEF PutWrite
  <2>3. \A v \in Writer : InFlight(v)' <=> InFlight(v) /\ v # w
    BY <2>2 DEF NoPut, TypeOK
  <2>4. \A v \in Writer : v # w => put'[v] = put[v]
    BY <2>2 DEF TypeOK
  <2>5. \A v \in Writer : InFlight(v) /\ v # w => put[v].token # put[w].token
    BY <1>1 DEF TokenInv, TokensAreFresh, PutWrite
  <2>6. Pending' = Pending \ {put[w].token}
    BY <2>3, <2>4, <2>5 DEF Pending
  <2>7. Credentials!Store
    BY <1>a, <2>1, <2>6 DEF Credentials!Store, Credentials!All, Seen
  <2> QED
    BY <2>7
<1>2. ASSUME NEW w \in Writer, NEW n \in Node, PutEncrypt(w, n) PROVE Goal
  <2>1. issued < MaxPut /\ issued' = issued + 1 /\ UNCHANGED row
    BY <1>2 DEF PutEncrypt
  <2>2. ~InFlight(w) /\ InFlight(w)' /\ put'[w].token = issued + 1
    BY <1>2 DEF PutEncrypt, TypeOK
  <2>3. \A v \in Writer : v # w => put'[v] = put[v]
    BY <1>2 DEF PutEncrypt, TypeOK
  <2>4. Pending' = Pending \cup {issued + 1}
    BY <2>2, <2>3 DEF Pending
  <2>5. Credentials!Issue
    BY <1>a, <2>1, <2>4 DEF Credentials!Issue, Seen
  <2> QED
    BY <2>5
<1>3. CASE Revoke
  <2>1. row'.token = 0 /\ UNCHANGED <<put, issued>>
    BY <1>3 DEF Revoke, NoRow
  <2>2. Credentials!Forget
    BY <1>a, <2>1 DEF Credentials!Forget, Credentials!All, Seen, Pending
  <2> QED
    BY <2>2
<1>4. ASSUME NEW n \in Node, Sweeping(n) PROVE Goal
  <2>1. UNCHANGED <<put, issued>>
    BY <1>4 DEF Sweeping, SweepSelect, SweepWrap, SweepWrite
  <2>2. row'.token = row.token
    <3>1. CASE SweepSelect(n) \/ SweepWrap(n)
      BY <3>1 DEF SweepSelect, SweepWrap
    <3>2. CASE SweepWrite(n)
      BY <3>2, RowTypes DEF SweepWrite, TypeOK, Row, TokenInv, SweepHoldsContent, Holds
    <3> QED
      BY <1>4, <3>1, <3>2 DEF Sweeping
  <2> QED
    BY <1>0, <2>1, <2>2
<1>5. ASSUME NEW n \in Node, Restart(n) PROVE Goal
  <2>1. UNCHANGED <<row, issued>>
    BY <1>5 DEF Restart
  <2>2. \A v \in Writer : put'[v] \in {NoPut, put[v]}
    BY <1>5 DEF Restart
  <2>3. Pending' \in SUBSET Pending
    BY <2>2 DEF Pending, NoPut
  <2>4. Credentials!Lose
    BY <1>a, <2>1, <2>3 DEF Credentials!Lose, Seen
  <2> QED
    BY <2>4
<1>6. CASE UNCHANGED rows
  BY <1>0, <1>6 DEF rows
<1>7. ASSUME NEW k \in Key, Operator(k) PROVE UNCHANGED rows
  BY <1>7 DEF Operator, Announce, Promote, Prepend, Drop
<1>8. ASSUME NEW n \in Node, Admin(n) \/ Signal(n) PROVE UNCHANGED rows
  BY <1>8 DEF Admin, Rotate, RetireCount, RetireApply, Signal, ReloadSignal, LoseSignal
<1>9. CASE UNCHANGED vars
  BY <1>6, <1>9 DEF vars, rows
<1> QED
  BY <1>1, <1>2, <1>3, <1>4, <1>5, <1>6, <1>7, <1>8, <1>9 DEF Next, Credential

\* The vault implements CredentialStore: rolled in two steps, with no row overwritten under
\* a sweep, the rotation of keys is invisible to whoever reads and writes credentials.
THEOREM VaultImplementsStore ==
    ASSUME "admin" \notin Allowed, "prepend" \notin Allowed, "overlap" \notin Allowed
    PROVE RotationSpec => RotationIsInvisible
<1>1. Init => TokenInv /\ KeyInv
  BY InitTokenInv, InitKeyInv
<1>2. TypeOK /\ TokenInv /\ [Next]_vars => TokenInv'
  BY TokenInvKept
<1>3. TypeOK /\ KeyInv /\ [Next]_vars => KeyInv'
  BY KeyInvKept
<1>4. Init => Credentials!StoreInit
  <2> SUFFICES ASSUME Init PROVE Credentials!StoreInit
    OBVIOUS
  <2>1. ~Stored /\ issued = 0 /\ Pending = {}
    BY DEF Init, Stored, NoPut, Pending
  <2> QED
    BY <2>1 DEF Credentials!StoreInit, Credentials!All, Reading
<1>5. TypeOK /\ TokenInv /\ KeyInv /\ KeyInv' /\ [Next]_vars
        => [Credentials!Issue \/ Credentials!Store \/ Credentials!Lose \/ Credentials!Forget]_
               (Credentials!storeVars)
  BY StoreStep
<1> QED
  BY <1>1, <1>2, <1>3, <1>4, <1>5, TypeCorrect, PTL
     DEF RotationSpec, RotationIsInvisible, Credentials!StoreSpec

-----------------------------------------------------------------------------
(* TransitKeys: the same credential over Vault Transit.  No row, no put() and no sweep is     *)
(* left with a version that the operator, who looks at the key_ids of the rows, gives up.     *)

\* What a version, once encrypted under, must stay.
Readable(r) == r.stamp = r.version /\ r.version \in tOldest..tNewest

\* What put() holds can be read, and is of a token of its own.
PutsInv ==
    \A w \in Writer : tPut[w] # Transit!NoRow =>
        /\ Readable(tPut[w])
        /\ tPut[w].id = tPut[w].token
        /\ tPut[w].id \in 1..tIssued
        /\ tPut[w].id # tRow.id /\ tPut[w].id # tSweep.of.id
        /\ \A v \in Writer \ {w} : tPut[w].id # tPut[v].id

RowInv ==
    /\ tRow.id \in 0..tIssued
    /\ tRow # Transit!NoRow => Readable(tRow) /\ tRow.token = tStored /\ tRow.id # 0

\* What a sweep holds: the row as it was, and still is if it is there; what it would write is
\* under a later version.
SweepInv ==
    /\ tSweep.pc \in {"idle", "select"} => tSweep.of = Transit!NoRow
    /\ tSweep.pc \notin {"idle", "select"} =>
         /\ tSweep.of.id \in 1..tIssued
         /\ tSweep.of.stamp = tSweep.of.version /\ tSweep.of.stamp =< tNewest
         /\ tRow.id = tSweep.of.id => tRow = tSweep.of
    /\ tSweep.pc = "write" =>
         /\ tSweep.next.id = tSweep.of.id /\ tSweep.next.token = tSweep.of.token
         /\ tSweep.next.stamp = tSweep.next.version
         /\ tSweep.of.stamp < tSweep.next.stamp /\ tSweep.next.stamp =< tNewest

TransitInv == Transit!TypeOK /\ tReports = TRUE /\ PutsInv /\ RowInv /\ SweepInv

\* The rows of the two ways the wrapper is used, and what a row consists of.
LEMMA TransitRows ==
    ASSUME Transit!TypeOK
    PROVE  /\ Transit!NoRow \in Transit!Row /\ Transit!NoRow.id = 0
           /\ \A i, t \in 0..MaxPut + 1 :
                /\ Transit!Wrapped(i, t) \in Transit!Row
                /\ Transit!Wrapped(i, t).id = i /\ Transit!Wrapped(i, t).token = t
                /\ Transit!Wrapped(i, t).version = tNewest
                /\ tReports => Transit!Wrapped(i, t).stamp = tNewest
           /\ \A r \in Transit!Row, i \in 0..MaxPut + 1 :
                /\ [r EXCEPT !.id = i] \in Transit!Row
                /\ [r EXCEPT !.id = i].id = i /\ [r EXCEPT !.id = i].stamp = r.stamp
                /\ [r EXCEPT !.id = i].version = r.version /\ [r EXCEPT !.id = i].token = r.token
           /\ \A r \in Transit!Row : /\ r.id \in 0..MaxPut + 1 /\ r.token \in 0..MaxPut + 1
                                     /\ r.stamp \in Nat /\ r.version \in Nat
<1> USE DEF Transit!Row
<1>1. MaxPut \in Nat /\ MaxRotation \in Nat /\ tNewest \in 0..MaxRotation
  BY VaultAssumption, KeysAssumption DEF Transit!TransitAssumption, Transit!TypeOK,
    Transit!KeyVersion
<1>2. Transit!NoRow \in Transit!Row /\ Transit!NoRow.id = 0
  BY <1>1 DEF Transit!NoRow
<1>3. ASSUME NEW i \in 0..MaxPut + 1, NEW t \in 0..MaxPut + 1
      PROVE  /\ Transit!Wrapped(i, t) \in Transit!Row
             /\ Transit!Wrapped(i, t).id = i /\ Transit!Wrapped(i, t).token = t
             /\ Transit!Wrapped(i, t).version = tNewest
             /\ tReports => Transit!Wrapped(i, t).stamp = tNewest
  BY <1>1 DEF Transit!Wrapped
<1>4. ASSUME NEW r \in Transit!Row, NEW i \in 0..MaxPut + 1
      PROVE  /\ [r EXCEPT !.id = i] \in Transit!Row
             /\ [r EXCEPT !.id = i].id = i /\ [r EXCEPT !.id = i].stamp = r.stamp
             /\ [r EXCEPT !.id = i].version = r.version /\ [r EXCEPT !.id = i].token = r.token
  OBVIOUS
<1>5. ASSUME NEW r \in Transit!Row
      PROVE  /\ r.id \in 0..MaxPut + 1 /\ r.token \in 0..MaxPut + 1
             /\ r.stamp \in Nat /\ r.version \in Nat
  BY <1>1
<1> QED
  BY <1>2, <1>3, <1>4, <1>5

\* What sweeping does to what a sweep holds, with its parts.
LEMMA TransitSweeps ==
    ASSUME Transit!TypeOK
    PROVE  /\ Transit!NoSweep \in Transit!SweepState /\ Transit!NoSweep.pc = "idle"
           /\ Transit!NoSweep.of = Transit!NoRow
           /\ [Transit!NoSweep EXCEPT !.pc = "select", !.primary = tNewest] \in Transit!SweepState
           /\ [Transit!NoSweep EXCEPT !.pc = "select", !.primary = tNewest].pc = "select"
           /\ [Transit!NoSweep EXCEPT !.pc = "select", !.primary = tNewest].of = Transit!NoRow
           /\ [tSweep EXCEPT !.pc = "selected", !.of = tRow] \in Transit!SweepState
           /\ [tSweep EXCEPT !.pc = "selected", !.of = tRow].pc = "selected"
           /\ [tSweep EXCEPT !.pc = "selected", !.of = tRow].of = tRow
           /\ \A pc \in {"unwrap", "wrap"} :
                /\ [tSweep EXCEPT !.pc = pc] \in Transit!SweepState
                /\ [tSweep EXCEPT !.pc = pc].pc = pc /\ [tSweep EXCEPT !.pc = pc].of = tSweep.of
           /\ \A r \in Transit!Row :
                /\ [tSweep EXCEPT !.pc = "write", !.next = r] \in Transit!SweepState
                /\ [tSweep EXCEPT !.pc = "write", !.next = r].pc = "write"
                /\ [tSweep EXCEPT !.pc = "write", !.next = r].of = tSweep.of
                /\ [tSweep EXCEPT !.pc = "write", !.next = r].next = r
           /\ tSweep.of \in Transit!Row /\ tSweep.next \in Transit!Row
<1> USE DEF Transit!SweepState
<1>1. /\ tSweep \in Transit!SweepState /\ tRow \in Transit!Row
      /\ tNewest \in 0..MaxRotation /\ 0 \in 0..MaxRotation
  BY KeysAssumption DEF Transit!TypeOK, Transit!TransitAssumption, Transit!KeyVersion
<1>2. Transit!NoRow \in Transit!Row
  BY TransitRows
<1>3. /\ Transit!NoSweep \in Transit!SweepState /\ Transit!NoSweep.pc = "idle"
      /\ Transit!NoSweep.of = Transit!NoRow
  BY <1>1, <1>2 DEF Transit!NoSweep
<1> QED
  BY <1>1, <1>3

\* It holds before the first token.
LEMMA TransitInit ==
    ASSUME Reports = {TRUE}
    PROVE  Transit!Init => TransitInv
<1> SUFFICES ASSUME Transit!Init
             PROVE  TransitInv
  OBVIOUS
<1>1. /\ MaxPut \in Nat /\ MaxRotation \in Nat \ {0} /\ MaxFailure \in Nat
      /\ tReports = TRUE
  BY VaultAssumption, KeysAssumption DEF Transit!Init, Transit!TransitAssumption
<1>2. Transit!NoRow \in Transit!Row /\ Transit!NoRow.id = 0
  BY <1>1 DEF Transit!Row, Transit!NoRow
<1>3. Transit!NoSweep \in Transit!SweepState
  BY <1>1, <1>2 DEF Transit!NoSweep, Transit!SweepState
<1>4. Transit!TypeOK
  BY <1>1, <1>2, <1>3 DEF Transit!Init, Transit!TypeOK, Transit!KeyVersion
<1> QED
  BY <1>1, <1>2, <1>4 DEF Transit!Init, TransitInv, PutsInv, RowInv, SweepInv, Transit!NoSweep

\* No step of the operator, of put() or of rewrapStale() breaks it.
LEMMA TransitStep ==
    ASSUME Overlap = FALSE, TransitInv, [Transit!Next]_(Transit!vars)
    PROVE  TransitInv'
<1> USE DEF TransitInv, Readable, Transit!Stored, Transit!key
<1>0. /\ MaxPut \in Nat /\ MaxRotation \in Nat \ {0} /\ MaxFailure \in Nat
      /\ tNewest \in 1..MaxRotation /\ tOldest \in 1..tNewest /\ tIssued \in 0..MaxPut + 1
      /\ tRow \in Transit!Row /\ tPut \in [Writer -> Transit!Row] /\ tSweep \in Transit!SweepState
      /\ tStored \in 0..MaxPut + 1 /\ tFailures \in 0..MaxFailure
      /\ tReports = TRUE /\ PutsInv /\ RowInv /\ SweepInv
  BY VaultAssumption, KeysAssumption DEF Transit!TransitAssumption, Transit!TypeOK,
    Transit!KeyVersion
<1>r. /\ Transit!NoRow \in Transit!Row /\ Transit!NoRow.id = 0
      /\ \A r \in Transit!Row : /\ r.id \in 0..MaxPut + 1 /\ r.token \in 0..MaxPut + 1
                                /\ r.stamp \in Nat /\ r.version \in Nat
      /\ tSweep.of \in Transit!Row /\ tSweep.next \in Transit!Row
  BY TransitRows, TransitSweeps
<1>t. ASSUME tNewest' \in 1..MaxRotation, tOldest' \in 1..tNewest', tIssued' \in 0..MaxPut + 1,
             tRow' \in Transit!Row, tPut' \in [Writer -> Transit!Row],
             tSweep' \in Transit!SweepState, tStored' \in 0..MaxPut + 1,
             tFailures' \in 0..MaxFailure, tReports' = TRUE
      PROVE  Transit!TypeOK' /\ tReports' = TRUE
  BY <1>t DEF Transit!TypeOK, Transit!KeyVersion
\* The operator.
<1>1. CASE UNCHANGED Transit!vars
  BY <1>1, <1>0, <1>t DEF Transit!vars, PutsInv, RowInv, SweepInv
<1>2. CASE Transit!Rotate
  <2>1. Transit!TypeOK' /\ tReports' = TRUE
    BY <1>2, <1>0, <1>t DEF Transit!Rotate
  <2> QED
    BY <1>2, <1>0, <1>r, <2>1 DEF Transit!Rotate, PutsInv, RowInv, SweepInv
<1>3. ASSUME NEW v \in Transit!KeyVersion, Transit!GiveUp(v)
      PROVE  TransitInv'
  <2>1. Transit!TypeOK' /\ tReports' = TRUE
    BY <1>3, <1>0, <1>t DEF Transit!GiveUp
  <2>2. v \in tOldest + 1 .. tNewest /\ tOldest' = v
    BY <1>3 DEF Transit!GiveUp
  <2>3. PutsInv'
    BY <1>3, <1>0, <2>2 DEF Transit!GiveUp, PutsInv
  <2>4. RowInv'
    BY <1>3, <1>0, <1>r, <2>2 DEF Transit!GiveUp, RowInv
  <2>5. SweepInv'
    BY <1>3, <1>0 DEF Transit!GiveUp, SweepInv
  <2> QED
    BY <2>1, <2>3, <2>4, <2>5
\* put() and revoke().
<1>4. ASSUME NEW w \in Writer, Transit!PutEncrypt(w)
      PROVE  TransitInv'
  <2>1. PICK r : /\ r = Transit!Wrapped(tIssued + 1, tIssued + 1)
                 /\ tPut' = [tPut EXCEPT ![w] = r]
    BY <1>4 DEF Transit!PutEncrypt
  <2>2. /\ r \in Transit!Row /\ r.id = tIssued + 1 /\ r.token = tIssued + 1
        /\ r.version = tNewest /\ r.stamp = tNewest
    <3>1. tIssued + 1 \in 0..MaxPut + 1
      BY <1>4, <1>0 DEF Transit!PutEncrypt
    <3> QED
      BY <1>0, <2>1, <3>1, TransitRows
  <2>3. Transit!TypeOK' /\ tReports' = TRUE
    BY <1>4, <1>0, <1>t, <2>1, <2>2 DEF Transit!PutEncrypt
  <2>4. tPut'[w] = r /\ \A u \in Writer : u # w => tPut'[u] = tPut[u]
    BY <1>0, <2>1
  <2>5. tSweep.of.id \in 0..tIssued /\ tRow.id \in 0..tIssued
    BY <1>0, <1>r DEF SweepInv, RowInv, Transit!SweepState
  <2>6. \A u \in Writer : tPut[u] = Transit!NoRow \/ tPut[u].id \in 1..tIssued
    BY <1>0 DEF PutsInv
  <2>7. PutsInv'
    BY <1>4, <1>0, <1>r, <2>2, <2>4, <2>5, <2>6 DEF Transit!PutEncrypt, PutsInv
  <2> QED
    BY <1>4, <1>0, <2>3, <2>7 DEF Transit!PutEncrypt, RowInv, SweepInv
<1>5. ASSUME NEW w \in Writer, Transit!PutWrite(w)
      PROVE  TransitInv'
  <2>1. /\ tPut[w] # Transit!NoRow /\ tPut[w] \in Transit!Row
        /\ ~(tRow # Transit!NoRow /\ tSweep.of.id = tRow.id)
        /\ tPut' = [tPut EXCEPT ![w] = Transit!NoRow] /\ tStored' = tPut[w].token
        /\ UNCHANGED <<tReports, tNewest, tOldest, tSweep, tIssued, tFailures>>
    BY <1>5, <1>0 DEF Transit!PutWrite
  <2>2. PICK i : /\ i = IF tRow # Transit!NoRow THEN tRow.id ELSE tPut[w].id
                 /\ tRow' = [tPut[w] EXCEPT !.id = i]
    BY <1>5 DEF Transit!PutWrite
  <2>3. i \in 1..tIssued
    BY <1>0, <2>1, <2>2 DEF PutsInv, RowInv
  <2>4. /\ tRow' \in Transit!Row /\ tRow'.id = i /\ tRow'.stamp = tPut[w].stamp
        /\ tRow'.version = tPut[w].version /\ tRow'.token = tPut[w].token
    BY <1>0, <2>1, <2>2, <2>3, TransitRows
  <2>5. Transit!TypeOK' /\ tReports' = TRUE
    BY <1>0, <1>r, <1>t, <2>1, <2>4
  <2>6. tPut'[w] = Transit!NoRow /\ \A u \in Writer : u # w => tPut'[u] = tPut[u]
    BY <1>0, <2>1
  <2>7. \A u \in Writer \ {w} : tPut[u] # Transit!NoRow => tPut[u].id # i
    BY <1>0, <2>1, <2>2 DEF PutsInv
  <2>8. PutsInv'
    <3> SUFFICES ASSUME NEW u \in Writer, tPut'[u] # Transit!NoRow
                 PROVE  /\ Readable(tPut[u])
                        /\ tPut[u].id = tPut[u].token
                        /\ tPut[u].id \in 1..tIssued
                        /\ tPut[u].id # tRow'.id /\ tPut[u].id # tSweep.of.id
                        /\ \A v \in Writer \ {u} : tPut[u].id # tPut'[v].id
                        /\ tPut'[u] = tPut[u]
      BY <2>1 DEF PutsInv
    <3> QED
      BY <1>0, <1>r, <2>1, <2>4, <2>6, <2>7 DEF PutsInv
  <2>9. RowInv'
    BY <1>0, <2>1, <2>3, <2>4 DEF PutsInv, RowInv
  <2>10. i # tSweep.of.id
    BY <1>0, <2>1, <2>2 DEF PutsInv
  <2>11. SweepInv'
    BY <1>0, <2>1, <2>4, <2>10 DEF SweepInv
  <2> QED
    BY <2>5, <2>8, <2>9, <2>11
<1>6. ASSUME NEW w \in Writer, Transit!PutFails(w)
      PROVE  TransitInv'
  <2>1. /\ tPut' = [tPut EXCEPT ![w] = Transit!NoRow]
        /\ UNCHANGED <<tReports, tNewest, tOldest, tRow, tSweep, tIssued, tStored, tFailures>>
    BY <1>6 DEF Transit!PutFails
  <2>2. tPut'[w] = Transit!NoRow /\ \A u \in Writer : u # w => tPut'[u] = tPut[u]
    BY <1>0, <2>1
  <2>3. Transit!TypeOK' /\ tReports' = TRUE
    BY <1>0, <1>r, <1>t, <2>1
  <2>4. PutsInv'
    BY <1>0, <1>r, <2>1, <2>2 DEF PutsInv
  <2> QED
    BY <1>0, <2>1, <2>3, <2>4 DEF RowInv, SweepInv
<1>7. CASE Transit!Revoke
  <2>1. /\ tRow' = Transit!NoRow
        /\ UNCHANGED <<tReports, tNewest, tOldest, tPut, tSweep, tIssued, tStored, tFailures>>
    BY <1>7 DEF Transit!Revoke
  <2>2. Transit!TypeOK' /\ tReports' = TRUE
    BY <1>0, <1>r, <1>t, <2>1
  <2>3. PutsInv'
    BY <1>0, <1>r, <2>1 DEF PutsInv
  <2>4. RowInv'
    BY <1>0, <1>r, <2>1 DEF RowInv
  <2>5. SweepInv'
    BY <1>0, <1>r, <2>1 DEF SweepInv
  <2> QED
    BY <2>2, <2>3, <2>4, <2>5
\* rewrapStale().
<1>8. ASSUME NEW s, Transit!SweepTo(s), s \in Transit!SweepState,
             \/ s.pc \in {"idle", "select"} /\ s.of = Transit!NoRow
             \/ /\ s.pc \in {"unwrap", "wrap"} /\ tSweep.pc \notin {"idle", "select"}
                /\ s.of = tSweep.of
             \/ s.pc = "selected" /\ s.of = tRow /\ tRow # Transit!NoRow
             \/ /\ s.pc = "write" /\ tSweep.pc \notin {"idle", "select"} /\ s.of = tSweep.of
                /\ s.next.id = s.of.id /\ s.next.token = s.of.token
                /\ s.next.stamp = s.next.version /\ s.next.stamp = tNewest
                /\ s.of.stamp # tNewest
      PROVE  TransitInv'
  <2>1. /\ tSweep' = s
        /\ UNCHANGED <<tReports, tNewest, tOldest, tRow, tPut, tIssued, tStored, tFailures>>
    BY <1>8 DEF Transit!SweepTo
  <2>2. Transit!TypeOK' /\ tReports' = TRUE
    BY <1>0, <1>t, <1>8, <2>1
  <2>3. PutsInv'
    BY <1>0, <1>r, <1>8, <2>1 DEF PutsInv
  <2>4. RowInv'
    BY <1>0, <2>1 DEF RowInv
  <2>5. SweepInv'
    BY <1>0, <1>r, <1>8, <2>1 DEF SweepInv, RowInv
  <2> QED
    BY <2>2, <2>3, <2>4, <2>5
<1>9. CASE Transit!SweepBegin
  BY <1>9, <1>8, TransitSweeps DEF Transit!SweepBegin
<1>10. CASE Transit!SweepSelect
  BY <1>10, <1>8, TransitSweeps DEF Transit!SweepSelect
<1>11. CASE Transit!SweepPrimary
  BY <1>11, <1>8, TransitSweeps DEF Transit!SweepPrimary
<1>12. CASE Transit!SweepUnwrap
  BY <1>12, <1>8, TransitSweeps DEF Transit!SweepUnwrap
<1>13. CASE Transit!SweepWrap
  <2> DEFINE next == Transit!Wrapped(tSweep.of.id, tSweep.of.token)
  <2>1. /\ next \in Transit!Row /\ next.id = tSweep.of.id /\ next.token = tSweep.of.token
        /\ next.version = tNewest /\ next.stamp = tNewest
    BY <1>0, <1>r, TransitRows
  <2>2. /\ tSweep.pc = "wrap"
        /\ Transit!SweepTo(IF next.stamp = tSweep.of.stamp THEN Transit!NoSweep
                           ELSE [tSweep EXCEPT !.pc = "write", !.next = next])
    BY <1>13 DEF Transit!SweepWrap
  <2> HIDE DEF next
  <2>3. CASE next.stamp = tSweep.of.stamp
    BY <1>8, <2>2, <2>3, TransitSweeps
  <2>4. CASE next.stamp # tSweep.of.stamp
    <3>1. PICK s : s = [tSweep EXCEPT !.pc = "write", !.next = next]
      OBVIOUS
    <3>2. /\ s \in Transit!SweepState /\ s.pc = "write" /\ s.of = tSweep.of /\ s.next = next
          /\ Transit!SweepTo(s)
      BY <2>1, <2>2, <2>4, <3>1, TransitSweeps
    <3> QED
      BY <1>8, <2>1, <2>2, <2>4, <3>2
  <2> QED
    BY <2>3, <2>4
<1>14. CASE Transit!SweepWrite
  <2>1. /\ tSweep.pc = "write" /\ tSweep' = Transit!NoSweep
        /\ tRow' = IF tRow.id = tSweep.of.id THEN tSweep.next ELSE tRow
        /\ UNCHANGED <<tReports, tNewest, tOldest, tPut, tIssued, tStored, tFailures>>
    BY <1>14 DEF Transit!SweepWrite
  <2>2. Transit!TypeOK' /\ tReports' = TRUE
    BY <1>0, <1>r, <1>t, <2>1, TransitSweeps
  <2>3. tSweep'.pc = "idle" /\ tSweep'.of = Transit!NoRow
    BY <2>1, TransitSweeps
  <2>4. SweepInv'
    BY <2>3 DEF SweepInv
  <2>5. tRow'.id = tRow.id
    BY <1>0, <2>1 DEF SweepInv
  <2>6. PutsInv'
    BY <1>0, <1>r, <2>1, <2>3, <2>5 DEF PutsInv
  <2>7. RowInv'
    <3>1. CASE tRow.id = tSweep.of.id
      <4>1. tRow' = tSweep.next /\ tRow = tSweep.of /\ tRow.id # 0 /\ tRow # Transit!NoRow
        BY <1>0, <1>r, <2>1, <3>1 DEF SweepInv
      <4>2. /\ Readable(tRow) /\ tRow.token = tStored
            /\ tRow.stamp < tSweep.next.stamp /\ tSweep.next.stamp =< tNewest
            /\ tSweep.next.stamp = tSweep.next.version /\ tSweep.next.token = tRow.token
        BY <1>0, <2>1, <4>1 DEF SweepInv, RowInv
      <4>3. Readable(tSweep.next)
        BY <1>0, <1>r, <4>2
      <4> QED
        BY <1>0, <2>1, <2>5, <4>1, <4>2, <4>3 DEF RowInv
    <3>2. CASE tRow.id # tSweep.of.id
      BY <1>0, <2>1, <3>2 DEF RowInv
    <3> QED
      BY <3>1, <3>2
  <2> QED
    BY <2>2, <2>4, <2>6, <2>7
<1>15. CASE Transit!SweepFails
  <2>1. /\ tSweep' = Transit!NoSweep /\ tFailures' = tFailures + 1 /\ tFailures < MaxFailure
        /\ UNCHANGED <<tReports, tNewest, tOldest, tRow, tPut, tIssued, tStored>>
    BY <1>15 DEF Transit!SweepFails, Transit!RequestFails
  <2>2. Transit!TypeOK' /\ tReports' = TRUE
    <3>1. tSweep' \in Transit!SweepState
      BY <2>1, TransitSweeps
    <3>2. tFailures' \in 0..MaxFailure
      BY <1>0, <2>1
    <3> QED
      BY <1>0, <1>t, <2>1, <3>1, <3>2
  <2>3. tSweep'.pc = "idle" /\ tSweep'.of = Transit!NoRow
    BY <2>1, TransitSweeps
  <2>4. PutsInv'
    BY <1>0, <1>r, <2>1, <2>3 DEF PutsInv
  <2> QED
    BY <1>0, <2>1, <2>2, <2>3, <2>4 DEF RowInv, SweepInv
<1> QED
  BY <1>1, <1>2, <1>3, <1>4, <1>5, <1>6, <1>7, <1>9, <1>10, <1>11, <1>12, <1>13, <1>14, <1>15
     DEF Transit!Next, Transit!SweepStep

\* The same credential over Vault Transit: for every number of writers, rotations and failing
\* requests, the token last stored is there and its ciphertext is of a version that Vault still
\* decrypts, although the operator looks at nothing but the key_ids of rows that put() and
\* rewrapStale() are about to replace.  Two things are assumed, and the code ensures neither:
\* every answer of encrypt has its key_version, where wrap() would stamp the row with 0 (the
\* "?? 0" of key-wrapper.ts) and the count would miss it; and no put() overwrites a row while
\* a sweep holds it, which would then write the older token over the newer one.
THEOREM TokensReadableAlways ==
    ASSUME Reports = {TRUE}, Overlap = FALSE
    PROVE  WrapperSpec => []TokensReadable
<1>1. MCInit => TransitInv
  BY TransitInit DEF MCInit
<1>2. TransitInv /\ [MCNext]_<<wrapper, vars, transit>> => TransitInv'
  <2> SUFFICES ASSUME TransitInv, [MCNext]_<<wrapper, vars, transit>>
               PROVE  TransitInv'
    OBVIOUS
  <2>1. [Transit!Next]_(Transit!vars)
    BY DEF MCNext, transit, Transit!vars
  <2> QED
    BY <2>1, TransitStep
<1>3. TransitInv => TokensReadable
  <2> SUFFICES ASSUME TransitInv, tRow # Transit!NoRow
               PROVE  Transit!CanUnwrap(tRow) /\ tRow.token = tStored
    BY DEF TokensReadable, Transit!TokensReadable, Transit!Stored
  <2>1. tRow.version \in tOldest..tNewest /\ tRow.token = tStored
    BY DEF TransitInv, RowInv, Readable
  <2> QED
    BY <2>1 DEF Transit!CanUnwrap
<1> QED
  BY <1>1, <1>2, <1>3, PTL DEF WrapperSpec
=============================================================================
