------------------------ MODULE UpstreamTokenProofs ------------------------
(***************************************************************************)
(* UpstreamToken for any number of calls and tokens: the types; that a     *)
(* credential a call was refused for is gone, whatever the provider, the    *)
(* faults and the interleaving; and that with reusable refresh tokens       *)
(* nobody is sent to consent without need.  The other side of the           *)
(* credential, as MCCredentials composes the two: whatever administrators   *)
(* do to the keys, the row has the token that was stored last.              *)
(***************************************************************************)
EXTENDS MCCredentials, TLAPS

\* The credentials that occur, and what a credential consists of.
LEMMA CredentialTypes ==
    /\ NoCred \in Credential
    /\ \A t \in Token, r \in Token : [access |-> t, refresh |-> r] \in Credential
    /\ \A k \in Credential : k.access \in Token /\ k.refresh \in Token
<1>1. NoCred \in Credential
  BY UpstreamAssumption DEF NoCred, Credential, Token
<1>2. \A t \in Token, r \in Token : [access |-> t, refresh |-> r] \in Credential
  BY DEF Credential
<1>3. \A k \in Credential : k.access \in Token /\ k.refresh \in Token
  BY DEF Credential
<1> QED
  BY <1>1, <1>2, <1>3

\* The types of a call after each of its updates.
LEMMA CallTypes ==
    /\ NoCall \in CallState
    /\ \A pc \in Pc, s, g \in Credential, h \in BOOLEAN :
          [pc |-> pc, saw |-> s, got |-> g, hit |-> h] \in CallState
    /\ \A k \in CallState : k.saw \in Credential /\ k.got \in Credential
    /\ \A k \in CallState, pc \in Pc : [k EXCEPT !.pc = pc] \in CallState
    /\ \A k \in CallState, pc \in Pc, g \in Credential :
          [k EXCEPT !.pc = pc, !.got = g] \in CallState
    /\ \A k \in CallState, pc \in Pc : [k EXCEPT !.pc = pc, !.hit = TRUE] \in CallState
<1>1. NoCall \in CallState
  BY CredentialTypes DEF NoCall, CallState, Pc
<1>2. \A pc \in Pc, s, g \in Credential, h \in BOOLEAN :
        [pc |-> pc, saw |-> s, got |-> g, hit |-> h] \in CallState
  BY DEF CallState
<1>3. \A k \in CallState : k.saw \in Credential /\ k.got \in Credential
  BY DEF CallState
<1>4. \A k \in CallState, pc \in Pc : [k EXCEPT !.pc = pc] \in CallState
  BY DEF CallState
<1>5. \A k \in CallState, pc \in Pc, g \in Credential :
        [k EXCEPT !.pc = pc, !.got = g] \in CallState
  BY DEF CallState
<1>6. \A k \in CallState, pc \in Pc : [k EXCEPT !.pc = pc, !.hit = TRUE] \in CallState
  BY DEF CallState
<1> QED
  BY <1>1, <1>2, <1>3, <1>4, <1>5, <1>6

\* A token that is issued is a new one.
LEMMA FreshToken ==
    ASSUME TypeOK, CanIssue
    PROVE Fresh \in Token /\ Fresh > issued /\ issued \in Nat
BY UpstreamAssumption DEF TypeOK, CanIssue, Fresh, Token

\* The updates of a call keep the types.
LEMMA CallUpdates ==
    ASSUME TypeOK, NEW c \in Call, NEW pc \in Pc, NEW g \in Credential
    PROVE /\ Goto(c, pc) => call' \in [Call -> CallState]
          /\ Obtain(c, pc, g) => call' \in [Call -> CallState]
          /\ Fail(c, pc) => call' \in [Call -> CallState]
<1>1. call[c] \in CallState
  BY DEF TypeOK
<1>2. [call[c] EXCEPT !.pc = pc] \in CallState
  BY <1>1, CallTypes
<1>3. [call[c] EXCEPT !.pc = pc, !.got = g] \in CallState
  BY <1>1, CallTypes
<1>4. Goto(c, pc) => call' \in [Call -> CallState]
  BY <1>2 DEF TypeOK, Goto
<1>5. ASSUME Obtain(c, pc, g) PROVE call' \in [Call -> CallState]
  <2>1. call' = [call EXCEPT ![c] = [call[c] EXCEPT !.pc = pc, !.got = g]]
    BY <1>5, <1>1 DEF Obtain, TypeOK, CallState
  <2> QED
    BY <1>3, <2>1 DEF TypeOK
<1>6. ASSUME Fail(c, pc) PROVE call' \in [Call -> CallState]
  <2>1. call' = [call EXCEPT ![c] = [call[c] EXCEPT !.pc = pc, !.hit = TRUE]]
    BY <1>6, <1>1 DEF Fail, TypeOK, CallState
  <2>2. [call[c] EXCEPT !.pc = pc, !.hit = TRUE] \in CallState
    BY <1>1, CallTypes
  <2> QED
    BY <2>1, <2>2 DEF TypeOK
<1> QED
  BY <1>4, <1>5, <1>6

\* Every step keeps the types.
LEMMA TypesKept == TypeOK /\ [Next]_vars => TypeOK'
<1> SUFFICES ASSUME TypeOK, [Next]_vars PROVE TypeOK'
  OBVIOUS
<1>0. CASE Exchange
  <2>1. Grant \in Credential
    BY <1>0, FreshToken, CredentialTypes DEF Exchange, Grant
  <2> QED
    BY <1>0, <2>1, FreshToken DEF Exchange, TypeOK
<1>1. CASE Store
  BY <1>1, CredentialTypes DEF Store, TypeOK
<1>2. ASSUME NEW t \in 1..issued, Expire(t) PROVE TypeOK'
  <2>1. t \in Token
    BY UpstreamAssumption DEF TypeOK, Token
  <2> QED
    BY <1>2, <2>1 DEF Expire, TypeOK
<1>3. ASSUME NEW c \in Call, Step(c) PROVE TypeOK'
  <2>0. call[c] \in CallState /\ call[c].saw \in Credential /\ call[c].got \in Credential
    BY CallTypes DEF TypeOK
  <2>1. CASE Resolve(c)
    <3> DEFINE pc == CASE cred = NoCred /\ provider = "exchange" -> "mint"
                       [] cred = NoCred /\ provider # "exchange" -> "consent"
                       [] cred # NoCred /\ cred.access \in expiring -> "refresh"
                       [] OTHER -> "ready"
    <3>1. pc \in Pc
      BY DEF Pc
    <3>2. [pc |-> pc, saw |-> cred, got |-> cred, hit |-> FALSE] \in CallState
      <4>1. cred \in Credential
        BY DEF TypeOK
      <4> HIDE DEF pc
      <4> QED
        BY <3>1, <4>1, CallTypes
    <3>3. call' = [call EXCEPT ![c] = [pc |-> pc, saw |-> cred, got |-> cred, hit |-> FALSE]]
      BY <2>1 DEF Resolve
    <3> HIDE DEF pc
    <3>4. call' \in [Call -> CallState]
      BY <3>2, <3>3 DEF TypeOK
    <3> QED
      BY <2>1, <3>4 DEF Resolve, TypeOK
  <2>2. CASE Mint(c)
    <3>1. [access |-> Fresh, refresh |-> 0] \in Credential
      <4>1. 0 \in Token
        BY UpstreamAssumption DEF Token
      <4> QED
        BY <2>2, <4>1, FreshToken, CredentialTypes DEF Mint
    <3>2. call' \in [Call -> CallState]
      BY <2>2, <3>1, CallUpdates DEF Mint, Pc
    <3> QED
      BY <2>2, <3>2, FreshToken DEF Mint, TypeOK
  <2>3. CASE Refresh(c) \/ RefreshLost(c)
    <3> DEFINE r == call[c].saw.refresh
    <3>1. Fresh \in Token /\ r \in Token
      BY <2>0, <2>3, FreshToken, CredentialTypes DEF Refresh, RefreshLost
    <3>2. Refreshed(r) \in Credential
      BY <3>1, CredentialTypes DEF Refreshed
    <3>3. LiveAfter(r) \subseteq Token
      BY <3>1 DEF LiveAfter, TypeOK
    <3>4. call' \in [Call -> CallState]
      BY <2>0, <2>3, <3>2, CallUpdates DEF Refresh, RefreshLost, Pc
    <3> QED
      BY <2>3, <3>1, <3>3, <3>4 DEF Refresh, RefreshLost, TypeOK
  <2>4. CASE Persist(c)
    <3>1. call' \in [Call -> CallState]
      BY <2>0, <2>4, CallUpdates DEF Persist, Pc
    <3> QED
      BY <2>0, <2>4, <3>1 DEF Persist, TypeOK
  <2>5. CASE MintFails(c) \/ RefreshFails(c) \/ PersistFails(c)
    <3>1. call' \in [Call -> CallState]
      BY <2>0, <2>5, CallUpdates DEF MintFails, RefreshFails, PersistFails, Pc
    <3> QED
      BY <2>5, <3>1 DEF MintFails, RefreshFails, PersistFails, TypeOK
  <2>6. CASE Revoke(c)
    <3>1. call' \in [Call -> CallState]
      BY <2>0, <2>6, CallUpdates DEF Revoke, Pc
    <3> QED
      BY <2>6, <3>1, CredentialTypes DEF Revoke, TypeOK
  <2>7. CASE Answer(c) \/ Crash(c)
    BY <2>7, CallTypes DEF Answer, Crash, TypeOK
  <2> QED
    BY <1>3, <2>1, <2>2, <2>3, <2>4, <2>5, <2>6, <2>7 DEF Step
<1>4. CASE AdminRead
  BY <1>4 DEF AdminRead, TypeOK
<1>5. CASE AdminRemote
  <2>1. admin.saw.refresh \in Token
    BY CredentialTypes DEF TypeOK
  <2> QED
    BY <1>5, <2>1 DEF AdminRemote, TypeOK
<1>6. CASE AdminDelete
  BY <1>6, CredentialTypes DEF AdminDelete, TypeOK
<1>7. CASE UNCHANGED vars
  BY <1>7 DEF vars, TypeOK
<1> QED
  BY <1>0, <1>1, <1>2, <1>3, <1>4, <1>5, <1>6, <1>7 DEF Next

\* Every state of the credential, the provider and the calls is well formed.
THEOREM TypeCorrect == TokenSpec => []TypeOK
<1>1. Init => TypeOK
  <2> SUFFICES ASSUME Init PROVE TypeOK
    OBVIOUS
  <2>1. 0 \in Token
    BY UpstreamAssumption DEF Token
  <2>2. call \in [Call -> CallState]
    BY CallTypes DEF Init
  <2>3. admin \in [pc : {"idle", "remote", "delete"}, saw : Credential]
    BY CredentialTypes DEF Init
  <2>4. cred \in Credential /\ granted \in Credential
    BY CredentialTypes DEF Init
  <2> QED
    BY <2>1, <2>2, <2>3, <2>4, UpstreamAssumption DEF Init, TypeOK
<1> QED
  BY <1>1, TypesKept, PTL DEF TokenSpec

-----------------------------------------------------------------------------
(* A refused credential is gone.  Access tokens are numbered as they are issued, *)
(* so a credential still on its way to the row, from a call or from the consent  *)
(* callback, differs from the row, from whatever any call has read, and from any *)
(* other on its way.                                                             *)

Stores(c) == At(c, "store") \/ At(c, "storeMinted")

MintsFromNothing ==
    \A c \in Call : At(c, "mint") \/ At(c, "storeMinted") => call[c].saw = NoCred
AccessIssued ==
    /\ cred.access <= issued
    /\ \A c \in Call : call[c].saw.access <= issued
StoresSomethingNew ==
    \A c \in Call : Stores(c) =>
        /\ call[c].got.access > 0
        /\ call[c].got.access <= issued
        /\ call[c].got.access # cred.access
        /\ \A d \in Call : call[c].got.access # call[d].saw.access
        /\ \A d \in Call : Stores(d) /\ d # c => call[d].got.access # call[c].got.access
GrantsSomethingNew ==
    granted # NoCred =>
        /\ granted.access > 0
        /\ granted.access <= issued
        /\ granted.access # cred.access
        /\ \A c \in Call : granted.access # call[c].saw.access
        /\ \A c \in Call : Stores(c) => granted.access # call[c].got.access

GoneInv == GrantsSomethingNew /\ MintsFromNothing /\ AccessIssued /\ StoresSomethingNew /\ RefusedCredentialIsGone

\* Tokens are numbers.
LEMMA Numbers ==
    ASSUME TypeOK
    PROVE /\ issued \in Nat /\ cred.access \in Nat /\ granted.access \in Nat
          /\ \A c \in Call : call[c].saw.access \in Nat /\ call[c].got.access \in Nat
<1>1. \A t \in Token : t \in Nat
  BY UpstreamAssumption DEF Token
<1>2. issued \in Nat /\ cred.access \in Nat /\ granted.access \in Nat
  BY <1>1, CredentialTypes DEF TypeOK
<1>3. ASSUME NEW c \in Call PROVE call[c].saw.access \in Nat /\ call[c].got.access \in Nat
  <2>1. call[c] \in CallState
    BY DEF TypeOK
  <2> QED
    BY <1>1, <2>1, CallTypes, CredentialTypes
<1> QED
  BY <1>2, <1>3

\* What the updates of one call's record do.
LEMMA GotoRecord ==
    ASSUME TypeOK, NEW c \in Call, NEW pc, Goto(c, pc)
    PROVE /\ call'[c].pc = pc /\ call'[c].saw = call[c].saw /\ call'[c].got = call[c].got
          /\ call'[c].hit = call[c].hit
          /\ \A d \in Call : d # c => call'[d] = call[d]
BY DEF TypeOK, Goto, CallState

\* A call that fails keeps what it saw and what it got.
LEMMA FailRecord ==
    ASSUME TypeOK, NEW c \in Call, NEW pc, Fail(c, pc)
    PROVE /\ call'[c].pc = pc /\ call'[c].saw = call[c].saw /\ call'[c].got = call[c].got
          /\ call'[c].hit = TRUE
          /\ \A d \in Call : d # c => call'[d] = call[d]
BY DEF TypeOK, Fail, CallState

\* A call that is given a credential keeps what it saw.
LEMMA ObtainRecord ==
    ASSUME TypeOK, NEW c \in Call, NEW pc, NEW g, Obtain(c, pc, g)
    PROVE /\ call'[c].pc = pc /\ call'[c].saw = call[c].saw /\ call'[c].got = g
          /\ \A d \in Call : d # c => call'[d] = call[d]
BY DEF TypeOK, Obtain, CallState

\* A call that begins has seen the row.
LEMMA ResolveRecord ==
    ASSUME TypeOK, NEW c \in Call, Resolve(c)
    PROVE /\ call'[c].pc \in {"mint", "consent", "refresh", "ready"}
          /\ call'[c].saw = cred /\ call'[c].got = cred
          /\ call'[c].pc \in {"mint", "consent"} => cred = NoCred
          /\ \A d \in Call : d # c => call'[d] = call[d]
BY DEF TypeOK, Resolve, CallState

\* Every step keeps it.
LEMMA GoneInvKept == TypeOK /\ GoneInv /\ [Next]_vars => GoneInv'
<1> SUFFICES ASSUME TypeOK, GoneInv, [Next]_vars PROVE GoneInv'
  OBVIOUS
<1> USE DEF GoneInv, GrantsSomethingNew, MintsFromNothing, AccessIssued, StoresSomethingNew,
            RefusedCredentialIsGone, Stores, At
<1>0. /\ issued \in Nat /\ Fresh \in Nat /\ Fresh > issued /\ cred.access \in Nat
      /\ granted.access \in Nat /\ cred.access < Fresh
      /\ granted # NoCred => granted.access < Fresh
      /\ \A c \in Call : /\ call[c].saw.access \in Nat /\ call[c].got.access \in Nat
                         /\ call[c].saw.access < Fresh
                         /\ Stores(c) => call[c].got.access < Fresh
  <2>1. issued \in Nat /\ cred.access \in Nat /\ granted.access \in Nat
    BY Numbers
  <2>2. Fresh \in Nat /\ Fresh > issued
    BY <2>1 DEF Fresh
  <2>3. cred.access < Fresh /\ (granted # NoCred => granted.access < Fresh)
    BY <2>1, <2>2
  <2>4. ASSUME NEW c \in Call
        PROVE /\ call[c].saw.access \in Nat /\ call[c].got.access \in Nat
              /\ call[c].saw.access < Fresh
              /\ Stores(c) => call[c].got.access < Fresh
    <3>1. call[c].saw.access \in Nat /\ call[c].got.access \in Nat
      BY Numbers
    <3>2. call[c].saw.access <= issued /\ (Stores(c) => call[c].got.access <= issued)
      OBVIOUS
    <3> QED
      BY <2>1, <2>2, <3>1, <3>2
  <2> QED
    BY <2>1, <2>2, <2>3, <2>4
<1> USE <1>0
<1>1. CASE Exchange
  <2>1. /\ granted'.access = Fresh /\ issued' = Fresh /\ UNCHANGED <<cred, call>>
    BY <1>1 DEF Exchange, Grant
  <2>2. GrantsSomethingNew'
    BY <2>1
  <2>3. AccessIssued' /\ StoresSomethingNew'
    BY <2>1
  <2> QED
    BY <2>1, <2>2, <2>3
<1>1a. CASE Store
  <2>1. /\ granted' = NoCred /\ UNCHANGED <<issued, call>>
        /\ \/ cred' = granted /\ granted # NoCred
           \/ UNCHANGED cred
    BY <1>1a DEF Store
  <2> QED
    BY <2>1
<1>2. ASSUME NEW t \in 1..issued, Expire(t) PROVE GoneInv'
  BY <1>2 DEF Expire
<1>3. ASSUME NEW c \in Call, Resolve(c) PROVE GoneInv'
  <2>1. UNCHANGED <<cred, issued, granted>>
    BY <1>3 DEF Resolve
  <2> QED
    BY <1>3, <2>1, ResolveRecord
<1>4. ASSUME NEW c \in Call, Mint(c) \/ Refresh(c) PROVE GoneInv'
  <2>1. /\ UNCHANGED <<cred, granted>> /\ issued' = Fresh /\ Fresh > issued
    BY <1>4, FreshToken DEF Mint, Refresh
  <2>2. /\ call'[c].pc \in {"store", "storeMinted"}
        /\ call'[c].pc = "storeMinted" => At(c, "mint")
        /\ call'[c].saw = call[c].saw /\ call'[c].got.access = Fresh
        /\ \A d \in Call : d # c => call'[d] = call[d]
    <3>1. CASE Mint(c)
      BY <3>1, ObtainRecord DEF Mint
    <3>2. CASE Refresh(c)
      BY <3>2, ObtainRecord DEF Refresh, Refreshed
    <3> QED
      BY <1>4, <3>1, <3>2
  <2>3. MintsFromNothing'
    BY <2>2
  <2>4. AccessIssued'
    BY <2>1, <2>2
  <2>5. StoresSomethingNew' /\ GrantsSomethingNew'
    BY <2>1, <2>2
  <2>6. RefusedCredentialIsGone'
    BY <2>1, <2>2
  <2> QED
    BY <2>3, <2>4, <2>5, <2>6
<1>5. ASSUME NEW c \in Call, RefreshLost(c) PROVE GoneInv'
  <2>1. /\ Fail(c, "revoke") /\ UNCHANGED <<cred, granted>> /\ issued' = Fresh /\ Fresh > issued
    BY <1>5, FreshToken DEF RefreshLost
  <2>2. /\ call'[c].pc = "revoke" /\ call'[c].saw = call[c].saw
        /\ \A d \in Call : d # c => call'[d] = call[d]
    BY <2>1, FailRecord
  <2>3. MintsFromNothing'
    BY <2>2
  <2>4. AccessIssued'
    BY <2>1, <2>2
  <2>5. StoresSomethingNew' /\ GrantsSomethingNew'
    BY <2>1, <2>2
  <2>6. RefusedCredentialIsGone'
    BY <2>1, <2>2
  <2> QED
    BY <2>3, <2>4, <2>5, <2>6
<1>6. ASSUME NEW c \in Call, MintFails(c) \/ RefreshFails(c) \/ PersistFails(c) PROVE GoneInv'
  <2>1. PICK pc \in {"revoke", "consent"} :
          /\ Goto(c, pc) \/ Fail(c, pc)
          /\ pc = "consent" => call[c].saw = NoCred
    BY <1>6 DEF MintFails, RefreshFails, PersistFails
  <2>2. UNCHANGED <<cred, issued, granted>>
    BY <1>6 DEF MintFails, RefreshFails, PersistFails
  <2>3. /\ call'[c].pc = pc /\ call'[c].saw = call[c].saw
        /\ \A d \in Call : d # c => call'[d] = call[d]
    <3>1. CASE Goto(c, pc)
      BY <3>1, GotoRecord
    <3>2. CASE Fail(c, pc)
      BY <3>2, FailRecord
    <3> QED
      BY <2>1, <3>1, <3>2
  <2> QED
    BY <2>1, <2>2, <2>3
<1>7. ASSUME NEW c \in Call, Persist(c) PROVE GoneInv'
  <2>1. Goto(c, "ready") /\ cred' = call[c].got /\ UNCHANGED <<issued, granted>> /\ Stores(c)
    BY <1>7 DEF Persist
  <2>2. \A d \in Call : cred' # call[d].saw
    BY <2>1
  <2> QED
    BY <2>1, <2>2, GotoRecord
<1>8. ASSUME NEW c \in Call, Revoke(c) PROVE GoneInv'
  <2>1. Goto(c, "consent") /\ cred' = NoCred /\ UNCHANGED <<issued, granted>>
    BY <1>8 DEF Revoke
  <2>2. cred'.access = 0
    BY <2>1 DEF NoCred
  <2> QED
    BY <2>1, <2>2, GotoRecord
<1>9. ASSUME NEW c \in Call, Answer(c) \/ Crash(c) PROVE GoneInv'
  <2>1. /\ call'[c].pc = "idle" /\ call'[c].saw.access = 0
        /\ \A d \in Call : d # c => call'[d] = call[d]
        /\ UNCHANGED <<cred, issued, granted>>
    BY <1>9 DEF Answer, Crash, NoCall, NoCred, TypeOK
  <2> QED
    BY <2>1
<1>10. CASE AdminRead \/ AdminRemote
  BY <1>10 DEF AdminRead, AdminRemote
<1>11. CASE AdminDelete
  <2>1. cred' = NoCred /\ cred'.access = 0 /\ UNCHANGED <<issued, granted, call>>
    BY <1>11 DEF AdminDelete, NoCred
  <2> QED
    BY <2>1
<1>12. CASE UNCHANGED vars
  BY <1>12 DEF vars
<1> QED
  BY <1>1, <1>1a, <1>2, <1>3, <1>4, <1>5, <1>6, <1>7, <1>8, <1>9, <1>10, <1>11, <1>12 DEF Next, Step

\* Whatever the provider, the faults and the interleaving of calls, a credential that a
\* call was refused for is not in the vault any more.
THEOREM RefusedIsGone == TokenSpec => []RefusedCredentialIsGone
<1>1. Init => GoneInv
  <2> SUFFICES ASSUME Init PROVE GoneInv
    OBVIOUS
  <2>1. cred.access = 0 /\ issued = 0 /\ granted = NoCred
    BY DEF Init, NoCred
  <2>2. \A c \in Call : call[c].pc = "idle" /\ call[c].saw.access = 0
    BY DEF Init, NoCall, NoCred
  <2> QED
    BY <2>1, <2>2 DEF GoneInv, GrantsSomethingNew, MintsFromNothing, AccessIssued, StoresSomethingNew,
                      RefusedCredentialIsGone, Stores, At
<1>2. GoneInv => RefusedCredentialIsGone
  BY DEF GoneInv
<1> QED
  BY <1>1, <1>2, GoneInvKept, TypeCorrect, PTL DEF TokenSpec

-----------------------------------------------------------------------------
(* Reusable refresh tokens: every refresh token stored, read or obtained is one *)
(* the provider accepts or one an administrator had revoked.                    *)

Usable(k) == k = NoCred \/ k.refresh \in live \cup revoked
UsableInv ==
    /\ Usable(cred)
    /\ Usable(granted)
    /\ \A c \in Call : Usable(call[c].saw)
    /\ \A c \in Call : Usable(call[c].got)
    /\ \A c \in Call : At(c, "refresh") => call[c].saw # NoCred
    /\ \A c \in Call : ~At(c, "mint") /\ ~At(c, "storeMinted")
    /\ \A c \in Call : At(c, "revoke") /\ ~call[c].hit => call[c].saw.refresh \in revoked
    /\ NoNeedlessConsent
ReusingInv == provider = "reusing" => UsableInv

\* Every step keeps it.
LEMMA ReusingInvKept == TypeOK /\ ReusingInv /\ [Next]_vars => ReusingInv'
<1> SUFFICES ASSUME TypeOK, UsableInv, [Next]_vars, provider = "reusing", provider' = provider
             PROVE UsableInv'
  <2>1. [Next]_vars => provider' = provider
    BY DEF Next, vars, Step, Exchange, Store, Expire, Resolve, Mint, MintFails, Refresh,
           RefreshFails, RefreshLost, Persist, PersistFails, Revoke, Answer, Crash,
           AdminRead, AdminRemote, AdminDelete
  <2> QED
    BY <2>1 DEF ReusingInv
<1> USE DEF UsableInv, NoNeedlessConsent, Usable, At
<1>0. CASE Exchange
  BY <1>0 DEF Exchange, Grant
<1>1. CASE Store
  BY <1>1 DEF Store
<1>2. ASSUME NEW t \in 1..issued, Expire(t) PROVE UsableInv'
  BY <1>2 DEF Expire
<1>3. ASSUME NEW c \in Call, Resolve(c) PROVE UsableInv'
  <2>1. UNCHANGED <<cred, live, revoked, granted>> /\ call'[c].pc # "mint"
    BY <1>3 DEF Resolve, TypeOK, CallState
  <2>2. call'[c].pc = "refresh" => cred # NoCred
    BY <1>3 DEF Resolve, TypeOK, CallState
  <2> QED
    BY <1>3, <2>1, <2>2, ResolveRecord
<1>4. ASSUME NEW c \in Call, Refresh(c) PROVE UsableInv'
  <2> DEFINE r == call[c].saw.refresh
  <2>1. /\ UNCHANGED <<cred, revoked, live, granted>> /\ r \in live /\ Refreshed(r).refresh = r
        /\ Obtain(c, "store", Refreshed(r))
    BY <1>4 DEF Refresh, LiveAfter, Refreshed
  <2>2. /\ call'[c].pc = "store" /\ call'[c].saw = call[c].saw
        /\ call'[c].got = Refreshed(r)
        /\ \A d \in Call : d # c => call'[d] = call[d]
    BY <2>1, ObtainRecord
  <2> QED
    BY <2>1, <2>2
<1>5. ASSUME NEW c \in Call, RefreshFails(c) \/ RefreshLost(c) \/ PersistFails(c)
      PROVE UsableInv'
  <2>1. UNCHANGED <<cred, live, revoked, granted>>
    BY <1>5 DEF RefreshFails, RefreshLost, PersistFails, LiveAfter
  <2>2. \/ Fail(c, "revoke")
        \/ Goto(c, "revoke") /\ call[c].saw.refresh \in revoked
    BY <1>5 DEF RefreshFails, RefreshLost, PersistFails
  <2>3. /\ call'[c].pc = "revoke" /\ call'[c].saw = call[c].saw /\ call'[c].got = call[c].got
        /\ call'[c].hit = TRUE \/ call[c].saw.refresh \in revoked
        /\ \A d \in Call : d # c => call'[d] = call[d]
    BY <2>2, GotoRecord, FailRecord
  <2> QED
    BY <2>1, <2>3
<1>6. ASSUME NEW c \in Call, Persist(c) PROVE UsableInv'
  <2>1. Goto(c, "ready") /\ cred' = call[c].got /\ UNCHANGED <<live, revoked, granted>>
    BY <1>6 DEF Persist
  <2> QED
    BY <2>1, GotoRecord
<1>7. ASSUME NEW c \in Call, Revoke(c) PROVE UsableInv'
  <2>1. /\ Goto(c, "consent") /\ cred' = NoCred /\ UNCHANGED <<live, revoked, granted>>
        /\ ~call[c].hit => call[c].saw.refresh \in revoked
    BY <1>7 DEF Revoke
  <2> QED
    BY <2>1, GotoRecord
<1>8. ASSUME NEW c \in Call, Answer(c) \/ Crash(c) PROVE UsableInv'
  <2>1. /\ call'[c].pc = "idle" /\ call'[c].saw = NoCred /\ call'[c].got = NoCred
        /\ \A d \in Call : d # c => call'[d] = call[d]
        /\ UNCHANGED <<cred, live, revoked, granted>>
    BY <1>8 DEF Answer, Crash, NoCall, TypeOK
  <2> QED
    BY <2>1
<1>9. ASSUME NEW c \in Call, Mint(c) \/ MintFails(c) PROVE FALSE
  BY <1>9 DEF Mint, MintFails
<1>10. CASE AdminRead
  BY <1>10 DEF AdminRead
<1>11. CASE AdminRemote
  BY <1>11 DEF AdminRemote
<1>12. CASE AdminDelete
  BY <1>12 DEF AdminDelete
<1>13. CASE UNCHANGED vars
  BY <1>13 DEF vars
<1> QED
  BY <1>0, <1>1, <1>2, <1>3, <1>4, <1>5, <1>6, <1>7, <1>8, <1>9, <1>10, <1>11, <1>12, <1>13
     DEF Next, Step

\* With a provider whose refresh tokens can be reused, any number of concurrent calls,
\* crashes and failures send a user to consent without need only in a call that the
\* provider or the database failed.
THEOREM ConsentOnlyWhenNeeded == TokenSpec => []ReusingNeedsNoConsent
<1>1. Init => ReusingInv
  BY DEF Init, ReusingInv, UsableInv, NoNeedlessConsent, Usable, At, NoCall
<1>2. TypeOK /\ ReusingInv /\ [Next]_vars => ReusingInv'
  BY ReusingInvKept
<1>3. ReusingInv => ReusingNeedsNoConsent
  BY DEF ReusingInv, UsableInv, ReusingNeedsNoConsent
<1> QED
  BY <1>1, <1>2, <1>3, TypeCorrect, PTL DEF TokenSpec

-----------------------------------------------------------------------------
(* The row under its keys.  A sweep of rewrapStale() writes what it has selected, by the *)
(* row's id: so whatever it holds under the id of the row is what the row has, and a     *)
(* token on its way to an insert is not yet the id of anything.  What happens to keys    *)
(* and keyrings, with the endpoints, force, prepended keys and restarts, has no part in  *)
(* this.                                                                                 *)

Selected(n) == vSweep[n].pc # "idle"
OnItsWay(w) == vPut[w].pc = "encrypted"

VaultNumbers ==
    /\ vIssued \in Nat /\ vLatest \in Nat
    /\ DOMAIN vRow = {"id", "key", "token"} /\ vRow.id \in Nat /\ vRow.token \in Nat
    /\ DOMAIN vPut = Writer /\ \A w \in Writer : vPut[w].token \in Nat
    /\ DOMAIN vSweep = Node
    /\ \A n \in Node : vSweep[n].of.id \in Nat /\ vSweep[n].of.token \in Nat

RowIsLatest ==
    vRow.token = vLatest /\ vRow.id <= vIssued /\ (vRow # Vault!NoRow => vRow.id > 0)
SelectedIsRow ==
    \A n \in Node : Selected(n) =>
      /\ vSweep[n].of.id > 0 /\ vSweep[n].of.id <= vIssued
      /\ vSweep[n].of.id = vRow.id => vSweep[n].of.token = vRow.token
NewTokensAreNoIds ==
    \A w \in Writer : OnItsWay(w) =>
      /\ vPut[w].token > 0 /\ vPut[w].token <= vIssued /\ vPut[w].token # vRow.id
      /\ \A n \in Node : Selected(n) => vSweep[n].of.id # vPut[w].token
      /\ \A v \in Writer : OnItsWay(v) /\ v # w => vPut[v].token # vPut[w].token

VaultInv == VaultNumbers /\ RowIsLatest /\ SelectedIsRow /\ NewTokensAreNoIds

\* It holds before anything is stored.
LEMMA VaultInit == Vault!Init => VaultInv
<1> SUFFICES ASSUME Vault!Init PROVE VaultInv
  OBVIOUS
<1>1. /\ vRow = [id |-> 0, key |-> None, token |-> 0] /\ vIssued = 0 /\ vLatest = 0
      /\ vPut = [w \in Writer |-> Vault!NoPut] /\ vSweep = [n \in Node |-> Vault!NoSweep]
      /\ vRow = Vault!NoRow
  BY DEF Vault!Init, Vault!NoRow
<1>2. /\ Vault!NoPut.pc = "idle" /\ Vault!NoPut.token = 0
      /\ Vault!NoSweep.pc = "idle" /\ Vault!NoSweep.of.id = 0 /\ Vault!NoSweep.of.token = 0
  BY DEF Vault!NoPut, Vault!NoSweep, Vault!NoRow
<1>3. VaultNumbers
  BY <1>1, <1>2 DEF VaultNumbers
<1> QED
  BY <1>1, <1>2, <1>3
     DEF VaultInv, RowIsLatest, SelectedIsRow, NewTokensAreNoIds, Selected, OnItsWay

\* Every step of the vault keeps it, as long as no put() overwrites a row that a sweep holds.
LEMMA VaultStep ==
    ASSUME "overlap" \notin Happens, VaultInv, [Vault!Next]_(Vault!vars)
    PROVE  VaultInv'
<1> USE DEF VaultInv, VaultNumbers, RowIsLatest, SelectedIsRow, NewTokensAreNoIds,
            Selected, OnItsWay
<1>1. /\ Vault!NoPut.pc = "idle" /\ Vault!NoPut.token = 0
      /\ Vault!NoSweep.pc = "idle" /\ Vault!NoSweep.of.id = 0 /\ Vault!NoSweep.of.token = 0
      /\ Vault!NoRow.id = 0 /\ Vault!NoRow.token = 0
      /\ DOMAIN Vault!NoRow = {"id", "key", "token"}
  BY DEF Vault!NoPut, Vault!NoSweep, Vault!NoRow
<1>2. ASSUME NEW w \in Writer, Vault!PutWrite(w) PROVE VaultInv'
  <2>1. \A n \in Node : Selected(n) => vSweep[n].of.id # vRow.id
    BY <1>2 DEF Vault!PutWrite, Vault!Swept
  <2>2. /\ vPut[w].pc = "encrypted" /\ vLatest' = vPut[w].token
        /\ vRow' = [id |-> IF vRow # Vault!NoRow THEN vRow.id ELSE vPut[w].token,
                    key |-> vPut[w].key, token |-> vPut[w].token]
        /\ vPut' = [vPut EXCEPT ![w] = Vault!NoPut]
        /\ UNCHANGED <<vSweep, vIssued>>
    BY <1>2 DEF Vault!PutWrite, Vault!Stored
  <2> QED
    BY <1>1, <2>1, <2>2
<1>3. ASSUME NEW w \in Writer, NEW n \in Node, Vault!PutEncrypt(w, n) PROVE VaultInv'
  BY <1>3 DEF Vault!PutEncrypt
<1>4. CASE Vault!Revoke
  BY <1>1, <1>4 DEF Vault!Revoke
<1>5. ASSUME NEW n \in Node, Vault!SweepSelect(n) PROVE VaultInv'
  BY <1>5 DEF Vault!SweepSelect, Vault!Stored
<1>6. ASSUME NEW n \in Node, Vault!SweepWrap(n) PROVE VaultInv'
  BY <1>1, <1>6 DEF Vault!SweepWrap
<1>7. ASSUME NEW n \in Node, Vault!SweepWrite(n) PROVE VaultInv'
  BY <1>1, <1>7 DEF Vault!SweepWrite, Vault!Stored
<1>8. ASSUME NEW n \in Node, Vault!Restart(n) PROVE VaultInv'
  BY <1>1, <1>8 DEF Vault!Restart
<1>9. CASE UNCHANGED Vault!rows
  BY <1>9 DEF Vault!rows
<1>10. ASSUME NEW k \in Key, Vault!Operator(k) PROVE UNCHANGED Vault!rows
  BY <1>10 DEF Vault!Operator, Vault!Announce, Vault!Promote, Vault!Prepend, Vault!Drop
<1>11. ASSUME NEW n \in Node, Vault!Admin(n) \/ Vault!Signal(n) PROVE UNCHANGED Vault!rows
  BY <1>11 DEF Vault!Admin, Vault!Rotate, Vault!RetireCount, Vault!RetireApply, Vault!Signal,
               Vault!ReloadSignal, Vault!LoseSignal
<1>12. CASE UNCHANGED Vault!vars
  BY <1>9, <1>12 DEF Vault!vars, Vault!rows
<1> QED
  BY <1>2, <1>3, <1>4, <1>5, <1>6, <1>7, <1>8, <1>9, <1>10, <1>11, <1>12
     DEF Vault!Next, Vault!Credential, Vault!Sweeping

\* Whatever administrators and operators do to the keys of any number of replicas, through
\* the endpoints with force, by prepending keys and by restarts: the row has the token that
\* was stored last (repo.ts rewrapStale(), vault-admin.controller.ts).  What is assumed, and
\* rewrapStale() does not see to: no put() overwrites a row between a sweep's read of it and
\* the sweep's write.  A row that was revoked and stored anew meanwhile is not excluded.
THEOREM TokensSurviveEndpoints ==
    ASSUME "overlap" \notin Happens
    PROVE  CredentialsSpec => []TokensSurviveRotation
<1>1. MCInit => VaultInv
  BY VaultInit DEF MCInit
<1>2. VaultInv /\ [MCNext]_<<side, vars, vault>> => VaultInv'
  <2> SUFFICES ASSUME VaultInv, [MCNext]_<<side, vars, vault>>
               PROVE  VaultInv'
    OBVIOUS
  <2>1. [Vault!Next]_(Vault!vars)
    BY DEF MCNext, vault, Vault!vars
  <2> QED
    BY <2>1, VaultStep
<1>3. VaultInv => TokensSurviveRotation
  BY DEF VaultInv, RowIsLatest, TokensSurviveRotation, Vault!TokensSurviveRotation
<1> QED
  BY <1>1, <1>2, <1>3, PTL DEF CredentialsSpec
=============================================================================
