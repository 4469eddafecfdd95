---------------------------- MODULE GatewayProofs ----------------------------
(***************************************************************************)
(* Proofs about what a tools/call meets in one process.  Each part keeps   *)
(* its property on its own, under its own specification; a behaviour of    *)
(* MCGateway is one of each part's, in which the others rest.              *)
(***************************************************************************)
EXTENDS MCGateway, Sequences, TLAPS

-----------------------------------------------------------------------------
(* Dispatch *)

\* The states in which dispatchNativeMcp() has a session, and dispatchSql() a place in a
\* pool: between the call that takes it and the "finally" that gives it back.
InSession == {"ready", "pending", "closing", "closingFailed"}
InPool == {"queued"} \cup ToolCall!Holds

\* What a call has taken it still has to give back, and no client went back in a transaction.
HeldBy(c) ==
    /\ tLink[c] # "none" => tCall[c].pc \in InSession
    /\ tCall[c].pool # "none" => tCall[c].pc \in InPool
TakenIsHeld == ~tDirty /\ \A c \in Caller : HeldBy(c)

DispatchInv == ToolCall!TypeOK /\ TakenIsHeld

\* It holds before the first call.
LEMMA DispatchInit == ToolCall!Init => DispatchInv
<1> USE GatewayAssumption DEF ToolCall!ToolCallAssumption
<1> SUFFICES ASSUME ToolCall!Init PROVE DispatchInv
  OBVIOUS
<1>1. ToolCall!Idle \in ToolCall!CallState
  BY DEF ToolCall!Idle, ToolCall!CallState, ToolCall!Ended
<1>2. tCall \in [Caller -> ToolCall!CallState] /\ tLink \in [Caller -> {"none", "open", "over"}]
  BY <1>1 DEF ToolCall!Init
<1>3. tPool \in ToolCall!Version \cup {None}
  BY DEF ToolCall!Init
<1>4. tVersion \in ToolCall!Version
  BY DEF ToolCall!Init, ToolCall!Version
<1>5. ToolCall!TypeOK
  BY <1>2, <1>3, <1>4 DEF ToolCall!Init, ToolCall!TypeOK
<1>6. TakenIsHeld
  BY DEF ToolCall!Init, ToolCall!Idle, TakenIsHeld, HeldBy
<1> QED
  BY <1>5, <1>6 DEF DispatchInv

\* What a step does to one call keeps the types and what is held.
LEMMA DispatchOne ==
    ASSUME DispatchInv, NEW c \in Caller, NEW r \in ToolCall!CallState,
           NEW l \in {"none", "open", "over"},
           l # "none" => r.pc \in InSession,
           r.pool # "none" => r.pc \in InPool,
           tCall' = [tCall EXCEPT ![c] = r],
           tLink' = [tLink EXCEPT ![c] = l],
           UNCHANGED <<tKind, tVersion, tApproved, tDue, tClean, tAlive, tPool, tDirty>>
    PROVE  DispatchInv'
<1>1. ToolCall!TypeOK'
  BY DEF DispatchInv, ToolCall!TypeOK
<1>2. TakenIsHeld'
  <2>1. ASSUME NEW d \in Caller PROVE HeldBy(d)'
    <3>1. HeldBy(d)
      BY DEF DispatchInv, TakenIsHeld
    <3>2. CASE d = c
      BY <3>2 DEF HeldBy, DispatchInv, ToolCall!TypeOK
    <3>3. CASE d # c
      <4>1. tCall'[d] = tCall[d] /\ tLink'[d] = tLink[d]
        BY <3>3 DEF DispatchInv, ToolCall!TypeOK
      <4> QED
        BY <3>1, <4>1 DEF HeldBy
    <3> QED
      BY <3>2, <3>3
  <2>2. ~tDirty'
    BY DEF DispatchInv, TakenIsHeld
  <2> QED
    BY <2>1, <2>2 DEF TakenIsHeld
<1> QED
  BY <1>1, <1>2 DEF DispatchInv

\* A call that goes to another state of the same kind.
LEMMA DispatchGoto ==
    ASSUME DispatchInv, NEW c \in Caller,
           NEW pc \in {"resolve", "execute", "begin", "rollback", "pending", "closing",
                       "closingFailed"} \cup ToolCall!Ended,
           tCall[c].pc \in InSession => pc \in InSession,
           tCall[c].pc \in InPool => pc \in InPool,
           ToolCall!Goto(c, pc),
           UNCHANGED <<tKind, tVersion, tApproved, tDue, tClean, tAlive, tLink, tPool, tDirty>>
    PROVE  DispatchInv'
<1> DEFINE r == [tCall[c] EXCEPT !.pc = pc]
<1>1. tCall[c] \in ToolCall!CallState /\ tLink[c] \in {"none", "open", "over"}
  BY DEF DispatchInv, ToolCall!TypeOK
<1>2. r \in ToolCall!CallState /\ r.pc = pc /\ r.pool = tCall[c].pool
  <2>1. pc \in ToolCall!Ended \cup {"idle", "gates", "resolve", "execute", "queued", "begin",
             "query", "commit", "rollback", "ready", "pending", "closing", "closingFailed"}
    BY DEF ToolCall!Ended
  <2> QED
    BY <1>1, <2>1 DEF ToolCall!CallState
<1>7. HeldBy(c)
  BY DEF DispatchInv, TakenIsHeld
<1>3. tLink[c] # "none" => r.pc \in InSession
  BY <1>2, <1>7 DEF HeldBy
<1>4. r.pool # "none" => r.pc \in InPool
  BY <1>2, <1>7 DEF HeldBy
<1>5. tCall' = [tCall EXCEPT ![c] = r]
  BY <1>1 DEF ToolCall!Goto, DispatchInv, ToolCall!TypeOK
<1>6. tLink' = [tLink EXCEPT ![c] = tLink[c]]
  BY DEF DispatchInv, ToolCall!TypeOK
<1> HIDE DEF r
<1> QED
  BY <1>1, <1>2, <1>3, <1>4, <1>5, <1>6, DispatchOne

\* What a call has where it is.
LEMMA DispatchAt ==
    ASSUME DispatchInv, NEW c \in Caller
    PROVE  /\ tCall[c] \in ToolCall!CallState
           /\ tCall[c].pc \notin {"ready", "pending", "closing", "closingFailed"}
              => tLink[c] = "none"
           /\ tCall[c].pc \notin {"queued", "begin", "query", "commit", "rollback"}
              => tCall[c].pool = "none"
<1>1. HeldBy(c)
  BY DEF DispatchInv, TakenIsHeld
<1>2. tCall[c] \in ToolCall!CallState
  BY DEF DispatchInv, ToolCall!TypeOK
<1> QED
  BY <1>1, <1>2 DEF HeldBy, InSession, InPool, ToolCall!Holds

\* Every step of a call, a pool and an upstream keeps it.
LEMMA DispatchStep == DispatchInv /\ [ToolCall!Next]_(ToolCall!vars) => DispatchInv'
<1> USE DEF ToolCall!At, ToolCall!row, ToolCall!pools
<1> SUFFICES ASSUME DispatchInv, [ToolCall!Next]_(ToolCall!vars)
             PROVE  DispatchInv'
  OBVIOUS
<1> DEFINE Same == UNCHANGED <<tKind, tVersion, tApproved, tDue, tClean, tAlive, tPool, tDirty>>
<1>1. CASE UNCHANGED ToolCall!vars
  BY <1>1 DEF ToolCall!vars, DispatchInv, TakenIsHeld, HeldBy, ToolCall!TypeOK
<1>2. ASSUME NEW announced \in BOOLEAN, ToolCall!Update(announced)
      PROVE  DispatchInv'
  <2>1. tVersion' \in ToolCall!Version
    BY <1>2 DEF ToolCall!Update
  <2>2. tApproved' \in BOOLEAN /\ tDue' \in BOOLEAN
    BY <1>2 DEF ToolCall!Update, DispatchInv, ToolCall!TypeOK
  <2> QED
    BY <1>2, <2>1, <2>2 DEF ToolCall!Update, DispatchInv, TakenIsHeld, HeldBy, ToolCall!TypeOK
<1>3. CASE ToolCall!Approve \/ ToolCall!InvalidateFails
  <2>1. /\ tApproved' \in BOOLEAN /\ tDue' \in BOOLEAN /\ tClean' \in BOOLEAN
        /\ UNCHANGED <<tKind, tVersion, tAlive, tCall, tLink, tPool, tDirty>>
    BY <1>3 DEF ToolCall!Approve, ToolCall!InvalidateFails, DispatchInv, ToolCall!TypeOK
  <2>2. ToolCall!TypeOK'
    BY <2>1 DEF DispatchInv, ToolCall!TypeOK
  <2>3. TakenIsHeld'
    BY <2>1 DEF DispatchInv, TakenIsHeld, HeldBy
  <2> QED
    BY <2>2, <2>3 DEF DispatchInv
<1>9. CASE ToolCall!Probed
  <2>1. tVersion' \in ToolCall!Version
    BY <1>9, GatewayAssumption
    DEF ToolCall!Probed, DispatchInv, ToolCall!TypeOK, ToolCall!Version,
        ToolCall!ToolCallAssumption
  <2>2. ToolCall!TypeOK'
    BY <1>9, <2>1 DEF ToolCall!Probed, DispatchInv, ToolCall!TypeOK
  <2>3. TakenIsHeld'
    BY <1>9 DEF ToolCall!Probed, DispatchInv, TakenIsHeld, HeldBy
  <2> QED
    BY <2>2, <2>3 DEF DispatchInv
\* A client that is out stays with the pool that is ended.
<1>8. CASE ToolCall!Invalidate
  <2>1. tClean' \in BOOLEAN
    BY <1>8 DEF ToolCall!Invalidate, ToolCall!NoneOlder, DispatchInv, ToolCall!TypeOK
  <2>2. ASSUME NEW c \in Caller
        PROVE  /\ tCall'[c] \in ToolCall!CallState
               /\ tCall'[c].pc = tCall[c].pc
               /\ tCall'[c].pool = "none" <=> tCall[c].pool = "none"
    <3>1. tCall[c] \in ToolCall!CallState
      BY DEF DispatchInv, ToolCall!TypeOK
    <3>2. tCall'[c] = [tCall[c] EXCEPT !.pool = IF tCall[c].pool = "map" THEN "ended"
                                               ELSE tCall[c].pool]
      BY <1>8, <3>1 DEF ToolCall!Invalidate, ToolCall!CallState
    <3> QED
      BY <3>1, <3>2 DEF ToolCall!CallState
  <2>3. tCall' \in [Caller -> ToolCall!CallState]
    BY <1>8, <2>2 DEF ToolCall!Invalidate
  <2>4. ToolCall!TypeOK'
    BY <1>8, <2>1, <2>3 DEF ToolCall!Invalidate, DispatchInv, ToolCall!TypeOK
  <2>5. TakenIsHeld'
    BY <1>8, <2>2 DEF ToolCall!Invalidate, DispatchInv, TakenIsHeld, HeldBy
  <2> QED
    BY <2>4, <2>5 DEF DispatchInv
<1>4. ASSUME NEW c \in Caller, ToolCall!Start(c)
      PROVE  DispatchInv'
  <2> DEFINE r == [ToolCall!Idle EXCEPT !.pc = "gates", !.version = tVersion,
                                      !.approved = tApproved]
  <2>1. r \in ToolCall!CallState /\ r.pool = "none"
    BY DEF ToolCall!Idle, ToolCall!CallState, ToolCall!Ended, DispatchInv, ToolCall!TypeOK
  <2>2. tLink[c] = "none"
    BY <1>4 DEF ToolCall!Start, DispatchInv, TakenIsHeld, HeldBy, InSession, ToolCall!TypeOK
  <2>3. tCall' = [tCall EXCEPT ![c] = r] /\ tLink' = [tLink EXCEPT ![c] = "none"] /\ Same
    BY <1>4, <2>2 DEF ToolCall!Start, DispatchInv, ToolCall!TypeOK
  <2> HIDE DEF r
  <2> QED
    BY <2>1, <2>3, DispatchOne
<1>5. ASSUME NEW c \in Caller, ToolCall!Router(c)
      PROVE  DispatchInv'
  <2>1. CASE ToolCall!Gates(c) \/ ToolCall!CircuitOpen(c) \/ ToolCall!ConnectFails(c)
             \/ ToolCall!Serve(c) \/ ToolCall!OpenApi(c) \/ ToolCall!OpenFails(c)
    BY <2>1, DispatchGoto
    DEF ToolCall!Gates, ToolCall!CircuitOpen, ToolCall!ConnectFails, ToolCall!Serve,
        ToolCall!OpenApi, ToolCall!OpenFails, InSession, InPool, ToolCall!Holds, ToolCall!Ended
  <2>2. CASE ToolCall!Resolved(c)
    <3>1. CASE ToolCall!Goto(c, "refused")
      BY <2>2, <3>1, DispatchGoto
      DEF ToolCall!Resolved, InSession, InPool, ToolCall!Holds, ToolCall!Ended
    <3>2. ASSUME NEW token \in {"none", "resolved"},
                 tCall' = [tCall EXCEPT ![c].pc = "execute", ![c].token = token]
          PROVE  DispatchInv'
      <4> DEFINE r == [tCall[c] EXCEPT !.pc = "execute", !.token = token]
      <4>1. r \in ToolCall!CallState /\ r.pool = "none" /\ tLink[c] = "none"
        BY <2>2, DispatchAt DEF ToolCall!Resolved, ToolCall!CallState
      <4>2. tCall' = [tCall EXCEPT ![c] = r]
        BY <3>2 DEF DispatchInv, ToolCall!TypeOK
      <4>3. tLink' = [tLink EXCEPT ![c] = "none"] /\ Same
        BY <2>2, <4>1 DEF ToolCall!Resolved, DispatchInv, ToolCall!TypeOK
      <4> HIDE DEF r
      <4> QED
        BY <4>1, <4>2, <4>3, DispatchOne
    <3> QED
      BY <2>2, <3>1, <3>2 DEF ToolCall!Resolved
  <2>3. CASE ToolCall!Connect(c)
    <3> DEFINE pc == IF ToolCall!Busy < PoolMax THEN "begin" ELSE "queued"
               r == [tCall[c] EXCEPT !.pool = "map", !.pc = pc]
    <3>1. /\ tCall' = [tCall EXCEPT ![c].pool = "map", ![c].pc = pc]
          /\ tPool' = IF tPool = None THEN tCall[c].version ELSE tPool
          /\ UNCHANGED <<tKind, tVersion, tApproved, tDue, tClean, tAlive, tLink, tDirty>>
      BY <2>3 DEF ToolCall!Connect
    <3>2. pc \in {"begin", "queued"}
      OBVIOUS
    <3> HIDE DEF pc
    <3>3. r \in ToolCall!CallState /\ r.pc = pc /\ tLink[c] = "none"
      BY <2>3, <3>2, DispatchAt DEF ToolCall!Connect, ToolCall!CallState
    <3>4. tCall' = [tCall EXCEPT ![c] = r]
      BY <3>1 DEF DispatchInv, ToolCall!TypeOK
    <3> HIDE DEF r
    <3>5. tPool' \in ToolCall!Version \cup {None}
      BY <3>1 DEF DispatchInv, ToolCall!TypeOK, ToolCall!CallState
    <3>6. (tCall \in [Caller -> ToolCall!CallState])'
      BY <3>3, <3>4 DEF DispatchInv, ToolCall!TypeOK
    <3>7. ToolCall!TypeOK'
      BY <3>1, <3>5, <3>6 DEF DispatchInv, ToolCall!TypeOK
    <3>8. tCall'[c] = r /\ \A d \in Caller \ {c} : tCall'[d] = tCall[d]
      BY <3>4 DEF DispatchInv, ToolCall!TypeOK
    <3>9. r.pc \in InPool
      BY <3>2, <3>3 DEF InPool, ToolCall!Holds
    <3>10. TakenIsHeld'
      BY <3>1, <3>3, <3>8, <3>9 DEF DispatchInv, TakenIsHeld, HeldBy
    <3> QED
      BY <3>7, <3>10 DEF DispatchInv
  <2>4. CASE ToolCall!Graphql(c)
    <3>1. PICK outcome \in {"ok", "isError", "failed"} :
                 tCall' = [tCall EXCEPT ![c].pc = outcome, ![c].token = ToolCall!Injected(c)]
      BY <2>4 DEF ToolCall!Graphql
    <3> DEFINE r == [tCall[c] EXCEPT !.pc = outcome, !.token = ToolCall!Injected(c)]
    <3>2. ToolCall!Injected(c) \in {"none", "resolved", "sent"}
      BY DEF ToolCall!Injected, DispatchInv, ToolCall!TypeOK, ToolCall!CallState
    <3>3. r \in ToolCall!CallState /\ r.pool = "none" /\ tLink[c] = "none"
      BY <2>4, <3>2, DispatchAt DEF ToolCall!Graphql, ToolCall!CallState, ToolCall!Ended
    <3>4. tCall' = [tCall EXCEPT ![c] = r]
      BY <3>1 DEF DispatchInv, ToolCall!TypeOK
    <3>5. tLink' = [tLink EXCEPT ![c] = "none"] /\ Same
      BY <2>4, <3>3 DEF ToolCall!Graphql, DispatchInv, ToolCall!TypeOK
    <3> HIDE DEF r
    <3> QED
      BY <3>3, <3>4, <3>5, DispatchOne
  <2>5. CASE ToolCall!Open(c)
    <3> DEFINE pc == IF tKind \in {"ws", "sse"} THEN "ready" ELSE "pending"
               r == [tCall[c] EXCEPT !.pc = pc, !.token = ToolCall!Injected(c)]
    <3>1. tCall' = [tCall EXCEPT ![c].pc = pc, ![c].token = ToolCall!Injected(c)]
      BY <2>5 DEF ToolCall!Open
    <3>2. ToolCall!Injected(c) \in {"none", "resolved", "sent"}
      BY DEF ToolCall!Injected, DispatchInv, ToolCall!TypeOK, ToolCall!CallState
    <3>3. r \in ToolCall!CallState /\ r.pc \in InSession /\ r.pool = "none"
      BY <2>5, <3>2, DispatchAt DEF ToolCall!Open, ToolCall!CallState, InSession
    <3>4. tCall' = [tCall EXCEPT ![c] = r]
      BY <3>1 DEF DispatchInv, ToolCall!TypeOK
    <3>5. tLink' = [tLink EXCEPT ![c] = "open"] /\ Same
      BY <2>5 DEF ToolCall!Open
    <3> HIDE DEF r, pc
    <3> QED
      BY <3>3, <3>4, <3>5, DispatchOne
  <2>6. CASE ToolCall!Close(c)
    <3>1. PICK pc \in {"ok", "isError", "failed"} : ToolCall!Goto(c, pc)
      BY <2>6 DEF ToolCall!Close
    <3> DEFINE r == [tCall[c] EXCEPT !.pc = pc]
    <3>2. r \in ToolCall!CallState /\ r.pool = "none"
      BY <2>6, DispatchAt DEF ToolCall!Close, ToolCall!CallState, ToolCall!Ended
    <3>3. tCall' = [tCall EXCEPT ![c] = r]
      BY <3>1 DEF ToolCall!Goto, DispatchInv, ToolCall!TypeOK
    <3>4. tLink' = [tLink EXCEPT ![c] = "none"] /\ Same
      BY <2>6 DEF ToolCall!Close
    <3> HIDE DEF r
    <3> QED
      BY <3>2, <3>3, <3>4, DispatchOne
  <2> QED
    BY <1>5, <2>1, <2>2, <2>3, <2>4, <2>5, <2>6 DEF ToolCall!Router
<1>6. ASSUME NEW c \in Caller, ToolCall!Upstream(c)
      PROVE  DispatchInv'
  <2>1. CASE ToolCall!Ready(c) \/ ToolCall!Answer(c) \/ ToolCall!Exchanged(c)
             \/ ToolCall!PostRefused(c)
    BY <2>1, DispatchGoto
    DEF ToolCall!Ready, ToolCall!Answer, ToolCall!Exchanged, ToolCall!PostRefused,
        InSession, InPool, ToolCall!Holds
  <2>2. ASSUME NEW from \in ToolCall!Holds, NEW to \in ToolCall!Holds, NEW open \in BOOLEAN,
               ToolCall!Step(c, from, to, open)
        PROVE  DispatchInv'
    <3>1. CASE ToolCall!Goto(c, "rollback")
      BY <2>2, <3>1, DispatchGoto DEF ToolCall!Step, InSession, InPool, ToolCall!Holds
    <3>2. CASE tCall' = [tCall EXCEPT ![c].pc = to, ![c].tx = open]
      <4> DEFINE r == [tCall[c] EXCEPT !.pc = to, !.tx = open]
      <4>1. r \in ToolCall!CallState /\ r.pc \in InPool /\ tLink[c] = "none"
        BY <2>2, DispatchAt DEF ToolCall!Step, ToolCall!CallState, InPool, ToolCall!Holds
      <4>2. tCall' = [tCall EXCEPT ![c] = r]
        BY <3>2 DEF DispatchInv, ToolCall!TypeOK
      <4>3. tLink' = [tLink EXCEPT ![c] = "none"] /\ Same
        BY <2>2, <4>1 DEF ToolCall!Step, DispatchInv, ToolCall!TypeOK
      <4> HIDE DEF r
      <4> QED
        BY <4>1, <4>2, <4>3, DispatchOne
    <3> QED
      BY <2>2, <3>1, <3>2 DEF ToolCall!Step
  \* finally: what is released was committed or rolled back.
  <2>3. ASSUME NEW pc \in {"ok", "failed"}, tCall[c].pc \in {"commit", "rollback"},
               tCall' = [tCall EXCEPT ![c].pc = pc, ![c].pool = "none", ![c].tx = FALSE],
               UNCHANGED <<tKind, tVersion, tApproved, tDue, tClean, tAlive, tLink, tPool,
                           tDirty>>
        PROVE  DispatchInv'
    <3> DEFINE r == [tCall[c] EXCEPT !.pc = pc, !.pool = "none", !.tx = FALSE]
    <3>1. r \in ToolCall!CallState /\ r.pool = "none" /\ tLink[c] = "none"
      BY <2>3, DispatchAt DEF ToolCall!CallState, ToolCall!Ended
    <3>2. tCall' = [tCall EXCEPT ![c] = r]
      BY <2>3 DEF DispatchInv, ToolCall!TypeOK
    <3>3. tLink' = [tLink EXCEPT ![c] = "none"] /\ Same
      BY <2>3, <3>1 DEF DispatchInv, ToolCall!TypeOK
    <3> HIDE DEF r
    <3> QED
      BY <3>1, <3>2, <3>3, DispatchOne
  <2>4. CASE ToolCall!Query(c)
    <3>1. CASE ToolCall!Committed(c)
      <4>1. tDirty' = tDirty
        BY <3>1 DEF ToolCall!Committed, ToolCall!Released, DispatchInv, ToolCall!TypeOK, TakenIsHeld
      <4> QED
        BY <3>1, <4>1, <2>3 DEF ToolCall!Committed, ToolCall!Released
    <3>2. CASE ToolCall!Rollback(c)
      BY <3>2, <2>3 DEF ToolCall!Rollback
    <3> QED
      BY <2>2, <2>4, <3>1, <3>2 DEF ToolCall!Query, ToolCall!Holds
  <2>5. CASE ToolCall!Break(c)
    <3>1. PICK r \in ToolCall!CallState :
             /\ r.pc \in InSession /\ r.pool = "none"
             /\ tCall' = [tCall EXCEPT ![c] = r]
      <4> DEFINE s == [tCall[c] EXCEPT !.pc = "closingFailed"]
      <4>1. tCall[c].pc \in {"ready", "pending"} /\ tCall[c] \in ToolCall!CallState
            /\ tCall[c].pool = "none"
        BY <2>5, DispatchAt DEF ToolCall!Break
      <4>2. s \in ToolCall!CallState /\ s.pc = "closingFailed" /\ s.pool = "none"
        BY <4>1 DEF ToolCall!CallState
      <4>3. tCall' = [tCall EXCEPT ![c] = tCall[c]] \/ tCall' = [tCall EXCEPT ![c] = s]
        BY <2>5 DEF ToolCall!Break, ToolCall!Goto, DispatchInv, ToolCall!TypeOK
      <4> HIDE DEF s
      <4> QED
        BY <4>1, <4>2, <4>3 DEF InSession
    <3>2. tLink' = [tLink EXCEPT ![c] = "over"] /\ Same
      BY <2>5 DEF ToolCall!Break
    <3> QED
      BY <3>1, <3>2, DispatchOne
  <2> QED
    BY <1>6, <2>1, <2>4, <2>5 DEF ToolCall!Upstream
<1>7. ASSUME NEW c \in Caller, ToolCall!ProcessDies(c)
      PROVE  DispatchInv'
  <2> DEFINE lost == [ToolCall!Idle EXCEPT !.pc = "lost"]
  <2>1. lost \in ToolCall!CallState /\ lost.pool = "none"
    BY DEF ToolCall!Idle, ToolCall!CallState, ToolCall!Ended
  <2>2. tCall' = [d \in Caller |-> IF tCall[d].pc \in ToolCall!Ended \cup {"idle"}
                                THEN tCall[d] ELSE lost]
    BY <1>7 DEF ToolCall!ProcessDies
  <2> HIDE DEF lost
  <2>3. ToolCall!TypeOK'
    BY <1>7, <2>1, <2>2 DEF ToolCall!ProcessDies, DispatchInv, ToolCall!TypeOK
  <2>4. TakenIsHeld'
    BY <1>7, <2>1, <2>2 DEF ToolCall!ProcessDies, DispatchInv, TakenIsHeld, HeldBy, ToolCall!TypeOK
  <2> QED
    BY <2>3, <2>4 DEF DispatchInv
<1> QED
  BY <1>1, <1>2, <1>3, <1>4, <1>5, <1>6, <1>7, <1>8, <1>9 DEF ToolCall!Next

\* The dispatch by itself keeps it for ever.
LEMMA DispatchInvariant == ToolCall!ToolCallSpec => []DispatchInv
  BY DispatchInit, DispatchStep, PTL DEF ToolCall!ToolCallSpec

\* The steps of the whole are, for the dispatch, its own or none.
LEMMA GatewayDispatches == GatewaySpec => ToolCall!ToolCallSpec
<1>1. MCInit => ToolCall!Init
  BY DEF MCInit
<1>2. [MCNext]_<<part, vars, caches, dispatch, plugin, sse>> => [ToolCall!Next]_(ToolCall!vars)
  BY DEF MCNext, dispatch, ToolCall!vars
<1> QED
  BY <1>1, <1>2, PTL DEF GatewaySpec, ToolCall!ToolCallSpec

\* Whatever the transport, the size of a pool, the versions of the row and what overlaps,
\* a call that has ended has closed its session and given its client back, and no client
\* goes back in a transaction ("finally" of dispatchNativeMcp() and dispatchSql()).
THEOREM EndedCallsHoldNothingAlways == GatewaySpec => []EndedCallsHoldNothing
<1>1. DispatchInv => EndedCallsHoldNothing
  BY DEF DispatchInv, TakenIsHeld, HeldBy, EndedCallsHoldNothing, ToolCall!EndedCallsHoldNothing,
         ToolCall!Ended, InSession, InPool, ToolCall!Holds, ToolCall!TypeOK
<1> QED
  BY <1>1, DispatchInvariant, GatewayDispatches, PTL

\* A call goes on with the row it has read: it is past the gates, or they let it pass.
GoesOn(c) ==
    /\ tCall[c].pc \in ToolCall!Underway
    /\ tCall[c].pc = "gates" => tCall[c].approved

\* The pool, the row as long as it is approved, and every call that goes on are of version v.
IsOf(v) ==
    /\ tPool \in {None, v}
    /\ tApproved => tVersion = v
    /\ \A c \in Caller : GoesOn(c) => tCall[c].version = v

\* PoolIsOfRow says nothing of a pool that nobody is about to take, of the row, and of calls
\* that have yet to come to the pool; this does.
PoolInv == tClean => \E v \in ToolCall!Version : IsOf(v)

\* A step that approves nothing, fills no pool and sends no call on with another row.
LEMMA PoolKept ==
    ASSUME PoolInv, tClean' => tClean,
           tApproved' => tApproved /\ tVersion' = tVersion,
           tPool' \in {None, tPool},
           \A c \in Caller : GoesOn(c)' => GoesOn(c) /\ tCall'[c].version = tCall[c].version
    PROVE  PoolInv'
<1> SUFFICES ASSUME tClean' PROVE \E v \in ToolCall!Version : IsOf(v)'
  BY DEF PoolInv, ToolCall!Version
<1>1. PICK v \in ToolCall!Version : IsOf(v)
  BY DEF PoolInv
<1>2. IsOf(v)'
  BY <1>1 DEF IsOf
<1> QED
  BY <1>2

\* A call that ends, or goes past getPool(), goes on with no row.
LEMMA PoolOne ==
    ASSUME DispatchInv, PoolInv, NEW c \in Caller, NEW r, r.pc \notin ToolCall!Underway,
           tCall' = tCall \/ tCall' = [tCall EXCEPT ![c] = r],
           UNCHANGED <<tVersion, tApproved, tClean, tPool>>
    PROVE  PoolInv'
<1>1. ASSUME NEW d \in Caller, GoesOn(d)'
      PROVE  GoesOn(d) /\ tCall'[d].version = tCall[d].version
  <2>1. CASE tCall'[d] = tCall[d]
    BY <1>1, <2>1 DEF GoesOn
  <2>2. CASE tCall'[d] = r
    BY <1>1, <2>2 DEF GoesOn
  <2> QED
    BY <2>1, <2>2 DEF DispatchInv, ToolCall!TypeOK
<1> QED
  BY <1>1, PoolKept

\* The same of a call of which only its place is new.
LEMMA PoolGoto ==
    ASSUME DispatchInv, PoolInv, NEW c \in Caller,
           NEW pc \in ToolCall!Ended \cup {"queued", "begin", "query", "commit", "rollback",
                                          "ready", "pending", "closing", "closingFailed"},
           ToolCall!Goto(c, pc),
           UNCHANGED <<tVersion, tApproved, tClean, tPool>>
    PROVE  PoolInv'
<1> DEFINE r == [tCall[c] EXCEPT !.pc = pc]
<1>1. r.pc \notin ToolCall!Underway
  BY DEF DispatchInv, ToolCall!TypeOK, ToolCall!CallState, ToolCall!Underway, ToolCall!Ended
<1>2. tCall' = [tCall EXCEPT ![c] = r]
  BY DEF ToolCall!Goto, DispatchInv, ToolCall!TypeOK
<1> HIDE DEF r
<1> QED
  BY <1>1, <1>2, PoolOne

\* It holds before the first call.
LEMMA PoolInit == ToolCall!Init => PoolInv
<1> SUFFICES ASSUME ToolCall!Init PROVE PoolInv
  OBVIOUS
<1>1. 1 \in ToolCall!Version
  BY GatewayAssumption DEF ToolCall!ToolCallAssumption, ToolCall!Version
<1>2. \A c \in Caller : ~GoesOn(c)
  BY DEF ToolCall!Init, ToolCall!Idle, ToolCall!Underway, GoesOn
<1>3. IsOf(1)
  BY <1>2 DEF ToolCall!Init, IsOf
<1> QED
  BY <1>1, <1>3 DEF PoolInv

\* Every step of the registry, a call and an invalidation keeps it.
LEMMA PoolStep == DispatchInv /\ PoolInv /\ [ToolCall!Next]_(ToolCall!vars) => PoolInv'
<1> USE DEF ToolCall!At, ToolCall!row, ToolCall!pools
<1> SUFFICES ASSUME DispatchInv, PoolInv, [ToolCall!Next]_(ToolCall!vars)
             PROVE  PoolInv'
  OBVIOUS
<1> DEFINE Rest == UNCHANGED <<tVersion, tApproved, tClean, tPool>>
<1>1. CASE UNCHANGED ToolCall!vars
  <2>1. \A c \in Caller : GoesOn(c)' => GoesOn(c) /\ tCall'[c].version = tCall[c].version
    BY <1>1 DEF ToolCall!vars, GoesOn
  <2> QED
    BY <1>1, <2>1, PoolKept DEF ToolCall!vars
\* The row is not approved any more: the calls that go on have read it before.
<1>2. ASSUME NEW announced \in BOOLEAN, ToolCall!Update(announced)
      PROVE  PoolInv'
  <2>1. \A c \in Caller : GoesOn(c)' => GoesOn(c) /\ tCall'[c].version = tCall[c].version
    BY <1>2 DEF ToolCall!Update, GoesOn
  <2> QED
    BY <1>2, <2>1, PoolKept DEF ToolCall!Update
<1>3. CASE ToolCall!Approve \/ ToolCall!Probed
  BY <1>3 DEF ToolCall!Approve, ToolCall!Probed, PoolInv
<1>4. CASE ToolCall!InvalidateFails
  <2>1. \A c \in Caller : GoesOn(c)' => GoesOn(c) /\ tCall'[c].version = tCall[c].version
    BY <1>4 DEF ToolCall!InvalidateFails, GoesOn
  <2> QED
    BY <1>4, <2>1, PoolKept DEF ToolCall!InvalidateFails
\* An invalidation makes it so when no call has an older row, and leaves it so.
<1>5. CASE ToolCall!Invalidate
  <2>1. ASSUME NEW c \in Caller
        PROVE  tCall'[c] = [tCall[c] EXCEPT !.pool = IF tCall[c].pool = "map" THEN "ended"
                                                     ELSE tCall[c].pool]
    BY <1>5 DEF ToolCall!Invalidate
  <2>2. ASSUME NEW c \in Caller
        PROVE  /\ tCall'[c].pc = tCall[c].pc /\ tCall'[c].version = tCall[c].version
               /\ tCall'[c].approved = tCall[c].approved
    BY <2>1 DEF DispatchInv, ToolCall!TypeOK, ToolCall!CallState
  <2>3. \A c \in Caller : GoesOn(c)' => GoesOn(c) /\ tCall'[c].version = tCall[c].version
    BY <2>2 DEF GoesOn
  <2>4. CASE tClean
    BY <1>5, <2>3, <2>4, PoolKept DEF ToolCall!Invalidate
  <2>5. CASE ToolCall!NoneOlder
    <3>1. IsOf(tVersion)'
      BY <1>5, <2>3, <2>5 DEF ToolCall!Invalidate, ToolCall!NoneOlder, IsOf, GoesOn
    <3>2. tVersion' \in ToolCall!Version /\ tVersion' = tVersion
      BY <1>5 DEF ToolCall!Invalidate, DispatchInv, ToolCall!TypeOK
    <3> QED
      BY <3>1, <3>2 DEF PoolInv
  <2>6. CASE ~tClean /\ ~ToolCall!NoneOlder
    BY <1>5, <2>6 DEF ToolCall!Invalidate, PoolInv
  <2> QED
    BY <2>4, <2>5, <2>6
\* registry.get() gives the row as it is.
<1>6. ASSUME NEW c \in Caller, ToolCall!Start(c)
      PROVE  PoolInv'
  <2> DEFINE r == [ToolCall!Idle EXCEPT !.pc = "gates", !.version = tVersion,
                                      !.approved = tApproved]
  <2>1. r.pc = "gates" /\ r.version = tVersion /\ r.approved = tApproved
    BY DEF ToolCall!Idle
  <2>2. tCall' = [tCall EXCEPT ![c] = r] /\ Rest
    BY <1>6 DEF ToolCall!Start
  <2> HIDE DEF r
  <2> SUFFICES ASSUME tClean' PROVE \E v \in ToolCall!Version : IsOf(v)'
    BY DEF PoolInv, ToolCall!Version
  <2>3. PICK v \in ToolCall!Version : IsOf(v)
    BY <2>2 DEF PoolInv
  <2>4. ASSUME NEW d \in Caller, GoesOn(d)'
        PROVE  tCall'[d].version = v
    <3>1. CASE d = c
      <4>1. tCall'[d] = r
        BY <2>2, <3>1 DEF DispatchInv, ToolCall!TypeOK
      <4>2. tApproved
        BY <2>1, <2>4, <4>1 DEF GoesOn
      <4> QED
        BY <2>1, <2>3, <4>1, <4>2 DEF IsOf
    <3>2. CASE d # c
      <4>1. tCall'[d] = tCall[d]
        BY <2>2, <3>2 DEF DispatchInv, ToolCall!TypeOK
      <4>2. GoesOn(d)
        BY <2>4, <4>1 DEF GoesOn
      <4> QED
        BY <2>3, <4>1, <4>2 DEF IsOf
    <3> QED
      BY <3>1, <3>2
  <2>5. IsOf(v)'
    BY <2>2, <2>3, <2>4 DEF IsOf
  <2> QED
    BY <2>5
<1>7. ASSUME NEW c \in Caller, ToolCall!Router(c)
      PROVE  PoolInv'
  \* The gates and the credential: the same row as before.
  <2>1. ASSUME NEW r, Rest, tCall' = [tCall EXCEPT ![c] = r],
               tCall[c].pc = "gates" => tCall[c].approved,
               tCall[c].pc \in {"gates", "resolve"}, r.version = tCall[c].version
        PROVE  PoolInv'
    <3>1. ASSUME NEW d \in Caller, GoesOn(d)'
          PROVE  GoesOn(d) /\ tCall'[d].version = tCall[d].version
      <4>1. CASE d = c
        BY <2>1, <4>1 DEF GoesOn, ToolCall!Underway, DispatchInv, ToolCall!TypeOK
      <4>2. CASE d # c
        <5>1. tCall'[d] = tCall[d]
          BY <2>1, <4>2 DEF DispatchInv, ToolCall!TypeOK
        <5> QED
          BY <3>1, <5>1 DEF GoesOn
      <4> QED
        BY <4>1, <4>2
    <3> QED
      BY <2>1, <3>1, PoolKept
  <2>2. CASE ToolCall!Gates(c)
    <3>1. CASE ToolCall!Goto(c, "refused")
      BY <2>2, <3>1, PoolGoto DEF ToolCall!Gates, ToolCall!Ended
    <3>2. CASE tCall[c].approved /\ ToolCall!Goto(c, "resolve")
      <4> DEFINE r == [tCall[c] EXCEPT !.pc = "resolve"]
      <4>1. r.version = tCall[c].version /\ tCall' = [tCall EXCEPT ![c] = r]
        BY <3>2 DEF ToolCall!Goto, DispatchInv, ToolCall!TypeOK, ToolCall!CallState
      <4> HIDE DEF r
      <4> QED
        BY <2>1, <2>2, <3>2, <4>1 DEF ToolCall!Gates
    <3> QED
      BY <2>2, <3>1, <3>2 DEF ToolCall!Gates
  <2>3. CASE ToolCall!Resolved(c)
    <3>1. CASE ToolCall!Goto(c, "refused")
      BY <2>3, <3>1, PoolGoto DEF ToolCall!Resolved, ToolCall!Ended
    <3>2. ASSUME NEW token \in {"none", "resolved"},
                 tCall' = [tCall EXCEPT ![c].pc = "execute", ![c].token = token]
          PROVE  PoolInv'
      <4> DEFINE r == [tCall[c] EXCEPT !.pc = "execute", !.token = token]
      <4>1. r.version = tCall[c].version /\ tCall' = [tCall EXCEPT ![c] = r]
        BY <3>2 DEF DispatchInv, ToolCall!TypeOK, ToolCall!CallState
      <4> HIDE DEF r
      <4> QED
        BY <2>1, <2>3, <4>1 DEF ToolCall!Resolved
    <3> QED
      BY <2>3, <3>1, <3>2 DEF ToolCall!Resolved
  \* getPool(): the pool that is there is of the call's row, as a new one is.
  <2>4. CASE ToolCall!Connect(c)
    <3> DEFINE pc == IF ToolCall!Busy < PoolMax THEN "begin" ELSE "queued"
               r == [tCall[c] EXCEPT !.pool = "map", !.pc = pc]
    <3>1. /\ tCall' = [tCall EXCEPT ![c].pool = "map", ![c].pc = pc]
          /\ tPool' = IF tPool = None THEN tCall[c].version ELSE tPool
          /\ UNCHANGED <<tVersion, tApproved, tClean>>
      BY <2>4 DEF ToolCall!Connect
    <3>2. pc \notin ToolCall!Underway
      BY DEF ToolCall!Underway
    <3> HIDE DEF pc
    <3>3. r.pc \notin ToolCall!Underway /\ tCall' = [tCall EXCEPT ![c] = r]
      BY <3>1, <3>2 DEF DispatchInv, ToolCall!TypeOK, ToolCall!CallState
    <3> HIDE DEF r
    <3> SUFFICES ASSUME tClean' PROVE \E v \in ToolCall!Version : IsOf(v)'
      BY DEF PoolInv, ToolCall!Version
    <3>4. PICK v \in ToolCall!Version : IsOf(v)
      BY <3>1 DEF PoolInv
    <3>5. tCall[c].version = v
      BY <2>4, <3>4 DEF ToolCall!Connect, ToolCall!Underway, IsOf, GoesOn
    <3>6. ASSUME NEW d \in Caller, GoesOn(d)'
          PROVE  GoesOn(d) /\ tCall'[d] = tCall[d]
      <4>1. tCall'[d] = tCall[d] \/ tCall'[d] = r
        BY <3>3 DEF DispatchInv, ToolCall!TypeOK
      <4>2. tCall'[d] # r
        BY <3>3, <3>6 DEF GoesOn
      <4> QED
        BY <3>6, <4>1, <4>2 DEF GoesOn
    <3>7. IsOf(v)'
      BY <3>1, <3>4, <3>5, <3>6 DEF IsOf
    <3> QED
      BY <3>7
  <2>5. CASE ToolCall!CircuitOpen(c) \/ ToolCall!ConnectFails(c) \/ ToolCall!Serve(c)
             \/ ToolCall!OpenApi(c) \/ ToolCall!OpenFails(c) \/ ToolCall!Close(c)
    BY <2>5, PoolGoto
    DEF ToolCall!CircuitOpen, ToolCall!ConnectFails, ToolCall!Serve, ToolCall!OpenApi,
        ToolCall!OpenFails, ToolCall!Close, ToolCall!Ended
  <2>6. ASSUME NEW pc \in {"ok", "isError", "failed", "ready", "pending"}, NEW token, Rest,
               tCall' = [tCall EXCEPT ![c].pc = pc, ![c].token = token]
        PROVE  PoolInv'
    <3> DEFINE r == [tCall[c] EXCEPT !.pc = pc, !.token = token]
    <3>1. r.pc \notin ToolCall!Underway /\ tCall' = [tCall EXCEPT ![c] = r]
      BY <2>6 DEF DispatchInv, ToolCall!TypeOK, ToolCall!CallState, ToolCall!Underway
    <3> HIDE DEF r
    <3> QED
      BY <2>6, <3>1, PoolOne
  <2>7. CASE ToolCall!Graphql(c) \/ ToolCall!Open(c)
    BY <2>6, <2>7 DEF ToolCall!Graphql, ToolCall!Open
  <2> QED
    BY <1>7, <2>2, <2>3, <2>4, <2>5, <2>7 DEF ToolCall!Router
<1>8. ASSUME NEW c \in Caller, ToolCall!Upstream(c)
      PROVE  PoolInv'
  <2>1. CASE ToolCall!Ready(c) \/ ToolCall!Answer(c) \/ ToolCall!Exchanged(c)
             \/ ToolCall!PostRefused(c)
    BY <2>1, PoolGoto
    DEF ToolCall!Ready, ToolCall!Answer, ToolCall!Exchanged, ToolCall!PostRefused
  <2>2. CASE ToolCall!Break(c)
    <3>1. CASE UNCHANGED tCall
      BY <2>2, <3>1, PoolOne, [pc |-> "ok"].pc \notin ToolCall!Underway
      DEF ToolCall!Break, ToolCall!Underway
    <3>2. CASE ToolCall!Goto(c, "closingFailed")
      BY <2>2, <3>2, PoolGoto DEF ToolCall!Break
    <3> QED
      BY <2>2, <3>1, <3>2 DEF ToolCall!Break
  <2>3. ASSUME NEW to \in ToolCall!Holds, NEW from \in ToolCall!Holds, NEW open \in BOOLEAN,
               ToolCall!Step(c, from, to, open)
        PROVE  PoolInv'
    <3>1. CASE ToolCall!Goto(c, "rollback")
      BY <2>3, <3>1, PoolGoto DEF ToolCall!Step
    <3>2. CASE tCall' = [tCall EXCEPT ![c].pc = to, ![c].tx = open]
      <4> DEFINE r == [tCall[c] EXCEPT !.pc = to, !.tx = open]
      <4>1. r.pc \notin ToolCall!Underway /\ tCall' = [tCall EXCEPT ![c] = r]
        BY <3>2 DEF DispatchInv, ToolCall!TypeOK, ToolCall!CallState, ToolCall!Underway,
                    ToolCall!Holds
      <4> HIDE DEF r
      <4> QED
        BY <2>3, <4>1, PoolOne DEF ToolCall!Step
    <3> QED
      BY <2>3, <3>1, <3>2 DEF ToolCall!Step
  <2>4. ASSUME NEW pc \in {"ok", "failed"}, Rest,
               tCall' = [tCall EXCEPT ![c].pc = pc, ![c].pool = "none", ![c].tx = FALSE]
        PROVE  PoolInv'
    <3> DEFINE r == [tCall[c] EXCEPT !.pc = pc, !.pool = "none", !.tx = FALSE]
    <3>1. r.pc \notin ToolCall!Underway /\ tCall' = [tCall EXCEPT ![c] = r]
      BY <2>4 DEF DispatchInv, ToolCall!TypeOK, ToolCall!CallState, ToolCall!Underway
    <3> HIDE DEF r
    <3> QED
      BY <2>4, <3>1, PoolOne
  <2>5. CASE ToolCall!Query(c)
    <3>1. CASE ToolCall!Committed(c) \/ ToolCall!Rollback(c)
      BY <2>4, <3>1 DEF ToolCall!Committed, ToolCall!Released, ToolCall!Rollback
    <3> QED
      BY <2>3, <2>5, <3>1 DEF ToolCall!Query, ToolCall!Holds
  <2> QED
    BY <1>8, <2>1, <2>2, <2>5 DEF ToolCall!Upstream
<1>9. ASSUME NEW c \in Caller, ToolCall!ProcessDies(c)
      PROVE  PoolInv'
  <2> DEFINE lost == [ToolCall!Idle EXCEPT !.pc = "lost"]
  <2>1. lost.pc = "lost"
    BY DEF ToolCall!Idle
  <2>2. tCall' = [d \in Caller |-> IF tCall[d].pc \in ToolCall!Ended \cup {"idle"}
                                  THEN tCall[d] ELSE lost]
    BY <1>9 DEF ToolCall!ProcessDies
  <2> HIDE DEF lost
  <2>3. \A d \in Caller : GoesOn(d)' => GoesOn(d) /\ tCall'[d].version = tCall[d].version
    BY <2>1, <2>2 DEF GoesOn, ToolCall!Underway
  <2> QED
    BY <1>9, <2>3, PoolKept DEF ToolCall!ProcessDies
<1> QED
  BY <1>1, <1>2, <1>3, <1>4, <1>5, <1>6, <1>7, <1>8, <1>9 DEF ToolCall!Next

\* Whatever the feed and administrators write, whichever announcements are lost or come
\* twice, however many calls are under way: after an invalidation that found no call with an
\* earlier row, and until the next approval writes, a call that comes to getPool() finds no pool,
\* or one that connects to what its own row says (SqlDispatcher.getPool()).
THEOREM PoolIsOfRowAlways == GatewaySpec => []PoolIsOfRow
<1> DEFINE Inv == DispatchInv /\ PoolInv
<1>1. ToolCall!Init => Inv
  BY DispatchInit, PoolInit
<1>2. Inv /\ [ToolCall!Next]_(ToolCall!vars) => Inv'
  BY DispatchStep, PoolStep
<1>3. Inv => PoolIsOfRow
  BY DEF PoolInv, IsOf, GoesOn, PoolIsOfRow, ToolCall!PoolIsOfRow, ToolCall!At, ToolCall!Underway
<1> QED
  BY <1>1, <1>2, <1>3, GatewayDispatches, PTL DEF ToolCall!ToolCallSpec

-----------------------------------------------------------------------------
(* The plugin *)

\* One process serves, and an administrator asks when nothing is on its way.
OneAtATime == PluginOverlap = FALSE /\ \A n, m \in Node : n = m

\* At most one request is under way, the boot's before the process serves.
OneUnderway ==
    /\ \A a, b \in Plugin!Actor : Plugin!Underway(a) /\ Plugin!Underway(b) => a = b
    /\ \A n \in Node :
         /\ pUp[n] <=> Plugin!At(n, "idle")
         /\ ~Plugin!At(n, "upsert") => pRow \in Plugin!Switch
         /\ pRequest[n].pc \in {"upsert", "states", "import"} =>
              pEnabled[n] = "off" /\ ~pLoaded[n]
         /\ ~Plugin!At(n, "idle") => pRequest[n].node = n
         /\ \A o \in Operator : Plugin!Underway(o) => pUp[n] /\ pRequest[o].node = n
    /\ \A o \in Operator : pRequest[o].pc \in {"idle", "hook", "store"}

\* The row says what was answered; memory says what the row does, or will when it is written.
MemoryFollowsRow ==
    /\ pChoice # None => pRow = pChoice
    /\ \A o \in Operator : Plugin!Underway(o) => pChoice = None
    /\ \A n \in Node :
         /\ pRequest[n].pc \in {"import", "hook", "store"} => pRequest[n].op = pRow
         /\ \A a \in Plugin!Actor : Plugin!At(a, "store") => pEnabled[n] = pRequest[a].op
         /\ Plugin!Quiet /\ pUp[n] /\ pLoaded[n] => pEnabled[n] = pRow

PluginInv == Plugin!TypeOK /\ OneUnderway /\ (pFailed \/ MemoryFollowsRow)

\* It holds before the first request.
LEMMA PluginInit == Plugin!Init => PluginInv
<1> SUFFICES ASSUME Plugin!Init
             PROVE  PluginInv
  OBVIOUS
<1>0. Node \cap Operator = {}
  BY GatewayAssumption DEF Plugin!PluginAssumption
<1>1. pRequest \in [Plugin!Actor -> Plugin!Requests]
  <2>1. Plugin!Idle \in Plugin!Requests
    BY DEF Plugin!Idle, Plugin!Requests, Plugin!Switch
  <2>2. \A a \in Node : [Plugin!Idle EXCEPT !.pc = "upsert", !.node = a] \in Plugin!Requests
    BY DEF Plugin!Idle, Plugin!Requests, Plugin!Switch
  <2> QED
    BY <2>1, <2>2 DEF Plugin!Init
<1>2. /\ \A n \in Node : pRequest[n].pc = "upsert" /\ pRequest[n].node = n /\ n \in Plugin!Actor
      /\ \A o \in Operator : pRequest[o].pc = "idle" /\ o \in Plugin!Actor
  BY <1>0 DEF Plugin!Init, Plugin!Idle, Plugin!Actor
<1>3. \A a \in Plugin!Actor : ~Plugin!Underway(a) /\ ~Plugin!At(a, "store")
  BY <1>2 DEF Plugin!Underway, Plugin!At, Plugin!Actor
<1>4. Plugin!TypeOK
  BY <1>1 DEF Plugin!Init, Plugin!TypeOK, Plugin!Switch
<1>5. \A n \in Node : ~pUp[n] /\ ~pLoaded[n] /\ pEnabled[n] = "off"
  BY DEF Plugin!Init
<1>6. OneUnderway
  BY <1>2, <1>3, <1>5 DEF OneUnderway, Plugin!At, Plugin!Actor
<1>7. MemoryFollowsRow
  BY <1>2, <1>3, <1>5 DEF MemoryFollowsRow, Plugin!Init, Plugin!Actor
<1> QED
  BY <1>4, <1>6, <1>7 DEF PluginInv

\* A request of a plugin that is under way is the only one.
LEMMA PluginAlone ==
    ASSUME PluginInv, NEW a \in Plugin!Actor, Plugin!Underway(a), OneAtATime
    PROVE  /\ \A b \in Plugin!Actor : b # a => pRequest[b].pc \in {"idle", "upsert"}
           /\ a \in Operator => \A n \in Node : pRequest[n].pc = "idle" /\ pUp[n]
           /\ a \in Node => \A o \in Operator : pRequest[o].pc = "idle"
<1> USE DEF PluginInv, OneUnderway, Plugin!Underway, Plugin!At, Plugin!Actor, Plugin!TypeOK
<1>1. \A b \in Plugin!Actor : b # a => pRequest[b].pc \in {"idle", "upsert"}
  OBVIOUS
<1>2. a \in Operator => \A n \in Node : pRequest[n].pc = "idle" /\ pUp[n]
  OBVIOUS
<1>3. a \in Node => \A o \in Operator : pRequest[o].pc = "idle"
  BY <1>1, GatewayAssumption DEF Plugin!PluginAssumption
<1> QED
  BY <1>1, <1>2, <1>3

\* A step moves one request, and leaves what it asks for.
LEMMA PluginMoves ==
    ASSUME Plugin!TypeOK, NEW a \in Plugin!Actor,
           NEW p \in {"idle", "upsert", "states", "import", "hook", "store"},
           pRequest' = [pRequest EXCEPT ![a].pc = p]
    PROVE  /\ pRequest' \in [Plugin!Actor -> Plugin!Requests]
           /\ \A b \in Plugin!Actor :
                /\ pRequest'[b].pc = IF b = a THEN p ELSE pRequest[b].pc
                /\ pRequest'[b].op = pRequest[b].op
                /\ pRequest'[b].node = pRequest[b].node
<1> DEFINE r == [pRequest[a] EXCEPT !.pc = p]
<1>1. pRequest[a] \in Plugin!Requests /\ pRequest \in [Plugin!Actor -> Plugin!Requests]
  BY DEF Plugin!TypeOK
<1>2. /\ r \in Plugin!Requests /\ r.pc = p /\ r.op = pRequest[a].op
      /\ r.node = pRequest[a].node
  BY <1>1 DEF Plugin!Requests
<1>3. pRequest' = [pRequest EXCEPT ![a] = r]
  BY <1>1
<1> HIDE DEF r
<1>4. pRequest' \in [Plugin!Actor -> Plugin!Requests]
  BY <1>1, <1>2, <1>3
<1>5. \A b \in Plugin!Actor : pRequest'[b] = IF b = a THEN r ELSE pRequest[b]
  BY <1>1, <1>3
<1> QED
  BY <1>2, <1>4, <1>5

\* A request ends.
LEMMA PluginEnds ==
    ASSUME Plugin!TypeOK, NEW a \in Plugin!Actor, Plugin!Finish(a)
    PROVE  /\ pRequest' \in [Plugin!Actor -> Plugin!Requests]
           /\ \A b \in Plugin!Actor : b # a => pRequest'[b] = pRequest[b]
           /\ pRequest'[a].pc = "idle"
           /\ pUp' \in [Node -> BOOLEAN]
           /\ \A n \in Node : pUp'[n] <=> pUp[n] \/ n = a
<1>1. Plugin!Idle \in Plugin!Requests /\ Plugin!Idle.pc = "idle"
  BY DEF Plugin!Idle, Plugin!Requests, Plugin!Switch
<1>2. /\ pRequest \in [Plugin!Actor -> Plugin!Requests] /\ pUp \in [Node -> BOOLEAN]
      /\ pRequest' = [pRequest EXCEPT ![a] = Plugin!Idle]
      /\ pUp' = IF a \in Node THEN [pUp EXCEPT ![a] = TRUE] ELSE pUp
  BY DEF Plugin!TypeOK, Plugin!Finish
<1>3. /\ pRequest' \in [Plugin!Actor -> Plugin!Requests]
      /\ \A b \in Plugin!Actor : b # a => pRequest'[b] = pRequest[b]
      /\ pRequest'[a].pc = "idle"
  BY <1>1, <1>2
<1>4. pUp' \in [Node -> BOOLEAN] /\ \A n \in Node : pUp'[n] <=> pUp[n] \/ n = a
  BY <1>2
<1> QED
  BY <1>3, <1>4

\* Every step of a request, a boot and a crash keeps it, when no two requests overlap.
LEMMA PluginStep ==
    ASSUME PluginInv, OneAtATime, [Plugin!Next]_(Plugin!vars)
    PROVE  PluginInv'
<1>0. /\ Plugin!TypeOK /\ OneUnderway /\ (pFailed \/ MemoryFollowsRow)
      /\ Node \cap Operator = {} /\ PluginOverlap = FALSE /\ \A n, m \in Node : n = m
  BY GatewayAssumption DEF PluginInv, OneAtATime, Plugin!PluginAssumption
<1>1. CASE UNCHANGED Plugin!vars
  BY <1>0, <1>1 DEF PluginInv, Plugin!vars, Plugin!memory, Plugin!TypeOK, OneUnderway,
                    MemoryFollowsRow, Plugin!Underway, Plugin!At, Plugin!Quiet
<1>2. ASSUME NEW n \in Node, Plugin!Upsert(n)
      PROVE  PluginInv'
  <2>1. /\ pRequest' = [pRequest EXCEPT ![n].pc = "states"]
        /\ pRow' = IF pRow = None THEN "on" ELSE pRow
        /\ UNCHANGED <<pUp, pLoaded, pEnabled, pItems, pRounds, pChoice, pFailed>>
        /\ Plugin!Quiet /\ pRequest[n].pc = "upsert"
    BY <1>0, <1>2 DEF Plugin!Upsert, Plugin!Upserted, Plugin!Goto, Plugin!memory, Plugin!At
  <2>2. /\ pRequest' \in [Plugin!Actor -> Plugin!Requests]
        /\ \A a \in Plugin!Actor :
             /\ pRequest'[a].pc = IF a = n THEN "states" ELSE pRequest[a].pc
             /\ pRequest'[a].op = pRequest[a].op
             /\ pRequest'[a].node = pRequest[a].node
    BY <1>0, <2>1, PluginMoves DEF Plugin!Actor
  <2>3. pRow' \in Plugin!Switch
    BY <1>0, <2>1 DEF Plugin!TypeOK, Plugin!Switch
  <2>4. Plugin!TypeOK'
    BY <1>0, <2>1, <2>2, <2>3 DEF Plugin!TypeOK
  <2>5. \A a \in Plugin!Actor : pRequest[a].pc \in {"idle", "upsert"}
    BY <2>1 DEF Plugin!Quiet, Plugin!Underway
  <2>6. \A a, b \in Plugin!Actor : Plugin!Underway(a)' /\ Plugin!Underway(b)' => a = b
    BY <2>2, <2>5 DEF Plugin!Underway
  <2>7. \A m \in Node :
         /\ pUp'[m] <=> Plugin!At(m, "idle")'
         /\ ~Plugin!At(m, "upsert")' => pRow' \in Plugin!Switch
         /\ pRequest'[m].pc \in {"upsert", "states", "import"} =>
              pEnabled'[m] = "off" /\ ~pLoaded'[m]
         /\ ~Plugin!At(m, "idle")' => pRequest'[m].node = m
         /\ \A o \in Operator : Plugin!Underway(o)' => pUp'[m] /\ pRequest'[o].node = m
    BY <1>0, <2>1, <2>2, <2>3, <2>5 DEF Plugin!Underway, Plugin!At, Plugin!Actor, OneUnderway
  <2>8. \A o \in Operator : pRequest'[o].pc \in {"idle", "hook", "store"}
    BY <1>0, <2>2 DEF OneUnderway, Plugin!Actor
  <2>9. OneUnderway'
    BY <2>6, <2>7, <2>8 DEF OneUnderway
  <2>10. MemoryFollowsRow => MemoryFollowsRow'
    BY <1>0, <2>1, <2>2, <2>5 DEF OneUnderway, MemoryFollowsRow, Plugin!Underway, Plugin!At,
                            Plugin!Quiet, Plugin!Actor
  <2> QED
    BY <1>0, <2>1, <2>4, <2>9, <2>10 DEF PluginInv
<1>3. ASSUME NEW n \in Node, Plugin!States(n)
      PROVE  PluginInv'
  <2>1. /\ pRequest' = [pRequest EXCEPT ![n].pc = "import", ![n].op = pRow]
        /\ UNCHANGED <<pRow, pUp, pLoaded, pEnabled, pItems, pRounds, pChoice, pFailed>>
        /\ pRequest[n].pc = "states" /\ n \in Plugin!Actor /\ Plugin!Underway(n)
    BY <1>3 DEF Plugin!States, Plugin!memory, Plugin!At, Plugin!Underway, Plugin!Actor
  <2>2. /\ \A a \in Plugin!Actor : a # n => pRequest[a].pc \in {"idle", "upsert"}
        /\ pRow \in Plugin!Switch /\ pRequest[n] \in Plugin!Requests
        /\ pRequest \in [Plugin!Actor -> Plugin!Requests]
    BY <1>0, <2>1, PluginAlone DEF OneUnderway, Plugin!At, Plugin!TypeOK
  <2> DEFINE r == [pRequest[n] EXCEPT !.pc = "import", !.op = pRow]
  <2>3. /\ r \in Plugin!Requests /\ r.pc = "import" /\ r.op = pRow
        /\ r.node = pRequest[n].node
    BY <2>2 DEF Plugin!Requests
  <2>4. pRequest' = [pRequest EXCEPT ![n] = r]
    BY <2>1, <2>2
  <2> HIDE DEF r
  <2>5. /\ pRequest' \in [Plugin!Actor -> Plugin!Requests]
        /\ \A a \in Plugin!Actor : pRequest'[a] = IF a = n THEN r ELSE pRequest[a]
    BY <2>2, <2>3, <2>4
  <2>6. Plugin!TypeOK'
    BY <1>0, <2>1, <2>5 DEF Plugin!TypeOK
  <2>7. OneUnderway'
    BY <1>0, <2>1, <2>2, <2>3, <2>5 DEF OneUnderway, Plugin!Underway, Plugin!At, Plugin!Actor
  <2>8. MemoryFollowsRow => MemoryFollowsRow'
    BY <1>0, <2>1, <2>2, <2>3, <2>5 DEF OneUnderway, MemoryFollowsRow, Plugin!Underway,
                                       Plugin!At, Plugin!Quiet, Plugin!Actor
  <2> QED
    BY <1>0, <2>1, <2>6, <2>7, <2>8 DEF PluginInv
<1>4. ASSUME NEW n \in Node, Plugin!Import(n) \/ Plugin!ImportFails(n)
      PROVE  PluginInv'
  <2>1. /\ pLoaded' = [pLoaded EXCEPT ![n] = TRUE] \/ pLoaded' = pLoaded
        /\ UNCHANGED <<pRow, pEnabled, pItems, pRounds, pChoice, pFailed>>
        /\ pRequest[n].pc = "import" /\ n \in Plugin!Actor /\ Plugin!Underway(n)
        /\ \/ pRequest' = [pRequest EXCEPT ![n].pc = "hook"] /\ pUp' = pUp
           \/ /\ pRequest[n].op = "off" \/ pLoaded' = pLoaded
              /\ Plugin!Finish(n)
    BY <1>0, <1>4 DEF Plugin!Import, Plugin!ImportFails, Plugin!At, Plugin!Underway, Plugin!Actor,
                 Plugin!Goto, Plugin!TypeOK, Plugin!Requests, Plugin!Switch
  <2>2. /\ \A a \in Plugin!Actor : a # n => pRequest[a].pc \in {"idle", "upsert"}
        /\ \A o \in Operator : pRequest[o].pc = "idle"
        /\ pRow \in Plugin!Switch /\ pEnabled[n] = "off" /\ ~pLoaded[n] /\ ~pUp[n]
        /\ \A m \in Node : m = n
    BY <1>0, <2>1, PluginAlone DEF OneUnderway, Plugin!At
  <2>3. /\ pLoaded' \in [Node -> BOOLEAN]
        /\ pLoaded' = pLoaded => ~pLoaded'[n]
    BY <1>0, <2>1, <2>2 DEF Plugin!TypeOK
  <2>4. CASE pRequest' = [pRequest EXCEPT ![n].pc = "hook"] /\ pUp' = pUp
    <3>1. /\ pRequest' \in [Plugin!Actor -> Plugin!Requests]
          /\ \A a \in Plugin!Actor :
               /\ pRequest'[a].pc = IF a = n THEN "hook" ELSE pRequest[a].pc
               /\ pRequest'[a].op = pRequest[a].op
               /\ pRequest'[a].node = pRequest[a].node
      BY <1>0, <2>1, <2>4, PluginMoves
    <3>2. Plugin!TypeOK'
      BY <1>0, <2>1, <2>3, <2>4, <3>1 DEF Plugin!TypeOK
    <3>3. OneUnderway'
      BY <1>0, <2>1, <2>2, <2>4, <3>1 DEF OneUnderway, Plugin!Underway, Plugin!At, Plugin!Actor
    <3>4. MemoryFollowsRow => MemoryFollowsRow'
      BY <1>0, <2>1, <2>2, <2>4, <3>1 DEF MemoryFollowsRow, Plugin!Underway,
                                         Plugin!At, Plugin!Quiet, Plugin!Actor
    <3> QED
      BY <1>0, <2>1, <3>2, <3>3, <3>4 DEF PluginInv
  <2>5. CASE (pRequest[n].op = "off" \/ pLoaded' = pLoaded) /\ Plugin!Finish(n)
    <3>1. /\ pRequest' \in [Plugin!Actor -> Plugin!Requests]
          /\ \A a \in Plugin!Actor : a # n => pRequest'[a] = pRequest[a]
          /\ pRequest'[n].pc = "idle"
          /\ pUp' \in [Node -> BOOLEAN]
          /\ \A m \in Node : pUp'[m] <=> pUp[m] \/ m = n
      BY <1>0, <2>1, <2>5, PluginEnds
    <3>2. Plugin!TypeOK'
      BY <1>0, <2>1, <2>3, <3>1 DEF Plugin!TypeOK
    <3>3. OneUnderway'
      BY <1>0, <2>1, <2>2, <3>1 DEF OneUnderway, Plugin!Underway, Plugin!At, Plugin!Actor
    <3>4. MemoryFollowsRow => MemoryFollowsRow'
      BY <1>0, <2>1, <2>2, <2>3, <2>5, <3>1 DEF MemoryFollowsRow, Plugin!Underway,
                                               Plugin!At, Plugin!Quiet, Plugin!Actor
    <3> QED
      BY <1>0, <2>1, <3>2, <3>3, <3>4 DEF PluginInv
  <2> QED
    BY <2>1, <2>4, <2>5
<1>5. ASSUME NEW a \in Plugin!Actor, Plugin!Hook(a)
      PROVE  PluginInv'
  <2> DEFINE n == pRequest[a].node
  <2>1. /\ pRequest' = [pRequest EXCEPT ![a].pc = "store"]
        /\ pEnabled' = [pEnabled EXCEPT ![n] = pRequest[a].op]
        /\ pItems' = [pItems EXCEPT ![n] = IF pRequest[a].op = "on" THEN @ + 1 ELSE @]
        /\ pRounds' = [pRounds EXCEPT ![n] = IF pRequest[a].op = "on" THEN @ + 1 ELSE @]
        /\ UNCHANGED <<pRow, pUp, pLoaded, pChoice, pFailed>>
        /\ pRequest[a].pc = "hook" /\ Plugin!Underway(a)
    BY <1>5 DEF Plugin!Hook, Plugin!Goto, Plugin!At, Plugin!Underway
  <2>2. /\ pRequest' \in [Plugin!Actor -> Plugin!Requests]
        /\ \A b \in Plugin!Actor :
             /\ pRequest'[b].pc = IF b = a THEN "store" ELSE pRequest[b].pc
             /\ pRequest'[b].op = pRequest[b].op
             /\ pRequest'[b].node = pRequest[b].node
    BY <1>0, <2>1, PluginMoves
  <2>3. /\ \A b \in Plugin!Actor : b # a => pRequest[b].pc \in {"idle", "upsert"}
        /\ a \in Operator => \A m \in Node : pRequest[m].pc = "idle" /\ pUp[m]
        /\ a \in Node => \A o \in Operator : pRequest[o].pc = "idle"
    BY <1>0, <2>1, PluginAlone
  <2>4. \A m \in Node : n = m
    BY <1>0, <2>1 DEF OneUnderway, Plugin!At, Plugin!Actor
  <2>5. /\ pEnabled' \in [Node -> Plugin!Switch] /\ pItems' \in [Node -> Nat]
        /\ pRounds' \in [Node -> Nat] /\ \A m \in Node : pEnabled'[m] = pRequest[a].op
    <3>1. /\ pEnabled \in [Node -> Plugin!Switch] /\ pItems \in [Node -> Nat]
          /\ pRounds \in [Node -> Nat] /\ pRequest[a].op \in Plugin!Switch
      BY <1>0 DEF Plugin!TypeOK, Plugin!Requests
    <3>2. pEnabled' \in [Node -> Plugin!Switch] /\ \A m \in Node : pEnabled'[m] = pRequest[a].op
      BY <2>1, <2>4, <3>1
    <3>3. \A m \in Node : /\ pItems[m] + 1 \in Nat /\ pItems[m] \in Nat
                         /\ pRounds[m] + 1 \in Nat /\ pRounds[m] \in Nat
      BY <3>1
    <3>4. pItems' \in [Node -> Nat] /\ pRounds' \in [Node -> Nat]
      BY <2>1, <3>1, <3>3
    <3> QED
      BY <3>2, <3>4
  <2>6. Plugin!TypeOK'
    BY <1>0, <2>1, <2>2, <2>5 DEF Plugin!TypeOK
  <2>7. OneUnderway'
    BY <1>0, <2>1, <2>2, <2>3, <2>5 DEF OneUnderway, Plugin!Underway, Plugin!At, Plugin!Actor
  <2>8. MemoryFollowsRow => MemoryFollowsRow'
    BY <1>0, <2>1, <2>2, <2>3, <2>5 DEF MemoryFollowsRow, Plugin!Underway,
                                       Plugin!At, Plugin!Quiet, Plugin!Actor
  <2> QED
    BY <1>0, <2>1, <2>6, <2>7, <2>8 DEF PluginInv
<1>6. ASSUME NEW a \in Plugin!Actor, Plugin!Fails(a) \/ Plugin!Store(a)
      PROVE  PluginInv'
  <2>1. /\ UNCHANGED <<pLoaded, pEnabled, pItems, pRounds>>
        /\ pRequest[a].pc \in {"hook", "store"} /\ Plugin!Underway(a) /\ Plugin!Finish(a)
        /\ \/ pFailed' = TRUE /\ UNCHANGED <<pRow, pChoice>>
           \/ /\ pFailed' = pFailed /\ pRow' = pRequest[a].op /\ pRequest[a].pc = "store"
              /\ pChoice' = IF a \in Node THEN pChoice ELSE pRequest[a].op
    BY <1>6 DEF Plugin!Fails, Plugin!Store, Plugin!At, Plugin!Underway
  <2>2. /\ pRequest' \in [Plugin!Actor -> Plugin!Requests]
        /\ \A b \in Plugin!Actor : b # a => pRequest'[b] = pRequest[b]
        /\ pRequest'[a].pc = "idle"
        /\ pUp' \in [Node -> BOOLEAN]
        /\ \A m \in Node : pUp'[m] <=> pUp[m] \/ m = a
    BY <1>0, <2>1, PluginEnds
  <2>3. /\ \A b \in Plugin!Actor : b # a => pRequest[b].pc \in {"idle", "upsert"}
        /\ a \in Operator => \A m \in Node : pRequest[m].pc = "idle" /\ pUp[m]
        /\ a \in Node => \A o \in Operator : pRequest[o].pc = "idle"
    BY <1>0, <2>1, PluginAlone
  <2>4. pRequest[a].op \in Plugin!Switch
    BY <1>0 DEF Plugin!TypeOK, Plugin!Requests
  <2>5. Plugin!TypeOK'
    BY <1>0, <2>1, <2>2, <2>4 DEF Plugin!TypeOK
  <2>6. OneUnderway'
    BY <1>0, <2>1, <2>2, <2>3, <2>4 DEF OneUnderway, Plugin!Underway, Plugin!At, Plugin!Actor
  <2>7. CASE pFailed' = TRUE
    BY <2>5, <2>6, <2>7 DEF PluginInv
  <2>8. CASE /\ pFailed' = pFailed /\ pRow' = pRequest[a].op /\ pRequest[a].pc = "store"
             /\ pChoice' = IF a \in Node THEN pChoice ELSE pRequest[a].op
    <3>1. MemoryFollowsRow => MemoryFollowsRow'
      BY <1>0, <2>1, <2>2, <2>3, <2>8 DEF MemoryFollowsRow, Plugin!Underway,
                                         Plugin!At, Plugin!Quiet, Plugin!Actor
    <3> QED
      BY <1>0, <2>5, <2>6, <2>8, <3>1 DEF PluginInv
  <2> QED
    BY <2>1, <2>7, <2>8
<1>7. ASSUME NEW a \in Operator, NEW n \in Node, NEW op \in Plugin!Switch, Plugin!Ask(a, n, op)
      PROVE  PluginInv'
  <2>1. /\ UNCHANGED <<pRow, pUp, pLoaded, pEnabled, pItems, pRounds, pFailed>>
        /\ pUp[n] /\ pLoaded[n] /\ Plugin!Quiet /\ a \in Plugin!Actor /\ a \notin Node
        /\ \/ /\ pRequest' = [pRequest EXCEPT ![a] = [pc |-> "hook", node |-> n, op |-> op]]
              /\ pChoice' = None
           \/ pRequest' = pRequest /\ pChoice' = op /\ pEnabled[n] = op
    BY <1>0, <1>7 DEF Plugin!Ask, Plugin!memory, Plugin!Actor
  <2>2. \A b \in Plugin!Actor : pRequest[b].pc \in {"idle", "upsert"}
    BY <2>1 DEF Plugin!Quiet, Plugin!Underway
  <2>3. CASE /\ pRequest' = [pRequest EXCEPT ![a] = [pc |-> "hook", node |-> n, op |-> op]]
             /\ pChoice' = None
    <3> DEFINE r == [pc |-> "hook", node |-> n, op |-> op]
    <3>1. r \in Plugin!Requests /\ r.pc = "hook" /\ r.node = n
      BY DEF Plugin!Requests
    <3> HIDE DEF r
    <3>2. /\ pRequest' \in [Plugin!Actor -> Plugin!Requests]
          /\ \A b \in Plugin!Actor : pRequest'[b] = IF b = a THEN r ELSE pRequest[b]
      BY <1>0, <2>1, <2>3, <3>1 DEF r, Plugin!TypeOK
    <3>3. Plugin!TypeOK'
      BY <1>0, <2>1, <2>3, <3>2 DEF Plugin!TypeOK
    <3>4. OneUnderway'
      BY <1>0, <2>1, <2>2, <3>1, <3>2 DEF OneUnderway, Plugin!Underway, Plugin!At, Plugin!Actor
    <3>5. MemoryFollowsRow => MemoryFollowsRow'
      BY <1>0, <2>1, <2>2, <2>3, <3>1, <3>2 DEF MemoryFollowsRow, Plugin!Underway,
                                              Plugin!At, Plugin!Quiet, Plugin!Actor
    <3> QED
      BY <1>0, <2>1, <3>3, <3>4, <3>5 DEF PluginInv
  <2>4. CASE pRequest' = pRequest /\ pChoice' = op /\ pEnabled[n] = op
    <3>1. Plugin!TypeOK'
      BY <1>0, <2>1, <2>4 DEF Plugin!TypeOK
    <3>2. OneUnderway'
      BY <1>0, <2>1, <2>4 DEF OneUnderway, Plugin!Underway, Plugin!At
    <3>3. MemoryFollowsRow => MemoryFollowsRow'
      BY <1>0, <2>1, <2>2, <2>4 DEF MemoryFollowsRow, OneUnderway, Plugin!Underway, Plugin!At,
                                   Plugin!Quiet, Plugin!Actor
    <3> QED
      BY <1>0, <2>1, <3>1, <3>2, <3>3 DEF PluginInv
  <2> QED
    BY <2>1, <2>3, <2>4
\* A restart leaves nothing under way.
<1>8. ASSUME NEW n \in Node, Plugin!Restart(n)
      PROVE  PluginInv'
  <2> DEFINE boot == [Plugin!Idle EXCEPT !.pc = "upsert", !.node = n]
  <2>1. /\ UNCHANGED <<pRow, pRounds, pChoice, pFailed>> /\ pRequest[n].pc # "upsert"
        /\ pUp' = [pUp EXCEPT ![n] = FALSE] /\ pLoaded' = [pLoaded EXCEPT ![n] = FALSE]
        /\ pEnabled' = [pEnabled EXCEPT ![n] = "off"] /\ pItems' = [pItems EXCEPT ![n] = 0]
        /\ pRequest' = [a \in Plugin!Actor |->
                          IF a = n THEN boot
                          ELSE IF pRequest[a].node = n THEN Plugin!Idle ELSE pRequest[a]]
    BY <1>8 DEF Plugin!Restart, Plugin!At
  <2>2. /\ boot \in Plugin!Requests /\ boot.pc = "upsert" /\ boot.node = n
        /\ Plugin!Idle \in Plugin!Requests /\ Plugin!Idle.pc = "idle"
    BY DEF Plugin!Idle, Plugin!Requests, Plugin!Switch
  <2> HIDE DEF boot
  <2>3. /\ pRequest' \in [Plugin!Actor -> Plugin!Requests]
        /\ pRequest'[n] = boot /\ n \in Plugin!Actor
        /\ \A a \in Plugin!Actor : a # n =>
             \/ pRequest'[a] = Plugin!Idle
             \/ pRequest'[a] = pRequest[a] /\ pRequest[a].node # n
    BY <1>0, <2>1, <2>2 DEF Plugin!TypeOK, Plugin!Actor
  <2>4. /\ pUp' \in [Node -> BOOLEAN] /\ pLoaded' \in [Node -> BOOLEAN]
        /\ pEnabled' \in [Node -> Plugin!Switch] /\ pItems' \in [Node -> Nat]
        /\ ~pUp'[n] /\ ~pLoaded'[n] /\ pEnabled'[n] = "off"
    BY <1>0, <2>1 DEF Plugin!TypeOK, Plugin!Switch
  <2>5. Plugin!TypeOK'
    BY <1>0, <2>1, <2>3, <2>4 DEF Plugin!TypeOK
  <2>6. \A a \in Plugin!Actor : pRequest'[a].pc = IF a = n THEN "upsert" ELSE "idle"
    BY <1>0, <2>2, <2>3 DEF OneUnderway, Plugin!Underway, Plugin!Actor
  <2>7. OneUnderway'
    BY <1>0, <2>1, <2>2, <2>3, <2>4, <2>6 DEF OneUnderway, Plugin!Underway, Plugin!At, Plugin!Actor
  <2>8. MemoryFollowsRow => MemoryFollowsRow'
    <3>1. \A a \in Plugin!Actor : ~Plugin!Underway(a)' /\ ~Plugin!At(a, "store")'
      BY <2>6 DEF Plugin!Underway, Plugin!At
    <3>2. \A m \in Node : ~pUp'[m] /\ pRequest'[m].pc \notin {"import", "hook", "store"}
      BY <1>0, <2>4, <2>6 DEF Plugin!Actor
    <3> QED
      BY <2>1, <3>1, <3>2 DEF MemoryFollowsRow, Plugin!Actor
  <2> QED
    BY <1>0, <2>1, <2>5, <2>7, <2>8 DEF PluginInv
<1> QED
  BY <1>1, <1>2, <1>3, <1>4, <1>5, <1>6, <1>7, <1>8 DEF Plugin!Next

\* The plugin manager by itself keeps it for ever.
LEMMA PluginInvariant == ASSUME OneAtATime PROVE Plugin!PluginSpec => []PluginInv
<1>1. PluginInv /\ [Plugin!Next]_(Plugin!vars) => PluginInv'
  BY PluginStep
<1> QED
  BY <1>1, PluginInit, PTL DEF Plugin!PluginSpec

\* The steps of the whole are, for the plugins, their own or none.
LEMMA GatewayPlugs == GatewaySpec => Plugin!PluginSpec
<1>1. MCInit => Plugin!Init
  BY DEF MCInit
<1>2. [MCNext]_<<part, vars, caches, dispatch, plugin, sse>> => [Plugin!Next]_(Plugin!vars)
  BY DEF MCNext, plugin, Plugin!vars, Plugin!memory
<1> QED
  BY <1>1, <1>2, PTL DEF GatewaySpec, Plugin!PluginSpec

\* What an administrator was told of a plugin stays so, in the row and in what the process
\* does, over any number of switches and restarts, at whatever point they come, while hooks
\* and the database do not fail (enable() and disable() of manager.ts, loadAll() at boot).
THEOREM ChoiceIsDurableAlways ==
    ASSUME OneAtATime
    PROVE  GatewaySpec => []ChoiceIsDurable
<1>1. PluginInv => ChoiceIsDurable
  BY DEF PluginInv, MemoryFollowsRow, ChoiceIsDurable, Plugin!ChoiceIsDurableUnlessFailed,
         Plugin!ChoiceIsDurable
<1> QED
  BY <1>1, PluginInvariant, GatewayPlugs, PTL
-----------------------------------------------------------------------------
(* Notifications *)

Reads(h) == nHandler[h].pc \in {"loop", "reading", "sleep"}

\* Each connection is of one request, which is not closed while it is heard.
Connected ==
    /\ \A h \in Handler : ~Sse!At(h, "free") => nHandler[h].client \in Client
    /\ \A c \in Client : nClient[c].conn # None =>
         LET h == nClient[c].conn
         IN  ~Sse!At(h, "free") /\ nHandler[h].client = c /\ ~nHandler[h].closed

\* A request waits once on the shared connection.
Queued ==
    /\ \A i \in DOMAIN nQueue : Sse!At(nQueue[i], "reading")
    /\ \A i, j \in DOMAIN nQueue : nQueue[i] = nQueue[j] => i = j

\* A loop that is heard reads on from the last frame its client has got, or from the tail that
\* the client began with.
ReadsOn ==
    /\ \A c \in Client : nClient[c].id # None => nFrom[c] # None
    /\ \A c \in Client : nClient[c].conn # None =>
         LET h == nClient[c].conn
         IN  /\ Sse!At(h, "tail") => nClient[c].id = None
             /\ Reads(h) => /\ nFrom[c] # None
                            /\ nHandler[h].cursor = IF nClient[c].id = None THEN nFrom[c]
                                                    ELSE nClient[c].id

SseInv == Sse!TypeOK /\ Connected /\ Queued /\ ReadsOn /\ NoGap

\* It holds before the first client.
LEMMA SseInit == Sse!Init => SseInv
<1> SUFFICES ASSUME Sse!Init
             PROVE  SseInv
  OBVIOUS
<1> USE GatewayAssumption DEF Sse!NotificationAssumption, Sse!Init
<1>1. Sse!Free \in Sse!Request /\ Sse!Free.pc = "free"
  BY DEF Sse!Free, Sse!Request, Sse!Cursor
<1>2. /\ nHandler \in [Handler -> Sse!Request] /\ nQueue \in Seq(Handler)
      /\ \A h \in Handler : Sse!At(h, "free")
      /\ nClient \in [Client -> [conn : Handler \cup {None}, id : Sse!Notice \cup {None}]]
  BY <1>1 DEF Sse!At
<1>3. Sse!TypeOK
  BY <1>2 DEF Sse!TypeOK, Sse!Cursor, Sse!Notice
<1>4. Connected /\ Queued /\ ReadsOn
  BY <1>2 DEF Connected, Queued, ReadsOn
<1>5. NoGap
  BY DEF NoGap, Sse!NoGap, Sse!Complete
<1> QED
  BY <1>3, <1>4, <1>5 DEF SseInv

\* Who reads first is reading, and waits no second time.
LEMMA QueueHead ==
    ASSUME Sse!TypeOK, Queued, NEW h \in Handler, Sse!First(h)
    PROVE  /\ Sse!At(h, "reading")
           /\ Tail(nQueue) \in Seq(Handler)
           /\ \A i \in DOMAIN Tail(nQueue) : /\ i + 1 \in DOMAIN nQueue
                                             /\ Tail(nQueue)[i] = nQueue[i + 1]
                                             /\ Tail(nQueue)[i] # h
<1>1. nQueue \in Seq(Handler) /\ nQueue # <<>> /\ nQueue[1] = h
  BY DEF Sse!TypeOK, Sse!First
<1>2. 1 \in DOMAIN nQueue
  BY <1>1
<1>3. \A i \in DOMAIN Tail(nQueue) :
        i + 1 \in DOMAIN nQueue /\ Tail(nQueue)[i] = nQueue[i + 1] /\ i + 1 # 1
  BY <1>1
<1> QED
  BY <1>1, <1>2, <1>3 DEF Queued

\* The queue when its head has been served.
LEMMA QueueRests ==
    ASSUME Sse!TypeOK, Queued, NEW h \in Handler, Sse!First(h), nQueue' = Tail(nQueue),
           \A g \in Handler : g # h => nHandler'[g].pc = nHandler[g].pc
    PROVE  nQueue' \in Seq(Handler) /\ Queued'
<1>1. /\ Tail(nQueue) \in Seq(Handler)
      /\ \A i \in DOMAIN Tail(nQueue) : /\ i + 1 \in DOMAIN nQueue
                                        /\ Tail(nQueue)[i] = nQueue[i + 1]
                                        /\ Tail(nQueue)[i] # h
  BY QueueHead
<1>2. \A i \in DOMAIN nQueue' : nHandler'[nQueue'[i]].pc = "reading"
  <2>1. \A i \in DOMAIN nQueue' : nQueue'[i] \in Handler
    BY <1>1
  <2> QED
    BY <1>1, <2>1 DEF Queued, Sse!At
<1>3. ASSUME NEW i \in DOMAIN nQueue', NEW j \in DOMAIN nQueue', nQueue'[i] = nQueue'[j]
      PROVE  i = j
  <2>1. i + 1 = j + 1
    BY <1>1, <1>3 DEF Queued
  <2>2. i \in Int /\ j \in Int
    BY <1>1, <1>3
  <2> QED
    BY <2>1, <2>2
<1> QED
  BY <1>1, <1>2, <1>3 DEF Queued, Sse!At

\* A loop goes on, or a closed one ends: nothing is read by it.
LEMMA SseLoops ==
    ASSUME SseInv, NEW h \in Handler, NEW r \in Sse!Request,
           nHandler' = [nHandler EXCEPT ![h] = r],
           \/ r.pc = "free" /\ nHandler[h].closed /\ ~Sse!At(h, "free")
           \/ /\ Reads(h) /\ r.pc \in {"loop", "reading", "sleep"}
              /\ r.client = nHandler[h].client /\ r.cursor = nHandler[h].cursor
              /\ r.closed = nHandler[h].closed,
           nQueue' \in Seq(Handler), Queued',
           nDrops' \in 0..MaxDrops, nErrors' \in 0..MaxErrors,
           UNCHANGED <<nLast, nClient, nFrom, nSince, nGot, nTrimmed>>
    PROVE  SseInv'
<1>1. /\ Sse!TypeOK /\ Connected /\ ReadsOn /\ NoGap
      /\ nHandler \in [Handler -> Sse!Request]
  BY DEF SseInv, Sse!TypeOK
<1>2. /\ nHandler' \in [Handler -> Sse!Request]
      /\ \A g \in Handler : nHandler'[g] = IF g = h THEN r ELSE nHandler[g]
  BY <1>1
<1>3. Sse!TypeOK'
  BY <1>1, <1>2 DEF Sse!TypeOK
<1>4. \A c \in Client : nClient[c].conn \in Handler \cup {None}
  BY <1>1 DEF Sse!TypeOK
<1>5. Connected'
  BY <1>1, <1>2, <1>4 DEF Connected, Sse!At, Reads
<1>6. ReadsOn'
  BY <1>1, <1>2, <1>4 DEF ReadsOn, Connected, Sse!At, Reads
<1>7. NoGap'
  BY <1>1 DEF NoGap, Sse!NoGap, Sse!Complete
<1> QED
  BY <1>3, <1>5, <1>6, <1>7 DEF SseInv
\* Queued rests on the queue and on who is reading.
LEMMA QueueKept ==
    ASSUME Sse!TypeOK, Queued, UNCHANGED nQueue, NEW h \in Handler, ~Sse!At(h, "reading"),
           \A g \in Handler : g # h => nHandler'[g].pc = nHandler[g].pc
    PROVE  nQueue' \in Seq(Handler) /\ Queued'
<1>1. nQueue \in Seq(Handler) /\ \A i \in DOMAIN nQueue : nQueue[i] \in Handler /\ nQueue[i] # h
  BY DEF Sse!TypeOK, Queued
<1> QED
  BY <1>1 DEF Queued, Sse!At

\* A client connects to a free slot.
LEMMA SseConnects ==
    ASSUME SseInv, NEW c \in Client, NEW h \in Handler, Sse!Connect(c, h)
    PROVE  SseInv'
<1> DEFINE r == IF nClient[c].id # None
                THEN [Sse!Free EXCEPT !.pc = "loop", !.client = c, !.cursor = nClient[c].id]
                ELSE [Sse!Free EXCEPT !.pc = "tail", !.client = c]
<1>1. /\ Sse!TypeOK /\ Connected /\ Queued /\ ReadsOn /\ NoGap
      /\ nHandler \in [Handler -> Sse!Request] /\ None \notin Handler
      /\ nClient \in [Client -> [conn : Handler \cup {None}, id : Sse!Notice \cup {None}]]
  BY GatewayAssumption DEF SseInv, Sse!TypeOK, Sse!NotificationAssumption
<1>2. /\ nClient[c].conn = None /\ Sse!At(h, "free")
      /\ nClient' = [nClient EXCEPT ![c].conn = h]
      /\ nHandler' = [nHandler EXCEPT ![h] = r]
      /\ UNCHANGED <<nLast, nQueue, nDrops, nErrors, nFrom, nSince, nGot, nTrimmed>>
  BY DEF Sse!Connect, Sse!Resumes, Sse!bounds, Sse!history
<1>3. /\ r \in Sse!Request /\ r.client = c /\ ~r.closed
      /\ r.pc = IF nClient[c].id # None THEN "loop" ELSE "tail"
      /\ nClient[c].id # None => r.cursor = nClient[c].id
  <2>1. nClient[c].id \in Sse!Notice \cup {None} /\ MaxNotice \in Nat
    BY <1>1, GatewayAssumption DEF Sse!NotificationAssumption
  <2>2. nClient[c].id # None => nClient[c].id \in Sse!Cursor
    BY <2>1 DEF Sse!Notice, Sse!Cursor
  <2>3. 0 \in Sse!Cursor
    BY <2>1 DEF Sse!Cursor
  <2> QED
    BY <2>2, <2>3 DEF Sse!Free, Sse!Request
<1> HIDE DEF r
<1>4. /\ nHandler' \in [Handler -> Sse!Request]
      /\ \A g \in Handler : nHandler'[g] = IF g = h THEN r ELSE nHandler[g]
      /\ nClient' \in [Client -> [conn : Handler \cup {None}, id : Sse!Notice \cup {None}]]
      /\ \A d \in Client : /\ nClient'[d].id = nClient[d].id
                           /\ nClient'[d].conn = IF d = c THEN h ELSE nClient[d].conn
  BY <1>1, <1>2, <1>3
<1>5. Sse!TypeOK'
  BY <1>1, <1>2, <1>4 DEF Sse!TypeOK
<1>6. Queued'
  BY <1>1, <1>2, <1>4, QueueKept DEF Sse!At
<1>7. \A d \in Client : d # c /\ nClient[d].conn # None => nClient[d].conn # h
  BY <1>1, <1>2 DEF Connected
<1>8. Connected'
  BY <1>1, <1>2, <1>3, <1>4, <1>7 DEF Connected, Sse!At
<1>9. ReadsOn'
  BY <1>1, <1>2, <1>3, <1>4, <1>7 DEF ReadsOn, Connected, Sse!At, Reads
<1>10. NoGap'
  BY <1>1, <1>2, <1>4 DEF NoGap, Sse!NoGap, Sse!Complete
<1> QED
  BY <1>5, <1>6, <1>8, <1>9, <1>10 DEF SseInv

\* A loop that has no cursor yet gets the stream's tail.
LEMMA SseTails ==
    ASSUME SseInv, NEW h \in Handler, Sse!TailRead(h)
    PROVE  SseInv'
<1> DEFINE r == [nHandler[h] EXCEPT !.pc = "loop", !.cursor = nLast]
           c == nHandler[h].client
<1>1. /\ Sse!TypeOK /\ Connected /\ Queued /\ ReadsOn /\ NoGap
      /\ nHandler \in [Handler -> Sse!Request] /\ nLast \in Sse!Cursor
      /\ nFrom \in [Client -> Sse!Cursor \cup {None}] /\ nSince \in [Client -> Sse!Cursor \cup {None}]
      /\ nClient \in [Client -> [conn : Handler \cup {None}, id : Sse!Notice \cup {None}]]
  BY DEF SseInv, Sse!TypeOK
<1>2. /\ Sse!At(h, "tail") /\ c \in Client /\ nHandler[h].pc = "tail"
      /\ nHandler' = [nHandler EXCEPT ![h].pc = "loop", ![h].cursor = nLast]
      /\ UNCHANGED <<nLast, nQueue, nClient, nDrops, nErrors, nGot, nTrimmed>>
  BY <1>1 DEF Sse!TailRead, Sse!bounds, Connected, Sse!At
<1>3. nHandler[h] \in Sse!Request
  BY <1>1
<1>4. /\ r \in Sse!Request /\ r.pc = "loop" /\ r.cursor = nLast /\ r.client = c
      /\ r.closed = nHandler[h].closed
  BY <1>1, <1>3 DEF Sse!Request
<1>5. nHandler' = [nHandler EXCEPT ![h] = r]
  BY <1>1, <1>2, <1>3
<1> HIDE DEF r
<1>6. /\ nHandler' \in [Handler -> Sse!Request]
      /\ \A g \in Handler : nHandler'[g] = IF g = h THEN r ELSE nHandler[g]
  BY <1>1, <1>4, <1>5
<1>7. /\ nFrom' \in [Client -> Sse!Cursor \cup {None}] /\ nSince' \in [Client -> Sse!Cursor \cup {None}]
      /\ \A d \in Client : nFrom'[d] = IF d = c /\ nClient[c].conn = h /\ nClient[c].id = None
                                       THEN nLast ELSE nFrom[d]
  BY <1>1, <1>2 DEF Sse!TailRead, Sse!Heard, Sse!At
<1>8. Sse!TypeOK'
  BY <1>1, <1>2, <1>6, <1>7 DEF Sse!TypeOK
<1>9. Queued'
  BY <1>1, <1>2, <1>6, QueueKept DEF Sse!At
<1>10. \A d \in Client : nClient[d].conn = h => d = c /\ nClient[d].id = None
  BY <1>1, <1>2, GatewayAssumption DEF Connected, ReadsOn, Sse!At, Sse!NotificationAssumption
<1>11. Connected'
  BY <1>1, <1>2, <1>4, <1>6 DEF Connected, Sse!At
<1>12. nLast # None
  BY <1>1, GatewayAssumption DEF Sse!Cursor, Sse!NotificationAssumption
<1>13. ReadsOn'
  BY <1>1, <1>2, <1>4, <1>6, <1>7, <1>10, <1>12 DEF ReadsOn, Connected, Sse!At, Reads
<1>14. NoGap'
  BY <1>1, <1>2, <1>7 DEF NoGap, Sse!NoGap, Sse!Complete
<1> QED
  BY <1>8, <1>9, <1>11, <1>13, <1>14 DEF SseInv

\* A connection breaks.
LEMMA SseDrops ==
    ASSUME SseInv, NEW c \in Client, Sse!Drop(c)
    PROVE  SseInv'
<1> DEFINE h == nClient[c].conn
           r == [nHandler[h] EXCEPT !.closed = ~Sse!At(h, "tail")]
<1>1. /\ Sse!TypeOK /\ Connected /\ Queued /\ ReadsOn /\ NoGap
      /\ nHandler \in [Handler -> Sse!Request]
      /\ nClient \in [Client -> [conn : Handler \cup {None}, id : Sse!Notice \cup {None}]]
  BY DEF SseInv, Sse!TypeOK
<1>2. /\ h \in Handler /\ nHandler[h].client = c /\ h # None /\ nHandler[h] \in Sse!Request
      /\ nClient' = [nClient EXCEPT ![c].conn = None]
      /\ nHandler' = [nHandler EXCEPT ![h].closed = ~Sse!At(h, "tail")]
      /\ nDrops' \in 0..MaxDrops
      /\ UNCHANGED <<nLast, nQueue, nErrors, nFrom, nSince, nGot, nTrimmed>>
  <2>1. nDrops \in 0..MaxDrops /\ MaxDrops \in Nat
    BY <1>1, GatewayAssumption DEF Sse!NotificationAssumption, Sse!TypeOK
  <2>2. nDrops' \in 0..MaxDrops
    BY <2>1 DEF Sse!Drop
  <2> QED
    BY <1>1, <2>2 DEF Sse!Drop, Sse!history, Connected
<1>3. /\ r \in Sse!Request /\ r.pc = nHandler[h].pc /\ r.client = c
  <2>1. \A b \in BOOLEAN : LET q == [nHandler[h] EXCEPT !.closed = b]
                           IN  q \in Sse!Request /\ q.pc = nHandler[h].pc /\ q.client = c
    BY <1>2 DEF Sse!Request
  <2>2. (~Sse!At(h, "tail")) \in BOOLEAN
    BY Zenon
  <2> QED
    BY <2>1, <2>2, Zenon
<1>4. nHandler' = [nHandler EXCEPT ![h] = r]
  BY <1>1, <1>2
<1> HIDE DEF r
<1>5. /\ nHandler' \in [Handler -> Sse!Request]
      /\ \A g \in Handler : nHandler'[g] = IF g = h THEN r ELSE nHandler[g]
  BY <1>1, <1>2, <1>3, <1>4
<1>6. /\ nClient' \in [Client -> [conn : Handler \cup {None}, id : Sse!Notice \cup {None}]]
      /\ \A d \in Client : /\ nClient'[d].id = nClient[d].id
                           /\ nClient'[d].conn = IF d = c THEN None ELSE nClient[d].conn
  BY <1>1, <1>2
<1>7. Sse!TypeOK'
  BY <1>1, <1>2, <1>5, <1>6 DEF Sse!TypeOK
<1>8. Queued'
  BY <1>1, <1>2, <1>3, <1>5 DEF Queued, Sse!At, Sse!TypeOK
<1>9. \A d \in Client : d # c /\ nClient[d].conn # None => nClient[d].conn # h
  BY <1>1, <1>2 DEF Connected
<1>10. Connected'
  <2>1. \A g \in Handler : nHandler'[g].pc = nHandler[g].pc /\ nHandler'[g].client = nHandler[g].client
    BY <1>2, <1>3, <1>5
  <2>2. ASSUME NEW g \in Handler, nHandler'[g].pc # "free"
        PROVE  nHandler'[g].client \in Client
    BY <1>1, <2>1, <2>2 DEF Connected, Sse!At
  <2>3. ASSUME NEW d \in Client, nClient'[d].conn # None
        PROVE  LET g == nHandler'[nClient'[d].conn]
               IN  g.pc # "free" /\ g.client = d /\ ~g.closed
    <3>1. d # c /\ nClient'[d].conn = nClient[d].conn
      BY <1>6, <2>3
    <3>2. PICK g \in Handler : g = nClient[d].conn /\ g # h
      BY <1>1, <1>9, <2>3, <3>1
    <3>3. nHandler[g].pc # "free" /\ nHandler[g].client = d /\ ~nHandler[g].closed
      BY <1>1, <2>3, <3>1, <3>2 DEF Connected, Sse!At
    <3>4. nHandler'[g] = nHandler[g]
      BY <1>5, <3>2
    <3> QED
      BY <3>1, <3>2, <3>3, <3>4, Zenon
  <2> QED
    BY <2>2, <2>3 DEF Connected, Sse!At
<1>11. ReadsOn'
  BY <1>1, <1>2, <1>5, <1>6, <1>9 DEF ReadsOn, Sse!At, Reads
<1>12. NoGap'
  BY <1>1, <1>2, <1>6 DEF NoGap, Sse!NoGap, Sse!Complete
<1> QED
  BY <1>7, <1>8, <1>10, <1>11, <1>12 DEF SseInv
\* What a read returns is all that its client does not have yet, up to where it is written.
LEMMA ReadFills ==
    ASSUME SseInv, NEW h \in Handler, NEW c \in Client, nClient[c].conn = h, h # None,
           Sse!At(h, "reading"), NEW n \in Sse!After(h) \cup {nLast},
           nGot'[c] = nGot[c] \cup {i \in Sse!After(h) \ Sse!Trimmed : i <= n},
           nTrimmed'[c] = nTrimmed[c] \cup {i \in Sse!After(h) \cap Sse!Trimmed : i <= n}
    PROVE  nFrom[c] # None /\ (nFrom[c] + 1)..n \subseteq nGot'[c] \cup nTrimmed'[c]
<1>1. /\ nFrom[c] # None
      /\ nHandler[h].cursor = IF nClient[c].id = None THEN nFrom[c] ELSE nClient[c].id
      /\ nClient[c].id # None =>
           (nFrom[c] + 1)..nClient[c].id \subseteq nGot[c] \cup nTrimmed[c]
  BY DEF SseInv, ReadsOn, Reads, Sse!At, NoGap, Sse!NoGap, Sse!Complete
<1>2. /\ nFrom[c] \in 0..MaxNotice /\ nLast \in 0..MaxNotice /\ MaxNotice \in Nat
      /\ nHandler[h].cursor \in 0..MaxNotice
  BY <1>1, GatewayAssumption
     DEF SseInv, Sse!TypeOK, Sse!Cursor, Sse!Request, Sse!NotificationAssumption
<1>3. (nFrom[c] + 1)..nHandler[h].cursor \subseteq nGot[c] \cup nTrimmed[c]
  BY <1>1, <1>2
<1>4. n <= nLast /\ n \in Int
  BY <1>2 DEF Sse!After, Sse!Notice
<1>5. \A i \in (nFrom[c] + 1)..n :
        \/ i \in (nFrom[c] + 1)..nHandler[h].cursor
        \/ i \in Sse!After(h) /\ i <= n
  BY <1>2, <1>4 DEF Sse!After, Sse!Notice
<1> QED
  BY <1>1, <1>3, <1>5

\* The frames of a read are written, to nobody, to the client, or until the connection breaks.
LEMMA SseWrites ==
    ASSUME SseInv, NEW h \in Handler, Sse!Served(h), ~nHandler[h].closed
    PROVE  SseInv'
<1> DEFINE c == nHandler[h].client
           Received(n) ==
             /\ nGot' = [nGot EXCEPT ![c] = @ \cup {i \in Sse!After(h) \ Sse!Trimmed : i <= n}]
             /\ nTrimmed' = [nTrimmed EXCEPT
                               ![c] = @ \cup {i \in Sse!After(h) \cap Sse!Trimmed : i <= n}]
<1>1. /\ Sse!TypeOK /\ Connected /\ Queued /\ ReadsOn /\ NoGap
      /\ nHandler \in [Handler -> Sse!Request] /\ nLast \in Sse!Cursor
      /\ nClient \in [Client -> [conn : Handler \cup {None}, id : Sse!Notice \cup {None}]]
      /\ nGot \in [Client -> SUBSET Sse!Notice] /\ nTrimmed \in [Client -> SUBSET Sse!Notice]
      /\ None \notin Handler /\ MaxNotice \in Nat /\ None \notin 0..MaxNotice
  BY GatewayAssumption DEF SseInv, Sse!TypeOK, Sse!NotificationAssumption
<1>2. /\ Sse!First(h) /\ Sse!After(h) # {} /\ nQueue' = Tail(nQueue) /\ Sse!Write(h)
      /\ UNCHANGED <<nLast, nErrors, nFrom, nSince>>
  BY DEF Sse!Served
<1>3. Sse!At(h, "reading") /\ c \in Client /\ nHandler[h] \in Sse!Request
  BY <1>1, <1>2, QueueHead DEF Connected, Sse!At
<1>4. nLast \in Sse!Notice /\ nLast # None
  BY <1>1, <1>2 DEF Sse!After, Sse!Notice, Sse!Cursor
<1>5. \A d \in Client : nClient[d].conn = h => d = c
  BY <1>1, <1>3 DEF Connected
\* The request, when its loop goes on or ends.
<1>6. ASSUME NEW r \in Sse!Request, nHandler' = [nHandler EXCEPT ![h] = r]
      PROVE  /\ nHandler' \in [Handler -> Sse!Request]
             /\ \A g \in Handler : nHandler'[g] = IF g = h THEN r ELSE nHandler[g]
             /\ nQueue' \in Seq(Handler) /\ Queued'
  <2>1. /\ nHandler' \in [Handler -> Sse!Request]
        /\ \A g \in Handler : nHandler'[g] = IF g = h THEN r ELSE nHandler[g]
    BY <1>1, <1>6
  <2> QED
    BY <1>1, <1>2, <2>1, QueueRests
\* What the client has received.
<1>7. ASSUME NEW n \in Sse!Notice, Received(n)
      PROVE  /\ nGot' \in [Client -> SUBSET Sse!Notice]
             /\ nTrimmed' \in [Client -> SUBSET Sse!Notice]
             /\ nGot'[c] = nGot[c] \cup {i \in Sse!After(h) \ Sse!Trimmed : i <= n}
             /\ nTrimmed'[c] = nTrimmed[c] \cup {i \in Sse!After(h) \cap Sse!Trimmed : i <= n}
             /\ \A d \in Client : d # c => nGot'[d] = nGot[d] /\ nTrimmed'[d] = nTrimmed[d]
  <2>1. Sse!After(h) \subseteq Sse!Notice
    BY DEF Sse!After
  <2> QED
    BY <1>1, <1>3, <1>7, <2>1
<1> DEFINE on == [nHandler[h] EXCEPT !.pc = "loop", !.cursor = nLast]
           off == [nHandler[h] EXCEPT !.pc = "loop", !.cursor = nLast, !.closed = TRUE]
<1>8. /\ on \in Sse!Request /\ on.pc = "loop" /\ on.cursor = nLast /\ on.client = c
      /\ ~on.closed
  <2>1. on.closed = nHandler[h].closed
    BY <1>3 DEF Sse!Request
  <2>2. on \in Sse!Request /\ on.pc = "loop" /\ on.cursor = nLast /\ on.client = c
    BY <1>1, <1>3 DEF Sse!Request
  <2> QED
    BY <2>1, <2>2
<1>9. off \in Sse!Request /\ off.pc = "loop" /\ off.client = c
  BY <1>1, <1>3 DEF Sse!Request
<1>10. CASE /\ ~Sse!Heard(h)
            /\ nHandler' = [nHandler EXCEPT ![h].pc = "loop", ![h].cursor = nLast]
            /\ UNCHANGED <<nClient, nDrops, nGot, nTrimmed>>
  <2>1. nHandler' = [nHandler EXCEPT ![h] = on]
    BY <1>1, <1>10
  <2> HIDE DEF on
  <2>2. /\ nHandler' \in [Handler -> Sse!Request]
        /\ \A g \in Handler : nHandler'[g] = IF g = h THEN on ELSE nHandler[g]
        /\ nQueue' \in Seq(Handler) /\ Queued'
    BY <1>6, <1>8, <2>1
  <2>3. \A d \in Client : nClient[d].conn # h
    BY <1>3, <1>5, <1>10 DEF Sse!Heard, Sse!At
  <2>4. Sse!TypeOK'
    BY <1>1, <1>2, <1>10, <2>2 DEF Sse!TypeOK
  <2>5. Connected'
    BY <1>1, <1>3, <1>8, <1>10, <2>2, <2>3 DEF Connected, Sse!At
  <2>6. ReadsOn'
    BY <1>1, <1>2, <1>10, <2>2, <2>3 DEF ReadsOn, Sse!At, Reads
  <2>7. NoGap'
    BY <1>1, <1>2, <1>10 DEF NoGap, Sse!NoGap, Sse!Complete
  <2> QED
    BY <2>2, <2>4, <2>5, <2>6, <2>7 DEF SseInv
<1>11. CASE /\ Sse!Heard(h) /\ Received(nLast)
            /\ nHandler' = [nHandler EXCEPT ![h].pc = "loop", ![h].cursor = nLast]
            /\ nClient' = [nClient EXCEPT ![c].id = nLast]
            /\ UNCHANGED nDrops
  <2>1. nHandler' = [nHandler EXCEPT ![h] = on]
    BY <1>1, <1>11
  <2>2. nClient[c].conn = h /\ h # None
    BY <1>1, <1>11 DEF Sse!Heard
  <2>3. /\ nGot' \in [Client -> SUBSET Sse!Notice] /\ nTrimmed' \in [Client -> SUBSET Sse!Notice]
        /\ nGot'[c] = nGot[c] \cup {i \in Sse!After(h) \ Sse!Trimmed : i <= nLast}
        /\ nTrimmed'[c] = nTrimmed[c] \cup {i \in Sse!After(h) \cap Sse!Trimmed : i <= nLast}
        /\ \A d \in Client : d # c => nGot'[d] = nGot[d] /\ nTrimmed'[d] = nTrimmed[d]
    BY <1>4, <1>7, <1>11
  <2> HIDE DEF on
  <2>4. /\ nHandler' \in [Handler -> Sse!Request]
        /\ \A g \in Handler : nHandler'[g] = IF g = h THEN on ELSE nHandler[g]
        /\ nQueue' \in Seq(Handler) /\ Queued'
    BY <1>6, <1>8, <2>1
  <2>5. /\ nClient' \in [Client -> [conn : Handler \cup {None}, id : Sse!Notice \cup {None}]]
        /\ \A d \in Client : /\ nClient'[d].conn = nClient[d].conn
                             /\ nClient'[d].id = IF d = c THEN nLast ELSE nClient[d].id
    BY <1>1, <1>4, <1>11
  <2>6. nFrom[c] # None /\ (nFrom[c] + 1)..nLast \subseteq nGot'[c] \cup nTrimmed'[c]
    BY <1>3, <2>2, <2>3, ReadFills
  <2>7. Sse!TypeOK'
    BY <1>1, <1>2, <1>11, <2>3, <2>4, <2>5 DEF Sse!TypeOK
  <2>8. Connected'
    <3>1. \A g \in Handler : nHandler'[g].pc # "free" => nHandler'[g].client \in Client
      BY <1>1, <1>3, <1>8, <2>4 DEF Connected, Sse!At
    <3>2. ASSUME NEW d \in Client, nClient'[d].conn # None
          PROVE  LET g == nHandler'[nClient'[d].conn]
                 IN  g.pc # "free" /\ g.client = d /\ ~g.closed
      <4>1. nClient'[d].conn = nClient[d].conn /\ nClient[d].conn \in Handler
        BY <1>1, <2>5, <3>2
      <4>2. LET g == nHandler[nClient[d].conn]
            IN  g.pc # "free" /\ g.client = d /\ ~g.closed
        BY <1>1, <3>2, <4>1 DEF Connected, Sse!At
      <4> QED
        BY <1>8, <2>4, <4>1, <4>2
    <3> QED
      BY <3>1, <3>2 DEF Connected, Sse!At
  <2>9. ReadsOn'
    <3> SUFFICES ASSUME NEW d \in Client
                 PROVE  /\ nClient'[d].id # None => nFrom'[d] # None
                        /\ nClient'[d].conn # None =>
                             LET g == nHandler'[nClient'[d].conn]
                             IN  /\ g.pc = "tail" => nClient'[d].id = None
                                 /\ g.pc \in {"loop", "reading", "sleep"} =>
                                      /\ nFrom'[d] # None
                                      /\ g.cursor = IF nClient'[d].id = None THEN nFrom'[d]
                                                    ELSE nClient'[d].id
      BY DEF ReadsOn, Sse!At, Reads
    <3>1. CASE d = c
      BY <1>2, <1>4, <1>8, <2>2, <2>4, <2>5, <2>6, <3>1
    <3>2. CASE d # c
      <4>1. nClient[d].conn # h /\ nClient[d].conn \in Handler \cup {None}
        BY <1>1, <1>5, <3>2
      <4> QED
        BY <1>1, <1>2, <2>4, <2>5, <3>2, <4>1 DEF ReadsOn, Sse!At, Reads
    <3> QED
      BY <3>1, <3>2
  <2>10. NoGap'
    <3> SUFFICES ASSUME NEW d \in Client
                 PROVE  Sse!Complete(d, nFrom)'
      BY DEF NoGap, Sse!NoGap
    <3>1. CASE d = c
      BY <1>2, <2>5, <2>6, <3>1 DEF Sse!Complete
    <3>2. CASE d # c
      BY <1>1, <1>2, <2>3, <2>5, <3>2 DEF NoGap, Sse!NoGap, Sse!Complete
    <3> QED
      BY <3>1, <3>2
  <2> QED
    BY <2>4, <2>7, <2>8, <2>9, <2>10 DEF SseInv
<1>12. CASE /\ Sse!Heard(h) /\ nDrops < MaxDrops /\ nDrops' = nDrops + 1
            /\ \E n \in Sse!After(h) \ Sse!Trimmed :
                 /\ n < nLast /\ Received(n)
                 /\ nClient' = [nClient EXCEPT ![c] = [conn |-> None, id |-> n]]
            /\ nHandler' = [nHandler EXCEPT ![h].pc = "loop", ![h].cursor = nLast,
                                            ![h].closed = TRUE]
  <2>1. nHandler' = [nHandler EXCEPT ![h] = off]
    BY <1>1, <1>12
  <2>2. nClient[c].conn = h /\ h # None
    BY <1>1, <1>12 DEF Sse!Heard
  <2>3. PICK n \in Sse!After(h) :
          Received(n) /\ nClient' = [nClient EXCEPT ![c] = [conn |-> None, id |-> n]]
    BY <1>12
  <2>4. n \in Sse!Notice /\ n # None
    BY <1>1 DEF Sse!After, Sse!Notice
  <2>5. /\ nGot' \in [Client -> SUBSET Sse!Notice] /\ nTrimmed' \in [Client -> SUBSET Sse!Notice]
        /\ nGot'[c] = nGot[c] \cup {i \in Sse!After(h) \ Sse!Trimmed : i <= n}
        /\ nTrimmed'[c] = nTrimmed[c] \cup {i \in Sse!After(h) \cap Sse!Trimmed : i <= n}
        /\ \A d \in Client : d # c => nGot'[d] = nGot[d] /\ nTrimmed'[d] = nTrimmed[d]
    BY <1>7, <2>3, <2>4
  <2> HIDE DEF off
  <2>6. /\ nHandler' \in [Handler -> Sse!Request]
        /\ \A g \in Handler : nHandler'[g] = IF g = h THEN off ELSE nHandler[g]
        /\ nQueue' \in Seq(Handler) /\ Queued'
    BY <1>6, <1>9, <2>1
  <2>7. /\ nClient' \in [Client -> [conn : Handler \cup {None}, id : Sse!Notice \cup {None}]]
        /\ \A d \in Client : d # c => nClient'[d] = nClient[d]
        /\ nClient'[c].conn = None /\ nClient'[c].id = n
    BY <1>1, <1>3, <2>3, <2>4
  <2>8. nFrom[c] # None /\ (nFrom[c] + 1)..n \subseteq nGot'[c] \cup nTrimmed'[c]
    BY <1>3, <2>2, <2>5, ReadFills
  <2>9. nDrops' \in 0..MaxDrops
    BY <1>1, <1>12, GatewayAssumption DEF Sse!TypeOK, Sse!NotificationAssumption
  <2>10. Sse!TypeOK'
    BY <1>1, <1>2, <2>5, <2>6, <2>7, <2>9 DEF Sse!TypeOK
  <2>11. Connected'
    <3>1. \A g \in Handler : nHandler'[g].pc # "free" => nHandler'[g].client \in Client
      BY <1>1, <1>3, <1>9, <2>6 DEF Connected, Sse!At
    <3>2. ASSUME NEW d \in Client, nClient'[d].conn # None
          PROVE  LET g == nHandler'[nClient'[d].conn]
                 IN  g.pc # "free" /\ g.client = d /\ ~g.closed
      <4>1. nClient'[d].conn = nClient[d].conn /\ nClient[d].conn \in Handler
        BY <1>1, <2>7, <3>2
      <4>2. LET g == nHandler[nClient[d].conn]
            IN  g.pc # "free" /\ g.client = d /\ ~g.closed
        BY <1>1, <3>2, <4>1 DEF Connected, Sse!At
      <4> QED
        BY <1>5, <2>2, <2>7, <3>2, <1>9, <2>6, <4>1, <4>2
    <3> QED
      BY <3>1, <3>2 DEF Connected, Sse!At
  <2>12. ReadsOn'
    <3> SUFFICES ASSUME NEW d \in Client
                 PROVE  /\ nClient'[d].id # None => nFrom'[d] # None
                        /\ nClient'[d].conn # None =>
                             LET g == nHandler'[nClient'[d].conn]
                             IN  /\ g.pc = "tail" => nClient'[d].id = None
                                 /\ g.pc \in {"loop", "reading", "sleep"} =>
                                      /\ nFrom'[d] # None
                                      /\ g.cursor = IF nClient'[d].id = None THEN nFrom'[d]
                                                    ELSE nClient'[d].id
      BY DEF ReadsOn, Sse!At, Reads
    <3>1. CASE d = c
      BY <1>2, <2>7, <2>8, <3>1
    <3>2. CASE d # c
      <4>1. nClient[d].conn # h /\ nClient[d].conn \in Handler \cup {None}
        BY <1>1, <1>5, <3>2
      <4> QED
        BY <1>1, <1>2, <2>6, <2>7, <3>2, <4>1 DEF ReadsOn, Sse!At, Reads
    <3> QED
      BY <3>1, <3>2
  <2>13. NoGap'
    <3> SUFFICES ASSUME NEW d \in Client
                 PROVE  Sse!Complete(d, nFrom)'
      BY DEF NoGap, Sse!NoGap
    <3>1. CASE d = c
      BY <1>2, <2>7, <2>8, <3>1 DEF Sse!Complete
    <3>2. CASE d # c
      BY <1>1, <1>2, <2>5, <2>7, <3>2 DEF NoGap, Sse!NoGap, Sse!Complete
    <3> QED
      BY <3>1, <3>2
  <2> QED
    BY <2>6, <2>10, <2>11, <2>12, <2>13 DEF SseInv
<1> QED
  BY <1>2, <1>10, <1>11, <1>12 DEF Sse!Write
\* Another read, behind those of the other loops.
LEMMA SseReads ==
    ASSUME SseInv, NEW h \in Handler, Sse!Read(h)
    PROVE  SseInv'
<1>1. /\ Sse!TypeOK /\ Queued /\ nHandler \in [Handler -> Sse!Request] /\ nHandler[h].pc = "loop"
      /\ nQueue \in Seq(Handler) /\ nDrops \in 0..MaxDrops /\ nErrors \in 0..MaxErrors
      /\ UNCHANGED <<nLast, nClient, nDrops, nErrors, nFrom, nSince, nGot, nTrimmed>>
  BY DEF Sse!Read, Sse!At, Sse!bounds, Sse!history, SseInv, Sse!TypeOK
<1>2. CASE nHandler[h].closed /\ nHandler' = [nHandler EXCEPT ![h] = Sse!Free] /\ UNCHANGED nQueue
  <2>1. Sse!Free \in Sse!Request /\ Sse!Free.pc = "free"
    BY GatewayAssumption DEF Sse!Free, Sse!Request, Sse!Cursor, Sse!NotificationAssumption
  <2>2. nQueue' \in Seq(Handler) /\ Queued'
    BY <1>1, <1>2, QueueKept DEF Sse!At
  <2> QED
    BY <1>1, <1>2, <2>1, <2>2, SseLoops DEF Sse!At
<1>3. CASE /\ nHandler' = [nHandler EXCEPT ![h].pc = "reading"]
           /\ nQueue' = Append(nQueue, h)
  <2> DEFINE r == [nHandler[h] EXCEPT !.pc = "reading"]
  <2>1. /\ r \in Sse!Request /\ r.pc = "reading" /\ r.client = nHandler[h].client
        /\ r.cursor = nHandler[h].cursor /\ r.closed = nHandler[h].closed
    BY <1>1 DEF Sse!Request
  <2>2. nHandler' = [nHandler EXCEPT ![h] = r]
    BY <1>1, <1>3
  <2> HIDE DEF r
  <2>3. \A g \in Handler : nHandler'[g] = IF g = h THEN r ELSE nHandler[g]
    BY <1>1, <2>2
  <2>4. /\ nQueue' \in Seq(Handler)
        /\ \A i \in DOMAIN nQueue' : \/ i \in DOMAIN nQueue /\ nQueue'[i] = nQueue[i]
                                     \/ i = Len(nQueue) + 1 /\ nQueue'[i] = h
    BY <1>1, <1>3
  <2>5. \A i \in DOMAIN nQueue : nQueue[i] # h /\ nQueue[i] \in Handler
    BY <1>1 DEF Queued, Sse!At
  <2>6. \A i \in DOMAIN nQueue' : nHandler'[nQueue'[i]].pc = "reading"
    BY <1>1, <2>1, <2>3, <2>4, <2>5 DEF Queued, Sse!At
  <2>7. \A i, j \in DOMAIN nQueue' : nQueue'[i] = nQueue'[j] => i = j
    BY <1>1, <2>4, <2>5 DEF Queued
  <2>8. Queued'
    BY <2>6, <2>7 DEF Queued, Sse!At
  <2> QED
    BY <1>1, <2>1, <2>2, <2>4, <2>8, SseLoops DEF Reads
<1> QED
  BY <1>2, <1>3 DEF Sse!Read, Sse!Goto

\* A read is done with at the head of the queue: its loop ends, or goes on with its cursor.
LEMMA SseRests ==
    ASSUME SseInv, NEW h \in Handler, Sse!First(h), nQueue' = Tail(nQueue),
           NEW pc \in {"loop", "sleep"},
           \/ nHandler[h].closed /\ nHandler' = [nHandler EXCEPT ![h] = Sse!Free]
           \/ ~nHandler[h].closed /\ nHandler' = [nHandler EXCEPT ![h] = [@ EXCEPT !.pc = pc]],
           nDrops' = nDrops, nErrors' \in 0..MaxErrors,
           UNCHANGED <<nLast, nClient, nFrom, nSince, nGot, nTrimmed>>
    PROVE  SseInv'
<1>1. /\ Sse!TypeOK /\ Queued /\ nHandler \in [Handler -> Sse!Request]
      /\ nDrops' \in 0..MaxDrops
  BY DEF SseInv, Sse!TypeOK
<1>2. nHandler[h].pc = "reading"
  BY <1>1, QueueHead DEF Sse!At
<1>3. nQueue' \in Seq(Handler) /\ Queued'
  <2>1. \A g \in Handler : g # h => nHandler'[g].pc = nHandler[g].pc
    BY <1>1
  <2> QED
    BY <1>1, <2>1, QueueRests
<1>4. CASE nHandler[h].closed /\ nHandler' = [nHandler EXCEPT ![h] = Sse!Free]
  <2>1. Sse!Free \in Sse!Request /\ Sse!Free.pc = "free"
    BY GatewayAssumption DEF Sse!Free, Sse!Request, Sse!Cursor, Sse!NotificationAssumption
  <2> QED
    BY <1>1, <1>2, <1>3, <1>4, <2>1, SseLoops DEF Sse!At
<1>5. CASE nHandler' = [nHandler EXCEPT ![h] = [@ EXCEPT !.pc = pc]]
  <2> DEFINE r == [nHandler[h] EXCEPT !.pc = pc]
  <2>1. /\ r \in Sse!Request /\ r.pc = pc /\ r.client = nHandler[h].client
        /\ r.cursor = nHandler[h].cursor /\ r.closed = nHandler[h].closed
    BY <1>1 DEF Sse!Request
  <2>2. nHandler' = [nHandler EXCEPT ![h] = r]
    BY <1>1, <1>5
  <2> HIDE DEF r
  <2> QED
    BY <1>1, <1>2, <1>3, <2>1, <2>2, SseLoops DEF Reads
<1> QED
  BY <1>4, <1>5

\* Every step keeps the invariant.
LEMMA SseStep ==
    ASSUME SseInv, [Sse!Next]_(Sse!vars)
    PROVE  SseInv'
<1>0. /\ Sse!TypeOK /\ Connected /\ Queued /\ ReadsOn /\ NoGap
      /\ nErrors \in 0..MaxErrors /\ nDrops \in 0..MaxDrops /\ nLast \in Sse!Cursor
      /\ nHandler \in [Handler -> Sse!Request]
      /\ MaxErrors \in Nat /\ MaxNotice \in Nat
  BY GatewayAssumption DEF SseInv, Sse!TypeOK, Sse!NotificationAssumption
<1>1. CASE UNCHANGED Sse!vars
  BY <1>0, <1>1 DEF Sse!vars, Sse!TypeOK, Connected, Queued, ReadsOn, Reads, Sse!At, NoGap,
                   Sse!NoGap, Sse!Complete, SseInv
<1>2. CASE Sse!Publish
  <2>1. /\ nLast' = nLast + 1 /\ nLast < MaxNotice
        /\ UNCHANGED <<nHandler, nQueue, nClient, nDrops, nErrors, nFrom, nSince, nGot, nTrimmed>>
    BY <1>2 DEF Sse!Publish, Sse!bounds, Sse!history
  <2>2. nLast' \in Sse!Cursor
    BY <1>0, <2>1 DEF Sse!Cursor
  <2>3. Sse!TypeOK'
    BY <1>0, <2>1, <2>2 DEF Sse!TypeOK
  <2> QED
    BY <1>0, <2>1, <2>3 DEF Connected, Queued, ReadsOn, Reads, Sse!At, NoGap,
                           Sse!NoGap, Sse!Complete, SseInv
<1>3. ASSUME NEW h \in Handler, Sse!Served(h)
      PROVE  SseInv'
  <2>1. CASE nHandler[h].closed
    BY <1>0, <1>3, <2>1, SseRests DEF Sse!Served
  <2>2. CASE ~nHandler[h].closed
    BY <1>3, <2>2, SseWrites
  <2> QED
    BY <2>1, <2>2
<1>4. ASSUME NEW h \in Handler, Sse!Expired(h)
      PROVE  SseInv'
  BY <1>0, <1>4, SseRests DEF Sse!Expired, Sse!bounds, Sse!history
<1>5. ASSUME NEW h \in Handler, Sse!Failed(h)
      PROVE  SseInv'
  <2>1. nErrors' \in 0..MaxErrors
    BY <1>0, <1>5 DEF Sse!Failed
  <2> QED
    BY <1>0, <1>5, <2>1, SseRests DEF Sse!Failed, Sse!history
<1>6. ASSUME NEW h \in Handler, Sse!Wake(h)
      PROVE  SseInv'
  <2> DEFINE r == [nHandler[h] EXCEPT !.pc = "loop"]
  <2>1. /\ nHandler[h].pc = "sleep" /\ nHandler' = [nHandler EXCEPT ![h].pc = "loop"]
        /\ UNCHANGED <<nLast, nQueue, nClient, nDrops, nErrors, nFrom, nSince, nGot, nTrimmed>>
    BY <1>6 DEF Sse!Wake, Sse!At, Sse!Goto, Sse!bounds, Sse!history
  <2>2. /\ r \in Sse!Request /\ r.pc = "loop" /\ r.client = nHandler[h].client
        /\ r.cursor = nHandler[h].cursor /\ r.closed = nHandler[h].closed
    BY <1>0 DEF Sse!Request
  <2>3. nHandler' = [nHandler EXCEPT ![h] = r]
    BY <1>0, <2>1
  <2> HIDE DEF r
  <2>4. nQueue' \in Seq(Handler) /\ Queued'
    BY <1>0, <2>1, <2>3, QueueKept DEF Sse!At
  <2> QED
    BY <1>0, <2>1, <2>2, <2>3, <2>4, SseLoops DEF Reads
<1> QED
  BY <1>1, <1>2, <1>3, <1>4, <1>5, <1>6, SseConnects, SseDrops, SseTails, SseReads
     DEF Sse!Next, Sse!Loop

\* The streams by themselves keep it for ever.
LEMMA SseInvariant == Sse!NotificationSpec => []SseInv
<1>1. SseInv /\ [Sse!Next]_(Sse!vars) => SseInv'
  BY SseStep
<1> QED
  BY <1>1, SseInit, PTL DEF Sse!NotificationSpec

\* The steps of the whole are, for the streams, their own or none.
LEMMA GatewayNotifies == GatewaySpec => Sse!NotificationSpec
<1>1. MCInit => Sse!Init
  BY DEF MCInit
<1>2. [MCNext]_<<part, vars, caches, dispatch, plugin, sse>> => [Sse!Next]_(Sse!vars)
  BY DEF MCNext, sse, Sse!vars, Sse!bounds, Sse!history
<1> QED
  BY <1>1, <1>2, PTL DEF GatewaySpec, Sse!NotificationSpec

\* A client of the classic SSE endpoint that resumes with its Last-Event-ID has no gap up to the
\* last frame it got, but for what the stream had trimmed, whatever breaks, fails or interleaves
\* on the connection that the loops share (sse.controller.ts, readStreamFrom()).
THEOREM NoGapAlways == GatewaySpec => []NoGap
<1>1. SseInv => NoGap
  BY DEF SseInv
<1> QED
  BY <1>1, SseInvariant, GatewayNotifies, PTL
=============================================================================
