------------------------------ MODULE MCGateway ------------------------------
(***************************************************************************)
(* What a tools/call meets in one process, side by side: the circuit       *)
(* breaker, the caches, the dispatch with its session or pool, and the     *)
(* plugin that administrators switch, and the notifications that clients   *)
(* read meanwhile.  A behaviour is of one of them, while the others rest   *)
(* as they begin.                                                          *)
(***************************************************************************)
EXTENDS MCCircuitBreaker
CONSTANTS ServerSpec, Admin, Reader, PoolMax, MaxVersion, Resolution,
          Node, Operator, MaxRounds, PluginOverlap, Faults, None,
          Caller, Client, Handler, MaxLen, MaxNotice, MaxDrops, MaxErrors
VARIABLES part,
          iRow, iSnapshot, iOp, iMirrored, iCapsCache, iListCache, iBus, iRd,
          tKind, tVersion, tApproved, tDue, tClean, tAlive, tCall, tLink, tPool, tDirty,
          pRow, pUp, pLoaded, pEnabled, pItems, pRequest, pRounds, pChoice, pFailed,
          nLast, nHandler, nQueue, nClient, nDrops, nErrors, nFrom, nSince, nGot, nTrimmed

Caches == INSTANCE ImportApproval WITH
    Spec <- ServerSpec, External <- {}, OverlapAllowed <- TRUE,
    row <- iRow, snapshot <- iSnapshot, op <- iOp, mirrored <- iMirrored,
    capsCache <- iCapsCache, listCache <- iListCache, bus <- iBus, rd <- iRd
ToolCallKinds == {"sql", "openapi", "graphql", "stdio", "ws", "sse", "http", "streamable-http"}
ToolCall == INSTANCE ToolCall WITH
    Call <- Caller, Kinds <- ToolCallKinds,
    kind <- tKind, version <- tVersion, approved <- tApproved, due <- tDue, clean <- tClean,
    alive <- tAlive, call <- tCall, link <- tLink, pool <- tPool, dirty <- tDirty
Plugin == INSTANCE PluginManager WITH
    Admin <- Operator, Overlap <- PluginOverlap,
    row <- pRow, up <- pUp, loaded <- pLoaded, enabled <- pEnabled, items <- pItems,
    request <- pRequest, rounds <- pRounds, choice <- pChoice, failed <- pFailed

Sse == INSTANCE NotificationStream WITH
    last <- nLast, handler <- nHandler, queue <- nQueue, client <- nClient, drops <- nDrops,
    errors <- nErrors, from <- nFrom, since <- nSince, got <- nGot, trimmed <- nTrimmed

ASSUME GatewayAssumption ==
    ToolCall!ToolCallAssumption /\ Plugin!PluginAssumption /\ Sse!NotificationAssumption

caches == <<iRow, iSnapshot, iOp, iMirrored, iCapsCache, iListCache, iBus, iRd>>
dispatch == <<tKind, tVersion, tApproved, tDue, tClean, tAlive, tCall, tLink, tPool, tDirty>>
plugin == <<pRow, pUp, pLoaded, pEnabled, pItems, pRequest, pRounds, pChoice, pFailed>>
sse == <<nLast, nHandler, nQueue, nClient, nDrops, nErrors, nFrom, nSince, nGot, nTrimmed>>

MCInit ==
    /\ part \in {"breaker", "caches", "dispatch", "plugin", "sse"}
    /\ Init /\ Caches!Init /\ ToolCall!Init /\ Plugin!Init /\ Sse!Init
    /\ part # "dispatch" => tKind = "sql"
MCNext ==
    /\ UNCHANGED part
    /\ \/ part = "breaker" /\ Next /\ UNCHANGED <<caches, dispatch, plugin, sse>>
       \/ part = "caches" /\ Caches!Next /\ UNCHANGED <<vars, dispatch, plugin, sse>>
       \/ part = "dispatch" /\ ToolCall!Next /\ UNCHANGED <<vars, caches, plugin, sse>>
       \/ part = "plugin" /\ Plugin!Next /\ UNCHANGED <<vars, caches, dispatch, sse>>
       \/ part = "sse" /\ Sse!Next /\ UNCHANGED <<vars, caches, dispatch, plugin>>

\* Fairness of CircuitBreaker, for the behaviours that are of it; no fair action of the
\* other parts is enabled while they rest.
Running == part = "breaker"
BreakerFairness ==
    /\ WF_vars(Running /\ Tick)
    /\ \A c \in Call : WF_vars(Running /\ Attempt(c)) /\ WF_vars(Running /\ Retry(c))

GatewaySpec ==
    /\ MCInit /\ [][MCNext]_<<part, vars, caches, dispatch, plugin, sse>>
    /\ BreakerFairness /\ Caches!Fairness /\ ToolCall!Fairness /\ Sse!Fairness

\* CachesConverge of ImportApproval: stale cache entries do not outlive the TTL.
CachesConverge == Caches!CachesConverge
\* EndedCallsHoldNothing of ToolCall: sessions and clients are given back on every path.
EndedCallsHoldNothing == ToolCall!EndedCallsHoldNothing
\* CallsEnd of ToolCall: a call is answered whichever way its upstream fails.
CallsEnd == ToolCall!CallsEnd
\* PoolIsOfRow of ToolCall: after an approval no call meets a pool to another database.
PoolIsOfRow == ToolCall!PoolIsOfRow
\* ChoiceIsDurableUnlessFailed of PluginManager: what was answered survives a restart.
ChoiceIsDurable == Plugin!ChoiceIsDurableUnlessFailed
\* NoGap of NotificationStream: a client that resumes misses nothing the stream holds.
NoGap == Sse!NoGap
\* ReadersCatchUp of NotificationStream: no reader starves on the shared connection.
ReadersCatchUp == Sse!ReadersCatchUp
=============================================================================
