----------------------------- MODULE MCAdmission -----------------------------
(***************************************************************************)
(* What is let in, side by side: servers behind their approval, the tools  *)
(* that an approval imports, event routes behind their review, the calls   *)
(* of a session within its limits, and its key.  A behaviour is of one of  *)
(* them, while the others rest as they begin.                              *)
(***************************************************************************)
EXTENDS MCImportApproval, Sequences
CONSTANTS Event, MaxVersion, MaxStamp, Call, Key, Options, Ttl, MaxClock, MaxCount,
          Apis, Depths, Docs
VARIABLES part,
          eRow, eSource, eSeen, eConsumer, eValidator, eEvent, eApproved, eReviewed, eOwn, eRan,
          lOpts, lClock, lRecord, lBuckets, lCounter, lCall, lLog, lLost, lAsked,
          kClock, kLive, kTouched, kTouch, kCall, kSeen, kAdmin, kDel,
          tSource, tTools, tCall

Off == [maxCalls |-> None, maxDuration |-> None, rpm |-> None, loopN |-> None, server |-> None]
\* Each limit where it is the one that refuses.
Deployments ==
    {[Off EXCEPT !.maxCalls = 2, !.maxDuration = 2],
     [Off EXCEPT !.rpm = 2, !.loopN = 2], [Off EXCEPT !.server = 1]}

Bridge == INSTANCE EventBridge WITH
    Restarts <- TRUE,
    row <- eRow, source <- eSource, seen <- eSeen, consumer <- eConsumer,
    validator <- eValidator, event <- eEvent, approved <- eApproved, reviewed <- eReviewed,
    own <- eOwn, ran <- eRan
Limits == INSTANCE SessionLimits WITH
    Allowed <- {"crash", "redis"},
    opts <- lOpts, clock <- lClock, record <- lRecord, buckets <- lBuckets,
    counter <- lCounter, call <- lCall, log <- lLog, lost <- lLost, asked <- lAsked
Keeps == INSTANCE SessionKey WITH
    Arrival <- Call, Allowed <- {"crash", "redis"},
    clock <- kClock, live <- kLive, touched <- kTouched, touch <- kTouch, call <- kCall,
    seen <- kSeen, admin <- kAdmin, del <- kDel

Samples == INSTANCE ApiSamples
SmallApis == Samples!SmallApis
SomeDepths == Samples!SomeDepths
SmallDocs == Samples!SmallDocs
Imports == INSTANCE ImportedTools WITH
    source <- tSource, tools <- tTools, call <- tCall

ASSUME AdmissionAssumption ==
    /\ Bridge!EventBridgeAssumption /\ Limits!SessionLimitsAssumption
    /\ Keeps!SessionKeyAssumption /\ Imports!ImportedToolsAssumption

bridge == <<eRow, eSource, eSeen, eConsumer, eValidator, eEvent, eApproved, eReviewed, eOwn,
            eRan>>
limits == <<lOpts, lClock, lRecord, lBuckets, lCounter, lCall, lLog, lLost, lAsked>>
keeps == <<kClock, kLive, kTouched, kTouch, kCall, kSeen, kAdmin, kDel>>
imports == <<tSource, tTools, tCall>>

MCInit ==
    /\ part \in {"servers", "imports", "bridge", "limits", "sessions"}
    /\ Init /\ Bridge!Init /\ Limits!Init /\ Keeps!Init
    /\ part # "limits" => lOpts.server # None
    /\ IF part = "imports" THEN Imports!Init ELSE tSource = None /\ tTools = None /\ tCall = None
MCNext ==
    /\ UNCHANGED part
    /\ \/ part = "servers" /\ Next /\ UNCHANGED <<bridge, limits, keeps, imports>>
       \/ part = "imports" /\ Imports!Next /\ UNCHANGED <<vars, bridge, limits, keeps>>
       \/ part = "bridge" /\ Bridge!Next /\ UNCHANGED <<vars, limits, keeps, imports>>
       \/ part = "limits" /\ Limits!Next /\ UNCHANGED <<vars, bridge, keeps, imports>>
       \/ part = "sessions" /\ Keeps!Next /\ UNCHANGED <<vars, bridge, limits, imports>>
AdmissionSpec == MCInit /\ [][MCNext]_<<part, vars, bridge, limits, keeps, imports>>

\* ToolsAreExact of ImportedTools: a tool selects and asks for what its API has and asks.
ToolsAreExact == part = "imports" => Imports!ToolsAreExact
\* OperationIsSent of ImportedTools: a call is of the operation its tool was made from.
OperationIsSent == part = "imports" => Imports!OperationIsSent
\* RunsOnlyArmed of EventBridge: no event runs a tool round the approval of its route.
RunsOnlyArmed == Bridge!RunsOnlyArmed
\* SchemaIsOfTarget of EventBridge: a payload is validated by the route it is run for.
SchemaIsOfTarget == Bridge!SchemaIsOfTarget
\* LimitsHold of SessionLimits: a session that has its record stays within its limits.
LimitsHold == Limits!LimitsHold
\* RemovalIsFinal of SessionKey: a removal that no touch straddles is not undone.
RemovalIsFinal == Keeps!RemovalIsFinal
=============================================================================
