----------------------------- MODULE EventBridge -----------------------------
(***************************************************************************)
(* An event route (ADR-022): its row in event_routes with the approval     *)
(* workflow of events.controller.ts, the webhook ingress, the consumer     *)
(* that the supervisor starts for a route of a broker, and the dispatcher  *)
(* both share.  Routes share nothing, so one is modelled.  A version of    *)
(* the route stands for its match, auth, schema and target.                *)
(***************************************************************************)
EXTENDS Naturals, FiniteSets

CONSTANTS
    Event,      \* deliveries by webhook callers and by the broker
    MaxVersion, \* bound: submissions
    MaxStamp,   \* bound: writes of the row, each a millisecond or more after the last
    Restarts,   \* may the process restart?
    None

Version == 1..MaxVersion
\* The verdict on a message of the broker: the broker has its own access lists.
Broker == 0

Row == [version : Version, status : {"pending", "approved", "rejected"}, stamp : 1..MaxStamp]

EventBridgeAssumption ==
    /\ MaxVersion \in Nat \ {0} /\ MaxStamp \in Nat \ {0} /\ Restarts \in BOOLEAN
    /\ None \notin Row

VARIABLES
    row,        \* the route, or None
    source,     \* its source_type, which the first submission sets for good
    seen,       \* the version an administrator reads in the list
    consumer,   \* the consumer of the supervisor runs
    validator,  \* validators.get(id): the schema compiled last, with the row's updatedAt
    event,      \* where each delivery is
    approved,   \* history: versions an administrator has approved
    reviewed,   \* history: the same, of those that were on the screen
    own,        \* history: versions whose submission approved itself
    ran         \* history: [version, schema, verdict] of the tool calls made

vars == <<row, source, seen, consumer, validator, event, approved, reviewed, own, ran>>
history == <<approved, reviewed, own, ran>>

Outcome == {"ok", "error", "not_ready", "auth_failed", "schema_invalid", "owner_missing",
            "unknown", "lost"}
NoEvent == [pc |-> "idle", knows |-> None, verdict |-> None, target |-> None,
            schema |-> None, armed |-> FALSE]

Init ==
    /\ row = None /\ source = None /\ seen = None
    /\ consumer = FALSE /\ validator = None
    /\ event = [e \in Event |-> NoEvent]
    /\ approved = {} /\ reviewed = {} /\ own = {} /\ ran = {}

Armed(r) == r # None /\ r.status = "approved"
Stamp == IF row = None THEN 1 ELSE row.stamp + 1
\* Every delivery under way learns that the route is armed.
Notice == event' = [e \in Event |-> [event[e] EXCEPT !.armed = TRUE]]

-----------------------------------------------------------------------------
(* The administration *)

\* Mutation of Submitted: a resubmission leaves the approval alone.
StatusKept(v, auto) ==
    [version |-> v, stamp |-> Stamp,
     status |-> IF row # None THEN row.status ELSE IF auto THEN "approved" ELSE "pending"]

\* create(): an insert, which is approved at once if the input says so, or an update that
\* asks for approval whatever it says and leaves the owner, the source and "enabled" alone.
Submitted(v, auto) ==
    [version |-> v, stamp |-> Stamp,
     status |-> IF row = None /\ auto THEN "approved" ELSE "pending"]

\* POST /api/events/routes hands on the body as it is, "autoApprove" included.
Submit(s, auto) ==
    /\ row # None => row.version < MaxVersion /\ row.stamp < MaxStamp
    /\ LET v == IF row = None THEN 1 ELSE row.version + 1
       IN  /\ row' = Submitted(v, auto)
           /\ own' = IF row = None /\ auto THEN own \cup {v} ELSE own
    /\ source' = IF source = None THEN s ELSE source
    /\ IF Armed(row') THEN Notice ELSE UNCHANGED event
    /\ UNCHANGED <<seen, consumer, validator, approved, reviewed, ran>>

\* GET /api/events/routes.
List ==
    /\ row # None /\ seen # row.version
    /\ seen' = row.version
    /\ UNCHANGED <<row, source, consumer, validator, event, history>>

\* POST /api/events/routes/:id/approve: an update by id, whatever the row says by now.
Approve ==
    /\ seen # None /\ row.stamp < MaxStamp
    /\ row' = [row EXCEPT !.status = "approved", !.stamp = Stamp]
    /\ approved' = approved \cup {row.version}
    /\ reviewed' = reviewed \cup (IF seen = row.version THEN {seen} ELSE {})
    /\ Notice
    /\ UNCHANGED <<source, seen, consumer, validator, own, ran>>

\* POST /api/events/routes/:id/reject.
Reject ==
    /\ seen # None /\ row.stamp < MaxStamp
    /\ row' = [row EXCEPT !.status = "rejected", !.stamp = Stamp]
    /\ UNCHANGED <<source, seen, consumer, validator, event, history>>

-----------------------------------------------------------------------------
(* The ways in *)

Begin(e, knows, verdict) ==
    event' = [event EXCEPT ![e] =
                [NoEvent EXCEPT !.pc = "dispatch", !.knows = knows, !.verdict = verdict,
                                !.armed = Armed(row)]]

\* POST /api/events/:id: the route is read, and the caller proves itself as that version
\* demands.  A caller has the secret of one version, and a payload that fits one.
Ingest(e, knows, secret) ==
    /\ event[e].pc = "idle" /\ row # None
    /\ Begin(e, knows, IF secret = row.version THEN secret ELSE None)
    /\ UNCHANGED <<row, source, seen, consumer, validator, history>>

IngestUnknown(e) ==
    /\ event[e].pc = "idle" /\ row = None
    /\ event' = [event EXCEPT ![e].pc = "unknown"]
    /\ UNCHANGED <<row, source, seen, consumer, validator, history>>

\* The process restarts: onModuleDestroy() stops the consumer, validators are gone, and
\* onModuleInit() starts a consumer if the route is approved now and its source is one a
\* factory supports.  One that cannot start is left out.
Restart ==
    /\ Restarts
    /\ event' = [e \in Event |->
                   IF event[e].pc \in Outcome \cup {"idle"} THEN event[e]
                   ELSE [NoEvent EXCEPT !.pc = "lost"]]
    /\ validator' = None
    /\ consumer' \in {FALSE, Armed(row) /\ source = "kafka"}
    /\ UNCHANGED <<row, source, seen, history>>

\* A message of the broker.
Consume(e, v) ==
    /\ event[e].pc = "idle" /\ consumer
    /\ Begin(e, v, Broker)
    /\ UNCHANGED <<row, source, seen, consumer, validator, history>>

-----------------------------------------------------------------------------
(* dispatch() *)

\* Mutation of Fresh: a schema is compiled once for a route.
CompiledOnce == validator # None

\* validatorFor(): the validator compiled last is good for the same updatedAt.
Fresh == validator # None /\ validator.stamp = row.stamp
Schema == IF Fresh THEN validator ELSE [version |-> row.version, stamp |-> row.stamp]

\* The dispatcher reads the route again: disarmed, not proven, not what the schema wants,
\* or on to the owner.
Dispatch(e) ==
    /\ event[e].pc = "dispatch"
    /\ IF ~Armed(row)
         THEN /\ event' = [event EXCEPT ![e].pc = "not_ready"]
              /\ UNCHANGED validator
         ELSE IF event[e].verdict = None
         THEN /\ event' = [event EXCEPT ![e].pc = "auth_failed"]
              /\ UNCHANGED validator
         ELSE /\ validator' = Schema
              /\ event' = [event EXCEPT
                   ![e].pc = IF event[e].knows = Schema.version THEN "owner" ELSE "schema_invalid",
                   ![e].target = row.version, ![e].schema = Schema.version]
    /\ UNCHANGED <<row, source, seen, consumer, history>>

\* findById() of the owner, who may have been removed.
Owner(e) ==
    /\ event[e].pc = "owner"
    /\ event' = [event EXCEPT ![e].pc = "invoke"] \/ event' = [event EXCEPT ![e].pc = "owner_missing"]
    /\ UNCHANGED <<row, source, seen, consumer, validator, history>>

\* router.invokeAndReturn() with the target and the owner read before.
Invoke(e) ==
    /\ event[e].pc = "invoke"
    /\ ran' = ran \cup {[version |-> event[e].target, schema |-> event[e].schema,
                         verdict |-> event[e].verdict, armed |-> event[e].armed]}
    /\ event' = [event EXCEPT ![e].pc = "ok"] \/ event' = [event EXCEPT ![e].pc = "error"]
    /\ UNCHANGED <<row, source, seen, consumer, validator, approved, reviewed, own>>

Next ==
    \/ List \/ Approve \/ Reject \/ Restart
    \/ \E s \in {"webhook", "kafka"}, auto \in BOOLEAN : Submit(s, auto)
    \/ \E e \in Event :
         \/ IngestUnknown(e) \/ Dispatch(e) \/ Owner(e) \/ Invoke(e)
         \/ \E v \in Version : Consume(e, v) \/ \E s \in Version : Ingest(e, v, s)

EventSpec == Init /\ [][Next]_vars

-----------------------------------------------------------------------------

TypeOK ==
    /\ row \in Row \cup {None} /\ source \in {"webhook", "kafka", None}
    /\ seen \in Version \cup {None} /\ consumer \in BOOLEAN
    /\ validator = None \/ validator \in [version : Version, stamp : 1..MaxStamp]
    /\ \A e \in Event :
         /\ event[e].pc \in Outcome \cup {"idle", "dispatch", "owner", "invoke"}
         /\ event[e].target \in Version \cup {None} /\ event[e].schema \in Version \cup {None}
    /\ approved \subseteq Version /\ reviewed \subseteq approved /\ own \subseteq Version

\* A tool is called only for a version of the route that an administrator has approved, or
\* that was submitted as approved when there was no route yet, and for a delivery during
\* which the route was armed: neither a resubmission nor a consumer that was started for the
\* route can go round the approval.
RunsOnlyArmed == \A r \in ran : r.version \in approved \cup own /\ r.armed

\* "Reuses ADR-021 approval workflow - non-admin submits, admin approves before route arms"
\* (ADR-022:86-87): what runs was approved by an administrator.
ArmedByAdministrator == \A r \in ran : r.version \in approved

\* "Payload validated against a per-route JSON Schema" (ADR-022): the schema that accepted
\* the payload is of the version whose target is called, whatever was compiled before.
SchemaIsOfTarget == \A r \in ran : r.schema = r.version

\* "Authenticated via HMAC / mTLS / OIDC-per-source" (ADR-022): the proof a webhook caller
\* gave is the one that the version whose target is called demands.
ProofIsOfTarget == \A r \in ran : r.verdict \in {Broker, r.version}

\* An administrator arms what he has seen.
ArmedWasReviewed == approved \subseteq reviewed
=============================================================================
