------------------------------ MODULE ToolCall ------------------------------
(***************************************************************************)
(* tools/call on one server, from the gates of router.service.ts to the    *)
(* dispatch and what it holds meanwhile: a session over one of the         *)
(* transports of packages/transport, opened for the call alone, or a       *)
(* client of the pool that sql-dispatcher.ts keeps per server.  The        *)
(* session of http.ts and of streamable-http.ts is one exchange; "openapi" *)
(* and "graphql" are the tools of those importers, which the gateway calls *)
(* with one request and no session.                                        *)
(***************************************************************************)
EXTENDS Naturals, FiniteSets

CONSTANTS
    Call,       \* tool calls
    Kinds,      \* transports the server may be registered with, a subset of AllKinds
    PoolMax,    \* clients of a pool
    MaxVersion, \* bound: versions of the server's row
    Resolution, \* what resolveForDispatch() may come to, a subset of {"skip", "ready"}
    None

Exchange == {"http", "streamable-http"}
Native == {"stdio", "ws", "sse"} \cup Exchange
AllKinds == Native \cup {"sql", "openapi", "graphql"}
Version == 1..MaxVersion

ToolCallAssumption ==
    /\ Kinds \subseteq AllKinds
    /\ Resolution \subseteq {"skip", "ready"}
    /\ PoolMax \in Nat \ {0} /\ MaxVersion \in Nat \ {0}
    /\ None \notin Nat

VARIABLES
    kind,       \* the server's transport
    version,    \* its row in the registry: the endpoint or the dsn
    approved,   \* the row may be called
    due,        \* an invalidation of the server is on its way to the pools of this process
    clean,      \* history: since the row was last approved or probed, one has come to them,
                \* when no call was under way with a row it had read before
    alive,      \* the process runs
    call,       \* where each call is
    link,       \* the transport session of each call
    pool,       \* the version that the pool in the map connects to, or None
    dirty       \* clients that went back to their pool with a transaction open

vars == <<kind, version, approved, due, clean, alive, call, link, pool, dirty>>

Ended == {"ok", "isError", "refused", "failed", "lost"}
CallState ==
    [pc : Ended \cup {"idle", "gates", "resolve", "execute", "queued", "begin", "query",
                      "commit", "rollback", "ready", "pending", "closing", "closingFailed"},
     version : Version \cup {None}, approved : BOOLEAN, pool : {"none", "map", "ended"},
     tx : BOOLEAN, token : {"none", "resolved", "sent"}]
Idle == [pc |-> "idle", version |-> None, approved |-> FALSE, pool |-> "none", tx |-> FALSE,
         token |-> "none"]

Init ==
    /\ kind \in Kinds
    /\ version = 1 /\ approved = TRUE /\ due = FALSE /\ clean = TRUE /\ alive = TRUE
    /\ call = [c \in Call |-> Idle]
    /\ link = [c \in Call |-> "none"]
    /\ pool = None /\ dirty = FALSE

At(c, pc) == alive /\ call[c].pc = pc
Goto(c, pc) == call' = [call EXCEPT ![c].pc = pc]
row == <<kind, version, approved, due, clean>>
pools == <<pool, dirty>>
Holds == {"begin", "query", "commit", "rollback"}
Busy == Cardinality({c \in Call : call[c].pool = "map" /\ call[c].pc \in Holds})
Underway == {"gates", "resolve", "execute"}

-----------------------------------------------------------------------------
(* The registry *)

\* unregister(), reject(), or register() over the row, which is not approved then.  An
\* administrator's request goes on to invalidate() after that; the feed's announces nothing
\* to the pools ("servers" instead of "server", external-registry.module.ts).
Update(announced) ==
    /\ alive
    /\ version' \in {version, version + 1} \cap Version /\ approved' = FALSE
    /\ due' = (due \/ announced)
    /\ UNCHANGED <<kind, clean, alive, call, link, pools>>

\* updateSpec() of an approval: the row says what was probed.  It may be approved already,
\* by another approval, and stays so.
Probed ==
    /\ alive /\ version < MaxVersion
    /\ version' = version + 1 /\ clean' = FALSE
    /\ UNCHANGED <<kind, approved, due, alive, call, link, pools>>

\* approve(), or register() of what was removed; invalidate() follows.
Approve ==
    /\ alive
    /\ approved' = TRUE /\ due' = TRUE /\ clean' = FALSE
    /\ UNCHANGED <<kind, version, alive, call, link, pools>>

\* No call is under way with a row that has changed since.
NoneOlder == \A c \in Call : call[c].pc \in Underway => call[c].version = version

\* Mutation of Invalidate: only the capability cache is invalidated.
InvalidateCache ==
    /\ alive /\ due
    /\ due' \in BOOLEAN /\ clean' = (clean \/ NoneOlder)
    /\ UNCHANGED <<kind, version, approved, alive, call, link, pools>>

\* SqlDispatcher.invalidate(), of invalidate() or of the event that it publishes, to this
\* process too: the pool is taken out of the map and ended.
Invalidate ==
    /\ alive /\ due
    /\ due' \in BOOLEAN /\ clean' = (clean \/ NoneOlder)
    /\ pool' = None
    /\ call' = [c \in Call |-> [call[c] EXCEPT !.pool = IF @ = "map" THEN "ended" ELSE @]]
    /\ UNCHANGED <<kind, version, approved, alive, link, dirty>>

\* cache.invalidate() has thrown, here or where the row was written, or the event is lost.
InvalidateFails ==
    /\ alive /\ due
    /\ due' = FALSE
    /\ UNCHANGED <<kind, version, approved, clean, alive, call, link, pools>>

-----------------------------------------------------------------------------
(* callTool() up to the dispatch *)

\* registry.get().
Start(c) ==
    /\ At(c, "idle")
    /\ call' = [call EXCEPT ![c] = [Idle EXCEPT !.pc = "gates", !.version = version,
                                               !.approved = approved]]
    /\ UNCHANGED <<row, alive, link, pools>>

\* Approval, policy, the tool, the limits: each may refuse, and the call holds nothing.
Gates(c) ==
    /\ At(c, "gates")
    /\ \/ call[c].approved /\ Goto(c, "resolve")
       \/ Goto(c, "refused")
    /\ UNCHANGED <<row, alive, link, pools>>

\* resolveForDispatch() has nothing to do, has the user's credential, or asks for consent.
Resolved(c) ==
    /\ At(c, "resolve")
    /\ \/ \E kindOf \in Resolution :
             call' = [call EXCEPT ![c].pc = "execute",
                                  ![c].token = IF kindOf = "ready" THEN "resolved" ELSE "none"]
       \/ Goto(c, "refused")
    /\ UNCHANGED <<row, alive, link, pools>>

\* applyInjection() lays the token over the environment or the headers of the transport,
\* for these types of transport, and a session or graphql-dispatcher.ts sends what is there.
Injected(c) ==
    IF call[c].token = "resolved" /\ kind \in {"stdio", "http", "sse", "ws", "graphql"}
    THEN "sent" ELSE call[c].token

\* breaker.execute() with the circuit open.
CircuitOpen(c) ==
    /\ At(c, "execute")
    /\ Goto(c, "refused")
    /\ UNCHANGED <<row, alive, link, pools>>

-----------------------------------------------------------------------------
(* SQL *)

\* getPool() and pool.connect(): the pool in the map, whatever it connects to, or a new
\* one for the call's own descriptor.
Connect(c) ==
    /\ At(c, "execute") /\ kind = "sql"
    /\ pool' = IF pool = None THEN call[c].version ELSE pool
    /\ call' = [call EXCEPT ![c].pool = "map",
                            ![c].pc = IF Busy < PoolMax THEN "begin" ELSE "queued"]
    /\ UNCHANGED <<row, alive, link, dirty>>

\* A client comes free.  A pool that is ending serves nobody who waits.
Serve(c) ==
    /\ At(c, "queued")
    /\ call[c].pool = "map" /\ Busy < PoolMax
    /\ Goto(c, "begin")
    /\ UNCHANGED <<row, alive, link, pools>>

\* The table is not allowed, or the database cannot be reached.
ConnectFails(c) ==
    /\ At(c, "execute") /\ kind = "sql"
    /\ Goto(c, "failed")
    /\ UNCHANGED <<row, alive, link, pools>>

\* BEGIN READ ONLY, the query and COMMIT; each may fail and leads to the catch.
Step(c, from, to, open) ==
    /\ At(c, from)
    /\ \/ call' = [call EXCEPT ![c].pc = to, ![c].tx = open]
       \/ Goto(c, "rollback")
    /\ UNCHANGED <<row, alive, link, pools>>

\* finally: client.release().
Released(c, outcome) ==
    /\ call' = [call EXCEPT ![c].pc = outcome, ![c].pool = "none", ![c].tx = FALSE]
    /\ dirty' = (dirty \/ call[c].tx)
    /\ UNCHANGED <<row, alive, link, pool>>

Committed(c) == At(c, "commit") /\ ~call[c].tx /\ Released(c, "ok")

\* ROLLBACK; when it fails the connection is broken, and the pool drops the client.
Rollback(c) ==
    /\ At(c, "rollback")
    /\ call' = [call EXCEPT ![c].pc = "failed", ![c].pool = "none", ![c].tx = FALSE]
    /\ UNCHANGED <<row, alive, link, pools>>

Query(c) ==
    \/ Step(c, "begin", "query", TRUE)
    \/ Step(c, "query", "commit", TRUE)
    \/ At(c, "commit") /\ call[c].tx /\ Step(c, "commit", "commit", FALSE)
    \/ Committed(c) \/ Rollback(c)

-----------------------------------------------------------------------------
(* One request: the tools that were imported from an API *)

\* dispatchOpenApi(), with headers of its own: a status from 400 on is the tool's error;
\* no answer at all is thrown.
OpenApi(c) ==
    /\ At(c, "execute") /\ kind = "openapi"
    /\ Goto(c, "ok") \/ Goto(c, "isError") \/ Goto(c, "failed")
    /\ UNCHANGED <<row, alive, link, pools>>

\* dispatchGraphql() does not look at the status: what makes an error is the "errors" of a
\* body, and a body that is not JSON is thrown.
Graphql(c) ==
    /\ At(c, "execute") /\ kind = "graphql"
    /\ \E outcome \in {"ok", "isError", "failed"} :
          call' = [call EXCEPT ![c].pc = outcome, ![c].token = Injected(c)]
    /\ UNCHANGED <<row, alive, link, pools>>

-----------------------------------------------------------------------------
(* A native upstream *)

\* transports.open() and the first step of send(): a child is spawned, a socket or an
\* event stream opened, a request sent.
Open(c) ==
    /\ At(c, "execute") /\ kind \in Native
    /\ link' = [link EXCEPT ![c] = "open"]
    /\ call' = [call EXCEPT ![c].pc = IF kind \in {"ws", "sse"} THEN "ready" ELSE "pending",
                            ![c].token = Injected(c)]
    /\ UNCHANGED <<row, alive, pools>>

\* spawn, or the arguments of the request, fail at once.
OpenFails(c) ==
    /\ At(c, "execute") /\ kind \in Native
    /\ Goto(c, "failed")
    /\ UNCHANGED <<row, alive, link, pools>>

\* The socket is open, or the stream has announced its endpoint and the POST is accepted;
\* the frame's id is in the map of pending requests.
Ready(c) ==
    /\ At(c, "ready") /\ link[c] = "open"
    /\ Goto(c, "pending")
    /\ UNCHANGED <<row, alive, link, pools>>

\* The frame of the answer settles the pending request, be it a result or an error.
Answer(c) ==
    /\ At(c, "pending") /\ kind \notin Exchange /\ link[c] = "open"
    /\ Goto(c, "closing")
    /\ UNCHANGED <<row, alive, link, pools>>

\* The response of a POST: a status from 400 on is thrown, as is a body without a frame.
Exchanged(c) ==
    /\ At(c, "pending") /\ kind \in Exchange /\ link[c] = "open"
    /\ Goto(c, "closing") \/ Goto(c, "closingFailed")
    /\ UNCHANGED <<row, alive, link, pools>>

\* Mutation of Break: only the exit of a child rejects what is pending.
Forgotten(c) ==
    /\ call[c].pc \in {"ready", "pending"} /\ alive /\ link[c] = "open"
    /\ link' = [link EXCEPT ![c] = "over"]
    /\ IF kind # "stdio" THEN UNCHANGED call ELSE Goto(c, "closingFailed")
    /\ UNCHANGED <<row, alive, pools>>

\* The child exits, the socket closes or the request fails: what is pending is rejected.
\* An event stream that comes to its end rejects nothing, and its POST is answered for itself.
Break(c) ==
    /\ call[c].pc \in {"ready", "pending"} /\ alive /\ link[c] = "open"
    /\ link' = [link EXCEPT ![c] = "over"]
    /\ IF kind = "sse" THEN UNCHANGED call ELSE Goto(c, "closingFailed")
    /\ UNCHANGED <<row, alive, pools>>

\* The POST of an event stream is refused.
PostRefused(c) ==
    /\ At(c, "ready") /\ kind = "sse" /\ link[c] = "open"
    /\ Goto(c, "closingFailed")
    /\ UNCHANGED <<row, alive, link, pools>>

\* The event stream cannot be opened or breaks off: openStream() rejects while nobody has
\* taken its promise.  Or the child has closed its stdin before it is written to, and the
\* stream's error has no listener.  Either ends the process.
ProcessDies(c) ==
    /\ \/ kind = "sse" /\ call[c].pc \in {"ready", "pending"}
       \/ kind = "stdio" /\ call[c].pc = "pending"
    /\ alive /\ link[c] = "open"
    /\ alive' = FALSE
    /\ link' = [d \in Call |-> "none"]
    /\ call' = [d \in Call |->
                  IF call[d].pc \in Ended \cup {"idle"} THEN call[d]
                  ELSE [Idle EXCEPT !.pc = "lost"]]
    /\ pool' = None
    /\ UNCHANGED <<row, dirty>>

\* Mutation of Close: only a call that succeeded closes its session.
CloseAnswered(c) ==
    /\ \/ At(c, "closing") /\ link' = [link EXCEPT ![c] = "none"]
                           /\ (Goto(c, "ok") \/ Goto(c, "isError"))
       \/ At(c, "closingFailed") /\ Goto(c, "failed") /\ UNCHANGED link
    /\ UNCHANGED <<row, alive, pools>>

\* finally: session.close(), awaited, its errors dropped.
Close(c) ==
    /\ link' = [link EXCEPT ![c] = "none"]
    /\ \/ At(c, "closing") /\ (Goto(c, "ok") \/ Goto(c, "isError"))
       \/ At(c, "closingFailed") /\ Goto(c, "failed")
    /\ UNCHANGED <<row, alive, pools>>

-----------------------------------------------------------------------------

\* What the gateway does with a call, and what the upstream does.
Router(c) ==
    \/ Gates(c) \/ Resolved(c) \/ CircuitOpen(c) \/ Connect(c) \/ ConnectFails(c)
    \/ Serve(c) \/ OpenApi(c) \/ Graphql(c) \/ Open(c) \/ OpenFails(c) \/ Close(c)
Upstream(c) ==
    Query(c) \/ Ready(c) \/ Answer(c) \/ Exchanged(c) \/ Break(c) \/ PostRefused(c)

Next ==
    \/ \E announced \in BOOLEAN : Update(announced)
    \/ Probed \/ Approve \/ Invalidate \/ InvalidateFails
    \/ \E c \in Call : Start(c) \/ Router(c) \/ Upstream(c) \/ ProcessDies(c)

ToolCallSpec == Init /\ [][Next]_vars

\* The gateway goes on, and an upstream or a database answers or breaks the connection.
Fairness ==
    \A c \in Call : WF_vars(Router(c)) /\ WF_vars(Upstream(c))

FairSpec == ToolCallSpec /\ Fairness

-----------------------------------------------------------------------------

TypeOK ==
    /\ kind \in Kinds /\ version \in Version /\ alive \in BOOLEAN
    /\ approved \in BOOLEAN /\ due \in BOOLEAN /\ clean \in BOOLEAN
    /\ call \in [Call -> CallState]
    /\ link \in [Call -> {"none", "open", "over"}]
    /\ pool \in Version \cup {None} /\ dirty \in BOOLEAN

\* Whatever fails on its way, a call that has ended has closed the session it opened and
\* given its client back, and no client goes back in a transaction: the next call that
\* gets it would read what this one left ("finally" of dispatchNativeMcp() and
\* dispatchSql()).
EndedCallsHoldNothing ==
    /\ ~dirty
    /\ \A c \in Call : call[c].pc \in Ended => link[c] = "none" /\ call[c].pool = "none"

\* A call waits for a client of a pool that has been ended, or for an event stream that
\* is over.
Stranded(c) ==
    \/ call[c].pc = "queued" /\ call[c].pool = "ended"
    \/ kind = "sse" /\ link[c] = "over"

\* A call is answered, or it is one of the two that nothing settles any more: no other
\* transport keeps a caller, and a slot of the circuit breaker, waiting for ever.
CallsEnd ==
    \A c \in Call : call[c].pc # "idle" ~> call[c].pc \in Ended \/ Stranded(c)

\* The same without the exception.
EveryCallEnds == \A c \in Call : call[c].pc # "idle" ~> call[c].pc \in Ended

\* getPool() takes the pool that is there, whatever it connects to: that it connects to what
\* the row of the call says rests on approvals and invalidations.  Once one has come to the
\* pools of a process after the approval of the row, and at a time when no call was under
\* way with an earlier row, every call finds a pool of its own row, or none, whatever the
\* feed writes, until an approval writes again: invalidations that come twice or are lost,
\* and the calls that are still under way when the row is overwritten, do no harm.
PoolIsOfRow ==
    clean => \A c \in Call : At(c, "execute") => pool \in {None, call[c].version}

\* The same without the condition ("SqlDispatcher.invalidate" of every change of the row).
EveryPoolIsOfRow == \A c \in Call : At(c, "execute") => pool \in {None, call[c].version}

\* An upstream that has answered a call was sent the credential that was resolved for it
\* ("Env is overlaid onto stdio, headers onto everything else", upstream-auth.module.ts).
CredentialIsSent ==
    \A c \in Call : call[c].pc \in {"ok", "isError"} => call[c].token # "resolved"

\* No upstream takes the process down.
ProcessSurvives == alive
=============================================================================
