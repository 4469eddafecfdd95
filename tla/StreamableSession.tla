------------------------- MODULE StreamableSession -------------------------
(***************************************************************************)
(* One Streamable HTTP session: its record in the session store, the       *)
(* event log each replica keeps of it, the GET /mcp push stream and the    *)
(* notifications sent to it (apps/server/src/streamable-http.*.ts,         *)
(* packages/transport/src/event-store.ts), and an MCP client that          *)
(* reconnects with the id of the last event it received.                   *)
(*                                                                         *)
(* Notifications are numbered in the order they enter a log.  In a log,    *)
(* stream 0 is the push stream and stream r > 0 the answer to request r.   *)
(***************************************************************************)
EXTENDS Integers, Sequences, SequencesExt

CONSTANTS
    Node,        \* replicas
    Conn,        \* connections of the client
    None,
    Delivery,    \* how a notification without a local push stream is delivered
    MaxPush,     \* bound: notifications
    MaxReply,    \* bound: requests answered as an event stream
    MaxCount,    \* events a log retains
    BufferLimit, \* notifications buffered while no stream is attached
    Allowed      \* what may happen, a subset of Events

\* "buffer": no setPubSub(), sessions in memory; "pubsub": Redis sessions, and
\* onModuleInit() subscribes; "publish": Redis sessions, but setPubSub() comes after
\* onModuleInit(), the order of the providers in AppModule, and nobody subscribes.
Deliveries == {"buffer", "publish", "pubsub"}
\* "drop": connections break; "oldclose": the client reconnects before the server has
\* noticed; "overlap": a notification during a replay; "terminate": DELETE /mcp;
\* "touch": a touch() of the Redis store between its two commands; "expire": 24 h
\* without activity; "restart": a replica restarts.
Events == {"drop", "oldclose", "overlap", "terminate", "touch", "expire", "restart"}

ASSUME StreamAssumption ==
    /\ Delivery \in Deliveries
    /\ Allowed \subseteq Events
    /\ None \notin Conn
    /\ MaxPush \in Nat /\ MaxReply \in Nat
    /\ MaxCount \in Nat \ {0} /\ BufferLimit \in Nat \ {0}

VARIABLES
    alive,    \* the session record is in the session store
    touching, \* a touch() has seen the record and will write it
    log,      \* the event log of the session on each replica
    stream,   \* the push stream attached on each replica
    pending,  \* notifications buffered on each replica
    checked,  \* a pushNotification() on the replica has passed has()
    queue,    \* notifications logged on the replica, not yet delivered
    bus,      \* chunks published and not yet received by the replica
    conn,     \* the server's side of each connection
    pushed,   \* notifications logged so far
    replies,  \* requests answered as an event stream so far
    cur,      \* the connection the client reads
    last,     \* the id of the last event the client received
    got       \* notifications the client received, 0 for a replay-gap warning

session == <<alive, touching>>
local == <<stream, pending>>
pushing == <<checked, queue, bus, pushed>>
client == <<cur, last, got>>
vars == <<session, log, local, pushing, replies, conn, client>>

-----------------------------------------------------------------------------
(* MemoryEventStore *)

Gap == [stream |-> -1, seq |-> -1, msg |-> 0]
EmptyLog == [ring |-> <<>>, next |-> 0, oldest |-> 0]
IsPush(e) == e.stream = 0

\* Mutation of Evicted: the oldest sequence number is not maintained.
EvictedSilently(l) == [l EXCEPT !.ring = Tail(l.ring)]

\* An eviction; oldest is minSeqRetained of the push stream, 0 when it has none.
Evicted(l) ==
    LET out == Head(l.ring)
        rest == Tail(l.ring)
        pushes == {i \in DOMAIN rest : IsPush(rest[i])}
    IN [l EXCEPT
         !.ring = rest,
         !.oldest = IF ~IsPush(out) \/ (@ # 0 /\ out.seq < @) THEN @
                    ELSE IF pushes = {} THEN 0 ELSE rest[Min(pushes)].seq]

\* append(): an answer is the only event of its stream.
Logged(l, s, m) ==
    LET seq == IF s = 0 THEN l.next ELSE 0
        new == [l EXCEPT !.ring = Append(@, [stream |-> s, seq |-> seq, msg |-> m]),
                         !.next = IF s = 0 THEN @ + 1 ELSE @]
    IN IF Len(new.ring) > MaxCount THEN Evicted(new) ELSE new

\* What filter() keeps of a sequence, by the positions it keeps.
Nth(P, k) == CHOOSE i \in P : Cardinality({j \in P : j <= i}) = k
Selected(s, P) == [k \in 1..Cardinality(P) |-> s[Nth(P, k)]]

\* The positions in a log of what came after an event.
Later(l, id) == {i \in DOMAIN l.ring : l.ring[i].stream = id.stream /\ l.ring[i].seq > id.seq}

\* Mutation of ReadAfter: it starts one event late.
ReadAfterNext(l, id) == Selected(l.ring, Later(l, [id EXCEPT !.seq = @ + 1]))

\* readAfter()
ReadAfter(l, id) ==
    IF l.ring # <<>> /\ id.stream = 0 /\ l.oldest # 0 /\ id.seq < l.oldest - 1
    THEN <<Gap>> \o l.ring
    ELSE Selected(l.ring, Later(l, id))

-----------------------------------------------------------------------------
(* The client *)

Idle == [pc |-> "idle", node |-> None, from |-> None, replay |-> <<>>]

\* The client reads what is written to its connection; a broken one loses it.  The
\* warning of a gap has no id, and is never the last of what is written.
Write(c, events) ==
    LET shown == Selected(events, {i \in DOMAIN events : events[i].stream <= 0})
        end == Len(events)
    IN IF c = cur
       THEN /\ got' = got \o [i \in DOMAIN shown |-> shown[i].msg]
            /\ last' = IF events = <<>> THEN last
                       ELSE [stream |-> events[end].stream, seq |-> events[end].seq]
       ELSE UNCHANGED <<got, last>>

\* The connection breaks; the server has not noticed.
Drop ==
    /\ "drop" \in Allowed
    /\ cur # None
    /\ cur' = None
    /\ UNCHANGED <<session, log, local, pushing, replies, conn, last, got>>

-----------------------------------------------------------------------------
(* GET /mcp *)

\* The client opens a connection, after the server closed the one before; the
\* controller has seen the session and sent the headers.
Connect(c, n) ==
    /\ cur = None
    /\ alive
    /\ conn[c] = Idle
    /\ \A m \in Node : stream[m] # c
    /\ "oldclose" \in Allowed \/ \A d \in Conn : conn[d] = Idle
    /\ cur' = c
    /\ conn' = [conn EXCEPT ![c] =
            [pc |-> "checked", node |-> n, from |-> last, replay |-> <<>>]]
    /\ UNCHANGED <<session, log, local, pushing, replies, last, got>>

\* attachPushStream() has returned and the close listener is there.  If the connection
\* broke before, nobody tells: its stream is never detached.
Listen(c, pc) ==
    conn' = [conn EXCEPT ![c] =
        IF c = cur THEN [pc |-> pc, node |-> @.node, from |-> None, replay |-> <<>>]
                   ELSE Idle]

\* attachPushStream(): its own has() fails, and the response stays open, a "stray" that
\* no local state refers to.
Decline(c) ==
    /\ conn[c].pc = "checked"
    /\ ~alive
    /\ Listen(c, "stray")
    /\ UNCHANGED <<session, log, local, pushing, replies, client>>

\* Without Last-Event-ID it flushes the buffer and goes live at once.
Attach(c) ==
    /\ conn[c].pc = "checked"
    /\ conn[c].from = None
    /\ LET n == conn[c].node
       IN /\ Write(c, pending[n])
          /\ pending' = [pending EXCEPT ![n] = <<>>]
          /\ stream' = [stream EXCEPT ![n] = c]
    /\ Listen(c, "open")
    /\ UNCHANGED <<session, log, pushing, replies, cur>>

\* With Last-Event-ID it reads the log, awaits ...
Resume(c) ==
    /\ conn[c].pc = "checked"
    /\ conn[c].from # None
    /\ LET n == conn[c].node
       IN /\ "overlap" \in Allowed \/ queue[n] = <<>>
          /\ conn' = [conn EXCEPT ![c] =
                 [pc |-> "replaying", node |-> n, from |-> @.from,
                  replay |-> ReadAfter(log[n], @.from)]]
    /\ UNCHANGED <<session, log, local, pushing, replies, client>>

\* Mutation of GoLive: it replays and does not attach the stream.
ReplayOnly(c) ==
    /\ conn[c].pc = "replaying"
    /\ Write(c, conn[c].replay)
    /\ Listen(c, "open")
    /\ UNCHANGED <<session, log, local, pushing, replies, cur>>

\* ... writes what it read and then attaches the stream ...
GoLive(c) ==
    /\ conn[c].pc = "replaying"
    /\ Write(c, conn[c].replay)
    /\ stream' = [stream EXCEPT ![conn[c].node] = c]
    /\ Listen(c, "open")
    /\ UNCHANGED <<session, log, pending, pushing, replies, cur>>

\* ... to a local state that was deleted during the await.
GoAstray(c) ==
    /\ conn[c].pc = "orphaned"
    /\ Write(c, conn[c].replay)
    /\ Listen(c, "stray")
    /\ UNCHANGED <<session, log, local, pushing, replies, cur>>

\* The server notices the end of a connection: detachPushStream(), whoever's it is.
Close(c) ==
    /\ conn[c].pc \in {"open", "stray"} /\ c # cur
    /\ conn' = [conn EXCEPT ![c] = Idle]
    /\ stream' = [stream EXCEPT ![conn[c].node] = None]
    /\ UNCHANGED <<session, log, pending, pushing, replies, client>>

-----------------------------------------------------------------------------
(* pushNotification() and writeResponseEvent() *)

\* has()
PushBegin(n) ==
    /\ alive
    /\ ~checked[n]
    /\ pushed < MaxPush
    /\ checked' = [checked EXCEPT ![n] = TRUE]
    /\ UNCHANGED <<session, log, local, queue, bus, pushed, replies, conn, client>>

\* append()
PushLog(n) ==
    /\ checked[n]
    /\ pushed < MaxPush
    /\ "overlap" \in Allowed \/ ~\E c \in Conn : conn[c].pc = "replaying" /\ conn[c].node = n
    /\ LET l == Logged(log[n], 0, pushed + 1)
       IN /\ log' = [log EXCEPT ![n] = l]
          /\ queue' = [queue EXCEPT ![n] = Append(@, l.ring[Len(l.ring)])]
    /\ checked' = [checked EXCEPT ![n] = FALSE]
    /\ pushed' = pushed + 1
    /\ UNCHANGED <<session, local, bus, replies, conn, client>>

\* A full buffer loses its oldest notification.
Buffered(p, e) == Append(IF Len(p) >= BufferLimit THEN Tail(p) ELSE p, e)

\* The delivery: to the local stream, else to the other replicas, else to the buffer.
PushDeliver(n) ==
    /\ queue[n] # <<>>
    /\ queue' = [queue EXCEPT ![n] = Tail(@)]
    /\ LET e == Head(queue[n])
       IN CASE stream[n] # None ->
                 Write(stream[n], <<e>>) /\ UNCHANGED <<pending, bus>>
            [] stream[n] = None /\ Delivery = "buffer" ->
                 /\ pending' = [pending EXCEPT ![n] = Buffered(@, e)]
                 /\ UNCHANGED <<bus, got, last>>
            [] stream[n] = None /\ Delivery = "pubsub" ->
                 /\ bus' = [m \in Node |-> Append(bus[m], e)]
                 /\ UNCHANGED <<pending, got, last>>
            [] stream[n] = None /\ Delivery = "publish" ->
                 UNCHANGED <<pending, bus, got, last>>
    /\ UNCHANGED <<session, log, stream, checked, pushed, replies, conn, cur>>

\* The "pmessage" listener.
BusDeliver(n) ==
    /\ bus[n] # <<>>
    /\ bus' = [bus EXCEPT ![n] = Tail(@)]
    /\ IF stream[n] # None THEN Write(stream[n], <<Head(bus[n])>>) ELSE UNCHANGED <<got, last>>
    /\ UNCHANGED <<session, log, local, checked, queue, pushed, replies, conn, cur>>

\* A POST answered as an event stream; the tool call lies between has() and this, so
\* the session may be gone by now.  The client reads the answer on the POST itself.
Reply(n) ==
    /\ replies < MaxReply
    /\ replies' = replies + 1
    /\ log' = [log EXCEPT ![n] = Logged(@, replies + 1, 0)]
    /\ UNCHANGED <<session, local, pushing, conn, client>>

-----------------------------------------------------------------------------
(* The life of the session *)

\* The local state of replica n is deleted, its stream ended.  A replay under way
\* holds on to the deleted state.
End(n) ==
    /\ stream' = [stream EXCEPT ![n] = None]
    /\ pending' = [pending EXCEPT ![n] = <<>>]
    /\ cur' = IF cur = stream[n] THEN None ELSE cur
    /\ conn' = [c \in Conn |->
            IF conn[c].pc = "replaying" /\ conn[c].node = n
              THEN [conn[c] EXCEPT !.pc = "orphaned"] ELSE conn[c]]

\* DELETE /mcp at replica n: delete()
Terminate(n) ==
    /\ "terminate" \in Allowed
    /\ alive
    /\ alive' = FALSE
    /\ End(n)
    /\ log' = [log EXCEPT ![n] = EmptyLog]
    /\ UNCHANGED <<touching, pushing, replies, last, got>>

\* RedisStreamableSessionStore.touch(): EXISTS ...
TouchRead ==
    /\ "touch" \in Allowed /\ Delivery # "buffer"
    /\ alive /\ ~touching
    /\ touching' = TRUE
    /\ UNCHANGED <<alive, log, local, pushing, replies, conn, client>>

\* ... and HSET, which creates the key.
TouchWrite ==
    /\ touching
    /\ touching' = FALSE
    /\ alive' = TRUE
    /\ UNCHANGED <<log, local, pushing, replies, conn, client>>

\* The record is reaped, or its TTL ends.
Expire ==
    /\ "expire" \in Allowed
    /\ alive
    /\ alive' = FALSE
    /\ UNCHANGED <<touching, log, local, pushing, replies, conn, client>>

\* Mutation of Reap: only the records are reaped, the replica keeps its local state.
ReapRecords(n) == ~alive /\ stream[n] # None /\ UNCHANGED vars

\* reapExpired(), its second half: local state without a session.
Reap(n) ==
    /\ ~alive
    /\ \/ stream[n] # None \/ pending[n] # <<>>
       \/ \E c \in Conn : conn[c].pc = "replaying" /\ conn[c].node = n
    /\ End(n)
    /\ UNCHANGED <<session, log, pushing, replies, last, got>>

\* SIGTERM exits the process; nothing of it remains but the Redis record.
Restart(n) ==
    /\ "restart" \in Allowed
    /\ alive' = (alive /\ Delivery # "buffer")
    /\ log' = [log EXCEPT ![n] = EmptyLog]
    /\ stream' = [stream EXCEPT ![n] = None]
    /\ pending' = [pending EXCEPT ![n] = <<>>]
    /\ checked' = [checked EXCEPT ![n] = FALSE]
    /\ queue' = [queue EXCEPT ![n] = <<>>]
    /\ bus' = [bus EXCEPT ![n] = <<>>]
    /\ conn' = [c \in Conn |-> IF conn[c].node = n THEN Idle ELSE conn[c]]
    /\ cur' = IF cur # None /\ conn[cur].node = n THEN None ELSE cur
    /\ UNCHANGED <<touching, pushed, replies, last, got>>

-----------------------------------------------------------------------------

Init ==
    /\ alive = TRUE /\ touching = FALSE
    /\ log = [n \in Node |-> EmptyLog]
    /\ stream = [n \in Node |-> None]
    /\ pending = [n \in Node |-> <<>>]
    /\ checked = [n \in Node |-> FALSE]
    /\ queue = [n \in Node |-> <<>>]
    /\ bus = [n \in Node |-> <<>>]
    /\ conn = [c \in Conn |-> Idle]
    /\ pushed = 0 /\ replies = 0
    /\ cur = None /\ last = None /\ got = <<>>

Open == \E c \in Conn, n \in Node : Connect(c, n)
Opens(c) == Decline(c) \/ Attach(c) \/ Resume(c) \/ GoLive(c) \/ GoAstray(c)
Serve(n) == PushBegin(n) \/ PushLog(n) \/ PushDeliver(n) \/ BusDeliver(n) \/ Reply(n)

Next ==
    \/ Drop \/ Open
    \/ \E c \in Conn : Opens(c) \/ Close(c)
    \/ \E n \in Node : Serve(n) \/ Terminate(n) \/ Reap(n) \/ Restart(n)
    \/ TouchRead \/ TouchWrite \/ Expire

SessionSpec == Init /\ [][Next]_vars

\* The client reconnects; what a replica has begun it finishes; the reaper's interval
\* recurs.
Fairness ==
    /\ WF_vars(Open)
    /\ \A c \in Conn : WF_vars(Opens(c)) /\ WF_vars(Close(c))
    /\ \A n \in Node : /\ WF_vars(PushLog(n)) /\ WF_vars(PushDeliver(n))
                       /\ WF_vars(BusDeliver(n)) /\ WF_vars(Reap(n))
    /\ WF_vars(TouchWrite)
FairSpec == SessionSpec /\ Fairness

-----------------------------------------------------------------------------

Event == [stream : 0..MaxReply, seq : 0..MaxPush, msg : 0..MaxPush]
Id == [stream : 0..MaxReply, seq : 0..MaxPush]

ASSUME IdAssumption == None \notin Id

TypeOK ==
    /\ alive \in BOOLEAN /\ touching \in BOOLEAN
    /\ log \in [Node -> [ring : Seq(Event), next : 0..MaxPush, oldest : 0..MaxPush]]
    /\ \A n \in Node : Len(log[n].ring) <= MaxCount
    /\ stream \in [Node -> Conn \cup {None}]
    /\ pending \in [Node -> Seq(Event)]
    /\ \A n \in Node : Len(pending[n]) <= BufferLimit
    /\ checked \in [Node -> BOOLEAN]
    /\ queue \in [Node -> Seq(Event)]
    /\ bus \in [Node -> Seq(Event)]
    /\ conn \in [Conn -> [pc : {"idle", "checked", "replaying", "orphaned", "open",
                               "stray"},
                         node : Node \cup {None}, from : Id \cup {None},
                         replay : Seq(Event \cup {Gap})]]
    /\ pushed \in 0..MaxPush /\ replies \in 0..MaxReply
    /\ cur \in Conn \cup {None}
    /\ last \in Id \cup {None}
    /\ got \in Seq(0..MaxPush)

\* However often the client reconnects with the id of the last event it received, it
\* receives every later notification once and in order, except where it is warned of
\* a replay gap, and it is warned only where one is missing ("Replay gap (ID
\* trimmed): send notifications/message ... Never fail silently", ADR-024).
ReplayIsComplete ==
    /\ \A i \in 2..Len(got) : got[i] # 0 /\ got[i-1] # 0 => got[i] = got[i-1] + 1
    /\ \A i \in 2..Len(got) - 1 : got[i] = 0 => got[i+1] > got[i-1] + 1

\* The connection the client reads is the one notifications are written to ("replay
\* events after that ID, then go live", ADR-024), unless its session ended before it
\* was attached.
ClientIsAttached ==
    cur # None /\ conn[cur].pc = "open" => stream[conn[cur].node] = cur

Received(m) == \E i \in DOMAIN got : got[i] = m
Stable == <>[](cur # None)

\* Once the client has an id to reconnect with, the newest notification reaches it if
\* its connection does not keep breaking.
NewestArrives == Stable => (pushed = MaxPush /\ got # <<>> ~> Received(MaxPush))

\* The newest notification reaches a client that connects after it was sent ("Pending
\* buffer on reconnect still works within a single replica", ADR-027).
FirstArrives == pushed = MaxPush ~> Received(MaxPush)

\* When the session is gone, every stream that was attached to it ends at last, on
\* whatever replica, and the client knows, unless a late touch() brings it back.
StreamsEnd ==
    ~alive ~> \/ alive
              \/ /\ \A n \in Node : stream[n] = None
                 /\ cur = None \/ conn[cur].pc = "stray"

\* No client is left with an open stream of a session that is gone ("DELETE with
\* Mcp-Session-Id: terminate session", ADR-023).
ClientSeesTheEnd == ~alive ~> alive \/ cur = None

\* A session that was terminated or has expired does not come back ("DELETE with
\* Mcp-Session-Id: terminate session", ADR-023).
DeleteIsFinal == [][~alive => ~alive']_vars
=============================================================================
