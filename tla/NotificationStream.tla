-------------------------- MODULE NotificationStream --------------------------
(***************************************************************************)
(* The classic SSE endpoint (sse.controller.ts, sse.registry.ts) over the  *)
(* Redis stream of packages/cache/src/notification-bus.ts: a loop per      *)
(* connection reads on from its cursor, on one connection to Redis that    *)
(* all loops of the process share and that XREAD blocks; a client resumes  *)
(* with the id of the last frame it has got.                               *)
(***************************************************************************)
EXTENDS Naturals, Sequences, FiniteSets

CONSTANTS
    Client,
    Handler,    \* slots for GET /mcp/sse requests
    MaxLen,     \* MAXLEN of the stream
    MaxNotice,  \* bound: notifications published
    MaxDrops,   \* bound: connections that break
    MaxErrors,  \* bound: reads that fail
    None

NotificationAssumption ==
    /\ MaxLen \in Nat \ {0}
    /\ MaxNotice \in Nat /\ MaxDrops \in Nat /\ MaxErrors \in Nat
    /\ None \notin Client \cup Handler /\ None \notin 0..MaxNotice

VARIABLES
    last,       \* id of the newest record; ids count from 1, and 0 is "0-0"
    handler,    \* the request of each slot
    queue,      \* XREADs on the shared connection, in order
    client,     \* what each client has: its connection and its Last-Event-ID
    drops, errors,
    from,       \* history: the cursor the client began with, since it last began anew
    since,      \* history: the cursor the client began with at first
    got,        \* history: what the client has received
    trimmed     \* history: what was no longer in the stream when it was read for the client

vars == <<last, handler, queue, client, drops, errors, from, since, got, trimmed>>
bounds == <<drops, errors>>
history == <<from, since, got, trimmed>>

Notice == 1..MaxNotice
Cursor == 0..MaxNotice
Free == [pc |-> "free", client |-> None, cursor |-> 0, closed |-> FALSE]

Init ==
    /\ last = 0 /\ drops = 0 /\ errors = 0
    /\ handler = [h \in Handler |-> Free]
    /\ queue = <<>>
    /\ client = [c \in Client |-> [conn |-> None, id |-> None]]
    /\ from = [c \in Client |-> None] /\ since = [c \in Client |-> None]
    /\ got = [c \in Client |-> {}] /\ trimmed = [c \in Client |-> {}]

At(h, pc) == handler[h].pc = pc
Goto(h, pc) == handler' = [handler EXCEPT ![h].pc = pc]
\* The response is still open at the client's end.
Heard(h) == ~At(h, "free") /\ client[handler[h].client].conn = h

-----------------------------------------------------------------------------

\* publish(): XADD with MAXLEN.
Publish ==
    /\ last < MaxNotice
    /\ last' = last + 1
    /\ UNCHANGED <<handler, queue, client, bounds, history>>

\* Mutation of Resumes: a reconnection starts at the tail.
NeverResumes(c) == FALSE

\* The request carries a Last-Event-ID.
Resumes(c) == client[c].id # None

\* GET /mcp/sse: registered, the endpoint announced; a cursor of the client's own, or that
\* of the tail, which is asked for.
Connect(c, h) ==
    /\ client[c].conn = None /\ At(h, "free")
    /\ client' = [client EXCEPT ![c].conn = h]
    /\ handler' = [handler EXCEPT ![h] =
                     IF Resumes(c)
                     THEN [Free EXCEPT !.pc = "loop", !.client = c, !.cursor = client[c].id]
                     ELSE [Free EXCEPT !.pc = "tail", !.client = c]]
    /\ UNCHANGED <<last, queue, bounds, history>>

\* tailId() has answered.
TailRead(h) ==
    /\ At(h, "tail")
    /\ handler' = [handler EXCEPT ![h].pc = "loop", ![h].cursor = last]
    /\ LET c == handler[h].client
       IN  IF Heard(h)
             THEN /\ from' = [from EXCEPT ![c] = IF client[c].id = None THEN last ELSE @]
                  /\ since' = [since EXCEPT ![c] = IF @ = None THEN last ELSE @]
             ELSE UNCHANGED <<from, since>>
    /\ UNCHANGED <<last, queue, client, bounds, got, trimmed>>

\* The connection breaks.  The "close" listener is attached after tailId(): a request that
\* is closed before never learns of it.
Drop(c) ==
    /\ client[c].conn # None /\ drops < MaxDrops
    /\ drops' = drops + 1
    /\ client' = [client EXCEPT ![c].conn = None]
    /\ LET h == client[c].conn
       IN  handler' = [handler EXCEPT ![h].closed = ~At(h, "tail")]
    /\ UNCHANGED <<last, queue, errors, history>>

-----------------------------------------------------------------------------
(* The loop *)

\* while (!closed): another read, behind those of the other loops.
Read(h) ==
    /\ At(h, "loop")
    /\ IF handler[h].closed
         THEN handler' = [handler EXCEPT ![h] = Free] /\ UNCHANGED queue
         ELSE Goto(h, "reading") /\ queue' = Append(queue, h)
    /\ UNCHANGED <<last, client, bounds, history>>

First(h) == queue # <<>> /\ Head(queue) = h
Trimmed == {i \in Notice : i + MaxLen <= last}
After(h) == {i \in Notice : handler[h].cursor < i /\ i <= last}

\* Frames up to n; the connection stays, or breaks after them.
Write(h) ==
    LET c == handler[h].client
        Received(n) ==
            /\ got' = [got EXCEPT ![c] = @ \cup {i \in After(h) \ Trimmed : i <= n}]
            /\ trimmed' = [trimmed EXCEPT ![c] = @ \cup {i \in After(h) \cap Trimmed : i <= n}]
    IN  \/ /\ ~Heard(h)
           /\ handler' = [handler EXCEPT ![h].pc = "loop", ![h].cursor = last]
           /\ UNCHANGED <<client, drops, got, trimmed>>
        \/ /\ Heard(h) /\ Received(last)
           /\ handler' = [handler EXCEPT ![h].pc = "loop", ![h].cursor = last]
           /\ client' = [client EXCEPT ![c].id = last]
           /\ UNCHANGED drops
        \/ /\ Heard(h) /\ drops < MaxDrops
           /\ drops' = drops + 1
           /\ \E n \in After(h) \ Trimmed :
                /\ n < last
                /\ Received(n)
                /\ client' = [client EXCEPT ![c] = [conn |-> None, id |-> n]]
           /\ handler' = [handler EXCEPT ![h].pc = "loop", ![h].cursor = last, ![h].closed = TRUE]

\* XREAD returns what comes after the cursor, and nobody is told of what is trimmed.  The
\* frames are written in order: a client has got them up to n when the connection breaks.
Served(h) ==
    /\ First(h) /\ After(h) # {}
    /\ queue' = Tail(queue)
    /\ IF handler[h].closed
         THEN /\ handler' = [handler EXCEPT ![h] = Free]
              /\ UNCHANGED <<client, drops, got, trimmed>>
         ELSE Write(h)
    /\ UNCHANGED <<last, errors, from, since>>

\* Mutation of Expired: XREAD blocks until there is something to return.
Blocked(h) == FALSE /\ UNCHANGED vars

\* BLOCK runs out with nothing to return.
Expired(h) ==
    /\ First(h) /\ After(h) = {}
    /\ queue' = Tail(queue)
    /\ handler' = [handler EXCEPT ![h] = IF @.closed THEN Free ELSE [@ EXCEPT !.pc = "loop"]]
    /\ UNCHANGED <<last, client, bounds, history>>

\* The read fails; a loop that is not closed sleeps and goes on.
Failed(h) ==
    /\ First(h) /\ errors < MaxErrors
    /\ errors' = errors + 1
    /\ queue' = Tail(queue)
    /\ handler' = [handler EXCEPT ![h] = IF @.closed THEN Free ELSE [@ EXCEPT !.pc = "sleep"]]
    /\ UNCHANGED <<last, client, drops, history>>

Wake(h) ==
    /\ At(h, "sleep")
    /\ Goto(h, "loop")
    /\ UNCHANGED <<last, queue, client, bounds, history>>

Loop(h) == TailRead(h) \/ Read(h) \/ Served(h) \/ Expired(h) \/ Wake(h)

Next ==
    \/ Publish
    \/ \E c \in Client : Drop(c) \/ \E h \in Handler : Connect(c, h)
    \/ \E h \in Handler : Loop(h) \/ Failed(h)

NotificationSpec == Init /\ [][Next]_vars

\* Redis answers, and a blocked read ends after 15 seconds at the latest.
Fairness == \A h \in Handler : WF_vars(Loop(h))
FairSpec == NotificationSpec /\ Fairness

-----------------------------------------------------------------------------

Request == [pc : {"free", "tail", "loop", "reading", "sleep"},
            client : Client \cup {None}, cursor : Cursor, closed : BOOLEAN]

TypeOK ==
    /\ last \in Cursor /\ drops \in 0..MaxDrops /\ errors \in 0..MaxErrors
    /\ handler \in [Handler -> Request]
    /\ queue \in Seq(Handler)
    /\ client \in [Client -> [conn : Handler \cup {None}, id : Notice \cup {None}]]
    /\ from \in [Client -> Cursor \cup {None}] /\ since \in [Client -> Cursor \cup {None}]
    /\ got \in [Client -> SUBSET Notice] /\ trimmed \in [Client -> SUBSET Notice]

Complete(c, begin) ==
    client[c].id # None => (begin[c] + 1)..client[c].id \subseteq got[c] \cup trimmed[c]

\* Whatever breaks, a client that resumes has no gap: up to the last frame it has got
\* everything since it began, but for what the stream no longer holds.
NoGap == \A c \in Client : Complete(c, from)

\* "A subscriber that hops to a different replica (or was offline for a few seconds)
\* replays every notification" (sse.controller.ts:12-15): no gap since the first connection.
NothingMissed == \A c \in Client : Complete(c, since)

Behind(h) == Heard(h) /\ handler[h].pc \notin {"tail", "free"} /\ handler[h].cursor < last

\* No loop is kept waiting for ever by those it shares the connection with, nor by reads
\* that fail: what is published reaches each client that stays connected.
ReadersCatchUp == \A h \in Handler : Behind(h) ~> ~Behind(h)

\* A loop whose client has gone ends.
LoopsEnd == \A h \in Handler : ~At(h, "free") /\ ~Heard(h) ~> At(h, "free")
=============================================================================
