----------------------------- MODULE SessionKey -----------------------------
(***************************************************************************)
(* Whether an MCP session is there: its key in Redis, which                *)
(* redis-streamable-session-store.ts reads and renews, and its record in   *)
(* the process that initialized it (mcp-session.store.ts).  Each action is *)
(* one command of Redis with the code that its answer is awaited by.  What *)
(* the record counts is in SessionLimits.                                  *)
(***************************************************************************)
EXTENDS Naturals

CONSTANTS
    Arrival,    \* slots for concurrent requests, each at any process
    Ttl,        \* ticks after which an idle record or session is dropped
    Allowed,    \* circumstances: subset of {"crash", "redis"}
    MaxClock,   \* bound: ticks
    None

SessionKeyAssumption ==
    /\ Ttl \in Nat /\ MaxClock \in Nat /\ None \notin Nat
    /\ Allowed \subseteq {"crash", "redis"}

VARIABLES
    clock,
    live,       \* the key exists
    touched,    \* when its EXPIRE was last executed, or None: it has no time to live
    touch,      \* touch() of a request, which nobody awaits: the command that is next
    call,       \* the request is a tools/call on its way to preCall()
    seen,       \* lastSeenAt of the record, or None: there is no record
    admin,      \* DELETE /admin/sessions/:id
    del         \* the DEL it sends, which nobody awaits

vars == <<clock, live, touched, touch, call, seen, admin, del>>

\* POST initialize: create() in Redis, and register() when it has answered.
Init ==
    /\ clock = 0 /\ live = TRUE /\ touched = 0 /\ seen = 0
    /\ touch = [r \in Arrival |-> "none"] /\ call = [r \in Arrival |-> FALSE]
    /\ admin = "idle" /\ del = "none"

Tick ==
    /\ clock < MaxClock
    /\ clock' = clock + 1
    /\ UNCHANGED <<live, touched, touch, call, seen, admin, del>>

-----------------------------------------------------------------------------
(* Requests *)

\* POST /mcp with the header: has() has answered, touch() is begun, and the request goes on.
Arrive(r, tool) ==
    /\ live /\ touch[r] = "none" /\ ~call[r]
    /\ touch' = [touch EXCEPT ![r] = "exists"]
    /\ call' = [call EXCEPT ![r] = tool]
    /\ UNCHANGED <<clock, live, touched, seen, admin, del>>

\* A tools/call is seen by the record, if it gets as far and there is one; no other request is.
PreCall(r) ==
    /\ call[r]
    /\ call' = [call EXCEPT ![r] = FALSE]
    /\ seen' \in {seen, IF seen = None THEN None ELSE clock}
    /\ UNCHANGED <<clock, live, touched, touch, admin, del>>

Touch(r, next) ==
    /\ touch' = [touch EXCEPT ![r] = next]
    /\ UNCHANGED <<clock, call, seen, admin, del>>

\* Mutation of TouchExists: the key is written without asking for it.
TouchUnchecked(r) ==
    /\ touch[r] = "exists"
    /\ Touch(r, "hset")
    /\ UNCHANGED <<live, touched>>

TouchExists(r) ==
    /\ touch[r] = "exists"
    /\ Touch(r, IF live THEN "hset" ELSE "none")
    /\ UNCHANGED <<live, touched>>

\* HSET makes the key anew if it is gone, without a time to live.
TouchHset(r) ==
    /\ touch[r] = "hset"
    /\ Touch(r, "expire")
    /\ live' = TRUE
    /\ UNCHANGED touched

TouchExpire(r) ==
    /\ touch[r] = "expire"
    /\ Touch(r, "none")
    /\ touched' = IF live THEN clock ELSE touched
    /\ UNCHANGED live

\* A command fails: the rejection is dropped, with the commands after it.
TouchFails(r) ==
    /\ "redis" \in Allowed /\ touch[r] # "none"
    /\ Touch(r, "none")
    /\ UNCHANGED <<live, touched>>

-----------------------------------------------------------------------------
(* The end of a session *)

\* reapExpired() of the hourly timer: the record goes, and the key stays.
Reap ==
    /\ seen # None /\ clock - seen > Ttl
    /\ seen' = None
    /\ UNCHANGED <<clock, live, touched, touch, call, admin, del>>

KeyGone == live' = FALSE /\ touched' = None

\* The key expires, if it has a time to live.
Expire ==
    /\ live /\ touched # None /\ clock - touched > Ttl
    /\ KeyGone
    /\ UNCHANGED <<clock, touch, call, seen, admin, del>>

\* The process that has the record restarts: the session lives on in Redis, and of the
\* requests those at this process are gone, with the commands that were to follow.
Restart ==
    /\ "crash" \in Allowed
    /\ seen' = None
    /\ \E others \in SUBSET Arrival :
         /\ touch' = [r \in Arrival |-> IF r \in others THEN touch[r] ELSE "none"]
         /\ call' = [r \in Arrival |-> r \in others /\ call[r]]
    /\ admin' = IF admin = "asked" THEN "failed" ELSE admin
    /\ UNCHANGED <<clock, live, touched, del>>

\* DELETE /admin/sessions/:id: store.get(), and then it waits for has().
Remove ==
    /\ admin = "idle"
    /\ admin' = IF seen = None THEN "notFound" ELSE "asked"
    /\ UNCHANGED <<clock, live, touched, touch, call, seen, del>>

\* has() has answered: delete() of the registry sends DEL, if there is a session, and waits
\* for nothing; then delete() of the store, and the answer.
Removed ==
    /\ admin = "asked"
    /\ admin' = "done"
    /\ del' = IF live THEN "sent" ELSE "none"
    /\ seen' = None
    /\ UNCHANGED <<clock, live, touched, touch, call>>

\* DEL is executed: for good, or between the EXISTS and the HSET of a touch.
Deleted ==
    /\ del = "sent"
    /\ del' = IF \E r \in Arrival : touch[r] = "hset" THEN "raced" ELSE "final"
    /\ KeyGone
    /\ UNCHANGED <<clock, touch, call, seen, admin>>

\* DEL fails: the rejection is dropped.
DeleteFails ==
    /\ "redis" \in Allowed /\ del = "sent"
    /\ del' = "failed"
    /\ UNCHANGED <<clock, live, touched, touch, call, seen, admin>>

Next ==
    \/ Tick \/ Reap \/ Expire \/ Restart \/ Remove \/ Removed \/ Deleted \/ DeleteFails
    \/ \E r \in Arrival :
         \/ PreCall(r) \/ TouchExists(r) \/ TouchHset(r) \/ TouchExpire(r) \/ TouchFails(r)
         \/ \E tool \in BOOLEAN : Arrive(r, tool)

KeySpec == Init /\ [][Next]_vars

-----------------------------------------------------------------------------

TypeOK ==
    /\ clock \in 0..MaxClock /\ live \in BOOLEAN /\ touched \in 0..MaxClock \cup {None}
    /\ touch \in [Arrival -> {"none", "exists", "hset", "expire"}]
    /\ call \in [Arrival -> BOOLEAN] /\ seen \in 0..MaxClock \cup {None}
    /\ admin \in {"idle", "asked", "done", "notFound", "failed"}
    /\ del \in {"none", "sent", "final", "raced", "failed"}

Nowhere == ~live /\ seen = None

\* DELETE /admin/sessions/:id, "Force-terminate: close SSE stream + remove from both
\* stores" (mcp-sessions.controller.ts:28): once its DEL has been executed, the session is
\* in neither store.
RemovalIsComplete == del \in {"final", "raced"} => Nowhere

\* The same, of a DEL that comes between no EXISTS and its HSET (touch()): the requests that
\* are under way, those included that have yet to ask for the key and those that are about
\* to renew it, do not bring the session back.
RemovalIsFinal == del = "final" => Nowhere

\* A session that is left alone ends: its key has a time to live, but for the HSET that is
\* about to be followed by EXPIRE (redis-streamable-session-store.ts:30-31).
KeysExpire == live /\ touched = None => \E r \in Arrival : touch[r] = "expire"
=============================================================================
