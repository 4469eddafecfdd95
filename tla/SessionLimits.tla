---------------------------- MODULE SessionLimits ----------------------------
(***************************************************************************)
(* What bounds the tools/call requests of one MCP session: the record that *)
(* mcp-session.store.ts keeps of it in the process that initialized it,    *)
(* with its buckets, and the fixed window of rate-limit.ts in Redis.       *)
(* Whether the session is still there when a request comes is SessionKey's *)
(* concern: here requests come as long as they want.  Sessions share       *)
(* nothing but the server's window, so one is modelled.  One tick is half  *)
(* of a window.                                                            *)
(***************************************************************************)
EXTENDS Naturals, Sequences, FiniteSets

CONSTANTS
    Call,       \* slots for concurrent tools/call requests
    Key,        \* a tool with the hash of its arguments
    Options,    \* records [maxCalls, maxDuration, rpm, loopN, server]; None is unset
    Ttl,        \* ticks after which an idle record is dropped
    Allowed,    \* circumstances: subset of {"crash", "redis"}
    MaxClock,   \* bound: ticks
    MaxCount,   \* bound: requests
    None

Window == 2

Bucket == [count : Nat, start : 0..MaxClock]
Record == [created : 0..MaxClock, seen : 0..MaxClock, calls : Nat]
Limit == Nat \cup {None}
\* last: when EXPIRE was last executed, or None if it never was.
Counter == [count : Nat, last : 0..MaxClock \cup {None}]

\* The key of the bucket for the minute is none of a tool.
SessionLimitsAssumption ==
    /\ Options \subseteq [maxCalls : Limit, maxDuration : Limit, rpm : Limit, loopN : Limit,
                         server : Limit]
    /\ Ttl \in Nat /\ MaxClock \in Nat /\ MaxCount \in Nat
    /\ Allowed \subseteq {"crash", "redis"}
    /\ None \notin Bucket /\ None \notin Record /\ None \notin Counter /\ None \notin Nat
    /\ "rpm" \notin Key

VARIABLES
    opts,       \* what the deployment configures
    clock,
    record,     \* records.get(id) of the process
    buckets,    \* loopState.get(id): one bucket for the minute and one per key
    counter,    \* the key of each aligned window
    call,       \* a request between the gates and the answer of the limiter
    log,        \* history: the calls that were let through
    lost,       \* history: the session's record has been dropped
    asked       \* requests so far

limiter == <<record, buckets, counter, log, lost>>
vars == <<opts, clock, record, buckets, counter, call, log, lost, asked>>

NoBuckets == [k \in Key \cup {"rpm"} |-> None]
Waiting == [key : Key, window : 0..MaxClock \cup {None}]
Passed == [at : 0..MaxClock, key : Key, window : 0..MaxClock \cup {None}]

\* POST initialize: register(), when create() has answered.
Init ==
    /\ opts \in Options
    /\ clock = 0
    /\ record = [created |-> 0, seen |-> 0, calls |-> 0]
    /\ buckets = NoBuckets
    /\ counter = [w \in 0..MaxClock |-> None]
    /\ call = [c \in Call |-> None]
    /\ log = <<>> /\ lost = FALSE /\ asked = 0

Tick ==
    /\ clock < MaxClock
    /\ clock' = clock + 1
    /\ UNCHANGED <<opts, limiter, call, asked>>

-----------------------------------------------------------------------------
(* preCall() *)

\* Mutation of Counted: the call that starts a bucket is not counted.
Uncounted(k) ==
    IF buckets[k] = None \/ clock - buckets[k].start > Window
    THEN [count |-> 0, start |-> clock]
    ELSE [buckets[k] EXCEPT !.count = @ + 1]

\* _bucket(): a bucket is good for a window from its first call, and counts every call.
Counted(k) ==
    IF buckets[k] = None \/ clock - buckets[k].start > Window
    THEN [count |-> 1, start |-> clock]
    ELSE [buckets[k] EXCEPT !.count = @ + 1]

Unset(option) == opts[option] = None
WithinQuota == Unset("maxCalls") \/ record.calls + 1 <= opts.maxCalls
WithinDuration == Unset("maxDuration") \/ clock - record.created <= opts.maxDuration
WithinMinute == Unset("rpm") \/ Counted("rpm").count <= opts.rpm
NoLoop(k) == Unset("loopN") \/ Counted(k).count < opts.loopN

\* The limits in their order: one that refuses leaves the buckets of the later ones alone,
\* and the call is counted in any case.
PreCall(k, w) ==
    LET rpm == WithinQuota /\ WithinDuration /\ ~Unset("rpm")
        loop == WithinQuota /\ WithinDuration /\ WithinMinute /\ ~Unset("loopN")
    IN  /\ record' = [record EXCEPT !.seen = clock, !.calls = @ + 1]
        /\ buckets' = [b \in DOMAIN buckets |->
                         IF (b = "rpm" /\ rpm) \/ (b = k /\ loop) THEN Counted(b)
                         ELSE buckets[b]]
        /\ log' = IF WithinQuota /\ WithinDuration /\ WithinMinute /\ NoLoop(k)
                  THEN Append(log, [at |-> clock, key |-> k, window |-> w]) ELSE log

\* No record: everything is allowed.
Unlimited(k, w) ==
    /\ log' = Append(log, [at |-> clock, key |-> k, window |-> w])
    /\ UNCHANGED <<record, buckets>>

-----------------------------------------------------------------------------
(* Requests *)

\* POST /mcp with the header of the session, and callTool() up to its gates.
Request(c, k) ==
    /\ call[c] = None /\ asked < MaxCount
    /\ asked' = asked + 1
    /\ call' = [call EXCEPT ![c] = [key |-> k, window |-> None]]
    /\ UNCHANGED <<opts, clock, limiter>>

\* limiter.check() of a server with a limit: the window is named before it is counted in.
Name(c) ==
    /\ call[c] # None /\ opts.server # None /\ call[c].window = None
    /\ call' = [call EXCEPT ![c].window = clock \div Window]
    /\ UNCHANGED <<opts, clock, limiter, asked>>

\* INCR and EXPIRE in one pipeline: what they leave and the count that is answered.  When
\* Redis fails, either may be lost, and so may the answer, which then reads as none.
Incremented(w) ==
    LET n == IF counter[w] = None THEN 1 ELSE counter[w].count + 1
        last == IF counter[w] = None THEN None ELSE counter[w].last
    IN  {[key |-> [count |-> n, last |-> clock], n |-> n]} \cup
        IF "redis" \notin Allowed THEN {}
        ELSE {[key |-> [count |-> n, last |-> t], n |-> m] : t \in {clock, last}, m \in {n, 0}}
               \cup {[key |-> counter[w], n |-> 0]}

\* A call was counted for sure when both commands were executed and answered.
CountedIn(w, got) == IF got.n # 0 /\ got.key.last = clock THEN w ELSE None

\* No limit of a server.
CheckUnlimited(c) ==
    /\ call[c] # None /\ Unset("server")
    /\ IF record = None THEN Unlimited(call[c].key, None) ELSE PreCall(call[c].key, None)
    /\ call' = [call EXCEPT ![c] = None]
    /\ UNCHANGED <<opts, clock, counter, lost, asked>>

\* The limiter has answered; preCall() follows in the same turn.  No count is no refusal.
Check(c) ==
    /\ call[c] # None /\ call[c].window # None
    /\ LET k == call[c].key
           w == call[c].window
       IN  \E got \in Incremented(w) :
             /\ counter' = [counter EXCEPT ![w] = got.key]
             /\ IF got.n > opts.server THEN UNCHANGED <<record, buckets, log>>
                ELSE IF record = None THEN Unlimited(k, CountedIn(w, got))
                ELSE PreCall(k, CountedIn(w, got))
    /\ call' = [call EXCEPT ![c] = None]
    /\ UNCHANGED <<opts, clock, lost, asked>>

\* The key of a window expires, a window after its last EXPIRE.
CounterExpires(w) ==
    /\ counter[w] # None /\ counter[w].last # None /\ clock - counter[w].last >= Window
    /\ counter' = [counter EXCEPT ![w] = None]
    /\ UNCHANGED <<opts, clock, record, buckets, log, lost, call, asked>>

-----------------------------------------------------------------------------
(* The end of a session *)

\* delete() of the store.
Forget == record' = None /\ buckets' = NoBuckets /\ lost' = TRUE

\* reapExpired() of the hourly timer.
Reap ==
    /\ record # None /\ clock - record.seen > Ttl
    /\ Forget
    /\ UNCHANGED <<opts, clock, counter, call, log, asked>>

\* The process restarts, and the record is gone.
Restart ==
    /\ "crash" \in Allowed /\ record # None
    /\ Forget
    /\ call' = [c \in Call |-> None]
    /\ UNCHANGED <<opts, clock, counter, log, asked>>

\* DELETE /admin/sessions/:id.
Removed ==
    /\ record # None
    /\ Forget
    /\ UNCHANGED <<opts, clock, counter, call, log, asked>>

Next ==
    \/ Tick \/ Reap \/ Restart \/ Removed
    \/ \E w \in 0..MaxClock : CounterExpires(w)
    \/ \E c \in Call :
         Name(c) \/ CheckUnlimited(c) \/ Check(c) \/ \E k \in Key : Request(c, k)

LimitsSpec == Init /\ [][Next]_vars

-----------------------------------------------------------------------------

TypeOK ==
    /\ opts \in Options /\ clock \in 0..MaxClock
    /\ record = None \/ record \in Record
    /\ buckets \in [Key \cup {"rpm"} -> Bucket \cup {None}]
    /\ record = None => buckets = NoBuckets
    /\ counter \in [0..MaxClock -> Counter \cup {None}]
    /\ call \in [Call -> Waiting \cup {None}]
    /\ \A c \in Call : call[c] # None /\ opts.server = None => call[c].window = None
    /\ log \in Seq(Passed) /\ lost \in BOOLEAN
    /\ asked \in 0..MaxCount

\* The calls of some keys that were let through from one tick to another.
Through(keys, from, to) == {i \in DOMAIN log : log[i].key \in keys /\ log[i].at \in from..to}
\* What a stretch of a window's length sees of buckets that each let so many calls through:
\* all of one, and all of the one before but the call that started it.
Stretch(budget) == IF budget = 0 THEN 0 ELSE 2 * budget - 1
\* A limit of n identical calls lets one less through.
LoopBudget == IF opts.loopN = 0 THEN 0 ELSE opts.loopN - 1
\* The calls let through that were counted for sure in a window of the limiter.
InWindow(w) == {i \in DOMAIN log : log[i].window = w}
\* Those of them from one tick on, for less than a window.
InStretch(w, from) == {i \in InWindow(w) : log[i].at \in from .. from + Window - 1}

\* ADR-025: maxCalls, and maxDuration from the session's start.
Quota ==
    /\ Unset("maxCalls") \/ Len(log) <= opts.maxCalls
    /\ Unset("maxDuration") \/ \A i \in DOMAIN log : log[i].at <= opts.maxDuration

\* While its record is there, a session stays within its limits, whatever calls are
\* between the limiter and preCall() when others are counted; since a bucket starts with
\* a call and not with the clock, no stretch of a window's length sees two full budgets of
\* calls a minute, or of identical ones.  The limiter of a server lets calls through that
\* Redis does not count; of the others, no more than its limit within less than a window,
\* though a call may be counted long after the window it named, when that has expired.
LimitsHold ==
    /\ Unset("server") \/ \A w, t \in 0..clock : Cardinality(InStretch(w, t)) <= opts.server
    /\ ~lost =>
         /\ Quota
         /\ \A t \in 0..clock :
              /\ Unset("rpm") \/ Cardinality(Through(Key, t, t + Window)) <= Stretch(opts.rpm)
              /\ Unset("loopN") \/ \A k \in Key :
                   Cardinality(Through({k}, t, t + Window)) <= Stretch(LoopBudget)

\* A window of the limiter lets no more calls through than the limit ("Fixed-window per
\* bucketSeconds", rate-limit.ts:11), those included that are counted late.
WindowIsLimited ==
    Unset("server") \/ \A w \in 0..clock : Cardinality(InWindow(w)) <= opts.server

\* The limits are the session's, and not those of the record of one process (ADR-025:
\* "Promote the session to a first-class entity with its own metadata and limits").
SessionIsLimited == Quota
=============================================================================
