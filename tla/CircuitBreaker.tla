--------------------------- MODULE CircuitBreaker ---------------------------
(***************************************************************************)
(* The in-process circuit breaker of one upstream server                   *)
(* (packages/core/src/index.ts, class CircuitBreaker): the router wraps    *)
(* every dispatch to a server in execute(serverId, fn).  Entries of        *)
(* different keys share nothing, so one entry is modelled.  execute() runs *)
(* synchronously up to `await fn()`; the settling of fn is another step,   *)
(* and any number of other calls of the same server run in between.        *)
(***************************************************************************)
EXTENDS Integers, FiniteSets

CONSTANTS
    Call,             \* slots for concurrent tools/call requests to the server
    FailureThreshold, \* opts.failureThreshold
    ResetTicks,       \* opts.resetMs, in clock ticks
    HalfOpenMaxCalls  \* opts.halfOpenMaxCalls

\* packages/config/src/schema.ts: all three options are positive integers.
ASSUME OptionsAssumption ==
    /\ IsFiniteSet(Call)
    /\ FailureThreshold \in Nat \ {0}
    /\ ResetTicks \in Nat \ {0}
    /\ HalfOpenMaxCalls \in Nat \ {0}

VARIABLES
    state,            \* entry.state
    failures,         \* entry.failures, saturated at FailureThreshold: the code
                      \* only ever compares it with that bound
    successes,        \* entry.successes
    elapsed,          \* now() - entry.openedAt, saturated at ResetTicks
    halfOpenInFlight, \* entry.halfOpenInFlight
    phase,            \* where each call is: not started, dispatched, or refused
                      \* with CircuitOpenError
    probes,           \* history: calls in flight admitted in this half_open window
    admitted          \* history: how many calls this window has admitted

entry == <<state, failures, successes, elapsed, halfOpenInFlight>>
vars == <<entry, phase, probes, admitted>>

AtMost(n, bound) == IF n > bound THEN bound ELSE n

Init ==
    /\ state = "closed"
    /\ failures = 0
    /\ successes = 0
    /\ elapsed = 0
    /\ halfOpenInFlight = 0
    /\ phase = [c \in Call |-> "idle"]
    /\ probes = {}
    /\ admitted = 0

-----------------------------------------------------------------------------
(* execute(), up to the await *)

Start(c) == phase[c] = "idle" /\ phase' = [phase EXCEPT ![c] = "running"]

\* CircuitOpenError: open and not expired, or every half-open slot taken.
Refuse(c) ==
    /\ phase[c] = "idle"
    /\ \/ state = "open" /\ elapsed < ResetTicks
       \/ state = "half_open" /\ halfOpenInFlight >= HalfOpenMaxCalls
    /\ phase' = [phase EXCEPT ![c] = "refused"]
    /\ UNCHANGED <<entry, probes, admitted>>

AdmitClosed(c) ==
    /\ state = "closed"
    /\ Start(c)
    /\ UNCHANGED <<entry, probes, admitted>>

\* halfOpenInFlight = 0 on entering half_open, then ++ for the call itself.
FreshInFlight == 1

\* The first call after the reset time turns the circuit half_open and is a probe.
EnterHalfOpen(c) ==
    /\ state = "open"
    /\ elapsed >= ResetTicks
    /\ Start(c)
    /\ state' = "half_open"
    /\ halfOpenInFlight' = FreshInFlight
    /\ successes' = 0
    /\ probes' = {c}
    /\ admitted' = 1
    /\ UNCHANGED <<failures, elapsed>>

AdmitProbe(c) ==
    /\ state = "half_open"
    /\ halfOpenInFlight < HalfOpenMaxCalls
    /\ Start(c)
    /\ halfOpenInFlight' = halfOpenInFlight + 1
    /\ probes' = probes \cup {c}
    /\ admitted' = admitted + 1
    /\ UNCHANGED <<state, failures, successes, elapsed>>

-----------------------------------------------------------------------------
(* The settling of fn.  The entry does not remember which state admitted the *)
(* call: a call admitted while closed that settles in half_open is booked    *)
(* like a probe.                                                             *)

Settle(c) == phase[c] = "running" /\ phase' = [phase EXCEPT ![c] = "idle"]

\* Mutations of ReleasedSlot: a success keeps its slot; no Math.max(0, ...).
KeptSlot == halfOpenInFlight
UnclampedSlot == halfOpenInFlight - 1

\* Math.max(0, halfOpenInFlight - 1)
ReleasedSlot == IF halfOpenInFlight = 0 THEN 0 ELSE halfOpenInFlight - 1

\* Mutation of Recovered: an off-by-one in the number of successes.
RecoveredLate == successes + 1 > HalfOpenMaxCalls

\* The success being booked closes the circuit.
Recovered == successes + 1 >= HalfOpenMaxCalls

\* onSuccess() in half_open.
SucceedHalfOpen(c) ==
    /\ state = "half_open"
    /\ Settle(c)
    /\ halfOpenInFlight' = ReleasedSlot
    /\ IF Recovered
         THEN /\ state' = "closed"
              /\ failures' = 0
              /\ successes' = 0
              /\ probes' = {}
              /\ admitted' = 0
         ELSE /\ successes' = successes + 1
              /\ probes' = probes \ {c}
              /\ UNCHANGED <<state, failures, admitted>>
    /\ UNCHANGED elapsed

\* onSuccess() in closed, or of a late call in open.
Succeed(c) ==
    /\ state # "half_open"
    /\ Settle(c)
    /\ failures' = 0
    /\ UNCHANGED <<state, successes, elapsed, halfOpenInFlight, probes, admitted>>

\* Mutation of FailHalfOpen: onFailure() without its half_open branch.
CountedFailure(c) ==
    /\ state = "half_open"
    /\ Settle(c)
    /\ failures' = AtMost(failures + 1, FailureThreshold)
    /\ IF failures + 1 >= FailureThreshold
         THEN state' = "open" /\ elapsed' = 0 /\ probes' = {} /\ admitted' = 0
         ELSE probes' = probes \ {c} /\ UNCHANGED <<state, elapsed, admitted>>
    /\ UNCHANGED <<successes, halfOpenInFlight>>

\* onFailure() in half_open: one failure reopens the circuit.
FailHalfOpen(c) ==
    /\ state = "half_open"
    /\ Settle(c)
    /\ state' = "open"
    /\ elapsed' = 0
    /\ halfOpenInFlight' = 0
    /\ probes' = {}
    /\ admitted' = 0
    /\ UNCHANGED <<failures, successes>>

\* onFailure() in closed, or of a late call in open, which restarts the window.
Fail(c) ==
    /\ state # "half_open"
    /\ Settle(c)
    /\ failures' = AtMost(failures + 1, FailureThreshold)
    /\ IF failures + 1 >= FailureThreshold
         THEN state' = "open" /\ elapsed' = 0
         ELSE UNCHANGED <<state, elapsed>>
    /\ UNCHANGED <<successes, halfOpenInFlight, probes, admitted>>

\* The refused client has its -32010 and may call again.
Retry(c) ==
    /\ phase[c] = "refused"
    /\ phase' = [phase EXCEPT ![c] = "idle"]
    /\ UNCHANGED <<entry, probes, admitted>>

\* The clock; openedAt is read in the open state only.
Tick ==
    /\ state = "open"
    /\ elapsed < ResetTicks
    /\ elapsed' = elapsed + 1
    /\ UNCHANGED <<state, failures, successes, halfOpenInFlight, phase, probes, admitted>>

Attempt(c) == Refuse(c) \/ AdmitClosed(c) \/ EnterHalfOpen(c) \/ AdmitProbe(c)
Complete(c) == SucceedHalfOpen(c) \/ Succeed(c) \/ FailHalfOpen(c) \/ Fail(c)

Next ==
    \/ Tick
    \/ \E c \in Call : Attempt(c) \/ Complete(c) \/ Retry(c)

Spec == Init /\ [][Next]_vars

\* The clock advances and clients keep calling.  That a dispatch settles is not assumed:
\* execute() sets no time limit to it.
Fairness ==
    /\ WF_vars(Tick)
    /\ \A c \in Call : WF_vars(Attempt(c)) /\ WF_vars(Retry(c))

FairSpec == Spec /\ Fairness

-----------------------------------------------------------------------------

TypeOK ==
    /\ state \in {"closed", "open", "half_open"}
    /\ failures \in 0..FailureThreshold
    /\ successes \in 0..(HalfOpenMaxCalls - 1)
    /\ elapsed \in 0..ResetTicks
    /\ halfOpenInFlight \in 0..HalfOpenMaxCalls
    /\ phase \in [Call -> {"idle", "running", "refused"}]
    /\ probes \subseteq Call
    /\ admitted \in Nat

\* No half-open slot is ever leaked: the slots the entry counts as taken are
\* covered by probes of this very window that are still in flight.  A breaker
\* that refuses calls in half_open therefore has a probe whose answer will move
\* it, although onSuccess() also books calls admitted before the trip and
\* onFailure() forgets the probes of the window it ends.
NoLeakedSlot ==
    /\ \A c \in probes : phase[c] = "running"
    /\ state = "half_open" => halfOpenInFlight <= Cardinality(probes)

\* How hard a half-open window can hit a recovering server: the slots alone do
\* not bound the calls it admits, since a call admitted before the trip that
\* succeeds now frees a slot it never took; every such success also moves the
\* circuit towards closed, so fewer than two batches of probes are admitted.
ProbeBudget == state = "half_open" => admitted <= 2 * HalfOpenMaxCalls - 1

\* So many calls as a half-open window has slots never settle.
AsManyHangAsSlots ==
    \E S \in {T \in SUBSET Call : Cardinality(T) = HalfOpenMaxCalls} :
        <>[](\A c \in S : phase[c] = "running")

\* Once the upstream stops failing, the circuit closes and stays closed, whatever calls
\* were in flight when it tripped, reopened or half-opened, and although some of them
\* never settle: it takes as many of those as a half-open window has slots to keep the
\* circuit from closing.
HealsWithUpstream ==
    <>[][\A c \in Call : ~FailHalfOpen(c) /\ ~Fail(c)]_vars =>
        <>[](state = "closed") \/ AsManyHangAsSlots

\* The same however many hang.
HealsInAnyCase ==
    <>[][\A c \in Call : ~FailHalfOpen(c) /\ ~Fail(c)]_vars => <>[](state = "closed")
=============================================================================
