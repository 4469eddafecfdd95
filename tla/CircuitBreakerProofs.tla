------------------------ MODULE CircuitBreakerProofs ------------------------
(***************************************************************************)
(* What TLAPS proves of CircuitBreaker for every number of concurrent      *)
(* calls and every setting of the three options.                           *)
(***************************************************************************)
EXTENDS CircuitBreaker, FiniteSetTheorems, TLAPS

\* The type invariant of the entry, the calls and the history variables, in
\* every reachable state: in particular halfOpenInFlight never leaves
\* 0..halfOpenMaxCalls although onSuccess() decrements it for calls that never
\* incremented it.
THEOREM TypeCorrect == Spec => []TypeOK
<1> USE OptionsAssumption DEF TypeOK
<1>1. Init => TypeOK
  BY DEF Init
<1>2. TypeOK /\ [Next]_vars => TypeOK'
  <2> SUFFICES ASSUME TypeOK, [Next]_vars
               PROVE  TypeOK'
    OBVIOUS
  <2>1. CASE Tick
    BY <2>1 DEF Tick
  <2>2. ASSUME NEW c \in Call, Attempt(c)
        PROVE  TypeOK'
    <3>1. CASE Refuse(c)
      BY <3>1 DEF Refuse, entry
    <3>2. CASE AdmitClosed(c)
      BY <3>2 DEF AdmitClosed, Start, entry
    <3>3. CASE EnterHalfOpen(c)
      BY <3>3 DEF EnterHalfOpen, Start, FreshInFlight
    <3>4. CASE AdmitProbe(c)
      BY <3>4 DEF AdmitProbe, Start
    <3> QED
      BY <2>2, <3>1, <3>2, <3>3, <3>4 DEF Attempt
  <2>3. ASSUME NEW c \in Call, Complete(c)
        PROVE  TypeOK'
    <3>1. CASE SucceedHalfOpen(c)
      BY <3>1 DEF SucceedHalfOpen, Settle, ReleasedSlot, Recovered
    <3>2. CASE Succeed(c)
      BY <3>2 DEF Succeed, Settle
    <3>3. CASE FailHalfOpen(c)
      BY <3>3 DEF FailHalfOpen, Settle
    <3>4. CASE Fail(c)
      BY <3>4 DEF Fail, Settle, AtMost
    <3> QED
      BY <2>3, <3>1, <3>2, <3>3, <3>4 DEF Complete
  <2>4. ASSUME NEW c \in Call, Retry(c)
        PROVE  TypeOK'
    BY <2>4 DEF Retry, entry
  <2>5. CASE UNCHANGED vars
    BY <2>5 DEF vars, entry
  <2> QED
    BY <2>1, <2>2, <2>3, <2>4, <2>5 DEF Next
<1> QED
  BY <1>1, <1>2, PTL DEF Spec

\* A set of probes has a natural number as its size, one more after a new call
\* joins and one less after a member leaves.
LEMMA ProbeCount ==
  ASSUME NEW P \in SUBSET Call, NEW c \in Call
  PROVE  /\ Cardinality(P) \in Nat
         /\ c \notin P => Cardinality(P \cup {c}) = Cardinality(P) + 1
         /\ c \in P => Cardinality(P \ {c}) = Cardinality(P) - 1
<1>1. IsFiniteSet(P)
  BY OptionsAssumption, FS_Subset
<1>2. Cardinality(P) \in Nat
  BY <1>1, FS_CardinalityType
<1>3. c \notin P => Cardinality(P \cup {c}) = Cardinality(P) + 1
  BY <1>1, FS_AddElement
<1>4. c \in P => Cardinality(P \ {c}) = Cardinality(P) - 1
  BY <1>1, FS_RemoveElement
<1> QED
  BY <1>2, <1>3, <1>4

\* NoLeakedSlot is inductive once it says that only a half_open entry has
\* probes: a call that starts is then never one of them already.
SlotInv ==
  /\ TypeOK
  /\ NoLeakedSlot
  /\ state # "half_open" => probes = {}

\* NoLeakedSlot holds for any number of calls and any options: the slots a
\* half-open entry counts as taken never exceed the probes of that window still
\* in flight, so the breaker cannot lock a server out with nothing in flight.
THEOREM SlotsNeverLeak == Spec => []NoLeakedSlot
<1>1. Init => SlotInv
  BY OptionsAssumption DEF Init, SlotInv, NoLeakedSlot, TypeOK
<1>2. SlotInv /\ TypeOK' /\ [Next]_vars => SlotInv'
  <2> SUFFICES ASSUME SlotInv, TypeOK', [Next]_vars
               PROVE  (NoLeakedSlot /\ (state # "half_open" => probes = {}))'
    BY DEF SlotInv
  <2> USE DEF SlotInv, NoLeakedSlot, TypeOK
  <2>1. CASE Tick
    BY <2>1 DEF Tick
  <2>2. ASSUME NEW c \in Call, Refuse(c) \/ AdmitClosed(c) \/ Retry(c)
        PROVE  (NoLeakedSlot /\ (state # "half_open" => probes = {}))'
    BY <2>2 DEF Refuse, AdmitClosed, Retry, Start, entry
  <2>3. ASSUME NEW c \in Call, EnterHalfOpen(c)
        PROVE  (NoLeakedSlot /\ (state # "half_open" => probes = {}))'
    <3>1. Cardinality({c}) = 1
      BY FS_Singleton
    <3> QED
      BY <2>3, <3>1 DEF EnterHalfOpen, Start, FreshInFlight
  <2>4. ASSUME NEW c \in Call, AdmitProbe(c)
        PROVE  (NoLeakedSlot /\ (state # "half_open" => probes = {}))'
    <3>1. c \notin probes
      BY <2>4 DEF AdmitProbe, Start
    <3>2. /\ Cardinality(probes) \in Nat
          /\ Cardinality(probes') = Cardinality(probes) + 1
      BY <2>4, <3>1, ProbeCount DEF AdmitProbe
    <3> QED
      BY <2>4, <3>2 DEF AdmitProbe, Start
  <2>5. ASSUME NEW c \in Call, SucceedHalfOpen(c)
        PROVE  (NoLeakedSlot /\ (state # "half_open" => probes = {}))'
    <3>1. CASE Recovered
      BY <2>5, <3>1 DEF SucceedHalfOpen, Settle
    <3>2. CASE ~Recovered
      <4>1. probes' = probes \ {c} /\ state' = state
        BY <2>5, <3>2 DEF SucceedHalfOpen
      <4>2. /\ Cardinality(probes) \in Nat
            /\ Cardinality(probes') \in Nat
            /\ Cardinality(probes') >= Cardinality(probes) - 1
        <5>1. probes \in SUBSET Call /\ probes \ {c} \in SUBSET Call
          OBVIOUS
        <5>2. Cardinality(probes) \in Nat /\ Cardinality(probes \ {c}) \in Nat
          BY <5>1, ProbeCount
        <5>3. CASE c \in probes
          <6>1. Cardinality(probes \ {c}) = Cardinality(probes) - 1
            BY <5>1, <5>3, ProbeCount
          <6> QED
            BY <4>1, <5>2, <6>1
        <5>4. CASE c \notin probes
          <6>1. probes' = probes
            BY <4>1, <5>4
          <6> QED
            BY <5>2, <6>1
        <5> QED
          BY <5>3, <5>4
      <4>3. halfOpenInFlight' <= Cardinality(probes')
        BY <2>5, <4>2 DEF SucceedHalfOpen, ReleasedSlot
      <4> QED
        BY <2>5, <4>1, <4>3 DEF SucceedHalfOpen, Settle
    <3> QED
      BY <3>1, <3>2
  <2>6. ASSUME NEW c \in Call, Succeed(c) \/ FailHalfOpen(c) \/ Fail(c)
        PROVE  (NoLeakedSlot /\ (state # "half_open" => probes = {}))'
    BY <2>6 DEF Succeed, FailHalfOpen, Fail, Settle
  <2>7. CASE UNCHANGED vars
    BY <2>7 DEF vars, entry
  <2> QED
    BY <2>1, <2>2, <2>3, <2>4, <2>5, <2>6, <2>7 DEF Next, Attempt, Complete
<1> QED
  BY <1>1, <1>2, TypeCorrect, PTL DEF Spec, SlotInv

\* The strengthening of ProbeBudget: every call a half-open window has admitted
\* still holds a slot or was paid for by a success.
WindowAccount == state = "half_open" => admitted <= halfOpenInFlight + successes

\* ProbeBudget holds for any number of calls and any options: a half-open
\* window admits at most 2 * halfOpenMaxCalls - 1 calls.
THEOREM ProbesAreBudgeted == Spec => []ProbeBudget
<1> USE OptionsAssumption DEF TypeOK, WindowAccount
<1>1. Init => WindowAccount
  BY DEF Init
<1>2. TypeOK /\ WindowAccount /\ [Next]_vars => WindowAccount'
  <2> SUFFICES ASSUME TypeOK, WindowAccount, [Next]_vars
               PROVE  WindowAccount'
    OBVIOUS
  <2>1. CASE Tick \/ UNCHANGED vars
    BY <2>1 DEF Tick, vars, entry
  <2>2. ASSUME NEW c \in Call, Attempt(c) \/ Retry(c)
        PROVE  WindowAccount'
    BY <2>2 DEF Attempt, Refuse, AdmitClosed, EnterHalfOpen, AdmitProbe, Retry,
                FreshInFlight, entry
  <2>3. ASSUME NEW c \in Call, Complete(c)
        PROVE  WindowAccount'
    BY <2>3 DEF Complete, SucceedHalfOpen, Succeed, FailHalfOpen, Fail,
                ReleasedSlot, Recovered
  <2> QED
    BY <2>1, <2>2, <2>3 DEF Next
<1>3. TypeOK /\ WindowAccount => ProbeBudget
  BY DEF ProbeBudget
<1> QED
  BY <1>1, <1>2, <1>3, TypeCorrect, PTL DEF Spec
=============================================================================
