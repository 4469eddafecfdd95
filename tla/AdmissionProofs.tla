--------------------------- MODULE AdmissionProofs ---------------------------
(***************************************************************************)
(* Proofs about what is let in: event routes behind their review, the      *)
(* calls of a session within its limits, its key, and the tools that are   *)
(* imported from an API.  Each part keeps its property under its own       *)
(* specification; a behaviour of MCAdmission is one of each part's, in     *)
(* which the others rest.                                                  *)
(***************************************************************************)
EXTENDS MCAdmission, FiniteSetTheorems, WellFoundedInduction, SequenceTheorems, TLAPS

-----------------------------------------------------------------------------
(* Event routes *)

EventState ==
    [pc : Bridge!Outcome \cup {"idle", "dispatch", "owner", "invoke"},
     knows : Bridge!Version \cup {None}, verdict : Bridge!Version \cup {None, Bridge!Broker},
     target : Bridge!Version \cup {None}, schema : Bridge!Version \cup {None},
     armed : BOOLEAN]

BridgeTypes ==
    /\ eRow \in Bridge!Row \cup {None} /\ eSource \in {"webhook", "kafka", None}
    /\ eSeen \in Bridge!Version \cup {None} /\ eConsumer \in BOOLEAN
    /\ eValidator = None \/ eValidator \in [version : Bridge!Version, stamp : 1..MaxStamp]
    /\ eEvent \in [Event -> EventState]
    /\ eApproved \subseteq Bridge!Version /\ eReviewed \subseteq eApproved
    /\ eOwn \subseteq Bridge!Version
    /\ eSeen # None => eRow # None

\* What may run: what an administrator approved, or what was submitted as approved.
Armable == eApproved \cup eOwn

\* A route is armed by an approval of the version it has, or by its first submission.
ArmedIsApproved == Bridge!Armed(eRow) => eRow.version \in Armable

\* The stamp tells the validator's version from a later one of the row.
ValidatorKnowsItsRow ==
    eValidator # None =>
      /\ eRow # None /\ eValidator.stamp <= eRow.stamp
      /\ eValidator.stamp = eRow.stamp => eValidator.version = eRow.version

\* A delivery that meets an armed route has been under way while it was armed, and one that
\* is past the dispatcher is for an approved version, whose schema has seen the payload.
PassedTheRoute ==
    \A e \in Event :
      LET d == eEvent[e]
      IN  /\ d.pc = "dispatch" /\ Bridge!Armed(eRow) => d.armed
          /\ d.pc \in {"owner", "invoke"} =>
               d.armed /\ d.target \in Armable /\ d.schema = d.target

RanWhatPassed == \A r \in eRan : r.version \in Armable /\ r.armed /\ r.schema = r.version

BridgeInv ==
    BridgeTypes /\ ArmedIsApproved /\ ValidatorKnowsItsRow /\ PassedTheRoute /\ RanWhatPassed

\* What AdmissionAssumption says of the constants of the bridge.
LEMMA BridgeConstants ==
    /\ MaxVersion \in Nat \ {0} /\ MaxStamp \in Nat \ {0}
    /\ None \notin Bridge!Row
  BY AdmissionAssumption DEF Bridge!EventBridgeAssumption

\* It holds before the first event.
LEMMA BridgeInit == Bridge!Init => BridgeInv
<1> SUFFICES ASSUME Bridge!Init PROVE BridgeInv
  OBVIOUS
<1>1. Bridge!NoEvent \in EventState /\ Bridge!NoEvent.pc = "idle"
  BY DEF Bridge!NoEvent, EventState, Bridge!Outcome
<1>2. BridgeTypes
  BY <1>1 DEF Bridge!Init, BridgeTypes
<1> QED
  BY <1>1, <1>2
  DEF Bridge!Init, BridgeInv, ArmedIsApproved, ValidatorKnowsItsRow, PassedTheRoute,
      RanWhatPassed, Bridge!Armed

\* What a step does to one delivery.
LEMMA BridgeDelivery ==
    ASSUME BridgeInv, NEW e \in Event, NEW d \in EventState,
           eEvent' = [eEvent EXCEPT ![e] = d],
           d.pc = "dispatch" /\ Bridge!Armed(eRow) => d.armed,
           d.pc \in {"owner", "invoke"} =>
             d.armed /\ d.target \in Armable /\ d.schema = d.target,
           UNCHANGED <<eRow, eApproved, eOwn>>
    PROVE  (eEvent \in [Event -> EventState])' /\ PassedTheRoute' /\ ArmedIsApproved'
<1>1. (eEvent \in [Event -> EventState])'
  BY DEF BridgeInv, BridgeTypes
<1>2. eEvent'[e] = d /\ \A v \in Event \ {e} : eEvent'[v] = eEvent[v]
  BY DEF BridgeInv, BridgeTypes
<1>3. PassedTheRoute'
  BY <1>2 DEF BridgeInv, PassedTheRoute, Bridge!Armed, Armable
<1>4. ArmedIsApproved'
  BY DEF BridgeInv, ArmedIsApproved, Bridge!Armed, Armable
<1> QED
  BY <1>1, <1>3, <1>4

\* A step of a delivery that leaves the validator and what has run alone.
LEMMA BridgeMoves ==
    ASSUME BridgeInv, NEW e \in Event, NEW d \in EventState,
           eEvent' = [eEvent EXCEPT ![e] = d],
           d.pc = "dispatch" /\ Bridge!Armed(eRow) => d.armed,
           d.pc \in {"owner", "invoke"} =>
             d.armed /\ d.target \in Armable /\ d.schema = d.target,
           UNCHANGED <<eRow, eSource, eSeen, eConsumer, eValidator, eApproved, eReviewed, eOwn, eRan>>
    PROVE  BridgeInv'
<1>1. (eEvent \in [Event -> EventState])' /\ PassedTheRoute' /\ ArmedIsApproved'
  BY BridgeDelivery
<1>2. BridgeTypes'
  BY <1>1 DEF BridgeInv, BridgeTypes
<1>3. ValidatorKnowsItsRow' /\ RanWhatPassed'
  BY DEF BridgeInv, ValidatorKnowsItsRow, RanWhatPassed, Armable
<1> QED
  BY <1>1, <1>2, <1>3 DEF BridgeInv

\* A row can be told from no row, and its stamp has a successor.
LEMMA BridgeRow ==
    ASSUME eRow \in Bridge!Row
    PROVE  eRow # None /\ eRow.stamp \in 1..MaxStamp /\ Bridge!Stamp = eRow.stamp + 1
<1>1. eRow # None
  BY BridgeConstants
<1>2. eRow.stamp \in 1..MaxStamp
  BY DEF Bridge!Row
<1> QED
  BY <1>1, <1>2 DEF Bridge!Stamp

\* Each write of the row makes the validator stale.
LEMMA BridgeWritesRow ==
    ASSUME BridgeInv, eRow' \in Bridge!Row, eRow # None => eRow'.stamp = eRow.stamp + 1,
           UNCHANGED eValidator
    PROVE  ValidatorKnowsItsRow'
<1>1. CASE eValidator = None
  BY <1>1 DEF ValidatorKnowsItsRow
<1>2. CASE eValidator # None
  <2>1. eValidator.stamp \in Nat /\ eRow # None /\ eValidator.stamp <= eRow.stamp
    BY <1>2, BridgeConstants DEF BridgeInv, BridgeTypes, ValidatorKnowsItsRow
  <2>2. eRow \in Bridge!Row
    BY <2>1 DEF BridgeInv, BridgeTypes
  <2>3. eRow.stamp \in Nat
    BY <2>2, BridgeRow, BridgeConstants
  <2>4. eRow' # None
    BY BridgeConstants DEF Bridge!Row, Bridge!Version
  <2> QED
    BY <2>1, <2>3, <2>4 DEF ValidatorKnowsItsRow
<1> QED
  BY <1>1, <1>2

\* A delivery that goes on is otherwise what it was.
Moved(e, pc) == [eEvent[e] EXCEPT !.pc = pc]

\* An event that moves on keeps the binding it was read with.
LEMMA BridgeMoved ==
    ASSUME BridgeInv, NEW e \in Event, NEW pc \in Bridge!Outcome \cup {"invoke"}
    PROVE  /\ Moved(e, pc) \in EventState
           /\ Moved(e, pc).pc = pc
           /\ Moved(e, pc).armed = eEvent[e].armed
           /\ Moved(e, pc).target = eEvent[e].target
           /\ Moved(e, pc).schema = eEvent[e].schema
           /\ [eEvent EXCEPT ![e].pc = pc] = [eEvent EXCEPT ![e] = Moved(e, pc)]
  BY DEF BridgeInv, BridgeTypes, EventState, Moved

\* Every step of the bridge and of its administrators keeps it.
LEMMA BridgeStep == BridgeInv /\ [Bridge!Next]_(Bridge!vars) => BridgeInv'
<1> USE DEF Bridge!history, Armable
<1> SUFFICES ASSUME BridgeInv, [Bridge!Next]_(Bridge!vars) PROVE BridgeInv'
  OBVIOUS
<1>0. /\ eEvent \in [Event -> EventState]
      /\ eRow # None => eRow \in Bridge!Row
  BY DEF BridgeInv, BridgeTypes
<1>1. CASE UNCHANGED Bridge!vars
  BY <1>1 DEF Bridge!vars, BridgeInv, BridgeTypes, ArmedIsApproved, ValidatorKnowsItsRow,
              PassedTheRoute, RanWhatPassed, Bridge!Armed
<1>2. CASE Bridge!List
  <2>1. BridgeTypes'
    BY <1>2, <1>0 DEF Bridge!List, BridgeInv, BridgeTypes, Bridge!Row
  <2> QED
    BY <1>2, <2>1 DEF Bridge!List, BridgeInv, ArmedIsApproved, ValidatorKnowsItsRow,
                      PassedTheRoute, RanWhatPassed, Bridge!Armed
<1>3. CASE Bridge!Approve
  <2>1. eRow \in Bridge!Row
    BY <1>3, <1>0 DEF Bridge!Approve, BridgeInv, BridgeTypes
  <2>2. /\ eRow' \in Bridge!Row
        /\ eRow'.version = eRow.version /\ eRow'.stamp = eRow.stamp + 1
        /\ eApproved' = eApproved \cup {eRow.version} /\ eOwn' = eOwn
    <3>1. eRow' = [eRow EXCEPT !.status = "approved", !.stamp = eRow.stamp + 1]
      BY <1>3, <2>1, BridgeRow DEF Bridge!Approve
    <3>2. eRow.stamp < MaxStamp
      BY <1>3 DEF Bridge!Approve
    <3>3. eRow' \in Bridge!Row /\ eRow'.version = eRow.version /\ eRow'.stamp = eRow.stamp + 1
      <4>1. eRow.stamp \in Nat /\ eRow.stamp + 1 \in 1..MaxStamp
        BY <2>1, <3>2, BridgeRow, BridgeConstants
      <4> QED
        BY <2>1, <3>1, <4>1 DEF Bridge!Row
    <3> QED
      BY <1>3, <3>3 DEF Bridge!Approve
  <2>3. /\ eEvent' \in [Event -> EventState]
        /\ \A e \in Event : /\ eEvent'[e].armed
                            /\ eEvent'[e].pc = eEvent[e].pc
                            /\ eEvent'[e].target = eEvent[e].target
                            /\ eEvent'[e].schema = eEvent[e].schema
    BY <1>3, <1>0 DEF Bridge!Approve, Bridge!Notice, EventState
  <2>4. BridgeTypes'
    BY <1>3, <2>1, <2>2, <2>3, BridgeConstants
    DEF Bridge!Approve, BridgeInv, BridgeTypes, Bridge!Row
  <2>5. ArmedIsApproved'
    BY <2>2 DEF ArmedIsApproved
  <2>6. ValidatorKnowsItsRow'
    BY <1>3, <2>2, BridgeWritesRow DEF Bridge!Approve
  <2>7. PassedTheRoute'
    BY <2>2, <2>3 DEF BridgeInv, PassedTheRoute
  <2>8. RanWhatPassed'
    BY <1>3, <2>2 DEF Bridge!Approve, BridgeInv, RanWhatPassed
  <2> QED
    BY <2>4, <2>5, <2>6, <2>7, <2>8 DEF BridgeInv
<1>4. CASE Bridge!Reject
  <2>1. eRow \in Bridge!Row
    BY <1>4, <1>0 DEF Bridge!Reject, BridgeInv, BridgeTypes
  <2>2. /\ eRow' \in Bridge!Row
        /\ eRow'.stamp = eRow.stamp + 1 /\ eRow'.status = "rejected"
    <3>1. eRow' = [eRow EXCEPT !.status = "rejected", !.stamp = eRow.stamp + 1]
      BY <1>4, <2>1, BridgeRow DEF Bridge!Reject
    <3>2. eRow.stamp < MaxStamp
      BY <1>4 DEF Bridge!Reject
    <3>3. eRow.stamp \in Nat /\ eRow.stamp + 1 \in 1..MaxStamp
      BY <2>1, <3>2, BridgeRow, BridgeConstants
    <3> QED
      BY <2>1, <3>1, <3>3 DEF Bridge!Row
  <2>3. BridgeTypes'
    BY <1>4, <2>2, BridgeConstants DEF Bridge!Reject, BridgeInv, BridgeTypes
  <2>4. ArmedIsApproved' /\ PassedTheRoute' /\ RanWhatPassed'
    BY <1>4, <2>2 DEF Bridge!Reject, BridgeInv, ArmedIsApproved, PassedTheRoute, RanWhatPassed,
                      Bridge!Armed
  <2>5. ValidatorKnowsItsRow'
    BY <1>4, <2>2, BridgeWritesRow DEF Bridge!Reject
  <2> QED
    BY <2>3, <2>4, <2>5 DEF BridgeInv
<1>5. CASE Bridge!Restart
  <2> DEFINE gone == [Bridge!NoEvent EXCEPT !.pc = "lost"]
  <2>1. gone \in EventState /\ gone.pc = "lost"
    BY DEF Bridge!NoEvent, EventState, Bridge!Outcome
  <2>2. eEvent' = [e \in Event |-> IF eEvent[e].pc \in Bridge!Outcome \cup {"idle"}
                                   THEN eEvent[e] ELSE gone]
    BY <1>5 DEF Bridge!Restart
  <2> HIDE DEF gone
  <2>3. eConsumer' \in BOOLEAN
    BY <1>5 DEF Bridge!Restart, Bridge!Armed
  <2>4. (eEvent \in [Event -> EventState])'
    BY <1>0, <2>1, <2>2
  <2>5. BridgeTypes'
    BY <1>5, <2>3, <2>4 DEF Bridge!Restart, BridgeInv, BridgeTypes
  <2>6. \A e \in Event : eEvent'[e].pc \notin {"dispatch", "owner", "invoke"}
    BY <2>1, <2>2 DEF Bridge!Outcome
  <2>7. PassedTheRoute'
    BY <2>6 DEF PassedTheRoute
  <2>8. ArmedIsApproved' /\ ValidatorKnowsItsRow' /\ RanWhatPassed'
    BY <1>5 DEF Bridge!Restart, BridgeInv, ArmedIsApproved, ValidatorKnowsItsRow, RanWhatPassed,
                Bridge!Armed
  <2> QED
    BY <2>5, <2>7, <2>8 DEF BridgeInv
<1>6. ASSUME NEW s \in {"webhook", "kafka"}, NEW auto \in BOOLEAN, Bridge!Submit(s, auto)
      PROVE  BridgeInv'
  <2> DEFINE v == IF eRow = None THEN 1 ELSE eRow.version + 1
  <2>0. /\ eRow' = Bridge!Submitted(v, auto)
        /\ eOwn' = IF eRow = None /\ auto THEN eOwn \cup {v} ELSE eOwn
        /\ UNCHANGED <<eSeen, eConsumer, eValidator, eApproved, eReviewed, eRan>>
    BY <1>6 DEF Bridge!Submit
  <2>1. /\ eRow' \in Bridge!Row /\ eRow'.version = v /\ v \in Bridge!Version
        /\ eRow'.status = IF eRow = None /\ auto THEN "approved" ELSE "pending"
        /\ eRow # None => eRow'.stamp = eRow.stamp + 1
    BY <1>6, <2>0, <1>0, BridgeConstants
    DEF Bridge!Submit, Bridge!Submitted, Bridge!Stamp, Bridge!Row, Bridge!Version
  <2> HIDE DEF v
  <2>2. /\ eEvent' \in [Event -> EventState]
        /\ \A e \in Event : /\ Bridge!Armed(eRow)' => eEvent'[e].armed
                            /\ eEvent[e].armed => eEvent'[e].armed
                            /\ eEvent'[e].pc = eEvent[e].pc
                            /\ eEvent'[e].target = eEvent[e].target
                            /\ eEvent'[e].schema = eEvent[e].schema
    <3>1. CASE Bridge!Armed(eRow)'
      <4>1. eEvent' = [e \in Event |-> [eEvent[e] EXCEPT !.armed = TRUE]]
        BY <1>6, <3>1 DEF Bridge!Submit, Bridge!Notice, Bridge!Armed
      <4> QED
        BY <1>0, <4>1 DEF EventState
    <3>2. CASE ~Bridge!Armed(eRow)'
      BY <1>6, <1>0, <3>2 DEF Bridge!Submit, Bridge!Armed
    <3> QED
      BY <3>1, <3>2
  <2>3. BridgeTypes'
    BY <1>6, <2>0, <2>1, <2>2, BridgeConstants DEF Bridge!Submit, BridgeInv, BridgeTypes
  <2>4. ArmedIsApproved'
    BY <2>0, <2>1 DEF ArmedIsApproved, Bridge!Armed
  <2>5. PassedTheRoute'
    BY <2>0, <2>2 DEF BridgeInv, PassedTheRoute
  <2>6. RanWhatPassed'
    BY <2>0 DEF BridgeInv, RanWhatPassed
  <2>7. ValidatorKnowsItsRow'
    BY <2>0, <2>1, BridgeWritesRow
  <2> QED
    BY <2>3, <2>4, <2>5, <2>6, <2>7 DEF BridgeInv
<1>7. ASSUME NEW e \in Event, NEW knows \in Bridge!Version,
             NEW verdict \in Bridge!Version \cup {None, Bridge!Broker},
             Bridge!Begin(e, knows, verdict),
             UNCHANGED <<eRow, eSource, eSeen, eConsumer, eValidator, eApproved, eReviewed, eOwn, eRan>>
      PROVE  BridgeInv'
  <2> DEFINE d == [Bridge!NoEvent EXCEPT !.pc = "dispatch", !.knows = knows,
                                         !.verdict = verdict, !.armed = Bridge!Armed(eRow)]
  <2>1. d \in EventState /\ d.pc = "dispatch" /\ d.armed = Bridge!Armed(eRow)
    BY DEF Bridge!NoEvent, EventState, Bridge!Armed
  <2>2. eEvent' = [eEvent EXCEPT ![e] = d]
    BY <1>7 DEF Bridge!Begin
  <2> HIDE DEF d
  <2> QED
    BY <1>7, <2>1, <2>2, BridgeMoves
<1>8. ASSUME NEW e \in Event, NEW v \in Bridge!Version, Bridge!Consume(e, v)
      PROVE  BridgeInv'
  BY <1>8, <1>7 DEF Bridge!Consume
<1>9. ASSUME NEW e \in Event, NEW v \in Bridge!Version, NEW s \in Bridge!Version,
             Bridge!Ingest(e, v, s)
      PROVE  BridgeInv'
  BY <1>9, <1>7 DEF Bridge!Ingest
<1>10. ASSUME NEW e \in Event, Bridge!IngestUnknown(e) \/ Bridge!Owner(e)
       PROVE  BridgeInv'
  <2>1. PICK pc \in {"unknown", "invoke", "owner_missing"} :
               /\ eEvent' = [eEvent EXCEPT ![e].pc = pc]
               /\ pc = "invoke" => eEvent[e].pc = "owner"
    BY <1>10 DEF Bridge!IngestUnknown, Bridge!Owner
  <2>2. pc \in Bridge!Outcome \cup {"invoke"}
    BY <2>1 DEF Bridge!Outcome
  <2>3. UNCHANGED <<eRow, eSource, eSeen, eConsumer, eValidator, eApproved, eReviewed, eOwn, eRan>>
    BY <1>10 DEF Bridge!IngestUnknown, Bridge!Owner
  <2>4. pc = "invoke" => /\ eEvent[e].armed /\ eEvent[e].target \in Armable
                         /\ eEvent[e].schema = eEvent[e].target
    BY <2>1 DEF BridgeInv, PassedTheRoute
  <2> DEFINE d == Moved(e, pc)
  <2>5. /\ d \in EventState /\ d.pc = pc /\ d.armed = eEvent[e].armed
        /\ d.target = eEvent[e].target /\ d.schema = eEvent[e].schema
    BY <2>2, BridgeMoved
  <2>6. eEvent' = [eEvent EXCEPT ![e] = d]
    BY <2>1, <2>2, BridgeMoved
  <2> HIDE DEF d
  <2>7. pc \notin {"dispatch", "owner"}
    BY <2>1
  <2> QED
    BY <2>3, <2>4, <2>5, <2>6, <2>7, BridgeMoves
<1>11. ASSUME NEW e \in Event, Bridge!Invoke(e)
       PROVE  BridgeInv'
  <2>1. eEvent[e].armed /\ eEvent[e].target \in Armable /\ eEvent[e].schema = eEvent[e].target
    BY <1>11 DEF Bridge!Invoke, BridgeInv, PassedTheRoute
  <2>2. PICK pc \in {"ok", "error"} : eEvent' = [eEvent EXCEPT ![e].pc = pc]
    BY <1>11 DEF Bridge!Invoke
  <2>3. pc \in Bridge!Outcome \cup {"invoke"} 
    BY <2>2 DEF Bridge!Outcome
  <2>4. UNCHANGED <<eRow, eSource, eSeen, eConsumer, eValidator, eApproved, eReviewed, eOwn>>
    BY <1>11 DEF Bridge!Invoke
  <2>5. (eEvent \in [Event -> EventState])' /\ PassedTheRoute' /\ ArmedIsApproved'
    <3> DEFINE d == Moved(e, pc)
    <3>1. d \in EventState /\ d.pc = pc
      BY <2>3, BridgeMoved
    <3>2. eEvent' = [eEvent EXCEPT ![e] = d]
      BY <2>2, <2>3, BridgeMoved
    <3> HIDE DEF d
    <3>3. d.pc \notin {"dispatch", "owner", "invoke"}
      BY <2>2, <3>1
    <3> QED
      BY <2>4, <3>1, <3>2, <3>3, BridgeDelivery
  <2>6. BridgeTypes'
    BY <2>4, <2>5 DEF BridgeInv, BridgeTypes
  <2>7. ValidatorKnowsItsRow'
    BY <2>4 DEF BridgeInv, ValidatorKnowsItsRow
  <2>8. RanWhatPassed'
    BY <1>11, <2>1, <2>4 DEF Bridge!Invoke, BridgeInv, RanWhatPassed
  <2> QED
    BY <2>5, <2>6, <2>7, <2>8 DEF BridgeInv
<1>12. ASSUME NEW e \in Event, Bridge!Dispatch(e)
       PROVE  BridgeInv'
  <2>0. UNCHANGED <<eRow, eSource, eSeen, eConsumer, eApproved, eReviewed, eOwn, eRan>>
    BY <1>12 DEF Bridge!Dispatch
  <2>1. CASE ~Bridge!Armed(eRow) \/ eEvent[e].verdict = None
    <3>1. PICK pc \in {"not_ready", "auth_failed"} :
                 eEvent' = [eEvent EXCEPT ![e].pc = pc] /\ UNCHANGED eValidator
      BY <1>12, <2>1 DEF Bridge!Dispatch
    <3>2. pc \in Bridge!Outcome \cup {"invoke"} 
      BY <3>1 DEF Bridge!Outcome
    <3> DEFINE d == Moved(e, pc)
    <3>3. d \in EventState /\ d.pc = pc
      BY <3>2, BridgeMoved
    <3>4. eEvent' = [eEvent EXCEPT ![e] = d]
      BY <3>1, <3>2, BridgeMoved
    <3> HIDE DEF d
    <3>5. d.pc \notin {"dispatch", "owner", "invoke"}
      BY <3>1, <3>3
    <3> QED
      BY <2>0, <3>1, <3>3, <3>4, <3>5, BridgeMoves
  <2>2. CASE Bridge!Armed(eRow) /\ eEvent[e].verdict # None
    <3> DEFINE pc == IF eEvent[e].knows = Bridge!Schema.version THEN "owner" ELSE "schema_invalid"
               d == [eEvent[e] EXCEPT !.pc = pc, !.target = eRow.version,
                                      !.schema = Bridge!Schema.version]
    <3>1. /\ eValidator' = Bridge!Schema
          /\ eEvent' = [eEvent EXCEPT ![e].pc = pc, ![e].target = eRow.version,
                                      ![e].schema = Bridge!Schema.version]
      BY <1>12, <2>2 DEF Bridge!Dispatch
    <3>2. eRow \in Bridge!Row
      BY <1>0, <2>2 DEF Bridge!Armed
    <3>3. /\ Bridge!Schema \in [version : Bridge!Version, stamp : 1..MaxStamp]
          /\ Bridge!Schema.version = eRow.version /\ Bridge!Schema.stamp = eRow.stamp
      <4>1. CASE Bridge!Fresh
        BY <4>1 DEF Bridge!Schema, Bridge!Fresh, BridgeInv, BridgeTypes, ValidatorKnowsItsRow
      <4>2. CASE ~Bridge!Fresh
        BY <3>2, <4>2 DEF Bridge!Schema, Bridge!Row
      <4> QED
        BY <4>1, <4>2
    <3>4. pc \in {"owner", "schema_invalid"}
      OBVIOUS
    <3> HIDE DEF pc
    <3>5. /\ d \in EventState /\ d.pc = pc /\ d.armed = eEvent[e].armed
          /\ d.target = eRow.version /\ d.schema = eRow.version
      <4>1. eEvent[e] \in EventState /\ eRow.version \in Bridge!Version
        BY <1>0, <3>2 DEF Bridge!Row
      <4>2. pc \in Bridge!Outcome \cup {"owner"}
        BY <3>4 DEF Bridge!Outcome
      <4> QED
        BY <3>3, <4>1, <4>2 DEF EventState
    <3>6. eEvent' = [eEvent EXCEPT ![e] = d]
      BY <1>0, <3>1
    <3> HIDE DEF d
    <3>7. eEvent[e].armed /\ eRow.version \in Armable
      BY <1>12, <2>2 DEF Bridge!Dispatch, BridgeInv, PassedTheRoute, ArmedIsApproved
    <3>8. (eEvent \in [Event -> EventState])' /\ PassedTheRoute' /\ ArmedIsApproved'
      BY <2>0, <3>4, <3>5, <3>6, <3>7, BridgeDelivery
    <3>9. BridgeTypes'
      BY <2>0, <3>1, <3>3, <3>8 DEF BridgeInv, BridgeTypes
    <3>10. ValidatorKnowsItsRow'
      <4>1. eRow' = eRow /\ eRow # None /\ eRow.stamp \in Nat
        BY <2>0, <3>2, BridgeRow, BridgeConstants
      <4> QED
        BY <3>1, <3>3, <4>1 DEF ValidatorKnowsItsRow
    <3>11. RanWhatPassed'
      BY <2>0 DEF BridgeInv, RanWhatPassed
    <3> QED
      BY <3>8, <3>9, <3>10, <3>11 DEF BridgeInv
  <2> QED
    BY <2>1, <2>2
<1> QED
  BY <1>1, <1>2, <1>3, <1>4, <1>5, <1>6, <1>8, <1>9, <1>10, <1>11, <1>12 DEF Bridge!Next

\* The bridge by itself keeps it for ever.
LEMMA BridgeInvariant == Bridge!EventSpec => []BridgeInv
  BY BridgeInit, BridgeStep, PTL DEF Bridge!EventSpec

\* The steps of the whole are, for the bridge, its own or none.
LEMMA AdmissionBridges == AdmissionSpec => Bridge!EventSpec
<1>1. MCInit => Bridge!Init
  BY DEF MCInit
<1>2. [MCNext]_<<part, vars, bridge, limits, keeps, imports>> => [Bridge!Next]_(Bridge!vars)
  BY DEF MCNext, bridge, Bridge!vars
<1> QED
  BY <1>1, <1>2, PTL DEF AdmissionSpec, Bridge!EventSpec

\* However submissions, reviews, restarts and deliveries interleave, an event runs a tool
\* only for a version of its route that was approved, by an administrator or by the very
\* submission that made the route (create()), and while it has seen the route armed.
THEOREM RunsOnlyArmedAlways == AdmissionSpec => []RunsOnlyArmed
<1>1. BridgeInv => RunsOnlyArmed
  BY DEF BridgeInv, RanWhatPassed, RunsOnlyArmed, Bridge!RunsOnlyArmed, Armable
<1> QED
  BY <1>1, BridgeInvariant, AdmissionBridges, PTL

\* The validator that is kept for a route never outlives the write of its row: a payload is
\* accepted by the schema of the version whose target is called (validatorFor()).
THEOREM SchemaIsOfTargetAlways == AdmissionSpec => []SchemaIsOfTarget
<1>1. BridgeInv => SchemaIsOfTarget
  BY DEF BridgeInv, RanWhatPassed, SchemaIsOfTarget, Bridge!SchemaIsOfTarget
<1> QED
  BY <1>1, BridgeInvariant, AdmissionBridges, PTL

-----------------------------------------------------------------------------
(* The limits of a session *)

\* What a bucket counts, and how many calls it lets through.
Keys(b) == IF b = "rpm" THEN Key ELSE {b}
Counts(b) == IF b = "rpm" THEN ~Limits!Unset("rpm") ELSE ~Limits!Unset("loopN")
Budget(b) == IF b = "rpm" THEN lOpts.rpm ELSE Limits!LoopBudget
ThroughOf(b, from, to) == Limits!Through(Keys(b), from, to)
Window == Limits!Window
\* No call is let through as late as that.
Later == MaxClock + Window

\* The calls let through are those of a bucket, that it has counted: as many as its budget,
\* one less after its first, and one less before it started, in the stretch that reaches it.
BucketHolds(b) ==
    LET start == lBuckets[b].start
        count == lBuckets[b].count
    IN  /\ lBuckets[b] = None \/ Budget(b) = 0 => ThroughOf(b, 0, Later) = {}
        /\ lBuckets[b] # None =>
             /\ count >= 1 /\ start <= lClock
             /\ ThroughOf(b, start + Window + 1, Later) = {}
             /\ Cardinality(ThroughOf(b, start, Later)) <= count
             /\ Cardinality(ThroughOf(b, start, Later)) <= Budget(b)
             /\ Budget(b) # 0 =>
                  /\ Cardinality(ThroughOf(b, start + 1, Later)) + 1 <= count
                  /\ Cardinality(ThroughOf(b, start + 1, Later)) + 1 <= Budget(b)
                  /\ \A t \in 0 .. start - 1 : start <= t + Window =>
                       Cardinality(ThroughOf(b, t, start - 1)) + 1 <= Budget(b)
        /\ \A t \in 0..MaxClock :
             Cardinality(ThroughOf(b, t, t + Window)) <= Limits!Stretch(Budget(b))
BucketsHold == ~lLost => \A b \in Key \cup {"rpm"} : Counts(b) => BucketHolds(b)

\* The calls that were counted for sure in a window, since some time.
Since(w, s) == {i \in Limits!InWindow(w) : lLog[i].at >= s}

\* The key of a window has counted those since it was made, of which it keeps the last for a
\* window; those before had been counted by a key that has expired since.
Lifetime(w, s) ==
    /\ Cardinality(Since(w, s)) <= lCounter[w].count
    /\ Cardinality(Since(w, s)) <= lOpts.server
    /\ \A i \in Since(w, s) : lCounter[w].last # None /\ lLog[i].at <= lCounter[w].last
    /\ \A i \in Limits!InWindow(w) \ Since(w, s) : lLog[i].at + Window <= s
WindowHolds(w) ==
    /\ \A t \in 0..MaxClock : Cardinality(Limits!InStretch(w, t)) <= lOpts.server
    /\ lCounter[w] = None => \A i \in Limits!InWindow(w) : lLog[i].at + Window <= lClock
    /\ lCounter[w] # None => /\ lCounter[w].last # None => lCounter[w].last <= lClock
                             /\ \E s \in 0..lClock : Lifetime(w, s)
WindowCounts == Limits!Unset("server") \/ \A w \in 0..MaxClock : WindowHolds(w)

\* The record has counted what was let through.
RecordCounts ==
    ~lLost => lRecord # None /\ lRecord.created = 0 /\ Len(lLog) <= lRecord.calls /\ Limits!Quota

LimitsInv == Limits!TypeOK /\ BucketsHold /\ WindowCounts /\ RecordCounts

\* What AdmissionAssumption says of the constants of the limits.
LEMMA LimitsConstants ==
    /\ MaxClock \in Nat
    /\ None \notin Limits!Bucket /\ None \notin Limits!Record
    /\ None \notin Limits!Counter /\ None \notin Nat
    /\ "rpm" \notin Key
    /\ Options \subseteq [maxCalls : Limits!Limit, maxDuration : Limits!Limit,
                          rpm : Limits!Limit, loopN : Limits!Limit, server : Limits!Limit]
  BY AdmissionAssumption DEF Limits!SessionLimitsAssumption

\* The calls let through are finitely many.
LEMMA ThroughFinite ==
    ASSUME lLog \in Seq(Limits!Passed), NEW K, NEW from, NEW to
    PROVE  /\ IsFiniteSet(Limits!Through(K, from, to))
           /\ Cardinality(Limits!Through(K, from, to)) \in Nat
<1>1. Len(lLog) \in Nat /\ DOMAIN lLog = 1..Len(lLog)
  OBVIOUS
<1>2. IsFiniteSet(DOMAIN lLog)
  BY <1>1, FS_Interval
<1>3. Limits!Through(K, from, to) \subseteq DOMAIN lLog
  BY DEF Limits!Through
<1> QED
  BY <1>2, <1>3, FS_Subset, FS_CardinalityType

\* In a wider window no fewer calls were let through.
LEMMA ThroughWider ==
    ASSUME lLog \in Seq(Limits!Passed), NEW K,
           NEW f \in Int, NEW t \in Int, NEW g \in Int, NEW u \in Int, g <= f, t <= u
    PROVE  /\ Limits!Through(K, f, t) \subseteq Limits!Through(K, g, u)
           /\ Cardinality(Limits!Through(K, f, t)) <= Cardinality(Limits!Through(K, g, u))
<1>1. Limits!Through(K, f, t) \subseteq Limits!Through(K, g, u)
  <2>1. f..t \subseteq g..u
    OBVIOUS
  <2> QED
    BY <2>1 DEF Limits!Through
<1> QED
  BY <1>1, ThroughFinite, FS_Subset

\* A window that is cut in two has no more than its parts together.
LEMMA ThroughSplit ==
    ASSUME lLog \in Seq(Limits!Passed), NEW K,
           NEW f \in Int, NEW s \in Int, NEW t \in Int, NEW u \in Int, t <= u
    PROVE  Cardinality(Limits!Through(K, f, t)) <=
             Cardinality(Limits!Through(K, f, s - 1)) + Cardinality(Limits!Through(K, s, u))
<1> DEFINE A == Limits!Through(K, f, s - 1)
           B == Limits!Through(K, s, u)
<1>1. Limits!Through(K, f, t) \subseteq A \cup B
  <2>1. \A n \in f..t : n \in f..(s - 1) \/ n \in s..u
    OBVIOUS
  <2> QED
    BY <2>1 DEF Limits!Through
<1>2. /\ IsFiniteSet(A) /\ IsFiniteSet(B) /\ Cardinality(A) \in Nat /\ Cardinality(B) \in Nat
      /\ Cardinality(Limits!Through(K, f, t)) \in Nat
  BY ThroughFinite
<1> HIDE DEF A, B
<1>3. IsFiniteSet(A \cap B) /\ Cardinality(A \cap B) \in Nat
  BY <1>2, FS_Subset, FS_CardinalityType
<1>4. IsFiniteSet(A \cup B) /\ Cardinality(A \cup B) = Cardinality(A) + Cardinality(B) - Cardinality(A \cap B)
  BY <1>2, FS_Union
<1>5. Cardinality(Limits!Through(K, f, t)) <= Cardinality(A \cup B)
  BY <1>1, <1>4, FS_Subset
<1>6. Cardinality(Limits!Through(K, f, t)) <= Cardinality(A) + Cardinality(B)
  BY <1>2, <1>3, <1>4, <1>5
<1> QED
  BY <1>6 DEF A, B

\* One more call is let through.
LEMMA ThroughAppend ==
    ASSUME lLog \in Seq(Limits!Passed), NEW e \in Limits!Passed, lLog' = Append(lLog, e),
           NEW K, NEW f \in Int, NEW t \in Int
    PROVE  /\ lLog' \in Seq(Limits!Passed)
           /\ e.key \notin K \/ ~(f <= e.at /\ e.at <= t) =>
                Limits!Through(K, f, t)' = Limits!Through(K, f, t)
           /\ Cardinality(Limits!Through(K, f, t)') \in Nat
           /\ Cardinality(Limits!Through(K, f, t)') <= Cardinality(Limits!Through(K, f, t)) + 1
<1>1. /\ lLog' \in Seq(Limits!Passed) /\ Len(lLog) \in Nat
      /\ DOMAIN lLog = 1..Len(lLog) /\ DOMAIN lLog' = 1..(Len(lLog) + 1)
      /\ lLog'[Len(lLog) + 1] = e
      /\ \A i \in 1..Len(lLog) : lLog'[i] = lLog[i]
  OBVIOUS
<1>2. DOMAIN lLog' = DOMAIN lLog \cup {Len(lLog) + 1} /\ Len(lLog) + 1 \notin DOMAIN lLog
  BY <1>1
<1>3. Limits!Through(K, f, t)' \subseteq Limits!Through(K, f, t) \cup {Len(lLog) + 1}
  BY <1>1, <1>2 DEF Limits!Through
<1>4. e.key \notin K \/ ~(f <= e.at /\ e.at <= t) =>
        Limits!Through(K, f, t)' = Limits!Through(K, f, t)
  <2>1. e.at \in f..t => f <= e.at /\ e.at <= t
    OBVIOUS
  <2> QED
    BY <1>1, <1>2, <2>1 DEF Limits!Through
<1>5. /\ IsFiniteSet(Limits!Through(K, f, t) \cup {Len(lLog) + 1})
      /\ Cardinality(Limits!Through(K, f, t) \cup {Len(lLog) + 1})
           <= Cardinality(Limits!Through(K, f, t)) + 1
  <2> DEFINE S == Limits!Through(K, f, t)
             x == Len(lLog) + 1
  <2>1. IsFiniteSet(S) /\ Cardinality(S) \in Nat
    BY ThroughFinite
  <2> HIDE DEF S, x
  <2>2. /\ IsFiniteSet(S \cup {x})
        /\ Cardinality(S \cup {x}) = IF x \in S THEN Cardinality(S) ELSE Cardinality(S) + 1
    BY <2>1, FS_AddElement
  <2>3. Cardinality(S \cup {x}) <= Cardinality(S) + 1
    BY <2>1, <2>2
  <2> QED
    BY <2>2, <2>3 DEF S, x
<1>6. Cardinality(Limits!Through(K, f, t)') <= Cardinality(Limits!Through(K, f, t) \cup {Len(lLog) + 1})
  BY <1>3, <1>5, FS_Subset
<1>7. Cardinality(Limits!Through(K, f, t)') \in Nat
  BY <1>3, <1>5, FS_Subset, FS_CardinalityType
<1>8. Cardinality(Limits!Through(K, f, t) \cup {Len(lLog) + 1}) \in Nat
  BY <1>5, FS_CardinalityType
<1>9. Cardinality(Limits!Through(K, f, t)) \in Nat
  BY ThroughFinite
<1> QED
  BY <1>1, <1>4, <1>5, <1>6, <1>7, <1>8, <1>9

\* What a bucket holds, it holds while its calls are neither counted nor let through.
LEMMA BucketRests ==
    ASSUME NEW b \in Key \cup {"rpm"}, BucketHolds(b),
           lClock \in Int, lClock' \in Int, lClock <= lClock', lBuckets'[b] = lBuckets[b],
           UNCHANGED lOpts,
           lBuckets[b] # None => lBuckets[b].start \in Int,
           MaxClock \in Nat,
           \A f, t \in Int : ThroughOf(b, f, t)' = ThroughOf(b, f, t)
    PROVE  BucketHolds(b)'
<1>1. Budget(b)' = Budget(b) /\ Window' = Window /\ Window = 2
  BY DEF Budget, Window, Limits!Window, Limits!LoopBudget
<1>2. Later \in Int /\ Later' = Later /\ ThroughOf(b, 0, Later)' = ThroughOf(b, 0, Later)
  BY <1>1 DEF Later
<1> QED
  BY <1>1, <1>2 DEF BucketHolds, Limits!Stretch

\* What a bucket holds, it holds when a call is counted, and let through within the budget.
LEMMA BucketCounts ==
    ASSUME Limits!TypeOK, NEW b \in Key \cup {"rpm"}, Counts(b), BucketHolds(b),
           lBuckets'[b] = Limits!Counted(b), UNCHANGED <<lOpts, lClock>>,
           UNCHANGED lLog \/
             \E e \in Limits!Passed : /\ e.at = lClock /\ lLog' = Append(lLog, e)
                                      /\ Limits!Counted(b).count <= Budget(b)
    PROVE  BucketHolds(b)'
<1> DEFINE T(f, t) == Cardinality(ThroughOf(b, f, t))
           B == Budget(b)
           N(f, t) == Cardinality(ThroughOf(b, f, t)')
           passed == lLog' # lLog
           start == lBuckets[b].start
           count == lBuckets[b].count
<1>0. /\ lLog \in Seq(Limits!Passed) /\ lClock \in 0..MaxClock /\ MaxClock \in Nat
      /\ lBuckets[b] \in Limits!Bucket \cup {None} /\ None \notin Limits!Bucket
  BY LimitsConstants DEF Limits!TypeOK
<1>1. B \in Nat
  <2>1. lOpts.rpm \in Nat \cup {None} /\ lOpts.loopN \in Nat \cup {None}
    BY LimitsConstants DEF Limits!TypeOK, Limits!Limit
  <2> QED
    BY <2>1 DEF Budget, Counts, Limits!Unset, Limits!LoopBudget
<1>2. /\ Budget(b)' = B /\ Window = 2 /\ Window' = 2
      /\ Later = MaxClock + 2 /\ Later' = MaxClock + 2 /\ Later \in Nat
  BY <1>0 DEF Budget, Window, Limits!Window, Limits!LoopBudget, Later
<1>3. \A f, t \in Int : T(f, t) \in Nat
  BY <1>0, ThroughFinite DEF ThroughOf
<1>4. \A f, t, g, u \in Int :
        g <= f /\ t <= u => /\ ThroughOf(b, f, t) \subseteq ThroughOf(b, g, u)
                            /\ T(f, t) <= T(g, u)
  BY <1>0, ThroughWider DEF ThroughOf
<1>5. \A f, t \in Int : ~(f <= lClock /\ lClock <= t) \/ ~passed =>
        ThroughOf(b, f, t)' = ThroughOf(b, f, t)
  <2>1. CASE UNCHANGED lLog
    BY <2>1 DEF ThroughOf, Limits!Through, Keys
  <2>2. CASE \E e \in Limits!Passed : e.at = lClock /\ lLog' = Append(lLog, e)
    <3>1. PICK e \in Limits!Passed : e.at = lClock /\ lLog' = Append(lLog, e)
      BY <2>2
    <3>2. passed
      BY <1>0, <3>1
    <3>3. Keys(b)' = Keys(b)
      BY DEF Keys
    <3> QED
      BY <1>0, <3>1, <3>2, <3>3, ThroughAppend DEF ThroughOf
  <2> QED
    BY <2>1, <2>2
<1>6. \A f, t \in Int : N(f, t) \in Nat /\ N(f, t) <= T(f, t) + 1
  <2>1. CASE ~passed
    BY <1>3, <1>5, <2>1
  <2>2. CASE passed
    <3>1. PICK e \in Limits!Passed : lLog' = Append(lLog, e)
      BY <2>2
    <3>2. Keys(b)' = Keys(b)
      BY DEF Keys
    <3> QED
      BY <1>0, <3>1, <3>2, ThroughAppend DEF ThroughOf
  <2> QED
    BY <2>1, <2>2
<1>7. passed => Limits!Counted(b).count <= B
  OBVIOUS
<1>8. /\ lBuckets[b] = None \/ B = 0 => ThroughOf(b, 0, Later) = {}
      /\ \A t \in 0..MaxClock : T(t, t + 2) <= Limits!Stretch(B)
  BY <1>2 DEF BucketHolds
<1>9. lBuckets[b] # None =>
        /\ start \in Nat /\ count \in Nat
        /\ count >= 1 /\ start <= lClock
        /\ ThroughOf(b, start + 3, Later) = {}
        /\ T(start, Later) <= count /\ T(start, Later) <= B
        /\ B # 0 =>
             /\ T(start + 1, Later) + 1 <= count /\ T(start + 1, Later) + 1 <= B
             /\ \A t \in 0 .. start - 1 : start <= t + 2 => T(t, start - 1) + 1 <= B
  <2> SUFFICES ASSUME lBuckets[b] # None
               PROVE  /\ start \in Nat /\ count \in Nat
                      /\ count >= 1 /\ start <= lClock
                      /\ ThroughOf(b, start + 3, Later) = {}
                      /\ T(start, Later) <= count /\ T(start, Later) <= B
                      /\ B # 0 =>
                           /\ T(start + 1, Later) + 1 <= count /\ T(start + 1, Later) + 1 <= B
                           /\ \A t \in 0 .. start - 1 :
                                start <= t + 2 => T(t, start - 1) + 1 <= B
    OBVIOUS
  <2>1. start \in Nat /\ count \in Nat
    BY <1>0 DEF Limits!Bucket
  <2>2. start + Window + 1 = start + 3
    BY <1>2, <2>1
  <2> QED
    BY <1>2, <2>1, <2>2 DEF BucketHolds
\* What is to be shown, in the terms above.
<1>10. ASSUME NEW s \in Nat, NEW n \in Nat, lBuckets'[b] = [count |-> n, start |-> s],
              n >= 1, s <= lClock,
              B = 0 => ThroughOf(b, 0, Later)' = {},
              ThroughOf(b, s + 3, Later)' = {},
              N(s, Later) <= n, N(s, Later) <= B,
              B # 0 => /\ N(s + 1, Later) + 1 <= n /\ N(s + 1, Later) + 1 <= B
                       /\ \A t \in 0 .. s - 1 : s <= t + 2 => N(t, s - 1) + 1 <= B,
              \A t \in 0..MaxClock : N(t, t + 2) <= Limits!Stretch(B)
       PROVE  BucketHolds(b)'
  <2>1. /\ lBuckets'[b] # None /\ lBuckets'[b].start = s /\ lBuckets'[b].count = n
        /\ s + Window' + 1 = s + 3 /\ lClock' = lClock /\ Later' = Later
    <3>1. s \in 0..MaxClock
      BY <1>0, <1>10
    <3>2. lBuckets'[b] \in Limits!Bucket
      BY <1>10, <3>1 DEF Limits!Bucket
    <3> QED
      BY <1>0, <1>2, <1>10, <3>2
  <2> QED
    BY <1>2, <1>10, <2>1 DEF BucketHolds, Limits!Stretch
<1>11. CASE lBuckets[b] = None \/ lClock - start > 2
  <2>1. lBuckets'[b] = [count |-> 1, start |-> lClock] /\ (passed => 1 <= B)
    BY <1>2, <1>7, <1>11 DEF Limits!Counted, Window
  <2>2. lClock \in Nat /\ lClock \in Int /\ 0 \in Int /\ lClock + 1 \in Int /\ lClock + 3 \in Int /\ Later \in Int
        /\ lClock <= Later
    BY <1>0, <1>2
  <2> HIDE DEF T, N, B, passed, start, count
  \* The bucket before, if there was one, has ended.
  <2>3. ThroughOf(b, lClock, Later) = {}
    <3>1. CASE lBuckets[b] = None
      BY <1>4, <1>8, <2>2, <3>1
    <3>2. CASE lBuckets[b] # None
      <4>1. start + 3 \in Int /\ start + 3 <= lClock
        BY <1>9, <1>11, <2>2, <3>2
      <4> QED
        BY <1>4, <1>9, <2>2, <3>2, <4>1
    <3> QED
      BY <3>1, <3>2
  <2>4. \A f, t \in Int : lClock <= f /\ t <= Later => ThroughOf(b, f, t) = {} /\ T(f, t) = 0
    <3>1. \A f, t \in Int : lClock <= f /\ t <= Later => ThroughOf(b, f, t) = {}
      BY <1>4, <2>2, <2>3
    <3> QED
      BY <3>1, FS_EmptySet DEF T
  <2>5. ASSUME NEW t \in 0..MaxClock, lClock <= t + 2, B # 0,
               NEW u \in Int, u <= Later
        PROVE  T(t, u) + 1 <= B
    <3>1. CASE lBuckets[b] = None
      <4>1. ThroughOf(b, t, u) = {}
        BY <1>0, <1>4, <1>8, <2>2, <2>5, <3>1
      <4>2. T(t, u) = 0
        BY <4>1, FS_EmptySet DEF T
      <4> QED
        BY <1>1, <2>5, <4>2
    <3>2. CASE lBuckets[b] # None
      <4>1. start + 1 \in Int /\ start + 1 <= t /\ t \in Int
        BY <1>0, <1>9, <1>11, <2>2, <2>5, <3>2
      <4>2. T(t, u) <= T(start + 1, Later)
        BY <1>4, <2>2, <2>5, <4>1
      <4>3. T(t, u) \in Nat /\ T(start + 1, Later) \in Nat
        BY <1>3, <2>2, <2>5, <4>1
      <4> QED
        BY <1>1, <1>9, <2>5, <3>2, <4>2, <4>3
    <3> QED
      BY <3>1, <3>2
  <2>6. B = 0 => ThroughOf(b, 0, Later)' = {}
    BY <1>1, <1>5, <1>8, <2>1, <2>2
  <2>7. ThroughOf(b, lClock + 3, Later)' = {}
    BY <1>5, <2>2, <2>4
  <2>8. N(lClock, Later) <= 1 /\ N(lClock, Later) <= B
    <3>1. T(lClock, Later) = 0
      BY <2>2, <2>4
    <3>2. CASE passed
      <4>1. N(lClock, Later) \in Nat /\ N(lClock, Later) <= T(lClock, Later) + 1
        BY <1>6, <2>2
      <4> QED
        BY <1>1, <2>1, <3>1, <3>2, <4>1
    <3>3. CASE ~passed
      <4>1. N(lClock, Later) = 0
        BY <1>5, <2>2, <3>1, <3>3 DEF N, T
      <4> QED
        BY <1>1, <4>1
    <3> QED
      BY <3>2, <3>3
  <2>9. B # 0 => /\ N(lClock + 1, Later) + 1 <= 1 /\ N(lClock + 1, Later) + 1 <= B
                 /\ \A t \in 0 .. lClock - 1 : lClock <= t + 2 => N(t, lClock - 1) + 1 <= B
    <3> SUFFICES ASSUME B # 0
                 PROVE  /\ N(lClock + 1, Later) + 1 <= 1 /\ N(lClock + 1, Later) + 1 <= B
                        /\ \A t \in 0 .. lClock - 1 : lClock <= t + 2 => N(t, lClock - 1) + 1 <= B
      OBVIOUS
    <3>1. N(lClock + 1, Later) = 0
      <4>1. ThroughOf(b, lClock + 1, Later)' = ThroughOf(b, lClock + 1, Later)
        BY <1>5, <2>2
      <4>2. T(lClock + 1, Later) = 0
        BY <2>2, <2>4
      <4> QED
        BY <4>1, <4>2 DEF N, T
    <3>2. ASSUME NEW t \in 0 .. lClock - 1, lClock <= t + 2
          PROVE  N(t, lClock - 1) + 1 <= B
      <4>1. t \in 0..MaxClock /\ t \in Int /\ lClock - 1 \in Int /\ lClock - 1 <= Later
            /\ ~(lClock <= lClock - 1)
        BY <1>0, <1>2, <2>2
      <4>2. ThroughOf(b, t, lClock - 1)' = ThroughOf(b, t, lClock - 1)
        BY <1>5, <4>1
      <4>3. T(t, lClock - 1) + 1 <= B
        BY <2>5, <3>2, <4>1
      <4> QED
        BY <4>2, <4>3 DEF N, T
    <3> QED
      BY <1>1, <3>1, <3>2
  <2>10. ASSUME NEW t \in 0..MaxClock
         PROVE  N(t, t + 2) <= Limits!Stretch(B)
    <3>0. t \in Int /\ t + 2 \in Int /\ t + 2 <= Later
      BY <1>0, <1>2
    <3>1. CASE ~(t <= lClock /\ lClock <= t + 2) \/ ~passed
      <4>1. ThroughOf(b, t, t + 2)' = ThroughOf(b, t, t + 2)
        BY <1>5, <3>0, <3>1
      <4> QED
        BY <1>8, <4>1 DEF N, T
    <3>2. CASE lClock <= t + 2 /\ passed
      <4>1. B # 0 /\ T(t, t + 2) + 1 <= B
        BY <1>1, <2>1, <2>5, <3>0, <3>2
      <4>2. N(t, t + 2) \in Nat /\ N(t, t + 2) <= T(t, t + 2) + 1
        BY <1>6, <3>0
      <4>3. T(t, t + 2) \in Nat
        BY <1>3, <3>0
      <4> QED
        BY <1>1, <4>1, <4>2, <4>3 DEF Limits!Stretch
    <3> QED
      BY <3>1, <3>2
  <2> QED
    BY <1>10, <2>1, <2>2, <2>6, <2>7, <2>8, <2>9, <2>10
<1>12. CASE ~(lBuckets[b] = None \/ lClock - start > 2)
  <2>0. lBuckets[b] # None /\ lBuckets[b] \in Limits!Bucket
    BY <1>0, <1>12
  <2>1. lBuckets'[b] = [count |-> count + 1, start |-> start] /\ (passed => count + 1 <= B)
    <3>1. Limits!Counted(b) = [lBuckets[b] EXCEPT !.count = @ + 1]
      BY <1>2, <1>12 DEF Limits!Counted, Window
    <3>2. Limits!Counted(b) = [count |-> count + 1, start |-> start]
      BY <2>0, <3>1 DEF Limits!Bucket
    <3> QED
      BY <1>7, <3>2
  <2>2. PICK s \in Nat, n \in Nat :
               /\ s = start /\ n = count
               /\ lBuckets'[b] = [count |-> n + 1, start |-> s] /\ (passed => n + 1 <= B)
    BY <1>9, <2>0, <2>1
  \* The constants s and n are for the bucket before the step.
  <2>3. /\ n >= 1 /\ s <= lClock /\ lClock < s + 3
        /\ ThroughOf(b, s + 3, Later) = {}
        /\ T(s, Later) <= n /\ T(s, Later) <= B
        /\ B # 0 =>
             /\ T(s + 1, Later) + 1 <= n /\ T(s + 1, Later) + 1 <= B
             /\ \A t \in 0 .. s - 1 : s <= t + 2 => T(t, s - 1) + 1 <= B
    BY <1>0, <1>9, <1>12, <2>0, <2>2
  <2> HIDE DEF T, N, B, passed, start, count
  <2>4. /\ lClock \in Nat /\ lClock \in Int /\ Later \in Int /\ lClock <= Later
        /\ s \in Nat /\ s \in Int /\ s + 1 \in Int /\ s + 3 \in Int /\ s - 1 \in Int
        /\ s <= lClock /\ lClock < s + 3
        /\ n \in Nat /\ n >= 1
    BY <1>0, <1>2, <2>2, <2>3
  <2>5. B = 0 => ThroughOf(b, 0, Later)' = {}
    BY <1>1, <1>5, <1>8, <2>2, <2>4
  <2>6. ThroughOf(b, s + 3, Later)' = {}
    <3>1. s + 3 \in Int /\ Later \in Int /\ ~(s + 3 <= lClock)
      BY <2>4
    <3>2. ThroughOf(b, s + 3, Later)' = ThroughOf(b, s + 3, Later)
      BY <1>5, <3>1
    <3> QED
      BY <2>3, <3>2
  <2>7. /\ N(s, Later) \in Nat /\ T(s, Later) \in Nat
        /\ N(s + 1, Later) \in Nat /\ T(s + 1, Later) \in Nat
        /\ N(s, Later) <= T(s, Later) + 1
        /\ N(s + 1, Later) <= T(s + 1, Later) + 1
        /\ ~passed => N(s, Later) = T(s, Later) /\ N(s + 1, Later) = T(s + 1, Later)
    <3>1. ~passed => /\ ThroughOf(b, s, Later)' = ThroughOf(b, s, Later)
                     /\ ThroughOf(b, s + 1, Later)' = ThroughOf(b, s + 1, Later)
      <4>1. s \in Int /\ s + 1 \in Int /\ Later \in Int
        BY <2>4
      <4> QED
        BY <1>5, <4>1
    <3>2. ~passed => N(s, Later) = T(s, Later) /\ N(s + 1, Later) = T(s + 1, Later)
      BY <3>1 DEF N, T
    <3> QED
      BY <1>3, <1>6, <2>4, <3>2
  <2>8. N(s, Later) <= n + 1 /\ N(s, Later) <= B
    BY <1>1, <2>3, <2>2, <2>4, <2>7
  <2>9. B # 0 => /\ N(s + 1, Later) + 1 <= n + 1 /\ N(s + 1, Later) + 1 <= B
                 /\ \A t \in 0 .. s - 1 : s <= t + 2 => N(t, s - 1) + 1 <= B
    <3> SUFFICES ASSUME B # 0
                 PROVE  /\ N(s + 1, Later) + 1 <= n + 1 /\ N(s + 1, Later) + 1 <= B
                        /\ \A t \in 0 .. s - 1 : s <= t + 2 => N(t, s - 1) + 1 <= B
      OBVIOUS
    <3>1. N(s + 1, Later) + 1 <= n + 1 /\ N(s + 1, Later) + 1 <= B
      BY <1>1, <2>3, <2>2, <2>4, <2>7
    <3>2. ASSUME NEW t \in 0 .. s - 1, s <= t + 2
          PROVE  N(t, s - 1) + 1 <= B
      <4>1. t \in Int /\ s - 1 \in Int /\ ~(lClock <= s - 1)
        BY <2>4
      <4>2. ThroughOf(b, t, s - 1)' = ThroughOf(b, t, s - 1)
        BY <1>5, <4>1
      <4>3. T(t, s - 1) + 1 <= B
        BY <2>3, <3>2
      <4> QED
        BY <4>2, <4>3 DEF N, T
    <3> QED
      BY <3>1, <3>2
  <2>10. ASSUME NEW t \in 0..MaxClock
        PROVE  N(t, t + 2) <= Limits!Stretch(B)
    <3>0. t \in Int /\ t + 2 \in Int /\ t + 2 <= Later
      BY <1>0, <1>2
    <3>1. CASE ~(t <= lClock /\ lClock <= t + 2) \/ ~passed
      <4>1. ThroughOf(b, t, t + 2)' = ThroughOf(b, t, t + 2)
        BY <1>5, <3>0, <3>1
      <4> QED
        BY <1>8, <4>1 DEF N, T
    <3>2. CASE t <= lClock /\ lClock <= t + 2 /\ passed
      <4>0. /\ N(t, t + 2) \in Nat /\ T(t, t + 2) \in Nat /\ N(t, t + 2) <= T(t, t + 2) + 1
            /\ T(s, Later) + 1 <= B /\ B # 0
        <5>1. N(t, t + 2) \in Nat /\ T(t, t + 2) \in Nat /\ N(t, t + 2) <= T(t, t + 2) + 1
          BY <1>3, <1>6, <3>0
        <5>2. T(s, Later) <= n /\ n + 1 <= B
          BY <2>3, <2>2, <3>2
        <5> QED
          BY <1>1, <2>4, <2>7, <5>1, <5>2
      <4>1. CASE s <= t
        <5>1. T(t, t + 2) <= T(s, Later)
          BY <1>4, <2>4, <3>0, <4>1
        <5> QED
          BY <1>1, <2>7, <4>0, <5>1 DEF Limits!Stretch
      <4>2. CASE t < s
        <5>1. t \in 0 .. s - 1 /\ s <= t + 2
          BY <2>4, <3>0, <3>2, <4>2
        <5>2. T(t, s - 1) \in Nat /\ T(t, s - 1) + 1 <= B
          BY <1>3, <2>3, <2>4, <3>0, <4>0, <5>1
        <5>3. T(t, t + 2) <= T(t, s - 1) + T(s, Later)
          BY <1>0, <2>4, <3>0, ThroughSplit DEF T, ThroughOf
        <5>4. /\ N(t, t + 2) \in Nat /\ T(t, t + 2) \in Nat /\ T(s, Later) \in Nat /\ B \in Nat
              /\ N(t, t + 2) <= T(t, t + 2) + 1 /\ T(s, Later) + 1 <= B /\ B # 0
          BY <1>1, <2>7, <4>0
        <5>5. N(t, t + 2) <= 2 * B - 1
          BY <5>2, <5>3, <5>4
        <5> QED
          BY <4>0, <5>5 DEF Limits!Stretch
      <4> QED
        BY <2>4, <3>0, <4>1, <4>2
    <3> QED
      BY <3>1, <3>2
  <2> QED
    <3>1. n + 1 \in Nat /\ n + 1 >= 1
      BY <2>4
    <3> QED
      BY <1>10, <2>2, <2>4, <2>5, <2>6, <2>8, <2>9, <2>10, <3>1
<1> QED
  BY <1>11, <1>12
\* A bucket that counts a call is a bucket.
LEMMA CountedTyped ==
    ASSUME Limits!TypeOK, NEW b \in Key \cup {"rpm"}
    PROVE  Limits!Counted(b) \in Limits!Bucket /\ Limits!Counted(b).count \in Nat
<1>1. lBuckets[b] \in Limits!Bucket \cup {None} /\ lClock \in 0..MaxClock
  BY DEF Limits!TypeOK
<1>2. CASE lBuckets[b] = None \/ lClock - lBuckets[b].start > Limits!Window
  <2>1. Limits!Counted(b) = [count |-> 1, start |-> lClock]
    BY <1>2 DEF Limits!Counted
  <2> QED
    BY <1>1, <2>1 DEF Limits!Bucket
<1>3. CASE ~(lBuckets[b] = None \/ lClock - lBuckets[b].start > Limits!Window)
  <2>1. Limits!Counted(b) = [lBuckets[b] EXCEPT !.count = @ + 1] /\ lBuckets[b] \in Limits!Bucket
    BY <1>1, <1>3 DEF Limits!Counted
  <2> QED
    BY <2>1 DEF Limits!Bucket
<1> QED
  BY <1>2, <1>3

\* What preCall() does to the types.
LEMMA PreCallTyped ==
    ASSUME Limits!TypeOK, NEW k \in Key, NEW w \in 0..MaxClock \cup {None}, lRecord # None,
           Limits!PreCall(k, w)
    PROVE  /\ lRecord' \in Limits!Record /\ lRecord' # None
           /\ lRecord'.created = lRecord.created /\ lRecord'.calls = lRecord.calls + 1
           /\ lRecord.calls \in Nat
           /\ lBuckets' \in [Key \cup {"rpm"} -> Limits!Bucket \cup {None}]
           /\ lLog' \in Seq(Limits!Passed)
<1>1. lRecord \in Limits!Record /\ lClock \in 0..MaxClock /\ lLog \in Seq(Limits!Passed)
  BY DEF Limits!TypeOK
<1>2. lRecord' = [lRecord EXCEPT !.seen = lClock, !.calls = @ + 1]
  BY DEF Limits!PreCall
<1>3. /\ lRecord' \in Limits!Record
      /\ lRecord'.created = lRecord.created /\ lRecord'.calls = lRecord.calls + 1
      /\ lRecord.calls \in Nat
  <2>1. lRecord.created \in 0..MaxClock /\ lRecord.calls \in Nat /\ lRecord.calls + 1 \in Nat
    BY <1>1 DEF Limits!Record
  <2>2. lRecord' = [created |-> lRecord.created, seen |-> lClock, calls |-> lRecord.calls + 1]
    BY <1>1, <1>2 DEF Limits!Record
  <2> QED
    BY <1>1, <2>1, <2>2 DEF Limits!Record
<1>4. lBuckets' \in [Key \cup {"rpm"} -> Limits!Bucket \cup {None}]
  <2>1. lBuckets \in [Key \cup {"rpm"} -> Limits!Bucket \cup {None}]
    BY DEF Limits!TypeOK
  <2> QED
    BY <2>1, CountedTyped DEF Limits!PreCall
<1>5. lLog' \in Seq(Limits!Passed)
  <2>1. [at |-> lClock, key |-> k, window |-> w] \in Limits!Passed
    BY <1>1 DEF Limits!Passed
  <2> QED
    BY <1>1, <2>1 DEF Limits!PreCall
<1> QED
  BY <1>3, <1>4, <1>5, LimitsConstants

\* What the two commands of the limiter leave and answer.
LEMMA IncrementedKey ==
    ASSUME Limits!TypeOK, NEW w \in 0..MaxClock, NEW got \in Limits!Incremented(w)
    PROVE  LET n == IF lCounter[w] = None THEN 1 ELSE lCounter[w].count + 1
               last == IF lCounter[w] = None THEN None ELSE lCounter[w].last
           IN  /\ n \in Nat /\ n # 0
               /\ lCounter[w] # None => lCounter[w].count \in Nat
               /\ last \in 0..MaxClock \cup {None}
               /\ got.key \in Limits!Counter \cup {None} /\ got.n \in Nat
               /\ \/ /\ got.key.count = n /\ got.key.last \in {lClock, last}
                     /\ got.key \in Limits!Counter /\ got.n \in {n, 0}
                  \/ got.key = lCounter[w] /\ got.n = 0
<1> DEFINE n == IF lCounter[w] = None THEN 1 ELSE lCounter[w].count + 1
           last == IF lCounter[w] = None THEN None ELSE lCounter[w].last
<1>1. lCounter[w] \in Limits!Counter \cup {None} /\ lClock \in 0..MaxClock
  BY DEF Limits!TypeOK
<1>2. /\ n \in Nat /\ n # 0 /\ last \in 0..MaxClock \cup {None}
      /\ lCounter[w] # None => lCounter[w].count \in Nat
  BY <1>1 DEF Limits!Counter
<1>3. \/ \E t \in {lClock, last}, m \in {n, 0} : got = [key |-> [count |-> n, last |-> t], n |-> m]
      \/ got = [key |-> lCounter[w], n |-> 0]
  BY DEF Limits!Incremented
<1> HIDE DEF n, last
<1>4. CASE \E t \in {lClock, last}, m \in {n, 0} : got = [key |-> [count |-> n, last |-> t], n |-> m]
  <2>1. PICK t \in {lClock, last}, m \in {n, 0} : got = [key |-> [count |-> n, last |-> t], n |-> m]
    BY <1>4
  <2>2. /\ got.key = [count |-> n, last |-> t] /\ got.n = m
        /\ got.key.count = n /\ got.key.last = t
    BY <2>1
  <2>3. [count |-> n, last |-> t] \in Limits!Counter
    BY <1>1, <1>2, <2>1 DEF Limits!Counter
  <2> QED
    BY <1>2, <2>1, <2>2, <2>3 DEF n, last
<1>5. CASE got = [key |-> lCounter[w], n |-> 0]
  BY <1>1, <1>2, <1>5 DEF n, last
<1> QED
  BY <1>3, <1>4, <1>5

\* The limiter's answer to a call, with the window that it was counted in.
LEMMA CheckedCall ==
    ASSUME Limits!TypeOK, NEW c \in Call, Limits!Check(c)
    PROVE  /\ lOpts.server \in Nat
           /\ \E k \in Key, w \in 0..MaxClock : \E got \in Limits!Incremented(w) :
                /\ lCounter' = [lCounter EXCEPT ![w] = got.key]
                /\ Limits!CountedIn(w, got) \in 0..MaxClock \cup {None}
                /\ IF got.n > lOpts.server THEN UNCHANGED <<lRecord, lBuckets, lLog>>
                   ELSE IF lRecord = None THEN Limits!Unlimited(k, Limits!CountedIn(w, got))
                   ELSE Limits!PreCall(k, Limits!CountedIn(w, got))
<1>1. lCall[c] \in Limits!Waiting
  BY DEF Limits!Check, Limits!TypeOK
<1> DEFINE k == lCall[c].key
           w == lCall[c].window
<1>2. k \in Key /\ w \in 0..MaxClock
  BY <1>1 DEF Limits!Waiting, Limits!Check
<1>3. lOpts.server \in Nat
  <2>1. lOpts.server \in Nat \cup {None}
    BY LimitsConstants DEF Limits!TypeOK, Limits!Limit
  <2> QED
    BY <2>1 DEF Limits!TypeOK, Limits!Check
<1>4. PICK got \in Limits!Incremented(w) :
         /\ lCounter' = [lCounter EXCEPT ![w] = got.key]
         /\ IF got.n > lOpts.server THEN UNCHANGED <<lRecord, lBuckets, lLog>>
            ELSE IF lRecord = None THEN Limits!Unlimited(k, Limits!CountedIn(w, got))
            ELSE Limits!PreCall(k, Limits!CountedIn(w, got))
  BY DEF Limits!Check
<1>5. Limits!CountedIn(w, got) \in 0..MaxClock \cup {None}
  BY <1>2 DEF Limits!CountedIn
<1> QED
  BY <1>2, <1>3, <1>4, <1>5

\* What lets a call through without a record keeps the types.
LEMMA UnlimitedTyped ==
    ASSUME Limits!TypeOK, NEW k \in Key, NEW w \in 0..MaxClock \cup {None}, Limits!Unlimited(k, w)
    PROVE  lLog' \in Seq(Limits!Passed) /\ UNCHANGED <<lRecord, lBuckets>>
<1>1. [at |-> lClock, key |-> k, window |-> w] \in Limits!Passed
  BY DEF Limits!Passed, Limits!TypeOK
<1>2. lLog' \in Seq(Limits!Passed)
  BY <1>1 DEF Limits!Unlimited, Limits!TypeOK
<1> QED
  BY <1>2 DEF Limits!Unlimited

\* Every step of the limits keeps the types.
LEMMA LimitsTyped ==
    ASSUME Limits!TypeOK, [Limits!Next]_(Limits!vars)
    PROVE  Limits!TypeOK'
<1> USE DEF Limits!TypeOK
<1>0. MaxClock \in Nat /\ MaxCount \in Nat
  BY AdmissionAssumption DEF Limits!SessionLimitsAssumption
<1>1. CASE UNCHANGED Limits!vars
  BY <1>1 DEF Limits!vars, Limits!NoBuckets
<1>2. CASE Limits!Tick
  BY <1>0, <1>2 DEF Limits!Tick, Limits!limiter, Limits!NoBuckets
<1>3. CASE Limits!Reap \/ Limits!Removed
  BY <1>3 DEF Limits!Reap, Limits!Removed, Limits!Forget, Limits!NoBuckets
<1>4. CASE Limits!Restart
  BY <1>4 DEF Limits!Restart, Limits!Forget, Limits!NoBuckets
<1>5. ASSUME NEW w \in 0..MaxClock, Limits!CounterExpires(w)
      PROVE  Limits!TypeOK'
  BY <1>5 DEF Limits!CounterExpires, Limits!NoBuckets
<1>6. ASSUME NEW c \in Call, NEW k \in Key, Limits!Request(c, k)
      PROVE  Limits!TypeOK'
  <2>1. /\ lCall' \in [Call -> Limits!Waiting \cup {None}]
        /\ \A d \in Call : lCall'[d] # None /\ lOpts.server = None => lCall'[d].window = None
    BY <1>6 DEF Limits!Request, Limits!Waiting
  <2>2. lAsked' \in 0..MaxCount
    BY <1>0, <1>6 DEF Limits!Request
  <2> QED
    BY <1>6, <2>1, <2>2 DEF Limits!Request, Limits!limiter, Limits!NoBuckets
<1>7. ASSUME NEW c \in Call, Limits!Name(c)
      PROVE  Limits!TypeOK'
  <2>1. lClock \div Limits!Window \in 0..MaxClock
    BY <1>0 DEF Limits!Window
  <2>2. lCall[c] \in Limits!Waiting
    BY <1>7 DEF Limits!Name
  <2>3. [lCall[c] EXCEPT !.window = lClock \div Limits!Window] \in Limits!Waiting
    BY <2>1, <2>2 DEF Limits!Waiting
  <2>4. /\ lCall' \in [Call -> Limits!Waiting \cup {None}] /\ lOpts.server # None
        /\ UNCHANGED <<lOpts, lClock, lRecord, lBuckets, lCounter, lLog, lLost, lAsked>>
    BY <1>7, <2>3 DEF Limits!Name, Limits!limiter
  <2> QED
    BY <2>4 DEF Limits!NoBuckets
<1>8. ASSUME NEW c \in Call, Limits!CheckUnlimited(c)
      PROVE  Limits!TypeOK'
  <2>1. /\ UNCHANGED <<lOpts, lClock, lCounter, lLost, lAsked>>
        /\ lCall' = [lCall EXCEPT ![c] = None]
    BY <1>8 DEF Limits!CheckUnlimited
  <2>2. lCall[c].key \in Key
    BY <1>8 DEF Limits!CheckUnlimited, Limits!Waiting
  <2>3. CASE lRecord = None /\ Limits!Unlimited(lCall[c].key, None)
    BY <2>1, <2>2, <2>3, UnlimitedTyped DEF Limits!NoBuckets
  <2>4. CASE lRecord # None /\ Limits!PreCall(lCall[c].key, None)
    BY <2>1, <2>2, <2>4, PreCallTyped
  <2> QED
    BY <1>8, <2>3, <2>4 DEF Limits!CheckUnlimited
<1>9. ASSUME NEW c \in Call, Limits!Check(c)
      PROVE  Limits!TypeOK'
  <2>1. UNCHANGED <<lOpts, lClock, lLost, lAsked>> /\ lCall' = [lCall EXCEPT ![c] = None]
    BY <1>9 DEF Limits!Check
  <2>2. PICK k \in Key, w \in 0..MaxClock : \E got \in Limits!Incremented(w) :
              /\ lCounter' = [lCounter EXCEPT ![w] = got.key]
              /\ Limits!CountedIn(w, got) \in 0..MaxClock \cup {None}
              /\ IF got.n > lOpts.server THEN UNCHANGED <<lRecord, lBuckets, lLog>>
                 ELSE IF lRecord = None THEN Limits!Unlimited(k, Limits!CountedIn(w, got))
                 ELSE Limits!PreCall(k, Limits!CountedIn(w, got))
    BY <1>9, CheckedCall
  <2>3. PICK got \in Limits!Incremented(w) :
              /\ lCounter' = [lCounter EXCEPT ![w] = got.key]
              /\ Limits!CountedIn(w, got) \in 0..MaxClock \cup {None}
              /\ IF got.n > lOpts.server THEN UNCHANGED <<lRecord, lBuckets, lLog>>
                 ELSE IF lRecord = None THEN Limits!Unlimited(k, Limits!CountedIn(w, got))
                 ELSE Limits!PreCall(k, Limits!CountedIn(w, got))
    BY <2>2
  <2>4. lCounter' \in [0..MaxClock -> Limits!Counter \cup {None}]
    <3>1. got.key \in Limits!Counter \cup {None}
      BY IncrementedKey
    <3> QED
      BY <2>3, <3>1
  <2>5. CASE UNCHANGED <<lRecord, lBuckets, lLog>>
    BY <2>1, <2>4, <2>5 DEF Limits!NoBuckets
  <2>6. CASE lRecord = None /\ Limits!Unlimited(k, Limits!CountedIn(w, got))
    BY <2>1, <2>3, <2>4, <2>6, UnlimitedTyped DEF Limits!NoBuckets
  <2>7. CASE lRecord # None /\ Limits!PreCall(k, Limits!CountedIn(w, got))
    BY <2>1, <2>3, <2>4, <2>7, PreCallTyped
  <2> QED
    BY <2>3, <2>5, <2>6, <2>7
<1> QED
  BY <1>1, <1>2, <1>3, <1>4, <1>5, <1>6, <1>7, <1>8, <1>9 DEF Limits!Next
\* Neither the clock nor what leaves the buckets and the log alone disturbs a bucket.
LEMMA BucketsRest ==
    ASSUME Limits!TypeOK, BucketsHold, UNCHANGED <<lOpts, lBuckets, lLog, lLost>>,
           lClock' \in Int, lClock <= lClock'
    PROVE  BucketsHold'
<1> SUFFICES ASSUME ~lLost', NEW b \in Key \cup {"rpm"}, Counts(b)'
             PROVE  BucketHolds(b)'
  BY DEF BucketsHold
<1>1. BucketHolds(b)
  BY DEF BucketsHold, Counts, Limits!Unset
<1>2. lClock \in Int /\ MaxClock \in Nat /\ (lBuckets[b] # None => lBuckets[b].start \in Int)
  BY LimitsConstants DEF Limits!TypeOK, Limits!Bucket
<1>3. \A f, t \in Int : ThroughOf(b, f, t)' = ThroughOf(b, f, t)
  BY DEF ThroughOf, Limits!Through, Keys
<1> QED
  BY <1>1, <1>2, <1>3, BucketRests

\* preCall() lets a call through when both of its buckets have room for it.
LEMMA PreCallBuckets ==
    ASSUME Limits!TypeOK, BucketsHold, UNCHANGED <<lOpts, lClock, lLost>>,
           NEW k \in Key, NEW w \in 0..MaxClock \cup {None}, Limits!PreCall(k, w)
    PROVE  BucketsHold'
<1> SUFFICES ASSUME ~lLost', NEW b \in Key \cup {"rpm"}, Counts(b)'
             PROVE  BucketHolds(b)'
  BY DEF BucketsHold
<1> DEFINE e == [at |-> lClock, key |-> k, window |-> w]
           let == Limits!WithinQuota /\ Limits!WithinDuration
                    /\ Limits!WithinMinute /\ Limits!NoLoop(k)
<1>1. BucketHolds(b) /\ Counts(b)
  BY DEF BucketsHold, Counts, Limits!Unset
<1>2. /\ lClock \in Int /\ lClock \in 0..MaxClock /\ MaxClock \in Nat
      /\ (lBuckets[b] # None => lBuckets[b].start \in Int)
      /\ lLog \in Seq(Limits!Passed) /\ "rpm" \notin Key
      /\ lBuckets \in [Key \cup {"rpm"} -> Limits!Bucket \cup {None}]
  BY LimitsConstants DEF Limits!TypeOK, Limits!Bucket
<1>3. e \in Limits!Passed /\ e.at = lClock /\ e.key = k
  BY <1>2 DEF Limits!Passed
<1>4. IF let THEN lLog' = Append(lLog, e) ELSE lLog' = lLog
  BY DEF Limits!PreCall
<1> HIDE DEF e
<1>5. CASE b = "rpm"
  <2>1. CASE Limits!WithinQuota /\ Limits!WithinDuration
    <3>1. lBuckets'["rpm"] = Limits!Counted("rpm")
      BY <1>1, <1>2, <1>5, <2>1 DEF Limits!PreCall, Counts
    <3>2. let => Limits!Counted("rpm").count <= Budget("rpm")
      BY <1>1, <1>5 DEF Limits!WithinMinute, Counts, Budget
    <3> QED
      BY <1>1, <1>3, <1>4, <1>5, <3>1, <3>2, BucketCounts
  <2>2. CASE ~(Limits!WithinQuota /\ Limits!WithinDuration)
    <3>1. lBuckets'[b] = lBuckets[b]
      BY <1>2, <1>5, <2>2 DEF Limits!PreCall
    <3>2. \A f, t \in Int : ThroughOf(b, f, t)' = ThroughOf(b, f, t)
      BY <1>4, <2>2 DEF ThroughOf, Limits!Through, Keys
    <3> QED
      BY <1>1, <1>2, <3>1, <3>2, BucketRests
  <2> QED
    BY <2>1, <2>2
<1>6. CASE b = k
  <2>0. b # "rpm" /\ ~Limits!Unset("loopN")
    BY <1>1, <1>2, <1>6 DEF Counts
  <2>1. CASE Limits!WithinQuota /\ Limits!WithinDuration /\ Limits!WithinMinute
    <3>1. lBuckets'[b] = Limits!Counted(b)
      BY <1>2, <1>6, <2>0, <2>1 DEF Limits!PreCall
    <3>2. let => Limits!Counted(b).count <= Budget(b)
      <4> SUFFICES ASSUME let
                   PROVE  Limits!Counted(b).count <= Budget(b)
        OBVIOUS
      <4>1. Limits!Counted(b).count \in Nat
        BY CountedTyped
      <4>2. lOpts.loopN \in Nat
        BY <2>0, LimitsConstants DEF Limits!TypeOK, Limits!Limit, Limits!Unset
      <4>3. Limits!Counted(b).count < lOpts.loopN
        BY <1>6, <2>0 DEF Limits!NoLoop
      <4> QED
        BY <2>0, <4>1, <4>2, <4>3 DEF Budget, Limits!LoopBudget
    <3> QED
      BY <1>1, <1>3, <1>4, <3>1, <3>2, BucketCounts
  <2>2. CASE ~(Limits!WithinQuota /\ Limits!WithinDuration /\ Limits!WithinMinute)
    <3>1. lBuckets'[b] = lBuckets[b]
      BY <1>2, <1>6, <2>0, <2>2 DEF Limits!PreCall
    <3>2. \A f, t \in Int : ThroughOf(b, f, t)' = ThroughOf(b, f, t)
      BY <1>4, <2>2 DEF ThroughOf, Limits!Through, Keys
    <3> QED
      BY <1>1, <1>2, <3>1, <3>2, BucketRests
  <2> QED
    BY <2>1, <2>2
<1>7. CASE b # k /\ b # "rpm"
  <2>1. lBuckets'[b] = lBuckets[b]
    BY <1>2, <1>7 DEF Limits!PreCall
  <2>2. Keys(b) = {b} /\ Keys(b)' = {b}
    BY <1>7 DEF Keys
  <2>3. \A f, t \in Int : ThroughOf(b, f, t)' = ThroughOf(b, f, t)
    <3>1. CASE let
      BY <1>2, <1>3, <1>4, <1>7, <2>2, <3>1, ThroughAppend DEF ThroughOf
    <3>2. CASE ~let
      BY <1>4, <2>2, <3>2 DEF ThroughOf, Limits!Through
    <3> QED
      BY <3>1, <3>2
  <2> QED
    BY <1>1, <1>2, <2>1, <2>3, BucketRests
<1> QED
  BY <1>5, <1>6, <1>7

\* Calls that were let through are finitely many.
LEMMA CallsFinite ==
    ASSUME lLog \in Seq(Limits!Passed), NEW S, S \subseteq DOMAIN lLog
    PROVE  IsFiniteSet(S) /\ Cardinality(S) \in Nat
<1>1. Len(lLog) \in Nat /\ DOMAIN lLog = 1..Len(lLog)
  OBVIOUS
<1>2. IsFiniteSet(DOMAIN lLog)
  BY <1>1, FS_Interval
<1> QED
  BY <1>2, FS_Subset, FS_CardinalityType

\* Each of a window was let through at a tick.
LEMMA InWindowAt ==
    ASSUME lLog \in Seq(Limits!Passed), NEW w
    PROVE  /\ Limits!InWindow(w) \subseteq DOMAIN lLog
           /\ \A i \in Limits!InWindow(w) : lLog[i].at \in Nat
<1>1. \A i \in DOMAIN lLog : lLog[i] \in Limits!Passed
  OBVIOUS
<1>2. MaxClock \in Nat
  BY LimitsConstants
<1> QED
  BY <1>1, <1>2 DEF Limits!InWindow, Limits!Passed

\* What is known of a window, whether its key is there or not.
LEMMA WindowSince ==
    ASSUME Limits!TypeOK, NEW w \in 0..MaxClock, WindowHolds(w), lOpts.server \in Nat
    PROVE  \E s \in 0..lClock :
             /\ Cardinality(Since(w, s)) <= IF lCounter[w] = None THEN 0 ELSE lCounter[w].count
             /\ Cardinality(Since(w, s)) <= lOpts.server
             /\ \A i \in Since(w, s) :
                  /\ lCounter[w] # None /\ lCounter[w].last # None
                  /\ lLog[i].at <= lCounter[w].last /\ lCounter[w].last <= lClock
             /\ \A i \in Limits!InWindow(w) \ Since(w, s) : lLog[i].at + 2 <= s
<1>0. lClock \in Nat /\ lClock \in 0..lClock /\ Window = 2 /\ lLog \in Seq(Limits!Passed)
  BY LimitsConstants DEF Limits!TypeOK, Window, Limits!Window
<1>1. CASE lCounter[w] = None
  <2>1. \A i \in Limits!InWindow(w) : lLog[i].at \in Nat /\ lLog[i].at + 2 <= lClock
    BY <1>0, <1>1, InWindowAt DEF WindowHolds
  <2>2. Since(w, lClock) = {}
    BY <1>0, <2>1 DEF Since
  <2>3. Cardinality(Since(w, lClock)) = 0
    BY <2>2, FS_EmptySet
  <2> HIDE DEF Since
  <2>4. lClock \in 0..lClock /\ 0 <= 0 /\ 0 <= lOpts.server
    BY <1>0
  <2>5. \A i \in Limits!InWindow(w) \ Since(w, lClock) : lLog[i].at + 2 <= lClock
    BY <2>1
  <2> QED
    BY <1>1, <2>2, <2>3, <2>4, <2>5
<1>2. CASE lCounter[w] # None
  BY <1>0, <1>2 DEF WindowHolds, Lifetime
<1> QED
  BY <1>1, <1>2

\* A window in which no call is counted for sure keeps what it holds, whatever a failing Redis
\* leaves of its key.
LEMMA WindowUnsure ==
    ASSUME Limits!TypeOK, NEW w \in 0..MaxClock, WindowHolds(w), lOpts.server \in Nat,
           UNCHANGED <<lOpts, lClock>>, NEW got \in Limits!Incremented(w),
           lCounter'[w] = got.key,
           Limits!InWindow(w)' = Limits!InWindow(w),
           \A i \in Limits!InWindow(w) : lLog'[i] = lLog[i]
    PROVE  WindowHolds(w)'
<1>0. lClock \in Nat /\ Window = 2 /\ Window' = 2 /\ lLog \in Seq(Limits!Passed)
  BY LimitsConstants DEF Limits!TypeOK, Window, Limits!Window
<1>1. /\ \A t : Limits!InStretch(w, t)' = Limits!InStretch(w, t)
      /\ \A t : Since(w, t)' = Since(w, t)
  BY DEF Limits!InStretch, Since, Limits!Window
<1>2. \A t \in 0..MaxClock : Cardinality(Limits!InStretch(w, t)') <= lOpts'.server
  BY <1>1 DEF WindowHolds
<1>3. CASE got.key = lCounter[w]
  <2>1. lCounter'[w] = lCounter[w]
    BY <1>3
  <2>2. \A s : Since(w, s) \subseteq Limits!InWindow(w)
    BY DEF Since
  <2>3. \A s : Lifetime(w, s) => Lifetime(w, s)'
    BY <1>0, <1>1, <2>1, <2>2 DEF Lifetime
  <2> QED
    BY <1>0, <1>2, <2>1, <2>3 DEF WindowHolds
<1>4. CASE got.key # lCounter[w]
  <2>1. PICK s \in 0..lClock :
             /\ Cardinality(Since(w, s)) <= IF lCounter[w] = None THEN 0 ELSE lCounter[w].count
             /\ Cardinality(Since(w, s)) <= lOpts.server
             /\ \A i \in Since(w, s) :
                  /\ lCounter[w] # None /\ lCounter[w].last # None
                  /\ lLog[i].at <= lCounter[w].last /\ lCounter[w].last <= lClock
             /\ \A i \in Limits!InWindow(w) \ Since(w, s) : lLog[i].at + 2 <= s
    BY WindowSince
  <2>2. /\ got.key # None /\ got.key.count \in Nat
        /\ got.key.count = IF lCounter[w] = None THEN 1 ELSE lCounter[w].count + 1
        /\ lCounter[w] # None => lCounter[w].count \in Nat
        /\ got.key.last \in {lClock, IF lCounter[w] = None THEN None ELSE lCounter[w].last}
        /\ got.key.last \in 0..MaxClock \cup {None}
    BY <1>4, IncrementedKey, LimitsConstants DEF Limits!Counter
  <2>3. Cardinality(Since(w, s)) \in Nat
    BY <1>0, CallsFinite DEF Since, Limits!InWindow
  <2>4. Cardinality(Since(w, s)) <= got.key.count
    BY <2>1, <2>2, <2>3
  <2>5. \A i \in Since(w, s) : lLog[i].at \in Nat
    BY <1>0, InWindowAt DEF Since
  <2>6. lClock \in 0..MaxClock /\ None \notin Nat
    BY LimitsConstants DEF Limits!TypeOK
  <2>7. \A i \in Since(w, s) : got.key.last # None /\ lLog[i].at <= got.key.last
    <3> SUFFICES ASSUME NEW i \in Since(w, s)
                 PROVE  got.key.last # None /\ lLog[i].at <= got.key.last
      OBVIOUS
    <3>1. /\ lCounter[w] # None /\ lCounter[w].last # None
          /\ lLog[i].at <= lCounter[w].last /\ lCounter[w].last <= lClock
      BY <2>1
    <3>2. lCounter[w].last \in 0..MaxClock
      BY <3>1, LimitsConstants DEF Limits!TypeOK, Limits!Counter
    <3>3. CASE got.key.last = lClock
      <4>1. lLog[i].at <= lClock
        BY <1>0, <2>5, <2>6, <3>1, <3>2
      <4> QED
        BY <2>6, <3>3, <4>1
    <3>4. CASE got.key.last = lCounter[w].last
      BY <3>1, <3>4
    <3> QED
      BY <2>2, <3>1, <3>3, <3>4
  <2>8. got.key.last # None => got.key.last <= lClock
    <3>1. CASE got.key.last = lClock
      BY <1>0, <3>1
    <3>2. CASE lCounter[w] # None /\ got.key.last = lCounter[w].last
      BY <3>2 DEF WindowHolds
    <3> QED
      BY <2>2, <3>1, <3>2
  <2>9. \A i \in Since(w, s) : lLog'[i].at = lLog[i].at
    BY DEF Since
  <2>10. Lifetime(w, s)'
    BY <1>0, <1>1, <2>1, <2>4, <2>7, <2>9 DEF Lifetime
  <2> QED
    BY <1>2, <2>1, <2>2, <2>8, <2>10 DEF WindowHolds
<1> QED
  BY <1>3, <1>4

\* One more call of a window is let through, that was counted for sure: a stretch that sees it
\* sees of the calls before it only those that the key has counted.
LEMMA WindowSure ==
    ASSUME Limits!TypeOK, NEW w \in 0..MaxClock, WindowHolds(w), lOpts.server \in Nat,
           UNCHANGED <<lOpts, lClock>>, NEW got \in Limits!Incremented(w),
           lCounter'[w] = got.key, Limits!CountedIn(w, got) = w, got.n <= lOpts.server,
           NEW e \in Limits!Passed, e.at = lClock, e.window = w, lLog' = Append(lLog, e)
    PROVE  WindowHolds(w)'
<1> DEFINE x == Len(lLog) + 1
<1>0. /\ lClock \in Nat /\ lClock \in 0..MaxClock /\ Window = 2 /\ Window' = 2
      /\ Limits!Window = 2 /\ lLog \in Seq(Limits!Passed) /\ MaxClock \in Nat /\ None \notin Nat
  BY LimitsConstants DEF Limits!TypeOK, Window, Limits!Window
<1>1. /\ DOMAIN lLog' = DOMAIN lLog \cup {x} /\ x \notin DOMAIN lLog /\ lLog'[x] = e
      /\ \A i \in DOMAIN lLog : lLog'[i] = lLog[i]
  BY <1>0
<1>2. Limits!InWindow(w)' = Limits!InWindow(w) \cup {x} /\ x \notin Limits!InWindow(w)
  BY <1>1 DEF Limits!InWindow
<1>3. PICK s \in 0..lClock :
           /\ Cardinality(Since(w, s)) <= IF lCounter[w] = None THEN 0 ELSE lCounter[w].count
           /\ Cardinality(Since(w, s)) <= lOpts.server
           /\ \A i \in Since(w, s) :
                /\ lCounter[w] # None /\ lCounter[w].last # None
                /\ lLog[i].at <= lCounter[w].last /\ lCounter[w].last <= lClock
           /\ \A i \in Limits!InWindow(w) \ Since(w, s) : lLog[i].at + 2 <= s
  BY WindowSince
<1>4. /\ got.key # None /\ got.key.last = lClock
      /\ got.key.count = IF lCounter[w] = None THEN 1 ELSE lCounter[w].count + 1
      /\ lCounter[w] # None => lCounter[w].count \in Nat
      /\ got.n = got.key.count
  <2>1. got.n # 0 /\ got.key.last = lClock
    BY <1>0 DEF Limits!CountedIn
  <2> QED
    BY <2>1, IncrementedKey, LimitsConstants DEF Limits!Counter
<1> HIDE DEF x
<1>5. Since(w, s)' = Since(w, s) \cup {x}
  BY <1>0, <1>1, <1>2, <1>3 DEF Since, Limits!InWindow
<1>6. Since(w, s) \subseteq DOMAIN lLog /\ Cardinality(Since(w, s)) \in Nat
      /\ IsFiniteSet(Since(w, s))
  BY <1>0, CallsFinite DEF Since, Limits!InWindow
<1>7. x \notin Since(w, s)
  BY <1>1, <1>6
<1>8. /\ Cardinality(Since(w, s)') = Cardinality(Since(w, s)) + 1 /\ IsFiniteSet(Since(w, s)')
  BY <1>5, <1>6, <1>7, FS_AddElement
<1>9. Cardinality(Since(w, s)') <= got.key.count /\ Cardinality(Since(w, s)') <= lOpts.server
  BY <1>3, <1>4, <1>6, <1>8
<1>10. \A i \in Limits!InWindow(w) : lLog[i].at \in Nat /\ lLog'[i].at = lLog[i].at
  BY <1>0, <1>1, InWindowAt
<1>11. \A i \in Since(w, s)' : lLog'[i].at <= lClock
  <2> SUFFICES ASSUME NEW i \in Since(w, s)'
               PROVE  lLog'[i].at <= lClock
    OBVIOUS
  <2>1. CASE i = x
    BY <1>0, <1>1, <2>1
  <2>2. CASE i \in Since(w, s)
    <3>1. lLog'[i].at = lLog[i].at /\ lLog[i].at \in Nat
      BY <1>10, <2>2 DEF Since
    <3>2. /\ lCounter[w] # None /\ lCounter[w].last # None
          /\ lLog[i].at <= lCounter[w].last /\ lCounter[w].last <= lClock
      BY <1>3, <2>2
    <3>3. lCounter[w].last \in 0..MaxClock
      BY <3>2, LimitsConstants DEF Limits!TypeOK, Limits!Counter
    <3> QED
      BY <1>0, <3>1, <3>2, <3>3
  <2> QED
    BY <1>5, <2>1, <2>2
<1>12. Lifetime(w, s)'
  <2>1. \A i \in Since(w, s)' : lCounter'[w].last # None /\ lLog'[i].at <= lCounter'[w].last
    BY <1>0, <1>4, <1>11
  <2>2. \A i \in Limits!InWindow(w)' \ Since(w, s)' : lLog'[i].at + Window' <= s
    BY <1>0, <1>2, <1>3, <1>5, <1>10
  <2> QED
    BY <1>4, <1>9, <2>1, <2>2 DEF Lifetime
<1>13. ASSUME NEW t \in 0..MaxClock
       PROVE  Cardinality(Limits!InStretch(w, t)') <= lOpts.server
  <2>0. /\ t \in Nat
        /\ Limits!InStretch(w, t)' = {i \in Limits!InWindow(w)' : lLog'[i].at \in t .. t + 1}
        /\ Limits!InStretch(w, t) = {i \in Limits!InWindow(w) : lLog[i].at \in t .. t + 1}
    <3>1. t + Limits!Window - 1 = t + 1 /\ t + Limits!Window' - 1 = t + 1
      BY <1>0 DEF Limits!Window
    <3> QED
      BY <1>0, <3>1 DEF Limits!InStretch
  <2>1. CASE lClock \notin t .. t + 1
    <3>1. Limits!InStretch(w, t)' = Limits!InStretch(w, t)
      BY <1>1, <1>2, <1>10, <2>0, <2>1
    <3> QED
      BY <3>1 DEF WindowHolds
  <2>2. CASE lClock \in t .. t + 1
    <3>1. Limits!InStretch(w, t)' \subseteq Since(w, s)'
      <4> SUFFICES ASSUME NEW i \in Limits!InWindow(w), lLog[i].at \in t .. t + 1
                   PROVE  i \in Since(w, s)
        BY <1>2, <1>5, <1>10, <2>0
      <4>1. lLog[i].at \in Nat /\ ~(lLog[i].at + 2 <= s)
        BY <1>0, <1>10, <2>0, <2>2
      <4> QED
        BY <1>3, <4>1
    <3>2. Cardinality(Limits!InStretch(w, t)') <= Cardinality(Since(w, s)')
      BY <1>8, <3>1, FS_Subset
    <3>3. Cardinality(Limits!InStretch(w, t)') \in Nat /\ Cardinality(Since(w, s)') \in Nat
      BY <1>8, <3>1, FS_Subset, FS_CardinalityType
    <3> QED
      BY <1>9, <3>2, <3>3
  <2> QED
    BY <2>1, <2>2
<1> QED
  BY <1>0, <1>4, <1>12, <1>13 DEF WindowHolds

\* The limiter counts a call in its window before the call is let through.
LEMMA CheckCounts ==
    ASSUME Limits!TypeOK, WindowCounts, NEW c \in Call, Limits!Check(c)
    PROVE  WindowCounts'
<1>1. lOpts.server \in Nat /\ UNCHANGED <<lOpts, lClock>> /\ ~Limits!Unset("server")
  <2>1. None \notin Nat /\ lOpts.server \in Nat /\ UNCHANGED <<lOpts, lClock>>
    BY CheckedCall, LimitsConstants DEF Limits!Check
  <2> QED
    BY <2>1 DEF Limits!Unset
<1>2. PICK k \in Key, v \in 0..MaxClock : \E got \in Limits!Incremented(v) :
            /\ lCounter' = [lCounter EXCEPT ![v] = got.key]
            /\ Limits!CountedIn(v, got) \in 0..MaxClock \cup {None}
            /\ IF got.n > lOpts.server THEN UNCHANGED <<lRecord, lBuckets, lLog>>
               ELSE IF lRecord = None THEN Limits!Unlimited(k, Limits!CountedIn(v, got))
               ELSE Limits!PreCall(k, Limits!CountedIn(v, got))
  BY CheckedCall
<1>3. PICK got \in Limits!Incremented(v) :
            /\ lCounter' = [lCounter EXCEPT ![v] = got.key]
            /\ Limits!CountedIn(v, got) \in 0..MaxClock \cup {None}
            /\ IF got.n > lOpts.server THEN UNCHANGED <<lRecord, lBuckets, lLog>>
               ELSE IF lRecord = None THEN Limits!Unlimited(k, Limits!CountedIn(v, got))
               ELSE Limits!PreCall(k, Limits!CountedIn(v, got))
  BY <1>2
<1> DEFINE z == Limits!CountedIn(v, got)
           e == [at |-> lClock, key |-> k, window |-> z]
<1>4. /\ lLog \in Seq(Limits!Passed) /\ lCounter \in [0..MaxClock -> Limits!Counter \cup {None}]
      /\ e \in Limits!Passed /\ e.at = lClock /\ e.window = z
      /\ z \in {v, None} /\ None \notin Nat /\ got.n \in Nat
  BY <1>3, IncrementedKey, LimitsConstants DEF Limits!TypeOK, Limits!Passed, Limits!CountedIn
<1>5. lLog' = lLog \/ (lLog' = Append(lLog, e) /\ got.n <= lOpts.server)
  BY <1>1, <1>3, <1>4 DEF Limits!Unlimited, Limits!PreCall
<1> HIDE DEF e
<1> SUFFICES ASSUME NEW w \in 0..MaxClock
             PROVE  WindowHolds(w)'
  BY DEF WindowCounts
<1>6. WindowHolds(w)
  BY <1>1 DEF WindowCounts
<1>7. w \in Nat /\ w # None
  BY <1>4, LimitsConstants
\* A call that is not counted for sure in this window.
<1>8. lLog' = lLog \/ e.window # w =>
        /\ Limits!InWindow(w)' = Limits!InWindow(w)
        /\ \A i \in Limits!InWindow(w) : lLog'[i] = lLog[i]
  <2>1. CASE lLog' = lLog
    BY <2>1 DEF Limits!InWindow
  <2>2. CASE lLog' = Append(lLog, e) /\ e.window # w
    <3>1. /\ DOMAIN lLog' = DOMAIN lLog \cup {Len(lLog) + 1} /\ lLog'[Len(lLog) + 1] = e
          /\ \A i \in DOMAIN lLog : lLog'[i] = lLog[i]
      BY <1>4, <2>2
    <3> QED
      BY <2>2, <3>1 DEF Limits!InWindow
  <2> QED
    BY <1>5, <2>1, <2>2
<1>9. CASE w # v
  <2>1. lCounter'[w] = lCounter[w]
    BY <1>3, <1>4, <1>9
  <2>2. e.window # w
    BY <1>4, <1>7, <1>9
  <2>3. /\ Limits!InWindow(w)' = Limits!InWindow(w)
        /\ \A i \in Limits!InWindow(w) : lLog'[i] = lLog[i]
    BY <1>8, <2>2
  <2>4. /\ \A t : Limits!InStretch(w, t)' = Limits!InStretch(w, t)
        /\ \A t : Since(w, t)' = Since(w, t)
    BY <2>3 DEF Limits!InStretch, Since, Limits!Window
  <2>5. Window' = Window
    BY DEF Window, Limits!Window
  <2> QED
    BY <1>1, <1>6, <2>1, <2>3, <2>4, <2>5 DEF WindowHolds, Lifetime, Since
<1>10. CASE w = v /\ (lLog' = lLog \/ e.window # w)
  <2>1. lCounter'[w] = got.key
    BY <1>3, <1>4, <1>10
  <2> QED
    BY <1>1, <1>6, <1>8, <1>10, <2>1, WindowUnsure
<1>11. CASE w = v /\ lLog' = Append(lLog, e) /\ e.window = w /\ got.n <= lOpts.server
  <2>1. lCounter'[w] = got.key
    BY <1>3, <1>4, <1>11
  <2> QED
    BY <1>1, <1>4, <1>6, <1>11, <2>1, WindowSure
<1> QED
  BY <1>5, <1>9, <1>10, <1>11

\* When the key of a window expires, what it has counted is a window ago.
LEMMA ExpiryCounts ==
    ASSUME Limits!TypeOK, WindowCounts, NEW v \in 0..MaxClock, Limits!CounterExpires(v)
    PROVE  WindowCounts'
<1>1. CASE Limits!Unset("server")
  BY <1>1 DEF WindowCounts, Limits!Unset, Limits!CounterExpires
<1>2. CASE ~Limits!Unset("server")
  <2> SUFFICES ASSUME NEW w \in 0..MaxClock
               PROVE  WindowHolds(w)'
    BY DEF WindowCounts
  <2>1. WindowHolds(w)
    BY <1>2 DEF WindowCounts
  <2>2. /\ UNCHANGED <<lOpts, lClock, lLog>> /\ lCounter' = [lCounter EXCEPT ![v] = None]
        /\ lCounter \in [0..MaxClock -> Limits!Counter \cup {None}]
        /\ lLog \in Seq(Limits!Passed) /\ lClock \in Nat
    BY LimitsConstants DEF Limits!CounterExpires, Limits!TypeOK
  <2>3. /\ Limits!InWindow(w)' = Limits!InWindow(w)
        /\ \A t : Limits!InStretch(w, t)' = Limits!InStretch(w, t)
        /\ \A t : Since(w, t)' = Since(w, t)
        /\ Window' = Window /\ Window = 2
    BY <2>2 DEF Limits!InStretch, Limits!InWindow, Since, Window, Limits!Window
  <2>4. CASE w # v
    <3>1. lCounter'[w] = lCounter[w]
      BY <2>2, <2>4
    <3> QED
      BY <2>1, <2>2, <2>3, <3>1 DEF WindowHolds, Lifetime
  <2>5. CASE w = v
    <3>1. /\ lCounter'[w] = None /\ lCounter[w] # None /\ lCounter[w].last # None
          /\ lCounter[w].last \in 0..MaxClock /\ lCounter[w].last + 2 <= lClock
      <4>1. lCounter[w] # None /\ lCounter[w].last # None /\ lClock - lCounter[w].last >= 2
        BY <2>3, <2>5 DEF Limits!CounterExpires, Window
      <4>2. lCounter[w].last \in 0..MaxClock /\ MaxClock \in Nat
        BY <2>2, <4>1, LimitsConstants DEF Limits!Counter
      <4> QED
        BY <2>2, <2>5, <4>1, <4>2
    <3>2. PICK s \in 0..lClock : Lifetime(w, s)
      BY <2>1, <3>1 DEF WindowHolds
    <3>3. \A i \in Limits!InWindow(w) : lLog[i].at + 2 <= lClock
      <4> SUFFICES ASSUME NEW i \in Limits!InWindow(w)
                   PROVE  lLog[i].at + 2 <= lClock
        OBVIOUS
      <4>1. lLog[i].at \in Nat
        BY <2>2, InWindowAt
      <4>2. CASE i \in Since(w, s)
        <5>1. lLog[i].at <= lCounter[w].last
          BY <3>2, <4>2 DEF Lifetime
        <5> QED
          BY <2>2, <3>1, <4>1, <5>1
      <4>3. CASE i \notin Since(w, s)
        <5>1. lLog[i].at + 2 <= s
          BY <2>3, <3>2, <4>3 DEF Lifetime
        <5> QED
          BY <2>2, <4>1, <5>1
      <4> QED
        BY <4>2, <4>3
    <3> QED
      BY <2>1, <2>2, <2>3, <3>1, <3>3 DEF WindowHolds
  <2> QED
    BY <2>4, <2>5
<1> QED
  BY <1>1, <1>2

\* Time does not disturb what a window holds.
LEMMA WindowsRest ==
    ASSUME Limits!TypeOK, WindowCounts, UNCHANGED <<lOpts, lCounter, lLog>>,
           lClock' \in Nat, lClock <= lClock'
    PROVE  WindowCounts'
<1>1. CASE Limits!Unset("server")
  BY <1>1 DEF WindowCounts, Limits!Unset
<1>2. CASE ~Limits!Unset("server")
  <2> SUFFICES ASSUME NEW w \in 0..MaxClock
               PROVE  WindowHolds(w)'
    BY DEF WindowCounts
  <2>1. WindowHolds(w)
    BY <1>2 DEF WindowCounts
  <2>2. /\ Limits!InWindow(w)' = Limits!InWindow(w)
        /\ \A t : Limits!InStretch(w, t)' = Limits!InStretch(w, t)
        /\ \A t : Since(w, t)' = Since(w, t)
        /\ Window' = Window /\ Window = 2
    BY DEF Limits!InStretch, Limits!InWindow, Since, Window, Limits!Window
  <2>3. /\ lClock \in Nat /\ MaxClock \in Nat /\ 0..lClock \subseteq 0..lClock'
        /\ \A i \in Limits!InWindow(w) : lLog[i].at \in Nat
        /\ lCounter[w] = None \/ lCounter[w] \in Limits!Counter
    BY LimitsConstants, InWindowAt DEF Limits!TypeOK
  <2>4. lCounter[w] # None /\ lCounter[w].last # None => lCounter[w].last <= lClock'
    <3> SUFFICES ASSUME lCounter[w] # None, lCounter[w].last # None
                 PROVE  lCounter[w].last <= lClock'
      OBVIOUS
    <3>1. lCounter[w].last \in Nat /\ lCounter[w].last <= lClock
      BY <2>1, <2>3 DEF WindowHolds, Limits!Counter
    <3> QED
      BY <2>3, <3>1
  <2>5. lCounter[w] = None => \A i \in Limits!InWindow(w) : lLog[i].at + 2 <= lClock'
    <3> SUFFICES ASSUME lCounter[w] = None, NEW i \in Limits!InWindow(w)
                 PROVE  lLog[i].at + 2 <= lClock'
      OBVIOUS
    <3>1. lLog[i].at \in Nat /\ lLog[i].at + 2 <= lClock
      BY <2>1, <2>2, <2>3 DEF WindowHolds
    <3> QED
      BY <2>3, <3>1
  <2>6. \A t \in 0..lClock : Lifetime(w, t) => Lifetime(w, t)'
    BY <2>2 DEF Lifetime
  <2> QED
    BY <2>1, <2>2, <2>3, <2>4, <2>5, <2>6 DEF WindowHolds
<1> QED
  BY <1>1, <1>2

\* The record counts a call before preCall() lets it through, and none after a limit.
LEMMA PreCallRecords ==
    ASSUME Limits!TypeOK, RecordCounts, UNCHANGED <<lOpts, lClock, lLost>>, ~lLost,
           NEW k \in Key, NEW w \in 0..MaxClock \cup {None}, Limits!PreCall(k, w)
    PROVE  RecordCounts'
<1> DEFINE e == [at |-> lClock, key |-> k, window |-> w]
           let == Limits!WithinQuota /\ Limits!WithinDuration
                    /\ Limits!WithinMinute /\ Limits!NoLoop(k)
<1>1. /\ lRecord # None /\ lRecord.created = 0 /\ Len(lLog) <= lRecord.calls /\ Limits!Quota
  BY DEF RecordCounts
<1>2. /\ lRecord' # None /\ lRecord'.created = 0
      /\ lRecord.calls \in Nat /\ lRecord'.calls = lRecord.calls + 1
  BY <1>1, PreCallTyped
<1>3. /\ lLog \in Seq(Limits!Passed) /\ lClock \in Nat /\ Len(lLog) \in Nat
      /\ lOpts.maxCalls \in Nat \cup {None} /\ lOpts.maxDuration \in Nat \cup {None}
  BY LimitsConstants DEF Limits!TypeOK, Limits!Limit
<1>4. IF let THEN lLog' = Append(lLog, e) ELSE lLog' = lLog
  BY DEF Limits!PreCall
<1>5. CASE let
  <2>1. e \in Limits!Passed /\ e.at = lClock
    BY DEF Limits!TypeOK, Limits!Passed
  <2> HIDE DEF e
  <2>2. /\ Len(lLog') = Len(lLog) + 1 /\ DOMAIN lLog' = 1..(Len(lLog) + 1)
        /\ lLog'[Len(lLog) + 1] = e /\ DOMAIN lLog = 1..Len(lLog)
        /\ \A i \in 1..Len(lLog) : lLog'[i] = lLog[i]
    BY <1>3, <1>4, <1>5, <2>1
  <2>3. Len(lLog') <= lRecord'.calls
    BY <1>1, <1>2, <1>3, <2>2
  <2>4. lOpts.maxCalls = None \/ Len(lLog') <= lOpts.maxCalls
    <3>1. lOpts.maxCalls = None \/ lRecord.calls + 1 <= lOpts.maxCalls
      BY <1>5 DEF Limits!WithinQuota, Limits!Unset
    <3> QED
      BY <1>1, <1>2, <1>3, <2>2, <3>1
  <2>5. lOpts.maxDuration = None \/ \A i \in DOMAIN lLog' : lLog'[i].at <= lOpts.maxDuration
    <3>1. lOpts.maxDuration = None \/ lClock <= lOpts.maxDuration
      BY <1>1, <1>3, <1>5 DEF Limits!WithinDuration, Limits!Unset
    <3>2. lOpts.maxDuration = None \/ \A i \in DOMAIN lLog : lLog[i].at <= lOpts.maxDuration
      BY <1>1 DEF Limits!Quota, Limits!Unset
    <3>3. \A i \in DOMAIN lLog' : i \in DOMAIN lLog \/ i = Len(lLog) + 1
      BY <1>3, <2>2
    <3> QED
      BY <2>1, <2>2, <3>1, <3>2, <3>3
  <2> QED
    BY <1>2, <2>3, <2>4, <2>5 DEF RecordCounts, Limits!Quota, Limits!Unset
<1>6. CASE ~let
  <2>1. Len(lLog') <= lRecord'.calls
    BY <1>1, <1>2, <1>3, <1>4, <1>6
  <2> QED
    BY <1>1, <1>2, <1>4, <1>6, <2>1 DEF RecordCounts, Limits!Quota, Limits!Unset
<1> QED
  BY <1>5, <1>6

\* It holds before the first call.
LEMMA LimitsInit == Limits!Init => LimitsInv
<1> SUFFICES ASSUME Limits!Init
             PROVE  LimitsInv
  OBVIOUS
<1> USE DEF Limits!Init
<1>0. MaxClock \in Nat /\ MaxCount \in Nat
  BY AdmissionAssumption DEF Limits!SessionLimitsAssumption
<1>1. Limits!TypeOK
  <2>1. lRecord \in Limits!Record /\ lRecord # None
    BY <1>0, LimitsConstants DEF Limits!Record
  <2>2. lLog \in Seq(Limits!Passed)
    OBVIOUS
  <2> QED
    <3>1. /\ lCall \in [Call -> Limits!Waiting \cup {None}] /\ \A c \in Call : lCall[c] = None
          /\ lCounter \in [0..MaxClock -> Limits!Counter \cup {None}]
      OBVIOUS
    <3>2. lBuckets \in [Key \cup {"rpm"} -> Limits!Bucket \cup {None}]
      BY DEF Limits!NoBuckets
    <3>3. lOpts \in Options /\ lClock \in 0..MaxClock /\ lAsked \in 0..MaxCount
      BY <1>0
    <3>4. lLost \in BOOLEAN
      OBVIOUS
    <3> QED
      BY <2>1, <2>2, <3>1, <3>2, <3>3, <3>4 DEF Limits!TypeOK
<1>2. /\ \A K, f, t : Limits!Through(K, f, t) = {}
      /\ \A w : Limits!InWindow(w) = {}
  BY DEF Limits!Through, Limits!InWindow
<1>3. Cardinality({}) = 0
  BY FS_EmptySet
<1>4. BucketsHold
  <2> SUFFICES ASSUME NEW b \in Key \cup {"rpm"}, Counts(b)
               PROVE  BucketHolds(b)
    BY DEF BucketsHold
  <2>1. lBuckets[b] = None
    BY DEF Limits!NoBuckets
  <2>2. Budget(b) \in Nat
    <3>1. lOpts.rpm \in Nat \cup {None} /\ lOpts.loopN \in Nat \cup {None}
      BY LimitsConstants DEF Limits!Limit
    <3> QED
      BY <3>1 DEF Budget, Counts, Limits!Unset, Limits!LoopBudget
  <2>3. 0 <= Limits!Stretch(Budget(b))
    BY <2>2 DEF Limits!Stretch
  <2> QED
    BY <1>2, <1>3, <2>1, <2>3 DEF BucketHolds, ThroughOf
<1>5. WindowCounts
  <2>1. lOpts.server = None \/ 0 <= lOpts.server
    BY LimitsConstants DEF Limits!Limit
  <2>2. \A w \in 0..MaxClock : /\ lCounter[w] = None /\ Limits!InWindow(w) = {}
                               /\ \A t : Cardinality(Limits!InStretch(w, t)) = 0
    BY <1>2, <1>3 DEF Limits!InStretch
  <2> QED
    BY <2>1, <2>2 DEF WindowCounts, WindowHolds, Limits!Unset
<1>6. RecordCounts
  <2>1. lRecord # None
    BY <1>1, LimitsConstants, <1>0 DEF Limits!Record
  <2>2. lOpts.maxCalls \in Nat \cup {None}
    BY LimitsConstants DEF Limits!Limit
  <2> QED
    BY <2>1, <2>2 DEF RecordCounts, Limits!Quota, Limits!Unset
<1> QED
  BY <1>1, <1>4, <1>5, <1>6 DEF LimitsInv

\* Every call, check and end of a session keeps it.
LEMMA LimitsStep ==
    ASSUME LimitsInv, [Limits!Next]_(Limits!vars)
    PROVE  LimitsInv'
<1> USE DEF LimitsInv
<1>1. Limits!TypeOK'
  BY LimitsTyped
<1>2. ASSUME UNCHANGED <<lOpts, lBuckets, lLog, lLost, lCounter, lRecord>>,
             lClock' \in Nat, lClock <= lClock'
      PROVE  LimitsInv'
  <2>1. BucketsHold'
    BY <1>2, BucketsRest
  <2>2. WindowCounts'
    BY <1>2, WindowsRest
  <2>3. RecordCounts'
    BY <1>2 DEF RecordCounts, Limits!Quota, Limits!Unset
  <2> QED
    BY <1>1, <2>1, <2>2, <2>3
<1>3. lClock \in Nat
  BY LimitsConstants DEF Limits!TypeOK
<1>4. CASE \/ UNCHANGED Limits!vars
           \/ \E c \in Call : Limits!Name(c) \/ \E k \in Key : Limits!Request(c, k)
  <2>1. UNCHANGED <<lOpts, lBuckets, lLog, lLost, lCounter, lRecord, lClock>>
    BY <1>4 DEF Limits!vars, Limits!Name, Limits!Request, Limits!limiter
  <2> QED
    BY <1>2, <1>3, <2>1
<1>5. CASE Limits!Tick
  <2>1. /\ UNCHANGED <<lOpts, lBuckets, lLog, lLost, lCounter, lRecord>>
        /\ lClock' \in Nat /\ lClock <= lClock'
    BY <1>3, <1>5 DEF Limits!Tick, Limits!limiter
  <2> QED
    BY <1>2, <2>1
\* Without the record nothing is said of the session, but of the limiter's windows.
<1>6. CASE Limits!Reap \/ Limits!Restart \/ Limits!Removed
  <2>1. UNCHANGED <<lOpts, lLog, lCounter, lClock>> /\ lLost'
    BY <1>6 DEF Limits!Reap, Limits!Restart, Limits!Removed, Limits!Forget
  <2>2. WindowCounts'
    BY <1>3, <2>1, WindowsRest
  <2> QED
    BY <1>1, <2>1, <2>2 DEF BucketsHold, RecordCounts
<1>7. CASE \E w \in 0..MaxClock : Limits!CounterExpires(w)
  <2>1. UNCHANGED <<lOpts, lBuckets, lLog, lLost, lRecord, lClock>>
    BY <1>7 DEF Limits!CounterExpires
  <2>2. BucketsHold'
    BY <1>3, <2>1, BucketsRest
  <2>3. RecordCounts'
    BY <2>1 DEF RecordCounts, Limits!Quota, Limits!Unset
  <2> QED
    BY <1>1, <1>7, <2>2, <2>3, ExpiryCounts
\* A call that is checked, with a limit of the server or without.
<1>8. ASSUME WindowCounts', UNCHANGED <<lOpts, lClock, lLost>>,
             lLost \/ UNCHANGED <<lRecord, lBuckets, lLog>> \/
               \E k \in Key, w \in 0..MaxClock \cup {None} : Limits!PreCall(k, w)
      PROVE  LimitsInv'
  <2>1. CASE lLost
    BY <1>1, <1>8, <2>1 DEF BucketsHold, RecordCounts
  <2>2. CASE UNCHANGED <<lRecord, lBuckets, lLog>>
    <3>1. BucketsHold'
      BY <1>3, <1>8, <2>2, BucketsRest
    <3>2. RecordCounts'
      BY <1>8, <2>2 DEF RecordCounts, Limits!Quota, Limits!Unset
    <3> QED
      BY <1>1, <1>8, <3>1, <3>2
  <2>3. CASE ~lLost /\ \E k \in Key, w \in 0..MaxClock \cup {None} : Limits!PreCall(k, w)
    BY <1>1, <1>8, <2>3, PreCallBuckets, PreCallRecords
  <2> QED
    BY <1>8, <2>1, <2>2, <2>3
<1>9. ASSUME NEW c \in Call, Limits!Check(c)
      PROVE  LimitsInv'
  <2>1. WindowCounts'
    BY <1>9, CheckCounts
  <2>2. UNCHANGED <<lOpts, lClock, lLost>>
    BY <1>9 DEF Limits!Check
  <2>3. lLost \/ lRecord # None
    BY DEF RecordCounts
  <2>4. \/ lLost \/ UNCHANGED <<lRecord, lBuckets, lLog>>
        \/ \E k \in Key, w \in 0..MaxClock \cup {None} : Limits!PreCall(k, w)
    BY <1>9, <2>3, CheckedCall
  <2> QED
    BY <1>8, <2>1, <2>2, <2>4
<1>10. ASSUME NEW c \in Call, Limits!CheckUnlimited(c)
       PROVE  LimitsInv'
  <2>1. UNCHANGED <<lOpts, lClock, lLost>> /\ Limits!Unset("server")
    BY <1>10 DEF Limits!CheckUnlimited
  <2>2. WindowCounts'
    BY <2>1 DEF WindowCounts, Limits!Unset
  <2>3. lLost \/ lRecord # None
    BY DEF RecordCounts
  <2>4. lCall[c].key \in Key
    BY <1>10 DEF Limits!CheckUnlimited, Limits!TypeOK, Limits!Waiting
  <2>5. \/ lLost \/ UNCHANGED <<lRecord, lBuckets, lLog>>
        \/ \E k \in Key, w \in 0..MaxClock \cup {None} : Limits!PreCall(k, w)
    BY <1>10, <2>3, <2>4 DEF Limits!CheckUnlimited
  <2> QED
    BY <1>8, <2>1, <2>2, <2>5
<1> QED
  BY <1>4, <1>5, <1>6, <1>7, <1>9, <1>10 DEF Limits!Next

\* The limits by themselves keep it for ever.
LEMMA LimitsInvariant == Limits!LimitsSpec => []LimitsInv
  BY LimitsInit, LimitsStep, PTL DEF Limits!LimitsSpec

\* The steps of the whole are, for the limits, their own or none.
LEMMA AdmissionLimits == AdmissionSpec => Limits!LimitsSpec
<1>1. MCInit => Limits!Init
  BY DEF MCInit
<1>2. [MCNext]_<<part, vars, bridge, limits, keeps, imports>> => [Limits!Next]_(Limits!vars)
  BY DEF MCNext, limits, Limits!vars
<1> QED
  BY <1>1, <1>2, PTL DEF AdmissionSpec, Limits!LimitsSpec

\* SessionLimits counts with the operator that the facts on finite sets are about.
LEMMA SameCardinality == ASSUME NEW S PROVE Limits!Cardinality(S) = Cardinality(S)
  BY DEF Limits!Cardinality, Cardinality

\* While its record is there, a session makes no more calls than its limits allow, in all,
\* in any stretch of a window's length, and of one tool with the same arguments, whatever
\* requests wait for the limiter.  The limiter lets calls through that a failing Redis does
\* not count; of those it counts for sure, in one of its windows, no more than the server's
\* limit in any stretch shorter than a window, though keys expire, are left without a time
\* to live, and calls are counted in a window that is over (preCall() and rate-limit.ts,
\* ADR-025).
THEOREM LimitsHoldAlways == AdmissionSpec => []LimitsHold
<1>1. LimitsInv => LimitsHold
  <2> SUFFICES ASSUME LimitsInv
               PROVE  LimitsHold
    OBVIOUS
  <2>1. lClock \in 0..MaxClock /\ MaxClock \in Nat /\ 0..lClock \subseteq 0..MaxClock
    BY LimitsConstants DEF LimitsInv, Limits!TypeOK
  <2>2. Limits!Unset("server") \/
          \A w, t \in 0..lClock : Cardinality(Limits!InStretch(w, t)) <= lOpts.server
    BY <2>1 DEF LimitsInv, WindowCounts, WindowHolds
  <2>3. ~lLost => Limits!Quota
    BY DEF LimitsInv, RecordCounts
  <2>4. ~lLost => \A t \in 0..lClock :
          \/ Limits!Unset("rpm")
          \/ Cardinality(Limits!Through(Key, t, t + Limits!Window)) <= Limits!Stretch(lOpts.rpm)
    <3> SUFFICES ASSUME ~lLost, ~Limits!Unset("rpm"), NEW t \in 0..lClock
                 PROVE  Cardinality(Limits!Through(Key, t, t + Limits!Window))
                          <= Limits!Stretch(lOpts.rpm)
      OBVIOUS
    <3>1. BucketHolds("rpm")
      BY DEF LimitsInv, BucketsHold, Counts
    <3> QED
      BY <2>1, <3>1 DEF BucketHolds, ThroughOf, Keys, Budget, Window
  <2>5. ~lLost => \A t \in 0..lClock :
          \/ Limits!Unset("loopN")
          \/ \A k \in Key : Cardinality(Limits!Through({k}, t, t + Limits!Window))
                              <= Limits!Stretch(Limits!LoopBudget)
    <3> SUFFICES ASSUME ~lLost, ~Limits!Unset("loopN"), NEW t \in 0..lClock, NEW k \in Key
                 PROVE  Cardinality(Limits!Through({k}, t, t + Limits!Window))
                          <= Limits!Stretch(Limits!LoopBudget)
      OBVIOUS
    <3>1. k # "rpm"
      BY LimitsConstants
    <3>2. BucketHolds(k)
      BY <3>1 DEF LimitsInv, BucketsHold, Counts
    <3> QED
      BY <2>1, <3>1, <3>2 DEF BucketHolds, ThroughOf, Keys, Budget, Window
  <2> QED
    <3>1. lLost \in BOOLEAN
      BY DEF LimitsInv, Limits!TypeOK
    <3>2. ~lLost =>
            /\ Limits!Quota
            /\ \A t \in 0..lClock :
                 /\ \/ Limits!Unset("rpm")
                    \/ Cardinality(Limits!Through(Key, t, t + Limits!Window))
                         <= Limits!Stretch(lOpts.rpm)
                 /\ \/ Limits!Unset("loopN")
                    \/ \A k \in Key : Cardinality(Limits!Through({k}, t, t + Limits!Window))
                                        <= Limits!Stretch(Limits!LoopBudget)
      BY <2>3, <2>4, <2>5, <3>1
    <3>3. Limits!LimitsHold
      BY <2>2, <3>1, <3>2, SameCardinality DEF Limits!LimitsHold
    <3> QED
      BY <3>3 DEF LimitsHold
<1> QED
  BY <1>1, LimitsInvariant, AdmissionLimits, PTL

-----------------------------------------------------------------------------
(* The key of a session *)

\* After the removal's answer the record is gone, and after a DEL that no touch straddles
\* nothing that is under way writes the key.
KeepsInv ==
    /\ Keeps!TypeOK
    /\ kAdmin = "done" => kSeen = None
    /\ kDel # "none" => kAdmin = "done"
    /\ kDel = "final" => ~kLive /\ kSeen = None /\ \A r \in Call : kTouch[r] # "hset"

\* It holds when the session is made.
LEMMA KeepsInit == Keeps!Init => KeepsInv
<1>1. MaxClock \in Nat /\ None \notin Nat
  BY AdmissionAssumption DEF Keeps!SessionKeyAssumption
<1> QED
  BY <1>1 DEF Keeps!Init, KeepsInv, Keeps!TypeOK

\* Every command keeps it.
LEMMA KeepsStep ==
    ASSUME KeepsInv, [Keeps!Next]_(Keeps!vars)
    PROVE  KeepsInv'
<1>0. MaxClock \in Nat /\ None \notin Nat
  BY AdmissionAssumption DEF Keeps!SessionKeyAssumption
<1> USE DEF KeepsInv, Keeps!TypeOK
<1>1. CASE UNCHANGED Keeps!vars
  BY <1>1 DEF Keeps!vars
<1>2. CASE Keeps!Tick
  BY <1>0, <1>2 DEF Keeps!Tick
<1>3. CASE Keeps!Reap \/ Keeps!Expire
  BY <1>3 DEF Keeps!Reap, Keeps!Expire, Keeps!KeyGone
<1>4. CASE Keeps!Restart
  BY <1>4 DEF Keeps!Restart
<1>5. CASE Keeps!Remove
  BY <1>5 DEF Keeps!Remove
<1>6. CASE Keeps!Removed
  BY <1>6 DEF Keeps!Removed
<1>7. CASE Keeps!Deleted
  BY <1>7 DEF Keeps!Deleted, Keeps!KeyGone
<1>8. CASE Keeps!DeleteFails
  BY <1>8 DEF Keeps!DeleteFails
<1>9. ASSUME NEW r \in Call, NEW tool \in BOOLEAN, Keeps!Arrive(r, tool)
      PROVE  KeepsInv'
  BY <1>9 DEF Keeps!Arrive
<1>10. ASSUME NEW r \in Call, Keeps!PreCall(r)
       PROVE  KeepsInv'
  BY <1>10 DEF Keeps!PreCall
<1>11. ASSUME NEW r \in Call, Keeps!TouchExists(r)
       PROVE  KeepsInv'
  BY <1>11 DEF Keeps!TouchExists, Keeps!Touch
<1>12. ASSUME NEW r \in Call, Keeps!TouchHset(r)
       PROVE  KeepsInv'
  BY <1>12 DEF Keeps!TouchHset, Keeps!Touch
<1>13. ASSUME NEW r \in Call, Keeps!TouchExpire(r) \/ Keeps!TouchFails(r)
       PROVE  KeepsInv'
  BY <1>13 DEF Keeps!TouchExpire, Keeps!TouchFails, Keeps!Touch
<1> QED
  BY <1>1, <1>2, <1>3, <1>4, <1>5, <1>6, <1>7, <1>8, <1>9, <1>10, <1>11, <1>12, <1>13
     DEF Keeps!Next

\* The key by itself keeps it for ever.
LEMMA KeepsInvariant == Keeps!KeySpec => []KeepsInv
  BY KeepsInit, KeepsStep, PTL DEF Keeps!KeySpec

\* The steps of the whole are, for the key, its own or none.
LEMMA AdmissionKeeps == AdmissionSpec => Keeps!KeySpec
<1>1. MCInit => Keeps!Init
  BY DEF MCInit
<1>2. [MCNext]_<<part, vars, bridge, limits, keeps, imports>> => [Keeps!Next]_(Keeps!vars)
  BY DEF MCNext, keeps, Keeps!vars
<1> QED
  BY <1>1, <1>2, PTL DEF AdmissionSpec, Keeps!KeySpec

\* The removal of a session whose DEL comes between no EXISTS and its HSET is final: whatever
\* requests are under way, at whatever processes, and whatever commands of them fail, neither
\* the key nor the record comes back (delete() of streamable-http.session-registry.ts, and
\* touch() of redis-streamable-session-store.ts).
THEOREM RemovalIsFinalAlways == AdmissionSpec => []RemovalIsFinal
<1>1. KeepsInv => RemovalIsFinal
  BY DEF KeepsInv, RemovalIsFinal, Keeps!RemovalIsFinal, Keeps!Nowhere
<1> QED
  BY <1>1, KeepsInvariant, AdmissionKeeps, PTL

-----------------------------------------------------------------------------
(* What an approval imports *)

\* What AdmissionAssumption says of the constants of the importers.
LEMMA ImportsConstants ==
    /\ \A api \in Apis : Imports!WellTyped(api.types)
                         /\ {api.query, api.mutation} \subseteq DOMAIN api.types \cup {None}
    /\ Depths \subseteq Int \cup {None}
    /\ \A doc \in Docs : \A oper \in doc :
         oper.path \in Seq(Imports!ToSet(oper.path)) /\ oper.body \in BOOLEAN
  BY AdmissionAssumption DEF Imports!ImportedToolsAssumption

\* Of a type under five wrappers at most, introspection tells all there is.
LEMMA RefRead ==
    ASSUME NEW types, Imports!WellTyped(types), NEW t \in Imports!TypeRefs(types)
    PROVE  LET r == Imports!TypeRef(types, t)
           IN  /\ r.wraps = t.wraps /\ r.name = t.name /\ r.kind = types[t.name].kind
               /\ Imports!Describe(r) = t
               /\ Imports!NonNull(r) <=> t.wraps # <<>> /\ t.wraps[1] = "NON_NULL"
               /\ t.name \in DOMAIN types /\ t.name # None
<1> DEFINE r == Imports!TypeRef(types, t)
<1>1. /\ t \in [wraps : Seq({"LIST", "NON_NULL"}), name : DOMAIN types] /\ Len(t.wraps) <= 5
      /\ t.name \in DOMAIN types /\ t.name # None
  BY DEF Imports!TypeRefs, Imports!WellTyped
<1>2. r = [wraps |-> t.wraps, kind |-> types[t.name].kind, name |-> t.name]
  BY <1>1 DEF Imports!TypeRef
<1>3. Imports!Describe(r) = t
  BY <1>1, <1>2 DEF Imports!Describe
<1>4. r.kind # "NON_NULL"
  BY <1>1, <1>2 DEF Imports!WellTyped, Imports!Composite, Imports!Leaf
<1>5. Imports!NonNull(r) <=> t.wraps # <<>> /\ t.wraps[1] = "NON_NULL"
  BY <1>2, <1>4 DEF Imports!NonNull
<1> QED
  BY <1>1, <1>2, <1>3, <1>5

\* The reference definition as it is when default values are left out of account.
NonNull(i) == i.type.wraps # <<>> /\ i.type.wraps[1] = "NON_NULL"
Had(types, n, x) ==
    LET fs == {f \in types[n].fields : f.name = x /\ \A a \in f.args : ~NonNull(a)}
    IN  IF n = None \/ fs = {} THEN None ELSE (CHOOSE f \in fs : TRUE).type.name

\* A selected field is one that asks for nothing, and leads where the schema says.
LEMMA FieldsAsked ==
    ASSUME NEW types, Imports!WellTyped(types), NEW n \in DOMAIN types
    PROVE  /\ \A f \in types[n].fields :
                /\ Imports!Selectable(types, f) <=> \A a \in f.args : ~NonNull(a)
                /\ Imports!Selectable(types, f) =>
                     Had(types, n, f.name) = f.type.name
                /\ f.type.name \in DOMAIN types
           /\ \A x : Had(types, n, x) # None =>
                \E f \in types[n].fields :
                  /\ f.name = x /\ Imports!Selectable(types, f)
                  /\ Had(types, n, x) = f.type.name
           /\ \A x : Had(types, n, x) \in DOMAIN types \cup {None}
           /\ \A x : Had(types, None, x) = None
<1>1. ASSUME NEW f \in types[n].fields
      PROVE  /\ Imports!Selectable(types, f) <=> \A a \in f.args : ~NonNull(a)
             /\ f.type.name \in DOMAIN types
  <2>1. \A a \in f.args : a.type \in Imports!TypeRefs(types)
    BY DEF Imports!WellTyped, Imports!InputsOf
  <2>2. \A a \in f.args : Imports!NonNull(Imports!TypeRef(types, a.type)) <=> NonNull(a)
    BY <2>1, RefRead DEF NonNull
  <2>3. f.type \in Imports!TypeRefs(types)
    BY DEF Imports!WellTyped
  <2> QED
    BY <2>2, <2>3, RefRead DEF Imports!Selectable
<1> DEFINE fs(x) == {f \in types[n].fields :
                       f.name = x /\ \A a \in f.args : ~NonNull(a)}
<1>2. n # None
  BY DEF Imports!WellTyped
<1>3. ASSUME NEW x, fs(x) = {}
      PROVE  Had(types, n, x) = None
  BY <1>3 DEF Had
<1>4. ASSUME NEW x, NEW f \in fs(x)
      PROVE  Had(types, n, x) = f.type.name
  <2>1. \A g \in fs(x) : g = f
    BY DEF Imports!WellTyped
  <2>2. (CHOOSE g \in fs(x) : TRUE) = f
    BY <2>1, Zenon
  <2>3. fs(x) # {}
    OBVIOUS
  <2> HIDE DEF fs
  <2>4. Had(types, n, x) = (CHOOSE g \in fs(x) : TRUE).type.name
    BY <1>2, <2>3 DEF Had, fs
  <2> QED
    BY <2>2, <2>4
<1>5. ASSUME NEW x
      PROVE  /\ Had(types, n, x) # None =>
                  \E f \in types[n].fields :
                    /\ f.name = x /\ Imports!Selectable(types, f)
                    /\ Had(types, n, x) = f.type.name
             /\ Had(types, n, x) \in DOMAIN types \cup {None}
  <2>1. CASE fs(x) = {}
    BY <1>3, <2>1
  <2>2. CASE fs(x) # {}
    <3>1. PICK f \in fs(x) : TRUE
      BY <2>2
    <3>2. Had(types, n, x) = f.type.name
      BY <1>4
    <3>3. f \in types[n].fields /\ f.name = x /\ Imports!Selectable(types, f)
      BY <1>1
    <3> QED
      BY <1>1, <3>2, <3>3
  <2> QED
    BY <2>1, <2>2
<1>6. ASSUME NEW f \in types[n].fields, Imports!Selectable(types, f)
      PROVE  Had(types, n, f.name) = f.type.name
  <2>1. f \in fs(f.name)
    BY <1>1, <1>6
  <2> QED
    BY <1>4, <2>1
<1>7. \A x : Had(types, None, x) = None
  BY DEF Had
<1> QED
  BY <1>1, <1>5, <1>6, <1>7

\* Induction over the natural numbers, from the least element of a set of them.
LEMMA SetInduction ==
    ASSUME NEW S, 0 \in S, \A n \in Nat : n \in S => n + 1 \in S
    PROVE Nat \subseteq S
<1> DEFINE T == Nat \ S
           R == OpToRel(<, Nat)
<1>1. SUFFICES ASSUME T # {} PROVE FALSE
  OBVIOUS
<1>2. \E x \in T : \A y \in T : ~(<<y, x>> \in R)
  <2>1. IsWellFoundedOn(R, Nat) /\ T \subseteq Nat
    BY NatLessThanWellFounded
  <2> HIDE DEF R, T
  <2> QED
    BY <1>1, <2>1, WFMin
<1>3. PICK x \in T : \A y \in T : ~(y < x)
  BY <1>2 DEF OpToRel
<1> QED
  BY <1>3

\* A chain of n steps, each to a place of V that depends on its number and the last place.
Steps(next, V, n) == next \in [(1..n) \X V -> V]
Chain(w, root, next, V, n) ==
    w \in [1 .. n + 1 -> V] /\ w[1] = root /\ \A i \in 1..n : w[i + 1] = next[<<i, w[i]>>]
Alike(u, w, n) == u[1] = w[1] /\ \A i \in 1..n : u[i] = w[i] => u[i + 1] = w[i + 1]

\* A chain of steps has as many places as it has steps, and one.
LEMMA ChainExists ==
    ASSUME NEW V, NEW root, root \in V, NEW n, n \in Nat, NEW next, Steps(next, V, n)
    PROVE  \E w : Chain(w, root, next, V, n)
<1> DEFINE S == {m \in Nat : m <= n => \E w : Chain(w, root, next, V, m)}
<1>0. next \in [(1..n) \X V -> V]
  BY DEF Steps
<1>1. 0 \in S
  <2>1. Chain([i \in 1..1 |-> root], root, next, V, 0)
    BY DEF Chain
  <2> QED
    BY <2>1
<1>2. ASSUME NEW m \in Nat, m \in S
      PROVE  m + 1 \in S
  <2>1. SUFFICES ASSUME m + 1 <= n
                 PROVE  \E w : Chain(w, root, next, V, m + 1)
    OBVIOUS
  <2>2. PICK w : Chain(w, root, next, V, m)
    BY <1>2, <2>1
  <2> USE DEF Chain
  <2> DEFINE u == [i \in 1 .. m + 2 |-> IF i = m + 2 THEN next[<<m + 1, w[m + 1]>>] ELSE w[i]]
  <2>3. next[<<m + 1, w[m + 1]>>] \in V
    <3>1. m + 1 \in 1..n /\ w[m + 1] \in V
      BY <2>1, <2>2
    <3>2. <<m + 1, w[m + 1]>> \in (1..n) \X V
      BY <3>1
    <3> QED
      BY <1>0, <3>2
  <2>4. u \in [1 .. m + 2 -> V]
    BY <2>2, <2>3
  <2>5. ASSUME NEW i \in 1 .. m + 1
        PROVE  u[i + 1] = next[<<i, u[i]>>]
    <3>1. CASE i = m + 1
      <4>1. u[i] = w[m + 1] /\ u[i + 1] = next[<<m + 1, w[m + 1]>>]
        BY <3>1
      <4> QED
        BY <3>1, <4>1
    <3>2. CASE i # m + 1
      <4>1. i \in 1..m /\ u[i] = w[i] /\ u[i + 1] = w[i + 1]
        BY <3>2
      <4> QED
        BY <2>2, <4>1
    <3> QED
      BY <3>1, <3>2
  <2>6. u[1] = root
    BY <2>2
  <2>7. m + 1 + 1 = m + 2
    OBVIOUS
  <2>8. Chain(u, root, next, V, m + 1)
    <3> HIDE DEF u
    <3> QED
      BY <2>4, <2>5, <2>6, <2>7
  <2> QED
    BY <2>8
<1>3. Nat \subseteq S
  <2> HIDE DEF S
  <2> QED
    BY <1>1, <1>2, SetInduction
<1> QED
  BY <1>3

\* Two chains that begin alike and go on alike are alike.
LEMMA ChainUnique ==
    ASSUME NEW n, n \in Nat, NEW u, NEW w, Alike(u, w, n)
    PROVE  \A i \in 1 .. n + 1 : u[i] = w[i]
<1> USE DEF Alike
<1> DEFINE S == {m \in Nat : m <= n => u[m + 1] = w[m + 1]}
<1>1. 0 \in S
  OBVIOUS
<1>2. ASSUME NEW m \in Nat, m \in S
      PROVE  m + 1 \in S
  BY <1>2
<1>3. Nat \subseteq S
  <2> HIDE DEF S
  <2> QED
    BY <1>1, <1>2, SetInduction
<1>4. ASSUME NEW i \in 1 .. n + 1
      PROVE  u[i] = w[i]
  <2>1. i - 1 \in S /\ i - 1 <= n /\ i - 1 + 1 = i
    BY <1>3
  <2> QED
    BY <2>1
<1> QED
  BY <1>4

\* The way along a path, which has a type, or none, for each step.
HadTrail(types, root, p) ==
    LET V == DOMAIN types \cup {None}
        next == [x \in (1 .. Len(p)) \X V |-> Had(types, x[2], p[x[1]])]
    IN  CHOOSE w : Chain(w, root, next, V, Len(p))
HadSelects(types, root, p) ==
    LET way == HadTrail(types, root, Imports!Front(p))
    IN  /\ None \notin Imports!ToSet(way)
        /\ \A i \in DOMAIN way : types[way[i]].kind \in Imports!Composite
        /\ \/ Imports!Last(p) = "__typename"
           \/ /\ Had(types, Imports!Last(way), Imports!Last(p)) # None
              /\ types[Had(types, Imports!Last(way), Imports!Last(p))].kind \in Imports!Leaf

LEMMA HadSteps ==
    ASSUME NEW types, Imports!WellTyped(types), NEW root \in DOMAIN types \cup {None},
           NEW S, NEW p \in Seq(S)
    PROVE  LET w == HadTrail(types, root, p)
           IN  /\ w \in [1 .. Len(p) + 1 -> DOMAIN types \cup {None}]
               /\ w[1] = root
               /\ \A i \in 1 .. Len(p) : w[i + 1] = Had(types, w[i], p[i])
<1> DEFINE V == DOMAIN types \cup {None}
           n == Len(p)
           next == [x \in (1..n) \X V |-> Had(types, x[2], p[x[1]])]
           w == HadTrail(types, root, p)
<1>1. n \in Nat /\ root \in V
  OBVIOUS
<1>2. \A m \in V : \A x : Had(types, m, x) \in V
  <2> SUFFICES ASSUME NEW m \in V, NEW x PROVE Had(types, m, x) \in V
    OBVIOUS
  <2>1. CASE m \in DOMAIN types
    BY <2>1, FieldsAsked
  <2>2. CASE m = None
    BY <2>2 DEF Had
  <2> QED
    BY <2>1, <2>2
<1> HIDE DEF V
<1>3. Steps(next, V, n)
  <2>1. \A x \in (1..n) \X V : Had(types, x[2], p[x[1]]) \in V
    BY <1>2
  <2>2. next \in [(1..n) \X V -> V]
    BY <2>1
  <2> QED
    BY <2>2 DEF Steps
<1>4. \A i \in 1..n, m \in V : next[<<i, m>>] = Had(types, m, p[i])
  OBVIOUS
<1>5. Chain(w, root, next, V, n)
  <2>1. w = CHOOSE u : Chain(u, root, next, V, n)
    BY Zenon DEF HadTrail, V
  <2> HIDE DEF next, n, w
  <2>2. \E u : Chain(u, root, next, V, n)
    BY <1>1, <1>3, ChainExists
  <2> QED
    BY <2>1, <2>2, Zenon
<1> HIDE DEF w, next
<1>6. w \in [1 .. n + 1 -> V] /\ w[1] = root /\ \A i \in 1..n : w[i + 1] = next[<<i, w[i]>>]
  BY <1>5 DEF Chain
<1>7. ASSUME NEW i \in 1..n
      PROVE  w[i + 1] = Had(types, w[i], p[i])
  <2>1. w[i] \in V
    BY <1>1, <1>6
  <2> QED
    BY <1>4, <1>6, <2>1
<1> QED
  BY <1>6, <1>7 DEF w, V

\* A path goes on from where its first step leads.
LEMMA HadCons ==
    ASSUME NEW types, Imports!WellTyped(types), NEW root \in DOMAIN types,
           NEW S, NEW x \in S, NEW p \in Seq(S)
    PROVE  \A i \in 1 .. Len(p) + 1 :
             HadTrail(types, root, <<x>> \o p)[i + 1]
               = HadTrail(types, Had(types, root, x), p)[i]
<1> DEFINE m == Had(types, root, x)
           w == HadTrail(types, root, <<x>> \o p)
           u == HadTrail(types, m, p)
           v == [i \in 1 .. Len(p) + 1 |-> w[i + 1]]
<1>1. /\ <<x>> \o p \in Seq(S) /\ Len(<<x>> \o p) = Len(p) + 1 /\ Len(p) \in Nat
      /\ (<<x>> \o p)[1] = x /\ \A i \in 1 .. Len(p) : (<<x>> \o p)[i + 1] = p[i]
  OBVIOUS
<1>2. m \in DOMAIN types \cup {None}
  BY FieldsAsked
<1>3. u[1] = m /\ \A i \in 1 .. Len(p) : u[i + 1] = Had(types, u[i], p[i])
  <2> HIDE DEF m
  <2>1. m \in DOMAIN types \cup {None}
    BY <1>2
  <2> DEFINE q == p
  <2>3. q \in Seq(S)
    OBVIOUS
  <2> HIDE DEF q
  <2>2. /\ HadTrail(types, m, q)[1] = m
        /\ \A i \in 1 .. Len(q) : HadTrail(types, m, q)[i + 1]
                                    = Had(types, HadTrail(types, m, q)[i], q[i])
    BY <2>1, <2>3, HadSteps
  <2> QED
    BY <2>2 DEF q
<1>4. /\ w[1] = root
      /\ \A i \in 1 .. Len(p) + 1 : w[i + 1] = Had(types, w[i], (<<x>> \o p)[i])
  <2> DEFINE q == <<x>> \o p
  <2> HIDE DEF q
  <2>1. q \in Seq(S) /\ Len(q) = Len(p) + 1
    BY <1>1 DEF q
  <2>2. /\ HadTrail(types, root, q)[1] = root
        /\ \A i \in 1 .. Len(q) : HadTrail(types, root, q)[i + 1]
                                    = Had(types, HadTrail(types, root, q)[i], q[i])
    BY <2>1, HadSteps
  <2> QED
    BY <2>1, <2>2 DEF q
<1> HIDE DEF u, w
<1>5. v[1] = m
  <2>1. v[1] = w[2] /\ 1 \in 1 .. Len(p) + 1
    BY <1>1
  <2>2. w[1 + 1] = Had(types, w[1], (<<x>> \o p)[1])
    BY <1>4, <2>1
  <2> QED
    BY <1>1, <1>4, <2>1, <2>2
<1>6. \A i \in 1 .. Len(p) : v[i + 1] = Had(types, v[i], p[i])
  <2> SUFFICES ASSUME NEW i \in 1 .. Len(p)
               PROVE  v[i + 1] = Had(types, v[i], p[i])
    OBVIOUS
  <2>1. v[i + 1] = w[i + 1 + 1] /\ v[i] = w[i + 1] /\ i + 1 \in 1 .. Len(p) + 1
    BY <1>1
  <2>2. w[i + 1 + 1] = Had(types, w[i + 1], (<<x>> \o p)[i + 1])
    BY <1>4, <2>1
  <2> QED
    BY <1>1, <2>1, <2>2
<1>7. \A i \in 1 .. Len(p) + 1 : u[i] = v[i]
  <2>1. \A i \in 1 .. Len(p) : u[i] = v[i] => u[i + 1] = v[i + 1]
    BY <1>3, <1>6
  <2> HIDE DEF v
  <2>2. Alike(u, v, Len(p)) /\ Len(p) \in Nat
    BY <1>1, <1>3, <1>5, <2>1 DEF Alike
  <2> QED
    BY <2>2, ChainUnique
<1> QED
  BY <1>7 DEF u, w

\* The fields that end a selection, and those it goes through.
LeafField(types, f) ==
    Imports!Selectable(types, f) /\ types[f.type.name].kind \in Imports!Leaf
DeepField(types, f, v) ==
    /\ Imports!Selectable(types, f) /\ types[f.type.name].kind \notin Imports!Leaf
    /\ f.type.name \notin v /\ types[f.type.name].fields # {}
Below(types, f, d, v) ==
    Imports!SelectionForObject(types, f.type.name, d - 1, v \cup {f.type.name})

\* A leaf, or a field of an object and what is selected of that.
Picks(types, n, d, v, p) ==
    \/ p = <<"__typename">>
    \/ \E f \in types[n].fields : LeafField(types, f) /\ p = <<f.name>>
    \/ \E f \in types[n].fields :
         /\ d > 1 /\ DeepField(types, f, v)
         /\ \E q \in Below(types, f, d, v) : p = <<f.name>> \o q

\* What selectionForObject() returns, by one level of its recursion.
LEMMA SelectionOf ==
    ASSUME NEW types, Imports!WellTyped(types), NEW n \in DOMAIN types, NEW d \in 1..4,
           NEW v \in SUBSET DOMAIN types
    PROVE  \A p : p \in Imports!SelectionForObject(types, n, d, v) <=> Picks(types, n, d, v, p)
<1> DEFINE D == DOMAIN types
           Inner(f) == Imports!TypeRef(types, f.type)
           Fields(m) == {f \in types[m].fields : Imports!Selectable(types, f)}
           Leaves(m) == {f \in Fields(m) : Inner(f).kind \in Imports!Leaf}
           Nested(m, e, u) == {f \in Fields(m) \ Leaves(m) :
                                 /\ Imports!Descends(Inner(f), e, u)
                                 /\ types[Inner(f).name].fields # {}}
           Set(g, m, e, u) ==
             {<<"__typename">>} \cup {<<f.name>> : f \in Leaves(m)} \cup
             UNION {{<<f.name>> \o p : p \in g[Inner(f).name][u \cup {Inner(f).name}]} :
                    f \in Nested(m, e, u)}
           Level(g, e) == [m \in D |-> [u \in SUBSET D |-> Set(g, m, e, u)]]
           All(h) == [e \in 1..4 |-> Level(h[e - 1], e)]
           G1 == Level({}, 1)
           G2 == Level(G1, 2)
           G3 == Level(G2, 3)
           G == [e \in 1..4 |-> IF e = 1 THEN G1 ELSE IF e = 2 THEN G2
                                ELSE IF e = 3 THEN G3 ELSE Level(G3, 4)]
           h == CHOOSE g : g = All(g)
<1>1. \A m, u, e : Imports!SelectionForObject(types, m, e, u) = h[e][m][u]
  BY DEF Imports!SelectionForObject
<1>2. \A m, u : Nested(m, 1, u) = {}
  BY DEF Imports!Descends
<1>3. \A g, m, u : Set(g, m, 1, u) = Set({}, m, 1, u)
  <2> HIDE DEF Nested
  <2> QED
    BY <1>2
<1>4. \A g : Level(g, 1) = G1
  <2> HIDE DEF Set
  <2> QED
    BY <1>3
<1>5. G = All(G)
  <2> HIDE DEF Level, G1, G2, G3
  <2>1. \A e \in 1..4 : G[e] = Level(G[e - 1], e)
    <3>1. G[1] = G1 /\ G[2] = G2 /\ G[3] = G3 /\ G[4] = Level(G3, 4)
      OBVIOUS
    <3>2. G[1] = Level(G[0], 1)
      BY <1>4, <3>1
    <3>3. G[2] = Level(G[1], 2) /\ G[3] = Level(G[2], 3) /\ G[4] = Level(G[3], 4)
      BY <3>1 DEF G2, G3
    <3> HIDE DEF G
    <3> QED
      BY <3>2, <3>3
  <2>2. G = [e \in 1..4 |-> G[e]]
    OBVIOUS
  <2> HIDE DEF G
  <2> QED
    BY <2>1, <2>2
<1>6. h = All(h)
  <2> HIDE DEF All, G
  <2> QED
    BY <1>5
<1> HIDE DEF h
<1>7. h[d][n][v] = Set(h[d - 1], n, d, v)
  <2>1. h[d] = Level(h[d - 1], d)
    <3> HIDE DEF Level
    <3> QED
      BY <1>6
  <2> HIDE DEF Set
  <2> QED
    BY <2>1
<1>8. \A f \in types[n].fields :
        /\ Inner(f).kind = types[f.type.name].kind /\ Inner(f).name = f.type.name
        /\ f.type.name # None
  <2>1. \A f \in types[n].fields : f.type \in Imports!TypeRefs(types)
    BY DEF Imports!WellTyped
  <2> QED
    BY <2>1, RefRead
<1>9. /\ \A f : f \in Leaves(n) <=> f \in types[n].fields /\ LeafField(types, f)
      /\ \A f : f \in Nested(n, d, v) <=>
                  f \in types[n].fields /\ d > 1 /\ DeepField(types, f, v)
  <2> HIDE DEF Inner
  <2> QED
    BY <1>8 DEF LeafField, DeepField, Imports!Descends
<1>10. \A f \in Nested(n, d, v) : h[d - 1][Inner(f).name][v \cup {Inner(f).name}] = Below(types, f, d, v)
  <2> HIDE DEF Inner
  <2> SUFFICES ASSUME NEW f \in Nested(n, d, v)
               PROVE  h[d - 1][Inner(f).name][v \cup {Inner(f).name}] = Below(types, f, d, v)
    OBVIOUS
  <2>1. Inner(f).name = f.type.name
    BY <1>8
  <2> HIDE DEF Nested
  <2>2. Below(types, f, d, v) = h[d - 1][f.type.name][v \cup {f.type.name}]
    BY <1>1 DEF Below
  <2> QED
    BY <2>1, <2>2
<1> HIDE DEF Leaves, Nested, Inner
<1>11. \A p : p \in Set(h[d - 1], n, d, v) <=>
         \/ p = <<"__typename">>
         \/ \E f \in Leaves(n) : p = <<f.name>>
         \/ \E f \in Nested(n, d, v) :
              \E q \in h[d - 1][Inner(f).name][v \cup {Inner(f).name}] : p = <<f.name>> \o q
  <2> DEFINE Q(f) == h[d - 1][Inner(f).name][v \cup {Inner(f).name}]
             E(f) == {<<f.name>> \o q : q \in Q(f)}
             N == Nested(n, d, v)
             L == Leaves(n)
  <2>1. Set(h[d - 1], n, d, v) = ({<<"__typename">>} \cup {<<f.name>> : f \in L})
                                 \cup UNION {E(f) : f \in N}
    OBVIOUS
  <2>2. \A f, p : p \in E(f) <=> \E q \in Q(f) : p = <<f.name>> \o q
    BY Zenon
  <2> HIDE DEF Set, E, Q, N, L
  <2>3. \A p : p \in UNION {E(f) : f \in N} <=> \E f \in N : p \in E(f)
    BY Zenon
  <2>4. \A p : p \in Set(h[d - 1], n, d, v) <=>
          \/ p = <<"__typename">>
          \/ \E f \in L : p = <<f.name>>
          \/ \E f \in N : \E q \in Q(f) : p = <<f.name>> \o q
    <3> DEFINE A == Set(h[d - 1], n, d, v)
               U == UNION {E(f) : f \in N}
    <3>1. \A p : p \in A <=> p = <<"__typename">> \/ (\E f \in L : p = <<f.name>>) \/ p \in U
      <4> HIDE DEF U, A
      <4>1. A = ({<<"__typename">>} \cup {<<f.name>> : f \in L}) \cup U
        BY <2>1 DEF A, U
      <4> QED
        BY <4>1
    <3>2. \A p : p \in U <=> \E f \in N : \E q \in Q(f) : p = <<f.name>> \o q
      <4>1. \A p : p \in U <=> \E f \in N : p \in E(f)
        BY <2>3, Zenon
      <4> HIDE DEF U
      <4>2. ASSUME NEW p, p \in U
            PROVE  \E f \in N : \E q \in Q(f) : p = <<f.name>> \o q
        <5>1. PICK f \in N : p \in E(f)
          BY <4>1, <4>2
        <5>2. \E q \in Q(f) : p = <<f.name>> \o q
          BY <2>2, <5>1, Zenon
        <5> QED
          BY <5>2, Zenon
      <4>3. ASSUME NEW f \in N, NEW q \in Q(f)
            PROVE  <<f.name>> \o q \in U
        <5>1. <<f.name>> \o q \in E(f)
          BY <2>2, Zenon
        <5> QED
          BY <4>1, <5>1, Zenon
      <4> QED
        BY <4>2, <4>3, Zenon
    <3> HIDE DEF U
    <3> QED
      BY <3>1, <3>2, Zenon
  <2> QED
    BY <2>4, Zenon DEF L, N, Q
<1>12. \A p : p \in Set(h[d - 1], n, d, v) <=>
         \/ p = <<"__typename">>
         \/ \E f \in Leaves(n) : p = <<f.name>>
         \/ \E f \in Nested(n, d, v) : \E q \in Below(types, f, d, v) : p = <<f.name>> \o q
  <2> HIDE DEF Set
  <2> QED
    BY <1>10, <1>11, Zenon
<1> HIDE DEF Set
<1> QED
  BY <1>1, <1>7, <1>9, <1>12 DEF Picks

\* The types on the way to the last step of a path.
Way(types, n, p) == HadTrail(types, n, Imports!Front(p))

\* A path of at most d fields that ends in a leaf, or in __typename, and goes through
\* objects that are not in v, through none twice and through none without fields.
Chosen(types, n, d, v, p) ==
    LET w == Way(types, n, p)
        k == Len(p)
    IN  /\ k \in 1..d
        /\ \A i \in 1..k : w[i] # None /\ types[w[i]].kind \in Imports!Composite
        /\ \/ p[k] = "__typename"
           \/ /\ Had(types, w[k], p[k]) # None
              /\ types[Had(types, w[k], p[k])].kind \in Imports!Leaf
        /\ \A i, j \in 1..k : w[i] = w[j] => i = j
        /\ \A i \in 2..k : w[i] \notin v /\ types[w[i]].fields # {}

\* All of a path but its last step.
LEMMA FrontSeq ==
    ASSUME NEW S, NEW p \in Seq(S), p # <<>>
    PROVE  /\ Imports!Front(p) \in Seq(S) /\ Len(Imports!Front(p)) = Len(p) - 1
           /\ \A i \in 1 .. Len(p) - 1 : Imports!Front(p)[i] = p[i]
           /\ Len(p) \in Nat /\ Len(p) >= 1
<1>1. Len(p) \in Nat /\ Len(p) >= 1
  OBVIOUS
<1> DEFINE k == Len(p) - 1
<1>2. k \in Int /\ 1 \in Int /\ k >= 0 /\ \A i \in 1..k : p[i] \in S
  BY <1>1
<1>3. /\ SubSeq(p, 1, k) \in Seq(S) /\ Len(SubSeq(p, 1, k)) = k
      /\ \A i \in 1..k : SubSeq(p, 1, k)[i] = p[i]
  <2> HIDE DEF k
  <2>1. /\ SubSeq(p, 1, k) \in Seq(S)
        /\ Len(SubSeq(p, 1, k)) = IF 1 <= k THEN k - 1 + 1 ELSE 0
        /\ \A i \in 1 .. k - 1 + 1 : SubSeq(p, 1, k)[i] = p[1 + i - 1]
    BY <1>2, SubSeqProperties
  <2>2. k - 1 + 1 = k /\ \A i \in 1..k : 1 + i - 1 = i
    BY <1>2
  <2> QED
    BY <1>2, <2>1, <2>2
<1> QED
  BY <1>1, <1>3 DEF Imports!Front

\* The way has a type, or none, for each step of the path.
LEMMA WaySteps ==
    ASSUME NEW types, Imports!WellTyped(types), NEW n, n \in DOMAIN types \cup {None},
           NEW S, NEW p \in Seq(S), p # <<>>
    PROVE  /\ Way(types, n, p) \in [1 .. Len(p) -> DOMAIN types \cup {None}]
           /\ Way(types, n, p)[1] = n
           /\ Len(p) \in Nat /\ Len(p) >= 1
<1> DEFINE q == Imports!Front(p)
<1>1. Len(p) \in Nat /\ Len(p) >= 1
  OBVIOUS
<1>2. q \in Seq(S) /\ Len(q) = Len(p) - 1
  BY FrontSeq
<1> HIDE DEF q
<1>3. /\ HadTrail(types, n, q) \in [1 .. Len(q) + 1 -> DOMAIN types \cup {None}]
      /\ HadTrail(types, n, q)[1] = n
  <2>1. HadTrail(types, n, q)[1] = n
    BY <1>2, HadSteps
  <2>2. q \in Seq(S)
    BY <1>2
  <2>3. HadTrail(types, n, q) \in [1 .. Len(q) + 1 -> DOMAIN types \cup {None}]
    BY <2>2, HadSteps, Zenon
  <2> QED
    BY <2>1, <2>3
<1>4. Len(q) + 1 = Len(p)
  BY <1>1, <1>2
<1> QED
  BY <1>1, <1>3, <1>4 DEF Way, q

\* The way of a path goes on from where its first step leads.
LEMMA WayCons ==
    ASSUME NEW types, Imports!WellTyped(types), NEW n \in DOMAIN types,
           NEW S, NEW x \in S, NEW q \in Seq(S), q # <<>>
    PROVE  /\ \A i \in 1 .. Len(q) :
                Way(types, n, <<x>> \o q)[i + 1] = Way(types, Had(types, n, x), q)[i]
           /\ <<x>> \o q \in Seq(S) /\ Len(<<x>> \o q) = Len(q) + 1 /\ <<x>> \o q # <<>>
           /\ (<<x>> \o q)[1] = x /\ (<<x>> \o q)[Len(q) + 1] = q[Len(q)]
<1> DEFINE r == Imports!Front(q)
           p == <<x>> \o q
<1>1. Len(q) \in Nat /\ Len(q) >= 1
  OBVIOUS
<1>2. r \in Seq(S) /\ Len(r) = Len(q) - 1 /\ \A i \in 1 .. Len(q) - 1 : r[i] = q[i]
  BY FrontSeq
<1>3. /\ p \in Seq(S) /\ Len(p) = Len(q) + 1 /\ p # <<>>
      /\ p[1] = x /\ \A i \in 1 .. Len(q) : p[i + 1] = q[i]
  BY <1>1
<1>4. Imports!Front(p) = <<x>> \o r
  <2>1. /\ Imports!Front(p) \in Seq(S) /\ Len(Imports!Front(p)) = Len(q)
        /\ \A i \in 1 .. Len(q) : Imports!Front(p)[i] = p[i]
    <3> HIDE DEF p
    <3> QED
      BY <1>1, <1>3, FrontSeq
  <2> HIDE DEF p, r
  <2>2. /\ <<x>> \o r \in Seq(S) /\ Len(<<x>> \o r) = Len(q) /\ (<<x>> \o r)[1] = x
        /\ \A i \in 1 .. Len(q) - 1 : (<<x>> \o r)[i + 1] = q[i]
    BY <1>1, <1>2
  <2>3. \A i \in 1 .. Len(q) : Imports!Front(p)[i] = (<<x>> \o r)[i]
    <3> SUFFICES ASSUME NEW i \in 1 .. Len(q)
                 PROVE  Imports!Front(p)[i] = (<<x>> \o r)[i]
      OBVIOUS
    <3>1. CASE i = 1
      BY <1>1, <1>3, <2>1, <2>2, <3>1
    <3>2. CASE i # 1
      <4>1. i - 1 \in 1 .. Len(q) - 1 /\ i - 1 + 1 = i /\ i - 1 \in 1 .. Len(q)
        BY <1>1, <3>2
      <4>2. p[i] = q[i - 1] /\ (<<x>> \o r)[i] = q[i - 1]
        BY <1>3, <2>2, <4>1
      <4> QED
        BY <2>1, <4>2
    <3> QED
      BY <3>1, <3>2
  <2> DEFINE a == Imports!Front(p)
             b == <<x>> \o r
  <2>4. a \in Seq(S) /\ b \in Seq(S) /\ Len(a) = Len(b) /\ \A i \in 1 .. Len(a) : a[i] = b[i]
    BY <2>1, <2>2, <2>3
  <2> HIDE DEF a, b
  <2>5. a = b
    BY <2>4, SeqEqual
  <2> QED
    BY <2>5 DEF a, b
<1> HIDE DEF r
<1>5. \A i \in 1 .. Len(r) + 1 :
        HadTrail(types, n, <<x>> \o r)[i + 1]
          = HadTrail(types, Had(types, n, x), r)[i]
  BY <1>2, HadCons
<1>6. Len(r) + 1 = Len(q)
  BY <1>1, <1>2
<1>7. \A i \in 1 .. Len(q) :
        Way(types, n, p)[i + 1] = Way(types, Had(types, n, x), q)[i]
  <2> HIDE DEF p
  <2> QED
    BY <1>4, <1>5, <1>6 DEF Way, r
<1>8. p[Len(q) + 1] = q[Len(q)]
  BY <1>1, <1>3
<1> QED
  BY <1>3, <1>7, <1>8

\* The names that a step of a selection can have.
StepNames(types) == Imports!FieldNames(types) \cup {"__typename"}

\* A path of one step ends in a leaf of the type it begins at.
LEMMA ChosenOne ==
    ASSUME NEW types, Imports!WellTyped(types), NEW n \in DOMAIN types,
           types[n].kind \in Imports!Composite, NEW d \in 1..4, NEW v,
           NEW x \in StepNames(types)
    PROVE  Chosen(types, n, d, v, <<x>>) <=>
             \/ x = "__typename"
             \/ \E f \in types[n].fields : LeafField(types, f) /\ f.name = x
<1> DEFINE p == <<x>>
           m == Had(types, n, x)
<1>1. /\ p \in Seq(StepNames(types)) /\ p # <<>> /\ Len(p) = 1 /\ p[1] = x
      /\ 1 \in 1..d /\ 1..1 = {1} /\ 2..1 = {}
  OBVIOUS
<1>2. n \in DOMAIN types \cup {None} /\ n # None
  BY DEF Imports!WellTyped
<1> HIDE DEF p
<1>3. Way(types, n, p)[1] = n
  BY <1>1, <1>2, WaySteps
<1>4. Chosen(types, n, d, v, p) <=>
        x = "__typename" \/ (m # None /\ types[m].kind \in Imports!Leaf)
  BY <1>1, <1>2, <1>3 DEF Chosen
<1>5. (m # None /\ types[m].kind \in Imports!Leaf) <=>
        \E f \in types[n].fields : LeafField(types, f) /\ f.name = x
  <2>1. ASSUME m # None, types[m].kind \in Imports!Leaf
        PROVE  \E f \in types[n].fields : LeafField(types, f) /\ f.name = x
    BY <2>1, FieldsAsked DEF LeafField
  <2>2. ASSUME NEW f \in types[n].fields, LeafField(types, f), f.name = x
        PROVE  m # None /\ types[m].kind \in Imports!Leaf
    <3>1. m = f.type.name /\ f.type.name \in DOMAIN types
      BY <2>2, FieldsAsked DEF LeafField
    <3> QED
      BY <2>2, <3>1 DEF LeafField, Imports!WellTyped
  <2> QED
    BY <2>1, <2>2
<1> QED
  BY <1>4, <1>5 DEF p

\* A path of the field x and, from there, q.
Goes(types, n, d, v, x, q) ==
    \E f \in types[n].fields :
      /\ d > 1 /\ DeepField(types, f, v) /\ f.name = x
      /\ Chosen(types, f.type.name, d - 1, v \cup {f.type.name}, q)

\* A longer path goes through a field of an object that has not been gone through.
LEMMA ChosenMore ==
    ASSUME NEW types, Imports!WellTyped(types), NEW n \in DOMAIN types,
           types[n].kind \in Imports!Composite, NEW d \in 1..4, NEW v, n \in v,
           NEW x \in StepNames(types), NEW q \in Seq(StepNames(types)), q # <<>>
    PROVE  Chosen(types, n, d, v, <<x>> \o q) <=> Goes(types, n, d, v, x, q)
<1> DEFINE p == <<x>> \o q
           m == Had(types, n, x)
           w == Way(types, n, p)
           u == Way(types, m, q)
           k == Len(q)
<1>1. /\ \A i \in 1..k : w[i + 1] = u[i]
      /\ p \in Seq(StepNames(types)) /\ Len(p) = k + 1 /\ p # <<>>
      /\ p[1] = x /\ p[k + 1] = q[k]
  BY WayCons
<1>2. n # None /\ n \in DOMAIN types \cup {None} /\ m \in DOMAIN types \cup {None}
  BY FieldsAsked DEF Imports!WellTyped
<1>3. w[1] = n
  <2> HIDE DEF p
  <2> QED
    BY <1>1, <1>2, WaySteps
<1>4. u[1] = m /\ k \in Nat /\ k >= 1
  <2> HIDE DEF m
  <2> QED
    BY <1>2, WaySteps
<1>5. /\ \A i \in 1 .. k + 1 : i = 1 \/ (i - 1 \in 1..k /\ i - 1 + 1 = i)
      /\ \A i \in 1..k : i + 1 \in 2 .. k + 1 /\ i + 1 \in 1 .. k + 1
      /\ 1 \in 1 .. k + 1 /\ 1 \in 1..k /\ k \in 1..k /\ 2 \in 2 .. k + 1
      /\ \A i \in 2 .. k + 1 : i - 1 \in 1..k /\ i - 1 + 1 = i
  BY <1>4
<1>6. w[2] = m
  <2>1. w[1 + 1] = u[1]
    BY <1>1, <1>5
  <2> QED
    BY <1>4, <2>1
<1> HIDE DEF p, w, u, k
<1>7. ASSUME Chosen(types, n, d, v, p)
      PROVE  \E f \in types[n].fields :
               /\ d > 1 /\ DeepField(types, f, v) /\ f.name = x
               /\ Chosen(types, f.type.name, d - 1, v \cup {f.type.name}, q)
  <2>1. /\ k + 1 \in 1..d
        /\ \A i \in 1 .. k + 1 : w[i] # None /\ types[w[i]].kind \in Imports!Composite
        /\ \/ p[k + 1] = "__typename"
           \/ /\ Had(types, w[k + 1], p[k + 1]) # None
              /\ types[Had(types, w[k + 1], p[k + 1])].kind \in Imports!Leaf
        /\ \A i, j \in 1 .. k + 1 : w[i] = w[j] => i = j
        /\ \A i \in 2 .. k + 1 : w[i] \notin v /\ types[w[i]].fields # {}
    BY <1>1, <1>7 DEF Chosen, w
  <2>2. m # None /\ types[m].kind \in Imports!Composite /\ m \notin v /\ types[m].fields # {}
    <3>1. 2 \in 1 .. k + 1
      BY <1>4
    <3> QED
      BY <1>5, <1>6, <2>1, <3>1
  <2>3. PICK f \in types[n].fields : f.name = x /\ Imports!Selectable(types, f) /\ m = f.type.name
    BY <2>2, FieldsAsked
  <2>4. DeepField(types, f, v)
    BY <2>2, <2>3 DEF DeepField, Imports!Composite, Imports!Leaf
  <2>5. d > 1 /\ k \in 1 .. d - 1
    BY <1>4, <2>1
  <2>6. \A i \in 1..k : u[i] # None /\ types[u[i]].kind \in Imports!Composite
    BY <1>1, <1>5, <2>1
  <2>7. u[k] = w[k + 1] /\ p[k + 1] = q[k]
    BY <1>1, <1>5
  <2>8. \A i, j \in 1..k : u[i] = u[j] => i = j
    <3> SUFFICES ASSUME NEW i \in 1..k, NEW j \in 1..k, u[i] = u[j]
                 PROVE  i = j
      OBVIOUS
    <3>1. w[i + 1] = w[j + 1] /\ i + 1 \in 1 .. k + 1 /\ j + 1 \in 1 .. k + 1
      BY <1>1, <1>5
    <3>2. i + 1 = j + 1
      BY <2>1, <3>1
    <3> QED
      BY <3>2
  <2>9. \A i \in 2..k : u[i] \notin v \cup {m} /\ types[u[i]].fields # {}
    <3> SUFFICES ASSUME NEW i \in 2..k
                 PROVE  u[i] \notin v \cup {m} /\ types[u[i]].fields # {}
      OBVIOUS
    <3>1. i \in 1..k /\ i # 1 /\ i + 1 \in 2 .. k + 1 /\ u[i] = w[i + 1]
      BY <1>1, <1>4, <1>5
    <3>2. u[i] # m
      BY <1>4, <1>5, <2>8, <3>1
    <3> QED
      BY <2>1, <3>1, <3>2
  <2>10. Chosen(types, m, d - 1, v \cup {m}, q)
    <3> HIDE DEF m
    <3> QED
      BY <2>1, <2>5, <2>6, <2>7, <2>8, <2>9 DEF Chosen, u, k
  <2> HIDE DEF m
  <2> QED
    BY <2>3, <2>4, <2>5, <2>10
<1>8. ASSUME NEW f \in types[n].fields, d > 1, DeepField(types, f, v), f.name = x,
             Chosen(types, f.type.name, d - 1, v \cup {f.type.name}, q)
      PROVE  Chosen(types, n, d, v, p)
  <2>1. m = f.type.name /\ m \notin v /\ types[m].fields # {}
    BY <1>8, FieldsAsked DEF DeepField
  <2> HIDE DEF m
  <2>2. Chosen(types, m, d - 1, v \cup {m}, q)
    BY <1>8, <2>1
  <2>3. /\ k \in 1 .. d - 1
        /\ \A i \in 1..k : u[i] # None /\ types[u[i]].kind \in Imports!Composite
        /\ \/ q[k] = "__typename"
           \/ /\ Had(types, u[k], q[k]) # None
              /\ types[Had(types, u[k], q[k])].kind \in Imports!Leaf
        /\ \A i, j \in 1..k : u[i] = u[j] => i = j
        /\ \A i \in 2..k : u[i] \notin v \cup {m} /\ types[u[i]].fields # {}
    BY <2>2 DEF Chosen, u, k
  <2>4. k + 1 \in 1..d
    BY <2>3
  <2>5. \A i \in 2 .. k + 1 : w[i] = u[i - 1]
    BY <1>1, <1>5
  <2>6. \A i \in 1 .. k + 1 : w[i] # None /\ types[w[i]].kind \in Imports!Composite
    <3> SUFFICES ASSUME NEW i \in 1 .. k + 1
                 PROVE  w[i] # None /\ types[w[i]].kind \in Imports!Composite
      OBVIOUS
    <3>1. CASE i = 1
      BY <1>2, <1>3, <3>1
    <3>2. CASE i # 1
      <4>1. i \in 2 .. k + 1 /\ i - 1 \in 1..k
        BY <1>4, <3>2
      <4> QED
        BY <2>3, <2>5, <4>1
    <3> QED
      BY <3>1, <3>2
  <2>7. \A i \in 2 .. k + 1 : w[i] \notin v /\ types[w[i]].fields # {}
    <3> SUFFICES ASSUME NEW i \in 2 .. k + 1
                 PROVE  w[i] \notin v /\ types[w[i]].fields # {}
      OBVIOUS
    <3>1. CASE i = 2
      BY <1>6, <2>1, <3>1
    <3>2. CASE i # 2
      <4>1. i - 1 \in 2..k
        BY <1>4, <3>2
      <4> QED
        BY <2>3, <2>5, <4>1
    <3> QED
      BY <3>1, <3>2
  <2>8. \A i, j \in 1 .. k + 1 : w[i] = w[j] => i = j
    <3> SUFFICES ASSUME NEW i \in 1 .. k + 1, NEW j \in 1 .. k + 1, w[i] = w[j]
                 PROVE  i = j
      OBVIOUS
    <3>1. i = 1 \/ i \in 2 .. k + 1
      BY <1>4
    <3>2. j = 1 \/ j \in 2 .. k + 1
      BY <1>4
    <3>3. CASE i = 1 \/ j = 1
      BY <1>3, <2>7, <3>1, <3>2, <3>3
    <3>4. CASE i \in 2 .. k + 1 /\ j \in 2 .. k + 1
      <4>1. u[i - 1] = u[j - 1] /\ i - 1 \in 1..k /\ j - 1 \in 1..k
        BY <1>5, <2>5, <3>4
      <4>2. i - 1 = j - 1
        BY <2>3, <4>1
      <4> QED
        BY <4>2
    <3> QED
      BY <3>1, <3>2, <3>3, <3>4
  <2>9. u[k] = w[k + 1] /\ p[k + 1] = q[k]
    BY <1>1, <1>5
  <2> QED
    BY <1>1, <2>3, <2>4, <2>6, <2>7, <2>8, <2>9 DEF Chosen, w
<1> HIDE DEF m
<1> QED
  BY <1>7, <1>8 DEF p, Goes

\* A selection of depth d from an object of v consists of the paths chosen.
Exact(types, d) ==
    \A n \in DOMAIN types, v \in SUBSET DOMAIN types :
      n \in v /\ types[n].kind \in Imports!Composite =>
      \A p : p \in Imports!SelectionForObject(types, n, d, v) <=>
               p \in Seq(StepNames(types)) /\ p # <<>> /\ Chosen(types, n, d, v, p)

\* An object that is not a leaf and not an input has fields to select.
LEMMA DeepIsComposite ==
    ASSUME NEW types, Imports!WellTyped(types), NEW n \in DOMAIN types,
           NEW f \in types[n].fields, types[f.type.name].kind \notin Imports!Leaf
    PROVE  f.type.name \in DOMAIN types /\ types[f.type.name].kind \in Imports!Composite
<1>1. f.type.name \in DOMAIN types
  BY FieldsAsked
<1> QED
  BY <1>1 DEF Imports!WellTyped

\* A selection is exact if those one level down are.
LEMMA ExactStep ==
    ASSUME NEW types, Imports!WellTyped(types), NEW d \in 1..4, d > 1 => Exact(types, d - 1)
    PROVE  Exact(types, d)
<1> SUFFICES ASSUME NEW n \in DOMAIN types, NEW v \in SUBSET DOMAIN types, n \in v,
                    types[n].kind \in Imports!Composite, NEW p
             PROVE  p \in Imports!SelectionForObject(types, n, d, v) <=>
                      p \in Seq(StepNames(types)) /\ p # <<>> /\ Chosen(types, n, d, v, p)
  BY DEF Exact
<1> DEFINE S == StepNames(types)
<1>1. "__typename" \in S /\ \A f \in types[n].fields : f.name \in S
  BY DEF StepNames, Imports!FieldNames
<1> HIDE DEF S
<1>2. ASSUME NEW f \in types[n].fields, d > 1, DeepField(types, f, v)
      PROVE  \A q : q \in Below(types, f, d, v) <=>
                      /\ q \in Seq(S) /\ q # <<>>
                      /\ Chosen(types, f.type.name, d - 1, v \cup {f.type.name}, q)
  <2>1. f.type.name \in DOMAIN types /\ types[f.type.name].kind \in Imports!Composite
    BY <1>2, DeepIsComposite DEF DeepField
  <2>2. v \cup {f.type.name} \in SUBSET DOMAIN types /\ f.type.name \in v \cup {f.type.name}
    BY <2>1
  <2>3. Exact(types, d - 1)
    BY <1>2
  <2> QED
    BY <2>1, <2>2, <2>3 DEF Exact, Below, S
<1>3. ASSUME p \in Imports!SelectionForObject(types, n, d, v)
      PROVE  p \in Seq(S) /\ p # <<>> /\ Chosen(types, n, d, v, p)
  <2>1. CASE p = <<"__typename">>
    <3>1. Chosen(types, n, d, v, <<"__typename">>)
      BY <1>1, ChosenOne DEF S
    <3> QED
      BY <1>1, <2>1, <3>1
  <2>2. ASSUME NEW f \in types[n].fields, LeafField(types, f), p = <<f.name>>
        PROVE  p \in Seq(S) /\ p # <<>> /\ Chosen(types, n, d, v, p)
    <3>1. Chosen(types, n, d, v, <<f.name>>)
      BY <1>1, <2>2, ChosenOne DEF S
    <3> QED
      BY <1>1, <2>2, <3>1
  <2>3. ASSUME NEW f \in types[n].fields, d > 1, DeepField(types, f, v),
               NEW q \in Below(types, f, d, v), p = <<f.name>> \o q
        PROVE  p \in Seq(S) /\ p # <<>> /\ Chosen(types, n, d, v, p)
    <3>1. /\ q \in Seq(S) /\ q # <<>>
          /\ Chosen(types, f.type.name, d - 1, v \cup {f.type.name}, q)
      BY <1>2, <2>3
    <3>2. Chosen(types, n, d, v, <<f.name>> \o q)
      BY <1>1, <2>3, <3>1, ChosenMore DEF S, Goes
    <3>3. <<f.name>> \o q \in Seq(S) /\ <<f.name>> \o q # <<>>
      BY <1>1, <3>1, WayCons
    <3> QED
      BY <2>3, <3>2, <3>3
  <2> QED
    BY <1>3, <2>1, <2>2, <2>3, SelectionOf DEF Picks
<1>4. ASSUME p \in Seq(S), p # <<>>, Chosen(types, n, d, v, p)
      PROVE  p \in Imports!SelectionForObject(types, n, d, v)
  <2>1. PICK x \in S, q \in Seq(S) : p = <<x>> \o q
    <3>1. Head(p) \in S /\ Tail(p) \in Seq(S) /\ p = <<Head(p)>> \o Tail(p)
      BY <1>4
    <3> QED
      BY <3>1, Zenon
  <2>2. CASE q = <<>>
    <3>1. p = <<x>>
      BY <2>1, <2>2
    <3>2. Chosen(types, n, d, v, <<x>>) /\ x \in StepNames(types)
      BY <1>4, <2>1, <3>1 DEF S
    <3>3. \/ x = "__typename"
          \/ \E f \in types[n].fields : LeafField(types, f) /\ f.name = x
      BY <3>2, ChosenOne
    <3> QED
      BY <3>1, <3>3, SelectionOf DEF Picks
  <2>3. CASE q # <<>>
    <3>1. Chosen(types, n, d, v, <<x>> \o q)
      BY <1>4, <2>1
    <3>2. PICK f \in types[n].fields :
            /\ d > 1 /\ DeepField(types, f, v) /\ f.name = x
            /\ Chosen(types, f.type.name, d - 1, v \cup {f.type.name}, q)
      <4>1. x \in StepNames(types) /\ q \in Seq(StepNames(types))
        BY <2>1 DEF S
      <4>2. Goes(types, n, d, v, x, q)
        BY <2>3, <3>1, <4>1, ChosenMore
      <4> QED
        BY <4>2, Zenon DEF Goes
    <3>3. q \in Below(types, f, d, v)
      BY <1>2, <2>1, <2>3, <3>2
    <3> QED
      BY <2>1, <3>2, <3>3, SelectionOf DEF Picks
  <2> QED
    BY <2>2, <2>3
<1> QED
  BY <1>3, <1>4 DEF S

\* Every selection is exact: the recursion of selectionForObject() ends after four levels.
LEMMA SelectionExact ==
    ASSUME NEW types, Imports!WellTyped(types), NEW d \in 1..4
    PROVE  Exact(types, d)
<1>1. Exact(types, 1)
  BY ExactStep
<1>2. Exact(types, 2)
  BY <1>1, ExactStep
<1>3. Exact(types, 3)
  BY <1>2, ExactStep
<1>4. Exact(types, 4)
  BY <1>3, ExactStep
<1>5. d = 1 \/ d = 2 \/ d = 3 \/ d = 4
  OBVIOUS
<1> QED
  BY <1>1, <1>2, <1>3, <1>4, <1>5

\* The paths chosen, in the terms of the reference definition.
LEMMA ChosenSelects ==
    ASSUME NEW types, Imports!WellTyped(types), NEW n \in DOMAIN types, NEW d \in 1..4,
           NEW S, NEW p \in Seq(S), p # <<>>
    PROVE  Chosen(types, n, d, {n}, p) <=>
             /\ Len(p) <= d /\ HadSelects(types, n, p)
             /\ Imports!IsInjective(Way(types, n, p))
             /\ \A i \in 2 .. Len(p) : types[Way(types, n, p)[i]].fields # {}
<1> DEFINE w == Way(types, n, p)
           k == Len(p)
<1>0. n \in DOMAIN types \cup {None}
  OBVIOUS
<1>1. w \in [1..k -> DOMAIN types \cup {None}] /\ w[1] = n /\ k \in Nat /\ k >= 1
  BY <1>0, WaySteps
<1> HIDE DEF w
<1>2. DOMAIN w = 1..k /\ Len(w) = k
  <2>1. w \in Seq(DOMAIN types \cup {None})
    BY <1>1
  <2> QED
    BY <1>1, <2>1
<1>3. Imports!Last(w) = w[k] /\ Imports!Last(p) = p[k]
  BY <1>2 DEF Imports!Last
<1>4. None \notin Imports!ToSet(w) <=> \A i \in 1..k : w[i] # None
  BY <1>2 DEF Imports!ToSet
<1>5. HadSelects(types, n, p) <=>
        /\ \A i \in 1..k : w[i] # None /\ types[w[i]].kind \in Imports!Composite
        /\ \/ p[k] = "__typename"
           \/ /\ Had(types, w[k], p[k]) # None
              /\ types[Had(types, w[k], p[k])].kind \in Imports!Leaf
  BY <1>2, <1>3, <1>4 DEF HadSelects, Way, w
<1>6. Imports!IsInjective(w) <=> \A i, j \in 1..k : w[i] = w[j] => i = j
  BY <1>2 DEF Imports!IsInjective
<1>7. (\A i, j \in 1..k : w[i] = w[j] => i = j) => \A i \in 2..k : w[i] \notin {n}
  BY <1>1
<1> QED
  BY <1>1, <1>5, <1>6, <1>7 DEF Chosen, w

\* A tool selects the paths chosen from the type of its field.
LEMMA ToolSelects ==
    ASSUME NEW types, Imports!WellTyped(types), NEW n \in DOMAIN types,
           NEW f \in types[n].fields, NEW d \in 1..4, NEW operation
    PROVE  LET m == f.type.name
               selection == Imports!FieldToTool(types, operation, f, d).selection
           IN  /\ types[m].kind \in Imports!Leaf => selection = {}
               /\ types[m].kind \notin Imports!Leaf =>
                    \A p : p \in selection <=>
                      /\ p \in Seq(StepNames(types)) /\ p # <<>>
                      /\ Chosen(types, m, d, {m}, p)
<1> DEFINE m == f.type.name
           t == Imports!TypeRef(types, f.type)
           selection == Imports!FieldToTool(types, operation, f, d).selection
<1>1. f.type \in Imports!TypeRefs(types)
  BY DEF Imports!WellTyped
<1>2. t.name = m /\ t.kind = types[m].kind /\ m \in DOMAIN types /\ m # None
  BY <1>1, RefRead
<1>3. selection = Imports!BuildSelection(types, t, d)
  BY DEF Imports!FieldToTool
<1> HIDE DEF selection, t
<1>4. CASE types[m].kind \in Imports!Leaf
  <2>1. selection = {}
    BY <1>2, <1>3, <1>4 DEF Imports!BuildSelection
  <2> QED
    BY <1>4, <2>1 DEF selection
<1>5. CASE types[m].kind \notin Imports!Leaf
  <2>1. types[m].kind \in Imports!Composite
    BY <1>5, DeepIsComposite
  <2>2. Exact(types, d)
    BY SelectionExact
  <2> HIDE DEF m
  <2>3. {m} \in SUBSET DOMAIN types /\ m \in {m}
    BY <1>2
  <2>4. \A p : p \in Imports!SelectionForObject(types, m, d, {m}) <=>
                 p \in Seq(StepNames(types)) /\ p # <<>> /\ Chosen(types, m, d, {m}, p)
    BY <1>2, <2>1, <2>2, <2>3 DEF Exact
  <2>5. CASE types[m].fields # {}
    <3>1. selection = Imports!SelectionForObject(types, m, d, {m})
      BY <1>2, <1>3, <1>5, <2>5 DEF Imports!BuildSelection
    <3> QED
      BY <1>5, <2>4, <3>1 DEF selection, m
  <2>6. CASE types[m].fields = {}
    <3>1. selection = {<<"__typename">>}
      BY <1>2, <1>3, <1>5, <2>6 DEF Imports!BuildSelection
    <3>2. \A p : p \in Imports!SelectionForObject(types, m, d, {m}) <=> p = <<"__typename">>
      <4>1. \A g : g \notin types[m].fields
        BY <2>6
      <4>2. ASSUME NEW v \in SUBSET DOMAIN types, NEW p
            PROVE  p \in Imports!SelectionForObject(types, m, d, v) <=> p = <<"__typename">>
        <5>1. p \in Imports!SelectionForObject(types, m, d, v) <=> Picks(types, m, d, v, p)
          BY <1>2, SelectionOf
        <5> QED
          BY <4>1, <5>1, Zenon DEF Picks
      <4> QED
        BY <2>3, <4>2, Zenon
    <3>3. \A p : p \in selection <=>
                   p \in Seq(StepNames(types)) /\ p # <<>> /\ Chosen(types, m, d, {m}, p)
      <4>1. \A p : p \in selection <=> p = <<"__typename">>
        BY <3>1
      <4> QED
        BY <2>4, <3>2, <4>1, Zenon
    <3> QED
      BY <1>5, <3>3 DEF selection, m
  <2> QED
    BY <2>5, <2>6
<1> QED
  BY <1>4, <1>5

\* The reference definition and the one without default values, a field at a time.
LEMMA FieldSteps ==
    ASSUME NEW types, Imports!WellTyped(types), NEW n \in DOMAIN types, NEW x
    PROVE  /\ Imports!Asked(types, n, x) \in DOMAIN types \cup {None}
           /\ Had(types, n, x) # None => Imports!Asked(types, n, x) = Had(types, n, x)
           /\ Imports!Asked(types, n, x) # None /\ Imports!Undefaulted(types, n, x) =>
                Had(types, n, x) = Imports!Asked(types, n, x)
<1> DEFINE fs == {f \in types[n].fields : f.name = x /\ \A a \in f.args : ~Imports!Required(a)}
           gs == {f \in types[n].fields : f.name = x /\ \A a \in f.args : ~NonNull(a)}
<1>1. /\ n # None /\ None \notin DOMAIN types
      /\ \A f, g \in types[n].fields : f.name = g.name => f = g
      /\ \A f \in types[n].fields : f.type.name \in DOMAIN types
  BY DEF Imports!WellTyped, Imports!TypeRefs
<1>2. gs \subseteq fs
  BY DEF Imports!Required, NonNull
<1>3. Imports!Undefaulted(types, n, x) => gs = fs
  <2> SUFFICES ASSUME Imports!Undefaulted(types, n, x), NEW f \in fs, NEW a \in f.args
               PROVE  ~NonNull(a)
    BY <1>2
  <2>1. a.default \in BOOLEAN
    BY DEF Imports!WellTyped, Imports!InputsOf
  <2> QED
    BY <2>1 DEF Imports!Undefaulted, Imports!Required, NonNull
<1>4. ASSUME NEW f \in fs
      PROVE  Imports!Asked(types, n, x) = f.type.name
  <2>1. \A g \in fs : g = f
    BY <1>1
  <2>2. (CHOOSE g \in fs : TRUE) = f
    BY <2>1, Zenon
  <2>3. fs # {}
    OBVIOUS
  <2> HIDE DEF fs
  <2>4. Imports!Asked(types, n, x) = (CHOOSE g \in fs : TRUE).type.name
    BY <1>1, <2>3 DEF Imports!Asked, fs
  <2> QED
    BY <2>2, <2>4
<1>5. ASSUME NEW f \in gs
      PROVE  Had(types, n, x) = f.type.name
  <2>1. \A g \in gs : g = f
    BY <1>1
  <2>2. (CHOOSE g \in gs : TRUE) = f
    BY <2>1, Zenon
  <2>3. gs # {}
    OBVIOUS
  <2> HIDE DEF gs
  <2>4. Had(types, n, x) = (CHOOSE g \in gs : TRUE).type.name
    BY <1>1, <2>3 DEF Had, gs
  <2> QED
    BY <2>2, <2>4
<1>6. /\ fs = {} => Imports!Asked(types, n, x) = None
      /\ gs = {} => Had(types, n, x) = None
  BY DEF Imports!Asked, Had
<1>7. \A f \in fs : f.type.name \in DOMAIN types
  BY <1>1
<1> HIDE DEF fs, gs
<1>8. Imports!Asked(types, n, x) \in DOMAIN types \cup {None}
  BY <1>4, <1>6, <1>7
<1>9. Had(types, n, x) # None => Imports!Asked(types, n, x) = Had(types, n, x)
  BY <1>2, <1>4, <1>5, <1>6
<1>10. Imports!Asked(types, n, x) # None /\ gs = fs => Had(types, n, x) = Imports!Asked(types, n, x)
  BY <1>4, <1>5, <1>6
<1> QED
  BY <1>3, <1>8, <1>9, <1>10

\* The way along a path has a type, or none, for each step.
LEMMA TrailSteps ==
    ASSUME NEW types, Imports!WellTyped(types), NEW root \in DOMAIN types \cup {None},
           NEW S, NEW p \in Seq(S)
    PROVE  LET w == Imports!Trail(types, root, p)
           IN  /\ w \in [1 .. Len(p) + 1 -> DOMAIN types \cup {None}]
               /\ w[1] = root
               /\ \A i \in 1 .. Len(p) : w[i + 1] = Imports!Asked(types, w[i], p[i])
<1> DEFINE V == DOMAIN types \cup {None}
           n == Len(p)
           next == [x \in (1..n) \X V |-> Imports!Asked(types, x[2], p[x[1]])]
           Walk(w) == [i \in 1 .. n + 1 |-> IF i = 1 THEN root
                                           ELSE Imports!Asked(types, w[i - 1], p[i - 1])]
<1>0. n \in Nat
  OBVIOUS
<1>1. \A m \in V : \A x : Imports!Asked(types, m, x) \in V
  <2> SUFFICES ASSUME NEW m \in V, NEW x PROVE Imports!Asked(types, m, x) \in V
    OBVIOUS
  <2>1. CASE m \in DOMAIN types
    BY <2>1, FieldSteps
  <2>2. CASE m = None
    BY <2>2 DEF Imports!Asked
  <2> QED
    BY <2>1, <2>2
<1>2. next \in [(1..n) \X V -> V]
  <2> HIDE DEF V
  <2>1. \A x \in (1..n) \X V : Imports!Asked(types, x[2], p[x[1]]) \in V
    BY <1>1
  <2> QED
    BY <2>1
<1>3. \A i \in 1..n, m \in V : next[<<i, m>>] = Imports!Asked(types, m, p[i])
  <2> HIDE DEF V
  <2> QED
    OBVIOUS
<1>4. PICK w : /\ w \in [1 .. n + 1 -> V] /\ w[1] = root
               /\ \A i \in 1..n : w[i + 1] = next[<<i, w[i]>>]
  <2>1. root \in V
    OBVIOUS
  <2> HIDE DEF next, n, V
  <2>2. Steps(next, V, n)
    BY <1>2 DEF Steps
  <2>3. PICK w : Chain(w, root, next, V, n)
    BY <1>0, <2>1, <2>2, ChainExists
  <2> QED
    BY <2>3 DEF Chain
<1>5. w = Walk(w)
  <2>1. \A i \in 2 .. n + 1 : w[i] = Imports!Asked(types, w[i - 1], p[i - 1])
    <3> SUFFICES ASSUME NEW i \in 2 .. n + 1
                 PROVE  w[i] = Imports!Asked(types, w[i - 1], p[i - 1])
      OBVIOUS
    <3>1. i - 1 \in 1..n /\ i - 1 + 1 = i /\ w[i - 1] \in V
      BY <1>0, <1>4
    <3>2. w[i - 1 + 1] = next[<<i - 1, w[i - 1]>>]
      BY <1>4, <3>1
    <3> QED
      BY <1>3, <3>1, <3>2
  <2>2. \A i \in 1 .. n + 1 : w[i] = Walk(w)[i]
    BY <1>0, <1>4, <2>1
  <2>3. w = [i \in 1 .. n + 1 |-> w[i]]
    BY <1>4
  <2> QED
    BY <2>2, <2>3
<1> DEFINE t == Imports!Trail(types, root, p)
<1>6. t = Walk(t)
  <2>1. t = CHOOSE f : f = Walk(f)
    BY Zenon DEF Imports!Trail
  <2> HIDE DEF t, Walk
  <2> QED
    BY <1>5, <2>1
<1> HIDE DEF t
<1>7. \A i \in 1 .. n + 1 :
        t[i] = IF i = 1 THEN root ELSE Imports!Asked(types, t[i - 1], p[i - 1])
  BY <1>6
<1>8. t[1] = root
  BY <1>0, <1>7
<1>9. \A i \in 1..n : t[i + 1] = Imports!Asked(types, t[i], p[i])
  <2> SUFFICES ASSUME NEW i \in 1..n PROVE t[i + 1] = Imports!Asked(types, t[i], p[i])
    OBVIOUS
  <2>1. i + 1 \in 1 .. n + 1 /\ i + 1 # 1 /\ i + 1 - 1 = i
    BY <1>0
  <2> QED
    BY <1>7, <2>1
<1>10. \A i \in 1..n : t[i] = w[i] => t[i + 1] = w[i + 1]
  <2> HIDE DEF V, next, Walk
  <2>1. \A i \in 1..n : w[i] \in V
    BY <1>0, <1>4
  <2> QED
    BY <1>3, <1>4, <1>9, <2>1
<1>11. \A i \in 1 .. n + 1 : t[i] = w[i]
  <2>1. Alike(t, w, n)
    BY <1>4, <1>8, <1>10 DEF Alike
  <2> HIDE DEF n
  <2> QED
    BY <1>0, <2>1, ChainUnique
<1>12. t \in [1 .. n + 1 -> V]
  <2>1. t = [i \in 1 .. n + 1 |-> t[i]]
    <3> HIDE DEF V
    <3> QED
      BY <1>6
  <2> HIDE DEF V, n
  <2>2. \A i \in 1 .. n + 1 : t[i] \in V
    BY <1>4, <1>11
  <2> QED
    BY <2>1, <2>2
<1> QED
  BY <1>8, <1>9, <1>12 DEF t

\* Where one goes on like the other at every step, they go the same way.
LEMMA SameTrail ==
    ASSUME NEW types, Imports!WellTyped(types), NEW root \in DOMAIN types,
           NEW S, NEW p \in Seq(S), NEW w,
           w = HadTrail(types, root, p) \/ w = Imports!Trail(types, root, p),
           \A i \in 1 .. Len(p) : Had(types, w[i], p[i]) = Imports!Asked(types, w[i], p[i])
    PROVE  Imports!Trail(types, root, p) = HadTrail(types, root, p)
<1> DEFINE u == HadTrail(types, root, p)
           t == Imports!Trail(types, root, p)
           n == Len(p)
           V == DOMAIN types \cup {None}
<1>1. n \in Nat /\ root \in V
  OBVIOUS
<1>2. /\ u \in [1 .. n + 1 -> V] /\ u[1] = root
      /\ \A i \in 1..n : u[i + 1] = Had(types, u[i], p[i])
  BY <1>1, HadSteps
<1>3. /\ t \in [1 .. n + 1 -> V] /\ t[1] = root
      /\ \A i \in 1..n : t[i + 1] = Imports!Asked(types, t[i], p[i])
  BY <1>1, TrailSteps
<1>4. w = u \/ w = t
  OBVIOUS
<1> HIDE DEF u, t, n, V
<1>5. \A i \in 1..n : Had(types, w[i], p[i]) = Imports!Asked(types, w[i], p[i])
  BY DEF n
<1>6. Alike(u, t, n)
  BY <1>2, <1>3, <1>4, <1>5 DEF Alike
<1>7. \A i \in 1 .. n + 1 : u[i] = t[i]
  BY <1>1, <1>6, ChainUnique
<1>8. u = [i \in 1 .. n + 1 |-> u[i]] /\ t = [i \in 1 .. n + 1 |-> t[i]]
  BY <1>2, <1>3
<1>9. u = t
  BY <1>7, <1>8
<1> QED
  BY <1>9 DEF u, t

\* The way of a path, and where it ends, in each of the two.
LEMMA WayEnds ==
    ASSUME NEW types, Imports!WellTyped(types), NEW n \in DOMAIN types,
           NEW S, NEW p \in Seq(S), p # <<>>, NEW w,
           w = Way(types, n, p) \/ w = Imports!Trail(types, n, Imports!Front(p))
    PROVE  LET k == Len(p)
           IN  /\ w \in [1..k -> DOMAIN types \cup {None}] /\ k \in Nat /\ k >= 1
               /\ Imports!Last(w) = w[k] /\ Imports!Last(p) = p[k]
               /\ None \notin Imports!ToSet(w) <=> \A i \in 1..k : w[i] \in DOMAIN types
<1> DEFINE k == Len(p)
           r == Imports!Front(p)
<1>0. None \notin DOMAIN types /\ n \in DOMAIN types \cup {None}
  BY DEF Imports!WellTyped
<1>1. k \in Nat /\ k >= 1 /\ r \in Seq(S) /\ Len(r) + 1 = k
  BY FrontSeq
<1> HIDE DEF r
<1>2. Imports!Trail(types, n, r) \in [1 .. Len(r) + 1 -> DOMAIN types \cup {None}]
  BY <1>0, <1>1, TrailSteps, Zenon
<1>3. HadTrail(types, n, r) \in [1 .. Len(r) + 1 -> DOMAIN types \cup {None}]
  BY <1>0, <1>1, HadSteps, Zenon
<1>4. w \in [1..k -> DOMAIN types \cup {None}]
  BY <1>1, <1>2, <1>3 DEF Way, r
<1>5. Len(w) = k /\ DOMAIN w = 1..k
  <2>1. w \in Seq(DOMAIN types \cup {None})
    BY <1>1, <1>4
  <2> QED
    BY <1>1, <1>4, <2>1
<1>6. Imports!Last(w) = w[k] /\ Imports!Last(p) = p[k]
  BY <1>5 DEF Imports!Last
<1>7. None \notin Imports!ToSet(w) <=> \A i \in 1..k : w[i] \in DOMAIN types
  BY <1>0, <1>4, <1>5 DEF Imports!ToSet
<1> QED
  BY <1>1, <1>4, <1>6, <1>7

\* What can be had without default values can be had with them.
LEMMA HadIsSelected ==
    ASSUME NEW types, Imports!WellTyped(types), NEW n \in DOMAIN types,
           NEW S, NEW p \in Seq(S), p # <<>>, HadSelects(types, n, p)
    PROVE  /\ Imports!Selects(types, n, p)
           /\ Imports!Trail(types, n, Imports!Front(p)) = Way(types, n, p)
<1> DEFINE k == Len(p)
           r == Imports!Front(p)
           w == Way(types, n, p)
<1>1. n \in DOMAIN types \cup {None} /\ None \notin DOMAIN types
  BY DEF Imports!WellTyped
<1>2. /\ r \in Seq(S) /\ Len(r) = k - 1 /\ \A i \in 1 .. k - 1 : r[i] = p[i]
  BY FrontSeq
<1> HIDE DEF r
<1>3. \A i \in 1 .. Len(r) : w[i + 1] = Had(types, w[i], r[i])
  <2>1. \A i \in 1 .. Len(r) : HadTrail(types, n, r)[i + 1]
                                 = Had(types, HadTrail(types, n, r)[i], r[i])
    BY <1>1, <1>2, HadSteps
  <2> QED
    BY <2>1 DEF Way, r
<1> HIDE DEF w
<1>4. /\ w \in [1..k -> DOMAIN types \cup {None}] /\ k \in Nat /\ k >= 1
      /\ Imports!Last(w) = w[k] /\ Imports!Last(p) = p[k]
      /\ None \notin Imports!ToSet(w) <=> \A i \in 1..k : w[i] \in DOMAIN types
  BY WayEnds DEF w
<1>5. /\ None \notin Imports!ToSet(w)
      /\ \A i \in DOMAIN w : types[w[i]].kind \in Imports!Composite
      /\ \/ p[k] = "__typename"
         \/ /\ Had(types, w[k], p[k]) # None
            /\ types[Had(types, w[k], p[k])].kind \in Imports!Leaf
  BY <1>4 DEF HadSelects, Way, w
<1>6. ASSUME NEW i \in 1 .. Len(r)
      PROVE  Had(types, w[i], r[i]) = Imports!Asked(types, w[i], r[i])
  <2>1. i \in 1..k /\ i + 1 \in 1..k
    BY <1>2, <1>4
  <2>2. w[i] \in DOMAIN types /\ Had(types, w[i], r[i]) # None
    BY <1>1, <1>3, <1>4, <1>5, <2>1
  <2> QED
    BY <2>2, FieldSteps
<1>7. Imports!Trail(types, n, r) = HadTrail(types, n, r)
  <2>1. w = HadTrail(types, n, r)
    BY DEF w, Way, r
  <2> QED
    BY <1>2, <1>6, <2>1, SameTrail
<1>8. w = Imports!Trail(types, n, Imports!Front(p))
  BY <1>7 DEF w, Way, r
<1>9. Had(types, w[k], p[k]) # None => Imports!Asked(types, w[k], p[k]) = Had(types, w[k], p[k])
  <2>1. w[k] \in DOMAIN types
    BY <1>4, <1>5
  <2> QED
    BY <2>1, FieldSteps
<1>10. Imports!Selects(types, n, p)
  BY <1>4, <1>5, <1>8, <1>9 DEF Imports!Selects
<1> QED
  BY <1>8, <1>10 DEF w

\* And the other way round, where no default value is on the way.
LEMMA SelectedIsHad ==
    ASSUME NEW types, Imports!WellTyped(types), NEW n \in DOMAIN types,
           NEW S, NEW p \in Seq(S), p # <<>>, Imports!Selects(types, n, p),
           \A i \in 1 .. Len(p) :
             Imports!Undefaulted(types, Imports!Trail(types, n, Imports!Front(p))[i], p[i])
    PROVE  /\ HadSelects(types, n, p)
           /\ Imports!Trail(types, n, Imports!Front(p)) = Way(types, n, p)
<1> DEFINE k == Len(p)
           r == Imports!Front(p)
           w == Imports!Trail(types, n, Imports!Front(p))
<1>0. \A i \in 1..k : Imports!Undefaulted(types, w[i], p[i])
  OBVIOUS
<1>1. n \in DOMAIN types \cup {None} /\ None \notin DOMAIN types
  BY DEF Imports!WellTyped
<1>2. /\ r \in Seq(S) /\ Len(r) = k - 1 /\ \A i \in 1 .. k - 1 : r[i] = p[i]
  BY FrontSeq
<1> HIDE DEF r
<1>3. \A i \in 1 .. Len(r) : w[i + 1] = Imports!Asked(types, w[i], r[i])
  <2>1. \A i \in 1 .. Len(r) : Imports!Trail(types, n, r)[i + 1]
                                 = Imports!Asked(types, Imports!Trail(types, n, r)[i], r[i])
    BY <1>1, <1>2, TrailSteps
  <2> QED
    BY <2>1 DEF r
<1> HIDE DEF w
<1>4. /\ w \in [1..k -> DOMAIN types \cup {None}] /\ k \in Nat /\ k >= 1
      /\ Imports!Last(w) = w[k] /\ Imports!Last(p) = p[k]
      /\ None \notin Imports!ToSet(w) <=> \A i \in 1..k : w[i] \in DOMAIN types
  BY WayEnds DEF w
<1>5. /\ None \notin Imports!ToSet(w)
      /\ \A i \in DOMAIN w : types[w[i]].kind \in Imports!Composite
      /\ \/ p[k] = "__typename"
         \/ /\ Imports!Asked(types, w[k], p[k]) # None
            /\ types[Imports!Asked(types, w[k], p[k])].kind \in Imports!Leaf
  BY <1>4 DEF Imports!Selects, w
<1>6. ASSUME NEW i \in 1 .. Len(r)
      PROVE  Had(types, w[i], r[i]) = Imports!Asked(types, w[i], r[i])
  <2>1. i \in 1..k /\ i + 1 \in 1..k /\ r[i] = p[i]
    BY <1>2, <1>4
  <2>2. w[i] \in DOMAIN types /\ Imports!Asked(types, w[i], r[i]) # None
    BY <1>1, <1>3, <1>4, <1>5, <2>1
  <2>3. Imports!Undefaulted(types, w[i], r[i])
    BY <1>0, <2>1
  <2> QED
    BY <2>2, <2>3, FieldSteps
<1>7. Imports!Trail(types, n, r) = HadTrail(types, n, r)
  <2>1. w = Imports!Trail(types, n, r)
    BY DEF w, r
  <2> QED
    BY <1>2, <1>6, <2>1, SameTrail
<1>8. w = Way(types, n, p)
  BY <1>7 DEF w, Way, r
<1>9. Imports!Asked(types, w[k], p[k]) # None =>
        Had(types, w[k], p[k]) = Imports!Asked(types, w[k], p[k])
  <2>1. w[k] \in DOMAIN types /\ k \in 1..k
    BY <1>4, <1>5
  <2> QED
    BY <1>0, <2>1, FieldSteps
<1>10. HadSelects(types, n, p)
  BY <1>4, <1>5, <1>8, <1>9 DEF HadSelects, Way
<1> QED
  BY <1>8, <1>10 DEF w

\* What is sent for a tool of a field, whichever arguments are given.
LEMMA DocumentOf ==
    ASSUME NEW types, Imports!WellTyped(types), NEW n \in DOMAIN types,
           NEW f \in types[n].fields, NEW d \in 1..4, NEW operation, NEW given
    PROVE  LET tool == Imports!FieldToTool(types, operation, f, d)
               variables == Imports!Provided(tool, given)
               names == {v.name : v \in variables}
           IN  /\ variables \subseteq {[name |-> a.name, type |-> a.type] : a \in f.args}
               /\ \A a \in f.args : /\ a.name \in given <=> a.name \in names
                                    /\ tool.required \subseteq given /\ Imports!Required(a) =>
                                         a.name \in names
               /\ types[f.type.name].kind \in Imports!Composite <=> tool.selection # {}
               /\ \A p \in tool.selection : Imports!Selects(types, f.type.name, p)
<1> DEFINE tool == Imports!FieldToTool(types, operation, f, d)
           variables == Imports!Provided(tool, given)
           m == f.type.name
           A == {[name |-> a.name, type |-> a.type] : a \in f.args}
<1>1. \A a \in f.args : a.type \in Imports!TypeRefs(types)
  BY DEF Imports!WellTyped, Imports!InputsOf
<1>2. \A a \in f.args :
        /\ Imports!Describe(Imports!TypeRef(types, a.type)) = a.type
        /\ Imports!Required(a) => Imports!NonNull(Imports!TypeRef(types, a.type))
  BY <1>1, RefRead DEF Imports!Required
<1>3. tool.args = A
  <2>1. tool.args = {[name |-> a.name,
                      type |-> Imports!Describe(Imports!TypeRef(types, a.type))] : a \in f.args}
    BY DEF Imports!FieldToTool
  <2> QED
    BY <1>2, <2>1, Zenon
<1>4. tool.required \subseteq given => \A a \in f.args : Imports!Required(a) => a.name \in given
  <2>1. tool.required = {a.name : a \in {x \in f.args :
                           Imports!NonNull(Imports!TypeRef(types, x.type))}}
    BY DEF Imports!FieldToTool
  <2> HIDE DEF tool
  <2> QED
    BY <1>2, <2>1
<1>5. variables = {v \in A : v.name \in given}
  <2> HIDE DEF tool, A
  <2> QED
    BY <1>3 DEF Imports!Provided
<1>6. \A a \in f.args : /\ a.name \in given <=> a.name \in {v.name : v \in variables}
                        /\ tool.required \subseteq given /\ Imports!Required(a) =>
                             a.name \in {v.name : v \in variables}
  <2> SUFFICES ASSUME NEW a \in f.args
               PROVE  a.name \in given <=> \E v \in variables : a.name = v.name
    BY <1>4
  <2>1. [name |-> a.name, type |-> a.type] \in A
    OBVIOUS
  <2> HIDE DEF variables, A
  <2>2. a.name \in given => \E v \in variables : a.name = v.name
    BY <1>5, <2>1
  <2>3. \A v \in variables : v.name \in given
    BY <1>5
  <2> QED
    BY <2>2, <2>3
<1>7. /\ types[m].kind \in Imports!Leaf => tool.selection = {}
      /\ types[m].kind \notin Imports!Leaf =>
           \A p : p \in tool.selection <=>
             p \in Seq(StepNames(types)) /\ p # <<>> /\ Chosen(types, m, d, {m}, p)
  BY ToolSelects
<1>8. m \in DOMAIN types
  BY FieldsAsked
<1> HIDE DEF tool, variables, m, A
<1>9. CASE types[m].kind \in Imports!Leaf
  <2>1. tool.selection = {} /\ types[m].kind \notin Imports!Composite
    BY <1>7, <1>9 DEF Imports!Leaf, Imports!Composite
  <2> QED
    BY <1>5, <1>6, <2>1 DEF tool, variables, m, A
<1>10. CASE types[m].kind \notin Imports!Leaf
  <2>1. types[m].kind \in Imports!Composite
    BY <1>10, DeepIsComposite DEF m
  <2>2. <<"__typename">> \in tool.selection
    <3>1. "__typename" \in StepNames(types)
      BY DEF StepNames
    <3>2. Chosen(types, m, d, {m}, <<"__typename">>)
      BY <1>8, <2>1, <3>1, ChosenOne
    <3>3. <<"__typename">> \in Seq(StepNames(types)) /\ <<"__typename">> # <<>>
      BY <3>1
    <3> QED
      BY <1>7, <1>10, <3>2, <3>3
  <2>3. ASSUME NEW p \in tool.selection
        PROVE  Imports!Selects(types, m, p)
    <3>1. p \in Seq(StepNames(types)) /\ p # <<>> /\ Chosen(types, m, d, {m}, p)
      BY <1>7, <1>10
    <3>2. HadSelects(types, m, p)
      BY <1>8, <3>1, ChosenSelects
    <3> QED
      BY <1>8, <3>1, <3>2, HadIsSelected
  <2> QED
    BY <1>5, <1>6, <2>1, <2>2, <2>3 DEF tool, variables, m, A
<1> QED
  BY <1>9, <1>10

\* What is sent for an operation whose parameters are the ones of its path.
LEMMA RequestOf ==
    ASSUME NEW oper, oper.path \in Seq(Imports!ToSet(oper.path)), oper.body \in BOOLEAN,
           Imports!Plain(oper), NEW given
    PROVE  LET tool == Imports!OperationToTool(oper)
               places == {i \in DOMAIN oper.path : oper.path[i].param}
               In(where) == {p.name : p \in {q \in oper.params : q.in = where}}
               others == given \ {"body"}
               filled == {i \in DOMAIN tool.path : \E k \in others : Imports!Fills(tool.path, i, k)}
               query == others \ Imports!Placeholders(tool.path)
           IN  /\ tool.method = oper.method /\ tool.operation = oper
               /\ filled = {i \in places : oper.path[i].text \in given}
               /\ In("query") \cap given \subseteq query /\ query \subseteq given
               /\ In("path") \cap query = {}
               /\ tool.required \subseteq given /\ given \subseteq tool.properties =>
                    filled = places /\ ("body" \in given <=> oper.body)
<1> DEFINE tool == Imports!OperationToTool(oper)
           others == given \ {"body"}
           places == {i \in DOMAIN oper.path : oper.path[i].param}
           filled == {i \in DOMAIN tool.path : \E k \in others : Imports!Fills(tool.path, i, k)}
<1>1. /\ tool.method = oper.method /\ tool.operation = oper /\ tool.path = oper.path
      /\ tool.properties = {p.name : p \in oper.params} \cup (IF oper.body THEN {"body"} ELSE {})
      /\ tool.required = {p.name : p \in {q \in oper.params : q.required}}
                         \cup (IF oper.body THEN {"body"} ELSE {})
  BY DEF Imports!OperationToTool
<1>2. /\ \A p \in oper.params : p.name # "body"
      /\ \A p, q \in oper.params : p.name = q.name => p = q
      /\ Imports!Placeholders(oper.path) = {p.name : p \in {q \in oper.params : q.in = "path"}}
      /\ \A p \in oper.params : p.in = "path" => p.required
      /\ \A i, j \in DOMAIN oper.path :
           oper.path[i].param /\ oper.path[j].param /\ oper.path[i].text = oper.path[j].text => i = j
  BY DEF Imports!Plain
<1> HIDE DEF tool
<1>3. DOMAIN oper.path = 1 .. Len(oper.path) /\ Len(oper.path) \in Nat
  OBVIOUS
<1>4. \A i \in places : /\ oper.path[i].text # "body"
                        /\ \E p \in oper.params : p.in = "path" /\ oper.path[i].text = p.name
  <2> SUFFICES ASSUME NEW i \in places
               PROVE  \E p \in oper.params : p.in = "path" /\ oper.path[i].text = p.name
    BY <1>2
  <2>1. oper.path[i].text \in Imports!Placeholders(oper.path)
    BY DEF Imports!Placeholders
  <2> QED
    BY <1>2, <2>1
<1>5. ASSUME NEW i \in places, oper.path[i].text \in given
      PROVE  \E k \in others : Imports!Fills(oper.path, i, k)
  <2>1. oper.path[i].text \in others
    BY <1>4, <1>5
  <2>2. \A j \in 1 .. i - 1 : j \in DOMAIN oper.path /\ j # i
    BY <1>3
  <2>3. Imports!Fills(oper.path, i, oper.path[i].text)
    BY <1>2, <2>2 DEF Imports!Fills
  <2> QED
    BY <2>1, <2>3
<1>6. ASSUME NEW i \in DOMAIN oper.path, NEW k \in others, Imports!Fills(oper.path, i, k)
      PROVE  i \in places /\ oper.path[i].text \in given
  BY <1>6 DEF Imports!Fills
<1>7. filled = {i \in places : oper.path[i].text \in given}
  BY <1>1, <1>5, <1>6
<1>8. ASSUME NEW p \in oper.params, p.in = "query", p.name \in given
      PROVE  p.name \in others \ Imports!Placeholders(oper.path)
  <2>1. p.name \notin Imports!Placeholders(oper.path)
    <3> SUFFICES ASSUME p.name \in Imports!Placeholders(oper.path) PROVE FALSE
      OBVIOUS
    <3>1. PICK q \in oper.params : q.in = "path" /\ p.name = q.name
      BY <1>2
    <3>2. p = q
      BY <1>2, <3>1
    <3> QED
      BY <1>8, <3>1, <3>2
  <2> QED
    BY <1>2, <1>8, <2>1
<1>9. {p.name : p \in {q \in oper.params : q.in = "query"}} \cap given
        \subseteq others \ Imports!Placeholders(tool.path)
  BY <1>1, <1>8
<1>10. {p.name : p \in {q \in oper.params : q.in = "path"}}
         \cap (others \ Imports!Placeholders(tool.path)) = {}
  BY <1>1, <1>2
<1>11. ASSUME tool.required \subseteq given, given \subseteq tool.properties
       PROVE  filled = places /\ ("body" \in given <=> oper.body)
  <2>1. \A p \in oper.params : p.in = "path" => p.name \in given
    BY <1>1, <1>2, <1>11
  <2>2. \A i \in places : oper.path[i].text \in given
    BY <1>4, <2>1
  <2>3. "body" \in given <=> oper.body
    BY <1>1, <1>2, <1>11
  <2> HIDE DEF filled, places
  <2> QED
    BY <1>7, <2>2, <2>3
<1> QED
  BY <1>1, <1>7, <1>9, <1>10, <1>11 DEF tool

\* The type that the fields of an operation are of.
Root(operation) == IF operation = "query" THEN tSource.api.query ELSE tSource.api.mutation

FromField(tool) ==
    \E operation \in {"query", "mutation"} :
      /\ Root(operation) # None
      /\ \E f \in tSource.api.types[Root(operation)].fields :
           tool = Imports!FieldToTool(tSource.api.types, operation, f, Imports!Depth(tSource.depth))

\* Tools are made of fields, or of operations, and a call is one that was made from them.
ImportInv ==
    part = "imports" =>
      /\ \/ tSource \in [kind : {"graphql"}, api : Apis, depth : Depths]
         \/ tSource \in [kind : {"openapi"}, doc : Docs]
      /\ tTools # None =>
           \A tool \in tTools :
             /\ tSource.kind = "graphql" => FromField(tool)
             /\ tSource.kind = "openapi" =>
                  \E oper \in tSource.doc : tool = Imports!OperationToTool(oper)
      /\ Imports!OperationIsSent

\* What there is to know of a GraphQL API that is imported.
LEMMA SourceApi ==
    ASSUME part = "imports", ImportInv, tSource.kind = "graphql"
    PROVE  LET types == tSource.api.types
           IN  /\ Imports!WellTyped(types) /\ Imports!Depth(tSource.depth) \in 1..4
               /\ \A operation \in {"query", "mutation"} :
                    Root(operation) # None =>
                      /\ Root(operation) \in DOMAIN types
                      /\ \A f \in types[Root(operation)].fields :
                           Imports!FieldOf(operation, f.name) = f
<1> DEFINE types == tSource.api.types
<1>1. tSource \in [kind : {"graphql"}, api : Apis, depth : Depths]
  BY DEF ImportInv
<1>2. /\ Imports!WellTyped(types)
      /\ {tSource.api.query, tSource.api.mutation} \subseteq DOMAIN types \cup {None}
  BY <1>1, ImportsConstants
<1>3. Imports!Depth(tSource.depth) \in 1..4
  <2>1. tSource.depth = None \/ tSource.depth \in Int
    BY <1>1, ImportsConstants
  <2> QED
    BY <2>1 DEF Imports!Depth
<1>4. ASSUME NEW operation \in {"query", "mutation"}, Root(operation) # None
      PROVE  /\ Root(operation) \in DOMAIN types
             /\ \A f \in types[Root(operation)].fields : Imports!FieldOf(operation, f.name) = f
  <2> DEFINE n == Root(operation)
  <2>1. n \in DOMAIN types
    BY <1>2, <1>4 DEF Root
  <2>2. \A f, g \in types[n].fields : f.name = g.name => f = g
    BY <1>2, <2>1 DEF Imports!WellTyped
  <2>3. ASSUME NEW f \in types[n].fields
        PROVE  Imports!FieldOf(operation, f.name) = f
    <3>1. Imports!FieldOf(operation, f.name) = CHOOSE g \in types[n].fields : g.name = f.name
      BY DEF Imports!FieldOf, Root
    <3> HIDE DEF n, types
    <3>2. (CHOOSE g \in types[n].fields : g.name = f.name) = f
      BY <2>2
    <3> QED
      BY <3>1, <3>2
  <2> QED
    BY <2>1, <2>3
<1> QED
  BY <1>2, <1>3, <1>4

\* It holds before an import.
LEMMA ImportInit == MCInit => ImportInv
  BY DEF MCInit, ImportInv, Imports!Init, Imports!OperationIsSent, Imports!DocumentIsValid,
         Imports!RequestIsOperation

\* A call of a tool of a GraphQL API sends a document that the API allows.
LEMMA GraphqlSends ==
    ASSUME part = "imports", ImportInv, Imports!DispatchGraphql
    PROVE  Imports!OperationIsSent'
<1> DEFINE types == tSource.api.types
           d == Imports!Depth(tSource.depth)
<1>1. tSource.kind = "graphql" /\ tTools # None /\ UNCHANGED <<tSource, tTools>>
  BY DEF Imports!DispatchGraphql
<1>2. PICK tool, given :
        /\ tool \in tTools
        /\ tCall' = [tool |-> tool, given |-> given,
                     operation |-> tool.operation, field |-> tool.field,
                     variables |-> Imports!Provided(tool, given), selection |-> tool.selection]
  BY Zenon DEF Imports!DispatchGraphql
<1>3. FromField(tool)
  BY <1>1, <1>2 DEF ImportInv
<1>4. PICK operation \in {"query", "mutation"} :
        /\ Root(operation) # None
        /\ \E f \in types[Root(operation)].fields :
             tool = Imports!FieldToTool(types, operation, f, d)
  BY <1>3, Zenon DEF FromField
<1>5. PICK f \in types[Root(operation)].fields : tool = Imports!FieldToTool(types, operation, f, d)
  BY <1>4, Zenon
<1>6. /\ Imports!WellTyped(types) /\ d \in 1..4 /\ Root(operation) \in DOMAIN types
      /\ Imports!FieldOf(operation, f.name) = f
  BY <1>1, <1>4, SourceApi
<1>7. tool.operation = operation /\ tool.field = f.name
  BY <1>5 DEF Imports!FieldToTool
<1> DEFINE variables == Imports!Provided(tool, given)
<1>8. /\ tCall'.tool = tool /\ tCall'.given = given
      /\ tCall'.operation = operation /\ tCall'.field = f.name
      /\ tCall'.variables = variables /\ tCall'.selection = tool.selection
  BY <1>2, <1>7
<1>9. /\ variables \subseteq {[name |-> a.name, type |-> a.type] : a \in f.args}
      /\ \A a \in f.args : /\ a.name \in given <=> a.name \in {v.name : v \in variables}
                           /\ tool.required \subseteq given /\ Imports!Required(a) =>
                                a.name \in {v.name : v \in variables}
      /\ types[f.type.name].kind \in Imports!Composite <=> tool.selection # {}
      /\ \A p \in tool.selection : Imports!Selects(types, f.type.name, p)
  <2> HIDE DEF types, d
  <2> QED
    BY <1>5, <1>6, DocumentOf
<1>10. Imports!FieldOf(operation, f.name)' = f
  BY <1>1, <1>6 DEF Imports!FieldOf
<1>11. Imports!DocumentIsValid'
  <2> HIDE DEF variables
  <2>1. Imports!FieldOf(tCall.operation, tCall.field)' = f /\ tSource' = tSource
    BY <1>1, <1>6, <1>8 DEF Imports!FieldOf
  <2> QED
    BY <1>8, <1>9, <2>1 DEF Imports!DocumentIsValid
<1>12. Imports!RequestIsOperation'
  BY <1>1 DEF Imports!RequestIsOperation
<1> QED
  BY <1>11, <1>12 DEF Imports!OperationIsSent

\* A call of a tool of an OpenAPI document is the request of its operation.
LEMMA OpenApiSends ==
    ASSUME part = "imports", ImportInv, Imports!DispatchOpenApi
    PROVE  Imports!OperationIsSent'
<1>1. /\ tSource.kind = "openapi" /\ tTools # None /\ UNCHANGED <<tSource, tTools>>
      /\ tSource \in [kind : {"openapi"}, doc : Docs]
  BY DEF Imports!DispatchOpenApi, ImportInv
<1>2. PICK tool, given :
        /\ tool \in tTools
        /\ tCall' =
             [tool |-> tool, given |-> given,
              operation |-> tool.operation, method |-> tool.method,
              filled |-> {i \in DOMAIN tool.path :
                            \E k \in given \ {"body"} : Imports!Fills(tool.path, i, k)},
              query |-> (given \ {"body"}) \ Imports!Placeholders(tool.path),
              body |-> "body" \in given]
  BY Zenon DEF Imports!DispatchOpenApi
<1>3. PICK oper \in tSource.doc : tool = Imports!OperationToTool(oper)
  BY <1>1, <1>2 DEF ImportInv
<1>4. oper.path \in Seq(Imports!ToSet(oper.path)) /\ oper.body \in BOOLEAN
  BY <1>1, ImportsConstants
<1>5. Imports!RequestIsOperation'
  <2> SUFFICES ASSUME Imports!Plain(oper)
               PROVE  Imports!RequestIsOperation'
    <3>1. tCall'.operation = oper
      BY <1>2, <1>3 DEF Imports!OperationToTool
    <3> QED
      BY <3>1 DEF Imports!RequestIsOperation, Imports!Plain, Imports!Placeholders
  <2> DEFINE filled == {i \in DOMAIN tool.path :
                          \E k \in given \ {"body"} : Imports!Fills(tool.path, i, k)}
             query == (given \ {"body"}) \ Imports!Placeholders(tool.path)
  <2> DEFINE places == {i \in DOMAIN oper.path : oper.path[i].param}
  <2>1. /\ tool.method = oper.method /\ tool.operation = oper
        /\ filled = {i \in places : oper.path[i].text \in given}
        /\ {p.name : p \in {q \in oper.params : q.in = "query"}} \cap given \subseteq query
        /\ query \subseteq given
        /\ {p.name : p \in {q \in oper.params : q.in = "path"}} \cap query = {}
        /\ tool.required \subseteq given /\ given \subseteq tool.properties =>
             filled = places /\ ("body" \in given <=> oper.body)
    BY <1>2, <1>3, <1>4, RequestOf
  <2>2. /\ tCall'.tool = tool /\ tCall'.operation = oper /\ tCall'.given = given
        /\ tCall'.method = oper.method
        /\ tCall'.filled = filled /\ tCall'.query = query /\ tCall'.body = ("body" \in given)
    BY <1>2, <2>1
  <2> HIDE DEF filled, query
  <2> QED
    BY <2>1, <2>2 DEF Imports!RequestIsOperation
<1>6. Imports!DocumentIsValid'
  BY <1>1 DEF Imports!DocumentIsValid
<1> QED
  BY <1>5, <1>6 DEF Imports!OperationIsSent

\* Every import and every call keeps it.
LEMMA ImportStep ==
    ASSUME ImportInv, [MCNext]_<<part, vars, bridge, limits, keeps, imports>>
    PROVE  ImportInv'
<1> SUFFICES ASSUME part' = "imports"
             PROVE  ImportInv'
  BY DEF ImportInv
<1>1. part = "imports"
  BY DEF MCNext
<1> DEFINE Made == tTools # None =>
                     \A tool \in tTools :
                       /\ tSource.kind = "graphql" => FromField(tool)
                       /\ tSource.kind = "openapi" =>
                            \E oper \in tSource.doc : tool = Imports!OperationToTool(oper)
<1>2. SUFFICES ASSUME UNCHANGED tSource
               PROVE  Made' /\ Imports!OperationIsSent'
  <2>1. UNCHANGED tSource
    BY <1>1 DEF MCNext, imports, Imports!Next, Imports!ImportGraphql, Imports!ImportOpenApi,
                Imports!ImportFails, Imports!DispatchGraphql, Imports!DispatchOpenApi
  <2> QED
    BY <1>1, <1>2, <2>1 DEF ImportInv
<1>3. ASSUME UNCHANGED tCall
      PROVE  Imports!OperationIsSent'
  BY <1>1, <1>2, <1>3 DEF ImportInv, Imports!OperationIsSent, Imports!DocumentIsValid,
                          Imports!RequestIsOperation, Imports!FieldOf
<1>4. ASSUME UNCHANGED tTools
      PROVE  Made'
  BY <1>1, <1>2, <1>4 DEF ImportInv, FromField, Root
<1>5. CASE UNCHANGED imports
  BY <1>3, <1>4, <1>5 DEF imports
<1>6. CASE Imports!Next
  <2>1. CASE Imports!ImportGraphql
    <3>1. \A tool \in tTools' : FromField(tool) /\ tSource.kind = "graphql"
      BY <2>1 DEF Imports!ImportGraphql, FromField, Root
    <3>2. Made'
      BY <1>2, <3>1 DEF FromField, Root
    <3> QED
      BY <1>3, <2>1, <3>2 DEF Imports!ImportGraphql
  <2>2. CASE Imports!ImportOpenApi
    <3>1. Made'
      BY <1>2, <2>2 DEF Imports!ImportOpenApi
    <3> QED
      BY <1>3, <2>2, <3>1 DEF Imports!ImportOpenApi
  <2>3. CASE Imports!ImportFails
    <3>1. Made'
      BY <2>3 DEF Imports!ImportFails
    <3> QED
      BY <1>3, <2>3, <3>1 DEF Imports!ImportFails
  <2>4. CASE Imports!DispatchGraphql
    <3>1. Imports!OperationIsSent'
      BY <1>1, <2>4, GraphqlSends
    <3> QED
      BY <1>4, <2>4, <3>1 DEF Imports!DispatchGraphql
  <2>5. CASE Imports!DispatchOpenApi
    <3>1. Imports!OperationIsSent'
      BY <1>1, <2>5, OpenApiSends
    <3> QED
      BY <1>4, <2>5, <3>1 DEF Imports!DispatchOpenApi
  <2> QED
    BY <1>6, <2>1, <2>2, <2>3, <2>4, <2>5 DEF Imports!Next
<1> QED
  BY <1>1, <1>5, <1>6 DEF MCNext, imports

\* Imports keep it for ever.
LEMMA ImportInvariant == AdmissionSpec => []ImportInv
  BY ImportInit, ImportStep, PTL DEF AdmissionSpec

\* For every schema that introspection reads in full, every depth and whatever arguments a
\* caller gives, too few or too many: a call of an imported tool sends a document of the
\* arguments given that the operation has, complete if the caller gave what the tool
\* requires, with a selection of fields that exist and need no argument; and a call of a tool
\* of an OpenAPI operation puts each argument where the operation has it, and leaves a place
\* of the path open only where the caller left its argument out (dispatchGraphql(),
\* dispatchOpenApi(), router.service.ts).
THEOREM OperationIsSentAlways == AdmissionSpec => []OperationIsSent
<1>1. ImportInv => OperationIsSent
  BY DEF ImportInv, OperationIsSent
<1> QED
  BY <1>1, ImportInvariant, PTL

\* The sequences over a set that are no longer than d.
LEMMA BoundedSeqIs ==
    ASSUME NEW S, NEW d \in Nat
    PROVE  \A p : p \in Imports!BoundedSeq(S, d) <=> p \in Seq(S) /\ Len(p) <= d
<1>1. Imports!BoundedSeq(S, d) = UNION {[1..m -> S] : m \in 0..d}
  BY DEF Imports!BoundedSeq, Imports!SeqOf
<1>2. ASSUME NEW p, p \in Seq(S), Len(p) <= d
      PROVE  p \in Imports!BoundedSeq(S, d)
  <2>1. Len(p) \in 0..d /\ p \in [1 .. Len(p) -> S]
    BY <1>2
  <2> QED
    BY <1>1, <2>1, Zenon
<1>3. ASSUME NEW p, p \in Imports!BoundedSeq(S, d)
      PROVE  p \in Seq(S) /\ Len(p) <= d
  <2>1. PICK m \in 0..d : p \in [1..m -> S]
    BY <1>1, <1>3, Zenon
  <2> QED
    BY <2>1
<1> QED
  BY <1>2, <1>3

\* The tools of a GraphQL API select what can be had of their results.
LEMMA SelectionsAreExact ==
    ASSUME part = "imports", ImportInv
    PROVE  Imports!SelectionIsExact
<1> DEFINE types == tSource.api.types
           d == Imports!Depth(tSource.depth)
           S == Imports!FieldNames(types) \cup {"__typename"}
           Reach(m) == {p \in Imports!BoundedSeq(S, d) :
                          /\ p # <<>> /\ Imports!Selects(types, m, p)
                          /\ Imports!IsInjective(Imports!Trail(types, m, Imports!Front(p)))
                          /\ \A i \in 2 .. Len(p) :
                               types[Imports!Trail(types, m, Imports!Front(p))[i]].fields # {}}
           Shown(m, p) == \A i \in 1 .. Len(p) :
             Imports!Undefaulted(types, Imports!Trail(types, m, Imports!Front(p))[i], p[i])
<1> SUFFICES ASSUME tSource.kind = "graphql", tTools # None, NEW tool \in tTools
             PROVE  LET root == Imports!FieldOf(tool.operation, tool.field).type.name
                    IN  IF types[root].kind \in Imports!Leaf THEN tool.selection = {}
                        ELSE /\ tool.selection \subseteq Reach(root)
                             /\ {p \in Reach(root) : Shown(root, p)} \subseteq tool.selection
  BY Zenon DEF Imports!SelectionIsExact
<1>1. FromField(tool)
  BY DEF ImportInv
<1>2. PICK operation \in {"query", "mutation"} :
        /\ Root(operation) # None
        /\ \E f \in types[Root(operation)].fields :
             tool = Imports!FieldToTool(types, operation, f, d)
  BY <1>1, Zenon DEF FromField
<1>3. PICK f \in types[Root(operation)].fields : tool = Imports!FieldToTool(types, operation, f, d)
  BY <1>2, Zenon
<1>4. /\ Imports!WellTyped(types) /\ d \in 1..4 /\ Root(operation) \in DOMAIN types
      /\ Imports!FieldOf(operation, f.name) = f
  BY <1>2, SourceApi
<1> DEFINE m == f.type.name
<1>5. tool.operation = operation /\ tool.field = f.name
  BY <1>3 DEF Imports!FieldToTool
<1>6. Imports!FieldOf(tool.operation, tool.field).type.name = m
  BY <1>4, <1>5
<1> HIDE DEF d, types
<1>7. m \in DOMAIN types
  BY <1>4, FieldsAsked
<1>8. /\ types[m].kind \in Imports!Leaf => tool.selection = {}
      /\ types[m].kind \notin Imports!Leaf =>
           \A p : p \in tool.selection <=>
             p \in Seq(StepNames(types)) /\ p # <<>> /\ Chosen(types, m, d, {m}, p)
  BY <1>3, <1>4, ToolSelects
<1>9. StepNames(types) = S
  BY DEF StepNames
<1> HIDE DEF m
<1>10. ASSUME types[m].kind \notin Imports!Leaf, NEW p \in tool.selection
       PROVE  p \in Reach(m)
  <2>1. p \in Seq(S) /\ p # <<>> /\ Chosen(types, m, d, {m}, p)
    BY <1>8, <1>9, <1>10
  <2> HIDE DEF S
  <2>2. /\ Len(p) <= d /\ HadSelects(types, m, p) /\ Imports!IsInjective(Way(types, m, p))
        /\ \A i \in 2 .. Len(p) : types[Way(types, m, p)[i]].fields # {}
    BY <1>4, <1>7, <2>1, ChosenSelects
  <2>3. /\ Imports!Selects(types, m, p)
        /\ Imports!Trail(types, m, Imports!Front(p)) = Way(types, m, p)
    BY <1>4, <1>7, <2>1, <2>2, HadIsSelected
  <2>4. p \in Imports!BoundedSeq(S, d)
    BY <1>4, <2>1, <2>2, BoundedSeqIs
  <2> QED
    BY <2>1, <2>2, <2>3, <2>4
<1>11. ASSUME types[m].kind \notin Imports!Leaf, NEW p \in Reach(m), Shown(m, p)
       PROVE  p \in tool.selection
  <2> HIDE DEF S
  <2>1. p \in Seq(S) /\ Len(p) <= d /\ p # <<>>
    BY <1>4, BoundedSeqIs
  <2>2. /\ HadSelects(types, m, p)
        /\ Imports!Trail(types, m, Imports!Front(p)) = Way(types, m, p)
    BY <1>4, <1>7, <1>11, <2>1, SelectedIsHad
  <2>3. Chosen(types, m, d, {m}, p)
    BY <1>4, <1>7, <2>1, <2>2, ChosenSelects
  <2> QED
    BY <1>8, <1>9, <1>11, <2>1, <2>3
<1> HIDE DEF Reach, Shown
<1> QED
  BY <1>6, <1>8, <1>10, <1>11

\* The paths of properties below an input: none but the empty one below a scalar.
Tails(types, i, v, d) == Imports!JsonSchema(types, Imports!TypeRef(types, i.type), v, d)
IsObject(types, i) == types[i.type.name].kind = "INPUT_OBJECT"
LeftOpen(types, i, v, d) ==
    i.type.name \in v \/ d = 0 \/ types[i.type.name].inputs = {}
IsTail(types, i, v, d, p) ==
    IF ~IsObject(types, i) THEN p = <<>>
    ELSE IF LeftOpen(types, i, v, d) THEN p = <<Imports!Open>>
    ELSE p = <<>> \/ \E j \in types[i.type.name].inputs :
                       \E q \in Tails(types, j, v \cup {i.type.name}, d - 1) :
                         p = <<Imports!Property(types, j)>> \o q

\* What typeToJsonSchema() returns, by one level of its recursion.
LEMMA TailsOf ==
    ASSUME NEW types, Imports!WellTyped(types), NEW i, i.type \in Imports!TypeRefs(types),
           NEW v \in SUBSET DOMAIN types, NEW d \in 0..3
    PROVE  \A p : p \in Tails(types, i, v, d) <=> IsTail(types, i, v, d, p)
<1> DEFINE D == DOMAIN types
           IsInput(u) == u.kind = "INPUT_OBJECT"
           Read(x) == Imports!TypeRef(types, x.type)
           Paths(g, x, n, w) == IF IsInput(Read(x)) THEN g[Read(x).name][w \cup {n}] ELSE {<<>>}
           Set(g, n, w, e) ==
             IF n \in w \/ e = 0 \/ types[n].inputs = {} THEN {<<Imports!Open>>}
             ELSE {<<>>} \cup UNION {{<<Imports!Property(types, x)>> \o p : p \in Paths(g, x, n, w)} :
                                     x \in types[n].inputs}
           Level(g, e) == [n \in D |-> [w \in SUBSET D |-> Set(g, n, w, e)]]
           All(h) == [e \in 0..3 |-> Level(h[e - 1], e)]
           G0 == Level({}, 0)
           G1 == Level(G0, 1)
           G2 == Level(G1, 2)
           G == [e \in 0..3 |-> IF e = 0 THEN G0 ELSE IF e = 1 THEN G1
                                ELSE IF e = 2 THEN G2 ELSE Level(G2, 3)]
           h == CHOOSE g : g = All(g)
<1>1. \A t, w, e : Imports!JsonSchema(types, t, w, e) =
                     IF IsInput(t) THEN h[e][t.name][w] ELSE {<<>>}
  BY DEF Imports!JsonSchema
<1>2. \A g, n, w : Set(g, n, w, 0) = Set({}, n, w, 0)
  OBVIOUS
<1>3. \A g : Level(g, 0) = G0
  <2> HIDE DEF Set
  <2> QED
    BY <1>2
<1>4. G = All(G)
  <2> HIDE DEF Level, G0, G1, G2
  <2>1. \A e \in 0..3 : G[e] = Level(G[e - 1], e)
    <3>1. G[0] = G0 /\ G[1] = G1 /\ G[2] = G2 /\ G[3] = Level(G2, 3)
      OBVIOUS
    <3>2. G[0] = Level(G[0 - 1], 0)
      BY <1>3, <3>1
    <3>3. G[1] = Level(G[0], 1) /\ G[2] = Level(G[1], 2) /\ G[3] = Level(G[2], 3)
      BY <3>1 DEF G1, G2
    <3> HIDE DEF G
    <3> QED
      BY <3>2, <3>3
  <2>2. G = [e \in 0..3 |-> G[e]]
    OBVIOUS
  <2> HIDE DEF G
  <2> QED
    BY <2>1, <2>2
<1>5. h = All(h)
  <2> HIDE DEF All, G
  <2> QED
    BY <1>4
<1> HIDE DEF h
<1> DEFINE m == i.type.name
<1>6. Read(i).kind = types[m].kind /\ Read(i).name = m /\ m \in D
  BY RefRead
<1>7. h[d][m][v] = Set(h[d - 1], m, v, d)
  <2>1. h[d] = Level(h[d - 1], d)
    <3> HIDE DEF Level
    <3> QED
      BY <1>5
  <2> HIDE DEF Set, m
  <2> QED
    BY <1>6, <2>1
<1>8. Tails(types, i, v, d) = IF IsObject(types, i) THEN Set(h[d - 1], m, v, d) ELSE {<<>>}
  <2> HIDE DEF Set, m, Read
  <2>1. Tails(types, i, v, d) = Imports!JsonSchema(types, Read(i), v, d)
    BY DEF Tails, Read
  <2> QED
    BY <1>1, <1>6, <1>7, <2>1 DEF IsObject, m
<1>9. ASSUME NEW x \in types[m].inputs
      PROVE  Paths(h[d - 1], x, m, v) = Tails(types, x, v \cup {m}, d - 1)
  <2> HIDE DEF m, Read
  <2>1. Tails(types, x, v \cup {m}, d - 1) = Imports!JsonSchema(types, Read(x), v \cup {m}, d - 1)
    BY DEF Tails, Read
  <2> QED
    BY <1>1, <2>1
<1>10. CASE ~IsObject(types, i)
  BY <1>8, <1>10 DEF IsTail
<1>11. CASE IsObject(types, i) /\ LeftOpen(types, i, v, d)
  BY <1>8, <1>11 DEF IsTail, LeftOpen
<1>12. CASE IsObject(types, i) /\ ~LeftOpen(types, i, v, d)
  <2> DEFINE Q(x) == Tails(types, x, v \cup {m}, d - 1)
             E(x) == {<<Imports!Property(types, x)>> \o p : p \in Q(x)}
             N == types[m].inputs
             U == UNION {E(x) : x \in N}
  <2>1. Tails(types, i, v, d) =
          {<<>>} \cup UNION {{<<Imports!Property(types, x)>> \o p : p \in Paths(h[d - 1], x, m, v)} :
                             x \in N}
    BY <1>8, <1>12 DEF LeftOpen
  <2>2. \A p : p \in Tails(types, i, v, d) <=> p = <<>> \/ p \in U
    <3> DEFINE P(x) == Paths(h[d - 1], x, m, v)
               F(x) == {<<Imports!Property(types, x)>> \o p : p \in P(x)}
               W == UNION {F(x) : x \in N}
    <3>1. Tails(types, i, v, d) = {<<>>} \cup W
      BY <2>1
    <3>2. \A x \in N : P(x) = Q(x)
      BY <1>9 DEF m
    <3> HIDE DEF P, Q, N
    <3>3. \A x, p : p \in F(x) <=> \E q \in P(x) : p = <<Imports!Property(types, x)>> \o q
      BY Zenon
    <3>4. \A x, p : p \in E(x) <=> \E q \in Q(x) : p = <<Imports!Property(types, x)>> \o q
      BY Zenon
    <3> HIDE DEF F, E
    <3>5. ASSUME NEW x \in N
          PROVE  \A p : p \in F(x) <=> p \in E(x)
      <4>1. P(x) = Q(x)
        BY <3>2
      <4>2. \A p : p \in F(x) <=> \E q \in Q(x) : p = <<Imports!Property(types, x)>> \o q
        BY <3>3, <4>1
      <4> QED
        BY <3>4, <4>2
    <3>6. \A p : p \in W <=> \E x \in N : p \in F(x)
      BY Zenon
    <3>7. \A p : p \in U <=> \E x \in N : p \in E(x)
      BY Zenon
    <3> HIDE DEF W, U
    <3> QED
      BY <3>1, <3>5, <3>6, <3>7, Zenon
  <2>3. \A x, p : p \in E(x) <=> \E q \in Q(x) : p = <<Imports!Property(types, x)>> \o q
    BY Zenon
  <2> HIDE DEF Q, E, N
  <2>4. \A p : p \in U <=> \E x \in N : p \in E(x)
    BY Zenon
  <2> HIDE DEF U
  <2>5. ASSUME NEW p, p \in U
        PROVE  \E x \in N : \E q \in Q(x) : p = <<Imports!Property(types, x)>> \o q
    <3>1. PICK x \in N : p \in E(x)
      BY <2>4, <2>5
    <3>2. \E q \in Q(x) : p = <<Imports!Property(types, x)>> \o q
      BY <2>3, <3>1, Zenon
    <3> QED
      BY <3>2, Zenon
  <2>6. ASSUME NEW x \in N, NEW q \in Q(x)
        PROVE  <<Imports!Property(types, x)>> \o q \in U
    <3>1. <<Imports!Property(types, x)>> \o q \in E(x)
      BY <2>3, Zenon
    <3> QED
      BY <2>4, <3>1, Zenon
  <2>7. \A p : p \in Tails(types, i, v, d) <=>
          p = <<>> \/ \E x \in N : \E q \in Q(x) : p = <<Imports!Property(types, x)>> \o q
    BY <2>2, <2>5, <2>6, Zenon
  <2> QED
    BY <1>12, <2>7, Zenon DEF IsTail, N, Q, m
<1> QED
  BY <1>10, <1>11, <1>12


\* The paths of properties of an object: of each of its own, and below it.
Schema(types, inputs, v, d) ==
    UNION {{<<Imports!Property(types, i)>> \o t : t \in Tails(types, i, v, d)} : i \in inputs}
IsSeq(p) == \E S : p \in Seq(S)

InSchema(types, inputs, v, d, x) ==
    \E i \in inputs : \E t \in Tails(types, i, v, d) : x = <<Imports!Property(types, i)>> \o t

\* A path has an input first, and then a path below that input.
LEMMA SchemaOf ==
    ASSUME NEW types, NEW inputs, NEW v, NEW d
    PROVE  \A x : x \in Schema(types, inputs, v, d) <=> InSchema(types, inputs, v, d, x)
<1> DEFINE F(i) == {<<Imports!Property(types, i)>> \o t : t \in Tails(types, i, v, d)}
           W == UNION {F(i) : i \in inputs}
<1>1. Schema(types, inputs, v, d) = W
  BY DEF Schema
<1>2. \A i, x : x \in F(i) <=> \E t \in Tails(types, i, v, d) : x = <<Imports!Property(types, i)>> \o t
  BY Zenon
<1> HIDE DEF F
<1>3. \A x : x \in W <=> \E i \in inputs : x \in F(i)
  BY Zenon
<1> HIDE DEF W
<1>4. ASSUME NEW x, x \in W
      PROVE  InSchema(types, inputs, v, d, x)
  <2>1. PICK i \in inputs : x \in F(i)
    BY <1>3, <1>4
  <2> QED
    BY <1>2, <2>1, Zenon DEF InSchema
<1>5. ASSUME NEW i \in inputs, NEW t \in Tails(types, i, v, d)
      PROVE  <<Imports!Property(types, i)>> \o t \in W
  <2>1. <<Imports!Property(types, i)>> \o t \in F(i)
    BY <1>2, Zenon
  <2> QED
    BY <1>3, <2>1, Zenon
<1>6. \A x : InSchema(types, inputs, v, d, x) => x \in W
  BY <1>5, Zenon DEF InSchema
<1> QED
  BY <1>1, <1>4, <1>6, Zenon

\* A step before a sequence.
LEMMA SeqCons ==
    ASSUME NEW a, NEW p, IsSeq(p)
    PROVE  /\ IsSeq(<<a>> \o p) /\ Len(p) \in Nat /\ Len(<<a>> \o p) = Len(p) + 1
           /\ (<<a>> \o p)[1] = a /\ \A k \in 1 .. Len(p) : (<<a>> \o p)[k + 1] = p[k]
<1>1. PICK S : p \in Seq(S)
  BY DEF IsSeq
<1>2. p \in Seq(S \cup {a}) /\ <<a>> \in Seq(S \cup {a})
  BY <1>1
<1>3. /\ <<a>> \o p \in Seq(S \cup {a}) /\ Len(p) \in Nat /\ Len(<<a>> \o p) = Len(p) + 1
      /\ (<<a>> \o p)[1] = a /\ \A k \in 1 .. Len(p) : (<<a>> \o p)[k + 1] = p[k]
  BY <1>2
<1> QED
  BY <1>3 DEF IsSeq

\* Below every input, d levels of objects from the last, there is a path, if an empty one.
TailsAreSeqs(types, d) ==
    \A i, v : i.type \in Imports!TypeRefs(types) /\ v \subseteq DOMAIN types =>
      Tails(types, i, v, d) # {} /\ \A t \in Tails(types, i, v, d) : IsSeq(t)

\* One level of objects more.
LEMMA TailsStep ==
    ASSUME NEW types, Imports!WellTyped(types), NEW d \in 0..3,
           d = 0 \/ TailsAreSeqs(types, d - 1)
    PROVE  TailsAreSeqs(types, d)
<1> SUFFICES ASSUME NEW i, NEW v, i.type \in Imports!TypeRefs(types), v \in SUBSET DOMAIN types
             PROVE  Tails(types, i, v, d) # {} /\ \A t \in Tails(types, i, v, d) : IsSeq(t)
  BY Zenon DEF TailsAreSeqs
<1>1. \A t : t \in Tails(types, i, v, d) <=> IsTail(types, i, v, d, t)
  BY TailsOf
<1>2. IsSeq(<<>>) /\ IsSeq(<<Imports!Open>>)
  <2>1. <<>> \in Seq({Imports!Open}) /\ <<Imports!Open>> \in Seq({Imports!Open})
    OBVIOUS
  <2> QED
    BY <2>1, Zenon DEF IsSeq
<1>3. IsTail(types, i, v, d, <<>>) \/ IsTail(types, i, v, d, <<Imports!Open>>)
  BY Zenon DEF IsTail
<1>4. ASSUME NEW t, IsTail(types, i, v, d, t)
      PROVE  IsSeq(t)
  <2>1. CASE t = <<>> \/ t = <<Imports!Open>>
    BY <1>2, <2>1
  <2>2. CASE t # <<>> /\ t # <<Imports!Open>>
    <3> DEFINE m == i.type.name
    <3>1. /\ IsObject(types, i) /\ ~LeftOpen(types, i, v, d)
          /\ \E j \in types[m].inputs : \E q \in Tails(types, j, v \cup {m}, d - 1) :
               t = <<Imports!Property(types, j)>> \o q
      BY <1>4, <2>2, Zenon DEF IsTail
    <3>2. PICK j, q :
            /\ j \in types[m].inputs /\ q \in Tails(types, j, v \cup {m}, d - 1)
            /\ t = <<Imports!Property(types, j)>> \o q
      BY <3>1, Zenon
    <3>3. d # 0
      BY <3>1 DEF LeftOpen
    <3>4. m \in DOMAIN types
      BY RefRead
    <3> HIDE DEF m
    <3>5. j.type \in Imports!TypeRefs(types) /\ v \cup {m} \subseteq DOMAIN types
      BY <3>2, <3>4 DEF Imports!WellTyped, Imports!InputsOf
    <3>6. IsSeq(q)
      BY <3>2, <3>3, <3>5, Zenon DEF TailsAreSeqs
    <3> QED
      BY <3>2, <3>6, SeqCons
  <2> QED
    BY <2>1, <2>2
<1> QED
  BY <1>1, <1>3, <1>4, Zenon

\* For every number of levels that typeToJsonSchema() is asked for.
LEMMA TailsSeq ==
    ASSUME NEW types, Imports!WellTyped(types), NEW d \in 0..3
    PROVE  TailsAreSeqs(types, d)
<1>1. TailsAreSeqs(types, 0)
  BY TailsStep
<1>2. TailsAreSeqs(types, 1)
  <2>1. TailsAreSeqs(types, 1 - 1)
    BY <1>1
  <2> QED
    BY <2>1, TailsStep
<1>3. TailsAreSeqs(types, 2)
  <2>1. TailsAreSeqs(types, 2 - 1)
    BY <1>2
  <2> QED
    BY <2>1, TailsStep
<1>4. TailsAreSeqs(types, 3)
  <2>1. TailsAreSeqs(types, 3 - 1)
    BY <1>3
  <2> QED
    BY <2>1, TailsStep
<1> QED
  BY <1>1, <1>2, <1>3, <1>4

\* Inputs differ by their names, and so do their properties; a name leads to its input.
LEMMA PropertyOf ==
    ASSUME NEW types, Imports!WellTyped(types), NEW inputs, Imports!InputsOf(types, inputs),
           NEW i \in inputs
    PROVE  /\ i.type \in Imports!TypeRefs(types) /\ i.type.name \in DOMAIN types
           /\ Imports!Property(types, i) = [name |-> i.name, required |-> NonNull(i)]
           /\ \A j \in inputs : Imports!Property(types, j) = Imports!Property(types, i) => j = i
           /\ Imports!Given(inputs, Imports!Property(types, i)) = i.type.name
           /\ Imports!InputsOf(types, types[i.type.name].inputs)
<1>1. i.type \in Imports!TypeRefs(types) /\ \A j \in inputs : j.name = i.name => j = i
  BY DEF Imports!InputsOf
<1>2. /\ i.type.name \in DOMAIN types
      /\ Imports!NonNull(Imports!TypeRef(types, i.type)) <=> NonNull(i)
  BY <1>1, RefRead DEF NonNull
<1>3. Imports!NonNull(Imports!TypeRef(types, i.type)) \in BOOLEAN /\ NonNull(i) \in BOOLEAN
  BY DEF Imports!NonNull, NonNull
<1>4. Imports!Property(types, i) = [name |-> i.name, required |-> NonNull(i)]
  BY <1>2, <1>3, Zenon DEF Imports!Property
<1>5. \A j : Imports!Property(types, j).name = j.name
  BY DEF Imports!Property
<1>6. Imports!Given(inputs, Imports!Property(types, i)) = i.type.name
  <2> DEFINE x == Imports!Property(types, i)
             c == CHOOSE j \in inputs : j.name = x.name
  <2>1. x.name = i.name
    BY <1>5
  <2>2. Imports!Given(inputs, x) = c.type.name
    BY DEF Imports!Given
  <2> HIDE DEF x
  <2>3. \E j \in inputs : j.name = x.name
    BY <2>1
  <2>4. c \in inputs /\ c.name = x.name
    BY <2>3, Zenon
  <2> HIDE DEF c
  <2>5. c = i
    BY <1>1, <2>1, <2>4
  <2> QED
    BY <2>2, <2>5 DEF x
<1>7. Imports!InputsOf(types, types[i.type.name].inputs)
  BY <1>2 DEF Imports!WellTyped
<1> QED
  BY <1>1, <1>2, <1>4, <1>5, <1>6, <1>7

\* Some path of X goes along the first n steps of q, and then to y.
Leads(X, q, n, y) ==
    \E x \in X : Len(x) > n /\ (\A k \in 1..n : x[k] = q[k]) /\ x[n + 1] = y
\* The types that the first n steps of q lead to.
Along(types, inputs, q, n, w) ==
    /\ w[1] = Imports!Given(inputs, q[1])
    /\ \A k \in 1 .. n - 1 : w[k + 1] = Imports!Given(types[w[k]].inputs, q[k + 1])

\* The object at the end of the way is left open: it is met before, or too deep, or empty.
Closed(types, v, d, n, w) ==
    \/ \E k, l \in 1..n : k # l /\ w[k] = w[l]
    \/ \E k \in 1..n : w[k] \in v
    \/ n > d
    \/ types[w[n]].inputs = {}
GoesOn(types, v, d, n, w, y) ==
    /\ types[w[n]].kind = "INPUT_OBJECT"
    /\ IF Closed(types, v, d, n, w) THEN y = Imports!Open
       ELSE \E j \in types[w[n]].inputs : y = Imports!Property(types, j)

\* A path of the schema, by its first step and what is below it.
Splits(types, inputs, v, d, q, n, i, t) ==
    /\ i \in inputs /\ t \in Tails(types, i, v, d) /\ q = <<Imports!Property(types, i)>> \o t
    /\ Len(t) \in Nat /\ Len(q) = Len(t) + 1
    /\ q[1] = Imports!Property(types, i) /\ \A k \in 1 .. Len(t) : q[k + 1] = t[k]
    /\ n # 1 => /\ d # 0 /\ IsObject(types, i) /\ ~LeftOpen(types, i, v, d)
                /\ t \in Schema(types, types[i.type.name].inputs, v \cup {i.type.name}, d - 1)

\* Below an object that is not left open is what is below its own inputs.
LEMMA BelowObject ==
    ASSUME NEW types, Imports!WellTyped(types), NEW d \in 0..3, NEW v \in SUBSET DOMAIN types,
           NEW i, i.type \in Imports!TypeRefs(types),
           IsObject(types, i), ~LeftOpen(types, i, v, d)
    PROVE  \A t : t \in Tails(types, i, v, d) <=>
             t = <<>> \/ t \in Schema(types, types[i.type.name].inputs, v \cup {i.type.name}, d - 1)
<1> DEFINE m == i.type.name
<1>1. \A t : t \in Tails(types, i, v, d) <=> IsTail(types, i, v, d, t)
  BY TailsOf
<1>2. \A t : t \in Schema(types, types[m].inputs, v \cup {m}, d - 1) <=>
        \E j \in types[m].inputs : \E q \in Tails(types, j, v \cup {m}, d - 1) :
          t = <<Imports!Property(types, j)>> \o q
  <2> DEFINE J == types[m].inputs
             w == v \cup {m}
             e == d - 1
  <2> HIDE DEF J, w, e
  <2>1. \A t : t \in Schema(types, J, w, e) <=> InSchema(types, J, w, e, t)
    BY SchemaOf
  <2> QED
    BY <2>1, Zenon DEF J, w, e, InSchema
<1> QED
  BY <1>1, <1>2, Zenon DEF IsTail

\* Every path of the schema splits.
LEMMA SchemaSplits ==
    ASSUME NEW types, Imports!WellTyped(types), NEW inputs, Imports!InputsOf(types, inputs),
           NEW v \in SUBSET DOMAIN types, NEW d \in 0..3,
           NEW q \in Schema(types, inputs, v, d), NEW n \in 1 .. Len(q), q[n] # Imports!Open
    PROVE  \E i, t : Splits(types, inputs, v, d, q, n, i, t)
<1>1. PICK i, t : i \in inputs /\ t \in Tails(types, i, v, d)
                  /\ q = <<Imports!Property(types, i)>> \o t
  <2>1. InSchema(types, inputs, v, d, q)
    BY SchemaOf
  <2> QED
    BY <2>1, Zenon DEF InSchema
<1>2. i.type \in Imports!TypeRefs(types) /\ i.type.name \in DOMAIN types
  BY <1>1, PropertyOf
<1>3. IsSeq(t)
  <2>1. TailsAreSeqs(types, d)
    BY TailsSeq
  <2> QED
    BY <1>1, <1>2, <2>1, Zenon DEF TailsAreSeqs
<1>4. /\ Len(t) \in Nat /\ Len(q) = Len(t) + 1 /\ q[1] = Imports!Property(types, i)
      /\ \A k \in 1 .. Len(t) : q[k + 1] = t[k]
  BY <1>1, <1>3, SeqCons
<1>5. ASSUME n # 1
      PROVE  /\ d # 0 /\ IsObject(types, i) /\ ~LeftOpen(types, i, v, d)
             /\ t \in Schema(types, types[i.type.name].inputs, v \cup {i.type.name}, d - 1)
  <2>1. n - 1 \in 1 .. Len(t) /\ q[n] = t[n - 1]
    BY <1>4, <1>5
  <2>2. t # <<>>
    BY <2>1
  <2>3. IsTail(types, i, v, d, t)
    BY <1>1, <1>2, TailsOf
  <2>4. t # <<Imports!Open>>
    <3> SUFFICES ASSUME t = <<Imports!Open>> PROVE FALSE
      OBVIOUS
    <3>1. Len(t) = 1 /\ t[1] = Imports!Open
      OBVIOUS
    <3> QED
      BY <2>1, <3>1
  <2>5. IsObject(types, i) /\ ~LeftOpen(types, i, v, d)
    BY <2>2, <2>3, <2>4, Zenon DEF IsTail
  <2>6. d # 0
    BY <2>5 DEF LeftOpen
  <2>7. t \in Schema(types, types[i.type.name].inputs, v \cup {i.type.name}, d - 1)
    BY <1>1, <1>2, <2>2, <2>5, BelowObject
  <2> QED
    BY <2>5, <2>6, <2>7
<1>6. Splits(types, inputs, v, d, q, n, i, t)
  BY <1>1, <1>4, <1>5, Zenon DEF Splits
<1> QED
  BY <1>6

\* What the first step of a path of properties leads to.
LEMMA LeadsFirst ==
    ASSUME NEW types, Imports!WellTyped(types), NEW inputs, Imports!InputsOf(types, inputs),
           NEW v \in SUBSET DOMAIN types, NEW d \in 0..3, NEW i \in inputs,
           NEW q, q[1] = Imports!Property(types, i), NEW w, w[1] = i.type.name, NEW y
    PROVE  Leads(Schema(types, inputs, v, d), q, 1, y) <=> GoesOn(types, v, d, 1, w, y)
<1> DEFINE m == i.type.name
           X == Schema(types, inputs, v, d)
           Starts == \E t \in Tails(types, i, v, d) : Len(t) >= 1 /\ t[1] = y
<1>1. /\ i.type \in Imports!TypeRefs(types) /\ m \in DOMAIN types
      /\ \A j \in inputs : Imports!Property(types, j) = Imports!Property(types, i) => j = i
      /\ Imports!InputsOf(types, types[m].inputs)
  BY PropertyOf
<1>2. TailsAreSeqs(types, d)
  BY TailsSeq
<1>3. \A j \in inputs : j.type \in Imports!TypeRefs(types)
  BY DEF Imports!InputsOf
<1>4. ASSUME NEW j \in inputs, NEW t \in Tails(types, j, v, d)
      PROVE  LET x == <<Imports!Property(types, j)>> \o t
             IN  /\ Len(t) \in Nat /\ Len(x) = Len(t) + 1
                 /\ x[1] = Imports!Property(types, j) /\ (Len(t) >= 1 => x[2] = t[1])
  <2>1. IsSeq(t)
    BY <1>2, <1>3, Zenon DEF TailsAreSeqs
  <2> DEFINE x == <<Imports!Property(types, j)>> \o t
  <2>2. /\ Len(t) \in Nat /\ Len(x) = Len(t) + 1 /\ x[1] = Imports!Property(types, j)
        /\ \A k \in 1 .. Len(t) : x[k + 1] = t[k]
    BY <2>1, SeqCons
  <2> HIDE DEF x
  <2>3. Len(t) >= 1 => x[2] = t[1]
    <3>1. Len(t) >= 1 => 1 \in 1 .. Len(t) /\ 1 + 1 = 2
      BY <2>2
    <3> QED
      BY <2>2, <3>1
  <2> QED
    BY <2>2, <2>3 DEF x
<1>5. Leads(X, q, 1, y) => Starts
  <2> SUFFICES ASSUME NEW x \in X, Len(x) > 1, \A k \in 1..1 : x[k] = q[k], x[1 + 1] = y
               PROVE  Starts
    BY Zenon DEF Leads
  <2>1. PICK j, t : /\ j \in inputs /\ t \in Tails(types, j, v, d)
                   /\ x = <<Imports!Property(types, j)>> \o t
    <3>1. InSchema(types, inputs, v, d, x)
      BY SchemaOf
    <3> QED
      BY <3>1, Zenon DEF InSchema
  <2>2. x[1] = Imports!Property(types, i) /\ x[2] = y
    OBVIOUS
  <2>3. x[1] = Imports!Property(types, j) /\ Len(t) >= 1 /\ x[2] = t[1]
    BY <1>4, <2>1
  <2>4. j = i
    BY <1>1, <2>1, <2>2, <2>3
  <2> QED
    BY <2>1, <2>2, <2>3, <2>4
<1>6. Starts => Leads(X, q, 1, y)
  <2> SUFFICES ASSUME NEW t \in Tails(types, i, v, d), Len(t) >= 1, t[1] = y
               PROVE  Leads(X, q, 1, y)
    BY Zenon
  <2> DEFINE x == <<Imports!Property(types, i)>> \o t
  <2>1. x \in X
    <3>1. InSchema(types, inputs, v, d, x)
      BY Zenon DEF InSchema
    <3> HIDE DEF x
    <3> QED
      BY <3>1, SchemaOf
  <2>2. Len(x) > 1 /\ x[1] = q[1] /\ x[1 + 1] = y
    BY <1>4
  <2>3. \A k \in 1..1 : x[k] = q[k]
    BY <2>2
  <2> QED
    BY <2>1, <2>2, <2>3, Zenon DEF Leads
<1>7. IsObject(types, i) <=> types[w[1]].kind = "INPUT_OBJECT"
  BY DEF IsObject
<1>8. LeftOpen(types, i, v, d) <=> Closed(types, v, d, 1, w)
  BY DEF LeftOpen, Closed
<1>9. \A t : t \in Tails(types, i, v, d) <=> IsTail(types, i, v, d, t)
  BY <1>1, TailsOf
<1>10. Len(<<>>) = 0 /\ Len(<<Imports!Open>>) = 1 /\ <<Imports!Open>>[1] = Imports!Open
  OBVIOUS
<1>11. CASE ~IsObject(types, i)
  <2>1. \A t \in Tails(types, i, v, d) : t = <<>>
    BY <1>9, <1>11 DEF IsTail
  <2>2. ~Starts
    BY <1>10, <2>1
  <2> QED
    BY <1>5, <1>7, <1>11, <2>2 DEF GoesOn
<1>12. CASE IsObject(types, i) /\ LeftOpen(types, i, v, d)
  <2>1. \A t : t \in Tails(types, i, v, d) <=> t = <<Imports!Open>>
    BY <1>9, <1>12 DEF IsTail
  <2>2. Starts <=> y = Imports!Open
    <3>1. Starts => y = Imports!Open
      BY <1>10, <2>1
    <3>2. ASSUME y = Imports!Open
          PROVE  Starts
      <4> DEFINE t == <<Imports!Open>>
      <4>1. t \in Tails(types, i, v, d)
        BY <2>1, Zenon
      <4>2. Len(t) >= 1 /\ t[1] = y
        BY <3>2
      <4> QED
        BY <4>1, <4>2, Zenon
    <3> QED
      BY <3>1, <3>2
  <2> QED
    BY <1>5, <1>6, <1>7, <1>8, <1>12, <2>2 DEF GoesOn
<1>13. CASE IsObject(types, i) /\ ~LeftOpen(types, i, v, d)
  <2> DEFINE Y == Schema(types, types[m].inputs, v \cup {m}, d - 1)
  <2>1. \A t : t \in Tails(types, i, v, d) <=> t = <<>> \/ t \in Y
    BY <1>1, <1>13, BelowObject
  <2>2. TailsAreSeqs(types, d - 1) /\ v \cup {m} \subseteq DOMAIN types
    <3>1. d - 1 \in 0..3
      BY <1>13 DEF LeftOpen
    <3> QED
      BY <1>1, <3>1, TailsSeq
  <2>3. \A j \in types[m].inputs : j.type \in Imports!TypeRefs(types)
    BY <1>1 DEF Imports!InputsOf
  <2> DEFINE e == d - 1
             u == v \cup {m}
             J == types[m].inputs
  <2>4. /\ TailsAreSeqs(types, e) /\ u \subseteq DOMAIN types
        /\ \A j \in J : j.type \in Imports!TypeRefs(types)
    BY <2>2, <2>3
  <2>5. Y = Schema(types, J, u, e)
    OBVIOUS
  <2> HIDE DEF e, u, J, Y
  <2>6. \A t : t \in Y <=> \E j \in J : \E r \in Tails(types, j, u, e) :
                             t = <<Imports!Property(types, j)>> \o r
    <3>1. \A t : t \in Y <=> InSchema(types, J, u, e, t)
      BY <2>5, SchemaOf
    <3> QED
      BY <3>1, Zenon DEF InSchema
  <2>7. ASSUME NEW j \in J, NEW r \in Tails(types, j, u, e)
        PROVE  LET t == <<Imports!Property(types, j)>> \o r
               IN  Len(t) >= 1 /\ t[1] = Imports!Property(types, j)
    <3>1. IsSeq(r)
      BY <2>4, Zenon DEF TailsAreSeqs
    <3> QED
      BY <3>1, SeqCons
  <2>8. ASSUME Starts
        PROVE  \E j \in J : y = Imports!Property(types, j)
    <3>1. PICK t \in Tails(types, i, v, d) : Len(t) >= 1 /\ t[1] = y
      BY <2>8, Zenon
    <3>2. t \in Y
      BY <1>10, <2>1, <3>1
    <3>3. PICK j, r : /\ j \in J /\ r \in Tails(types, j, u, e)
                     /\ t = <<Imports!Property(types, j)>> \o r
      BY <2>6, <3>2, Zenon
    <3> QED
      BY <2>7, <3>1, <3>3
  <2>9. ASSUME NEW j \in J, y = Imports!Property(types, j)
        PROVE  Starts
    <3>1. PICK r : r \in Tails(types, j, u, e)
      BY <2>4 DEF TailsAreSeqs
    <3> DEFINE t == <<Imports!Property(types, j)>> \o r
    <3>2. t \in Tails(types, i, v, d)
      BY <2>1, <2>6, <3>1, Zenon
    <3>3. Len(t) >= 1 /\ t[1] = y
      BY <2>7, <2>9, <3>1
    <3> QED
      BY <3>2, <3>3, Zenon
  <2>10. Starts <=> \E j \in types[w[1]].inputs : y = Imports!Property(types, j)
    BY <2>8, <2>9 DEF J
  <2> HIDE DEF Starts
  <2> QED
    BY <1>5, <1>6, <1>7, <1>8, <1>13, <2>10 DEF GoesOn
<1> QED
  BY <1>11, <1>12, <1>13

\* Further steps lead where they lead below the first.
LEMMA LeadsNext ==
    ASSUME NEW types, Imports!WellTyped(types), NEW inputs, Imports!InputsOf(types, inputs),
           NEW v \in SUBSET DOMAIN types, NEW d \in 0..3, NEW q, NEW n \in 1 .. Len(q), n # 1,
           NEW i, NEW t, Splits(types, inputs, v, d, q, n, i, t), NEW y
    PROVE  Leads(Schema(types, inputs, v, d), q, n, y) <=>
           Leads(Schema(types, types[i.type.name].inputs, v \cup {i.type.name}, d - 1), t, n - 1, y)
<1> DEFINE X == Schema(types, inputs, v, d)
           Y == Schema(types, types[i.type.name].inputs, v \cup {i.type.name}, d - 1)
           P(j) == Imports!Property(types, j)
<1>1. /\ i \in inputs /\ t \in Tails(types, i, v, d)
      /\ Len(t) \in Nat /\ Len(q) = Len(t) + 1 /\ n \in Int /\ n >= 2 /\ n <= Len(q)
      /\ q[1] = P(i) /\ \A k \in 1 .. Len(t) : q[k + 1] = t[k]
      /\ d # 0 /\ IsObject(types, i) /\ ~LeftOpen(types, i, v, d)
  <2>1. Len(t) \in Nat /\ Len(q) = Len(t) + 1
    BY DEF Splits
  <2> QED
    BY <2>1 DEF Splits
<1>2. /\ i.type \in Imports!TypeRefs(types)
      /\ \A j \in inputs : P(j) = P(i) => j = i
  BY <1>1, PropertyOf
<1>3. \A u : u \in Tails(types, i, v, d) <=> u = <<>> \/ u \in Y
  BY <1>1, <1>2, BelowObject
<1>4. \A x : x \in X <=> InSchema(types, inputs, v, d, x)
  BY SchemaOf
<1>5. ASSUME NEW j \in inputs, NEW u \in Tails(types, j, v, d)
      PROVE  LET x == <<P(j)>> \o u
             IN  /\ Len(u) \in Nat /\ Len(x) = Len(u) + 1 /\ x[1] = P(j)
                 /\ \A k \in 1 .. Len(u) : x[k + 1] = u[k]
  <2>1. TailsAreSeqs(types, d) /\ j.type \in Imports!TypeRefs(types)
    BY TailsSeq DEF Imports!InputsOf
  <2>2. IsSeq(u)
    BY <2>1, Zenon DEF TailsAreSeqs
  <2> QED
    BY <2>2, SeqCons
<1> HIDE DEF X, Y, P
<1>6. ASSUME NEW x \in X, Len(x) > n, \A k \in 1..n : x[k] = q[k], x[n + 1] = y
      PROVE  Leads(Y, t, n - 1, y)
  <2>1. InSchema(types, inputs, v, d, x)
    BY <1>4
  <2>2. PICK j, u : /\ j \in inputs /\ u \in Tails(types, j, v, d)
                   /\ x = <<P(j)>> \o u
    BY <2>1, Zenon DEF InSchema, P
  <2>3. /\ Len(u) \in Nat /\ Len(x) = Len(u) + 1 /\ x[1] = P(j)
        /\ \A k \in 1 .. Len(u) : x[k + 1] = u[k]
    BY <1>5, <2>2
  <2>4. j = i
    <3>1. x[1] = q[1]
      BY <1>1, <1>6
    <3> QED
      BY <1>1, <1>2, <2>2, <2>3, <3>1
  <2>5. u \in Y
    <3>1. u # <<>>
      BY <1>1, <1>6, <2>3
    <3> QED
      BY <1>3, <2>2, <2>4, <3>1
  <2>6. Len(u) > n - 1
    BY <1>1, <1>6, <2>3
  <2>7. ASSUME NEW k \in 1 .. n - 1
        PROVE  u[k] = t[k]
    <3>1. k \in 1 .. Len(u) /\ k \in 1 .. Len(t) /\ k + 1 \in 1..n
      BY <1>1, <1>6, <2>3
    <3>2. x[k + 1] = u[k] /\ q[k + 1] = t[k] /\ x[k + 1] = q[k + 1]
      BY <1>1, <1>6, <2>3, <3>1
    <3> QED
      BY <3>2
  <2>8. u[n - 1 + 1] = y
    <3>1. n \in 1 .. Len(u) /\ n - 1 + 1 = n
      BY <1>1, <1>6, <2>3
    <3> QED
      BY <1>6, <2>3, <3>1
  <2> QED
    BY <2>5, <2>6, <2>7, <2>8, Zenon DEF Leads
<1>7. ASSUME NEW u \in Y, Len(u) > n - 1, \A k \in 1 .. n - 1 : u[k] = t[k], u[n - 1 + 1] = y
      PROVE  Leads(X, q, n, y)
  <2> DEFINE x == <<P(i)>> \o u
  <2>1. u \in Tails(types, i, v, d)
    BY <1>3
  <2>2. x \in X
    <3>1. InSchema(types, inputs, v, d, x)
      BY <1>1, <2>1, Zenon DEF InSchema, P
    <3> HIDE DEF x
    <3> QED
      BY <1>4, <3>1
  <2>3. /\ Len(u) \in Nat /\ Len(x) = Len(u) + 1 /\ x[1] = P(i)
        /\ \A k \in 1 .. Len(u) : x[k + 1] = u[k]
    BY <1>1, <1>5, <2>1
  <2> HIDE DEF x
  <2>4. Len(x) > n
    BY <1>1, <1>7, <2>3
  <2>5. ASSUME NEW k \in 1..n
        PROVE  x[k] = q[k]
    <3>1. CASE k = 1
      BY <1>1, <2>3, <3>1
    <3>2. CASE k # 1
      <4>1. k - 1 \in 1 .. n - 1 /\ k - 1 \in 1 .. Len(u) /\ k - 1 \in 1 .. Len(t) /\ k - 1 + 1 = k
        BY <1>1, <1>7, <2>3, <3>2
      <4>2. x[k - 1 + 1] = u[k - 1] /\ q[k - 1 + 1] = t[k - 1] /\ u[k - 1] = t[k - 1]
        BY <1>1, <1>7, <2>3, <4>1
      <4> QED
        BY <4>1, <4>2
    <3> QED
      BY <3>1, <3>2
  <2>6. x[n + 1] = y
    <3>1. n \in 1 .. Len(u) /\ n - 1 + 1 = n
      BY <1>1, <1>7, <2>3
    <3> QED
      BY <1>7, <2>3, <3>1
  <2> QED
    BY <2>2, <2>4, <2>5, <2>6, Zenon DEF Leads
<1>8. Leads(X, q, n, y) => Leads(Y, t, n - 1, y)
  BY <1>6, Zenon DEF Leads
<1>9. Leads(Y, t, n - 1, y) => Leads(X, q, n, y)
  BY <1>7, Zenon DEF Leads
<1> QED
  BY <1>8, <1>9 DEF X, Y

\* The way below the first step, when the way goes through no type twice and none of v.
LEMMA ClosedNext ==
    ASSUME NEW types, NEW v, NEW d \in Int, NEW n \in Nat, n >= 2, NEW w, w[1] \notin v
    PROVE  LET u == [k \in 1 .. n - 1 |-> w[k + 1]]
           IN  Closed(types, v, d, n, w) <=> Closed(types, v \cup {w[1]}, d - 1, n - 1, u)
<1> DEFINE u == [k \in 1 .. n - 1 |-> w[k + 1]]
<1>1. \A k \in 1 .. n - 1 : u[k] = w[k + 1] /\ k + 1 \in 1..n /\ k + 1 # 1
  OBVIOUS
<1>2. \A k \in 1..n : k # 1 => k - 1 \in 1 .. n - 1 /\ u[k - 1] = w[k]
  OBVIOUS
<1>3. u[n - 1] = w[n]
  BY <1>2
<1>4. n > d <=> n - 1 > d - 1
  OBVIOUS
<1> HIDE DEF u
<1>5. ASSUME NEW k \in 1..n, NEW l \in 1..n, k # l, w[k] = w[l]
      PROVE  \/ \E a, b \in 1 .. n - 1 : a # b /\ u[a] = u[b]
             \/ \E a \in 1 .. n - 1 : u[a] = w[1]
  <2>1. CASE k = 1 \/ l = 1
    BY <1>2, <1>5, <2>1
  <2>2. CASE k # 1 /\ l # 1
    <3>1. k - 1 \in 1 .. n - 1 /\ l - 1 \in 1 .. n - 1 /\ k - 1 # l - 1
          /\ u[k - 1] = w[k] /\ u[l - 1] = w[l]
      BY <1>2, <1>5, <2>2
    <3> QED
      BY <1>5, <3>1
  <2> QED
    BY <2>1, <2>2
<1>6. ASSUME NEW k \in 1..n, w[k] \in v
      PROVE  \E a \in 1 .. n - 1 : u[a] \in v
  BY <1>2, <1>6
<1>7. ASSUME NEW a \in 1 .. n - 1, NEW b \in 1 .. n - 1, a # b, u[a] = u[b]
      PROVE  \E k, l \in 1..n : k # l /\ w[k] = w[l]
  <2>1. a + 1 \in 1..n /\ b + 1 \in 1..n /\ a + 1 # b + 1 /\ w[a + 1] = w[b + 1]
    BY <1>1, <1>7
  <2> QED
    BY <2>1
<1>8. ASSUME NEW a \in 1 .. n - 1, u[a] \in v \cup {w[1]}
      PROVE  \/ \E k, l \in 1..n : k # l /\ w[k] = w[l]
             \/ \E k \in 1..n : w[k] \in v
  <2>1. a + 1 \in 1..n /\ a + 1 # 1 /\ 1 \in 1..n /\ u[a] = w[a + 1]
    BY <1>1
  <2> QED
    BY <1>8, <2>1
<1>9. Closed(types, v, d, n, w) => Closed(types, v \cup {w[1]}, d - 1, n - 1, u)
  BY <1>3, <1>4, <1>5, <1>6 DEF Closed
<1>10. Closed(types, v \cup {w[1]}, d - 1, n - 1, u) => Closed(types, v, d, n, w)
  BY <1>3, <1>4, <1>7, <1>8 DEF Closed
<1> QED
  BY <1>9, <1>10 DEF u

\* n steps of a path of the schema, which do not end where an object is left open.
Reaches(types, inputs, v, d, q, n) ==
    /\ Imports!InputsOf(types, inputs) /\ v \in SUBSET DOMAIN types
    /\ q \in Schema(types, inputs, v, d) /\ n \in 1 .. Len(q) /\ q[n] # Imports!Open
HasWay(types, inputs, q, n) ==
    \E w : w \in [1..n -> DOMAIN types] /\ Along(types, inputs, q, n, w)
Told(types, inputs, v, d, q, n, w) ==
    /\ w[n] \in DOMAIN types
    /\ \A y : Leads(Schema(types, inputs, v, d), q, n, y) <=> GoesOn(types, v, d, n, w, y)
\* What there is below the steps is what the type that they lead to has.
Tells(types, d) ==
    \A inputs, v, q, n : Reaches(types, inputs, v, d, q, n) =>
      /\ HasWay(types, inputs, q, n)
      /\ \A w : Along(types, inputs, q, n, w) => Told(types, inputs, v, d, q, n, w)

\* One level of objects more.
LEMMA TellsStep ==
    ASSUME NEW types, Imports!WellTyped(types), NEW d \in 0..3, d = 0 \/ Tells(types, d - 1)
    PROVE  Tells(types, d)
<1> SUFFICES ASSUME NEW inputs, NEW v, NEW q, NEW n, Reaches(types, inputs, v, d, q, n)
             PROVE  /\ HasWay(types, inputs, q, n)
                    /\ \A w : Along(types, inputs, q, n, w) => Told(types, inputs, v, d, q, n, w)
  BY Zenon DEF Tells
<1>1. /\ Imports!InputsOf(types, inputs) /\ v \in SUBSET DOMAIN types
      /\ q \in Schema(types, inputs, v, d) /\ n \in 1 .. Len(q) /\ q[n] # Imports!Open
  BY DEF Reaches
<1>2. PICK i, t : Splits(types, inputs, v, d, q, n, i, t)
  BY <1>1, SchemaSplits
<1> DEFINE m == i.type.name
           J == types[m].inputs
<1>3. /\ i \in inputs /\ Len(t) \in Nat /\ Len(q) = Len(t) + 1
      /\ q[1] = Imports!Property(types, i) /\ \A k \in 1 .. Len(t) : q[k + 1] = t[k]
      /\ n # 1 => /\ d # 0 /\ ~LeftOpen(types, i, v, d)
                  /\ t \in Schema(types, J, v \cup {m}, d - 1)
  BY <1>2 DEF Splits
<1>4. /\ i.type \in Imports!TypeRefs(types) /\ m \in DOMAIN types
      /\ Imports!Given(inputs, q[1]) = m /\ Imports!InputsOf(types, J)
  <2>1. Imports!Given(inputs, Imports!Property(types, i)) = m
    BY <1>1, <1>3, PropertyOf
  <2> QED
    BY <1>1, <1>3, <2>1, PropertyOf
<1>5. CASE n = 1
  <2>1. HasWay(types, inputs, q, n)
    <3> DEFINE w == [k \in 1..1 |-> m]
    <3>1. w \in [1..1 -> DOMAIN types] /\ w[1] = m
      BY <1>4
    <3>2. 1 .. 1 - 1 = {}
      OBVIOUS
    <3> HIDE DEF w, m
    <3>3. Along(types, inputs, q, 1, w)
      BY <1>4, <3>1, <3>2 DEF Along
    <3> QED
      BY <1>5, <3>1, <3>3 DEF HasWay
  <2>2. ASSUME NEW w, Along(types, inputs, q, n, w)
        PROVE  Told(types, inputs, v, d, q, n, w)
    <3>1. w[1] = m
      BY <1>4, <2>2 DEF Along
    <3>2. \A y : Leads(Schema(types, inputs, v, d), q, 1, y) <=> GoesOn(types, v, d, 1, w, y)
      BY <1>1, <1>3, <3>1, LeadsFirst
    <3> QED
      BY <1>4, <1>5, <3>1, <3>2 DEF Told
  <2> QED
    BY <2>1, <2>2
<1>6. CASE n # 1
  <2>1. /\ n \in Nat /\ n >= 2 /\ n - 1 \in 1 .. Len(t) /\ q[n] = t[n - 1] /\ d # 0
        /\ m \notin v /\ t \in Schema(types, J, v \cup {m}, d - 1)
        /\ v \cup {m} \in SUBSET DOMAIN types
    <3>1. n \in Nat /\ n >= 2 /\ n - 1 \in 1 .. Len(t) /\ n - 1 + 1 = n
      BY <1>1, <1>3, <1>6
    <3>2. q[n] = t[n - 1]
      BY <1>3, <3>1
    <3> QED
      BY <1>1, <1>3, <1>4, <1>6, <3>1, <3>2 DEF LeftOpen
  <2>2. Reaches(types, J, v \cup {m}, d - 1, t, n - 1)
    BY <1>1, <1>4, <2>1 DEF Reaches
  <2>3. /\ HasWay(types, J, t, n - 1)
        /\ \A u : Along(types, J, t, n - 1, u) => Told(types, J, v \cup {m}, d - 1, t, n - 1, u)
    <3> DEFINE w == v \cup {m}
               e == d - 1
               l == n - 1
    <3>1. Tells(types, e) /\ Reaches(types, J, w, e, t, l)
      BY <2>1, <2>2
    <3> HIDE DEF w, e, l, J
    <3>2. /\ HasWay(types, J, t, l)
          /\ \A u : Along(types, J, t, l, u) => Told(types, J, w, e, t, l, u)
      BY <3>1, Zenon DEF Tells
    <3> QED
      BY <3>2 DEF w, e, l
  <2>4. HasWay(types, inputs, q, n)
    <3>1. PICK u \in [1 .. n - 1 -> DOMAIN types] : Along(types, J, t, n - 1, u)
      BY <2>3, Zenon DEF HasWay
    <3> DEFINE w == [k \in 1..n |-> IF k = 1 THEN m ELSE u[k - 1]]
    <3> HIDE DEF m
    <3>2. w \in [1..n -> DOMAIN types]
      BY <1>4, <2>1
    <3>3. w[1] = m /\ \A k \in 1 .. n - 1 : w[k + 1] = u[k]
      BY <2>1
    <3> HIDE DEF w
    <3>4. ASSUME NEW k \in 1 .. n - 1
          PROVE  w[k + 1] = Imports!Given(types[w[k]].inputs, q[k + 1])
      <4>1. q[k + 1] = t[k] /\ w[k + 1] = u[k]
        BY <1>3, <2>1, <3>3
      <4>2. CASE k = 1
        <5>1. u[1] = Imports!Given(J, t[1])
          BY <3>1 DEF Along
        <5> QED
          BY <3>3, <4>1, <4>2, <5>1
      <4>3. CASE k # 1
        <5>1. k - 1 \in 1 .. n - 1 - 1 /\ k - 1 \in 1 .. n - 1 /\ k - 1 + 1 = k
          BY <2>1, <4>3
        <5>2. u[k - 1 + 1] = Imports!Given(types[u[k - 1]].inputs, t[k - 1 + 1])
          BY <3>1, <5>1 DEF Along
        <5>3. w[k - 1 + 1] = u[k - 1]
          BY <3>3, <5>1
        <5> QED
          BY <4>1, <5>1, <5>2, <5>3
      <4> QED
        BY <4>2, <4>3
    <3>5. Along(types, inputs, q, n, w)
      BY <1>4, <3>3, <3>4 DEF Along
    <3> QED
      BY <3>2, <3>5, Zenon DEF HasWay
  <2>5. ASSUME NEW w, Along(types, inputs, q, n, w)
        PROVE  Told(types, inputs, v, d, q, n, w)
    <3> DEFINE u == [k \in 1 .. n - 1 |-> w[k + 1]]
    <3>1. w[1] = m
      BY <1>4, <2>5 DEF Along
    <3>2. \A k \in 1 .. n - 1 : u[k] = w[k + 1] /\ q[k + 1] = t[k]
      BY <1>3, <2>1
    <3>3. 1 \in 1 .. n - 1 /\ u[n - 1] = w[n]
      BY <2>1
    <3>4. Closed(types, v, d, n, w) <=> Closed(types, v \cup {m}, d - 1, n - 1, u)
      <4>1. w[1] \notin v
        BY <2>1, <3>1
      <4>2. Closed(types, v, d, n, w) <=> Closed(types, v \cup {w[1]}, d - 1, n - 1, u)
        BY <2>1, <4>1, ClosedNext
      <4> HIDE DEF u, m
      <4> QED
        BY <3>1, <4>2
    <3> HIDE DEF u
    <3>5. u[1] = Imports!Given(J, t[1])
      <4>1. w[1 + 1] = Imports!Given(types[w[1]].inputs, q[1 + 1])
        BY <2>5, <3>3 DEF Along
      <4> QED
        BY <3>1, <3>2, <3>3, <4>1
    <3>6. ASSUME NEW k \in 1 .. n - 1 - 1
          PROVE  u[k + 1] = Imports!Given(types[u[k]].inputs, t[k + 1])
      <4>1. k \in 1 .. n - 1 /\ k + 1 \in 1 .. n - 1
        BY <2>1
      <4>2. w[k + 1 + 1] = Imports!Given(types[w[k + 1]].inputs, q[k + 1 + 1])
        BY <2>5, <4>1 DEF Along
      <4> QED
        BY <3>2, <4>1, <4>2
    <3>7. Along(types, J, t, n - 1, u)
      BY <3>5, <3>6 DEF Along
    <3>8. Told(types, J, v \cup {m}, d - 1, t, n - 1, u)
      BY <2>3, <3>7
    <3>9. ASSUME NEW y
          PROVE  Leads(Schema(types, inputs, v, d), q, n, y) <=> GoesOn(types, v, d, n, w, y)
      <4>1. Leads(Schema(types, inputs, v, d), q, n, y) <=>
            Leads(Schema(types, J, v \cup {m}, d - 1), t, n - 1, y)
        BY <1>1, <1>2, <1>6, LeadsNext
      <4>2. Leads(Schema(types, J, v \cup {m}, d - 1), t, n - 1, y) <=>
            GoesOn(types, v \cup {m}, d - 1, n - 1, u, y)
        BY <3>8 DEF Told
      <4>3. GoesOn(types, v \cup {m}, d - 1, n - 1, u, y) <=> GoesOn(types, v, d, n, w, y)
        BY <3>3, <3>4 DEF GoesOn
      <4> QED
        BY <4>1, <4>2, <4>3
    <3> QED
      BY <3>3, <3>8, <3>9 DEF Told
  <2> QED
    BY <2>4, <2>5
<1> QED
  BY <1>5, <1>6

\* For every number of levels that typeToJsonSchema() is asked for.
LEMMA SchemaTells ==
    ASSUME NEW types, Imports!WellTyped(types)
    PROVE  Tells(types, 3)
<1>1. Tells(types, 0)
  BY TellsStep
<1>2. Tells(types, 1)
  <2>1. Tells(types, 1 - 1)
    BY <1>1
  <2> QED
    BY <2>1, TellsStep
<1>3. Tells(types, 2)
  <2>1. Tells(types, 2 - 1)
    BY <1>2
  <2> QED
    BY <2>1, TellsStep
<1>4. Tells(types, 3 - 1)
  BY <1>3
<1> QED
  BY <1>4, TellsStep

\* The way that the definition of the inputs follows, where there is one.
LEMMA TrailAlong ==
    ASSUME NEW types, NEW inputs, NEW q, NEW n \in Nat, n >= 1, HasWay(types, inputs, q, n),
           NEW p, Len(p) = n, \A k \in 1..n : p[k] = q[k]
    PROVE  LET w == Imports!InputTrail(types, inputs, p)
           IN  DOMAIN w = 1..n /\ Len(w) = n /\ Along(types, inputs, q, n, w)
<1> DEFINE Go(w) == [k \in 1..n |-> Imports!Given(IF k = 1 THEN inputs ELSE types[w[k - 1]].inputs,
                                                    p[k])]
           t == Imports!InputTrail(types, inputs, p)
<1>1. PICK w : w \in [1..n -> DOMAIN types] /\ Along(types, inputs, q, n, w)
  BY Zenon DEF HasWay
<1>2. w = Go(w)
  <2>1. ASSUME NEW k \in 1..n
        PROVE  w[k] = Go(w)[k]
    <3>1. CASE k = 1
      <4>1. Go(w)[k] = Imports!Given(inputs, p[k])
        BY <3>1
      <4>2. w[k] = Imports!Given(inputs, q[k])
        BY <1>1, <3>1 DEF Along
      <4>3. p[k] = q[k]
        OBVIOUS
      <4> QED
        BY <4>1, <4>2, <4>3
    <3>2. CASE k # 1
      <4>1. Go(w)[k] = Imports!Given(types[w[k - 1]].inputs, p[k])
        BY <3>2
      <4>2. k - 1 \in 1 .. n - 1 /\ k - 1 + 1 = k
        BY <3>2
      <4>3. w[k - 1 + 1] = Imports!Given(types[w[k - 1]].inputs, q[k - 1 + 1])
        BY <1>1, <4>2 DEF Along
      <4>4. p[k] = q[k]
        OBVIOUS
      <4> QED
        BY <4>1, <4>2, <4>3, <4>4
    <3> QED
      BY <3>1, <3>2
  <2> DEFINE u == Go(w)
  <2>2. u = [k \in 1..n |-> u[k]] /\ w = [k \in 1..n |-> w[k]]
    BY <1>1
  <2> HIDE DEF u
  <2>3. \A k \in 1..n : w[k] = u[k]
    BY <2>1 DEF u
  <2>4. w = u
    BY <2>2, <2>3
  <2> QED
    BY <2>4 DEF u
<1>3. t = Go(t)
  <2>1. t = CHOOSE f : f = Go(f)
    BY Zenon DEF Imports!InputTrail
  <2> HIDE DEF t, Go
  <2> QED
    BY <1>2, <2>1
<1> HIDE DEF t
<1>4. DOMAIN t = 1..n
  BY <1>3
<1>5. Len(t) = n
  <2> DEFINE S == {t[k] : k \in 1..n}
  <2>1. t = [k \in 1..n |-> t[k]] /\ \A k \in 1..n : t[k] \in S
    BY <1>3
  <2> HIDE DEF S
  <2>2. t \in [1..n -> S]
    BY <2>1
  <2>3. t \in Seq(S)
    BY <2>2
  <2> QED
    BY <1>4, <2>3, LenProperties
<1>6. t[1] = Imports!Given(inputs, q[1])
  <2>1. 1 \in 1..n
    OBVIOUS
  <2>2. t[1] = Go(t)[1]
    BY <1>3
  <2> QED
    BY <2>1, <2>2
<1>7. ASSUME NEW k \in 1 .. n - 1
      PROVE  t[k + 1] = Imports!Given(types[t[k]].inputs, q[k + 1])
  <2>1. k + 1 \in 1..n /\ k + 1 # 1 /\ k + 1 - 1 = k
    OBVIOUS
  <2>2. t[k + 1] = Go(t)[k + 1]
    BY <1>3
  <2>3. Go(t)[k + 1] = Imports!Given(types[t[k + 1 - 1]].inputs, p[k + 1])
    BY <2>1
  <2> QED
    BY <2>1, <2>2, <2>3
<1> QED
  BY <1>4, <1>5, <1>6, <1>7 DEF t, Along

\* One sequence begins another when they are alike as far as the first goes.
LEMMA StrictPrefix ==
    ASSUME NEW p, IsSeq(p), NEW x, IsSeq(x)
    PROVE  Imports!IsStrictPrefix(p, x) <=>
             Len(x) > Len(p) /\ \A k \in 1 .. Len(p) : x[k] = p[k]
<1>1. PICK S : p \in Seq(S)
  BY Zenon DEF IsSeq
<1>2. PICK T : x \in Seq(T)
  BY Zenon DEF IsSeq
<1> DEFINE E == S \cup T
<1>3. p \in Seq(E) /\ x \in Seq(E)
  BY <1>1, <1>2, SeqMonotonic
<1> HIDE DEF E
<1> DEFINE n == Len(p)
<1>4. n \in Nat /\ Len(x) \in Nat
  BY <1>3
<1>5. ASSUME n <= Len(x)
      PROVE  SubSeq(p, 1, n) = SubSeq(x, 1, n) <=> \A k \in 1..n : x[k] = p[k]
  <2> DEFINE a == SubSeq(p, 1, n)
             b == SubSeq(x, 1, n)
  <2>1. a \in Seq(E) /\ Len(a) = n /\ \A k \in 1..n : a[k] = p[k]
    BY <1>3, <1>4
  <2>2. b \in Seq(E) /\ Len(b) = n /\ \A k \in 1..n : b[k] = x[k]
    BY <1>3, <1>4, <1>5
  <2> HIDE DEF a, b, n
  <2>3. (\A k \in 1..n : x[k] = p[k]) => a = b
    <3> SUFFICES ASSUME \A k \in 1..n : x[k] = p[k] PROVE a = b
      OBVIOUS
    <3>1. Len(a) = Len(b) /\ \A k \in 1 .. Len(a) : a[k] = b[k]
      BY <2>1, <2>2
    <3> QED
      BY <2>1, <2>2, <3>1, SeqEqual
  <2>4. a = b => \A k \in 1..n : x[k] = p[k]
    BY <2>1, <2>2
  <2> QED
    BY <2>3, <2>4 DEF a, b
<1>6. ASSUME n = Len(x), \A k \in 1..n : x[k] = p[k]
      PROVE  p = x
  BY <1>3, <1>6, SeqEqual
<1>7. Imports!IsStrictPrefix(p, x) <=> n <= Len(x) /\ SubSeq(p, 1, n) = SubSeq(x, 1, n) /\ p # x
  BY DEF Imports!IsStrictPrefix, Imports!IsPrefix
<1> HIDE DEF n
<1>8. Len(x) > n => p # x
  BY <1>4 DEF n
<1> QED
  BY <1>4, <1>5, <1>6, <1>7, <1>8 DEF n

\* What follows a path in a schema.
LEMMA NextOf ==
    ASSUME NEW X, \A x \in X : IsSeq(x), NEW p, IsSeq(p), NEW q, NEW n, n = Len(p),
           \A k \in 1..n : p[k] = q[k]
    PROVE  \A y : y \in {x[Len(p) + 1] : x \in {u \in X : Imports!IsStrictPrefix(p, u)}}
                    <=> Leads(X, q, n, y)
<1> DEFINE P == {u \in X : Imports!IsStrictPrefix(p, u)}
<1>1. \A x : x \in P <=> x \in X /\ Len(x) > n /\ \A k \in 1..n : x[k] = q[k]
  BY StrictPrefix
<1> HIDE DEF P
<1>2. \A y : y \in {x[Len(p) + 1] : x \in P} <=> \E x \in P : y = x[n + 1]
  BY Zenon
<1> QED
  BY <1>1, <1>2 DEF Leads, P

\* The tool of a field asks for the paths of the field's arguments.
LEMMA ToolAsks ==
    ASSUME NEW types, NEW f, NEW d, NEW operation
    PROVE  Imports!FieldToTool(types, operation, f, d).schema = Schema(types, f.args, {}, 3)
  BY DEF Imports!FieldToTool, Schema, Tails

\* The properties of inputs, by the definition and by the code.
LEMMA SameProperties ==
    ASSUME NEW types, Imports!WellTyped(types), NEW inputs, Imports!InputsOf(types, inputs)
    PROVE  \A y : y \in {[name |-> i.name, required |-> NonNull(i)] : i \in inputs}
                    <=> \E i \in inputs : y = Imports!Property(types, i)
<1>1. \A i \in inputs :
        Imports!Property(types, i) = [name |-> i.name, required |-> NonNull(i)]
  BY PropertyOf
<1> QED
  BY <1>1

\* A schema of inputs is of sequences, of one step at least; and has one for each input.
LEMMA SchemaSeqs ==
    ASSUME NEW types, Imports!WellTyped(types), NEW inputs, Imports!InputsOf(types, inputs),
           NEW v \in SUBSET DOMAIN types, NEW d \in 0..3
    PROVE  /\ \A x \in Schema(types, inputs, v, d) :
                /\ IsSeq(x) /\ Len(x) \in Nat /\ Len(x) >= 1
                /\ \E i \in inputs : x[1] = Imports!Property(types, i)
           /\ \A i \in inputs : \E x \in Schema(types, inputs, v, d) :
                Len(x) >= 1 /\ x[1] = Imports!Property(types, i)
<1> DEFINE X == Schema(types, inputs, v, d)
<1>1. TailsAreSeqs(types, d) /\ \A i \in inputs : i.type \in Imports!TypeRefs(types)
  BY TailsSeq DEF Imports!InputsOf
<1>2. ASSUME NEW i \in inputs, NEW t \in Tails(types, i, v, d)
      PROVE  LET x == <<Imports!Property(types, i)>> \o t
             IN  IsSeq(x) /\ Len(x) \in Nat /\ Len(x) >= 1 /\ x[1] = Imports!Property(types, i)
  <2>1. IsSeq(t)
    BY <1>1, Zenon DEF TailsAreSeqs
  <2> DEFINE x == <<Imports!Property(types, i)>> \o t
  <2>2. IsSeq(x) /\ Len(t) \in Nat /\ Len(x) = Len(t) + 1 /\ x[1] = Imports!Property(types, i)
    BY <2>1, SeqCons
  <2> HIDE DEF x
  <2>3. Len(x) \in Nat /\ Len(x) >= 1
    BY <2>2
  <2> QED
    BY <2>2, <2>3 DEF x
<1>3. \A x : x \in X <=> InSchema(types, inputs, v, d, x)
  BY SchemaOf
<1> HIDE DEF X
<1>4. ASSUME NEW x \in X
      PROVE  /\ IsSeq(x) /\ Len(x) \in Nat /\ Len(x) >= 1
             /\ \E i \in inputs : x[1] = Imports!Property(types, i)
  <2>1. PICK i, t : /\ i \in inputs /\ t \in Tails(types, i, v, d)
                   /\ x = <<Imports!Property(types, i)>> \o t
    BY <1>3, Zenon DEF InSchema
  <2> QED
    BY <1>2, <2>1
<1>5. ASSUME NEW i \in inputs
      PROVE  \E x \in X : Len(x) >= 1 /\ x[1] = Imports!Property(types, i)
  <2>1. PICK t : t \in Tails(types, i, v, d)
    BY <1>1 DEF TailsAreSeqs
  <2> DEFINE x == <<Imports!Property(types, i)>> \o t
  <2>2. x \in X
    <3>1. InSchema(types, inputs, v, d, x)
      BY <2>1, Zenon DEF InSchema
    <3> QED
      BY <1>3, <3>1, Zenon
  <2>3. Len(x) >= 1 /\ x[1] = Imports!Property(types, i)
    BY <1>2, <2>1
  <2> QED
    BY <2>2, <2>3, Zenon
<1> QED
  BY <1>4, <1>5 DEF X

\* At the head of the schema are the properties of the inputs.
LEMMA SchemaHead ==
    ASSUME NEW types, Imports!WellTyped(types), NEW inputs, Imports!InputsOf(types, inputs)
    PROVE  LET X == Schema(types, inputs, {}, 3)
           IN  {x[Len(<<>>) + 1] : x \in {u \in X : Imports!IsStrictPrefix(<<>>, u)}}
                 = {[name |-> i.name, required |-> NonNull(i)] : i \in inputs}
<1> DEFINE X == Schema(types, inputs, {}, 3)
           A == {x[Len(<<>>) + 1] : x \in {u \in X : Imports!IsStrictPrefix(<<>>, u)}}
           B == {[name |-> i.name, required |-> NonNull(i)] : i \in inputs}
<1>1. /\ \A x \in X : /\ IsSeq(x) /\ Len(x) \in Nat /\ Len(x) >= 1
                      /\ \E i \in inputs : x[1] = Imports!Property(types, i)
      /\ \A i \in inputs : \E x \in X : Len(x) >= 1 /\ x[1] = Imports!Property(types, i)
  <2>1. {} \in SUBSET DOMAIN types /\ 3 \in 0..3
    OBVIOUS
  <2> QED
    BY <2>1, SchemaSeqs
<1>2. IsSeq(<<>>) /\ Len(<<>>) = 0
  <2>1. <<>> \in Seq({})
    OBVIOUS
  <2> QED
    BY <2>1, Zenon DEF IsSeq
<1>3. \A y : y \in B <=> \E i \in inputs : y = Imports!Property(types, i)
  BY SameProperties
<1> HIDE DEF X
<1>4. \A y : y \in A <=> Leads(X, <<>>, 0, y)
  <2>1. \A k \in 1..0 : <<>>[k] = <<>>[k]
    OBVIOUS
  <2>2. \A x \in X : IsSeq(x)
    BY <1>1
  <2> QED
    BY <1>2, <2>1, <2>2, NextOf
<1> HIDE DEF A, B
<1>5. ASSUME NEW y
      PROVE  Leads(X, <<>>, 0, y) <=> \E i \in inputs : y = Imports!Property(types, i)
  <2>1. Leads(X, <<>>, 0, y) <=> \E x \in X : x[1] = y
    BY <1>1 DEF Leads
  <2> QED
    BY <1>1, <2>1
<1>6. A = B
  BY <1>3, <1>4, <1>5
<1> QED
  BY <1>6 DEF A, B, X

\* Below a path of the schema are the properties of the type that it leads to.
LEMMA SchemaBelow ==
    ASSUME NEW types, Imports!WellTyped(types), NEW args, Imports!InputsOf(types, args),
           NEW q \in Schema(types, args, {}, 3), NEW n \in 1 .. Len(q),
           Imports!Last(SubSeq(q, 1, n)) # Imports!Open
    PROVE  LET X == Schema(types, args, {}, 3)
               p == SubSeq(q, 1, n)
               way == Imports!InputTrail(types, args, p)
               inputs == types[Imports!Last(way)].inputs
           IN  /\ Imports!Last(way) \in DOMAIN types
               /\ {x[Len(p) + 1] : x \in {u \in X : Imports!IsStrictPrefix(p, u)}}
                 = IF types[Imports!Last(way)].kind # "INPUT_OBJECT" THEN {}
                   ELSE IF ~Imports!IsInjective(way) \/ n > 3 \/ inputs = {} THEN {Imports!Open}
                   ELSE {[name |-> i.name, required |-> NonNull(i)] : i \in inputs}
<1> DEFINE X == Schema(types, args, {}, 3)
           p == SubSeq(q, 1, n)
           way == Imports!InputTrail(types, args, p)
           m == Imports!Last(way)
           inputs == types[m].inputs
           A == {x[Len(p) + 1] : x \in {u \in X : Imports!IsStrictPrefix(p, u)}}
           C == {[name |-> i.name, required |-> NonNull(i)] : i \in inputs}
           B == IF types[m].kind # "INPUT_OBJECT" THEN {}
                ELSE IF ~Imports!IsInjective(way) \/ n > 3 \/ inputs = {} THEN {Imports!Open}
                ELSE C
<1>1. {} \in SUBSET DOMAIN types /\ 3 \in 0..3
  OBVIOUS
<1>2. \A x \in X : IsSeq(x) /\ Len(x) \in Nat /\ Len(x) >= 1
  BY <1>1, SchemaSeqs
<1>3. n \in Nat /\ n >= 1
  BY <1>2
<1>4. IsSeq(p) /\ Len(p) = n /\ \A k \in 1..n : p[k] = q[k]
  <2>1. PICK S : q \in Seq(S)
    BY <1>2, Zenon DEF IsSeq
  <2>2. p \in Seq(S) /\ Len(p) = n /\ \A k \in 1..n : p[k] = q[k]
    BY <1>3, <2>1
  <2> QED
    BY <2>2, Zenon DEF IsSeq
<1> HIDE DEF p
<1>5. q[n] # Imports!Open
  <2>1. Imports!Last(p) # Imports!Open
    BY DEF p
  <2> QED
    BY <1>3, <1>4, <2>1 DEF Imports!Last
<1>6. Reaches(types, args, {}, 3, q, n)
  BY <1>1, <1>5 DEF Reaches
<1>7. /\ HasWay(types, args, q, n)
      /\ \A w : Along(types, args, q, n, w) => Told(types, args, {}, 3, q, n, w)
  <2>1. Tells(types, 3)
    BY SchemaTells
  <2> QED
    BY <1>6, <2>1, Zenon DEF Tells
<1>8. DOMAIN way = 1..n /\ Len(way) = n /\ Along(types, args, q, n, way)
  BY <1>3, <1>4, <1>7, TrailAlong
<1> HIDE DEF way
<1>9. m = way[n]
  BY <1>8 DEF Imports!Last
<1>10. /\ m \in DOMAIN types
       /\ \A y : Leads(X, q, n, y) <=> GoesOn(types, {}, 3, n, way, y)
  BY <1>7, <1>8, <1>9 DEF Told
<1>11. Closed(types, {}, 3, n, way) <=> ~Imports!IsInjective(way) \/ n > 3 \/ inputs = {}
  BY <1>8, <1>9 DEF Closed, Imports!IsInjective
<1> HIDE DEF m
<1>12. \A y : y \in C <=> \E i \in inputs : y = Imports!Property(types, i)
  <2>1. Imports!InputsOf(types, inputs)
    BY <1>10 DEF Imports!WellTyped
  <2> QED
    BY <2>1, SameProperties
<1> HIDE DEF X
<1>13. \A y : y \in A <=> Leads(X, q, n, y)
  BY <1>2, <1>4, NextOf
<1> HIDE DEF A, C
<1>14. ASSUME NEW y
       PROVE  GoesOn(types, {}, 3, n, way, y) <=> y \in B
  BY <1>9, <1>11, <1>12 DEF GoesOn
<1> HIDE DEF B
<1>15. A = B
  BY <1>10, <1>13, <1>14
<1> QED
  BY <1>10, <1>15 DEF A, B, C, X, p, way, m

\* Properties by the type of their inputs describe them, default values or not.
LEMMA Described ==
    ASSUME NEW types, NEW inputs, Imports!InputsOf(types, inputs)
    PROVE  Imports!Describes({[name |-> i.name, required |-> NonNull(i)] : i \in inputs}, inputs)
<1> DEFINE ps == {[name |-> i.name, required |-> NonNull(i)] : i \in inputs}
<1>1. \A i \in inputs : [name |-> i.name, required |-> NonNull(i)] \in ps
  OBVIOUS
<1>2. \A x \in ps : \E i \in inputs : x.name = i.name /\ x.required = NonNull(i)
  OBVIOUS
<1>3. {x.name : x \in ps} = {i.name : i \in inputs}
  <2> HIDE DEF ps
  <2>1. \A i \in inputs : \E x \in ps : x.name = i.name
    BY <1>1
  <2> QED
    BY <1>2, <2>1
<1>4. ASSUME NEW x \in ps, NEW i \in inputs, x.name = i.name
      PROVE  /\ Imports!Required(i) => x.required
             /\ x.required => Imports!Required(i) \/ i.default
  <2>1. PICK j \in inputs : x.name = j.name /\ x.required = NonNull(j)
    BY <1>2
  <2>2. j = i
    BY <1>4, <2>1 DEF Imports!InputsOf
  <2> QED
    BY <2>1, <2>2 DEF NonNull, Imports!Required
<1> HIDE DEF ps
<1> QED
  BY <1>3, <1>4 DEF Imports!Describes, ps

\* The tools of a GraphQL API ask for what their operations ask.
LEMMA SchemasAreExact ==
    ASSUME part = "imports", ImportInv
    PROVE  Imports!InputsAreExact
<1> DEFINE types == tSource.api.types
           d == Imports!Depth(tSource.depth)
           Under(X, p) == {q[Len(p) + 1] : q \in {x \in X : Imports!IsStrictPrefix(p, x)}}
           Asks(X, args, n, p) ==
             LET way == Imports!InputTrail(types, args, p)
                 inputs == types[Imports!Last(way)].inputs
             IN  IF types[Imports!Last(way)].kind # "INPUT_OBJECT" THEN Under(X, p) = {}
                 ELSE IF ~Imports!IsInjective(way) \/ n > 3 \/ inputs = {}
                      THEN Under(X, p) = {Imports!Open}
                 ELSE Imports!Describes(Under(X, p), inputs)
<1> SUFFICES ASSUME tSource.kind = "graphql", tTools # None, NEW tool \in tTools
             PROVE  LET args == Imports!FieldOf(tool.operation, tool.field).args
                    IN  /\ Imports!Describes(Under(tool.schema, <<>>), args)
                        /\ \A q \in tool.schema : \A n \in 1 .. Len(q) :
                             Imports!Last(SubSeq(q, 1, n)) # Imports!Open =>
                               Asks(tool.schema, args, n, SubSeq(q, 1, n))
  BY Zenon DEF Imports!InputsAreExact
<1>1. FromField(tool)
  BY DEF ImportInv
<1>2. PICK operation \in {"query", "mutation"} :
        /\ Root(operation) # None
        /\ \E f \in types[Root(operation)].fields :
             tool = Imports!FieldToTool(types, operation, f, d)
  BY <1>1, Zenon DEF FromField
<1>3. PICK f \in types[Root(operation)].fields : tool = Imports!FieldToTool(types, operation, f, d)
  BY <1>2, Zenon
<1>4. /\ Imports!WellTyped(types) /\ Root(operation) \in DOMAIN types
      /\ Imports!FieldOf(operation, f.name) = f
  BY <1>2, SourceApi
<1>5. tool.operation = operation /\ tool.field = f.name
  BY <1>3 DEF Imports!FieldToTool
<1> DEFINE args == f.args
           X == Schema(types, args, {}, 3)
<1>6. Imports!FieldOf(tool.operation, tool.field).args = args /\ tool.schema = X
  BY <1>3, <1>4, <1>5, ToolAsks
<1>7. Imports!InputsOf(types, args)
  BY <1>4 DEF Imports!WellTyped
<1> HIDE DEF types, d, args
<1>8. Imports!Describes(Under(X, <<>>), args)
  <2>1. Under(X, <<>>) = {[name |-> i.name, required |-> NonNull(i)] : i \in args}
    BY <1>4, <1>7, SchemaHead
  <2> HIDE DEF Under, X
  <2> QED
    BY <1>7, <2>1, Described
<1>9. ASSUME NEW q \in X, NEW n \in 1 .. Len(q), Imports!Last(SubSeq(q, 1, n)) # Imports!Open
      PROVE  Asks(X, args, n, SubSeq(q, 1, n))
  <2> DEFINE p == SubSeq(q, 1, n)
             way == Imports!InputTrail(types, args, p)
             m == Imports!Last(way)
             inputs == types[m].inputs
  <2>1. Under(X, p) =
          IF types[m].kind # "INPUT_OBJECT" THEN {}
          ELSE IF ~Imports!IsInjective(way) \/ n > 3 \/ inputs = {} THEN {Imports!Open}
          ELSE {[name |-> i.name, required |-> NonNull(i)] : i \in inputs}
    BY <1>4, <1>7, <1>9, SchemaBelow
  <2>2. Asks(X, args, n, p) <=>
          IF types[m].kind # "INPUT_OBJECT" THEN Under(X, p) = {}
          ELSE IF ~Imports!IsInjective(way) \/ n > 3 \/ inputs = {} THEN Under(X, p) = {Imports!Open}
          ELSE Imports!Describes(Under(X, p), inputs)
    BY Zenon
  <2>3. m \in DOMAIN types
    BY <1>4, <1>7, <1>9, SchemaBelow
  <2> HIDE DEF Under, X, Asks, p, way, m
  <2>4. Imports!InputsOf(types, inputs)
    BY <1>4, <2>3 DEF Imports!WellTyped
  <2>5. Imports!Describes({[name |-> i.name, required |-> NonNull(i)] : i \in inputs}, inputs)
    BY <2>4, Described
  <2> HIDE DEF inputs
  <2> QED
    BY <2>1, <2>2, <2>5 DEF p
<1> HIDE DEF X, Under, Asks
<1> QED
  BY <1>6, <1>8, <1>9

\* For every schema that introspection reads in full and every depth, an imported tool
\* selects nothing that cannot be had of its result without arguments, through no type twice
\* and no deeper than it was told, and misses of that only what is behind an argument with a
\* default value; and it asks its caller for what the operation requires, down to three
\* objects, and for nothing else but inputs with a default value (selectionForObject(),
\* typeToJsonSchema(), packages/import-graphql).
THEOREM ToolsAreExactAlways == AdmissionSpec => []ToolsAreExact
<1>1. ImportInv => ToolsAreExact
  BY SelectionsAreExact, SchemasAreExact DEF ToolsAreExact, Imports!ToolsAreExact
<1> QED
  BY <1>1, ImportInvariant, PTL
=============================================================================
