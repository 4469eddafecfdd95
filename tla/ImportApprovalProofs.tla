------------------------ MODULE ImportApprovalProofs ------------------------
(***************************************************************************)
(* ImportApproval for every set of specs, administrators and readers: the  *)
(* types, and the moderation guarantee under the one assumption the code   *)
(* leaves to its users, that nobody registers or removes an id anew while  *)
(* an approve() of it runs (OverlapAllowed = FALSE).                       *)
(***************************************************************************)
EXTENDS ImportApproval, TLAPS

\* The row that register() leaves is a row.
LEMMA RegisteredRow ==
  ASSUME NEW s \in Spec, NEW import \in BOOLEAN, NEW auto \in BOOLEAN
  PROVE  Registered(s, import, auto) \in Row
BY DEF Registered, Row, Approval

\* The requests keep their types whatever step they take.
LEMMA AdminUpdates ==
  ASSUME op \in [Admin -> AdminRequest], NEW a \in Admin, NEW pc \in AdminPc
  PROVE  /\ Goto(a, pc) => op' \in [Admin -> AdminRequest]
         /\ Finish(a) => op' \in [Admin -> AdminRequest]
BY DEF Goto, Finish, Done, AdminRequest, AdminPc

\* The types of what a reader is given.
LEMMA ReaderUpdates ==
  ASSUME rd \in [Reader -> ReaderRequest], NEW r \in Reader,
         NEW pc \in {"list", "caps", "fill", "ready"}, NEW kind \in {"list", "call"},
         NEW q \in Row, NEW caps \in Spec \cup {None}
  PROVE  /\ Request(r, pc, kind, q, caps) => rd' \in [Reader -> ReaderRequest]
         /\ Answer(r) => rd' \in [Reader -> ReaderRequest]
<1>1. [pc |-> pc, kind |-> kind, row |-> q, caps |-> caps] \in ReaderRequest
  BY DEF ReaderRequest
<1>2. Answered \in ReaderRequest
  BY DEF ReaderRequest, Answered, Row, NoRow, Approval
<1> QED
  BY <1>1, <1>2 DEF Request, Answer

\* Row, snapshot, caches and every request in progress keep their types.
THEOREM TypeCorrect == LifeSpec => []TypeOK
<1> USE ApprovalAssumption DEF TypeOK
<1>1. Init => TypeOK
  BY DEF Init, Row, NoRow, Approval, Done, Answered, AdminRequest, AdminPc, ReaderRequest
<1>2. TypeOK /\ [Next]_vars => TypeOK'
  <2> SUFFICES ASSUME TypeOK, [Next]_vars
               PROVE  TypeOK'
    OBVIOUS
  <2>1. CASE RegistryWrite
    <3>1. ASSUME NEW s \in Spec, Submit(s)
          PROVE  TypeOK'
      BY <3>1, RegisteredRow DEF Submit
    <3>2. ASSUME NEW s \in External, ExternalTick(s)
          PROVE  TypeOK'
      BY <3>2, RegisteredRow DEF ExternalTick
    <3>3. ASSUME NEW a \in Admin, NEW s \in Spec, AdminRegister(a, s)
          PROVE  TypeOK'
      BY <3>3, RegisteredRow, AdminUpdates DEF AdminRegister, AdminPc
    <3>4. ASSUME NEW a \in Admin, Remove(a) \/ Reject(a)
          PROVE  TypeOK'
      <4>1. row' \in Row
        <5>1. "rejected" \in Approval
          BY DEF Approval
        <5>2. NoRow \in Row
          BY DEF Row, NoRow, Approval
        <5>3. [row EXCEPT !.approval = "rejected"] \in Row
          BY <5>1 DEF Row
        <5> QED
          BY <3>4, <5>2, <5>3 DEF Remove, Reject
      <4> QED
        BY <3>4, <4>1, AdminUpdates DEF Remove, Reject, AdminPc
    <3>5. ASSUME NEW a \in Admin, ApproveSave(a)
          PROVE  TypeOK'
      <4>1. op[a] \in AdminRequest
        OBVIOUS
      <4>2. op[a].spec \in Spec \cup {None}
        BY <4>1 DEF AdminRequest
      <4>3. [row EXCEPT !.spec = op[a].spec, !.probed = TRUE] \in Row
        BY <4>2 DEF Row
      <4> QED
        BY <3>5, <4>3, AdminUpdates DEF ApproveSave, AdminPc
    <3>6. ASSUME NEW a \in Admin, ApproveSnapshot(a)
          PROVE  TypeOK'
      <4>1. op[a] \in AdminRequest
        OBVIOUS
      <4>2. op[a].spec \in Spec \cup {None}
        BY <4>1 DEF AdminRequest
      <4> QED
        BY <3>6, <4>2, AdminUpdates DEF ApproveSnapshot, AdminPc
    <3>7. ASSUME NEW a \in Admin, ApproveDecide(a)
          PROVE  TypeOK'
      <4>1. [row EXCEPT !.approval = "approved"] \in Row
        BY DEF Row, Approval
      <4> QED
        BY <3>7, <4>1, AdminUpdates DEF ApproveDecide, AdminPc
    <3> QED
      BY <2>1, <3>1, <3>2, <3>3, <3>4, <3>5, <3>6, <3>7 DEF RegistryWrite
  <2>2. ASSUME NEW a \in Admin, AdminStep(a)
        PROVE  TypeOK'
    <3>1. CASE ApproveRead(a)
      <4>1. row.spec \in Spec \cup {None}
        BY DEF Row
      <4>2. [pc |-> "read", spec |-> row.spec] \in AdminRequest
        BY <4>1 DEF AdminRequest, AdminPc
      <4> QED
        BY <3>1, <4>2 DEF ApproveRead
    <3>2. CASE ApproveProbe(a) \/ Invalidate(a) \/ Abort(a)
      BY <3>2, AdminUpdates DEF ApproveProbe, Invalidate, Abort, AdminPc
    <3> QED
      BY <2>2, <3>1, <3>2 DEF AdminStep
  <2>3. CASE ExternalRestart \/ HealthProbe \/ CacheStep
    BY <2>3 DEF ExternalRestart, HealthProbe, CacheStep, ExpireList, ExpireCaps
  <2>4. ASSUME NEW e \in bus, Deliver(e) \/ Lose(e)
        PROVE  TypeOK'
    BY <2>4 DEF Deliver, Lose
  <2>5. ASSUME NEW r \in Reader, ReaderStep(r)
        PROVE  TypeOK'
    <3>1. rd[r] \in ReaderRequest /\ NoRow \in Row
      BY DEF Row, NoRow, Approval
    <3>2. /\ rd[r].kind \in {"list", "call"}
          /\ rd[r].row \in Row
          /\ rd[r].caps \in Spec \cup {None}
      BY <3>1 DEF ReaderRequest
    <3>3. rd' \in [Reader -> ReaderRequest]
      <4>1. CASE ListHit(r) \/ ListMiss(r) \/ Gate(r)
        BY <4>1, <3>1, ReaderUpdates DEF ListHit, ListMiss, Gate
      <4>2. CASE ListFill(r)
        BY <4>2, <3>1, ReaderUpdates DEF ListFill
      <4>3. CASE CapsHit(r) \/ CapsMiss(r)
        BY <4>3, <3>2, ReaderUpdates DEF CapsHit, CapsMiss
      <4>4. CASE CapsFill(r) \/ Conclude(r)
        BY <4>4, <3>2, ReaderUpdates DEF CapsFill, Conclude
      <4> QED
        BY <2>5, <4>1, <4>2, <4>3, <4>4 DEF ReaderStep
    <3>4. CASE ListFill(r)
      BY <3>3, <3>4 DEF ListFill
    <3>5. CASE CapsFill(r)
      BY <3>2, <3>3, <3>5 DEF CapsFill
    <3>6. CASE UNCHANGED Others
      BY <3>3, <3>6 DEF Others
    <3> QED
      BY <2>5, <3>4, <3>5, <3>6 DEF ReaderStep, ListHit, ListMiss, Gate, CapsHit,
                                    CapsMiss, Conclude
  <2>6. CASE UNCHANGED vars
    BY <2>6 DEF vars
  <2> QED
    BY <2>1, <2>2, <2>3, <2>4, <2>5, <2>6 DEF Next
<1> QED
  BY <1>1, <1>2, PTL DEF LifeSpec

\* What a step of one administrator's request leaves of all of them, and what an
\* update leaves of a row.
LEMMA RequestAfter ==
  ASSUME op \in [Admin -> AdminRequest], NEW a \in Admin, NEW pc \in AdminPc
  PROVE  /\ Goto(a, pc) => /\ op'[a].pc = pc
                           /\ op'[a].spec = op[a].spec
                           /\ \A b \in Admin \ {a} : op'[b] = op[b]
         /\ Finish(a) => /\ op'[a].pc = "idle"
                         /\ \A b \in Admin \ {a} : op'[b] = op[b]
<1>1. op[a] \in AdminRequest
  OBVIOUS
<1> QED
  BY <1>1 DEF Goto, Finish, Done, AdminRequest

\* A row whose approval changes is the same import with the same transport.
LEMMA RowAfter ==
  ASSUME NEW q \in Row, NEW status
  PROVE  /\ [q EXCEPT !.approval = status].approval = status
         /\ [q EXCEPT !.approval = status].import = q.import
         /\ [q EXCEPT !.approval = status].probed = q.probed
         /\ [q EXCEPT !.approval = status].spec = q.spec
BY DEF Row

\* An approve() in progress still has under it the very row it read, with its
\* transport once saved, and its snapshot once taken.
ApproveInv ==
  \A a \in Admin :
    /\ op[a].pc \in {"read", "probed", "saved", "snapped"} =>
         row.import /\ row.spec = op[a].spec
    /\ op[a].pc \in {"saved", "snapped"} => row.probed
    /\ op[a].pc = "snapped" => snapshot = op[a].spec

ModerationInv == ApproveInv /\ ApprovedWasProbed /\ RoutesOnlyProbed

\* Every step of an administrator, a feed and a reader keeps it.
LEMMA ModerationStep ==
  ASSUME OverlapAllowed = FALSE, TypeOK, ModerationInv, [Next]_vars
  PROVE  ModerationInv'
<1> USE DEF TypeOK, ModerationInv, ApproveInv, ApprovedWasProbed, RoutesOnlyProbed
<1>1. ASSUME NEW s \in Spec, NEW import \in BOOLEAN, NEW auto \in BOOLEAN,
             MayOverwrite, row' = Registered(s, import, auto), snapshot' = snapshot,
             rd' = rd, import => auto = FALSE,
             op' = op \/ \E a \in Admin : At(a, "idle") /\ Goto(a, "invalidate")
      PROVE  ModerationInv'
  <2>1. \A a \in Admin : op[a].pc \notin {"read", "probed", "saved", "snapped"}
    BY <1>1 DEF MayOverwrite, Approving
  <2>2. \A a \in Admin : op'[a].pc \notin {"read", "probed", "saved", "snapped"}
    BY <1>1, <2>1, RequestAfter DEF At, AdminPc
  <2>3. row'.import /\ row'.approval = "approved" => FALSE
    BY <1>1 DEF Registered, Row
  <2> QED
    BY <1>1, <2>2, <2>3
<1>2. ASSUME NEW s \in Spec, Submit(s)
      PROVE  ModerationInv'
  BY <1>1, <1>2 DEF Submit
<1>3. ASSUME NEW s \in External, ExternalTick(s)
      PROVE  ModerationInv'
  BY <1>1, <1>3, ApprovalAssumption DEF ExternalTick
<1>4. ASSUME NEW a \in Admin, NEW s \in Spec, AdminRegister(a, s)
      PROVE  ModerationInv'
  BY <1>1, <1>4 DEF AdminRegister
<1>5. ASSUME NEW a \in Admin, Remove(a)
      PROVE  ModerationInv'
  <2>1. \A b \in Admin : op[b].pc \notin {"read", "probed", "saved", "snapped"}
    BY <1>5 DEF Remove, MayOverwrite, Approving
  <2> QED
    BY <1>5, <2>1, RequestAfter DEF Remove, NoRow, At, AdminPc
<1>6. ASSUME NEW a \in Admin, Reject(a)
      PROVE  ModerationInv'
  BY <1>6, RequestAfter, RowAfter DEF Reject, AdminPc
<1>7. ASSUME NEW a \in Admin, ApproveSave(a)
      PROVE  ModerationInv'
  <2>1. CASE Present
    <3>1. /\ op[a].pc = "probed" /\ op'[a].pc = "saved" /\ op'[a].spec = op[a].spec
          /\ \A b \in Admin \ {a} : op'[b] = op[b]
      BY <1>7, <2>1, RequestAfter DEF ApproveSave, AdminPc, At
    <3>2. /\ row'.spec = op[a].spec /\ row'.probed
          /\ row'.import = row.import /\ row'.approval = row.approval
      <4>1. row' = [row EXCEPT !.spec = op[a].spec, !.probed = TRUE]
        BY <1>7, <2>1 DEF ApproveSave
      <4>2. row \in Row
        OBVIOUS
      <4> HIDE DEF TypeOK, ModerationInv, ApproveInv
      <4> QED
        BY <4>1, <4>2 DEF Row
    <3>3. snapshot' = snapshot /\ rd' = rd
      BY <1>7 DEF ApproveSave
    <3>4. row.import /\ row.spec = op[a].spec
      BY <3>1
    <3>5. ApproveInv'
      BY <3>1, <3>2, <3>3, <3>4
    <3>6. ApprovedWasProbed'
      BY <3>2, <3>3, <3>4
    <3> QED
      BY <3>3, <3>5, <3>6
  <2>2. CASE ~Present
    BY <1>7, <2>2, RequestAfter DEF ApproveSave, AdminPc
  <2> QED
    BY <2>1, <2>2
<1>8. ASSUME NEW a \in Admin, ApproveSnapshot(a)
      PROVE  ModerationInv'
  <2>1. CASE Present
    BY <1>8, <2>1, RequestAfter DEF ApproveSnapshot, AdminPc, At
  <2>2. CASE ~Present
    BY <1>8, <2>2, RequestAfter DEF ApproveSnapshot, AdminPc
  <2> QED
    BY <2>1, <2>2
<1>9. ASSUME NEW a \in Admin, ApproveDecide(a)
      PROVE  ModerationInv'
  <2>1. CASE Present
    <3>1. /\ op[a].pc = "snapped" /\ op'[a].pc = "invalidate"
          /\ \A b \in Admin \ {a} : op'[b] = op[b]
      BY <1>9, <2>1, RequestAfter DEF ApproveDecide, AdminPc, At
    <3>2. /\ row'.spec = row.spec /\ row'.probed = row.probed /\ row'.import = row.import
      <4>1. row' = [row EXCEPT !.approval = "approved"]
        BY <1>9, <2>1 DEF ApproveDecide
      <4>2. row \in Row
        OBVIOUS
      <4> HIDE DEF TypeOK, ModerationInv, ApproveInv
      <4> QED
        BY <4>1, <4>2 DEF Row
    <3>3. snapshot' = snapshot /\ rd' = rd
      BY <1>9 DEF ApproveDecide
    <3>4. row.import /\ row.probed /\ row.spec = op[a].spec /\ snapshot = op[a].spec
      BY <3>1
    <3>5. row'.import /\ row'.probed /\ row'.spec = op[a].spec
      BY <3>2, <3>4
    <3>6. ApproveInv'
      BY <3>1, <3>3, <3>4, <3>5, <3>2
    <3> QED
      BY <3>3, <3>4, <3>5, <3>6
  <2>2. CASE ~Present
    BY <1>9, <2>2, RequestAfter DEF ApproveDecide, AdminPc
  <2> QED
    BY <2>1, <2>2
<1>10. ASSUME NEW a \in Admin, AdminStep(a)
       PROVE  ModerationInv'
  <2>1. CASE ApproveRead(a)
    <3>1. /\ op'[a].pc = "read" /\ op'[a].spec = row.spec
          /\ \A b \in Admin \ {a} : op'[b] = op[b]
      BY <2>1 DEF ApproveRead
    <3> QED
      BY <2>1, <3>1 DEF ApproveRead
  <2>2. CASE ApproveProbe(a) \/ Invalidate(a) \/ Abort(a)
    BY <2>2, RequestAfter DEF ApproveProbe, Invalidate, Abort, AdminPc, At
  <2> QED
    BY <1>10, <2>1, <2>2 DEF AdminStep
<1>11. CASE ExternalRestart \/ HealthProbe \/ CacheStep \/ \E e \in bus : Deliver(e) \/ Lose(e)
  BY <1>11 DEF ExternalRestart, HealthProbe, CacheStep, ExpireList, ExpireCaps, Deliver, Lose
<1>12. ASSUME NEW r \in Reader, ReaderStep(r)
       PROVE  ModerationInv'
  BY <1>12 DEF ReaderStep, ListHit, ListMiss, ListFill, Gate, CapsHit, CapsMiss,
               CapsFill, Conclude, Request, Answer, Answered, NoRow, Others
<1>13. CASE UNCHANGED vars
  BY <1>13 DEF vars
<1> QED
  BY <1>2, <1>3, <1>4, <1>5, <1>6, <1>7, <1>8, <1>9, <1>10, <1>11, <1>12, <1>13
     DEF Next, RegistryWrite

\* Without an overlapping re-registration, for any number of administrators,
\* feeds and readers: an approved import is what its approval probed, and the
\* router dispatches imports to probed transports only.
THEOREM ModerationHolds ==
  OverlapAllowed = FALSE => (LifeSpec => [](ApprovedWasProbed /\ RoutesOnlyProbed))
<1> SUFFICES ASSUME OverlapAllowed = FALSE
             PROVE  LifeSpec => [](ApprovedWasProbed /\ RoutesOnlyProbed)
  OBVIOUS
<1>1. Init => ModerationInv
  BY DEF Init, ModerationInv, ApproveInv, ApprovedWasProbed, RoutesOnlyProbed,
         NoRow, Done, Answered
<1>2. TypeOK /\ ModerationInv /\ [Next]_vars => ModerationInv'
  BY ModerationStep
<1>3. ModerationInv => ApprovedWasProbed /\ RoutesOnlyProbed
  BY DEF ModerationInv
<1> QED
  BY <1>1, <1>2, <1>3, TypeCorrect, PTL DEF LifeSpec

\* The second half of it, which the run of the admission checks by itself: what the router
\* dispatches an import to was probed by an approval, however often the row was overwritten
\* before and is overwritten while the call waits.
THEOREM RoutesOnlyProbedAlways ==
  OverlapAllowed = FALSE => (LifeSpec => []RoutesOnlyProbed)
BY ModerationHolds, PTL
=============================================================================
