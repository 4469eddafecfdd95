--------------------------- MODULE ImportApproval ---------------------------
(***************************************************************************)
(* The life of one server id: its row in `servers` and its latest row in   *)
(* `capability_snapshots` (packages/registry/src/index.ts), the admin and  *)
(* import endpoints that write them (servers.controller.ts,                *)
(* imports.controller.ts), the external registry feed                      *)
(* (external-registry.module.ts), the capability cache in Redis            *)
(* (packages/cache) and the router that reads all of it                    *)
(* (router.service.ts).  Server ids share nothing, so one id is modelled.  *)
(* Every await is a point where another request may run.                   *)
(***************************************************************************)
EXTENDS Naturals

CONSTANTS
    Spec,             \* what a server can be registered as: its transport and,
                      \* for an import, its body
    External,         \* the subset of Spec an external feed may carry; {} = no feed
    Admin,            \* concurrent requests of administrators
    Reader,           \* concurrent tools/list and tools/call requests
    None,             \* no snapshot, nothing cached
    OverlapAllowed    \* may the id be registered anew or removed while an
                      \* approve() of it is running?  The code does not prevent it.

ASSUME ApprovalAssumption ==
    /\ External \subseteq Spec
    /\ None \notin Spec
    /\ OverlapAllowed \in BOOLEAN

VARIABLES
    row,       \* the servers row; approval "absent" when there is none
    snapshot,  \* latestCapabilities(): the spec whose tools were snapshotted last
    op,        \* where each administrator's request is, and the spec it read
    mirrored,  \* ExternalRegistrySync.lastFingerprint of the id, in process memory
    capsCache, \* mavio:cap:<region>:<id>
    listCache, \* mavio:servers:<region>:list: does it hold the id, or None
    bus,       \* events published on mavio:invalidate, not yet delivered elsewhere
    rd         \* where each tools/list or tools/call request is, what it holds

vars == <<row, snapshot, op, mirrored, capsCache, listCache, bus, rd>>

Approval == {"absent", "pending", "approved", "rejected"}
Row == [spec : Spec \cup {None}, probed : BOOLEAN, import : BOOLEAN, approval : Approval]
AdminPc == {"idle", "read", "probed", "saved", "snapped", "invalidate"}
AdminRequest == [pc : AdminPc, spec : Spec \cup {None}]
ReaderRequest ==
    [pc : {"idle", "list", "caps", "fill", "ready"}, kind : {"list", "call"},
     row : Row, caps : Spec \cup {None}]
NoRow == [spec |-> None, probed |-> FALSE, import |-> FALSE, approval |-> "absent"]
Done == [pc |-> "idle", spec |-> None]
Answered == [pc |-> "idle", kind |-> "call", row |-> NoRow, caps |-> None]
Present == row.approval # "absent"

Init ==
    /\ row = NoRow
    /\ snapshot = None
    /\ op = [a \in Admin |-> Done]
    /\ mirrored = None
    /\ capsCache = None
    /\ listCache = None
    /\ bus = {}
    /\ rd = [r \in Reader |-> Answered]

-----------------------------------------------------------------------------
(* Registry *)

\* Requests of approve() between its read of the row and its last write.
Approving == {a \in Admin : op[a].pc \in {"read", "probed", "saved", "snapped"}}
MayOverwrite == OverlapAllowed \/ Approving = {}

\* Mutation of Registered: the conflict branch keeps the approval status.
RegisteredKeepingApproval(s, import, autoApprove) ==
    [spec |-> s, probed |-> FALSE, import |-> import,
     approval |-> IF Present THEN row.approval
                  ELSE IF autoApprove THEN "approved" ELSE "pending"]

\* register(): insert, or on conflict overwrite transport and metadata and fall
\* back to pending, whatever autoApprove says.
Registered(s, import, autoApprove) ==
    [spec |-> s, probed |-> FALSE, import |-> import,
     approval |-> IF ~Present /\ autoApprove THEN "approved" ELSE "pending"]

\* POST /api/imports/{openapi,sql,graphql,mcp}: no call to the router.
Submit(s) ==
    /\ MayOverwrite
    /\ row' = Registered(s, TRUE, FALSE)
    /\ UNCHANGED <<snapshot, op, mirrored, capsCache, listCache, bus, rd>>

Goto(a, pc) == op' = [op EXCEPT ![a].pc = pc]
Finish(a) == op' = [op EXCEPT ![a] = Done]
At(a, pc) == op[a].pc = pc

\* POST /api/servers, up to its router.invalidate().
AdminRegister(a, s) ==
    /\ At(a, "idle")
    /\ MayOverwrite
    /\ row' = Registered(s, FALSE, TRUE)
    /\ Goto(a, "invalidate")
    /\ UNCHANGED <<snapshot, mirrored, capsCache, listCache, bus, rd>>

\* DELETE /api/servers/:id; the snapshots go by ON DELETE CASCADE.
Remove(a) ==
    /\ At(a, "idle")
    /\ Present
    /\ MayOverwrite
    /\ row' = NoRow
    /\ snapshot' = None
    /\ Goto(a, "invalidate")
    /\ UNCHANGED <<mirrored, capsCache, listCache, bus, rd>>

\* ExternalRegistrySync.tick() finds a descriptor it has not mirrored yet.
ExternalTick(s) ==
    /\ mirrored # s
    /\ MayOverwrite
    /\ row' = Registered(s, FALSE, FALSE)
    /\ mirrored' = s
    /\ bus' = bus \cup {"servers"}
    /\ UNCHANGED <<snapshot, op, capsCache, listCache, rd>>

\* The polling process restarts and forgets its fingerprints.
ExternalRestart ==
    /\ mirrored # None
    /\ mirrored' = None
    /\ UNCHANGED <<row, snapshot, op, capsCache, listCache, bus, rd>>

-----------------------------------------------------------------------------
(* POST /api/imports/:id/approve, one action per await *)

\* registry.get(id); a row without importSpec is refused.
ApproveRead(a) ==
    /\ At(a, "idle")
    /\ Present
    /\ row.import
    /\ op' = [op EXCEPT ![a] = [pc |-> "read", spec |-> row.spec]]
    /\ UNCHANGED <<row, snapshot, mirrored, capsCache, listCache, bus, rd>>

\* runBlueprint(spec) reaches the upstream (Abort: when that fails).
ApproveProbe(a) ==
    /\ At(a, "read")
    /\ Goto(a, "probed")
    /\ UNCHANGED <<row, snapshot, mirrored, capsCache, listCache, bus, rd>>

\* registry.updateSpec(): NotFoundError if the row is gone.
ApproveSave(a) ==
    /\ At(a, "probed")
    /\ IF Present
         THEN /\ row' = [row EXCEPT !.spec = op[a].spec, !.probed = TRUE]
              /\ Goto(a, "saved")
         ELSE row' = row /\ Finish(a)
    /\ UNCHANGED <<snapshot, mirrored, capsCache, listCache, bus, rd>>

\* registry.snapshotCapabilities(): the foreign key fails if the row is gone.
ApproveSnapshot(a) ==
    /\ At(a, "saved")
    /\ IF Present
         THEN snapshot' = op[a].spec /\ Goto(a, "snapped")
         ELSE snapshot' = snapshot /\ Finish(a)
    /\ UNCHANGED <<row, mirrored, capsCache, listCache, bus, rd>>

\* registry.approve(): by id only, whatever the row now is.
ApproveDecide(a) ==
    /\ At(a, "snapped")
    /\ IF Present
         THEN row' = [row EXCEPT !.approval = "approved"] /\ Goto(a, "invalidate")
         ELSE row' = row /\ Finish(a)
    /\ UNCHANGED <<snapshot, mirrored, capsCache, listCache, bus, rd>>

\* POST /api/imports/:id/reject, up to its router.invalidate().
Reject(a) ==
    /\ At(a, "idle")
    /\ Present
    /\ row' = [row EXCEPT !.approval = "rejected"]
    /\ Goto(a, "invalidate")
    /\ UNCHANGED <<snapshot, mirrored, capsCache, listCache, bus, rd>>

\* RouterService.invalidate(id) ends every administrator's request.
Invalidate(a) ==
    /\ At(a, "invalidate")
    /\ Finish(a)
    /\ capsCache' = None
    /\ listCache' = None
    /\ bus' = bus \cup {"server"}
    /\ UNCHANGED <<row, snapshot, mirrored, rd>>

\* An await fails (upstream, database, Redis) or the process dies: what was
\* already written stays.
Abort(a) ==
    /\ ~At(a, "idle")
    /\ Finish(a)
    /\ UNCHANGED <<row, snapshot, mirrored, capsCache, listCache, bus, rd>>

-----------------------------------------------------------------------------
(* The cache: other replicas' reaction to the bus, and expiry *)

\* HealthProber.probeAll(): approved servers only.
HealthProbe ==
    /\ row.approval = "approved"
    /\ bus' = bus \cup {"server"}
    /\ UNCHANGED <<row, snapshot, op, mirrored, capsCache, listCache, rd>>

\* RouterService.onModuleInit()'s handler on another replica of the region: a
\* "servers" event drops the list only.
Deliver(e) ==
    /\ bus' = bus \ {e}
    /\ listCache' = None
    /\ capsCache' = IF e = "server" THEN None ELSE capsCache
    /\ UNCHANGED <<row, snapshot, op, mirrored, rd>>

\* Redis pub/sub keeps nothing for a subscriber that is away.
Lose(e) ==
    /\ bus' = bus \ {e}
    /\ UNCHANGED <<row, snapshot, op, mirrored, capsCache, listCache, rd>>

\* Mutation of ExpireCaps: setCapabilities() without EX.
NeverExpires == FALSE /\ UNCHANGED vars

\* The 300 s TTL of setServerList() and setCapabilities().
ExpireList ==
    /\ listCache # None
    /\ listCache' = None
    /\ UNCHANGED <<row, snapshot, op, mirrored, capsCache, bus, rd>>

ExpireCaps ==
    /\ capsCache # None
    /\ capsCache' = None
    /\ UNCHANGED <<row, snapshot, op, mirrored, listCache, bus, rd>>

-----------------------------------------------------------------------------
(* The router *)

Others == <<row, snapshot, op, mirrored, capsCache, listCache, bus>>
Request(r, pc, kind, seen, caps) ==
    rd' = [rd EXCEPT ![r] = [pc |-> pc, kind |-> kind, row |-> seen, caps |-> caps]]
Answer(r) == rd' = [rd EXCEPT ![r] = Answered]

\* tools/list: loadServers() on a cached list with the id in it ...
ListHit(r) ==
    /\ rd[r].pc = "idle"
    /\ listCache = TRUE
    /\ Request(r, "caps", "list", NoRow, None)
    /\ UNCHANGED Others

\* ... on a miss: registry.list() with its default filter ...
ListMiss(r) ==
    /\ rd[r].pc = "idle"
    /\ listCache = None
    /\ Request(r, "list", "list", row, None)
    /\ UNCHANGED Others

\* ... and, one await later, setServerList().
ListFill(r) ==
    /\ rd[r].pc = "list"
    /\ LET listed == rd[r].row.approval = "approved"
       IN  /\ listCache' = listed
           /\ IF listed THEN Request(r, "caps", "list", NoRow, None) ELSE Answer(r)
    /\ UNCHANGED <<row, snapshot, op, mirrored, capsCache, bus>>

\* Mutation of Gate: callTool() without its approvalStatus check.
UngatedRead(r) ==
    /\ rd[r].pc = "idle"
    /\ Present
    /\ Request(r, "caps", "call", row, None)
    /\ UNCHANGED Others

\* tools/call: registry.get(id) in callTool(); -32002 unless approved.
Gate(r) ==
    /\ rd[r].pc = "idle"
    /\ row.approval = "approved"
    /\ Request(r, "caps", "call", row, None)
    /\ UNCHANGED Others

\* loadCapabilities(), of both methods: the cached tools, or ...
CapsHit(r) ==
    /\ rd[r].pc = "caps"
    /\ capsCache # None
    /\ Request(r, "ready", rd[r].kind, rd[r].row, capsCache)
    /\ UNCHANGED Others

\* ... registry.latestCapabilities(id), null not being cached ...
CapsMiss(r) ==
    /\ rd[r].pc = "caps"
    /\ capsCache = None
    /\ IF snapshot = None
         THEN Answer(r)
         ELSE Request(r, "fill", rd[r].kind, rd[r].row, snapshot)
    /\ UNCHANGED Others

\* ... stored by setCapabilities() one await later.
CapsFill(r) ==
    /\ rd[r].pc = "fill"
    /\ capsCache' = rd[r].caps
    /\ Request(r, "ready", rd[r].kind, rd[r].row, rd[r].caps)
    /\ UNCHANGED <<row, snapshot, op, mirrored, listCache, bus>>

\* tools/list answers; tools/call dispatches to the descriptor the gate read.
Conclude(r) ==
    /\ rd[r].pc = "ready"
    /\ Answer(r)
    /\ UNCHANGED Others

-----------------------------------------------------------------------------

RegistryWrite ==
    \/ \E s \in Spec : Submit(s)
    \/ \E s \in External : ExternalTick(s)
    \/ \E a \in Admin : \/ \E s \in Spec : AdminRegister(a, s)
                        \/ Remove(a) \/ Reject(a)
                        \/ ApproveSave(a) \/ ApproveSnapshot(a) \/ ApproveDecide(a)

AdminStep(a) == ApproveRead(a) \/ ApproveProbe(a) \/ Invalidate(a) \/ Abort(a)
CacheStep == ExpireList \/ ExpireCaps
ReaderStep(r) ==
    \/ ListHit(r) \/ ListMiss(r) \/ ListFill(r)
    \/ Gate(r) \/ CapsHit(r) \/ CapsMiss(r) \/ CapsFill(r) \/ Conclude(r)

Next ==
    \/ RegistryWrite
    \/ ExternalRestart
    \/ \E a \in Admin : AdminStep(a)
    \/ HealthProbe
    \/ \E e \in bus : Deliver(e) \/ Lose(e)
    \/ CacheStep
    \/ \E r \in Reader : ReaderStep(r)

LifeSpec == Init /\ [][Next]_vars

\* A cached entry always expires in the end, and a request that is filling the
\* cache finishes.
Fairness ==
    /\ WF_vars(ExpireList)
    /\ WF_vars(ExpireCaps)
    /\ \A r \in Reader : WF_vars(ListFill(r)) /\ WF_vars(CapsFill(r))

FairSpec == LifeSpec /\ Fairness

-----------------------------------------------------------------------------

TypeOK ==
    /\ row \in Row
    /\ snapshot \in Spec \cup {None}
    /\ op \in [Admin -> AdminRequest]
    /\ mirrored \in External \cup {None}
    /\ capsCache \in Spec \cup {None}
    /\ listCache \in BOOLEAN \cup {None}
    /\ bus \subseteq {"server", "servers"}
    /\ rd \in [Reader -> ReaderRequest]

\* An import becomes approved only as what its approval probed: the transport in
\* the row is the blueprint's own and the tools snapshotted last are the tools of
\* that very spec (imports.controller.ts approve() against register()'s conflict
\* branch: "re-submitting an ID cannot bypass approval by overwrite", ADR-021).
ApprovedWasProbed ==
    row.approval = "approved" /\ row.import => row.probed /\ snapshot = row.spec

\* The router past its gate holds, for an import, only a transport that an
\* approval probed: what it dispatches to was never a bare submission, although
\* the row may be overwritten while the call waits for its capabilities.
RoutesOnlyProbed ==
    \A r \in Reader :
        rd[r].kind = "call" /\ rd[r].row.import => rd[r].row.probed

\* POST /api/servers "registers a server AND auto-approves it"
\* (servers.controller.ts).
AdminRegisterApproves ==
    [][\A a \in Admin, s \in Spec : AdminRegister(a, s) => row'.approval = "approved"]_vars

\* Once the registry is left alone, both caches come to agree with it for good or
\* stay empty, whatever stale read was on its way into them and whichever
\* invalidations were lost: TTL expiry is what the design falls back on.
CachesConverge ==
    <>[][~RegistryWrite]_vars =>
        <>[](/\ capsCache \in {snapshot, None}
             /\ listCache \in {row.approval = "approved", None})
=============================================================================
