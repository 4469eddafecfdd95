# Mavio MCP in TLA+

Mavio MCP is a gateway between MCP clients and upstream tool servers. Servers are
registered (by an administrator, by an import that somebody has to approve, by an
external registry), clients list and call their tools over Streamable HTTP, SSE or
WebSocket, and the gateway authorises each call, finds the credential the user has at
the upstream's provider, and dispatches it through a circuit breaker. Several replicas
run against one Postgres and one Redis.

The code is TypeScript on Node: inside one process only one function runs at a time, and
another one can run at every `await`. So the modules have one action per stretch of code
between two awaits. Everything two replicas share goes through Postgres rows, Redis keys
and Redis pub/sub, each single command of which is atomic.

This directory holds TLA+ modules of the parts where order matters, TLC configurations
that check them on small instances, and TLAPS proofs for every value of the constants.

- [1. The system](#1-the-system)
- [2. The modules](#2-the-modules)
- [3. What the runs show](#3-what-the-runs-show)
- [4. Where code and documentation disagree](#4-where-code-and-documentation-disagree)
- [5. Fairness](#5-fairness)
- [6. What is proved](#6-what-is-proved)
- [7. What is only model-checked, and what is not modelled](#7-what-is-only-model-checked-and-what-is-not-modelled)
- [8. Plan](#8-plan)

Run a configuration with `tlc -config MCGateway.cfg MCGateway.tla`, a proof with
`tlapm VaultRotationProofs.tla`.

## 1. The system

Paths are relative to the repository; `server/` stands for `apps/server/src/`.

| Component | State it keeps | Operations | What makes it correct |
|---|---|---|---|
| Circuit breaker, `packages/core/src/index.ts` | per server: state, counters, `openedAt`, half-open slots | `execute()`: admit or refuse, then success or failure | slots never leak; a probing window is bounded; it closes once the upstream is well |
| Registry and approval, `packages/registry/src/index.ts`, `server/imports.controller.ts`, `servers.controller.ts`, `external-registry.module.ts` | `servers` row, capability snapshots, fingerprints of mirrored descriptors | register, remove, approve, reject, mirror | an approved import is what was probed; nothing else is dispatched to |
| Capability cache, `packages/cache/src/capability-cache.ts`, `pubsub.ts` | two Redis keys with a TTL; invalidation events | fill, invalidate, deliver, expire | agrees with the registry in the end |
| Router, `server/router.service.ts` | none of its own | `tools/list`, `tools/call`: gate, policy, capabilities, limits, credential, dispatch | its gates hold although each is read at another time |
| Credential vault, `packages/upstream-auth/src/`, `server/vault-admin.controller.ts`, `vault-rewrap.service.ts` | encrypted rows; a keyring per replica, another behind the endpoints | put, revoke, sweep; rotate, retire, reload | rotating keys never changes or loses a token |
| Upstream tokens, `server/upstream-auth.module.ts`, the providers | the row of a principal and a provider | resolve, mint, refresh, persist, revoke, consent | no needless consent; no refused credential stays |
| Streamable HTTP sessions, `server/streamable-http.*.ts`, `packages/transport/src/event-store.ts` | session record; push stream, buffer and event log per replica | attach, resume, push, deliver, terminate, reap | replay complete and in order; streams end with their session |
| Consent and login flows, `server/upstream-auth.controller.ts`, `login.controller.ts`, `local-auth.controller.ts`, `session.store.ts`, `redis-pkce-store.ts` | one-time states and verifiers, login sessions, clients of OIDC providers | start, callback, local login, destroy | a round trip that began here is recognised; a state redeems one code; the first login gets its role |
| SQL pools, `server/sql-dispatcher.ts`, `packages/import-sql/src/index.ts` | a pool per server id | dispatch, invalidate | clients come back, outside a transaction; the pool is the approved row's |
| Session limits, `server/mcp-session.store.ts`, `packages/cache/src/rate-limit.ts` | counters and windows per session, a window per server and a key per session in Redis | preCall, check, touch, reap, remove | no more than the limit pass; a removed session does not come back |
| Access control, `packages/rbac/src/engine.ts`, `packages/rbac-opa/src/index.ts`, `server/rbac.guard.ts` | none; reads roles and assignments | resolve the principal, can() | what is allowed is granted; equals its stated precedence rule; always decides |
| Event bridge, `server/events.controller.ts`, `event-dispatcher.service.ts`, `event-bridge.supervisor.ts` | routes, compiled schemas, consumers | submit, approve, reject, ingest, dispatch | only armed routes dispatch, as approved and verified |
| Notification stream, `packages/cache/src/notification-bus.ts`, `server/sse.*.ts`, `ws.gateway.ts` | a capped Redis stream, a position per client | publish, read, resume | in order, no silent gap |
| Plugin manager, `packages/plugin/src/manager.ts` | loaded plugins, stored switches | load, enable, disable | activated exactly while enabled |
| Upstream transports, `packages/transport/src/` | pending requests of a session | open, send, answer, break, close | every request is settled; every session is closed |
| Importers, `packages/import-graphql/src/index.ts`, `packages/import-openapi/src/index.ts` | none | import a description, dispatch a call | a call sends the operation its tool was made from, in a form its API accepts |

How they interact. A `tools/call` goes through the router: registry row, policy, cached
capabilities, rate limit, session limits, upstream token, breaker, transport; each step
awaits, and administrators, feeds, sweeps and other replicas change all of it meanwhile.
Replicas tell each other of changes on Redis pub/sub (`mavio:invalidate`,
`mavio:vault:keyring:reload`, `mavio:push:*`), which keeps nothing for a subscriber that
is away.

What is hard: reads used after an await (approval, retirement, refresh, replay), signals
that are lost or come before the subscriber, state that is per process although clients
move between replicas, answers that come after the state they belong to has ended (the
breaker's late calls, the close of an old connection), and multi-step writes of which only
a part happens. `PROJECT.json` lists each at its line, with the properties that cover it.

## 2. The modules

Each `X.tla` is a component with its properties, `MCX.tla`, where there is one, instantiates it
for TLC (some of its constants are given values by name), the `.cfg` files are instances, and
`XProofs.tla` holds its theorems: `AdmissionProofs`, `GatewayProofs` and `IdentityProofs` those
about the components that `MCAdmission`, `MCGateway` and `MCIdentity` compose, `VaultRotationProofs`
also those about TransitKeys, `UpstreamTokenProofs` also the one about the keys in MCCredentials.
`MCGateway`, `MCAdmission`, `MCStreams`, `MCIdentity`, `MCCredentials` and `MCVaultKeys`
put several components side by side for one run: a variable fixed in the initial state says
which of them a behaviour is of, and the others rest. Such a module composes nothing; it checks
each part over all of its own behaviours. What the parts take from their constants is a constant
of the composing module where a theorem should hold for every value of it: the `Options`, `Apis`,
`Depths` and `Docs` of MCAdmission, `Caller`, `Resolution`, `PluginOverlap` and `Faults` of
MCGateway, `Kinds`, `Overlap` and `Allowed` of MCIdentity, `Reports` and `Overlap` of MCVaultKeys,
`Happens` of MCCredentials. Where components do interact, the interaction is
inside a module: the router's gates, breaker, credential and transport in ToolCall, the
approval and the caches in ImportApproval, the browser session and the consent in SignIn,
limiter and session record in SessionLimits.
A comment marked "Mutation of" precedes a wrong form of the operation that follows it;
such operators are not part of any specification and serve to check that each property can
fail.

**CircuitBreaker** One entry; entries of different servers share nothing. `execute()` runs
synchronously up to `await fn()`, which gives the actions `Refuse`, `AdmitClosed`,
`EnterHalfOpen` and `AdmitProbe`; the settling of `fn` gives `Succeed`/`SucceedHalfOpen` and
`Fail`/`FailHalfOpen`. The entry does not remember in which state it admitted a call, and
neither do these actions. `failures` and `elapsed` saturate where the code only compares.
`probes` and `admitted` are history.

**ImportApproval** One server id: its row, its latest snapshot, the two cache entries that
depend on it, the events that invalidate them. `approve()` is one action per await
(`ApproveRead`, `ApproveProbe`, `ApproveSave`, `ApproveSnapshot`, `ApproveDecide`,
`Invalidate`) and `Abort` ends it anywhere, for an error or a crash. What a server is
registered as (transport, body) is one value of `Spec`; the tools in a snapshot are named
by the specification they came from. `OverlapAllowed` says whether somebody registers the
id anew while an approval of it runs, which the code permits.

**VaultRotation** One credential row and the keyrings of several replicas. The point of the
module is that a replica has up to two: `ring`, inside the `LocalKeyWrapper` its Vault reads
through, and what the module variable `sharedKek` refers to (`handle`: that same instance,
nothing, or `own`, a second one). `put()`, `rewrapStale()` and `retire()` are split at their
awaits. The operator's edits of the environment and restarts are actions as well: `Announce`,
`Promote`, `Drop` are a rotation in two rolling restarts, `Prepend` the one step the
documentation describes. `Allowed` selects what happens around the code.

**UpstreamToken** One principal at one provider. `resolveForDispatch()` is `Resolve`,
`Mint`, `Refresh`, `Persist`, `Revoke` with a failing variant of each; tokens are numbered,
and the provider is what it accepts (`live`) under three behaviours: a refresh token that
rotates, one that stays, or none (the variable `provider`, fixed initially to one of
`Configured`). The consent callback is `Exchange` and `Store`, the
administrator's DELETE is `AdminRead`, `AdminRemote`, `AdminDelete`. `Fault` selects what
fails. The row is written whole here; VaultRotation looks inside.

**CredentialStore** What VaultRotation promises to its users: a token given to `put()` becomes
visible to every replica in one step, or is lost; a revocation removes it; there are no
keys. `Credentials` in VaultRotation instantiates it with what each replica reads
(`Reading`), so `RotationIsInvisible` says that every step of a rotation is a stutter.

**TransitKeys** The other key wrapper: the key lives in HashiCorp Vault, which rotates it and
raises `min_decryption_version`; a row carries the version the wrapper said (`stamp`) and the
one its ciphertext is really under (`version`). `put()` and `rewrapStale()` are split at
their requests, each of which may fail. `GiveUp` is the operator, who goes by
`countByKeyId()`. `Reports` says whether Vault's answer carries `key_version`.

**StreamableSession** One session over several replicas and the client that reads it. `log` is
`MemoryEventStore` with its per-stream numbering, its ring shared by push stream and answers,
and `minSeqRetained`; `ReadAfter` is the replay with its gap warning. GET /mcp is `Connect`
(the controller's `has()`), then `attachPushStream()` with another `has()`: `Decline`,
`Attach` (no `Last-Event-ID`) or `Resume` and, after the awaited replay, `GoLive`; `Close` is
the close listener, which is registered only when all of this is done (`Listen`). If the
session ends on the way, the replay holds a local state that is deleted (`GoAstray`), and
the response stays open without belonging to any session (`stray`). `Attach` does not ask
for the session again: it may have ended since `has()` was answered.
`pushNotification()` is `PushBegin`, `PushLog`,
`PushDeliver`. `Delivery` names the three ways the module wiring can end up with: in memory,
Redis with nobody subscribed, and Redis as intended. The client is the environment: it
reads, loses its connection and reconnects with the last id it received. No code outside
the tests calls `pushNotification()` yet, so the notifications are the environment's too.

**ToolCall** `tools/call` on one server. `Start` reads the row, `Gates` stands for everything
that may refuse before the credential is resolved (approval, policy, tool, limits),
`Resolved` for `resolveForDispatch()`, `CircuitOpen` for the breaker. Then the call is
dispatched as its transport wants: `Connect`, `Query` with the three statements of the
transaction, `Rollback` and `Committed` for SQL; `OpenApi` and `Graphql` for one request; `Open`,
`Ready`, `Answer`, `Break`, `Close` for a session of stdio, WebSocket or SSE; `Exchanged` for
HTTP and Streamable HTTP. `Serve` is the pool handing a client to a queued call.
`ProcessDies` is the rejection that nobody handles, `link` what a session's connection is in.

The row of the server changes meanwhile, and the pool in the map of `sql-dispatcher.ts` knows nothing
of it but by `Invalidate`. `Update` is a registration, a rejection or a removal: an administrator's
announces the server, the feed's announces "servers", which the handler in `router.service.ts`
does not pass on to the pools. `Probed` is the write of what an approval has probed,
`Approve` the approval, which announces the server. An announcement (`due`) may come more than
once, late, or not at all (`InvalidateFails`: `cache.invalidate()` throws before the pools' turn, or
the event is lost on its way to another replica). `clean` is history: since the last approval
one has come to this process while no call held an older row.

**SessionLimits** The record and the buckets of a session in the process that saw `initialize`, and
the limiter's windows in Redis. A tick is half of a window; a limit may be unset, or zero. `Name`
computes the limiter's key before its commands are on their way, `Check` is INCR and EXPIRE and, in
the stretch of code that their answer is awaited by, `preCall()`. With `"redis"` in `Allowed` either
command, or the answer, may be lost, and no count is no refusal, as in the code; the key
of a window expires a window after its last EXPIRE (`CounterExpires`), also under a call that
named it and is counted later. `CountedIn` marks the calls that were counted for sure. `Stretch` and
`LoopBudget` say how many calls a limit lets through in any stretch of a window's length. `Reap`,
`Restart` and `Removed` end the record, and with it its limits.

**SessionKey** Whether a session is there: its key in Redis, its record in one process. Requests come
(`Arrive`) when `has()` has answered, and begin a `touch()` that nobody awaits: `TouchExists`,
`TouchHset`, `TouchExpire`, one command each, each of which may fail, while the request goes on.
`Remove` and `Removed` are the administrator's DELETE, with the await between them; the DEL that it
sends is `Deleted`, or `DeleteFails`, later and awaited by nobody.

**EventBridge** One route. A version of it stands for its match, authentication, schema and target,
so the model can say which version verified a delivery, which validated it and which was called.
`Submit` hands on the body as it comes, `autoApprove` included, which the repository honours for an
insert and not for an update; `own` keeps the versions that approved themselves. `Ingest` is the
webhook, `Consume` the broker; `Schema` compiles or takes the cached validator, `Invoke` is the
second read of the row and the call.

**NotificationStream** The capped Redis stream and the handlers that read it. `queue` is the one
connection all readers of a process share: only its first `XREAD` is served, blocked, or
times out. A client remembers the id of the last frame it received and gives it back when it
reconnects; `trimmed` and `since` record what a client could not have had.

**PluginManager** One plugin on each node: its row, whether the manager has it enabled, what
it contributed. The boot asks for `enable` as an administrator does. `Hook` awaits the
plugin's own code, `Store` the database; both may fail, and a node may restart. The switch of a
row, and what an administrator asked for, is `"on"` or `"off"`.

**SignIn** One user. A round trip (`Trip`) is begun by `Login` and comes back as a callback
(`Request`), which a browser may deliver twice. `states` and `verifiers` are keys in Redis that
expire; `GetState` and `DeleteState` are the two commands of `consumeState()`. `Kinds` says
which trips a behaviour has: OIDC logins, consents begun on the login page, consents begun by
a -32020 answer, logins with a local account.

**Access** A request arrives with a credential, is resolved to a principal, and is decided by
the builtin engine or by a policy service. The builtin walk is a function over a queue of
(role, scope) pairs with the visited set of the code (`Visited`); the reference definition it is
checked against is the closure of the assignments (`Closure`, `Has`, `Permitted`). Assignments
come and go between the read of the rows and the reads of the roles.

**ImportedTools** The GraphQL and OpenAPI importers as operators on schemas and documents, and the
two dispatchers that send what the tools describe. A selection set, a JSON schema and an input
object are sets of paths. `ApiSamples` enumerates the schemas and documents: types that refer to
themselves and to each other, unions without fields, arguments required and optional, with and
without a default value, lists and non-nulls, input objects in a cycle, operations with parameters
in path, query and header and a body. The recursion of the code over a schema is a recursive
function, with the depth it has left as its argument, and so are the two reference definitions that
walk a path (`Trail`, `InputTrail`). A path of an OpenAPI operation has each placeholder once
(`Plain`): `path.replace()` fills the first occurrence only. Neither the router nor the dispatchers
check the arguments of a call, so a caller gives any of them, and some the tool does not have
(`Strays`). Introspection does not ask for default values (`default`), which the reference
definition knows: an argument of a non-null type that has one need not be given (`Required`).
`WellTyped` says what a schema is that introspection reads in full; the importers are modelled on
such schemas.

## 3. What the runs show

| Run | Parts and instance | Shows |
|---|---|---|
| `gateway` | breaker: 3 calls, threshold 3, reset 2 ticks, 2 slots | `NoLeakedSlot`, `ProbeBudget` (a window admits up to 3 calls with 2 slots), `HealsWithUpstream`, whatever calls never settle |
| | caches: 1 administrator, 1 reader, 2 specifications | `CachesConverge`, although a fill may store what an invalidation has just removed |
| | dispatch: 2 calls, all eight kinds, a pool of 1, 2 versions of the row | `EndedCallsHoldNothing`, `CallsEnd`, `PoolIsOfRow` |
| | plugin: 1 node, 2 administrators, failing hooks, database and crashes | `ChoiceIsDurable` |
| | notifications: 2 clients, 2 handlers, a stream of 2, 3 notices, breaks and errors | `NoGap`, `ReadersCatchUp` |
| `admission` | servers: 2 administrators, a feed, 1 reader, 2 specifications, no overlap | `ApprovedWasProbed`, `RoutesOnlyProbed` |
| | imports: 22,448 pairs of a schema or document and a depth | `ToolsAreExact`, `OperationIsSent` |
| | bridge: 2 deliveries, 2 submissions, restarts | `RunsOnlyArmed`, `SchemaIsOfTarget` |
| | limits: 2 calls at a time, 4 requests, 2 tools, 2 windows, three sets of options, a failing Redis | `LimitsHold` |
| | sessions: 2 requests at a time, touches, expiry, restarts, a failing Redis | `RemovalIsFinal` |
| `identity` | access: 1 request, 2 assignments, 1 change, both engines, roles with cycles and denies | `AllowIsGranted`, `SeparateRolesDecide`, `RequestsAreDecided` |
| | sign-in: 2 round trips, 2 callbacks, failures and crashes | `BegunHereIsRecognised`, `ReloadIsHarmless`, `RoleIsSeeded`, `ClientConverges`, `DeletedAccountIsOut` |
| `credentials` | tokens: 2 calls, all three providers, every fault | `RefusedCredentialIsGone`, `ReusingNeedsNoConsent` |
| | keys: 1 replica, 2 keys, 2 tokens; endpoints, force, prepend, restarts | `TokensSurviveRotation` |
| `vault_keys` | local: 2 replicas, 3 keys, 2 tokens; two-step roll | `EveryReplicaReads`, `RewrapCompletes`, the refinement `RotationIsInvisible` |
| | transit: 3 versions, 2 writers, 3 tokens, 2 failing requests | `TokensReadable`, `StampsConverge` |
| `streams` | single: 1 replica, 6 notifications, 3 retained, 2 buffered, breaking connections | `ReplayIsComplete`, `ClientIsAttached`, `NewestArrives` |
| | fleet: 2 replicas, pub/sub, everything but `oldclose` | `FleetStreamsEnd` |

Every component states its type invariant as `TypeOK`; the runs list the breaker's, and the
others are proved (section 6) or hold whenever a run is given them. `ToolsAreExact` is
`SelectionIsExact` and `InputsAreExact` of ImportedTools, `OperationIsSent` is
`DocumentIsValid` and `RequestIsOperation`. Six further runs, of section 4, end in a
counterexample.

Why the bounds are enough. The breaker needs a call from before the trip beside two probes: three
calls; a threshold above one, so that a success in between resets the count; two slots, so that one
and all of them differ; two ticks, so that a late failure falls inside a window. Two administrators
and two specifications give an approval, its rival and two contents to confuse. Two calls on a pool
of one are one that has the client and one that queues, or one that holds an older row while the
other comes with a new one; two versions are a row that was approved and what the feed, an
administrator or an approval has written over it. Two handlers are the least that make one wait for
the other's blocked read, and three notices overrun a stream of two. Four requests exceed each limit
of two by a call that is refused and one after it; the four ticks that a clock up to three has are
two windows, and an idle session of two ticks ends within them. Two requests at once are a touch
that straddles a removal and one that comes after it. Two submissions are a version and its
successor, two deliveries one before and one after. Two round trips are two first logins, or one
redirect that is delivered twice. A rotation is visible with the old and the new key, a roll needs a
third so that one leaves while another joins; two tokens tell a stale ciphertext from a new one.
Each refresh costs one token, so `MaxIssued` is the number of grants and refreshes a history can
have: three are a grant and a refresh by each of two calls. Six notifications against a log of three
and a buffer of two make eviction, a gap and a full buffer happen. The samples of schemas reach the
depth at which the importers stop. Each bound is a guard of the action that would pass it (`MaxPut`,
`MaxIssued`, `MaxPush`, `MaxReply`, `MaxCount`, `MaxClock`, `MaxStamp`, `MaxRounds`, `MaxNotice`,
`MaxDrops`, `MaxErrors`, `MaxRotation`, `MaxFailure`, `MaxChanges`, `MaxVersion`).

The properties are stated and explained at the end of each module. Of the less obvious
ones: `ProbeBudget` is not `halfOpenMaxCalls`, because a late success of a call from before
the trip frees a slot it never took, but each such success also counts towards closing.
`RoutesOnlyProbed` is about what the router *holds*: the row may change while a call waits.
`RefusedCredentialIsGone` says that a call that was sent to consent does not leave behind the
credential that failed, so that the next call does not run into it. `SeparateRolesDecide` is
`PrecedenceDecides` for principals none of whose roles is reached twice with different
scopes. `ChoiceIsDurable` ends when a write of the row fails, which the administrator is told.
`CallsEnd` leaves out calls of an SSE upstream whose stream is over, and queued calls of a
pool that was closed. Since those never settle, `HealsWithUpstream` does not assume that calls do: it
says that as many of them as a half-open window has slots are what it takes to keep the circuit from
closing. `PoolIsOfRow` says when a stale pool is over: once an approval's announcement has come and
no call under way holds an older row. `LimitsHold` counts, of the limiter's calls, those that Redis
counted. `RemovalIsFinal` leaves out the one DEL that comes between the EXISTS and the
HSET of a touch. `ReusingNeedsNoConsent` speaks of providers whose refresh tokens can be
used again.

## 4. Where code and documentation disagree

Six runs find a counterexample to what a document or comment says; the quotations are in
`PROJECT.json`.

| Run | Said | What the code does |
|---|---|---|
| `resubmit_race` | re-submitting an id cannot bypass approval (ADR-021) | `approve()` approves by id, three awaits after it read what it probed |
| `vault_reload` | replicas hot-reload | the Vault keeps its keyring |
| `upstream_race` | rotating tokens refresh automatically | the slower of two refreshes deletes what the faster has stored and the provider accepts |
| `consent_url` | the consent URL of a -32020 answer leads back to a stored credential | its state is one the callback has never stored |
| `role_scope` | explicit deny over explicit allow, in the scopes assigned | a role reached a second time is passed over, whatever its scope |
| `injection` | the user's token is sent on the outbound dispatch | tools of an OpenAPI import, and Streamable HTTP upstreams, are called without it |

More properties are stated that the code does not have, each beside the one of a passing run
that is its weaker form. They are no runs of their own: the table says which instance of a
module violates them, and `MC*.cfg` are those instances where the counterexample is the hardest to
see. `MCUpstreamSerial.cfg` passes: with one call at a time a rotating provider asks for no
needless consent. With `RollWithOverlap`, `EveryReplicaReads` and `RewrapCompletes` hold still.

| Instance | Property | What it shows |
|---|---|---|
| ImportApproval | `AdminRegisterApproves` | POST /api/servers over an existing id sends it back to pending |
| `MCVaultSweepRace.cfg` | `TokensSurviveRotation` | the sweep writes an old ciphertext over a token stored meanwhile |
| `MCVaultRotate.cfg` | `RotateReachesVault` | the endpoints write the keyring the Vault reads only until the first reload signal |
| `MCVaultRetire.cfg` | `RetireIsSafe` | a put under way, or the sole key, is not counted before a key is retired |
| `MCUpstreamRevoke.cfg` | `RevokeHolds` | a refresh under way stores the revoked refresh token again |
| `MCSelfApproval.cfg` | `ArmedByAdministrator` | a first submission with `autoApprove` in its body is stored as approved (`events.controller.ts:72`), although "non-admin submits, admin approves before route arms" (ADR-022:86) |
| `MCRemoval.cfg` | `RemovalIsComplete` | a `touch()` under way writes the key of a session again after the DEL of its removal (`redis-streamable-session-store.ts:30`) |
| UpstreamToken, `Configured = {"rotating"}`, two calls | `NoNeedlessConsent` | the slower of two refreshes is sent to consent |
| StreamableSession, `Allowed <- Touch` | `DeleteIsFinal` | the same, of the client's own DELETE |
| CircuitBreaker, `HalfOpenMaxCalls = 1`, two calls | `HealsInAnyCase` | a probe that never settles keeps its slot, and every later call is refused |
| UpstreamToken, `Configured = {"exchange"}` | `ExchangeNeedsNoConsent` | an expired exchanged token is answered with consent_required |
| StreamableSession, `MaxReply = 3`, `MaxCount = 2` | `ReplayIsComplete` | evicting the last notification of a log forgets that there was one |
| StreamableSession, `Allowed <- Overlap` | `ReplayIsComplete` | a notification during the replay is lost or doubled |
| StreamableSession, two replicas | `ReplayIsComplete` | each replica numbers its own log |
| StreamableSession, `Allowed <- LateClose` | `ClientIsAttached` | the late end of the old connection detaches the new one |
| StreamableSession, `Delivery = "pubsub"` | `FirstArrives` | a notification without a local stream is published, to nobody |
| StreamableSession, two replicas, `Delivery = "publish"` | `NewestArrives` | `setPubSub()` runs after the hook that would subscribe |
| StreamableSession, `Allowed <- LateEnd` | `ClientSeesTheEnd` | DELETE while a GET is being attached leaves its response open for ever |
| TransitKeys, `Reports = {FALSE}` | `TokensReadable` | a row stamped v0, because the answer had no `key_version`, is not counted when versions are given up |
| TransitKeys, `Overlap = TRUE` | `TokensReadable` | the sweep's write over a newer token, over Vault Transit |
| SignIn, `Overlap = TRUE` | `ReloadIsHarmless` | two deliveries of a redirect at once both redeem, and one may lose what the other obtained |
| ToolCall, `Kinds <- Streams` | `EveryCallEnds` | a call over SSE whose stream is over waits for ever (`sse.ts:94`) |
| ToolCall, `Kinds <- Databases` | `EveryPoolIsOfRow` | a pool to an older database is used after a lost or late announcement, a write of the feed, or by a call that read the row before (`sql-dispatcher.ts:13`) |
| ToolCall, `Kinds <- Streams` | `ProcessSurvives` | a GET that fails rejects a promise that nobody awaits (`sse.ts:35`) |
| SessionLimits, `"crash"` in `Allowed` | `SessionIsLimited` | after a restart, or on another replica, a session has no record and no limits |
| SessionLimits | `WindowIsLimited` | a call that is counted after its window's key has expired starts the count anew |
| SessionKey, `"crash"` or `"redis"` in `Allowed` | `KeysExpire` | a touch that ends between HSET and EXPIRE, after the key has gone, leaves a key without a time to live |
| EventBridge | `ProofIsOfTarget` | a delivery verified against one version of a route runs the target of another |
| EventBridge | `ArmedWasReviewed` | approval is by id: it arms what was submitted after the administrator looked |
| NotificationStream | `NothingMissed` | a connection that breaks before its first frame leaves no id to resume from: the next one starts at the tail |
| NotificationStream | `LoopsEnd` | a connection that ends while the tail is read leaves its loop running |
| PluginManager, `Overlap = TRUE` | `ChoiceIsDurable` | enable and disable at once leave row and memory apart |
| PluginManager, two nodes | `ChoiceIsDurable` | nothing tells the other process: it goes on as it was until it restarts |
| PluginManager, `"hook"` or `"db"` in `Faults` | `ChoiceIsDurable` | so does a hook or a write that fails: asking for what memory already is changes nothing of the row |
| PluginManager, `"hook"` in `Faults` | `RegisteredOnce` | a deactivation that fails half-way leaves what the plugin registered |
| ImportedTools, `DeepLists` | `DocumentIsValid` | a type under six wrappers is read as a leaf of unknown kind |
| ImportedTools, `SmallDocs` | `QueryIsOperation` | parameters in headers and cookies, and arguments the operation does not have, are sent in the query |
| ImportedTools, `SmallDocs` | `PathIsFilled` | a call without a path parameter is sent with the placeholder in its path |
| ImportedTools, `SmallApis` | `AsksNoMore` | an argument of a non-null type is asked for although it has a default value |
| ImportedTools, `Alike` | `NamesAreDistinct` | two paths that differ in braces alone make tools of one name |

The passing runs state what does hold: the same properties with exactly the one
circumstance left out that each of these needs. `overlap` in VaultRotation, `oldclose`
and `overlap` in StreamableSession, `OverlapAllowed` in ImportApproval, `Overlap` in SignIn,
PluginManager and TransitKeys, `Reports` in TransitKeys and `Configured` in UpstreamToken are there to
draw that line; in ToolCall, SessionKey and CircuitBreaker the properties name the circumstance
themselves (`clean`, `del = "final"`, `AsManyHangAsSlots`).

## 5. Fairness

Weak fairness throughout, of what the runtime, a timer or an answering service does by itself;
never of administrators, operators, users, feeds or callers.

- CircuitBreaker: the clock advances, and clients call again after an answer or a refusal. Nothing
  is assumed of a dispatched call: `execute()` has no timeout around `fn()`, and `CallsEnd` of
  ToolCall excepts two kinds of calls that never settle.
- ImportApproval: Redis expires keys; a request that is filling a cache finishes. Nothing is
  assumed of invalidations, which may all be lost.
- ToolCall: the gateway goes on with a call (`Router`); an upstream or a database answers or breaks
  the connection (`Upstream`), which is what a TCP connection comes to. Nothing is assumed of
  the invalidations of pools.
- NotificationStream: a loop goes on, and a blocked `XREAD` ends by its `BLOCK` timeout.
- Access: the database answers, the policy service need not, but the timer of the request to it
  (`AbortSignal`) fires.
- SignIn: a request that was begun is finished, keys with a time to live expire, and a client of the
  cache ages.
- VaultRotation and TransitKeys: `setInterval` calls the sweep again and a sweep finishes.
  `RewrapCompletes` and `StampsConverge` speak of executions in which operator and users
  are quiet at last.
- StreamableSession: the client reconnects, a replica finishes what it began, the reaper's interval
  recurs. `NewestArrives` speaks of clients whose connection stops breaking.

No run assumes strong fairness, or that a lossy signal arrives. Where several parts share a run,
no fair action of a part that rests is enabled, or its fairness is restricted to the
behaviours of that part (`Running` in MCGateway).

## 6. What is proved

All proofs are by an inductive invariant, one step per action. A theorem about a component that a
module composes with others is about the specification of the whole (`AdmissionSpec`,
`GatewaySpec`, `IdentitySpec`, `WrapperSpec`): a lemma says that the steps of the whole are, for
the component, its own or none, and the invariant is proved of the component. Each invariant was
checked by TLC as an invariant of the run before it was proved.

- **CircuitBreakerProofs**: `TypeCorrect`, `SlotsNeverLeak`, `ProbesAreBudgeted`, for any
  number of calls and any positive options. `SlotInv` adds to `NoLeakedSlot` that no call is
  a probe outside half_open; the proof needs cardinalities of finite sets, hence
  `IsFiniteSet(Call)`. `WindowAccount`, that `admitted` is at most the slots in use plus the
  successes booked, bounds the calls of a window by `2 * HalfOpenMaxCalls - 1`: a slot is
  given back only by a success, which is counted.
- **ImportApprovalProofs**: `TypeCorrect`, and `ModerationHolds` for any number of
  administrators, feeds and readers, under `OverlapAllowed = FALSE`. The invariant says what an
  approval in each of its phases knows of the row and the snapshot: after its save, the row
  is probed and has the specification it read; after its snapshot, the snapshot too.
  `RoutesOnlyProbedAlways` is the half of it about the router.
- **VaultRotationProofs**: `TypeCorrect`; `RotationKeepsTokens` if no credential is
  overwritten while a sweep holds its row (a sweep with the row's id then holds the row's
  token; ids never repeat because tokens do not); `RollWithoutDowntime` if the endpoints are not
  used and keys join in two steps (every key on its way to the database, in a row, or
  primary anywhere is in every keyring and in the environment). `VaultImplementsStore` puts both
  invariants to use: without endpoints, prepended keys and overwritten rows, VaultRotation
  implements CredentialStore (`RotationIsInvisible`). What a replica reads is the token stored
  last (`SeenIsToken`), so announcing, promoting and dropping keys, sweeps and restarts map to
  stutters, `PutWrite` to `Store`, `Revoke` to `Forget`, a restart with puts under way to `Lose`.
  `TokensReadableAlways` is about the other wrapper, TransitKeys, under two assumptions that its
  statement names: Vault's answer carries `key_version` (`Reports = {TRUE}`; otherwise `?? 0` in
  `key-wrapper.ts:138` stamps the row 0), and no credential is overwritten while a sweep holds its row
  (`Overlap = FALSE`); section 4 has the counterexample without each. The stamp of every row that
  is stored or on its way is the version of its ciphertext; a sweep holds the row as it is, if it
  is still there, and what it is about to write is under a *later* version, so it survives any
  version the operator gives up looking at the row that is there.
- **UpstreamTokenProofs**: `TypeCorrect`; `RefusedIsGone` without any assumption (what a call read
  is older than anything it or another call has obtained since, so once deleted it does not come
  back: the invariant is the freshness of tokens); `ConsentOnlyWhenNeeded` for reusable refresh
  tokens (`Configured = {"reusing"}`), an answering provider and a working database (every refresh
  token stored, read or obtained is live or was revoked). `TokensSurviveEndpoints` is about the
  other part of MCCredentials, the keys under the row, with endpoints, force, prepended keys and
  restarts on any number of replicas, and under the named assumption that no put overwrites a row a
  sweep holds (`"overlap" \notin Happens`). Keys and keyrings have no part in the argument
  (`VaultInv`): the row has the latest token, a sweep that holds the row's id holds its token, and a
  token on its way to an insert is not yet the id of anything.
- **StreamableSessionProofs**: `ClientStaysAttached` for every log, buffer, replica and way of
  delivery, unless clients reconnect before the server has seen the old connection end (at most one
  connection is not idle, and if it is open the stream of its replica is that one). `TypeCorrect`
  for every setting: among the rest, a log retains no more than its limit, and the buffer of a
  replica holds no more than its own. `ReplayIsCompleteAlways` is about one process whose client
  loses connections and whose session expires (`OneClientOneProcess`), with delivery by buffer or by
  publishing, no push during a replay and no answers in the log. TLC finds a counterexample to
  `ReplayIsComplete` with two replicas, with `"pubsub"`, with a push during a replay, with a DELETE,
  with a restart when a notification is published, and with two answers (they evict the
  notifications from a log of two, which then says that it has always been empty). A late touch, a
  late close, and a restart with the buffer break nothing that TLC finds and are left to it. The
  invariant follows a notification from the queue to the client: the log is the run of the newest
  notifications, in order and with consecutive sequence numbers (`LogInv`); what the client has read
  ends where its Last-Event-ID says (`LastInv`); an open connection has everything that was
  delivered (`LiveInv`), and so has a buffer from where it begins (`PendingInv`); a connection that
  resumes knows from where (`KnownInv`), and its replay and what arrives meanwhile meet
  (`CatchInv`). What `readAfter()` selects is a function of the positions it selects, so it is
  described by its elements and needs no induction.
- **AdmissionProofs**, EventBridge: `RunsOnlyArmedAlways` and `SchemaIsOfTargetAlways`, without any
  further assumption. An armed route has a version that was approved by an administrator or whose
  submission approved itself; while the validator that is kept has the stamp of the row, it was
  compiled from the row's version; a delivery past the dispatcher has been under way while the route
  was armed, and its schema is of the version of its target.
  SessionLimits: `LimitsHoldAlways` for every setting of the limits, every clock and a Redis that
  fails or not. A stretch of a window's length meets at most two buckets (`ThroughSplit`). A bucket
  has counted every call let through since it started, so it adds no more than its budget; and the
  earlier of the two began before the stretch did, with a call that is not in it. That makes one
  call less than two budgets (`Stretch`). The limiter's key lives for a window from its last EXPIRE,
  so the calls that were counted for sure within less than a window are counted by one key, whose
  count bounds them. The facts about the cardinality of sets of positions in the log come from the
  library's theorems on finite sets.
  SessionKey: `RemovalIsFinalAlways`, without any further assumption: once a DEL that straddles no
  touch is executed, no touch is at its HSET, and none comes there, because EXISTS finds nothing.
  ImportedTools: `OperationIsSentAlways` and `ToolsAreExactAlways`, for every set of schemas that
  introspection reads in full, of depths and of OpenAPI documents (`ImportedToolsAssumption`: names
  are unique where GraphQL asks for it, a result is not an input object, no reference has more than
  the five wrappers that the query asks for). The invariant (`ImportInv`) is short: each tool is
  what `FieldToTool` makes of a root field or `OperationToTool` of an operation, and a call was made
  from a tool. What is long is the lemmas about the operators. A selection and a definition by paths
  agree level by level, from depth one to four (`SelectionExact`); that definition goes by non-null
  arguments, as the importer does, and differs from the reference (`Selects`) where there are
  default values only. Every path that is selected has exactly one trail of types, whose existence
  and uniqueness are an induction over its length. Inputs agree level by level too, down to three
  objects: what follows a path in the schema of a tool is what the type it leads to has, or it is
  open (`TellsStep`).
- **GatewayProofs**, ToolCall: `EndedCallsHoldNothingAlways` without any further assumption, for
  each of the eight kinds: a call has a session only between its opening and the `finally` that
  closes it, and a place in a pool only from the queue to the release. `PoolIsOfRowAlways`, also
  without one: since an announcement came after the last approval, at a time when no call under way
  held an older row, a row that may be called is of one version, and so are the pool and every call
  that goes on (`PoolInv`); what is registered over it may not be called before it is approved,
  which ends `clean`.
  PluginManager: `ChoiceIsDurableAlways` with one process and without overlapping requests
  (`OneAtATime`; the other cases are counterexamples of section 4): what the process does is what
  the row says, but for the request under way and the boot.
  NotificationStream: `NoGapAlways` without any further assumption. A loop whose client still listens
  reads on from the last frame the client has got, or from the tail it began with; a connection
  is of one client, and a handler waits once in the queue of the shared connection. So what an
  answer brings begins right after what the client has.
- **IdentityProofs**, Access: `AllowIsGrantedAlways`, `SeparateRolesDecideAlways`, for every graph of
  roles. It is the argument for a depth-first search, with the roles as the vertices: what is on
  the stack or collected is reached from an assignment that was read (soundness), and for every
  role seen, what it inherits has been seen or is on the stack (completeness, `WalkIsComplete`). So
  a walk that is over has seen a set that is closed under inheritance, and the closure of a role,
  defined as the intersection of all such sets, is part of it (`ClosureIsLeast`). What was granted
  *while* the request was decided is kept as history, which every change of the assignments adds to.
  SignIn: `BegunHereIsRecognisedAlways` and `RoleIsSeededAlways` without any further assumption,
  `ReloadIsHarmlessAlways` when no two callbacks of one round trip overlap. A round trip that has
  left has its state in Redis, or it was consumed or has expired; a code is exchanged only when
  the state is gone, so a second callback is stopped at `GetState`; whoever created the principal
  is on its way to `AssignRole`, or has been there.

Assumptions on constants are named in the component that declares them and evaluated by
every run.

## 7. What is only model-checked, and what is not modelled

Liveness is out of the prover's reach: `HealsWithUpstream`, `CachesConverge`, `CallsEnd`,
`ReadersCatchUp`, `RequestsAreDecided`, `ClientConverges`, `DeletedAccountIsOut`,
`RewrapCompletes`, `StampsConverge`, `NewestArrives` and `FleetStreamsEnd` are checked by TLC only,
and with them everything about `ENABLED`. Every safety property of the passing runs is proved.

Where a proof is about data of any size it does without the library's induction theorems, whose
operator parameters the provers cannot instantiate. Induction over lengths goes by sets
(`SetInduction`: a set of natural numbers that has 0 and the successor of each member has them all,
from the library's theorem that < on Nat is well founded), which also gives the recursive functions
that walk a path; the recursion of the importers is bounded by its depth and goes level by level.

Where a theorem has hypotheses that a run does not (section 6 names them), the rest is checked
only, or is a counterexample of section 4. `NoNeedlessConsent` with a rotating provider holds for
one call at a time and is checked only (`MCUpstreamSerial.cfg`).

Not modelled, within the modelled components: `repo.rewrap()` (nothing calls it), retention of
events by age (`MemoryEventStore.trim()`, nothing calls it), multi-region invalidation,
content negotiation, the framing of bytes by the transports, the CSRF token and cookies, password
hashing, the WebSocket gateway (it answers each frame by the router and sends no
notifications), the interceptor that applies the rate limiter to whole requests, the
importers of MCP servers and databases (copies of a list), read-only endpoints, audit entries.

Not modelled at all: the external registries' clients (HTTP; their result is one value),
audit, traces and playground history (append-only, nothing reads them to decide),
observability, configuration (its ranges are the assumptions on constants), migrations,
marketplace, SDK and inspector, command line, web console, documentation site, deployment
manifests.

## 8. Plan

Done, in this order, the most important behaviour first: CircuitBreaker, ImportApproval,
VaultRotation, UpstreamToken, StreamableSession; then CredentialStore with its refinement,
ToolCall, SessionLimits, SessionKey, EventBridge, NotificationStream, PluginManager, SignIn, Access,
TransitKeys, ImportedTools. Every safety property the passing runs check has a
proof.

To come:

1. ToolCall: that only the two kinds of calls that `CallsEnd` excepts can be stranded (`Stranded`),
   as an invariant.
2. VaultRotation with the endpoints in use: what is left of `EveryReplicaReads` as long as no key
   is retired.
3. StreamableSession: `ReplayIsComplete` with late touches and late closes, which TLC finds harmless.

Abstract specifications still worth stating: a *moderated catalogue* (what is served was
approved) implemented by ImportApproval; a *reliable mailbox* with explicit gaps implemented by
NotificationStream and StreamableSession.
