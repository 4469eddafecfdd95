------------------------------- MODULE Access -------------------------------
(***************************************************************************)
(* Who may do what.  A request is resolved to a principal                  *)
(* (principal-resolver.ts, federated-auth.ts), the guard of its handler    *)
(* (rbac.guard.ts) asks the policy engine, and that is the builtin one of  *)
(* packages/rbac over the rows of role_assignments, or a policy service    *)
(* over HTTP (packages/rbac-opa).  One principal of the principals table.  *)
(***************************************************************************)
EXTENDS Sequences, Naturals

CONSTANTS
    Request,    \* requests
    Row,        \* ids of the principal's rows in role_assignments
    RoleName,   \* names an assignment may give
    Roles,      \* the rows of roles: a function from some of the names
    Dim,        \* dimensions of a ResourceRef
    Scope,      \* the scopes assigned
    Resource,   \* the resources asked for
    Action,     \* the actions required: [family, verb]
    MaxChanges, \* bound: assignments made or removed
    Engines,    \* what MAVIO_RBAC_ENGINE may be: "builtin", "remote"
    None        \* an unset dimension, no row, no requirement

\* The pattern "*" of a permission; others are <<family, "*">> and the actions.
Every == <<"*", "*">>

ASSUME AccessAssumption ==
    /\ DOMAIN Roles \subseteq RoleName
    /\ \A r \in DOMAIN Roles :
          /\ Roles[r].inherits \in Seq(RoleName)
          /\ \A p \in Roles[r].permissions : p.effect \in {"allow", "deny"}
    /\ MaxChanges \in Nat
    /\ Engines \subseteq {"builtin", "remote"}

VARIABLES
    engine,     \* chosen when the process starts
    adminKey,   \* MAVIO_ADMIN_API_KEY is set
    rows,       \* role_assignments: for each id the row, or None
    request,    \* where each request is
    changes,    \* assignments made or removed since the process started
    held        \* history: the assignments there were at some time during the request

vars == <<engine, adminKey, rows, request, changes, held>>

Assignment == [role : RoleName, scope : Scope]
Grant == [permission : UNION {Roles[r].permissions : r \in DOMAIN Roles}, scope : Scope]
Idle == [pc |-> "idle", who |-> None, action |-> None, resource |-> None,
         read |-> {}, todo |-> {}, stack |-> <<>>, seen |-> {}, out |-> {}]
Ended == {"handled", "refused"}

Init ==
    /\ engine \in Engines /\ adminKey \in BOOLEAN
    /\ rows \in [Row -> Assignment \cup {None}]
    /\ changes = 0
    /\ request = [d \in Request |-> Idle]
    /\ held = [d \in Request |-> {}]

-----------------------------------------------------------------------------
(* packages/rbac/src/engine.ts *)

\* Mutation of ActionMatches: the family wildcard is not known.
ActionIs(pattern, action) == pattern = Every \/ pattern = action

ActionMatches(pattern, action) ==
    pattern = Every \/ pattern = action \/ pattern = <<action[1], "*">>

\* Mutation of ScopeContains: a dimension the resource leaves open matches as well.
ScopeMeets(container, target) ==
    \A k \in Dim :
        container[k] # None /\ target[k] # None => container[k] = target[k]

ScopeContains(container, target) ==
    \A k \in Dim : container[k] # None => container[k] = target[k]

\* The permissions collected that bear on what is asked.
Effective(out, action, resource) ==
    {g \in out : /\ ScopeContains(g.scope, resource)
                 /\ ActionMatches(g.permission.action, action)
                 /\ ScopeContains(g.permission.scope, resource)}

\* can(): a deny ends the loop, and otherwise an allow is wanted.
Decision(out, action, resource) ==
    LET effects == {g.permission.effect : g \in Effective(out, action, resource)}
    IN  "deny" \notin effects /\ "allow" \in effects

-----------------------------------------------------------------------------
(* POST and DELETE /api/rbac/assignments *)

Assigned(r) == {r[i] : i \in Row} \ {None}
Running == {d \in Request : request[d].pc \notin Ended \cup {"idle"}}

Assign(i, a) ==
    /\ rows[i] = None /\ changes < MaxChanges
    /\ changes' = changes + 1
    /\ rows' = [rows EXCEPT ![i] = a]
    /\ held' = [d \in Request |-> IF d \in Running THEN held[d] \cup {a} ELSE held[d]]
    /\ UNCHANGED <<engine, adminKey, request>>

Unassign(i) ==
    /\ rows[i] # None /\ changes < MaxChanges
    /\ changes' = changes + 1
    /\ rows' = [rows EXCEPT ![i] = None]
    /\ UNCHANGED <<engine, adminKey, request, held>>

-----------------------------------------------------------------------------
(* A request, one action per await *)

At(d, pc) == request[d].pc = pc

\* What a request carries: identity forwarded by a trusted proxy, with the scope "*" or
\* without, a client certificate, a session or one that has ended, or a bearer token.
Credentials ==
    {"header", "header *", "certificate", "session", "ended session", "admin key", "api key",
     "unknown key", "nothing"}

\* trustedHeaderPrincipal() and mtlsPrincipal() take the header's scopes and give the
\* certificate none.
Federated(credential) ==
    IF credential = "header *" THEN "wildcard"
    ELSE IF credential \in {"header", "certificate"} THEN "stored"
    ELSE "nobody"

\* resolvePrincipalFromRequest(): a principal with the scope "*" is "wildcard", one
\* without "stored"; without an administrator's key everybody else is "dev".
Resolved(credential) ==
    IF Federated(credential) # "nobody" THEN Federated(credential)
    ELSE IF credential \in {"session", "api key"} THEN "stored"
    ELSE IF credential = "admin key" \/ ~adminKey THEN "wildcard"
    ELSE "nobody"

\* canActivate() of both guards up to the question; "handled" means that the handler runs.
Arrive(d, credential, action, resource) ==
    /\ At(d, "idle")
    /\ LET who == Resolved(credential) IN
       request' = [request EXCEPT ![d] =
          [Idle EXCEPT !.who = who, !.action = action, !.resource = resource,
                       !.pc = IF who = "nobody" THEN "refused"
                              ELSE IF action = None \/ who = "wildcard" THEN "handled"
                              ELSE IF engine = "remote" THEN "asked"
                              ELSE "read"]]
    /\ held' = [held EXCEPT ![d] = Assigned(rows)]
    /\ UNCHANGED <<engine, adminKey, rows, changes>>

\* assignmentsFor().
ReadAssignments(d) ==
    /\ At(d, "read")
    /\ request' = [request EXCEPT ![d].pc = "expand", ![d].read = Assigned(rows),
                                  ![d].todo = Assigned(rows)]
    /\ UNCHANGED <<engine, adminKey, rows, changes, held>>

\* collectRolePermissions() of a role in a scope, once getRole() has answered: a role
\* seen before, whatever the scope was then, is passed over.
Visited(q, name, scope) ==
    IF name \notin DOMAIN Roles \/ name \in q.seen THEN q
    ELSE [q EXCEPT
           !.seen = @ \cup {name},
           !.out = @ \cup {[permission |-> p, scope |-> scope] : p \in Roles[name].permissions},
           !.stack = [k \in DOMAIN Roles[name].inherits |->
                        [role |-> Roles[name].inherits[k], scope |-> scope]] \o @]

\* expand(): the parents of a role before the next assignment.  The order of the
\* assignments is the database's.
GetRole(d) ==
    /\ At(d, "expand")
    /\ LET q == request[d] IN
       \/ /\ q.stack # <<>>
          /\ request' = [request EXCEPT ![d] =
                Visited([q EXCEPT !.stack = Tail(@)], Head(q.stack).role, Head(q.stack).scope)]
       \/ /\ q.stack = <<>>
          /\ \E a \in q.todo :
                request' = [request EXCEPT ![d] =
                              Visited([q EXCEPT !.todo = @ \ {a}], a.role, a.scope)]
    /\ UNCHANGED <<engine, adminKey, rows, changes, held>>

Decide(d) ==
    /\ At(d, "expand")
    /\ request[d].stack = <<>> /\ request[d].todo = {}
    /\ LET q == request[d] IN
       request' = [request EXCEPT ![d].pc =
          IF Decision(q.out, q.action, q.resource) THEN "handled" ELSE "refused"]
    /\ UNCHANGED <<engine, adminKey, rows, changes, held>>

\* RemoteHttpPolicyEngine: what the service answers.  "result" is {"result": true}, which
\* parseDecision() does not take for an allow: it looks at a boolean only among objects.
Answers == {"allow", "deny", "result", "error"}
Says(answer) == answer = "allow"

AnswerRemotely(d, answer) ==
    /\ At(d, "asked")
    /\ request' = [request EXCEPT ![d].pc = IF Says(answer) THEN "handled" ELSE "refused"]
    /\ UNCHANGED <<engine, adminKey, rows, changes, held>>

\* Mutation of AbortRemote: no signal is passed to the request.
NeverAbort(d) == FALSE /\ UNCHANGED vars

\* The request is aborted after timeoutMs.
AbortRemote(d) ==
    /\ At(d, "asked")
    /\ request' = [request EXCEPT ![d].pc = "refused"]
    /\ UNCHANGED <<engine, adminKey, rows, changes, held>>

-----------------------------------------------------------------------------

CanBuiltin(d) == ReadAssignments(d) \/ GetRole(d) \/ Decide(d)

CanRemote(d) == AbortRemote(d) \/ \E answer \in Answers : AnswerRemotely(d, answer)

Next ==
    \/ \E i \in Row : Unassign(i) \/ \E a \in Assignment : Assign(i, a)
    \/ \E d \in Request :
          \/ \E credential \in Credentials, action \in Action \cup {None},
                resource \in Resource : Arrive(d, credential, action, resource)
          \/ CanBuiltin(d) \/ CanRemote(d)

AccessSpec == Init /\ [][Next]_vars

\* The database answers; the policy service need not, but its timer runs out.
Fairness == \A d \in Request : WF_vars(CanBuiltin(d)) /\ WF_vars(AbortRemote(d))

FairSpec == AccessSpec /\ Fairness

-----------------------------------------------------------------------------
(* What the documentation says a decision is *)

\* "assignment scope must be an ancestor of the resource" (engine.ts).
Within(scope, resource) == \A k \in Dim : scope[k] \in {None, resource[k]}

Matches(pattern, action) == pattern \in {Every, action, <<action[1], "*">>}

\* A role and what it inherits: the least set that holds it and is closed.
Closure(role) ==
    {q \in RoleName : \A S \in SUBSET RoleName :
        (role \in S /\ \A r \in S \cap DOMAIN Roles :
            \A k \in DOMAIN Roles[r].inherits : Roles[r].inherits[k] \in S) => q \in S}

\* The assignments give the action on the resource this effect.
Has(assignments, effect, action, resource) ==
    \E a \in assignments : \E r \in Closure(a.role) \cap DOMAIN Roles :
        \E p \in Roles[r].permissions :
            /\ p.effect = effect
            /\ Within(a.scope, resource) /\ Within(p.scope, resource)
            /\ Matches(p.action, action)

\* "explicit deny > explicit allow > (default) deny" (engine.ts).
Permitted(assignments, action, resource) ==
    /\ ~Has(assignments, "deny", action, resource)
    /\ Has(assignments, "allow", action, resource)

\* No role is reached from two assignments of different scope.
Separate(assignments) ==
    \A a, b \in assignments :
        a = b \/ a.scope = b.scope \/ Closure(a.role) \cap Closure(b.role) = {}

Decided(d) == /\ At(d, "handled") \/ At(d, "refused")
              /\ request[d].who = "stored" /\ request[d].action # None
              /\ engine = "builtin"

-----------------------------------------------------------------------------

Question ==
    [pc : Ended \cup {"idle", "read", "expand", "asked"},
     who : {None, "wildcard", "stored", "nobody"},
     action : Action \cup {None}, resource : Resource \cup {None},
     read : SUBSET Assignment, todo : SUBSET Assignment, stack : Seq(Assignment),
     seen : SUBSET DOMAIN Roles, out : SUBSET Grant]

TypeOK ==
    /\ engine \in Engines /\ adminKey \in BOOLEAN
    /\ rows \in [Row -> Assignment \cup {None}]
    /\ request \in [Request -> Question]
    /\ changes \in 0..MaxChanges
    /\ held \in [Request -> SUBSET Assignment]

\* However assignments come and go, a handler runs for a stored principal only if some
\* assignment held while the request was decided, by way of a role it inherits, allows
\* the action on a scope that contains the resource.
AllowIsGranted ==
    \A d \in Request : Decided(d) /\ At(d, "handled") =>
        Has(held[d], "allow", request[d].action, request[d].resource)

\* The walk over the roles, cycles of inheritance included, decides as the documented
\* precedence does, whenever no role is reached twice with different scopes.
SeparateRolesDecide ==
    \A d \in Request : Decided(d) /\ Separate(request[d].read) =>
        (At(d, "handled") <=>
            Permitted(request[d].read, request[d].action, request[d].resource))

\* The same whatever the assignments are ("Precedence: explicit deny > explicit allow >
\* (default) deny. Scope matching: assignment scope must be an ancestor of the resource",
\* engine.ts).
PrecedenceDecides ==
    \A d \in Request : Decided(d) =>
        (At(d, "handled") <=>
            Permitted(request[d].read, request[d].action, request[d].resource))

\* No request hangs at its guard, although a policy service may never answer.
RequestsAreDecided ==
    \A d \in Request : request[d].pc # "idle" ~> request[d].pc \in Ended
=============================================================================
