--------------------------- MODULE IdentityProofs ---------------------------
(***************************************************************************)
(* Who is let in, for every set of requests, roles, scopes and round       *)
(* trips: the walk of the policy engine over the roles, cycles of          *)
(* inheritance included, decides what the documentation says; and the      *)
(* round trips of the logins and consents, which share Redis.              *)
(***************************************************************************)
EXTENDS MCIdentity, TLAPS

(* A role and what it inherits *)

\* Closed(S): with a role, S has what the role inherits.
Closed(S) ==
    \A r \in S \cap DOMAIN Roles : \A k \in DOMAIN Roles[r].inherits : Roles[r].inherits[k] \in S

\* The closure of a role has it, is closed, and is the least such set.
LEMMA ClosureIsClosed ==
    ASSUME NEW role \in RoleName
    PROVE  role \in Closure(role) /\ Closed(Closure(role))
<1>1. \A r \in DOMAIN Roles : \A k \in DOMAIN Roles[r].inherits : Roles[r].inherits[k] \in RoleName
  BY AccessAssumption
<1> QED
  BY <1>1 DEF Closure, Closed

\* Whatever has the role and all that its members inherit has the closure.
LEMMA ClosureIsLeast ==
    ASSUME NEW role \in RoleName, NEW S \in SUBSET RoleName, role \in S, Closed(S)
    PROVE  Closure(role) \subseteq S
BY DEF Closure, Closed

-----------------------------------------------------------------------------
(* The walk over the roles *)

\* An assignment that was read gives the role in the scope, itself or by inheritance.
Traced(q, role, scope) ==
    \E a \in q.read : a.scope = scope /\ role \in Closure(a.role)

\* The role was visited, or will be, or there is no such role.
Reached(q, role, inHand) ==
    \/ role \notin DOMAIN Roles
    \/ role \in q.seen \cup inHand
    \/ \E k \in DOMAIN q.stack : q.stack[k].role = role

Recorded(q, role) ==
    \E a \in q.read :
        /\ role \in Closure(a.role)
        /\ \A p \in Roles[role].permissions : [permission |-> p, scope |-> a.scope] \in q.out

\* What is collected is of the assignments read, and nothing of them is passed over but what
\* the stack or the assignments still to do lead to, or the role in hand.
Walk(q, inHand) ==
    /\ q \in Question /\ q.todo \subseteq q.read
    /\ \A k \in DOMAIN q.stack : Traced(q, q.stack[k].role, q.stack[k].scope)
    /\ \A g \in q.out : \E r \in DOMAIN Roles :
         g.permission \in Roles[r].permissions /\ Traced(q, r, g.scope)
    /\ \A r \in q.seen :
         /\ Recorded(q, r)
         /\ \A k \in DOMAIN Roles[r].inherits : Reached(q, Roles[r].inherits[k], inHand)
    /\ \A a \in q.read \ q.todo : Reached(q, a.role, inHand)

\* A role that is put on the stack with what it inherits.
LEMMA ParentsPushed ==
    ASSUME NEW s \in Seq(RoleName), NEW scope \in Scope, NEW t \in Seq(Assignment)
    PROVE  LET new == [k \in DOMAIN s |-> [role |-> s[k], scope |-> scope]]
               r == new \o t
           IN  /\ r \in Seq(Assignment)
               /\ \A k \in DOMAIN r : \/ \E i \in DOMAIN s : r[k] = [role |-> s[i], scope |-> scope]
                                      \/ \E i \in DOMAIN t : r[k] = t[i]
               /\ \A i \in DOMAIN s : \E k \in DOMAIN r : r[k].role = s[i]
               /\ \A i \in DOMAIN t : \E k \in DOMAIN r : r[k] = t[i]
<1> DEFINE new == [k \in DOMAIN s |-> [role |-> s[k], scope |-> scope]]
           r == new \o t
<1>1. Len(s) \in Nat /\ DOMAIN s = 1..Len(s) /\ Len(t) \in Nat /\ DOMAIN t = 1..Len(t)
  OBVIOUS
<1>2. \A k \in 1..Len(s) : [role |-> s[k], scope |-> scope] \in Assignment
  BY <1>1 DEF Assignment
<1>3. new \in Seq(Assignment) /\ Len(new) = Len(s)
  BY <1>1, <1>2
<1>4. \A k \in 1..Len(s) : new[k] = [role |-> s[k], scope |-> scope]
  BY <1>1
<1> HIDE DEF new
<1>5. /\ r \in Seq(Assignment) /\ DOMAIN r = 1..(Len(s) + Len(t))
      /\ \A k \in 1..(Len(s) + Len(t)) : r[k] = IF k <= Len(s) THEN new[k] ELSE t[k - Len(s)]
  BY <1>1, <1>3
<1> HIDE DEF r
<1>6. \A k \in DOMAIN r : \/ \E i \in DOMAIN s : r[k] = [role |-> s[i], scope |-> scope]
                          \/ \E i \in DOMAIN t : r[k] = t[i]
  <2> TAKE k \in DOMAIN r
  <2>1. CASE k <= Len(s)
    <3>1. k \in 1..Len(s) /\ k \in DOMAIN s
      BY <1>1, <1>5, <2>1
    <3>2. r[k] = new[k]
      BY <1>5, <2>1
    <3> QED
      BY <1>4, <3>1, <3>2
  <2>2. CASE ~(k <= Len(s))
    <3>1. k - Len(s) \in 1..Len(t)
      BY <1>1, <1>5, <2>2
    <3> QED
      BY <1>1, <1>5, <2>2, <3>1
  <2> QED
    BY <2>1, <2>2
<1>7. \A i \in DOMAIN s : \E k \in DOMAIN r : r[k].role = s[i]
  <2> TAKE i \in DOMAIN s
  <2>1. i \in 1..(Len(s) + Len(t)) /\ i <= Len(s)
    BY <1>1
  <2>2. r[i] = new[i] /\ i \in DOMAIN r
    BY <1>5, <2>1
  <2>3. new[i] = [role |-> s[i], scope |-> scope]
    BY <1>1, <1>4
  <2> QED
    BY <2>2, <2>3
<1>8. \A i \in DOMAIN t : \E k \in DOMAIN r : r[k] = t[i]
  <2> TAKE i \in DOMAIN t
  <2>1. i + Len(s) \in 1..(Len(s) + Len(t)) /\ ~(i + Len(s) <= Len(s)) /\ i + Len(s) - Len(s) = i
    BY <1>1
  <2> QED
    BY <1>5, <2>1
<1> QED
  BY <1>5, <1>6, <1>7, <1>8 DEF r, new

\* collectRolePermissions() of one role.
LEMMA VisitKeeps ==
    ASSUME NEW q, NEW name \in RoleName, NEW scope \in Scope,
           Walk(q, {name}), Traced(q, name, scope)
    PROVE  LET r == Visited(q, name, scope)
           IN  /\ Walk(r, {}) /\ r.read = q.read /\ r.todo = q.todo /\ r.pc = q.pc
               /\ r.who = q.who /\ r.action = q.action /\ r.resource = q.resource
<1>1. q \in Question
  BY DEF Walk
<1>2. CASE name \notin DOMAIN Roles \/ name \in q.seen
  BY <1>2 DEF Visited, Walk, Reached
<1>3. CASE name \in DOMAIN Roles /\ name \notin q.seen
  <2> DEFINE new == [k \in DOMAIN Roles[name].inherits |->
                       [role |-> Roles[name].inherits[k], scope |-> scope]]
             st == new \o q.stack
             more == {[permission |-> p, scope |-> scope] : p \in Roles[name].permissions}
             r == [q EXCEPT !.seen = q.seen \cup {name}, !.out = q.out \cup more, !.stack = st]
  <2>1. Visited(q, name, scope) = r
    BY <1>3 DEF Visited
  <2>2. Roles[name].inherits \in Seq(RoleName) /\ q.stack \in Seq(Assignment)
    BY <1>1, <1>3, AccessAssumption DEF Question
  <2>3. /\ st \in Seq(Assignment)
        /\ \A k \in DOMAIN st :
             \/ \E i \in DOMAIN Roles[name].inherits :
                  st[k] = [role |-> Roles[name].inherits[i], scope |-> scope]
             \/ \E i \in DOMAIN q.stack : st[k] = q.stack[i]
        /\ \A i \in DOMAIN Roles[name].inherits :
             \E k \in DOMAIN st : st[k].role = Roles[name].inherits[i]
        /\ \A i \in DOMAIN q.stack : \E k \in DOMAIN st : st[k] = q.stack[i]
    BY <2>2, ParentsPushed
  <2>4. more \subseteq Grant
    BY <1>3 DEF Grant
  <2>5. \A g \in more : g.permission \in Roles[name].permissions /\ g.scope = scope
    OBVIOUS
  <2>6. \A p \in Roles[name].permissions : [permission |-> p, scope |-> scope] \in more
    OBVIOUS
  <2> HIDE DEF st, more
  <2>7. /\ r \in Question /\ r.seen = q.seen \cup {name} /\ r.out = q.out \cup more
        /\ r.stack = st /\ r.read = q.read /\ r.todo = q.todo /\ r.pc = q.pc
        /\ r.who = q.who /\ r.action = q.action /\ r.resource = q.resource
    BY <1>1, <1>3, <2>3, <2>4 DEF Question
  <2> HIDE DEF r
  <2>8. \A role, s : Traced(q, role, s) <=> Traced(r, role, s)
    BY <2>7 DEF Traced
  <2>9. \A k \in DOMAIN Roles[name].inherits : Traced(r, Roles[name].inherits[k], scope)
    <3>1. PICK a \in q.read : a.scope = scope /\ name \in Closure(a.role)
      BY DEF Traced
    <3>2. a.role \in RoleName
      BY <1>1, <3>1 DEF Question, Assignment
    <3>3. \A k \in DOMAIN Roles[name].inherits : Roles[name].inherits[k] \in Closure(a.role)
      BY <1>3, <3>1, <3>2, ClosureIsClosed DEF Closed
    <3> QED
      BY <2>7, <3>1, <3>3 DEF Traced
  <2>10. \A k \in DOMAIN r.stack : Traced(r, r.stack[k].role, r.stack[k].scope)
    BY <2>3, <2>7, <2>8, <2>9 DEF Walk
  <2>11. \A g \in r.out : \E x \in DOMAIN Roles :
           g.permission \in Roles[x].permissions /\ Traced(r, x, g.scope)
    BY <1>3, <2>5, <2>7, <2>8 DEF Walk
  <2>12. \A role : Reached(q, role, {name}) => Reached(r, role, {})
    BY <2>3, <2>7 DEF Reached
  <2>13. \A x \in r.seen : Recorded(r, x)
    BY <2>6, <2>7 DEF Walk, Recorded, Traced
  <2>14. \A x \in r.seen : \A k \in DOMAIN Roles[x].inherits : Reached(r, Roles[x].inherits[k], {})
    <3> TAKE x \in r.seen
    <3>1. CASE x = name
      BY <2>3, <2>7, <3>1 DEF Reached
    <3>2. CASE x # name
      BY <2>7, <2>12, <3>2 DEF Walk
    <3> QED
      BY <3>1, <3>2
  <2>15. \A a \in r.read \ r.todo : Reached(r, a.role, {})
    BY <2>7, <2>12 DEF Walk
  <2>16. r.todo \subseteq r.read
    BY <2>7 DEF Walk
  <2> QED
    BY <2>1, <2>7, <2>10, <2>11, <2>13, <2>14, <2>15, <2>16 DEF Walk
<1> QED
  BY <1>2, <1>3

\* A walk that is over has been everywhere: what the assignments read give by inheritance.
LEMMA WalkIsComplete ==
    ASSUME NEW q, Walk(q, {}), q.stack = <<>>, q.todo = {}, NEW a \in q.read,
           NEW r \in Closure(a.role) \cap DOMAIN Roles
    PROVE  r \in q.seen
<1> DEFINE S == {x \in RoleName : x \notin DOMAIN Roles \/ x \in q.seen}
<1>1. a.role \in RoleName
  BY DEF Walk, Question, Assignment
<1>2. \A x : Reached(q, x, {}) => x \notin DOMAIN Roles \/ x \in q.seen
  BY DEF Reached
<1>3. a.role \in S
  BY <1>1, <1>2 DEF Walk
<1>4. Closed(S)
  <2> SUFFICES ASSUME NEW x \in S \cap DOMAIN Roles, NEW k \in DOMAIN Roles[x].inherits
               PROVE  Roles[x].inherits[k] \in S
    BY DEF Closed
  <2>1. Roles[x].inherits[k] \in RoleName
    BY AccessAssumption
  <2>2. Reached(q, Roles[x].inherits[k], {})
    BY DEF Walk
  <2> QED
    BY <1>2, <2>1, <2>2
<1> HIDE DEF S
<1>5. Closure(a.role) \subseteq S
  <2>1. S \in SUBSET RoleName
    BY DEF S
  <2> QED
    BY <1>1, <1>3, <1>4, <2>1, ClosureIsLeast
<1> QED
  BY <1>5 DEF S

\* The source's containment of scopes and its match of patterns are those of the documentation.
LEMMA ScopesAndActions ==
    /\ \A scope, resource : ScopeContains(scope, resource) <=> Within(scope, resource)
    /\ \A pattern, action : ActionMatches(pattern, action) <=> Matches(pattern, action)
BY DEF ScopeContains, Within, ActionMatches, Matches

\* Nothing is collected that the assignments do not give.
LEMMA WalkIsSound ==
    ASSUME NEW q, NEW inHand, Walk(q, inHand), NEW action, NEW resource,
           NEW g \in Effective(q.out, action, resource)
    PROVE  Has(q.read, g.permission.effect, action, resource)
<1>1. /\ g \in q.out /\ Within(g.scope, resource) /\ Within(g.permission.scope, resource)
      /\ Matches(g.permission.action, action)
  BY ScopesAndActions DEF Effective
<1>2. PICK r \in DOMAIN Roles : g.permission \in Roles[r].permissions /\ Traced(q, r, g.scope)
  BY <1>1 DEF Walk
<1>3. PICK a \in q.read : a.scope = g.scope /\ r \in Closure(a.role)
  BY <1>2 DEF Traced
<1> QED
  BY <1>1, <1>2, <1>3 DEF Has

\* What the assignments give is collected, in its scope, where no role has two.
LEMMA WalkFinds ==
    ASSUME NEW q, Walk(q, {}), q.stack = <<>>, q.todo = {}, Separate(q.read),
           NEW action, NEW resource, NEW effect, Has(q.read, effect, action, resource)
    PROVE  \E g \in Effective(q.out, action, resource) : g.permission.effect = effect
<1>1. PICK a \in q.read : \E r \in Closure(a.role) \cap DOMAIN Roles :
        \E p \in Roles[r].permissions :
          /\ p.effect = effect /\ Within(a.scope, resource) /\ Within(p.scope, resource)
          /\ Matches(p.action, action)
  BY DEF Has
<1>2. PICK r \in Closure(a.role) \cap DOMAIN Roles :
        \E p \in Roles[r].permissions :
          /\ p.effect = effect /\ Within(a.scope, resource) /\ Within(p.scope, resource)
          /\ Matches(p.action, action)
  BY <1>1
<1>3. PICK p \in Roles[r].permissions :
        /\ p.effect = effect /\ Within(a.scope, resource) /\ Within(p.scope, resource)
        /\ Matches(p.action, action)
  BY <1>2
<1>4. PICK b \in q.read :
        /\ r \in Closure(b.role)
        /\ \A x \in Roles[r].permissions : [permission |-> x, scope |-> b.scope] \in q.out
  BY WalkIsComplete DEF Walk, Recorded
<1>5. a.scope = b.scope
  BY <1>4 DEF Separate
<1> DEFINE g == [permission |-> p, scope |-> a.scope]
<1>6. g \in q.out /\ g.permission = p /\ g.scope = a.scope
  BY <1>3, <1>4, <1>5
<1> HIDE DEF g
<1>7. g \in Effective(q.out, action, resource)
  BY <1>3, <1>6, ScopesAndActions DEF Effective
<1> QED
  BY <1>3, <1>6, <1>7

\* What a walk has found to allow, the assignments it read do allow.
LEMMA DecisionIsSound ==
    ASSUME NEW q, NEW inHand, Walk(q, inHand), NEW action, NEW resource,
           Decision(q.out, action, resource)
    PROVE  Has(q.read, "allow", action, resource)
<1>1. PICK g \in Effective(q.out, action, resource) : g.permission.effect = "allow"
  BY DEF Decision
<1> QED
  BY <1>1, WalkIsSound

\* A walk that is over decides as the documentation says, when no role is reached
\* from two assignments of different scope.
LEMMA DecisionIsPrecedence ==
    ASSUME NEW q, Walk(q, {}), q.stack = <<>>, q.todo = {}, Separate(q.read),
           NEW action, NEW resource
    PROVE  Decision(q.out, action, resource) <=> Permitted(q.read, action, resource)
<1>1. ASSUME NEW effect \in {"allow", "deny"}
      PROVE  Has(q.read, effect, action, resource) <=>
               \E g \in Effective(q.out, action, resource) : g.permission.effect = effect
  <2>1. ASSUME NEW g \in Effective(q.out, action, resource), g.permission.effect = effect
        PROVE  Has(q.read, effect, action, resource)
    BY <2>1, WalkIsSound
  <2> QED
    BY <2>1, WalkFinds
<1> QED
  BY <1>1 DEF Decision, Permitted

-----------------------------------------------------------------------------
(* The requests *)

\* What is to be known of one request: a walk has read no more than there was to read, and has
\* decided what it has collected.
RequestInv(d) ==
    LET q == request[d]
    IN  /\ q.pc = "asked" => engine # "builtin"
        /\ q.pc \in {"read", "expand", "asked"} => Assigned(rows) \subseteq held[d]
        /\ q.pc = "read" => q.stack = <<>> /\ q.seen = {} /\ q.out = {}
        /\ q.pc = "expand" \/ Decided(d) => Walk(q, {}) /\ q.read \subseteq held[d]
        /\ Decided(d) => /\ q.stack = <<>> /\ q.todo = {}
                         /\ q.pc = "handled" <=> Decision(q.out, q.action, q.resource)

AccessInv == TypeOK /\ \A d \in Request : RequestInv(d)

\* It holds before the first request.
LEMMA AccessInit == Init => AccessInv
<1> SUFFICES ASSUME Init
             PROVE  AccessInv
  OBVIOUS
<1>1. Idle \in Question /\ Idle.pc = "idle"
  BY DEF Idle, Question, Ended
<1>2. TypeOK
  BY <1>1, AccessAssumption DEF Init, TypeOK
<1>3. \A d \in Request : request[d].pc = "idle"
  BY <1>1 DEF Init
<1> QED
  BY <1>2, <1>3 DEF AccessInv, RequestInv, Decided, At

\* A step of one request, which leaves the assignments alone.
LEMMA OneRequest ==
    ASSUME AccessInv, NEW d \in Request, NEW r \in Question,
           request' = [request EXCEPT ![d] = r], UNCHANGED <<engine, adminKey, rows, changes>>,
           held' \in [Request -> SUBSET Assignment],
           \A e \in Request : e # d => held'[e] = held[e],
           RequestInv(d)'
    PROVE  AccessInv'
<1>1. TypeOK /\ request \in [Request -> Question]
  BY DEF AccessInv, TypeOK
<1>2. /\ request' \in [Request -> Question]
      /\ \A e \in Request : e # d => request'[e] = request[e]
  BY <1>1
<1>3. TypeOK'
  BY <1>1, <1>2 DEF TypeOK
<1>4. \A e \in Request : e # d => RequestInv(e)'
  BY <1>2 DEF AccessInv, RequestInv, Decided, At, Assigned
<1> QED
  BY <1>3, <1>4 DEF AccessInv

\* Assignments come and go under the requests.
LEMMA AssignmentsKeep ==
    ASSUME AccessInv, NEW i \in Row, Unassign(i) \/ \E a \in Assignment : Assign(i, a)
    PROVE  AccessInv'
<1>1. TypeOK /\ UNCHANGED <<engine, adminKey, request>> /\ changes \in 0..MaxChanges
  BY DEF AccessInv, TypeOK, Assign, Unassign
<1>2. PICK a \in Assignment \cup {None} : (Assign(i, a) /\ a \in Assignment) \/ Unassign(i)
  OBVIOUS
<1>3. /\ rows' \in [Row -> Assignment \cup {None}] /\ held' \in [Request -> SUBSET Assignment]
      /\ \A d \in Request : /\ held[d] \subseteq held'[d]
                            /\ d \in Running /\ Assigned(rows) \subseteq held[d] =>
                                 Assigned(rows)' \subseteq held'[d]
  <2>1. CASE Assign(i, a) /\ a \in Assignment
    BY <1>1, <2>1 DEF TypeOK, Assign, Assigned
  <2>2. CASE Unassign(i)
    BY <1>1, <2>2 DEF TypeOK, Unassign, Assigned
  <2> QED
    BY <1>2, <2>1, <2>2
<1>4. changes' \in 0..MaxChanges
  BY <1>1, <1>2, AccessAssumption DEF Assign, Unassign
<1>5. TypeOK'
  BY <1>1, <1>3, <1>4 DEF TypeOK
<1>6. ASSUME NEW d \in Request
      PROVE  RequestInv(d)'
  <2>1. RequestInv(d) /\ request'[d] = request[d] /\ engine' = engine
    BY <1>1 DEF AccessInv
  <2>2. request[d].pc \in {"read", "expand", "asked"} => d \in Running
    BY DEF Running, Ended
  <2> QED
    BY <1>3, <2>1, <2>2 DEF RequestInv, Decided, At
<1> QED
  BY <1>5, <1>6 DEF AccessInv

\* A request arrives.
LEMMA ArriveKeeps ==
    ASSUME AccessInv, NEW d \in Request, NEW credential, NEW action \in Action \cup {None},
           NEW resource \in Resource, Arrive(d, credential, action, resource)
    PROVE  AccessInv'
<1> DEFINE who == Resolved(credential)
           pc == IF who = "nobody" THEN "refused"
                 ELSE IF action = None \/ who = "wildcard" THEN "handled"
                 ELSE IF engine = "remote" THEN "asked"
                 ELSE "read"
           r == [Idle EXCEPT !.who = who, !.action = action, !.resource = resource, !.pc = pc]
<1>1. /\ request' = [request EXCEPT ![d] = r] /\ held' = [held EXCEPT ![d] = Assigned(rows)]
      /\ UNCHANGED <<engine, adminKey, rows, changes>>
  BY DEF Arrive
<1>2. who \in {"wildcard", "stored", "nobody"}
  BY DEF Resolved, Federated
<1>3. pc \in {"refused", "handled", "asked", "read"}
  OBVIOUS
<1>4. /\ pc = "asked" => engine # "builtin"
      /\ pc \in {"refused", "handled"} => who # "stored" \/ action = None
  BY <1>2
<1> HIDE DEF who, pc
<1>5. /\ r \in Question /\ r.pc = pc /\ r.who = who /\ r.action = action
      /\ r.stack = <<>> /\ r.seen = {} /\ r.out = {}
  <2> DEFINE q == Idle
  <2>1. q \in Question /\ q.stack = <<>> /\ q.seen = {} /\ q.out = {}
    BY DEF Idle, Question, Ended
  <2>2. pc \in Ended \cup {"idle", "read", "expand", "asked"}
    BY <1>3 DEF Ended
  <2>3. r = [q EXCEPT !.who = who, !.action = action, !.resource = resource, !.pc = pc]
    OBVIOUS
  <2> HIDE DEF q, r
  <2> QED
    BY <1>2, <2>1, <2>2, <2>3 DEF Question
<1> HIDE DEF r
<1>6. TypeOK /\ Assigned(rows) \subseteq Assignment
  BY DEF AccessInv, TypeOK, Assigned
<1>7. /\ held' \in [Request -> SUBSET Assignment] /\ held'[d] = Assigned(rows)
      /\ \A e \in Request : e # d => held'[e] = held[e]
      /\ request'[d] = r
  BY <1>1, <1>6 DEF TypeOK
<1>8. RequestInv(d)'
  <2>1. ~Decided(d)' /\ ~(pc = "expand")
    BY <1>3, <1>4, <1>5, <1>7 DEF Decided, At
  <2>2. Assigned(rows)' = held'[d] /\ engine' = engine
    BY <1>1, <1>7 DEF Assigned
  <2> QED
    BY <1>4, <1>5, <1>7, <2>1, <2>2 DEF RequestInv
<1> QED
  BY <1>1, <1>5, <1>7, <1>8, OneRequest

\* authorize() reads the assignments.
LEMMA ReadKeeps ==
    ASSUME AccessInv, NEW d \in Request, ReadAssignments(d)
    PROVE  AccessInv'
<1>1. PICK q \in Question : q = request[d]
  BY DEF AccessInv, TypeOK
<1>2. PICK R \in SUBSET Assignment : R = Assigned(rows)
  BY DEF AccessInv, TypeOK, Assigned
<1> DEFINE r == [q EXCEPT !.pc = "expand", !.read = R, !.todo = R]
<1>3. /\ q.pc = "read" /\ q.stack = <<>> /\ q.seen = {} /\ q.out = {} /\ R \subseteq held[d]
      /\ UNCHANGED <<engine, adminKey, rows, changes, held>>
  BY <1>1, <1>2 DEF ReadAssignments, AccessInv, RequestInv, At
<1>4. /\ r \in Question /\ r.pc = "expand" /\ r.read = R /\ r.todo = R
      /\ r.stack = q.stack /\ r.seen = q.seen /\ r.out = q.out
  BY DEF Question
<1>5. request' = [request EXCEPT ![d] = r]
  BY <1>1, <1>2 DEF ReadAssignments, AccessInv, TypeOK
<1> HIDE DEF r
<1>6. Walk(r, {})
  BY <1>3, <1>4 DEF Walk
<1>7. held' \in [Request -> SUBSET Assignment] /\ request'[d] = r
  BY <1>3, <1>5 DEF AccessInv, TypeOK
<1>8. RequestInv(d)'
  <2>1. Assigned(rows)' = R /\ held'[d] = held[d] /\ ~Decided(d)'
    BY <1>2, <1>3, <1>4, <1>7 DEF Assigned, Decided, At
  <2> QED
    BY <1>3, <1>4, <1>6, <1>7, <2>1 DEF RequestInv
<1> QED
  BY <1>3, <1>4, <1>5, <1>7, <1>8, OneRequest

\* A role is fetched and expanded.
LEMMA GetRoleKeeps ==
    ASSUME AccessInv, NEW d \in Request, GetRole(d)
    PROVE  AccessInv'
<1>1. PICK q \in Question : q = request[d]
  BY DEF AccessInv, TypeOK
<1>2. /\ q.pc = "expand" /\ Walk(q, {}) /\ q.read \subseteq held[d] /\ Assigned(rows) \subseteq held[d]
      /\ UNCHANGED <<engine, adminKey, rows, changes, held>>
  BY <1>1 DEF GetRole, AccessInv, RequestInv, At
\* The role in hand is of the stack, or of an assignment that is still to do.
<1>3. ASSUME NEW q0 \in Question, NEW name \in RoleName, NEW scope \in Scope,
             Walk(q0, {name}), Traced(q0, name, scope), q0.pc = "expand", q0.read = q.read,
             request' = [request EXCEPT ![d] = Visited(q0, name, scope)]
      PROVE  AccessInv'
  <2>1. PICK r : r = Visited(q0, name, scope)
    OBVIOUS
  <2>2. Walk(r, {}) /\ r.pc = "expand" /\ r.read = q.read /\ r \in Question
    BY <1>3, <2>1, VisitKeeps DEF Walk
  <2>3. /\ request' = [request EXCEPT ![d] = r] /\ request'[d] = r
        /\ held' \in [Request -> SUBSET Assignment]
    BY <1>2, <1>3, <2>1 DEF AccessInv, TypeOK
  <2>4. Assigned(rows)' = Assigned(rows) /\ held'[d] = held[d] /\ ~Decided(d)'
    BY <1>2, <2>2, <2>3 DEF Assigned, Decided, At
  <2>5. RequestInv(d)'
    BY <1>2, <2>2, <2>3, <2>4 DEF RequestInv
  <2> QED
    BY <1>2, <2>2, <2>3, <2>5, OneRequest
<1>4. CASE /\ q.stack # <<>>
           /\ request' = [request EXCEPT ![d] =
                Visited([q EXCEPT !.stack = Tail(@)], Head(q.stack).role, Head(q.stack).scope)]
  <2> DEFINE q0 == [q EXCEPT !.stack = Tail(q.stack)]
             e == Head(q.stack)
  <2>1. /\ q.stack \in Seq(Assignment) /\ e \in Assignment /\ Tail(q.stack) \in Seq(Assignment)
        /\ 1 \in DOMAIN q.stack /\ e = q.stack[1]
    BY <1>4 DEF Question
  <2>2. /\ \A k \in DOMAIN Tail(q.stack) : k + 1 \in DOMAIN q.stack /\ Tail(q.stack)[k] = q.stack[k + 1]
        /\ \A k \in DOMAIN q.stack : \/ q.stack[k] = e
                                     \/ k - 1 \in DOMAIN Tail(q.stack) /\ Tail(q.stack)[k - 1] = q.stack[k]
    BY <1>4, <2>1
  <2> HIDE DEF e
  <2>3. /\ q0 \in Question /\ q0.stack = Tail(q.stack) /\ q0.read = q.read /\ q0.todo = q.todo
        /\ q0.seen = q.seen /\ q0.out = q.out /\ q0.pc = q.pc
    BY <2>1 DEF Question
  <2>4. q0 = [q EXCEPT !.stack = Tail(@)]
    OBVIOUS
  <2> HIDE DEF q0
  <2>5. \A role, s : Traced(q, role, s) <=> Traced(q0, role, s)
    BY <2>3 DEF Traced
  <2>6. \A role : Reached(q, role, {}) => Reached(q0, role, {e.role})
    <3> SUFFICES ASSUME NEW role, NEW k \in DOMAIN q.stack, q.stack[k].role = role, role # e.role
                 PROVE  \E i \in DOMAIN q0.stack : q0.stack[i].role = role
      BY <2>3 DEF Reached
    <3> QED
      BY <2>2, <2>3
  <2>7. \A role : Recorded(q, role) <=> Recorded(q0, role)
    BY <2>3 DEF Recorded
  <2>8. Walk(q0, {e.role})
    <3>1. \A k \in DOMAIN q0.stack : Traced(q0, q0.stack[k].role, q0.stack[k].scope)
      BY <1>2, <2>2, <2>3, <2>5 DEF Walk
    <3>2. \A g \in q0.out : \E r \in DOMAIN Roles :
            g.permission \in Roles[r].permissions /\ Traced(q0, r, g.scope)
      BY <1>2, <2>3, <2>5 DEF Walk
    <3>3. \A r \in q0.seen :
            /\ Recorded(q0, r)
            /\ \A k \in DOMAIN Roles[r].inherits : Reached(q0, Roles[r].inherits[k], {e.role})
      BY <1>2, <2>3, <2>6, <2>7 DEF Walk
    <3>4. \A a \in q0.read \ q0.todo : Reached(q0, a.role, {e.role})
      BY <1>2, <2>3, <2>6 DEF Walk
    <3> QED
      BY <1>2, <2>3, <3>1, <3>2, <3>3, <3>4 DEF Walk
  <2>9. Traced(q0, e.role, e.scope) /\ e.role \in RoleName /\ e.scope \in Scope
    BY <1>2, <2>1, <2>5 DEF Walk, Assignment
  <2>10. request' = [request EXCEPT ![d] = Visited(q0, e.role, e.scope)]
    BY <1>4, <2>4 DEF e
  <2> QED
    BY <1>2, <1>3, <2>3, <2>8, <2>9, <2>10
<1>5. ASSUME NEW a \in q.todo, q.stack = <<>>,
             request' = [request EXCEPT ![d] = Visited([q EXCEPT !.todo = @ \ {a}], a.role, a.scope)]
      PROVE  AccessInv'
  <2> DEFINE q0 == [q EXCEPT !.todo = q.todo \ {a}]
  <2>1. /\ q0 \in Question /\ q0.stack = q.stack /\ q0.read = q.read /\ q0.todo = q.todo \ {a}
        /\ q0.seen = q.seen /\ q0.out = q.out /\ q0.pc = q.pc
    BY DEF Question
  <2>2. q0 = [q EXCEPT !.todo = @ \ {a}]
    OBVIOUS
  <2> HIDE DEF q0
  <2>3. a \in q.read /\ a.role \in RoleName /\ a.scope \in Scope
    BY <1>2 DEF Walk, Question, Assignment
  <2>4. \A role, s : Traced(q, role, s) <=> Traced(q0, role, s)
    BY <2>1 DEF Traced
  <2>5. \A role : Reached(q, role, {}) => Reached(q0, role, {a.role})
    BY <2>1 DEF Reached
  <2>6. \A role : Recorded(q, role) <=> Recorded(q0, role)
    BY <2>1 DEF Recorded
  <2>7. \A b \in q0.read \ q0.todo : Reached(q0, b.role, {a.role})
    <3> TAKE b \in q0.read \ q0.todo
    <3>1. CASE b = a
      BY <3>1 DEF Reached
    <3>2. CASE b # a
      BY <1>2, <2>1, <2>5, <3>2 DEF Walk
    <3> QED
      BY <3>1, <3>2
  <2>8. Walk(q0, {a.role})
    BY <1>2, <2>1, <2>4, <2>5, <2>6, <2>7 DEF Walk
  <2>9. Traced(q0, a.role, a.scope)
    BY <2>1, <2>3, ClosureIsClosed DEF Traced
  <2>10. request' = [request EXCEPT ![d] = Visited(q0, a.role, a.scope)]
    BY <1>5, <2>2
  <2> QED
    BY <1>2, <1>3, <2>1, <2>3, <2>8, <2>9, <2>10
<1> QED
  BY <1>1, <1>4, <1>5 DEF GetRole

\* The walk is over, and the grants it found decide.
LEMMA DecideKeeps ==
    ASSUME AccessInv, NEW d \in Request, Decide(d)
    PROVE  AccessInv'
<1>1. PICK q \in Question : q = request[d]
  BY DEF AccessInv, TypeOK
<1> DEFINE pc == IF Decision(q.out, q.action, q.resource) THEN "handled" ELSE "refused"
           r == [q EXCEPT !.pc = pc]
<1>2. /\ q.pc = "expand" /\ q.stack = <<>> /\ q.todo = {} /\ Walk(q, {}) /\ q.read \subseteq held[d]
      /\ UNCHANGED <<engine, adminKey, rows, changes, held>>
  BY <1>1 DEF Decide, AccessInv, RequestInv, At
<1>3. /\ pc \in {"handled", "refused"} /\ pc \in Ended
      /\ pc = "handled" <=> Decision(q.out, q.action, q.resource)
  BY DEF Ended
<1>4. request' = [request EXCEPT ![d] = r]
  BY <1>1 DEF Decide, AccessInv, TypeOK
<1> HIDE DEF pc
<1>5. /\ r \in Question /\ r.pc = pc /\ r.read = q.read /\ r.todo = q.todo /\ r.out = q.out
      /\ r.stack = q.stack /\ r.seen = q.seen /\ r.action = q.action /\ r.resource = q.resource
  BY <1>3 DEF Question
<1> HIDE DEF r
<1>6. Walk(r, {})
  BY <1>2, <1>5 DEF Walk, Traced, Reached, Recorded
<1>7. held' \in [Request -> SUBSET Assignment] /\ request'[d] = r /\ held'[d] = held[d]
  BY <1>2, <1>4 DEF AccessInv, TypeOK
<1>8. RequestInv(d)'
  BY <1>2, <1>3, <1>5, <1>6, <1>7 DEF RequestInv
<1> QED
  BY <1>2, <1>4, <1>5, <1>7, <1>8, OneRequest

\* The policy service's answer, or none: no walk decides.
LEMMA RemoteKeeps ==
    ASSUME AccessInv, NEW d \in Request, CanRemote(d)
    PROVE  AccessInv'
<1>1. PICK q \in Question : q = request[d]
  BY DEF AccessInv, TypeOK
<1>2. /\ q.pc = "asked" /\ engine # "builtin"
      /\ UNCHANGED <<engine, adminKey, rows, changes, held>>
  BY <1>1 DEF CanRemote, AbortRemote, AnswerRemotely, AccessInv, RequestInv, At
<1>3. PICK pc \in {"handled", "refused"} : request' = [request EXCEPT ![d].pc = pc]
  BY DEF CanRemote, AbortRemote, AnswerRemotely
<1> DEFINE r == [q EXCEPT !.pc = pc]
<1>4. request' = [request EXCEPT ![d] = r]
  BY <1>1, <1>3 DEF AccessInv, TypeOK
<1>5. r \in Question /\ r.pc = pc
  BY DEF Question, Ended
<1> HIDE DEF r
<1>6. held' \in [Request -> SUBSET Assignment] /\ request'[d] = r
  BY <1>2, <1>4 DEF AccessInv, TypeOK
<1>7. RequestInv(d)'
  BY <1>2, <1>5, <1>6 DEF RequestInv, Decided
<1> QED
  BY <1>2, <1>4, <1>5, <1>6, <1>7, OneRequest

\* Every step of a request and of an administrator keeps it.
LEMMA AccessStep ==
    ASSUME AccessInv, [Next]_vars
    PROVE  AccessInv'
<1>1. CASE UNCHANGED vars
  BY <1>1 DEF vars, AccessInv, TypeOK, RequestInv, Decided, At, Assigned
<1>2. ASSUME NEW i \in Row, Unassign(i) \/ \E a \in Assignment : Assign(i, a)
      PROVE  AccessInv'
  BY <1>2, AssignmentsKeep
<1>3. ASSUME NEW d \in Request, NEW credential \in Credentials, NEW action \in Action \cup {None},
             NEW resource \in Resource, Arrive(d, credential, action, resource)
      PROVE  AccessInv'
  BY <1>3, ArriveKeeps
<1>4. ASSUME NEW d \in Request, CanBuiltin(d) \/ CanRemote(d)
      PROVE  AccessInv'
  BY <1>4, ReadKeeps, GetRoleKeeps, DecideKeeps, RemoteKeeps DEF CanBuiltin
<1> QED
  BY <1>1, <1>2, <1>3, <1>4 DEF Next

\* The guard keeps it for ever, beside the logins.
LEMMA AccessInvariant == IdentitySpec => []AccessInv
<1>1. MCInit => AccessInv
  BY AccessInit DEF MCInit
<1>2. AccessInv /\ [MCNext]_<<part, vars, signIn>> => AccessInv'
  <2>1. [MCNext]_<<part, vars, signIn>> => [Next]_vars
    BY DEF MCNext
  <2> QED
    BY <2>1, AccessStep
<1> QED
  BY <1>1, <1>2, PTL DEF IdentitySpec

\* No handler runs for a stored principal without an assignment, held at some time while the
\* request was decided, that allows it by way of a role and of what the role inherits
\* (PolicyEngine.can() and expand(), against assignments made and removed meanwhile).
THEOREM AllowIsGrantedAlways == IdentitySpec => []AllowIsGranted
<1>1. AccessInv => AllowIsGranted
  <2> SUFFICES ASSUME AccessInv, NEW d \in Request, Decided(d), At(d, "handled")
               PROVE  Has(held[d], "allow", request[d].action, request[d].resource)
    BY DEF AllowIsGranted
  <2>1. PICK q : q = request[d]
    OBVIOUS
  <2>2. /\ Walk(q, {}) /\ q.read \subseteq held[d] /\ Decision(q.out, q.action, q.resource)
    BY <2>1 DEF AccessInv, RequestInv, At
  <2>3. Has(q.read, "allow", q.action, q.resource)
    BY <2>2, DecisionIsSound
  <2> QED
    BY <2>1, <2>2, <2>3 DEF Has
<1> QED
  BY <1>1, AccessInvariant, PTL

\* The depth-first walk over roles that inherit from one another, in cycles too and in whatever
\* order the assignments come, decides as the documented precedence does, whenever no role is
\* reached in two scopes (expand() and collectRolePermissions() of engine.ts).
THEOREM SeparateRolesDecideAlways == IdentitySpec => []SeparateRolesDecide
<1>1. AccessInv => SeparateRolesDecide
  <2> SUFFICES ASSUME AccessInv, NEW d \in Request, Decided(d), Separate(request[d].read)
               PROVE  At(d, "handled") <=>
                        Permitted(request[d].read, request[d].action, request[d].resource)
    BY DEF SeparateRolesDecide
  <2>1. PICK q : q = request[d]
    OBVIOUS
  <2>2. /\ Walk(q, {}) /\ q.stack = <<>> /\ q.todo = {}
        /\ q.pc = "handled" <=> Decision(q.out, q.action, q.resource)
    BY <2>1 DEF AccessInv, RequestInv
  <2>3. Decision(q.out, q.action, q.resource) <=> Permitted(q.read, q.action, q.resource)
    BY <2>1, <2>2, DecisionIsPrecedence
  <2> QED
    BY <2>1, <2>2, <2>3 DEF At
<1> QED
  BY <1>1, AccessInvariant, PTL
-----------------------------------------------------------------------------
(* Signing in *)

\* A round trip that left with a state has it in Redis until it is consumed or expires; its code
\* is exchanged only when the state is gone.
Trips ==
    \A t \in Trip :
        /\ sTrip[t].pc \in {"authorize", "away", "back"} /\ sTrip[t].kind # "refusal" =>
             t \in sStates \cup sGone
        /\ sTrip[t].pc # "none" => sTrip[t].kind \in {"oidc", "consent", "refusal"}
        /\ t \in sRedeemed => sTrip[t].pc = "back" /\ t \notin sStates

\* A callback is of a round trip that has come back.
Callbacks ==
    \A d \in Handling :
        LET q == sRequest[d]
        IN  /\ q.pc = "idle" \/ q.kind = "local" => q.trip = None
            /\ q.kind = "local" =>
                 q.pc \in {"idle", "verify", "ensure", "open", "answered", "failed"}
            /\ q.pc # "idle" /\ q.kind # "local" =>
                 q.trip \in Trip /\ sTrip[q.trip].pc = "back" /\ sTrip[q.trip].kind = q.kind
            /\ q.pc = "verify" => q.kind = "local"
            /\ q.pc = "ensure" => q.kind \in {"oidc", "local"}
            /\ q.pc = "mismatch" => q.trip \in sGone \/ q.kind = "refusal"
            /\ q.pc \in {"take", "forget", "redeem"} => q.trip \notin sStates

\* One callback at a time of a round trip: no code is redeemed again.
Once ==
    Overlap = FALSE =>
        /\ sDead = {}
        /\ \A d, e \in Handling :
             /\ sRequest[d].trip = sRequest[e].trip /\ sRequest[d].trip # None
             /\ sRequest[d].pc \notin SignIn!Ended /\ sRequest[e].pc \notin SignIn!Ended
             => d = e
        /\ \A d \in Handling : sRequest[d].trip \in sRedeemed =>
             sRequest[d].pc \notin {"delete", "take", "forget", "redeem"}

\* The principal was created by a login that goes on to assign the role.
Seeded ==
    /\ "oidc" \in sPrincipals => sRole \/ sMissed \/ \E d \in Handling : sRequest[d].pc = "assign"
    /\ \A d \in Handling :
         /\ d \in sSessions => sRequest[d].pc \in {"capture", "answered", "failed"}
         /\ sRequest[d].kind = "oidc" /\ (sRequest[d].pc \in {"assign", "open", "capture"} \/ d \in sSessions)
              => "oidc" \in sPrincipals

SignInv == SignIn!TypeOK /\ Trips /\ Callbacks /\ Once /\ Seeded

\* A request goes on, and so does a round trip.
LEMMA GotoTypes ==
    ASSUME SignIn!TypeOK, NEW d \in Handling, NEW pc, SignIn!Goto(d, pc),
           pc \in {"idle", "discover", "get", "delete", "take", "forget", "redeem", "verify",
                   "ensure", "assign", "open", "capture", "persist", "answered", "mismatch",
                   "failed"}
    PROVE  /\ sRequest' \in [Handling -> SignIn!RequestState]
           /\ sRequest'[d].pc = pc /\ sRequest'[d].kind = sRequest[d].kind
           /\ sRequest'[d].trip = sRequest[d].trip
           /\ \A e \in Handling : e # d => sRequest'[e] = sRequest[e]
BY DEF SignIn!TypeOK, SignIn!Goto, SignIn!RequestState

\* The same of a round trip.
LEMMA GoTypes ==
    ASSUME SignIn!TypeOK, NEW t \in Trip, NEW pc, SignIn!Go(t, pc),
           pc \in {"none", "discover", "save", "authorize", "away", "back"}
    PROVE  /\ sTrip' \in [Trip -> SignIn!TripState]
           /\ sTrip'[t].pc = pc /\ sTrip'[t].kind = sTrip[t].kind
           /\ \A u \in Trip : u # t => sTrip'[u] = sTrip[u]
BY DEF SignIn!TypeOK, SignIn!Go, SignIn!TripState

\* The types of what a request and a round trip carry.
LEMMA SignInFields ==
    ASSUME SignIn!TypeOK
    PROVE  /\ \A d \in Handling : /\ sRequest[d].version \in SignIn!Version
                                  /\ sRequest[d].kind \in SignIn!AllKinds \cup {None}
                                  /\ sRequest[d].trip \in Trip \cup {None}
           /\ \A t \in Trip : /\ sTrip[t].version \in SignIn!Version
                              /\ sTrip[t].kind \in SignIn!AllKinds \cup {None}
BY DEF SignIn!TypeOK, SignIn!TripState, SignIn!RequestState

\* One step of a callback, of what it leaves to the other requests.
LEMMA RequestGoes ==
    ASSUME SignInv, SignIn!TypeOK', NEW d \in Handling, NEW pc, SignIn!Goto(d, pc),
           pc \in {"get", "delete", "take", "forget", "redeem", "ensure", "assign", "open",
                   "capture", "persist", "answered", "mismatch", "failed"},
           sRequest[d].pc \notin SignIn!Ended \cup {"idle"},
           sRequest[d].kind = "local" => pc \in {"ensure", "open", "answered", "failed"},
           UNCHANGED sTrip,
           sStates' \subseteq sStates, sStates \subseteq sStates' \cup sGone', sGone \subseteq sGone',
           pc = "ensure" => sRequest[d].kind \in {"oidc", "local"},
           pc = "mismatch" => sRequest[d].trip \in sGone' \/ sRequest[d].kind = "refusal",
           pc \in {"take", "forget", "redeem"} => sRequest[d].trip \notin sStates',
           sRedeemed' = sRedeemed \/
             /\ sRedeemed' = sRedeemed \cup {sRequest[d].trip} /\ sRequest[d].kind # "local"
             /\ sRequest[d].trip \notin sStates',
           Overlap = FALSE => /\ sDead' = {}
                              /\ pc \in {"delete", "take", "forget", "redeem"} =>
                                   sRequest[d].trip \notin sRedeemed',
           sPrincipals \subseteq sPrincipals',
           "oidc" \in sPrincipals' \ sPrincipals => pc = "assign",
           sRole => sRole', sMissed => sMissed',
           sRequest[d].pc = "assign" => sRole' \/ sMissed',
           sSessions' \subseteq sSessions \cup {d},
           d \in sSessions' => pc \in {"capture", "answered", "failed"},
           sRequest[d].kind = "oidc" /\ (pc \in {"assign", "open", "capture"} \/ d \in sSessions')
             => "oidc" \in sPrincipals'
    PROVE  SignInv'
<1>1. SignIn!TypeOK /\ Trips /\ Callbacks /\ Once /\ Seeded
  BY DEF SignInv
<1>2. /\ sRequest'[d].pc = pc /\ sRequest'[d].kind = sRequest[d].kind
      /\ sRequest'[d].trip = sRequest[d].trip
      /\ \A e \in Handling : e # d => sRequest'[e] = sRequest[e]
  BY <1>1, GotoTypes
<1>3. sRequest[d].kind # "local" => sRequest[d].trip \in Trip /\ sTrip[sRequest[d].trip].pc = "back"
  BY <1>1 DEF Callbacks
<1>4. Trips'
  BY <1>1, <1>3 DEF Trips
<1>5. Callbacks'
  BY <1>1, <1>2, <1>3 DEF Callbacks
<1>6. Once'
  <2> SUFFICES ASSUME Overlap = FALSE
               PROVE  Once'
    BY DEF Once
  <2>1. ASSUME NEW e \in Handling, sRequest[d].trip = sRequest[e].trip, sRequest[e].trip # None,
               sRequest[e].pc \notin SignIn!Ended
        PROVE  e = d
    BY <1>1, <2>1 DEF Once
  <2>2. \A e, f \in Handling :
             /\ sRequest'[e].trip = sRequest'[f].trip /\ sRequest'[e].trip # None
             /\ sRequest'[e].pc \notin SignIn!Ended /\ sRequest'[f].pc \notin SignIn!Ended
             => e = f
    BY <1>1, <1>2, <2>1 DEF Once
  <2>3. ASSUME NEW e \in Handling, sRequest'[e].trip \in sRedeemed'
        PROVE  sRequest'[e].pc \notin {"delete", "take", "forget", "redeem"}
    <3>1. CASE e = d
      BY <1>2, <2>3, <3>1
    <3>2. CASE e # d /\ sRequest[e].trip \in sRedeemed
      BY <1>1, <1>2, <3>2 DEF Once
    <3>3. CASE e # d /\ sRequest[e].trip = sRequest[d].trip /\ sRequest[d].kind # "local"
      <4>1. sRequest[e].trip # None
        BY <1>3, <3>3, IdentityAssumption DEF SignIn!SignInAssumption
      <4> QED
        BY <1>2, <2>1, <3>3, <4>1 DEF SignIn!Ended
    <3> QED
      BY <1>2, <2>3, <3>1, <3>2, <3>3
  <2> QED
    BY <2>2, <2>3 DEF Once, SignIn!Ended
<1>7. Seeded'
  BY <1>1, <1>2 DEF Seeded
<1> QED
  BY <1>4, <1>5, <1>6, <1>7 DEF SignInv

\* One step of a round trip that is not back.
LEMMA TripGoes ==
    ASSUME SignInv, SignIn!TypeOK', NEW t \in Trip, sTrip[t].pc # "back",
           \A u \in Trip : u # t => sTrip'[u] = sTrip[u],
           sStates' = sStates \/ sStates' = sStates \cup {t},
           sTrip'[t].pc \in {"authorize", "away", "back"} /\ sTrip'[t].kind # "refusal" =>
             t \in sStates' \cup sGone,
           sTrip'[t].kind \in {"oidc", "consent", "refusal"},
           UNCHANGED <<sGone, sRedeemed, sDead, sRequest, sPrincipals, sRole, sMissed, sSessions>>
    PROVE  SignInv'
<1>1. SignIn!TypeOK /\ Trips /\ Callbacks /\ Once /\ Seeded
  BY DEF SignInv
<1>2. \A d \in Handling : sRequest[d].trip \in Trip \cup {None} /\ sRequest[d].trip # t
  BY <1>1, SignInFields, IdentityAssumption DEF Callbacks, SignIn!SignInAssumption
<1>3. Trips'
  BY <1>1 DEF Trips
<1>4. Callbacks'
  BY <1>1, <1>2 DEF Callbacks
<1>5. Once' /\ Seeded'
  BY <1>1 DEF Once, Seeded
<1> QED
  BY <1>3, <1>4, <1>5 DEF SignInv

\* Every step of a login and of a consent keeps the types.
LEMMA SignInTypes ==
    ASSUME SignIn!TypeOK, Callbacks, [SignIn!Next]_(SignIn!vars)
    PROVE  SignIn!TypeOK'
<1> USE DEF SignIn!admin, SignIn!stores, SignIn!idp, SignIn!user, SignIn!kept
<1>1. MaxVersion \in Nat /\ 0 \in SignIn!Version /\ 1 \in 0..1
  BY IdentityAssumption DEF SignIn!SignInAssumption, SignIn!Version
<1>2. CASE SignIn!Administer \/ SignIn!ExpireClient
  BY <1>1, <1>2 DEF SignIn!Administer, SignIn!Configure, SignIn!CreateAccount,
                   SignIn!DeleteAccount, SignIn!ExpireClient, SignIn!TypeOK
<1>3. ASSUME NEW t \in Trip, SignIn!ExpireState(t) \/ SignIn!ExpireVerifier(t)
      PROVE  SignIn!TypeOK'
  BY <1>3 DEF SignIn!ExpireState, SignIn!ExpireVerifier, SignIn!TypeOK
<1>4. ASSUME NEW t \in Trip, SignIn!Leave(t)
      PROVE  SignIn!TypeOK'
  <2>1. /\ sClient \in SignIn!Version /\ sProvider \in SignIn!Version
        /\ sTrip[t].version \in SignIn!Version
    BY SignInFields DEF SignIn!TypeOK
  <2>2. sTrip' \in [Trip -> SignIn!TripState]
    <3>1. CASE SignIn!Login(t)
      <4>1. \A v \in SignIn!Version, pc \in {"save", "discover"} :
              [pc |-> pc, kind |-> "oidc", version |-> v] \in SignIn!TripState
        BY DEF SignIn!TripState, SignIn!AllKinds
      <4> QED
        BY <2>1, <3>1, <4>1 DEF SignIn!Login, SignIn!TypeOK
    <3>2. ASSUME NEW kind \in {"consent", "refusal"}, NEW pc \in {"authorize", "away"},
                 sTrip' = [sTrip EXCEPT ![t] = [SignIn!NoTrip EXCEPT !.pc = pc, !.kind = kind]]
          PROVE  sTrip' \in [Trip -> SignIn!TripState]
      <4>1. [SignIn!NoTrip EXCEPT !.pc = pc, !.kind = kind] \in SignIn!TripState
        BY <1>1 DEF SignIn!NoTrip, SignIn!TripState, SignIn!AllKinds
      <4> QED
        BY <3>2, <4>1 DEF SignIn!TypeOK
    <3>3. ASSUME NEW pc \in {"save", "away", "back"}, SignIn!Go(t, pc)
          PROVE  sTrip' \in [Trip -> SignIn!TripState]
      BY <3>3, GoTypes
    <3>4. CASE SignIn!SaveState(t)
      BY <3>2, <3>3, <3>4 DEF SignIn!SaveState
    <3>5. CASE SignIn!Refuse(t)
      BY <3>2, <3>5 DEF SignIn!Refuse
    <3> QED
      BY <1>4, <3>1, <3>3, <3>4, <3>5 DEF SignIn!Leave, SignIn!LoginDiscover, SignIn!Authorize,
                                         SignIn!Agree
  <2> QED
    BY <1>4, <2>1, <2>2 DEF SignIn!Leave, SignIn!Login, SignIn!LoginDiscover, SignIn!SaveState,
                           SignIn!Authorize, SignIn!Refuse, SignIn!Agree, SignIn!TypeOK
<1>5. ASSUME NEW d \in Handling, SignIn!Logout(d) \/ SignIn!ExpireSession(d)
      PROVE  SignIn!TypeOK'
  BY <1>5 DEF SignIn!Logout, SignIn!ExpireSession, SignIn!TypeOK
<1>6. ASSUME NEW d \in Handling, NEW t \in Trip, SignIn!Deliver(d, t)
      PROVE  SignIn!TypeOK'
  <2>1. /\ sClient \in SignIn!Version /\ sProvider \in SignIn!Version
        /\ sTrip[t].kind \in SignIn!AllKinds \cup {None}
    BY SignInFields DEF SignIn!TypeOK
  <2>2. \A pc \in {"get", "discover"}, v \in SignIn!Version, k \in SignIn!AllKinds \cup {None} :
          [pc |-> pc, kind |-> k, trip |-> t, version |-> v] \in SignIn!RequestState
    BY DEF SignIn!RequestState
  <2>3. "oidc" \in SignIn!AllKinds
    BY DEF SignIn!AllKinds
  <2>4. sRequest' \in [Handling -> SignIn!RequestState]
    BY <1>1, <1>6, <2>1, <2>2, <2>3 DEF SignIn!Deliver, SignIn!TypeOK
  <2> QED
    BY <1>6, <2>4 DEF SignIn!Deliver, SignIn!TypeOK
<1>7. ASSUME NEW d \in Handling, SignIn!ReadAccount(d)
      PROVE  SignIn!TypeOK'
  <2>1. [SignIn!NoRequest EXCEPT !.pc = "verify", !.kind = "local"] \in SignIn!RequestState
    BY <1>1 DEF SignIn!NoRequest, SignIn!RequestState, SignIn!AllKinds
  <2> QED
    BY <1>7, <2>1 DEF SignIn!ReadAccount, SignIn!TypeOK
<1>8. ASSUME NEW d \in Handling, SignIn!Handle(d)
      PROVE  SignIn!TypeOK'
  <2>1. /\ sRequest[d].version \in SignIn!Version /\ sRequest[d].trip \in Trip \cup {None}
        /\ sRequest[d].kind \in SignIn!AllKinds \cup {None}
    BY SignInFields
  <2>2. PICK pc \in {"get", "delete", "mismatch", "take", "redeem", "failed", "forget", "ensure",
                     "persist", "answered", "assign", "open", "capture"} : SignIn!Goto(d, pc)
    BY <1>8 DEF SignIn!Handle, SignIn!Callback, SignIn!ConsentCallback, SignIn!VerifyPassword,
               SignIn!Fail, SignIn!Discover, SignIn!GetState, SignIn!DeleteState, SignIn!Redeem,
               SignIn!RedeemFails, SignIn!EnsurePrincipal, SignIn!AssignRole, SignIn!OpenSession,
               SignIn!CaptureToken, SignIn!TakeVerifier, SignIn!ForgetVerifier, SignIn!Persist
  <2>3. sRequest' \in [Handling -> SignIn!RequestState]
    BY <2>2, GotoTypes
  <2>4. /\ sRequest[d].pc \in {"delete", "redeem", "persist", "capture"} /\ sRequest[d].kind # "local"
             => sRequest[d].trip \in Trip
        /\ sRequest[d].kind = "local" => sRequest[d].pc \notin {"delete", "redeem"}
        /\ sRequest[d].pc = "ensure" => sRequest[d].kind \in {"oidc", "local"}
    BY DEF Callbacks
  <2>5. CASE SignIn!Discover(d) \/ SignIn!GetState(d) \/ SignIn!TakeVerifier(d)
             \/ SignIn!ForgetVerifier(d) \/ SignIn!VerifyPassword(d)
    BY <2>1, <2>3, <2>5 DEF SignIn!Discover, SignIn!GetState, SignIn!TakeVerifier,
      SignIn!ForgetVerifier, SignIn!VerifyPassword, SignIn!TypeOK
  <2>6. CASE SignIn!DeleteState(d) \/ SignIn!Redeem(d) \/ SignIn!RedeemFails(d)
    BY <2>1, <2>3, <2>4, <2>6 DEF SignIn!DeleteState, SignIn!Redeem, SignIn!RedeemFails,
      SignIn!At, SignIn!Of, SignIn!TypeOK
  <2>7. CASE SignIn!EnsurePrincipal(d) \/ SignIn!OpenSession(d)
    BY <2>3, <2>4, <2>7 DEF SignIn!EnsurePrincipal, SignIn!OpenSession, SignIn!At, SignIn!TypeOK
  <2>8. CASE SignIn!CaptureToken(d) \/ SignIn!Persist(d)
    BY <2>1, <2>3, <2>8 DEF SignIn!CaptureToken, SignIn!Persist, SignIn!Of, SignIn!TypeOK
  <2>9. CASE SignIn!AssignRole(d) \/ SignIn!Fail(d)
    BY <2>3, <2>9 DEF SignIn!AssignRole, SignIn!Fail, SignIn!TypeOK
  <2> QED
    BY <1>8, <2>5, <2>6, <2>7, <2>8, <2>9
       DEF SignIn!Handle, SignIn!Callback, SignIn!ConsentCallback
<1>9. CASE UNCHANGED SignIn!vars
  BY <1>9 DEF SignIn!vars, SignIn!TypeOK
<1> QED
  BY <1>2, <1>3, <1>4, <1>5, <1>6, <1>7, <1>8, <1>9 DEF SignIn!Next

\* It holds before the first login.
LEMMA SignInInit == SignIn!Init => SignInv
<1> SUFFICES ASSUME SignIn!Init
             PROVE  SignInv
  OBVIOUS
<1>1. /\ SignIn!NoTrip \in SignIn!TripState /\ SignIn!NoRequest \in SignIn!RequestState
      /\ 0 \in SignIn!Version /\ 1 \in SignIn!Version /\ SignIn!NoTrip.pc = "none"
      /\ SignIn!NoRequest.pc = "idle" /\ SignIn!NoRequest.trip = None
      /\ SignIn!NoRequest.kind = None
  BY IdentityAssumption DEF SignIn!NoTrip, SignIn!TripState, SignIn!NoRequest,
     SignIn!RequestState, SignIn!Version, SignIn!SignInAssumption
<1>2. \A d \in Handling : /\ sRequest[d].pc = "idle" /\ sRequest[d].trip = None
                          /\ sRequest[d].kind = None
  BY <1>1 DEF SignIn!Init
<1>3. \A t \in Trip : sTrip[t].pc = "none"
  BY <1>1 DEF SignIn!Init
<1>4. SignIn!TypeOK
  BY <1>1 DEF SignIn!Init, SignIn!TypeOK
<1>5. Trips /\ Callbacks /\ Once /\ Seeded
  BY <1>2, <1>3 DEF SignIn!Init, Trips, Callbacks, Once, Seeded
<1> QED
  BY <1>4, <1>5 DEF SignInv

\* A redirect is delivered, or a local account's password is: a request begins.
LEMMA RequestBegins ==
    ASSUME SignInv, SignIn!TypeOK', NEW d \in Handling, NEW r,
           sRequest' = [sRequest EXCEPT ![d] = r], sRequest[d].pc = "idle",
           \/ r.pc = "verify" /\ r.kind = "local" /\ r.trip = None
           \/ /\ r.pc \in {"get", "discover"} /\ r.trip \in Trip
              /\ sTrip[r.trip].pc = "back" /\ r.kind = sTrip[r.trip].kind
              /\ Overlap \/ SignIn!Running(r.trip) = {},
           UNCHANGED <<sTrip, sStates, sGone, sRedeemed, sDead, sPrincipals, sRole, sMissed,
                       sSessions>>
    PROVE  SignInv'
<1>1. SignIn!TypeOK /\ Trips /\ Callbacks /\ Once /\ Seeded
  BY DEF SignInv
<1>2. /\ sRequest'[d] = r /\ r.pc \in {"verify", "get", "discover"}
      /\ \A e \in Handling : e # d => sRequest'[e] = sRequest[e]
  BY <1>1 DEF SignIn!TypeOK
<1>3. Trips'
  BY <1>1 DEF Trips
<1>4. Callbacks'
  BY <1>1, <1>2 DEF Callbacks, Trips
<1>5. Once'
  <2> SUFFICES ASSUME Overlap = FALSE
               PROVE  Once'
    BY DEF Once
  <2>1. ASSUME NEW e \in Handling, e # d, sRequest[e].trip = r.trip, r.trip # None
        PROVE  sRequest[e].pc \in SignIn!Ended
    BY <1>1, <2>1 DEF SignIn!Running, SignIn!Of
  <2>2. \A e, f \in Handling :
             /\ sRequest'[e].trip = sRequest'[f].trip /\ sRequest'[e].trip # None
             /\ sRequest'[e].pc \notin SignIn!Ended /\ sRequest'[f].pc \notin SignIn!Ended
             => e = f
    BY <1>1, <1>2, <2>1 DEF Once
  <2>3. \A e \in Handling : sRequest'[e].trip \in sRedeemed' =>
             sRequest'[e].pc \notin {"delete", "take", "forget", "redeem"}
    BY <1>1, <1>2 DEF Once
  <2> QED
    BY <1>1, <2>2, <2>3 DEF Once, SignIn!Ended
<1>6. Seeded'
  BY <1>1, <1>2 DEF Seeded
<1> QED
  BY <1>3, <1>4, <1>5, <1>6 DEF SignInv

\* Every step of a round trip, a callback, an administrator and a clock keeps it.
LEMMA SignInStep ==
    ASSUME SignInv, [SignIn!Next]_(SignIn!vars)
    PROVE  SignInv'
<1> USE DEF SignIn!admin, SignIn!stores, SignIn!idp, SignIn!user, SignIn!kept
<1>0. /\ SignIn!TypeOK /\ Trips /\ Callbacks /\ Once /\ Seeded /\ SignIn!TypeOK'
  BY SignInTypes DEF SignInv
<1>1. CASE UNCHANGED <<sTrip, sStates, sGone, sRedeemed, sDead, sRequest, sPrincipals, sRole,
                       sMissed>> /\ sSessions' \subseteq sSessions
  BY <1>0, <1>1 DEF SignInv, Trips, Callbacks, Once, Seeded
<1>2. CASE SignIn!Administer \/ SignIn!ExpireClient \/ UNCHANGED SignIn!vars
  BY <1>1, <1>2 DEF SignIn!Administer, SignIn!Configure, SignIn!CreateAccount,
                   SignIn!DeleteAccount, SignIn!ExpireClient, SignIn!vars
<1>3. ASSUME NEW t \in Trip, SignIn!ExpireVerifier(t)
      PROVE  SignInv'
  BY <1>1, <1>3 DEF SignIn!ExpireVerifier
<1>4. ASSUME NEW d \in Handling, SignIn!Logout(d) \/ SignIn!ExpireSession(d)
      PROVE  SignInv'
  BY <1>1, <1>4 DEF SignIn!Logout, SignIn!ExpireSession
<1>5. ASSUME NEW t \in Trip, SignIn!ExpireState(t)
      PROVE  SignInv'
  BY <1>0, <1>5 DEF SignIn!ExpireState, SignInv, Trips, Callbacks, Once, Seeded
\* The round trips.
<1>6. ASSUME NEW t \in Trip, SignIn!Leave(t)
      PROVE  SignInv'
  <2>1. ASSUME NEW kind \in {"consent", "refusal"}, NEW pc \in {"authorize", "away"},
               sTrip' = [sTrip EXCEPT ![t] = [SignIn!NoTrip EXCEPT !.pc = pc, !.kind = kind]]
        PROVE  /\ sTrip'[t].pc = pc /\ sTrip'[t].kind = kind
               /\ \A u \in Trip : u # t => sTrip'[u] = sTrip[u]
    BY <1>0, <2>1 DEF SignIn!TypeOK, SignIn!NoTrip
  <2>2. CASE SignIn!Login(t)
    <3>1. /\ sTrip'[t].pc \in {"save", "discover"} /\ sTrip'[t].kind = "oidc"
          /\ \A u \in Trip : u # t => sTrip'[u] = sTrip[u]
      BY <1>0, <2>2 DEF SignIn!Login, SignIn!TypeOK
    <3> QED
      BY <1>0, <2>2, <3>1, TripGoes DEF SignIn!Login
  <2>3. CASE SignIn!LoginDiscover(t)
    BY <1>0, <2>3, GoTypes, TripGoes DEF SignIn!LoginDiscover, Trips
  <2>4. CASE SignIn!SaveState(t)
    <3>1. CASE sTrip[t].pc = "save" /\ SignIn!Go(t, "away")
      BY <1>0, <2>4, <3>1, GoTypes, TripGoes DEF SignIn!SaveState, Trips
    <3>2. CASE sTrip[t].pc = "none" /\
               sTrip' = [sTrip EXCEPT ![t] = [SignIn!NoTrip EXCEPT !.pc = "authorize", !.kind = "consent"]]
      BY <1>0, <2>1, <2>4, <3>2, TripGoes DEF SignIn!SaveState
    <3> QED
      BY <2>4, <3>1, <3>2 DEF SignIn!SaveState
  <2>5. CASE SignIn!Authorize(t)
    BY <1>0, <2>5, GoTypes, TripGoes DEF SignIn!Authorize, Trips
  <2>6. CASE SignIn!Refuse(t)
    BY <1>0, <2>1, <2>6, TripGoes DEF SignIn!Refuse
  <2>7. CASE SignIn!Agree(t)
    BY <1>0, <2>7, GoTypes, TripGoes DEF SignIn!Agree, Trips
  <2> QED
    BY <1>6, <2>2, <2>3, <2>4, <2>5, <2>6, <2>7 DEF SignIn!Leave
\* The requests.
<1>7. ASSUME NEW d \in Handling, NEW t \in Trip, SignIn!Deliver(d, t)
      PROVE  SignInv'
  <2>1. PICK r : /\ sRequest' = [sRequest EXCEPT ![d] = r] /\ r.pc \in {"get", "discover"}
                 /\ r.trip = t /\ r.kind = sTrip[t].kind
    <3>1. CASE sTrip[t].kind # "oidc"
      BY <1>7, <3>1 DEF SignIn!Deliver
    <3>2. CASE sTrip[t].kind = "oidc"
      <4> DEFINE r == [pc |-> IF sClient # 0 THEN "get" ELSE "discover", kind |-> "oidc",
                       trip |-> t, version |-> IF sClient # 0 THEN sClient ELSE sProvider]
      <4>1. sRequest' = [sRequest EXCEPT ![d] = r]
        BY <1>7, <3>2 DEF SignIn!Deliver
      <4>2. r.pc \in {"get", "discover"} /\ r.trip = t /\ r.kind = sTrip[t].kind
        BY <3>2
      <4> QED
        BY <4>1, <4>2
    <3> QED
      BY <3>1, <3>2
  <2>2. /\ sRequest[d].pc = "idle" /\ sTrip[t].pc = "back"
        /\ Overlap \/ SignIn!Running(t) = {}
        /\ UNCHANGED <<sTrip, sStates, sGone, sRedeemed, sDead, sPrincipals, sRole, sMissed, sSessions>>
    BY <1>7 DEF SignIn!Deliver, SignIn!At
  <2> QED
    BY <1>0, <2>1, <2>2, RequestBegins
<1>8. ASSUME NEW d \in Handling, SignIn!ReadAccount(d)
      PROVE  SignInv'
  <2> DEFINE r == [SignIn!NoRequest EXCEPT !.pc = "verify", !.kind = "local"]
  <2>1. /\ sRequest' = [sRequest EXCEPT ![d] = r]
        /\ r.pc = "verify" /\ r.trip = None /\ r.kind = "local"
    BY <1>8 DEF SignIn!ReadAccount, SignIn!NoRequest
  <2> HIDE DEF r
  <2> QED
    BY <1>0, <1>8, <2>1, RequestBegins DEF SignIn!ReadAccount, SignIn!At
\* What a handler does that tells no other request anything: the pc moves, and what is of no
\* concern here.
<1>9. ASSUME NEW d \in Handling, SignIn!Handle(d)
      PROVE  SignInv'
  <2>0. /\ sRequest[d].kind = "local" =>
             sRequest[d].pc \in {"idle", "verify", "ensure", "open", "answered", "failed"}
        /\ sRequest[d].kind # "local" /\ sRequest[d].pc # "idle" => sRequest[d].trip \in Trip
        /\ sRequest[d].kind # "local" /\ sRequest[d].pc # "idle" =>
             sRequest[d].kind \in {"oidc", "consent", "refusal"}
        /\ None \notin Trip
    BY <1>0, IdentityAssumption DEF Callbacks, Trips, SignIn!SignInAssumption
  <2>1. CASE SignIn!Discover(d)
    BY <1>0, <2>0, <2>1, RequestGoes DEF SignIn!Discover, SignIn!At, SignIn!Ended, Once, Seeded
  <2>2. CASE SignIn!GetState(d)
    <3>1. /\ sRequest[d].pc = "get" /\ d \notin sSessions
          /\ UNCHANGED <<sTrip, sStates, sGone, sRedeemed, sDead, sPrincipals, sRole, sMissed,
                         sSessions>>
      BY <1>0, <2>2 DEF SignIn!GetState, SignIn!At, Seeded
    <3>2. CASE sRequest[d].trip \in sStates
      <4>1. SignIn!Goto(d, "delete") /\ sRequest[d].trip \notin sRedeemed
        BY <1>0, <2>2, <3>2 DEF SignIn!GetState, SignIn!Of, SignIn!TypeOK, Trips
      <4> QED
        BY <1>0, <2>0, <3>1, <4>1, RequestGoes DEF SignIn!Ended, Once
    <3>3. CASE sRequest[d].trip \notin sStates
      <4>1. SignIn!Goto(d, "mismatch")
        BY <2>2, <3>3 DEF SignIn!GetState, SignIn!Of
      <4>2. sRequest[d].trip \in sGone \/ sRequest[d].kind = "refusal"
        BY <1>0, <2>0, <3>1, <3>3 DEF Trips, Callbacks
      <4> QED
        BY <1>0, <2>0, <3>1, <4>1, <4>2, RequestGoes DEF SignIn!Ended, Once
    <3> QED
      BY <3>2, <3>3
  <2>3. CASE SignIn!DeleteState(d)
    BY <1>0, <2>0, <2>3, RequestGoes DEF SignIn!DeleteState, SignIn!At, SignIn!Of, SignIn!Oidc,
      SignIn!Ended, Once, Seeded
  <2>4. CASE SignIn!TakeVerifier(d)
    BY <1>0, <2>0, <2>4, RequestGoes DEF SignIn!TakeVerifier, SignIn!At, SignIn!Of, SignIn!Ended,
      Once, Callbacks, Seeded
  <2>5. CASE SignIn!ForgetVerifier(d)
    BY <1>0, <2>0, <2>5, RequestGoes DEF SignIn!ForgetVerifier, SignIn!At, SignIn!Of, SignIn!Ended,
      Once, Callbacks, Seeded
  <2>6. CASE SignIn!Redeem(d)
    <3>1. /\ sRequest[d].pc = "redeem" /\ d \notin sSessions
          /\ sRequest[d].trip \notin sStates
          /\ Overlap = FALSE => sRequest[d].trip \notin sRedeemed /\ sDead = {}
          /\ UNCHANGED <<sTrip, sStates, sGone, sPrincipals, sRole, sMissed, sSessions>>
      BY <1>0, <2>6 DEF SignIn!Redeem, SignIn!At, Seeded, Callbacks, Once
    <3>2. CASE SignIn!Goto(d, "failed") /\ UNCHANGED sRedeemed
               /\ (sRequest[d].trip \in sRedeemed \/ UNCHANGED sDead)
      BY <1>0, <2>0, <3>1, <3>2, RequestGoes DEF SignIn!Ended
    <3>3. CASE /\ sRedeemed' = sRedeemed \cup {sRequest[d].trip} /\ UNCHANGED sDead
               /\ SignIn!Goto(d, IF SignIn!Oidc(d) THEN "ensure" ELSE "persist")
      <4>1. PICK pc \in {"ensure", "persist"} :
                SignIn!Goto(d, pc) /\ (pc = "ensure" => sRequest[d].kind = "oidc")
        BY <3>3 DEF SignIn!Oidc
      <4> QED
        BY <1>0, <2>0, <3>1, <3>3, <4>1, RequestGoes DEF SignIn!Ended
    <3> QED
      BY <2>6, <3>2, <3>3 DEF SignIn!Redeem, SignIn!Of, SignIn!idp
  <2>7. CASE SignIn!RedeemFails(d)
    BY <1>0, <2>0, <2>7, RequestGoes DEF SignIn!RedeemFails, SignIn!At, SignIn!Of, SignIn!Ended,
      Once, Callbacks, Seeded
  <2>8. CASE SignIn!EnsurePrincipal(d)
    BY <1>0, <2>0, <2>8, RequestGoes DEF SignIn!EnsurePrincipal, SignIn!At, SignIn!Oidc,
      SignIn!Ended, Once, Callbacks, Seeded
  <2>9. CASE SignIn!AssignRole(d)
    <3>1. /\ sRequest[d].pc = "assign" /\ d \notin sSessions /\ sRequest[d].kind # "local"
          /\ sRequest[d].kind = "oidc" => "oidc" \in sPrincipals
          /\ SignIn!Goto(d, "open")
          /\ UNCHANGED <<sTrip, sStates, sGone, sRedeemed, sDead, sPrincipals, sSessions>>
      BY <1>0, <2>0, <2>9 DEF SignIn!AssignRole, SignIn!At, Seeded
    <3>2. /\ sRole => sRole'
          /\ sMissed => sMissed'
          /\ sRole' \/ sMissed'
      BY <2>9 DEF SignIn!AssignRole
    <3> QED
      BY <1>0, <3>1, <3>2, RequestGoes DEF SignIn!Ended, Once
  <2>10. CASE SignIn!OpenSession(d)
    BY <1>0, <2>0, <2>10, RequestGoes DEF SignIn!OpenSession, SignIn!At, SignIn!Oidc, SignIn!Ended,
      Once, Seeded
  <2>11. CASE SignIn!CaptureToken(d)
    BY <1>0, <2>0, <2>11, RequestGoes DEF SignIn!CaptureToken, SignIn!At, SignIn!Ended, Once, Seeded
  <2>12. CASE SignIn!Persist(d)
    BY <1>0, <2>0, <2>12, RequestGoes DEF SignIn!Persist, SignIn!At, SignIn!Ended, Once, Seeded
  <2>13. CASE SignIn!VerifyPassword(d)
    <3>1. PICK pc \in {"ensure", "failed"} : SignIn!Goto(d, pc)
      BY <2>13 DEF SignIn!VerifyPassword
    <3>2. /\ sRequest[d].pc = "verify" /\ sRequest[d].kind = "local" /\ d \notin sSessions
          /\ sRequest[d].kind # "oidc"
      BY <1>0, <2>13 DEF SignIn!VerifyPassword, SignIn!At, Callbacks, Seeded
    <3> QED
      BY <1>0, <2>13, <3>1, <3>2, RequestGoes DEF SignIn!VerifyPassword, SignIn!Ended, Once
  <2>14. CASE SignIn!Fail(d)
    BY <1>0, <2>0, <2>14, RequestGoes DEF SignIn!Fail, SignIn!At, SignIn!Ended, Once, Seeded
  <2> QED
    BY <1>9, <2>1, <2>2, <2>3, <2>4, <2>5, <2>6, <2>7, <2>8, <2>9, <2>10, <2>11, <2>12, <2>13,
       <2>14 DEF SignIn!Handle, SignIn!Callback, SignIn!ConsentCallback
<1> QED
  BY <1>2, <1>3, <1>4, <1>5, <1>6, <1>7, <1>8, <1>9 DEF SignIn!Next

\* The logins keep it for ever, beside the guard.
LEMMA SignInInvariant == IdentitySpec => []SignInv
<1>1. MCInit => SignInv
  BY SignInInit DEF MCInit
<1>2. SignInv /\ [MCNext]_<<part, vars, signIn>> => SignInv'
  <2> SUFFICES ASSUME SignInv, [MCNext]_<<part, vars, signIn>>
               PROVE  SignInv'
    OBVIOUS
  <2>1. [SignIn!Next]_(SignIn!vars)
    BY DEF MCNext, signIn, SignIn!vars
  <2> QED
    BY <2>1, SignInStep
<1> QED
  BY <1>1, <1>2, PTL DEF IdentitySpec

\* For every number of round trips and of requests at once, and every failure the code can
\* meet: a user who came back from a login or a consent begun by login() of either controller
\* is told "state mismatch or expired" only if consumeState() has handed the state out before
\* or Redis has let it expire.
THEOREM BegunHereIsRecognisedAlways == IdentitySpec => []BegunHereIsRecognised
<1>1. SignInv => BegunHereIsRecognised
  BY DEF SignInv, Callbacks, BegunHereIsRecognised, SignIn!BegunHereIsRecognised, SignIn!At,
    SignIn!Of
<1> QED
  BY <1>1, SignInInvariant, PTL

\* When no two callbacks of one round trip overlap, consumeState() lets no code reach
\* client.callback() or postToken() twice, whatever fails or crashes in between: the provider
\* has no reason to revoke the tokens the first callback stored.
THEOREM ReloadIsHarmlessAlways ==
    ASSUME Overlap = FALSE
    PROVE  IdentitySpec => []ReloadIsHarmless
<1>1. SignInv => ReloadIsHarmless
  BY DEF SignInv, Once, ReloadIsHarmless, SignIn!ReloadIsHarmless
<1> QED
  BY <1>1, SignInInvariant, PTL

\* However many first logins of the OIDC user race through ensurePrincipal(), whoever has a
\* session of its provider has the default role, or the assignment is under way or has failed.
THEOREM RoleIsSeededAlways == IdentitySpec => []RoleIsSeeded
<1>1. SignInv => RoleIsSeeded
  BY DEF SignInv, Seeded, SignIn!TypeOK, RoleIsSeeded, SignIn!RoleIsSeeded, SignIn!Oidc, SignIn!At
<1> QED
  BY <1>1, SignInInvariant, PTL
=============================================================================
