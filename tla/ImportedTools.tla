---------------------------- MODULE ImportedTools ----------------------------
(***************************************************************************)
(* The importers packages/import-graphql and packages/import-openapi: the  *)
(* tools they make of an API's own description, and the request that a     *)
(* call of such a tool becomes (dispatchGraphql(), dispatchOpenApi()).     *)
(* A selection set, the properties of a JSON schema and the fields of an   *)
(* input object are sets of paths; lists do not count as a step of a path. *)
(***************************************************************************)
EXTENDS Integers, Sequences, SequencesExt, FiniteSets

CONSTANTS
    Apis,   \* GraphQL schemas: [query, mutation, types]
    Depths, \* selectionDepth as given to importGraphql(), or None
    Docs,   \* OpenAPI documents, each a set of operations
    None

\* A type is [kind, fields, inputs]; fields are [name, args, type], arguments and the
\* fields of an input object [name, type, default], with or without a default value, and a
\* type is referred to as [wraps, name].
Composite == {"OBJECT", "INTERFACE", "UNION"}
Leaf == {"SCALAR", "ENUM"}

\* Arguments that a caller may give besides those of the tool.
Strays == {"body", "stray"}

VARIABLES source, tools, call

vars == <<source, tools, call>>

TypeRefs(types) ==
    {t \in [wraps : Seq({"LIST", "NON_NULL"}), name : DOMAIN types] : Len(t.wraps) <= 5}
\* The arguments of a field, or the fields of an input object.
InputsOf(types, inputs) ==
    /\ \A i \in inputs : i.type \in TypeRefs(types) /\ i.default \in BOOLEAN
    /\ \A i, j \in inputs : i.name = j.name => i = j
\* A schema that introspection reads in full: names are unique where GraphQL asks for it,
\* a result is not an input object, and no list is deeper than the query goes.
WellTyped(types) ==
    /\ None \notin DOMAIN types
    /\ \A n \in DOMAIN types :
         /\ types[n].kind \in Composite \cup Leaf \cup {"INPUT_OBJECT"}
         /\ \A f \in types[n].fields :
              /\ f.type \in TypeRefs(types) /\ types[f.type.name].kind # "INPUT_OBJECT"
              /\ InputsOf(types, f.args)
         /\ \A f, g \in types[n].fields : f.name = g.name => f = g
         /\ InputsOf(types, types[n].inputs)

ImportedToolsAssumption ==
    /\ \A api \in Apis : WellTyped(api.types)
                         /\ {api.query, api.mutation} \subseteq DOMAIN api.types \cup {None}
    /\ Depths \subseteq Int \cup {None}
    /\ \A doc \in Docs : \A op \in doc : op.path \in Seq(ToSet(op.path)) /\ op.body \in BOOLEAN

Init ==
    /\ source \in [kind : {"graphql"}, api : Apis, depth : Depths]
                  \cup [kind : {"openapi"}, doc : Docs]
    /\ tools = None /\ call = None

-----------------------------------------------------------------------------
(* What introspection tells of a type *)

\* The TypeRef fragment goes down five ofType; what is deeper is not asked for, nor are
\* default values.
TypeRef(types, r) ==
    IF Len(r.wraps) <= 5
    THEN [wraps |-> r.wraps, kind |-> types[r.name].kind, name |-> r.name]
    ELSE [wraps |-> SubSeq(r.wraps, 1, 5), kind |-> r.wraps[6], name |-> None]

\* arg.type.kind === "NON_NULL"
NonNull(t) == IF t.wraps = <<>> THEN t.kind = "NON_NULL" ELSE t.wraps[1] = "NON_NULL"

\* describeType(), unwrapAll()
Describe(t) == [wraps |-> t.wraps, name |-> IF t.name = None THEN t.kind ELSE t.name]

-----------------------------------------------------------------------------
(* packages/import-graphql *)

\* selectionForObject() passes over the fields with an argument that is required.
Selectable(types, f) == \A a \in f.args : ~NonNull(TypeRef(types, a.type))

\* Mutation of Descends: a type above is not remembered.
DescendsAgain(t, depth, visited) == depth > 1 /\ t.name # None
Descends(t, depth, visited) == depth > 1 /\ t.name # None /\ t.name \notin visited

SelectionForObject(types, name, depth, visited) ==
    LET Inner(f) == TypeRef(types, f.type)
        Fields(n) == {f \in types[n].fields : Selectable(types, f)}
        Leaves(n) == {f \in Fields(n) : Inner(f).kind \in Leaf}
        Nested(n, d, v) == {f \in Fields(n) \ Leaves(n) : /\ Descends(Inner(f), d, v)
                                                         /\ types[Inner(f).name].fields # {}}
        below[d \in 1..4] ==
          [n \in DOMAIN types |-> [v \in SUBSET DOMAIN types |->
             LET Down(m) == below[d - 1][m][v \cup {m}]
             IN  {<<"__typename">>} \cup {<<f.name>> : f \in Leaves(n)} \cup
                 UNION {{<<f.name>> \o p : p \in Down(Inner(f).name)} : f \in Nested(n, d, v)}]]
    IN  below[depth][name][visited]

\* {} is no selection set at all.
BuildSelection(types, t, depth) ==
    IF t.name = None \/ t.kind \in Leaf THEN {}
    ELSE IF types[t.name].fields = {} THEN {<<"__typename">>}
    ELSE SelectionForObject(types, t.name, depth, {t.name})

\* A step of a path of properties; Open is where an object is left without its own.
Property(types, i) == [name |-> i.name, required |-> NonNull(TypeRef(types, i.type))]
Open == [name |-> None, required |-> FALSE]

\* typeToJsonSchema(): an object's properties, three levels deep and not below itself.
JsonSchema(types, t, visited, depth) ==
    LET IsInput(u) == u.kind = "INPUT_OBJECT"
        below[d \in 0..3] ==
          [n \in DOMAIN types |-> [v \in SUBSET DOMAIN types |->
             IF n \in v \/ d = 0 \/ types[n].inputs = {} THEN {<<Open>>}
             ELSE LET Paths(i) == LET u == TypeRef(types, i.type)
                                  IN  IF IsInput(u) THEN below[d - 1][u.name][v \cup {n}] ELSE {<<>>}
                  IN  {<<>>} \cup UNION {{<<Property(types, i)>> \o p : p \in Paths(i)} :
                                         i \in types[n].inputs}]]
    IN  IF IsInput(t) THEN below[depth][t.name][visited] ELSE {<<>>}

FieldToTool(types, operation, f, depth) ==
    [name |-> <<operation, f.name>>, operation |-> operation, field |-> f.name,
     args |-> {[name |-> a.name, type |-> Describe(TypeRef(types, a.type))] : a \in f.args},
     required |-> {a.name : a \in {x \in f.args : NonNull(TypeRef(types, x.type))}},
     schema |-> UNION {{<<Property(types, a)>> \o p :
                        p \in JsonSchema(types, TypeRef(types, a.type), {}, 3)} : a \in f.args},
     selection |-> BuildSelection(types, TypeRef(types, f.type), depth)]

\* selectionDepth ?? 2, between 1 and 4.
Depth(given) ==
    IF given = None THEN 2 ELSE IF given < 1 THEN 1 ELSE IF given > 4 THEN 4 ELSE given

\* A schema without mutations has none of that name.
ImportGraphql ==
    /\ source.kind = "graphql" /\ tools = None
    /\ LET types == source.api.types
           Of(root, operation) ==
             IF root = None THEN {}
             ELSE {FieldToTool(types, operation, f, Depth(source.depth)) : f \in types[root].fields}
       IN  tools' = Of(source.api.query, "query") \cup Of(source.api.mutation, "mutation")
    /\ UNCHANGED <<source, call>>

\* The arguments that are not undefined.
Provided(tool, given) == {a \in tool.args : a.name \in given}

\* dispatchGraphql(): nothing checks the arguments of a call against the tool's schema.
DispatchGraphql ==
    /\ source.kind = "graphql" /\ tools # None /\ call = None
    /\ \E tool \in tools : \E given \in SUBSET ({a.name : a \in tool.args} \cup Strays) :
         call' = [tool |-> tool, given |-> given,
                  operation |-> tool.operation, field |-> tool.field,
                  variables |-> Provided(tool, given), selection |-> tool.selection]
    /\ UNCHANGED <<source, tools>>

-----------------------------------------------------------------------------
(* packages/import-openapi *)

\* An operation is [path, method, id, params, body]; a path is a sequence of segments
\* [param, text], and params are [name, in, required].
Placeholders(path) == {path[i].text : i \in {j \in DOMAIN path : path[j].param}}

\* operationToTool(): parameters go by their name alone, and the body is one of them.
OperationToTool(op) ==
    [name |-> IF op.id # None THEN <<op.id>>
              ELSE <<op.method>> \o [i \in DOMAIN op.path |-> op.path[i].text],
     properties |-> {p.name : p \in op.params} \cup (IF op.body THEN {"body"} ELSE {}),
     required |-> {p.name : p \in {q \in op.params : q.required}}
                  \cup (IF op.body THEN {"body"} ELSE {}),
     method |-> op.method, path |-> op.path, operation |-> op]

\* buildBlueprint()
ImportOpenApi ==
    /\ source.kind = "openapi" /\ tools = None
    /\ tools' = {OperationToTool(op) : op \in source.doc}
    /\ UNCHANGED <<source, call>>

\* Mutation of Fills: the parameter is looked for in the last segment only.
FillsLast(path, i, k) == i = Len(path) /\ path[i].param /\ path[i].text = k

\* path.replace(): the first segment {k} of the path.
Fills(path, i, k) ==
    /\ path[i].param /\ path[i].text = k
    /\ \A j \in 1 .. i - 1 : ~(path[j].param /\ path[j].text = k)

\* dispatchOpenApi(): an argument fills its place in the path, or is appended to the query,
\* whether or not the operation has it, and whatever is missing.
DispatchOpenApi ==
    /\ source.kind = "openapi" /\ tools # None /\ call = None
    /\ \E tool \in tools : \E given \in SUBSET (tool.properties \cup Strays) :
         LET others == given \ {"body"}
         IN  call' = [tool |-> tool, given |-> given,
                      operation |-> tool.operation, method |-> tool.method,
                      filled |-> {i \in DOMAIN tool.path :
                                    \E k \in others : Fills(tool.path, i, k)},
                      query |-> others \ Placeholders(tool.path),
                      body |-> "body" \in given]
    /\ UNCHANGED <<source, tools>>

-----------------------------------------------------------------------------

\* The API cannot be reached, refuses, or has nothing to show: the approval fails.
ImportFails ==
    /\ tools = None
    /\ tools' = {}
    /\ UNCHANGED <<source, call>>

Next ==
    \/ ImportGraphql \/ ImportOpenApi \/ ImportFails
    \/ DispatchGraphql \/ DispatchOpenApi

ImportSpec == Init /\ [][Next]_vars

-----------------------------------------------------------------------------
(* The same by definition: types are followed along a path in the schema itself *)

\* What has a default value may be left out, though it is of a non-null type.
Required(i) == i.type.wraps # <<>> /\ i.type.wraps[1] = "NON_NULL" /\ ~i.default

\* The type reached from type n by the field, or the field of an input object, x.
Asked(types, n, x) ==
    LET fs == {f \in types[n].fields : f.name = x /\ \A a \in f.args : ~Required(a)}
    IN  IF n = None \/ fs = {} THEN None ELSE (CHOOSE f \in fs : TRUE).type.name
Given(inputs, x) == (CHOOSE i \in inputs : i.name = x.name).type.name

\* The types on the way down a path: of fields, or of properties.
Trail(types, root, p) ==
    LET way[i \in 1 .. Len(p) + 1] ==
          IF i = 1 THEN root ELSE Asked(types, way[i - 1], p[i - 1])
    IN  way
InputTrail(types, args, p) ==
    LET way[i \in 1 .. Len(p)] ==
          Given(IF i = 1 THEN args ELSE types[way[i - 1]].inputs, p[i])
    IN  way

\* p ends in a scalar or in __typename, and goes through fields that need no argument.
Selects(types, root, p) ==
    LET way == Trail(types, root, Front(p))
    IN  /\ None \notin ToSet(way) /\ \A i \in DOMAIN way : types[way[i]].kind \in Composite
        /\ \/ Last(p) = "__typename"
           \/ /\ Asked(types, Last(way), Last(p)) # None
              /\ types[Asked(types, Last(way), Last(p))].kind \in Leaf

FieldNames(types) == UNION {{f.name : f \in types[n].fields} : n \in DOMAIN types}
FieldOf(operation, name) ==
    LET api == source.api
        root == IF operation = "query" THEN api.query ELSE api.mutation
    IN  CHOOSE f \in api.types[root].fields : f.name = name

-----------------------------------------------------------------------------

\* No argument of the field x of the type n has a default value.
Undefaulted(types, n, x) ==
    \A f \in types[n].fields : f.name = x => \A a \in f.args : ~a.default

\* A tool selects only what can be had of its result without arguments, as deep as it was
\* told and through no type twice: schemas refer to themselves, and importGraphql() must
\* come to an end on every one of them.  And it selects all of that, but for what is behind
\* an argument with a default value.
SelectionIsExact ==
    source.kind = "graphql" /\ tools # None /\ call = None =>
    \A tool \in tools :
      LET types == source.api.types
          root == FieldOf(tool.operation, tool.field).type.name
          Through(p) == Trail(types, root, Front(p))
          Reach == {p \in BoundedSeq(FieldNames(types) \cup {"__typename"}, Depth(source.depth)) :
                      /\ p # <<>> /\ Selects(types, root, p) /\ IsInjective(Through(p))
                      /\ \A i \in 2 .. Len(p) : types[Through(p)[i]].fields # {}}
      IN  IF types[root].kind \in Leaf THEN tool.selection = {}
          ELSE /\ tool.selection \subseteq Reach
               /\ {p \in Reach : \A i \in 1 .. Len(p) : Undefaulted(types, Through(p)[i], p[i])}
                    \subseteq tool.selection

\* The properties are those of the inputs: required if the API requires them, and, where
\* there is no default value, only then.
Describes(properties, inputs) ==
    /\ {x.name : x \in properties} = {i.name : i \in inputs}
    /\ \A x \in properties, i \in inputs :
         x.name = i.name => /\ Required(i) => x.required
                            /\ x.required => Required(i) \/ i.default

\* What the tool asks of its caller is what the API asks: below every property there are
\* those of its type, and an object is left open only below itself or three objects down.
InputsAreExact ==
    source.kind = "graphql" /\ tools # None /\ call = None =>
    \A tool \in tools :
      LET types == source.api.types
          args == FieldOf(tool.operation, tool.field).args
          Below(p) == {q[Len(p) + 1] : q \in {x \in tool.schema : IsStrictPrefix(p, x)}}
      IN  /\ Describes(Below(<<>>), args)
          /\ \A q \in tool.schema : \A n \in 1 .. Len(q) :
               LET p == SubSeq(q, 1, n)
                   way == InputTrail(types, args, p)
                   inputs == types[Last(way)].inputs
               IN  Last(p) # Open =>
                     IF types[Last(way)].kind # "INPUT_OBJECT" THEN Below(p) = {}
                     ELSE IF ~IsInjective(way) \/ n > 3 \/ inputs = {} THEN Below(p) = {Open}
                     ELSE Describes(Below(p), inputs)

\* Whatever the API's schema and whichever arguments the caller gives, the document sent has
\* a selection exactly where there must be one, of fields that exist and need no argument,
\* and passes on what the caller gave of the arguments declared, each of its type: no
\* argument that the API requires is missing, if the caller gave all that the tool requires.
DocumentIsValid ==
    source.kind = "graphql" /\ call # None =>
    LET types == source.api.types
        f == FieldOf(call.operation, call.field)
        names == {v.name : v \in call.variables}
    IN  /\ call.variables \subseteq {[name |-> a.name, type |-> a.type] : a \in f.args}
        /\ \A a \in f.args : /\ a.name \in call.given <=> a.name \in names
                             /\ call.tool.required \subseteq call.given /\ Required(a) =>
                                  a.name \in names
        /\ types[f.type.name].kind \in Composite <=> call.selection # {}
        /\ \A p \in call.selection : Selects(types, f.type.name, p)

\* An operation whose parameters can be told apart by their names and are the ones of its
\* path, each there once: of a parameter that occurs again, only the first place is filled.
Plain(op) ==
    /\ \A p \in op.params : p.name # "body"
    /\ \A p, q \in op.params : p.name = q.name => p = q
    /\ Placeholders(op.path) = {p.name : p \in {q \in op.params : q.in = "path"}}
    /\ \A p \in op.params : p.in = "path" => p.required
    /\ \A i, j \in DOMAIN op.path :
         op.path[i].param /\ op.path[j].param /\ op.path[i].text = op.path[j].text => i = j

\* The request is the operation's, with what the caller gave: each argument in its place in
\* the path or in the query, and no other place filled.  If the caller gave what the tool
\* requires and nothing else than the tool has, no place in the path is left open, and there
\* is a body if the operation has one.
RequestIsOperation ==
    source.kind = "openapi" /\ call # None /\ Plain(call.operation) =>
    LET op == call.operation
        places == {i \in DOMAIN op.path : op.path[i].param}
        In(where) == {p.name : p \in {q \in op.params : q.in = where}}
    IN  /\ call.method = op.method
        /\ call.filled = {i \in places : op.path[i].text \in call.given}
        /\ In("query") \cap call.given \subseteq call.query /\ call.query \subseteq call.given
        /\ In("path") \cap call.query = {}
        /\ call.tool.required \subseteq call.given /\ call.given \subseteq call.tool.properties =>
             call.filled = places /\ (call.body <=> op.body)

\* The tools that an approval imports are the API's: each selects what its result has and
\* asks for what its operation asks, as far as that is told without default values.
ToolsAreExact == SelectionIsExact /\ InputsAreExact

\* What the router sends for a call is the operation its tool was made from, complete if the
\* caller gave what the tool asks for, for GraphQL as for OpenAPI.
OperationIsSent == DocumentIsValid /\ RequestIsOperation

\* A tool requires nothing that the API does not.
AsksNoMore ==
    source.kind = "graphql" /\ tools # None =>
    \A tool \in tools : \A a \in FieldOf(tool.operation, tool.field).args :
      a.name \in tool.required => Required(a)

\* No request is sent with a place of its path left open.
PathIsFilled ==
    source.kind = "openapi" /\ call # None /\ Plain(call.operation) =>
    \A i \in DOMAIN call.operation.path : call.operation.path[i].param => i \in call.filled

\* Nothing else is in the query.
QueryIsOperation ==
    source.kind = "openapi" /\ call # None /\ Plain(call.operation) =>
    call.query \subseteq {p.name : p \in {q \in call.operation.params : q.in = "query"}}

\* "Each operation -> one MCP tool" (README.md): callTool() finds a tool by its name.
NamesAreDistinct ==
    source.kind = "openapi" /\ tools # None =>
    \A t, u \in tools : t.name = u.name => t = u
=============================================================================
