------------------------------ MODULE ApiSamples ------------------------------
(***************************************************************************)
(* Small GraphQL schemas and OpenAPI documents to import.                  *)
(***************************************************************************)
EXTENDS FiniteSets, Naturals
CONSTANT None

Ref(wraps, name) == [wraps |-> wraps, name |-> name]
Field(name, args, type) == [name |-> name, args |-> args, type |-> type]
Type(kind, fields, inputs) == [kind |-> kind, fields |-> fields, inputs |-> inputs]
Input(name, type) == [name |-> name, type |-> type, default |-> FALSE]
WithDefault(input) == [input EXCEPT !.default = TRUE]

Once == {<<>>, <<"NON_NULL">>}
Lists == {<<"LIST", "NON_NULL">>, <<"NON_NULL", "LIST", "NON_NULL", "LIST", "NON_NULL">>}
Optional == {Input("a", Ref(<<>>, "S"))}
Mandatory == {Input("a", Ref(<<"NON_NULL">>, "S"))}
Defaulted == {WithDefault(a) : a \in Mandatory}

\* A query whose result is a leaf, a union or an object A, which refers to itself, to B, to
\* a union or to nothing, B to A or to nothing; and a mutation, or none.
Output(mutation, result, ofA, args, ofB) ==
    [query |-> "Q", mutation |-> mutation,
     types |->
       [n \in {"Q", "M", "A", "B", "U", "S", "E"} |->
         CASE n = "Q" -> Type("OBJECT", {Field("q", Optional, result)}, {})
           [] n = "M" -> Type("OBJECT", {Field("q", Mandatory, Ref(<<>>, "B"))}, {})
           [] n = "A" -> Type("OBJECT", {Field("s", {}, Ref(<<>>, "E")), Field("n", args, ofA)}, {})
           [] n = "B" -> Type("INTERFACE", {Field("n", {}, Ref(<<>>, ofB))}, {})
           [] n = "U" -> Type("UNION", {}, {})
           [] n = "S" -> Type("SCALAR", {}, {})
           [] n = "E" -> Type("ENUM", {}, {})]]
Outputs ==
    {Output(mutation, result, ofA, args, ofB) :
       mutation \in {"M", None},
       result \in {Ref(w, n) : w \in {<<>>} \cup Lists, n \in {"S", "A", "U"}},
       ofA \in {Ref(w, n) : w \in Once \cup Lists, n \in {"A", "B", "U", "S"}},
       args \in {{}, Optional, Mandatory, Defaulted}, ofB \in {"A", "B", "S"}}

\* A query with an input object I, which has J, which has I, J, K or nothing.
Inputs ==
    {[query |-> "Q", mutation |-> None,
      types |->
        [n \in {"Q", "I", "J", "K", "L", "S"} |->
          CASE n = "Q" -> Type("OBJECT", {Field("q", {a, Input("b", Ref(<<>>, "S"))}, Ref(<<>>, "S"))},
                               {})
            [] n = "I" -> Type("INPUT_OBJECT", {}, {Input("i", Ref(<<>>, "S")), j})
            [] n = "J" -> Type("INPUT_OBJECT", {}, {Input("j", Ref(<<>>, ofJ))})
            [] n = "K" -> Type("INPUT_OBJECT", {}, {Input("j", Ref(<<"NON_NULL">>, "L"))})
            [] n = "L" -> Type("INPUT_OBJECT", {}, {Input("i", Ref(<<>>, "S"))})
            [] n = "S" -> Type("SCALAR", {}, {})]] :
      a \in {Input("a", Ref(w, n)) : w \in Once \cup Lists, n \in {"I", "J"}}
            \cup {WithDefault(Input("a", Ref(<<"NON_NULL">>, "I")))},
      j \in {Input("j", Ref(w, n)) : w \in Once, n \in {"J", "S"}}
            \cup {WithDefault(Input("j", Ref(<<"NON_NULL">>, "J")))},
      ofJ \in {"I", "J", "K", "S"}}
SmallApis == Outputs \cup Inputs

\* The fragment of the introspection query ends within such a list.
DeepLists ==
    {Output(None, Ref(<<"NON_NULL", "LIST", "NON_NULL", "LIST", "NON_NULL", "LIST">>, n),
            Ref(<<>>, "S"), {}, "S") : n \in {"S", "A"}}

Segment(param, text) == [param |-> param, text |-> text]
Paths == {<<Segment(FALSE, "u")>>, <<Segment(FALSE, "u"), Segment(TRUE, "x")>>,
          <<Segment(TRUE, "x"), Segment(FALSE, "u"), Segment(TRUE, "y")>>,
          <<Segment(TRUE, "x"), Segment(TRUE, "y"), Segment(TRUE, "x")>>}
Params == [name : {"x", "y"}, in : {"path", "query", "header"}, required : BOOLEAN]
SmallDocs ==
    {{[path |-> path, method |-> "GET", id |-> None, params |-> params, body |-> body]} :
       path \in Paths, params \in {ps \in SUBSET Params : Cardinality(ps) <= 2},
       body \in BOOLEAN}

\* /u/{x} and /u/x.
Alike ==
    {{[path |-> <<Segment(FALSE, "u"), Segment(param, "x")>>, method |-> "GET", id |-> None,
       params |-> {}, body |-> FALSE] : param \in BOOLEAN}}
SomeDepths == {None, 0, 1, 3, 4, 9}
=============================================================================
