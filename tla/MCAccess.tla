------------------------------ MODULE MCAccess ------------------------------
EXTENDS Access, TLC
At2(w, s) == ("workspace" :> w) @@ ("server" :> s)
Anywhere == At2(None, None)
Dims == {"workspace", "server"}
Assignable == {Anywhere, At2("w1", "s1")}
Asked == {At2("w1", "s1"), At2("w1", None)}
Invoke == <<"tool", "invoke">>
Read == <<"server", "read">>
Write == <<"server", "write">>
Required == {Invoke, Write}
Names == {"developer", "restricted", "lead", "former"}
\* "lead" and "restricted" inherit from each other; "former" is no row of roles.
Table ==
    [r \in Names \ {"former"} |->
       CASE r = "developer" ->
              [inherits |-> <<>>,
               permissions |-> {[action |-> Invoke, scope |-> Anywhere, effect |-> "allow"],
                                [action |-> Write, scope |-> Anywhere, effect |-> "allow"]}]
         [] r = "restricted" ->
              [inherits |-> <<"former", "lead">>,
               permissions |-> {[action |-> <<"server", "*">>, scope |-> At2(None, "s1"),
                                 effect |-> "deny"]}]
         [] r = "lead" ->
              [inherits |-> <<"restricted">>,
               permissions |-> {[action |-> Every, scope |-> Anywhere, effect |-> "allow"]}]]
Both == {"builtin", "remote"}
Builtin == {"builtin"}
=============================================================================
