---------------------------- MODULE PluginManager ----------------------------
(***************************************************************************)
(* One plugin: its row in "plugins", the manager of each process           *)
(* (packages/plugin), its load at boot (plugin.module.ts) and what         *)
(* administrators ask of it (plugins.controller.ts).  The boot enables a   *)
(* plugin as an administrator does, so it is a request of the process's    *)
(* own.                                                                    *)
(***************************************************************************)
EXTENDS Naturals, FiniteSets

CONSTANTS
    Node,       \* processes
    Admin,      \* administrators
    Overlap,    \* may a request begin while another is on its way?
    Faults,     \* what goes wrong: subset of {"hook", "db", "crash"}
    MaxRounds,  \* bound: activations of a process
    None

PluginAssumption ==
    /\ Node \cap Admin = {} /\ Overlap \in BOOLEAN /\ MaxRounds \in Nat
    /\ Faults \subseteq {"hook", "db", "crash"}

VARIABLES
    row,        \* plugins.enabled, or None
    up,         \* the process serves requests
    loaded,     \* the plugin is in the manager's map
    enabled,    \* LoadedPlugin.enabled
    items,      \* entries of the plugin in the registry of middleware
    request,    \* what each administrator, and the boot of each process, is doing
    rounds,
    choice,     \* history: what the last answer said, None while that is not settled
    failed      \* history: a hook or a write has failed

vars == <<row, up, loaded, enabled, items, request, rounds, choice, failed>>
memory == <<up, loaded, enabled, items>>

Actor == Node \cup Admin
Switch == {"on", "off"}
Idle == [pc |-> "idle", node |-> None, op |-> "on"]
Underway(a) == request[a].pc \notin {"idle", "upsert"}
Quiet == \A a \in Actor : ~Underway(a)

Init ==
    /\ row = None /\ choice = None /\ failed = FALSE
    /\ up = [n \in Node |-> FALSE] /\ loaded = [n \in Node |-> FALSE]
    /\ enabled = [n \in Node |-> "off"] /\ items = [n \in Node |-> 0]
    /\ request = [a \in Actor |-> IF a \in Node THEN [Idle EXCEPT !.pc = "upsert", !.node = a] ELSE Idle]
    /\ rounds = [n \in Node |-> 0]

At(a, pc) == request[a].pc = pc
Goto(a, pc) == request' = [request EXCEPT ![a].pc = pc]
\* A request has ended; the end of the boot is when the process begins to serve.
Finish(a) ==
    /\ request' = [request EXCEPT ![a] = Idle]
    /\ up' = IF a \in Node THEN [up EXCEPT ![a] = TRUE] ELSE up

-----------------------------------------------------------------------------
(* Boot *)

\* Mutation of Upserted: the conflicting row takes the default of the insert.
Reset == "on"

\* upsert(): a new row is enabled, a known one keeps what it says.
Upserted == IF row = None THEN "on" ELSE row

Upsert(n) ==
    /\ At(n, "upsert") /\ (Overlap \/ Quiet)
    /\ row' = Upserted
    /\ Goto(n, "states")
    /\ UNCHANGED <<memory, rounds, choice, failed>>

\* loadAll(): store.load().
States(n) ==
    /\ At(n, "states")
    /\ request' = [request EXCEPT ![n].pc = "import", ![n].op = row]
    /\ UNCHANGED <<row, memory, rounds, choice, failed>>

\* loadOne(): the module has a manifest of this API's version, and is enabled or not.
Import(n) ==
    /\ At(n, "import")
    /\ loaded' = [loaded EXCEPT ![n] = TRUE]
    /\ IF request[n].op = "on" THEN Goto(n, "hook") /\ UNCHANGED up ELSE Finish(n)
    /\ UNCHANGED <<row, enabled, items, rounds, choice, failed>>

\* No manifest, or of another version: logged, and the others go on.
ImportFails(n) ==
    /\ At(n, "import") /\ "hook" \in Faults
    /\ Finish(n)
    /\ UNCHANGED <<row, loaded, enabled, items, rounds, choice, failed>>

-----------------------------------------------------------------------------
(* enable() and disable() *)

\* POST /api/plugins/:name/enable or /disable.  What is so already is not done, or written,
\* again.
Ask(a, n, op) ==
    /\ At(a, "idle") /\ up[n] /\ (Overlap \/ Quiet)
    /\ op = "on" => rounds[n] < MaxRounds
    /\ \/ /\ loaded[n] /\ enabled[n] # op
          /\ request' = [request EXCEPT ![a] = [pc |-> "hook", node |-> n, op |-> op]]
          /\ choice' = None
       \/ /\ loaded[n] /\ enabled[n] = op
          /\ choice' = op
          /\ UNCHANGED request
    /\ UNCHANGED <<row, memory, rounds, failed>>

\* activate() or deactivate() of the manifest: what it registers stays, registries have no
\* way to take it back.
Hook(a) ==
    /\ At(a, "hook")
    /\ LET n == request[a].node
           op == request[a].op
       IN  /\ enabled' = [enabled EXCEPT ![n] = op]
           /\ items' = [items EXCEPT ![n] = IF op = "on" THEN @ + 1 ELSE @]
           /\ rounds' = [rounds EXCEPT ![n] = IF op = "on" THEN @ + 1 ELSE @]
    /\ Goto(a, "store")
    /\ UNCHANGED <<row, up, loaded, choice, failed>>

\* The hook, or the write after it, fails: an error, at boot a line in the log.
Fails(a) ==
    /\ \/ At(a, "hook") /\ "hook" \in Faults
       \/ At(a, "store") /\ "db" \in Faults
    /\ Finish(a)
    /\ failed' = TRUE
    /\ UNCHANGED <<row, loaded, enabled, items, rounds, choice>>

\* store.set().
Store(a) ==
    /\ At(a, "store")
    /\ row' = request[a].op
    /\ choice' = IF a \in Node THEN choice ELSE request[a].op
    /\ Finish(a)
    /\ UNCHANGED <<loaded, enabled, items, rounds, failed>>

\* The process restarts.
Restart(n) ==
    /\ "crash" \in Faults /\ ~At(n, "upsert") /\ rounds[n] < MaxRounds
    /\ up' = [up EXCEPT ![n] = FALSE] /\ loaded' = [loaded EXCEPT ![n] = FALSE]
    /\ enabled' = [enabled EXCEPT ![n] = "off"] /\ items' = [items EXCEPT ![n] = 0]
    /\ request' = [a \in Actor |->
                     IF a = n THEN [Idle EXCEPT !.pc = "upsert", !.node = n]
                     ELSE IF request[a].node = n THEN Idle ELSE request[a]]
    /\ UNCHANGED <<row, rounds, choice, failed>>

Next ==
    \/ \E n \in Node : Upsert(n) \/ States(n) \/ Import(n) \/ ImportFails(n) \/ Restart(n)
    \/ \E a \in Actor : Hook(a) \/ Fails(a) \/ Store(a)
    \/ \E a \in Admin, n \in Node, op \in Switch : Ask(a, n, op)

PluginSpec == Init /\ [][Next]_vars

-----------------------------------------------------------------------------

Requests == [pc : {"idle", "upsert", "states", "import", "hook", "store"},
             node : Node \cup {None}, op : Switch]

TypeOK ==
    /\ row \in Switch \cup {None} /\ choice \in Switch \cup {None} /\ failed \in BOOLEAN
    /\ up \in [Node -> BOOLEAN] /\ loaded \in [Node -> BOOLEAN] /\ enabled \in [Node -> Switch]
    /\ items \in [Node -> Nat] /\ rounds \in [Node -> Nat]
    /\ request \in [Actor -> Requests]

\* What an administrator was told stays so until somebody asks for something else: the row
\* says it, and every process that has loaded the plugin does it, after a restart too.
ChoiceIsDurable ==
    Quiet /\ choice # None =>
      /\ row = choice
      /\ \A n \in Node : up[n] /\ loaded[n] => enabled[n] = choice

\* The same while nothing has failed: enable() and disable() take the flag in memory for
\* what has been written, so that what failed once is answered for done when it is asked
\* for again.
ChoiceIsDurableUnlessFailed == failed \/ ChoiceIsDurable

\* However it got there, an enabled plugin is registered once, and a disabled one not at
\* all.
RegisteredOnce ==
    Quiet => \A n \in Node : up[n] => items[n] = IF enabled[n] = "on" THEN 1 ELSE 0
=============================================================================
