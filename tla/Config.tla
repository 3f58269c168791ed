------------------------------- MODULE Config -------------------------------
(***************************************************************************)
(* How a proxy comes by its configuration: the calls a program makes on    *)
(* the ProxyBuilder, in any order (proxy.rs), and the pgferry binary, which *)
(* makes them from its command line and its file (main.rs).                *)
(*                                                                         *)
(* Addresses and connection strings that differ only in their text are one *)
(* model value; `calls` keeps what was asked for, in order, and no code    *)
(* reads it.  TLS, the admin database, the metrics address, the drain      *)
(* window and the pool's sizes are fields that are only passed on.         *)
(***************************************************************************)
EXTENDS Integers, Sequences, SequencesExt, FiniteSets

CONSTANTS
    None,
    Password,
    Ids,         \* names given to endpoint()
    Limits,      \* arguments of max_client_conn(), 0 among them
    Lists,       \* lists of endpoints, given to route() and in a file
    Uses,        \* "api" for the calls of a program, "cli" for the binary
    MaxCalls     \* bound: calls on the builder

DefaultId == "default"
Modes == {"session", "transaction"}

ASSUME ConfigAssumption ==
    /\ None \notin Password /\ None \notin Modes
    /\ Limits \subseteq Nat /\ MaxCalls \in Nat /\ Uses \subseteq {"api", "cli"}

VARIABLES
    use,
    asked,      \* the arguments and the file of the binary
    calls,      \* history: the calls of the program
    builder,    \* ProxyBuilder
    built       \* the outcome: None so far, an error or a Proxy

vars == <<use, asked, calls, builder, built>>

Endpoint(id, at, password) == [id |-> id, upstream |-> at, password |-> password]
Route(endpoints, password) == [endpoints |-> endpoints, password |-> password]
NewBuilder ==
    [listen |-> FALSE, service |-> FALSE, route |-> None, max |-> 0, mode |-> None]

Error(what) == [ok |-> FALSE, what |-> what]

-----------------------------------------------------------------------------
(* The builder's calls: each takes the builder and returns it.             *)

Upstream(b) == [b EXCEPT !.route = Route(<<Endpoint(DefaultId, "upstream", None)>>, None)]

\* Fault: an endpoint is put before those that were added earlier.
AddEndpointFirst(b, id) ==
    LET e == Endpoint(id, id, None) IN
    CASE b.route = None -> [b EXCEPT !.route = Route(<<e>>, None)]
      [] b.route # None /\ Len(b.route.endpoints) = 1 /\ b.route.endpoints[1].id = DefaultId ->
            [b EXCEPT !.route.endpoints = <<e>>]
      [] OTHER -> [b EXCEPT !.route.endpoints = <<e>> \o @]

\* The endpoint of upstream(), known by its name, gives way to the first one added.
AddEndpoint(b, id) ==
    LET e == Endpoint(id, id, None) IN
    CASE b.route = None -> [b EXCEPT !.route = Route(<<e>>, None)]
      [] b.route # None /\ Len(b.route.endpoints) = 1 /\ b.route.endpoints[1].id = DefaultId ->
            [b EXCEPT !.route.endpoints = <<e>>]
      [] OTHER -> [b EXCEPT !.route.endpoints = Append(@, e)]

\* Nothing to set it on before there is a route.
SetPassword(b, p) == IF b.route = None THEN b ELSE [b EXCEPT !.route.password = p]

\* build
Outcome(b) ==
    IF ~b.listen THEN Error("listen")
    ELSE IF b.route = None THEN Error("upstream")
    ELSE [ok |-> TRUE, route |-> b.route,
          interceptor |-> IF b.service THEN "service"
                          ELSE IF Len(b.route.endpoints) > 1 THEN "failover" ELSE None,
          max |-> IF b.max = 0 THEN 128 ELSE b.max,
          mode |-> IF b.mode = None THEN "session" ELSE b.mode]

\* make_factory_for: the password an endpoint's connections authenticate with.
PasswordOf(route, i) ==
    IF route.endpoints[i].password # None THEN route.endpoints[i].password ELSE route.password

-----------------------------------------------------------------------------
(* The binary.                                                             *)

\* What the file may hold; env is the value of the variable password_env names, and
\* "unset" one that is not set.
File ==
    [upstream : BOOLEAN, endpoints : Lists, password : Password \cup {None},
     env : Password \cup {"unset", None}, max : Limits \cup {None},
     mode : Modes \cup {"other", None}]
Arguments == [listen : BOOLEAN, upstream : BOOLEAN, password : Password \cup {None}]

OrElse(a, b) == IF a # None THEN a ELSE b

\* Fault: the file comes before the command line.
ResolvePasswordFileFirst(file, cli) ==
    OrElse(OrElse(file.password, IF file.env = "unset" THEN None ELSE file.env), cli)

ResolvePassword(file, cli) ==
    OrElse(cli, OrElse(file.password, IF file.env = "unset" THEN None ELSE file.env))

\* The route of main.  A connection string nobody gave is an empty one.
MainRoute(args, file) ==
    LET upstream == IF args.upstream THEN "cli"
                    ELSE IF file # None /\ file.upstream THEN "file" ELSE ""
        named == IF file = None THEN <<>> ELSE file.endpoints
    IN Route(IF named = <<>> THEN <<Endpoint(DefaultId, upstream, None)>> ELSE named,
             IF file = None THEN None ELSE ResolvePassword(file, args.password))

\* FilePool::into_config: a mode it does not know is the session mode.
MainMode(file) == IF file = None \/ file.mode = None THEN None
                  ELSE IF file.mode \in Modes THEN file.mode ELSE "session"

-----------------------------------------------------------------------------
Init ==
    /\ use \in Uses
    /\ asked \in IF use = "cli" THEN [args : Arguments, file : File \cup {None}] ELSE {None}
    /\ calls = <<>> /\ builder = NewBuilder /\ built = None

Call(op, arg, b) ==
    /\ use = "api" /\ built = None /\ Len(calls) < MaxCalls
    /\ calls' = Append(calls, [op |-> op, arg |-> arg])
    /\ builder' = b
    /\ UNCHANGED <<use, asked, built>>

\* listen and metrics_addr give the builder up over an address that does not parse.
ListenFails ==
    /\ use = "api" /\ built = None
    /\ built' = Error("address")
    /\ UNCHANGED <<use, asked, calls, builder>>

Build ==
    /\ use = "api" /\ built = None
    /\ built' = Outcome(builder)
    /\ UNCHANGED <<use, asked, calls, builder>>

\* The configuration of the binary, up to build, once its file and addresses parse.
Main ==
    /\ use = "cli" /\ built = None
    /\ LET args == asked.args
           file == asked.file
           b == [NewBuilder EXCEPT !.listen = TRUE, !.route = MainRoute(args, file),
                     !.mode = MainMode(file),
                     !.max = IF file = None \/ file.max = None THEN 128 ELSE file.max]
       IN IF ~args.listen /\ file = None
          THEN built' = Error("listen") /\ UNCHANGED builder
          ELSE built' = Outcome(b) /\ builder' = b
    /\ UNCHANGED <<use, asked, calls>>

\* password_env is password where the variable is set, and no call where it is not.
Next ==
    \/ Call("listen", None, [builder EXCEPT !.listen = TRUE])
    \/ Call("service", None, [builder EXCEPT !.service = TRUE])
    \/ Call("upstream", None, Upstream(builder))
    \/ \E id \in Ids : Call("endpoint", id, AddEndpoint(builder, id))
    \/ \E p \in Password : Call("password", p, SetPassword(builder, p))
    \/ \E l \in Lists \ {<<>>}, p \in Password \cup {None} :
          Call("route", l, [builder EXCEPT !.route = Route(l, p)])
    \/ \E n \in Limits : Call("max", n, [builder EXCEPT !.max = n])
    \/ \E m \in Modes : Call("pool", m, [builder EXCEPT !.mode = m])
    \/ ListenFails \/ Build \/ Main

Spec == Init /\ [][Next]_vars

-----------------------------------------------------------------------------
(* Properties.                                                             *)

\* The builder keeps its types (ProxyBuilder).
TypeOK ==
    /\ use \in Uses /\ Len(calls) <= MaxCalls
    /\ builder.listen \in BOOLEAN /\ builder.service \in BOOLEAN
    /\ builder.max \in Limits \cup {128} \cup {0} /\ builder.mode \in Modes \cup {None}

\* The last call of some kinds, 0 for none, and its argument.
Last1(ops) == Max({0} \cup {i \in DOMAIN calls : calls[i].op \in ops})
ArgOf(op, default) == IF Last1({op}) = 0 THEN default ELSE calls[Last1({op})].arg

\* The ids asked for: those added since the last upstream() or route(), in the order
\* of the calls, after the list given to route(); upstream() counts if none was added.
IdsAsked ==
    LET base == Last1({"upstream", "route"})
        since == SelectSeq(SubSeq(calls, base + 1, Len(calls)), LAMBDA c : c.op = "endpoint")
        added == [i \in DOMAIN since |-> since[i].arg]
    IN IF base = 0 THEN added
       ELSE IF calls[base].op = "route"
       THEN [i \in DOMAIN calls[base].arg |-> calls[base].arg[i].id] \o added
       ELSE IF added = <<>> THEN <<DefaultId>> ELSE added

\* ProxyBuilder: whatever the order of the calls, build fails only for want of an
\* address or a route; the endpoints are the ones asked for, in their order ("the first
\* added is the default target"); several endpoints and no service, and only these, get
\* the failover router; and the last limit and mode count, 0 standing for the default.
BuiltAsAsked ==
    use = "api" /\ built # None /\ built # Error("address") =>
        /\ built.ok <=> /\ Last1({"listen"}) > 0
                        /\ Last1({"upstream", "route", "endpoint"}) > 0
        /\ built.ok =>
              /\ [i \in DOMAIN built.route.endpoints |-> built.route.endpoints[i].id] = IdsAsked
              /\ (built.interceptor = "failover") <=> (Len(IdsAsked) > 1 /\ Last1({"service"}) = 0)
              /\ built.max = IF ArgOf("max", 0) = 0 THEN 128 ELSE ArgOf("max", 0)
              /\ built.mode = ArgOf("pool", "session")

\* The password every endpoint without one of its own must use.
Uses1(p) ==
    built.ok => \A i \in DOMAIN built.route.endpoints :
        built.route.endpoints[i].password = None => PasswordOf(built.route, i) = p

\* A password given to the builder once it has a route, and not followed by another
\* upstream() or route(), and a password of the binary that has a file (the command
\* line before the file, the file before the environment), is the one the connections
\* of every endpoint without its own authenticate with.
PasswordIsUsed ==
    built # None =>
        /\ use = "api" =>
              LET p == Last1({"password"}) IN
              /\ p > Last1({"upstream", "route"})
              /\ \E i \in 1..p : calls[i].op \in {"upstream", "route", "endpoint"}
              => Uses1(calls[p].arg)
        /\ use = "cli" /\ asked.file # None =>
              LET given == <<asked.args.password, asked.file.password, asked.file.env>>
                  set == {i \in DOMAIN given : given[i] \in Password}
              IN set # {} => Uses1(given[Min(set)])

\* "Upstream password; overrides the config file."  The password of the command line
\* is the one the binary uses.
CliPasswordIsUsed ==
    use = "cli" /\ built # None /\ asked.args.password # None => Uses1(asked.args.password)

\* "Upstream password, used for upstream authentication."  The same of the builder.
LastPasswordIsUsed ==
    use = "api" /\ built # None /\ Last1({"password"}) > 0 => Uses1(ArgOf("password", None))
=============================================================================
