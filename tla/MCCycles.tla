------------------------------ MODULE MCCycles ------------------------------
(***************************************************************************)
(* Cycles for TLC: the clients and hooks of the runs.                      *)
(***************************************************************************)
EXTENDS Cycles

Same == [t \in Text |-> t]
Constant == CHOOSE f \in [Text -> Text] : Cardinality({f[t] : t \in Text}) = 1

\* A client that prepares in each extended cycle and describes what it executes; an
\* interceptor that drops rows and corrects the counts.
Base(m, kinds, msgs) ==
    [mode |-> m, kinds |-> kinds, parses |-> TRUE, describes |-> TRUE,
     query |-> {"forward"}, parse |-> {"forward", "deny"}, rewrite |-> Same,
     wantsRows |-> TRUE, adjust |-> TRUE, frontend |-> {}, backend |-> FALSE,
     portals |-> FALSE, fails |-> TRUE, rows |-> 1, msgs |-> msgs, losses |-> 0]

\* The other clients and interceptors, by name.
Profile(name, m) ==
    CASE name = "simple" ->
            [Base(m, {"Query"}, 3) EXCEPT !.rows = 2,
                !.query = {"forward", "deny", "reply", "scatter"}]
      [] name = "rewritten" ->
            [Base(m, {"Query", "Sync"} \cup Unnamed, 4) EXCEPT !.rewrite = Constant]
      [] name = "prepares" -> Base(m, Unnamed \cup {"Sync"}, 7)
      [] name = "prepares named" -> Base(m, Named \cup {"Sync"}, 7)
      [] name = "flushes" -> Base(m, Unnamed \cup {"Flush", "Sync"}, 4)
      [] name = "reuses" ->
            [Base(m, Named \cup {"Sync"}, 7) EXCEPT !.parses = FALSE, !.fails = FALSE]
      [] name = "loses" ->
            [Base(m, {"Query"}, 3) EXCEPT !.query = {"forward", "deny"}, !.rows = 2, !.losses = 2]
      [] name = "raw hooks" ->
            [Base(m, {"Query", "Flush", "Sync"} \cup Unnamed, 4) EXCEPT
                !.frontend = {"Flush"}, !.wantsRows = FALSE]
      [] name = "own ready" ->
            [Base(m, {"Query", "Sync"} \cup Unnamed, 4) EXCEPT !.backend = TRUE]

Profiles == {"simple", "rewritten", "prepares", "prepares named", "flushes", "reuses",
             "loses", "raw hooks", "own ready"}

AllSetups == {Profile(p, m) : p \in Profiles, m \in {"session", "transaction"}}

\* The sessions of the counterexamples.
InSession(p) == {Profile(p, "session")}
Loses == InSession("loses")
OwnReadies == InSession("own ready")
Clashes == {[Base("session", {"Prepare", "Sync"}, 4) EXCEPT !.parse = {"forward"}]}
Undescribed == {[c EXCEPT !.describes = FALSE] : c \in InSession("prepares named")}
Suspends == {[c EXCEPT !.portals = TRUE] : c \in InSession("prepares")}
ReusesFailing == {[c EXCEPT !.fails = TRUE] : c \in InSession("reuses")}
ReusesLosing ==
    {[c EXCEPT !.kinds = @ \cup {"Flush"}, !.losses = 1] : c \in InSession("reuses")}
=============================================================================
