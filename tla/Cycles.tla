------------------------------ MODULE Cycles --------------------------------
(***************************************************************************)
(* The interceptor's hooks and the telemetry of a query cycle: the loop of *)
(* `pump` in session.rs seen from SessionHooks and CycleTracking.          *)
(*                                                                         *)
(* on_query is consulted when a Query or a Parse arrives and starts the    *)
(* tracked cycle; on_row keeps or drops each DataRow under the schema of   *)
(* the last RowDescription; CommandComplete counts are corrected by the    *)
(* rows dropped; the ReadyForQuery that ends the cycle takes the report to *)
(* on_cycle_end.  The raw hooks on_frontend and on_backend see every       *)
(* forwarded message and may answer it or end the session.                 *)
(*                                                                         *)
(* The client waits for the ReadyForQuery of a cycle before it starts      *)
(* another, so it sends a message when the pump takes it.  "Execute"       *)
(* stands for Bind and Execute.  A statement's text also names the schema  *)
(* of its rows.  `now`, `ended` and `report` record what happened in the   *)
(* current cycle, in the one just ended, and what on_cycle_end was told.   *)
(***************************************************************************)
EXTENDS Naturals, Sequences, SequencesExt, FiniteSets

CONSTANTS
    Text,          \* the texts of queries and statements
    None,
    Setups,        \* the clients and hooks of a run
    MaxMsgs,       \* bound: messages a client sends before its last Sync
    MaxRows,       \* bound: rows of a result
    MaxLosses      \* bound: upstream connections lost

\* Frontend messages: Parse prepares the unnamed statement, Prepare the named one.
Unnamed == {"Parse", "Describe", "Execute"}
Named == {"Prepare", "DescribeNamed", "ExecuteNamed"}
Kind == {"Query", "Flush", "Sync"} \cup Unnamed \cup Named

\* The pool's mode; what the client sends, whether each of its extended cycles begins
\* with a Parse and each Execute follows a Describe; what on_query answers to a Query
\* and to a Parse and how it rewrites; wants_rows and adjust_command_counts; what
\* on_frontend answers, and whether on_backend answers ReadyForQuery; whether the
\* server suspends portals and its commands fail; how many rows a
\* result has at most, messages are sent and connections lost.
Setup == [mode : {"session", "transaction"}, kinds : SUBSET Kind,
          parses : BOOLEAN, describes : BOOLEAN,
          query : SUBSET {"forward", "deny", "reply", "scatter"},
          parse : SUBSET {"forward", "deny", "reply"},
          rewrite : [Text -> Text], wantsRows : BOOLEAN, adjust : BOOLEAN,
          frontend : SUBSET Kind, backend : BOOLEAN,
          portals : BOOLEAN, fails : BOOLEAN, rows : 0..MaxRows,
          msgs : 0..MaxMsgs, losses : 0..MaxLosses]

ASSUME CyclesAssumption ==
    /\ MaxMsgs \in Nat /\ MaxRows \in Nat /\ MaxLosses \in Nat
    /\ None \notin Text /\ Setups \subseteq Setup

VARIABLES
    cl,      \* the client: messages sent, an extended cycle open, waits, last Describe
    pump,    \* the locals of `pump`
    hooks,   \* SessionHooks: the schema and the CycleTracking
    net,     \* the leased connection: write buffer, both directions
    srv,     \* the backend: its statements, whether it skips to Sync
    now,     \* what happened in the current cycle
    ended,   \* what happened in the cycle that has just ended
    report,  \* what on_cycle_end was told at its end
    env      \* the setup and the losses so far

vars == <<cl, pump, hooks, net, srv, now, ended, report, env>>

Msg(k, q) == [k |-> k, q |-> q]
Row(q) == [k |-> "DataRow", q |-> q]
Complete(n) == [k |-> "CommandComplete", n |-> n]
Error == [k |-> "ErrorResponse"]
Ready == [k |-> "ReadyForQuery"]
Suspended == [k |-> "PortalSuspended"]
Other == [k |-> "Other"]
Rows(q, n) == [i \in 1..n |-> Row(q)]

NoReport == [q |-> None, rows |-> 0, dropped |-> 0, err |-> FALSE, made |-> FALSE]
Nothing == [q |-> None, rows |-> 0, dropped |-> 0, err |-> None, since |-> 0, tag |-> 0, counted |-> 0]
Idle == [active |-> FALSE, sql |-> None, rows |-> 0, pending |-> 0, total |-> 0, err |-> FALSE]
NoConn == [alive |-> FALSE, wbuf |-> <<>>, up |-> <<>>, down |-> <<>>]
Statements == [named |-> None, unnamed |-> None, skip |-> FALSE]

Fresh == [sent |-> 0, open |-> FALSE, waits |-> FALSE, desc |-> None]
Locals == [run |-> TRUE, swallow |-> FALSE, extended |-> FALSE, awaiting |-> FALSE,
           fed |-> FALSE, leased |-> FALSE, reg |-> None]

Init ==
    /\ env \in [at : Setups, losses : {0}]
    /\ cl = Fresh
    /\ pump = [Locals EXCEPT !.leased = env.at.mode = "session"]
    /\ hooks = [schema |-> None, cycle |-> Idle]
    /\ net = [NoConn EXCEPT !.alive = pump.leased]
    /\ srv = Statements
    /\ now = Nothing /\ ended = Nothing /\ report = NoReport

TransactionMode == env.at.mode = "transaction"

-----------------------------------------------------------------------------
(* The client.                                                             *)

IsParse(k) == k \in {"Parse", "Prepare"}
NameOf(k) == IF k \in Named THEN "named" ELSE "unnamed"

ClientMay(k) ==
    /\ k \in env.at.kinds /\ ~cl.waits
    /\ cl.sent < env.at.msgs \/ k = "Sync"
    /\ k = "Query" => ~cl.open
    /\ k \in {"Sync", "Flush"} => cl.open
    /\ k \in Unnamed \cup Named =>
          /\ IsParse(k) => ~cl.open
          /\ env.at.parses /\ ~IsParse(k) => cl.open
    /\ k \in {"Execute", "ExecuteNamed"} /\ env.at.describes => cl.desc = NameOf(k)

\* The client after it sent a message of kind k.
Sent(k) ==
    [sent |-> IF cl.sent < env.at.msgs THEN cl.sent + 1 ELSE cl.sent,
     open |-> k \notin {"Query", "Sync"}, waits |-> k \in {"Query", "Sync"},
     desc |-> CASE k \in {"Describe", "DescribeNamed"} -> NameOf(k)
                [] k = "Sync" -> None
                [] OTHER -> cl.desc]

\* The messages the pump may find: the next of the client.
Arrives(m) == pump.run /\ ClientMay(m.k)

\* What a backend message adds to the client's knowledge of the cycle.
Sees(n, m) ==
    CASE m.k = "DataRow" -> [n EXCEPT !.rows = @ + 1, !.since = @ + 1]
      [] m.k = "CommandComplete" -> [n EXCEPT !.tag = m.n, !.counted = n.since, !.since = 0]
      [] m.k = "ErrorResponse" -> [n EXCEPT !.err = "server", !.since = 0]
      [] m.k = "PortalSuspended" -> [n EXCEPT !.since = 0]
      [] OTHER -> n

SeesAll(n, ms) == FoldLeft(Sees, n, ms)
-----------------------------------------------------------------------------
(* CycleTracking.                                                          *)

\* Fault: the counters of the cycle before are kept.
StartKeeps(q) == [hooks.cycle EXCEPT !.active = TRUE, !.sql = q, !.err = FALSE]

\* CycleTracking::start.
Start(q) == [active |-> TRUE, sql |-> q, rows |-> 0, pending |-> 0, total |-> 0, err |-> FALSE]

\* CycleTracking::finish: the report, and what it leaves.
ReportOf(h) ==
    [q |-> h.sql, rows |-> h.rows, dropped |-> h.total, err |-> h.err, made |-> TRUE]
Finish(h) == [h EXCEPT !.active = FALSE, !.sql = None, !.err = FALSE]

\* ReadyForQuery reaches the client c at the end of the cycle n; `told` says whether
\* the cycle h is finished and reported with it.
CycleEnds(c, n, h, told) ==
    /\ cl' = [c EXCEPT !.waits = FALSE]
    /\ ended' = n /\ now' = Nothing
    /\ report' = IF told THEN ReportOf(h) ELSE NoReport
    /\ hooks' = [hooks EXCEPT !.cycle = IF told THEN Finish(h) ELSE h]

\* The cycle goes on.
GoesOn(c, n, h) ==
    /\ cl' = c /\ now' = n
    /\ hooks' = [hooks EXCEPT !.cycle = h]
    /\ ended' = Nothing /\ report' = NoReport

-----------------------------------------------------------------------------
(* Frontend messages.                                                      *)

\* Injected-error recovery: the Sync is answered, and the cycle reported, whether or
\* not one is active.
Swallow(m) ==
    /\ Arrives(m) /\ pump.swallow
    /\ IF m.k = "Sync"
       THEN CycleEnds(Sent(m.k), now, hooks.cycle, TRUE)
       ELSE GoesOn(Sent(m.k), now, hooks.cycle)
    /\ pump' = [pump EXCEPT !.swallow = m.k # "Sync"]
    /\ UNCHANGED <<net, srv, env>>

HandledDetached(m) ==
    TransactionMode /\ ~pump.leased /\ m.k \in {"Sync", "Flush"}

\* Fault: the cycle of a Sync answered locally is not reported.
AnswerDetachedMute(m) ==
    /\ Arrives(m) /\ ~pump.swallow /\ HandledDetached(m)
    /\ IF m.k = "Sync"
       THEN CycleEnds(Sent(m.k), now, hooks.cycle, FALSE)
       ELSE GoesOn(Sent(m.k), now, hooks.cycle)
    /\ UNCHANGED <<pump, net, srv, env>>

\* A Sync or a Flush of a detached session.
AnswerDetached(m) ==
    /\ Arrives(m) /\ ~pump.swallow /\ HandledDetached(m)
    /\ IF m.k = "Sync"
       THEN CycleEnds(Sent(m.k), now, hooks.cycle, hooks.cycle.active)
       ELSE GoesOn(Sent(m.k), now, hooks.cycle)
    /\ UNCHANGED <<pump, net, srv, env>>

StartsCycle(m) == m.k \in {"Query", "Parse", "Prepare"}
Extended(m) == m.k # "Query"

\* on_query is consulted for m and answers `action`.
OnQuery(m, action) ==
    /\ Arrives(m) /\ ~pump.swallow /\ StartsCycle(m)
    /\ action \in (IF Extended(m) THEN env.at.parse ELSE env.at.query)

\* The cycle m starts, as it was, and the pump's note of its protocol.
Asked(m) == [now EXCEPT !.q = m.q]
Noted(m) == IF StartsCycle(m) THEN [pump EXCEPT !.extended = Extended(m)] ELSE pump

\* Action::Deny: an ErrorResponse; then ReadyForQuery, or recovery up to the Sync.
Deny(m) ==
    LET h == [Start(m.q) EXCEPT !.err = TRUE]
        n == [Asked(m) EXCEPT !.err = "deny"]
    IN
    /\ OnQuery(m, "deny")
    /\ pump' = [Noted(m) EXCEPT !.swallow = Extended(m)]
    /\ IF Extended(m) THEN GoesOn(Sent(m.k), n, h) ELSE CycleEnds(Sent(m.k), n, h, TRUE)
    /\ UNCHANGED <<net, srv, env>>

\* Action::Reply with a result of one row, and ReadyForQuery at once; the extended
\* cycle is reported at its Sync.
Reply(m) ==
    LET h == [Start(m.q) EXCEPT !.rows = 1]
        n == SeesAll(Asked(m), <<Row(m.q), Complete(1)>>)
    IN
    /\ OnQuery(m, "reply")
    /\ pump' = [Noted(m) EXCEPT !.swallow = Extended(m)]
    /\ CycleEnds(Sent(m.k), n, h, ~Extended(m))
    /\ UNCHANGED <<net, srv, env>>

\* Action::Scatter (only a Query): the merged result, or an error; a failure of the
\* session's own leg costs the lease.
Scatter(m, rows, failed, broken) ==
    LET h == IF failed THEN [Start(m.q) EXCEPT !.err = TRUE] ELSE [Start(m.q) EXCEPT !.rows = rows]
        n == IF failed THEN [Asked(m) EXCEPT !.err = "scatter"]
             ELSE SeesAll(Asked(m), Append(Rows(m.q, rows), Complete(rows)))
    IN
    /\ OnQuery(m, "scatter")
    /\ broken => failed /\ pump.leased
    /\ CycleEnds(Sent(m.k), n, h, TRUE)
    /\ pump' = [Noted(m) EXCEPT !.leased = @ /\ ~broken]
    /\ net' = IF broken THEN NoConn ELSE net
    /\ srv' = IF broken THEN Statements ELSE srv
    /\ UNCHANGED env

\* Action::Close of on_query, Close, Deny or Scatter of a raw hook, RetryDecision::Close,
\* or the client leaves: the loop ends, and the cycle with it.
SessionEnds ==
    /\ pump.run
    /\ pump' = [Locals EXCEPT !.run = FALSE]
    /\ hooks' = [schema |-> None, cycle |-> Idle]
    /\ net' = NoConn /\ srv' = Statements
    /\ cl' = Fresh /\ now' = Nothing /\ ended' = Nothing /\ report' = NoReport
    /\ UNCHANGED env

\* What on_query's Forward makes of m: the text as rewritten.
Rewritten(m) == IF StartsCycle(m) THEN env.at.rewrite[m.q] ELSE None
Tracked(m) == IF StartsCycle(m) THEN Start(Rewritten(m)) ELSE hooks.cycle
Happens(m) == IF StartsCycle(m) THEN [now EXCEPT !.q = Rewritten(m)] ELSE now

\* m passes the first phases: recovery, local answers, on_query.
Passes(m) ==
    /\ Arrives(m) /\ ~pump.swallow /\ ~HandledDetached(m)
    /\ StartsCycle(m) => OnQuery(m, "forward")

Registered(m) == m.k = "Prepare" /\ pump.reg # None

\* A Parse of a registered name: ParseComplete, or ErrorResponse(42P05) and recovery.
AnswerReparse(m) ==
    /\ Passes(m) /\ Registered(m)
    /\ LET clash == pump.reg # Rewritten(m) IN
       /\ GoesOn(Sent(m.k), IF clash THEN [Happens(m) EXCEPT !.err = "clash"] ELSE Happens(m), Tracked(m))
       /\ pump' = [Noted(m) EXCEPT !.swallow = clash]
    /\ UNCHANGED <<net, srv, env>>

\* ensure_attached for a detached session: a clean connection with the registry.
\* (An attach that fails ends the session; Routing and SessionState have its parts.)
Conn == IF pump.leased THEN net ELSE [NoConn EXCEPT !.alive = TRUE]
AttachedBackend == IF pump.leased THEN srv ELSE [Statements EXCEPT !.named = pump.reg]
Attached(m) ==
    [Noted(m) EXCEPT !.leased = TRUE, !.reg = IF m.k = "Prepare" THEN Rewritten(m) ELSE @]

Forwards(m) == Passes(m) /\ ~Registered(m)

\* on_frontend answers m instead of the server; to a Query or a Sync the answer ends
\* with a ReadyForQuery of its own.
FrontendReply(m) ==
    /\ Forwards(m) /\ m.k \in env.at.frontend
    /\ pump' = Attached(m) /\ net' = Conn /\ srv' = AttachedBackend
    /\ IF m.k \in {"Query", "Sync"}
       THEN CycleEnds(Sent(m.k), Happens(m), Tracked(m), FALSE)
       ELSE GoesOn(Sent(m.k), Happens(m), Tracked(m))
    /\ UNCHANGED env

Triggers(k) == k \in {"Query", "Sync", "Flush"}

\* m is fed, or sent with all that was fed before it.
Forward(m) ==
    LET out == Append(Conn.wbuf, Msg(m.k, Rewritten(m))) IN
    /\ Forwards(m) /\ m.k \notin env.at.frontend
    /\ Conn.alive \/ ~Triggers(m.k)
    /\ net' = IF Triggers(m.k) THEN [Conn EXCEPT !.up = @ \o out, !.wbuf = <<>>]
              ELSE [Conn EXCEPT !.wbuf = out]
    /\ srv' = AttachedBackend
    /\ pump' = [Attached(m) EXCEPT !.awaiting = @ \/ Triggers(m.k), !.fed = TRUE]
    /\ GoesOn(Sent(m.k), Happens(m), Tracked(m))
    /\ UNCHANGED env

\* The lease is destroyed and, if a cycle was interrupted, the client told: error 08006,
\* then ReadyForQuery or recovery (synthesize_upstream_lost: the report is taken before
\* its error is set).
Relink(c, n, h, p, interrupted) ==
    LET q == [p EXCEPT !.leased = FALSE, !.awaiting = FALSE, !.fed = FALSE]
        lost == [n EXCEPT !.err = "lost"]
    IN
    /\ net' = NoConn /\ srv' = Statements
    /\ IF ~interrupted THEN pump' = q /\ GoesOn(c, n, h)
       ELSE IF p.extended THEN pump' = [q EXCEPT !.swallow = TRUE] /\ GoesOn(c, lost, h)
       ELSE /\ pump' = q
            /\ cl' = [c EXCEPT !.waits = FALSE]
            /\ ended' = lost /\ now' = Nothing
            /\ report' = IF h.active THEN ReportOf(h) ELSE NoReport
            /\ hooks' = [hooks EXCEPT !.cycle =
                            IF h.active THEN [Finish(h) EXCEPT !.err = TRUE] ELSE h]

\* A send on a connection that is gone.
SendFails(m) ==
    /\ Forwards(m) /\ m.k \notin env.at.frontend
    /\ ~Conn.alive /\ Triggers(m.k)
    /\ Relink(Sent(m.k), Happens(m), Tracked(m), Attached(m), TRUE)
    /\ UNCHANGED env

-----------------------------------------------------------------------------
(* Backend messages.                                                       *)

Reads(kinds) == pump.run /\ pump.leased /\ net.down # <<>> /\ Head(net.down).k \in kinds
Received == [net EXCEPT !.down = Tail(@)]

\* RowDescription: the schema of the rows that follow.
Describes ==
    /\ Reads({"RowDescription"})
    /\ hooks' = [hooks EXCEPT !.schema = IF env.at.wantsRows THEN Head(net.down).q ELSE @]
    /\ net' = Received
    /\ ended' = Nothing /\ report' = NoReport
    /\ UNCHANGED <<cl, pump, srv, now, env>>

\* DataRow: kept (by on_row or unseen) and counted, or dropped.
KeepRow ==
    /\ Reads({"DataRow"})
    /\ GoesOn(cl, Sees(now, Head(net.down)), [hooks.cycle EXCEPT !.rows = @ + 1])
    /\ net' = Received
    /\ UNCHANGED <<pump, srv, env>>

DropRow ==
    /\ Reads({"DataRow"}) /\ env.at.wantsRows
    /\ GoesOn(cl, [now EXCEPT !.dropped = @ + 1],
              [hooks.cycle EXCEPT !.total = @ + 1, !.pending = @ + 1])
    /\ net' = Received
    /\ UNCHANGED <<pump, srv, env>>

\* adjust_tag: saturating subtraction.
AdjustTag(n, dropped) == IF n < dropped THEN 0 ELSE n - dropped

\* Fault: the next command starts from the rows dropped so far.
CompletesKeeps ==
    LET n == Head(net.down).n
        shown == IF env.at.adjust THEN AdjustTag(n, hooks.cycle.pending) ELSE n
    IN
    /\ Reads({"CommandComplete"})
    /\ GoesOn(cl, Sees(now, Complete(shown)), hooks.cycle)
    /\ net' = Received
    /\ UNCHANGED <<pump, srv, env>>

\* CommandComplete: the count is corrected, and the next command starts from zero.
Completes ==
    LET n == Head(net.down).n
        shown == IF env.at.adjust THEN AdjustTag(n, hooks.cycle.pending) ELSE n
    IN
    /\ Reads({"CommandComplete"})
    /\ GoesOn(cl, Sees(now, Complete(shown)), [hooks.cycle EXCEPT !.pending = 0])
    /\ net' = Received
    /\ UNCHANGED <<pump, srv, env>>

\* ErrorResponse: noted for the report, of whatever cycle.
Fails ==
    /\ Reads({"ErrorResponse"})
    /\ GoesOn(cl, Sees(now, Error), [hooks.cycle EXCEPT !.err = TRUE])
    /\ net' = Received
    /\ UNCHANGED <<pump, srv, env>>

\* Messages no hook but on_backend looks at.
Passing ==
    /\ Reads({"Other", "PortalSuspended"})
    /\ GoesOn(cl, Sees(now, Head(net.down)), hooks.cycle)
    /\ net' = Received
    /\ UNCHANGED <<pump, srv, env>>

Rfq == [pump EXCEPT !.awaiting = FALSE, !.fed = FALSE]

\* ReadyForQuery forwarded: an active cycle is finished and reported; in transaction
\* mode the session detaches.
CycleDone ==
    /\ Reads({"ReadyForQuery"}) /\ ~env.at.backend
    /\ CycleEnds(cl, now, hooks.cycle, hooks.cycle.active)
    /\ pump' = [Rfq EXCEPT !.leased = ~TransactionMode]
    /\ net' = IF TransactionMode THEN NoConn ELSE Received
    /\ srv' = IF TransactionMode THEN Statements ELSE srv
    /\ UNCHANGED env

\* ReadyForQuery sent on by on_backend itself: no report, no detach.
BackendReply ==
    /\ Reads({"ReadyForQuery"}) /\ env.at.backend
    /\ CycleEnds(cl, now, hooks.cycle, FALSE)
    /\ pump' = Rfq /\ net' = Received
    /\ UNCHANGED <<srv, env>>

\* The upstream closed.
UpstreamEnds ==
    /\ pump.run /\ pump.leased /\ ~net.alive /\ net.down = <<>>
    /\ Relink(cl, now, hooks.cycle, pump, pump.awaiting)
    /\ UNCHANGED env

-----------------------------------------------------------------------------
(* The server and the network.                                             *)

Describe(q) == [k |-> "RowDescription", q |-> q]
Results(q) ==
    {Append(Rows(q, n), Complete(n)) : n \in 0..env.at.rows} \cup
    {Append(Rows(q, n), Error) : n \in IF env.at.fails THEN 0..env.at.rows ELSE {}}
Portals(q) == IF env.at.portals THEN {Append(Rows(q, env.at.rows), Suspended)} ELSE {}

\* What a text sent as a Query gives: the result of one command, or of two.
Answers(q) ==
    {<<Describe(q)>> \o r : r \in Results(q)} \cup
    {<<Describe(q)>> \o Rows(q, env.at.rows) \o <<Complete(env.at.rows), Describe(q)>> \o r : r \in Results(q)}

\* The statement a message is about.
Held(m) == srv[NameOf(m.k)]

\* The answers to m, and the backend after each.
Responses(m) ==
    CASE m.k = "Query" -> {[out |-> Append(r, Ready), next |-> [srv EXCEPT !.unnamed = None]] : r \in Answers(m.q)}
      [] m.k = "Sync" -> {[out |-> <<Ready>>, next |-> [srv EXCEPT !.skip = FALSE]]}
      [] srv.skip \/ m.k = "Flush" -> {[out |-> <<>>, next |-> srv]}
      [] IsParse(m.k) -> {[out |-> <<Other>>, next |-> [srv EXCEPT ![NameOf(m.k)] = m.q]]}
      [] Held(m) = None -> {[out |-> <<Error>>, next |-> [srv EXCEPT !.skip = TRUE]]}
      [] m.k \in {"Describe", "DescribeNamed"} -> {[out |-> <<Describe(Held(m))>>, next |-> srv]}
      [] OTHER -> {[out |-> r, next |-> [srv EXCEPT !.skip = Last(r) = Error]] :
                      r \in Results(Held(m)) \cup Portals(Held(m))}

ServerStep ==
    /\ net.alive /\ net.up # <<>>
    /\ \E r \in Responses(Head(net.up)) :
          /\ net' = [net EXCEPT !.up = Tail(@), !.down = @ \o r.out]
          /\ srv' = r.next
    /\ UNCHANGED <<cl, pump, hooks, now, ended, report, env>>

\* The connection breaks; a part of what was sent arrives.
Lose ==
    /\ pump.run /\ net.alive /\ env.losses < env.at.losses
    /\ \E n \in 0..Len(net.down) :
          net' = [NoConn EXCEPT !.wbuf = net.wbuf, !.down = SubSeq(net.down, 1, n)]
    /\ env' = [env EXCEPT !.losses = @ + 1]
    /\ UNCHANGED <<cl, pump, hooks, srv, now, ended, report>>

-----------------------------------------------------------------------------

FromClient(m) ==
    \/ Swallow(m) \/ AnswerDetached(m)
    \/ Deny(m) \/ Reply(m)
    \/ \E rows \in 0..env.at.rows, failed, broken \in BOOLEAN : Scatter(m, rows, failed, broken)
    \/ AnswerReparse(m) \/ FrontendReply(m) \/ Forward(m) \/ SendFails(m)

FromServer ==
    Describes \/ KeepRow \/ DropRow \/ Completes \/ Fails \/ Passing
      \/ CycleDone \/ BackendReply \/ UpstreamEnds

Message == [k : {"Query", "Parse", "Prepare"}, q : Text] \cup [k : Kind \ {"Query", "Parse", "Prepare"}, q : {None}]

Next ==
    \/ \E m \in {x \in Message : Arrives(x)} : FromClient(m)
    \/ FromServer \/ ServerStep \/ Lose \/ SessionEnds

Spec == Init /\ [][Next]_vars

\* The pump handles what its server sends, the server answers, and a client that
\* started an extended cycle sends its Sync.
FairSpec ==
    Spec /\ WF_vars(FromServer) /\ WF_vars(ServerStep) /\ WF_vars(FromClient(Msg("Sync", None)))

-----------------------------------------------------------------------------

\* The variables keep their types (SessionHooks, CycleTracking).
TypeOK ==
    /\ cl \in [sent : 0..MaxMsgs, open : BOOLEAN, waits : BOOLEAN, desc : {None, "named", "unnamed"}]
    /\ pump \in [run : BOOLEAN, swallow : BOOLEAN, extended : BOOLEAN, awaiting : BOOLEAN,
                 fed : BOOLEAN, leased : BOOLEAN, reg : Text \cup {None}]
    /\ hooks.schema \in Text \cup {None} /\ hooks.cycle.active \in BOOLEAN
    /\ hooks.cycle.active => hooks.cycle.sql \in Text
    /\ env \in [at : Setup, losses : 0..MaxLosses]

\* A raw hook sends ReadyForQuery itself.
OwnReady == env.at.backend \/ env.at.frontend \cap {"Query", "Sync"} # {}

\* The cycle on_query was consulted for, and no other, is reported when its
\* ReadyForQuery is sent: with the text that was run or refused, the rows the client
\* got and the rows it did not get (on_cycle_end, CycleReport).
ReportIsAlwaysTrue ==
    /\ report.made <=> ended.q # None
    /\ report.made => report.q = ended.q /\ report.rows = ended.rows /\ report.dropped = ended.dropped

\* It is so unless a raw hook sends the ReadyForQuery itself; and the report has an error
\* exactly if the cycle ended in an ErrorResponse, be it of the server, a denial or a
\* failed scatter (CycleReport::error).
ReportIsTrue ==
    /\ ~OwnReady => ReportIsAlwaysTrue
    /\ report.made /\ ended.err \notin {"lost", "clash"} => (report.err <=> ended.err # None)

\* The same of every error the client got.
AllErrorsAreReported == report.made => (report.err <=> ended.err # None)

\* With adjust_command_counts the count of a command is the number of its rows the
\* client got, whatever on_row dropped (the correction of CommandComplete).
TagsCountRows == env.at.adjust => now.tag = now.counted

\* "The result-set schema in effect for a `DataRow`" (RowSchema): on_row sees a row under
\* the schema of the statement it comes from.  It is so of a client that describes what
\* it executes, and not of one that does not.
SchemaFits == env.at.wantsRows /\ Reads({"DataRow"}) => hooks.schema = Head(net.down).q

\* A cycle on_query let pass, denied or answered is reported, or its session ends.
CyclesAreReported == hooks.cycle.active /\ ~OwnReady ~> ~hooks.cycle.active \/ ~pump.run
=============================================================================
