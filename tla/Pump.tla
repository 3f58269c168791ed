-------------------------------- MODULE Pump --------------------------------
(***************************************************************************)
(* One session: the client, the pump of session.rs, the upstream           *)
(* connection it leases and the server behind it, message by message, and  *)
(* the return of the connection to the pool (detach and checkin's          *)
(* sanitize, pool.rs).                                                     *)
(*                                                                         *)
(* The pump is one task: the body of a select! arm runs to its end before  *)
(* another arm is looked at, so an arm is one action; a DISCARD ALL on     *)
(* detach and the steps of sanitize, which read the connection themselves, *)
(* are actions of their own.  The client and the server run beside it.     *)
(*                                                                         *)
(* A message is its kind and the number of the client message it is or     *)
(* answers (0: the proxy's own).  SQL, rows and the cycle telemetry are    *)
(* left out.  Execute and Describe behave like Bind.  A connection taken   *)
(* from the pool is clean: ParkedQuiet is what makes that so.              *)
(***************************************************************************)
EXTENDS Integers, Sequences

CONSTANTS
    Setups,        \* the sessions, clients and hooks of a run
    MaxMsgs,       \* bound: messages a client sends
    MaxLosses      \* bound: upstream connections lost or not opened

\* The pool's mode; what the client sends, how many Query and Sync messages it sends
\* before it waits and whether a cycle may hold more than one Parse; what on_query
\* and on_upstream_error answer; whether a cancelled query ends within
\* CANCEL_DRAIN_TIMEOUT; how many messages are sent and connections lost.
Setup == [mode : {"session", "transaction"},
          kinds : SUBSET {"Query", "CopyDone", "Parse", "Reparse", "Bind", "Close", "Flush", "Sync"},
          window : 1..MaxMsgs, multiParse : BOOLEAN,
          hooks : SUBSET {"forward", "deny", "reply", "scatter", "close"},
          policies : SUBSET {"relink", "close"}, prompt : BOOLEAN,
          msgs : 0..MaxMsgs, losses : 0..MaxLosses]

ASSUME PumpAssumption ==
    MaxMsgs \in Nat /\ MaxLosses \in Nat /\ Setups \subseteq Setup

VARIABLES
    cl,     \* the client, and its socket to the proxy
    pump,   \* the pump's locals
    conn,   \* the upstream connection, leased or parked
    srv,    \* the server's end of it
    env     \* the setup, the losses so far, the shutdown signal

vars == <<cl, pump, conn, srv, env>>

Status == {"I", "T"}                     \* TransactionStatus; T also stands for E
Asks == {"Query", "Sync"}                \* answered by a ReadyForQuery
CycleStart == {"Query", "Parse", "Reparse"}          \* cycle_input_of
Awaited == {"Query", "Sync", "Flush"}
Triggers == {"Query", "Sync", "Flush", "CopyDone", "CopyFail"}

Msg(k, id) == [k |-> k, id |-> id]
Resp(k, id) == [k |-> k, id |-> id, st |-> "I"]
Rfq(id, st) == [k |-> "rfq", id |-> id, st |-> st]

FreshConn == [where |-> "leased", alive |-> TRUE, wbuf |-> <<>>, up |-> <<>>,
              down |-> <<>>, status |-> "I", step |-> "none"]
FreshSrv == [txn |-> "I", skip |-> FALSE, copy |-> FALSE]

TransactionMode == env.at.mode = "transaction"
Kinds == env.at.kinds
QueryHooks == env.at.hooks
Policies == env.at.policies

\* A session mode pump starts with its lease, a transaction mode one without.
Init ==
    /\ cl = [here |-> TRUE, sent |-> 0, c2p |-> <<>>, open |-> FALSE, copy |-> FALSE,
             asks |-> 0, rfqs |-> 0, last |-> 0, st |-> "I"]
    /\ pump = [run |-> "run", awaiting |-> FALSE, copy |-> FALSE, fed |-> FALSE,
               ext |-> FALSE, swallow |-> FALSE, draining |-> FALSE, dst |-> "I",
               dirty |-> FALSE, registered |-> FALSE, gucs |-> FALSE, seen |-> 0]
    /\ env \in [at : Setups, losses : {0}, shutdown : {"no"}]
    /\ conn = [FreshConn EXCEPT !.where = IF TransactionMode THEN "none" ELSE "leased"]
    /\ srv = FreshSrv

Leased == conn.where = "leased"
AtSelect == pump.run = "run" /\ conn.step = "none"

-----------------------------------------------------------------------------
(***************************************************************************)
(* The client.  It follows the protocol: with a window of 1 it waits for   *)
(* the ReadyForQuery of a cycle before it starts the next one.             *)
(***************************************************************************)
ClientMay(k) ==
    CASE k = "CopyDone" -> cl.copy
      [] k = "Flush" -> cl.open
      [] k = "Sync" -> ~cl.copy /\ cl.asks - cl.rfqs < env.at.window
      [] k = "Query" -> ~cl.copy /\ ~cl.open /\ cl.asks - cl.rfqs < env.at.window
      [] OTHER -> /\ ~cl.copy /\ cl.asks - cl.rfqs < env.at.window
                  /\ k \in CycleStart => (~cl.open \/ env.at.multiParse)

\* The bound never keeps a client from ending what it began.
Finishes(k) == k = "CopyDone" \/ (k = "Sync" /\ cl.open)

ClientSend(k) ==
    /\ cl.here /\ ClientMay(k)
    /\ cl.sent < env.at.msgs \/ Finishes(k)
    /\ cl' = [cl EXCEPT !.sent = @ + 1,
                        !.c2p = Append(@, Msg(k, cl.sent + 1)),
                        !.asks = IF k \in Asks THEN @ + 1 ELSE @,
                        !.open = k \notin {"Query", "Sync", "CopyDone"},
                        !.copy = @ /\ k # "CopyDone"]
    /\ UNCHANGED <<pump, conn, srv, env>>

\* Terminate, or the socket is closed; what was sent before can still be read.
ClientLeaves ==
    /\ cl.here
    /\ cl' = [cl EXCEPT !.here = FALSE]
    /\ UNCHANGED <<pump, conn, srv, env>>

\* The client after the proxy sent it response r.
Deliver(c, r) ==
    [c EXCEPT !.last = r.id,
              !.rfqs = IF r.k = "rfq" THEN @ + 1 ELSE @,
              !.st = IF r.k = "rfq" THEN r.st ELSE @,
              !.copy = r.k = "copyin" \/ (@ /\ r.k \notin {"err", "rfq"})]

-----------------------------------------------------------------------------
(***************************************************************************)
(* The server.  After an error in an extended cycle it skips to the Sync;  *)
(* while a COPY waits for data it ignores Sync and Flush.                  *)
(***************************************************************************)
Outcome(out, s) == [out |-> out, srv |-> s]

Outcomes(m) ==
    LET ready(s) == Rfq(m.id, s.txn)
        quiet == {Outcome(<<>>, srv)}
        failed == [srv EXCEPT !.copy = FALSE]
    IN
    CASE srv.copy ->
            IF m.k \in {"Sync", "Flush"} THEN quiet
            ELSE {Outcome(<<Resp(IF m.k = "CopyDone" THEN "done" ELSE "err", m.id),
                            ready(failed)>>, failed)}
      [] ~srv.copy /\ m.k = "Sync" ->
            {Outcome(<<ready(srv)>>, [srv EXCEPT !.skip = FALSE])}
      [] ~srv.copy /\ m.k # "Sync" /\ (srv.skip \/ m.k \in {"Flush", "CopyDone", "CopyFail"}) ->
            quiet
      [] ~srv.copy /\ ~srv.skip /\ m.k = "Query" ->
            {Outcome(<<Resp("err", m.id), ready(srv)>>, srv)}
            \cup {Outcome(<<Resp(r, m.id), Rfq(m.id, t)>>, [srv EXCEPT !.txn = t]) :
                     r \in {"done", "param"}, t \in Status}
            \cup {Outcome(<<Resp("copyin", m.id)>>, [srv EXCEPT !.copy = TRUE]) :
                     c \in Kinds \cap {"CopyDone"}}
      [] ~srv.copy /\ ~srv.skip /\ m.k = "Rollback" ->
            {Outcome(<<Resp("done", m.id), Rfq(m.id, "I")>>, [srv EXCEPT !.txn = "I"]),
             Outcome(<<Resp("err", m.id), ready(srv)>>, srv)}
      [] ~srv.copy /\ ~srv.skip /\ m.k = "Discard" ->
            {Outcome(<<Resp(r, m.id), ready(srv)>>, srv) :
                r \in IF srv.txn = "I" THEN {"done", "err"} ELSE {"err"}}
      [] OTHER ->
            {Outcome(<<Resp("done", m.id)>>, srv),
             Outcome(<<Resp("err", m.id)>>, [srv EXCEPT !.skip = TRUE])}

ServerStep ==
    /\ conn.where \in {"leased", "parked"} /\ conn.alive /\ conn.up # <<>>
    /\ \E o \in Outcomes(Head(conn.up)) :
          /\ conn' = [conn EXCEPT !.up = Tail(@), !.down = @ \o o.out]
          /\ srv' = o.srv
    /\ UNCHANGED <<cl, pump, env>>

\* The connection is lost; what the server sent may be lost with it.
Lose ==
    /\ Leased /\ conn.alive /\ env.losses < env.at.losses
    /\ \E down \in {conn.down, <<>>} :
          conn' = [conn EXCEPT !.alive = FALSE, !.up = <<>>, !.wbuf = <<>>, !.down = down]
    /\ env' = [env EXCEPT !.losses = @ + 1]
    /\ UNCHANGED <<cl, pump, srv>>

-----------------------------------------------------------------------------
(***************************************************************************)
(* The frontend arm: what the pump answers itself.                         *)
(***************************************************************************)
Arrived == AtSelect /\ cl.c2p # <<>>
Msg1 == Head(cl.c2p)

Taken == [cl EXCEPT !.c2p = Tail(@)]
LeaseStatus == IF Leased THEN conn.status ELSE "I"

\* swallow_until_sync: drop everything up to the Sync, answer that.
Swallow ==
    /\ Arrived /\ pump.swallow
    /\ IF Msg1.k = "Sync"
         THEN /\ pump' = [pump EXCEPT !.swallow = FALSE]
              /\ cl' = Deliver(Taken, Rfq(Msg1.id, LeaseStatus))
         ELSE /\ cl' = Taken
              /\ UNCHANGED pump
    /\ UNCHANGED <<conn, srv, env>>

\* Fault: a Close is answered locally although a connection is attached.
HandledAttached(m) ==
    /\ TransactionMode /\ m.k \in {"Sync", "Flush", "Close"}
    /\ ~Leased \/ m.k = "Close"

HandledDetached(m) == TransactionMode /\ ~Leased /\ m.k \in {"Sync", "Flush", "Close"}

\* Detached: a Sync, a Flush or a Close has no connection to go to.  The
\* closed statement may or may not have been the last one registered.
AnswerDetached ==
    /\ Arrived /\ ~pump.swallow /\ HandledDetached(Msg1)
    /\ CASE Msg1.k = "Sync" -> /\ cl' = Deliver(Taken, Rfq(Msg1.id, pump.dst))
                               /\ UNCHANGED pump
         [] Msg1.k = "Flush" -> cl' = Taken /\ UNCHANGED pump
         [] Msg1.k = "Close" -> /\ cl' = Deliver(Taken, Resp("done", Msg1.id))
                                /\ \E r \in {FALSE, pump.registered} :
                                      pump' = [pump EXCEPT !.registered = r]
    /\ UNCHANGED <<conn, srv, env>>

\* m reaches the on_query phase; Consulted sets cycle_is_extended.
Reaches(m) == Arrived /\ ~pump.swallow /\ ~HandledDetached(m)
Consulted(m) == [pump EXCEPT !.ext = IF m.k \in CycleStart THEN m.k # "Query" ELSE @,
                             !.seen = m.id]

\* Fault: the ReadyForQuery after a denied Query always says idle.
DenyIdle ==
    /\ Arrived /\ Reaches(Msg1) /\ Msg1.k \in CycleStart /\ "deny" \in QueryHooks
    /\ LET told == Deliver(Taken, Resp("err", Msg1.id)) IN
       cl' = IF Msg1.k = "Query" THEN Deliver(told, Rfq(Msg1.id, "I")) ELSE told
    /\ pump' = [Consulted(Msg1) EXCEPT !.swallow = Msg1.k # "Query"]
    /\ UNCHANGED <<conn, srv, env>>

\* Fault: a denied Parse is followed by a ReadyForQuery at once.
DenyReady ==
    /\ Arrived /\ Reaches(Msg1) /\ Msg1.k \in CycleStart /\ "deny" \in QueryHooks
    /\ cl' = Deliver(Deliver(Taken, Resp("err", Msg1.id)), Rfq(Msg1.id, LeaseStatus))
    /\ pump' = [Consulted(Msg1) EXCEPT !.swallow = Msg1.k # "Query"]
    /\ UNCHANGED <<conn, srv, env>>

\* Action::Deny: the error, then ReadyForQuery for a Query and recovery up
\* to the Sync for a Parse.
Deny ==
    /\ Arrived /\ Reaches(Msg1) /\ Msg1.k \in CycleStart /\ "deny" \in QueryHooks
    /\ LET told == Deliver(Taken, Resp("err", Msg1.id)) IN
       IF Msg1.k = "Query"
         THEN /\ cl' = Deliver(told, Rfq(Msg1.id, LeaseStatus))
              /\ pump' = Consulted(Msg1)
         ELSE /\ cl' = told
              /\ pump' = [Consulted(Msg1) EXCEPT !.swallow = TRUE]
    /\ UNCHANGED <<conn, srv, env>>

\* Action::Reply: the messages and a ReadyForQuery, for a Parse as well.
Reply ==
    /\ Arrived /\ Reaches(Msg1) /\ Msg1.k \in CycleStart /\ "reply" \in QueryHooks
    /\ cl' = Deliver(Deliver(Taken, Resp("done", Msg1.id)), Rfq(Msg1.id, LeaseStatus))
    /\ pump' = [Consulted(Msg1) EXCEPT !.swallow = Msg1.k # "Query"]
    /\ UNCHANGED <<conn, srv, env>>

\* Action::Scatter.  Outside a simple, idle cycle it is refused: the error
\* and a ReadyForQuery that says idle.  A leg may run on the session's lease.
Scatter ==
    /\ Arrived /\ Reaches(Msg1) /\ Msg1.k \in CycleStart /\ "scatter" \in QueryHooks
    /\ \/ /\ Msg1.k = "Query" /\ pump.dst = "I"
          /\ cl' = Deliver(Deliver(Taken, Resp("done", Msg1.id)), Rfq(Msg1.id, pump.dst))
          /\ pump' = Consulted(Msg1)
          /\ UNCHANGED conn
       \/ /\ cl' = Deliver(Deliver(Taken, Resp("err", Msg1.id)), Rfq(Msg1.id, "I"))
          /\ pump' = [Consulted(Msg1) EXCEPT !.dst = "I"]
          /\ \/ UNCHANGED conn
             \/ /\ Leased /\ ~conn.alive /\ Msg1.k = "Query" /\ pump.dst = "I"
                /\ conn' = [conn EXCEPT !.where = "closed"]
    /\ UNCHANGED <<srv, env>>

\* Action::Close ends the session.
HookClose ==
    /\ Arrived /\ Reaches(Msg1) /\ Msg1.k \in CycleStart /\ "close" \in QueryHooks
    /\ cl' = Taken
    /\ pump' = [Consulted(Msg1) EXCEPT !.run = "gone"]
    /\ UNCHANGED <<conn, srv, env>>

Forwards(m) == Reaches(m) /\ (m.k \in CycleStart => "forward" \in QueryHooks)

\* A Parse of a registered name: ParseComplete for the same SQL, an error and
\* recovery up to the Sync for another.  A name nobody registered is "Parse".
AnswerReparse ==
    /\ Arrived /\ Forwards(Msg1) /\ Msg1.k = "Reparse" /\ pump.registered
    /\ \E same \in BOOLEAN :
          /\ cl' = Deliver(Taken, Resp(IF same THEN "done" ELSE "err", Msg1.id))
          /\ pump' = [Consulted(Msg1) EXCEPT !.swallow = ~same]
    /\ UNCHANGED <<conn, srv, env>>

-----------------------------------------------------------------------------
(***************************************************************************)
(* The frontend arm: attach, record the statement, send or feed.           *)
(***************************************************************************)
Forwarded(m) == Forwards(m) /\ ~(m.k = "Reparse" /\ pump.registered)

\* The pump's locals once m is on its way.  An attach replays the registry
\* and the GUC overrides that the connection does not have yet (reset), and
\* that dirties the lease; a named Parse is recorded and dirties it too.
Accounted(m, reset, named) ==
    [Consulted(m) EXCEPT
        !.dirty = \/ @ \/ named
                  \/ ~Leased /\ (pump.registered \/ (pump.gucs /\ reset)),
        !.registered = @ \/ named,
        !.awaiting = @ \/ m.k \in Awaited]

Attached == IF Leased THEN conn ELSE FreshConn

\* send writes out what was fed before; feed only buffers.
Written(c, m) ==
    IF m.k \in Triggers
      THEN [c EXCEPT !.up = IF c.alive THEN @ \o c.wbuf \o <<m>> ELSE @, !.wbuf = <<>>]
      ELSE [c EXCEPT !.wbuf = Append(@, m)]

Forward ==
    /\ Arrived /\ Forwarded(Msg1)
    /\ cl' = Taken
    /\ \E reset \in BOOLEAN, named \in {FALSE, Msg1.k \in CycleStart \ {"Query"}} :
          pump' = [Accounted(Msg1, reset, named) EXCEPT !.fed = TRUE]
    /\ conn' = Written(Attached, Msg1)
    /\ srv' = IF Leased THEN srv ELSE FreshSrv
    /\ UNCHANGED env

\* No endpoint could be attached, or its state could not be replayed (a
\* statement the server refused when it was new is refused again): FATAL.
AttachFails ==
    /\ Arrived /\ Forwarded(Msg1) /\ ~Leased
    /\ \/ env.losses < env.at.losses /\ env' = [env EXCEPT !.losses = @ + 1]
       \/ pump.registered /\ UNCHANGED env
    /\ cl' = Deliver(Taken, Resp("err", Msg1.id))
    /\ pump' = [Consulted(Msg1) EXCEPT !.run = "gone"]
    /\ UNCHANGED <<conn, srv>>

\* synthesize_upstream_lost: what the client and the locals are after it.
LostAnswer(c, p) ==
    LET told == Deliver(c, Resp("err", p.seen)) IN
    IF p.ext THEN told ELSE Deliver(told, Rfq(p.seen, "I"))

LostLocals(p) ==
    IF p.ext THEN [p EXCEPT !.swallow = TRUE] ELSE [p EXCEPT !.dst = "I"]

\* Relink: the lease is destroyed, an interrupted cycle is answered.
Relink(c, p, interrupted) ==
    LET q == IF interrupted THEN LostLocals(p) ELSE p IN
    /\ cl' = IF interrupted THEN LostAnswer(c, p) ELSE c
    /\ pump' = [q EXCEPT !.awaiting = FALSE, !.fed = FALSE]
    /\ conn' = [conn EXCEPT !.where = "closed"]

Broken(c, p) ==
    /\ cl' = c
    /\ pump' = [p EXCEPT !.run = "broken"]
    /\ UNCHANGED conn

SendFails ==
    /\ Arrived /\ Forwarded(Msg1) /\ Leased /\ ~conn.alive
    /\ \E named \in {FALSE, Msg1.k \in CycleStart \ {"Query"}} :
          LET p == Accounted(Msg1, FALSE, named) IN
          \/ "relink" \in Policies /\ Relink(Taken, p, p.awaiting \/ p.fed)
          \/ "close" \in Policies /\ Broken(Taken, p)
    /\ UNCHANGED <<srv, env>>

-----------------------------------------------------------------------------
(***************************************************************************)
(* The backend arm.                                                        *)
(***************************************************************************)
Tracked(m) ==
    CASE m.k = "rfq" -> [pump EXCEPT !.dst = m.st, !.awaiting = FALSE, !.copy = FALSE,
                                     !.fed = FALSE]
      [] m.k = "param" -> [pump EXCEPT !.gucs = TRUE, !.dirty = @ \/ TransactionMode]
      [] m.k = "copyin" -> [pump EXCEPT !.copy = TRUE]
      [] OTHER -> pump

ReadFrom(c) ==
    LET m == Head(c.down) IN
    [c EXCEPT !.down = Tail(@), !.status = IF m.k = "rfq" THEN m.st ELSE @]

\* A message of the proxy's own is written out with whatever was fed before.
Issue(c, k, step) ==
    [c EXCEPT !.up = IF c.alive THEN @ \o c.wbuf \o <<Msg(k, 0)>> ELSE @,
              !.wbuf = <<>>, !.step = step]

\* detach_if_idle: the lease goes back at an idle ReadyForQuery, after a
\* DISCARD ALL when it was dirtied.
Detach(c, p, m) ==
    IF TransactionMode /\ m.k = "rfq" /\ m.st = "I"
      THEN /\ conn' = IF p.dirty THEN Issue(c, "Discard", "detach")
                                 ELSE [c EXCEPT !.where = "parked"]
           /\ pump' = [p EXCEPT !.dirty = FALSE]
      ELSE conn' = c /\ pump' = p

Backend ==
    /\ AtSelect /\ Leased /\ conn.down # <<>>
    /\ LET m == Head(conn.down)
           c == ReadFrom(conn)
           p == Tracked(m)
       IN \/ /\ ~cl.here                     \* downstream.send fails
             /\ pump' = [p EXCEPT !.run = "gone"]
             /\ conn' = c
             /\ UNCHANGED cl
          \/ /\ cl' = Deliver(cl, m)
             /\ IF m.k = "rfq" /\ p.draining
                  THEN pump' = [p EXCEPT !.run = "gone"] /\ conn' = c
                  ELSE Detach(c, p, m)
    /\ UNCHANGED <<srv, env>>

\* Fault: the interrupted query is not answered.
UpstreamEndsSilent ==
    /\ AtSelect /\ Leased /\ ~conn.alive /\ conn.down = <<>>
    /\ "relink" \in Policies /\ Relink(cl, pump, FALSE)
    /\ UNCHANGED <<srv, env>>

\* The stream ends: relink or close.  A read error always closes.
UpstreamEnds ==
    /\ AtSelect /\ Leased /\ ~conn.alive /\ conn.down = <<>>
    /\ \/ "relink" \in Policies /\ Relink(cl, pump, pump.awaiting)
       \/ Broken(cl, pump)
    /\ UNCHANGED <<srv, env>>

-----------------------------------------------------------------------------
(***************************************************************************)
(* The other arms, and the end of the session.                             *)
(***************************************************************************)
ClientGone ==
    /\ AtSelect /\ ~cl.here
    /\ pump' = [pump EXCEPT !.run = "gone"]
    /\ UNCHANGED <<cl, conn, srv, env>>

Shutdown ==
    /\ env.shutdown = "no"
    /\ env' = [env EXCEPT !.shutdown = "signalled"]
    /\ UNCHANGED <<cl, pump, conn, srv>>

\* Fault: an idle session waits for the end of a cycle, too.
ShutdownSeenDrains ==
    /\ AtSelect /\ env.shutdown = "signalled"
    /\ env' = [env EXCEPT !.shutdown = "seen"]
    /\ pump' = [pump EXCEPT !.draining = TRUE]
    /\ UNCHANGED <<cl, conn, srv>>

ShutdownSeen ==
    /\ AtSelect /\ env.shutdown = "signalled"
    /\ env' = [env EXCEPT !.shutdown = "seen"]
    /\ pump' = IF pump.awaiting \/ pump.copy THEN [pump EXCEPT !.draining = TRUE]
                                             ELSE [pump EXCEPT !.run = "gone"]
    /\ UNCHANGED <<cl, conn, srv>>

Destroy ==
    /\ pump.run = "broken" /\ Leased
    /\ conn' = [conn EXCEPT !.where = "closed"]
    /\ UNCHANGED <<cl, pump, srv, env>>

-----------------------------------------------------------------------------
(***************************************************************************)
(* checkin: sanitize, step by step, and the DISCARD ALL of a detach.       *)
(***************************************************************************)
\* Fault: a Sync is sent on top of the query that is still running.
CheckinSyncs ==
    /\ pump.run = "gone" /\ Leased /\ conn.step = "none"
    /\ conn' = Issue(conn, IF pump.copy THEN "CopyFail" ELSE "Sync", "close_cycle")
    /\ UNCHANGED <<cl, pump, srv, env>>

\* A COPY that waits for data is failed; a running query is cancelled (on a
\* connection of its own) and drained; otherwise a Sync closes the cycle.
Checkin ==
    /\ pump.run = "gone" /\ Leased /\ conn.step = "none"
    /\ conn' = CASE pump.copy -> Issue(conn, "CopyFail", "settle")
                 [] ~pump.copy /\ pump.awaiting -> [conn EXCEPT !.step = "settle"]
                 [] OTHER -> Issue(conn, "Sync", "close_cycle")
    /\ UNCHANGED <<cl, pump, srv, env>>

\* Nothing came within CANCEL_DRAIN_TIMEOUT: close_cycle.
SettleTimesOut ==
    /\ conn.step = "settle"
    /\ env.at.prompt => (conn.down = <<>> /\ conn.up = <<>>)
    /\ conn' = Issue(conn, "Sync", "close_cycle")
    /\ UNCHANGED <<cl, pump, srv, env>>

\* What follows the ReadyForQuery a step waited for.
NextStep(c) ==
    CASE c.step \in {"settle", "close_cycle"} /\ c.status # "I" ->
            Issue(c, "Rollback", "rollback")
      [] c.step = "rollback" \/ (c.step \in {"settle", "close_cycle"} /\ c.status = "I") ->
            Issue(c, "Discard", "discard")
      [] OTHER -> [c EXCEPT !.where = "parked", !.step = "none"]

\* A step reads on to its ReadyForQuery; an error answers a simple_query.
StepReads ==
    /\ Leased /\ conn.step # "none" /\ conn.down # <<>>
    /\ LET m == Head(conn.down)
           c == ReadFrom(conn)
       IN conn' = CASE m.k = "rfq" -> NextStep(c)
                    [] m.k = "err" /\ conn.step \in {"rollback", "discard", "detach"} ->
                          [c EXCEPT !.where = "closed", !.step = "none"]
                    [] OTHER -> c
    /\ UNCHANGED <<cl, pump, srv, env>>

\* SANITIZE_TIMEOUT, or the connection is lost: it is dropped.
StepFails ==
    /\ Leased /\ conn.step # "none"
    /\ conn' = [conn EXCEPT !.where = "closed", !.step = "none"]
    /\ UNCHANGED <<cl, pump, srv, env>>

-----------------------------------------------------------------------------
Frontend ==
    \/ Swallow \/ AnswerDetached \/ Deny \/ Reply \/ Scatter \/ HookClose \/ AnswerReparse
    \/ Forward \/ AttachFails \/ SendFails

CheckinStep == Checkin \/ SettleTimesOut \/ StepReads \/ StepFails \/ Destroy

Next ==
    \/ \E k \in Kinds : ClientSend(k)
    \/ ClientLeaves \/ ServerStep \/ Lose
    \/ Frontend \/ Backend \/ UpstreamEnds
    \/ ClientGone \/ Shutdown \/ ShutdownSeen
    \/ CheckinStep

Spec == Init /\ [][Next]_vars

\* A server answers what it was sent and a client ends the cycle or the COPY
\* it began.  select! picks among its ready arms at random, so no arm that
\* stays ready is passed over for ever; a step of checkin ends at the latest
\* with SANITIZE_TIMEOUT.
Fairness ==
    /\ WF_vars(ServerStep)
    /\ WF_vars(\E k \in Kinds : Finishes(k) /\ ClientSend(k))
    /\ WF_vars(Frontend) /\ WF_vars(Backend) /\ WF_vars(UpstreamEnds)
    /\ WF_vars(ClientGone) /\ WF_vars(ShutdownSeen) /\ WF_vars(CheckinStep)

FairSpec == Spec /\ Fairness

-----------------------------------------------------------------------------
(***************************************************************************)
(* Properties.                                                             *)
(***************************************************************************)
Messages(K) == [k : K, id : 0..(MaxMsgs + 2)]
Responses == [k : {"done", "err", "param", "copyin", "rfq"}, id : 0..(MaxMsgs + 2), st : Status]

\* Every variable has its type (the locals of pump, session.rs).
TypeOK ==
    /\ cl \in [here : BOOLEAN, sent : 0..(MaxMsgs + 2), c2p : Seq(Messages(Kinds)),
               open : BOOLEAN, copy : BOOLEAN, asks : Nat, rfqs : Nat,
               last : 0..(MaxMsgs + 2), st : Status]
    /\ pump \in [run : {"run", "gone", "broken"}, awaiting : BOOLEAN, copy : BOOLEAN,
                 fed : BOOLEAN, ext : BOOLEAN, swallow : BOOLEAN, draining : BOOLEAN,
                 dst : Status, dirty : BOOLEAN, registered : BOOLEAN, gucs : BOOLEAN,
                 seen : 0..(MaxMsgs + 2)]
    /\ conn \in [where : {"none", "leased", "parked", "closed"}, alive : BOOLEAN,
                 wbuf : Seq(Messages(Kinds)),
                 up : Seq(Messages(Kinds \cup {"CopyFail", "Sync", "Rollback", "Discard"})),
                 down : Seq(Responses), status : Status,
                 step : {"none", "settle", "close_cycle", "rollback", "discard", "detach"}]
    /\ srv \in [txn : Status, skip : BOOLEAN, copy : BOOLEAN]
    /\ env \in [at : Setup, losses : 0..MaxLosses, shutdown : {"no", "signalled", "seen"}]

\* A parked connection is quiet: nothing is buffered, on its way or still
\* running on it, no transaction, COPY or failed cycle is open.  Every
\* response cycle of a pooled connection was consumed exactly, whatever the
\* client was doing when the session detached or ended (checkin_detached,
\* sanitize and settle, pool.rs).
ParkedQuiet ==
    conn.where = "parked" =>
        /\ conn.wbuf = <<>> /\ conn.up = <<>> /\ conn.down = <<>>
        /\ srv = FreshSrv

\* The client never gets a ReadyForQuery it did not ask for: those the pump
\* makes up (deny, reply, swallowed and detached Syncs, lost upstreams) and
\* those it forwards are together at most one per Query and Sync.
RfqNeverAhead == cl.rfqs <= cl.asks

Settled ==
    /\ AtSelect /\ cl.c2p = <<>> /\ ~cl.open /\ ~cl.copy
    /\ Leased => conn.alive /\ conn.up = <<>> /\ conn.down = <<>>

\* No answer is lost: once nothing is under way between the client, the pump
\* and the server, every Query and Sync got its ReadyForQuery, so the client
\* does not wait for one that nobody will send.
NoLostAnswer == Settled => cl.rfqs = cl.asks

\* Between cycles the client's idea of its transaction (the status of the
\* last ReadyForQuery, the pump's own ones included) is the server's: a
\* detached session is in none.
StatusAlwaysAgrees ==
    Settled /\ cl.rfqs = cl.asks => cl.st = IF Leased THEN srv.txn ELSE "I"

\* It is so until a connection is lost, and where on_query asks for no scatter.
StatusAgrees ==
    env.losses = 0 /\ "scatter" \notin QueryHooks => StatusAlwaysAgrees

\* Responses reach the client in the order of the messages they answer,
\* although the pump answers some itself and buffers others.
InOrder == [][cl'.last >= cl.last]_vars

\* A client that waits is answered, or its session ends.
AsksAreAnswered ==
    cl.asks > cl.rfqs ~> (cl.asks = cl.rfqs \/ ~cl.here \/ pump.run # "run")

\* Graceful shutdown: once signalled, a session ends at the latest when its
\* current cycle does, and its connection is not left leased.  A session that lost
\* its upstream meanwhile may stay until the drain window closes (Server).
ShutdownEnds ==
    env.shutdown = "signalled" ~> (pump.run # "run" /\ ~Leased) \/ env.losses > 0

\* The same without the exception.
ShutdownAlwaysEnds == env.shutdown = "signalled" ~> (pump.run # "run" /\ ~Leased)
=============================================================================
