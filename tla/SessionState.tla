---------------------------- MODULE SessionState ----------------------------
(***************************************************************************)
(* Session state over pooled connections: the named statements and the     *)
(* parameters of a session while it moves from connection to connection    *)
(* (StatementRegistry, GucOverrides, ensure_attached and the pump's        *)
(* bookkeeping in session.rs; sync_startup_parameters, checkin_detached,   *)
(* checkin and baseline_params in pool.rs).                                *)
(*                                                                         *)
(* A client request is a whole query cycle; Pump models its messages.      *)
(* Beside the real connections runs, for each session, the backend it      *)
(* would have for itself: `own` applies the same requests to it.           *)
(***************************************************************************)
EXTENDS Integers, FiniteSets

CONSTANTS
    Session, Conn,
    Name,             \* names of prepared statements
    Setups,           \* how the pool is configured and what the clients do
    ForwardsClose,    \* clients also close statements when that is forwarded
    ClientTracks,     \* PgWireClient::simple_query applies ParameterStatus
    MaxLosses         \* bound: connections lost

None == "none"
Text == {"q1", "q2", "bad"}          \* SQL; "bad" is refused by the server

\* PoolMode::Transaction, each session's application_name at startup or None,
\* whether clients use explicit transactions, the SQL they prepare, the
\* parameters they SET, and the connections that may still be lost.
Setup == [transaction : BOOLEAN, startup : [Session -> {None, "a", "b"}], txns : BOOLEAN,
          text : SUBSET Text, sets : SUBSET {"app", "guc"}, losses : 0..MaxLosses]

ASSUME StateAssumption ==
    /\ Setups \subseteq Setup /\ ForwardsClose \in BOOLEAN /\ ClientTracks \in BOOLEAN
    /\ MaxLosses \in Nat /\ None \notin Conn

\* application_name (TRACKED_STARTUP_PARAMETERS), and another parameter whose
\* changes the server reports.  SETs of others are documented as unsupported.
Param == {"app", "guc"}
Value == {"d", "v", "a", "b"}        \* "d": the server's default

VARIABLES
    conn,      \* the pooled connections: server side, and cached parameters
    sess,      \* each session's registry, overrides, lease and dirty flag
    own,       \* the backend the session would have for itself
    baseline,  \* PoolInner::baseline_params
    env        \* the setup

vars == <<conn, sess, own, baseline, env>>

TransactionMode == env.transaction
Startup == env.startup

Request ==
    [k : {"parse"}, n : Name, t : env.text]
    \cup [k : {"close"}, n : Name]
    \cup [k : {"set"}, p : env.sets, v : {"d", "v"}]
    \cup [k : {"query"}]
    \cup [k : IF env.txns THEN {"begin", "commit", "rollback"} ELSE {}]

NoRequest == [k |-> None]

Defaults == [p \in Param |-> "d"]
NoStmts == [n \in Name |-> None]
Backend == [par |-> Defaults, stmts |-> NoStmts, txn |-> FALSE, saved |-> Defaults]

Closed == [at |-> "closed", b |-> Backend, cache |-> Defaults]

NewSession == [lease |-> None, op |-> NoRequest, reg |-> NoStmts,
               over |-> [p \in Param |-> None], dirty |-> FALSE, tries |-> 0, ended |-> FALSE]

OwnBackend(s) ==
    IF Startup[s] = None THEN Backend ELSE [Backend EXCEPT !.par["app"] = Startup[s]]

Init ==
    /\ env \in Setups
    /\ conn = [c \in Conn |-> Closed]
    /\ sess = [s \in Session |-> NewSession]
    /\ own = [s \in Session |-> OwnBackend(s)]
    /\ baseline = Defaults

-----------------------------------------------------------------------------
\* What a backend does with a request.  A statement of a known name is left
\* as it is: the proxy answers such a Parse itself.
Server(b, op) ==
    CASE op.k = "parse" /\ b.stmts[op.n] = None /\ op.t # "bad" ->
            [b EXCEPT !.stmts[op.n] = op.t]
      [] op.k = "close" -> [b EXCEPT !.stmts[op.n] = None]
      [] op.k = "set" -> [b EXCEPT !.par[op.p] = op.v]
      [] op.k = "begin" /\ ~b.txn -> [b EXCEPT !.txn = TRUE, !.saved = b.par]
      [] op.k = "commit" -> [b EXCEPT !.txn = FALSE, !.saved = Defaults]
      [] op.k = "rollback" /\ b.txn ->
            [b EXCEPT !.txn = FALSE, !.par = b.saved, !.saved = Defaults]
      [] OTHER -> b

Leased(s) == sess[s].lease # None

\* The lease goes back at an idle ReadyForQuery (detach_if_idle).
Detaches(s) ==
    /\ TransactionMode /\ Leased(s) /\ sess[s].op = NoRequest
    /\ ~conn[sess[s].lease].b.txn

Ask(s, op) ==
    /\ ~sess[s].ended /\ sess[s].op = NoRequest /\ ~Detaches(s)
    /\ op.k = "close" => ForwardsClose \/ (TransactionMode /\ ~Leased(s))
    /\ sess' = [sess EXCEPT ![s] = [@ EXCEPT !.op = op, !.tries = 0]]
    /\ UNCHANGED <<conn, own, baseline, env>>

\* A Parse of a registered name is answered by the pump: ParseComplete for
\* the same SQL, an error for another one.
LocalParse(s) ==
    LET op == sess[s].op IN
    /\ op.k = "parse" /\ sess[s].reg[op.n] # None
    /\ sess' = [sess EXCEPT ![s].op = NoRequest]
    /\ UNCHANGED <<conn, own, baseline, env>>

\* So is a Close while nothing is attached.
LocalClose(s) ==
    LET op == sess[s].op IN
    /\ op.k = "close" /\ TransactionMode /\ ~Leased(s)
    /\ sess' = [sess EXCEPT ![s] = [@ EXCEPT !.op = NoRequest, !.reg[op.n] = None]]
    /\ own' = [own EXCEPT ![s] = Server(own[s], op)]
    /\ UNCHANGED <<conn, baseline, env>>

Forwarded(s) ==
    LET op == sess[s].op IN
    /\ op # NoRequest
    /\ op.k = "parse" => sess[s].reg[op.n] = None
    /\ op.k = "close" => (~TransactionMode \/ Leased(s))

-----------------------------------------------------------------------------
\* checkout: a parked connection, else a new one.
Available(c) ==
    \/ conn[c].at = "idle"
    \/ conn[c].at = "closed" /\ \A d \in Conn : conn[d].at # "idle"

\* sync_startup_parameters
Synced(s, k) ==
    IF Startup[s] = None \/ k.cache["app"] = Startup[s] THEN k
    ELSE [k EXCEPT !.b.par["app"] = Startup[s], !.cache["app"] = Startup[s]]

\* f with the values of g for the parameters ps.
Put(f, ps, g) == [p \in Param |-> IF p \in ps THEN g[p] ELSE f[p]]

\* The overrides that differ from the cached parameters.
Overridden(s, k) == {p \in Param : sess[s].over[p] \notin {None, k.cache[p]}}

\* The GUC replay.
Replayed(s, k) ==
    LET ps == Overridden(s, k) IN
    [k EXCEPT !.b = [@ EXCEPT !.par = Put(k.b.par, ps, sess[s].over)],
              !.cache = IF ClientTracks THEN Put(k.cache, ps, sess[s].over) ELSE k.cache]

\* A registered statement that the connection refuses.
Refuses(s, c) ==
    \E n \in Name : /\ sess[s].reg[n] # None
                    /\ conn[c].b.stmts[n] # None \/ sess[s].reg[n] = "bad"

Registered(s) == {n \in Name : sess[s].reg[n] # None}

\* StatementRegistry::replay, on a connection with these statements.
Replay(s, stmts) == [n \in Name |-> IF n \in Registered(s) THEN sess[s].reg[n] ELSE stmts[n]]

\* A connection with the session's startup parameters after both replays.
Attached(s, k) ==
    LET r == Replayed(s, k) IN
    [r EXCEPT !.at = "leased", !.b = [@ EXCEPT !.stmts = Replay(s, r.b.stmts)]]

\* Fault: replaying statements does not make the lease dirty.
AttachNotDirty(s, c) ==
    LET k == Synced(s, conn[c]) IN
    /\ ~sess[s].ended /\ ~Leased(s) /\ Forwarded(s) /\ Available(c) /\ ~Refuses(s, c)
    /\ conn' = [conn EXCEPT ![c] = Attached(s, k)]
    /\ sess' = [sess EXCEPT ![s] = [@ EXCEPT
          !.lease = c, !.dirty = sess[s].dirty \/ Overridden(s, k) # {}]]
    /\ UNCHANGED <<own, baseline, env>>

\* Fault: the registry is replayed in transaction mode only.
AttachGated(s, c) ==
    LET k == Synced(s, conn[c]) IN
    /\ ~sess[s].ended /\ ~Leased(s) /\ Forwarded(s) /\ Available(c)
    /\ conn' = [conn EXCEPT ![c] = [Replayed(s, k) EXCEPT !.at = "leased"]]
    /\ sess' = [sess EXCEPT ![s].lease = c]
    /\ UNCHANGED <<own, baseline, env>>

\* ensure_attached: startup parameters, overrides, statements.
Attach(s, c) ==
    LET k == Synced(s, conn[c]) IN
    /\ ~sess[s].ended /\ ~Leased(s) /\ Forwarded(s) /\ Available(c) /\ ~Refuses(s, c)
    /\ conn' = [conn EXCEPT ![c] = Attached(s, k)]
    /\ sess' = [sess EXCEPT ![s] = [@ EXCEPT
          !.lease = c, !.dirty = sess[s].dirty \/ Overridden(s, k) # {} \/ Registered(s) # {}]]
    /\ UNCHANGED <<own, baseline, env>>

\* Fault: the connection whose replay failed is parked.
AttachFailsParks(s, c) ==
    /\ ~sess[s].ended /\ ~Leased(s) /\ Forwarded(s) /\ Available(c) /\ Refuses(s, c)
    /\ conn' = [conn EXCEPT ![c] = [Replayed(s, conn[c]) EXCEPT !.at = "idle"]]
    /\ sess' = [sess EXCEPT ![s] = [@ EXCEPT
          !.tries = sess[s].tries + 1, !.ended = sess[s].tries = 1]]
    /\ UNCHANGED <<own, baseline, env>>

\* A replay fails: the connection is destroyed and the loop tries again; the
\* second failure ends the session.
AttachFails(s, c) ==
    /\ ~sess[s].ended /\ ~Leased(s) /\ Forwarded(s) /\ Available(c) /\ Refuses(s, c)
    /\ conn' = [conn EXCEPT ![c] = Closed]
    /\ sess' = [sess EXCEPT ![s] = [@ EXCEPT
          !.tries = sess[s].tries + 1, !.ended = sess[s].tries = 1]]
    /\ UNCHANGED <<own, baseline, env>>

\* The parameters whose value the request changes.
Changed(b, op) == {p \in Param : Server(b, op).par[p] # b.par[p]}

\* Fault: parameters that a rollback changes are not tracked.
ServeForgets(s) ==
    LET c == sess[s].lease   op == sess[s].op
        ps == IF op.k = "set" THEN Changed(conn[c].b, op) ELSE {}
        b == Server(conn[c].b, op) IN
    /\ Leased(s) /\ Forwarded(s)
    /\ conn' = [conn EXCEPT ![c] = [@ EXCEPT !.b = b, !.cache = Put(conn[c].cache, ps, b.par)]]
    /\ own' = [own EXCEPT ![s] = Server(own[s], op)]
    /\ sess' = [sess EXCEPT ![s] = [@ EXCEPT
          !.op = NoRequest, !.over = Put(sess[s].over, ps, b.par),
          !.reg = IF op.k = "parse" THEN [sess[s].reg EXCEPT ![op.n] = op.t] ELSE sess[s].reg,
          !.dirty = sess[s].dirty \/ op.k = "parse" \/ (TransactionMode /\ ps # {})]]
    /\ UNCHANGED <<baseline, env>>

\* The request is recorded, forwarded and answered: a named Parse enters the
\* registry whatever the server says, a ParameterStatus the overrides and the
\* cache.
Serve(s) ==
    LET c == sess[s].lease   op == sess[s].op   ps == Changed(conn[c].b, op)
        b == Server(conn[c].b, op) IN
    /\ Leased(s) /\ Forwarded(s)
    /\ conn' = [conn EXCEPT ![c] = [@ EXCEPT !.b = b, !.cache = Put(conn[c].cache, ps, b.par)]]
    /\ own' = [own EXCEPT ![s] = Server(own[s], op)]
    /\ sess' = [sess EXCEPT ![s] = [@ EXCEPT
          !.op = NoRequest, !.over = Put(sess[s].over, ps, b.par),
          !.reg = IF op.k = "parse" THEN [sess[s].reg EXCEPT ![op.n] = op.t] ELSE sess[s].reg,
          !.dirty = sess[s].dirty \/ op.k = "parse" \/ (TransactionMode /\ ps # {})]]
    /\ UNCHANGED <<baseline, env>>

\* DISCARD ALL
Discarded(k) ==
    [k EXCEPT !.b = Backend, !.cache = IF ClientTracks THEN Defaults ELSE @]

\* checkin_detached: DISCARD ALL if dirty; the baseline snapshot is renewed.
Detach(s) ==
    LET c == sess[s].lease
        k == IF sess[s].dirty THEN Discarded(conn[c]) ELSE conn[c] IN
    /\ Detaches(s)
    /\ conn' = [conn EXCEPT ![c] = [k EXCEPT !.at = "idle"]]
    /\ baseline' = k.cache
    /\ sess' = [sess EXCEPT ![s] = [@ EXCEPT !.lease = None, !.dirty = FALSE]]
    /\ UNCHANGED <<own, env>>

\* The client leaves and another one comes; a lease is sanitized and parked.
Leave(s) ==
    LET c == sess[s].lease IN
    /\ sess[s].ended \/ (sess[s].op = NoRequest /\ ~Detaches(s))
    /\ conn' = IF Leased(s) THEN [conn EXCEPT ![c] = [Discarded(conn[c]) EXCEPT !.at = "idle"]]
               ELSE conn
    /\ sess' = [sess EXCEPT ![s] = NewSession]
    /\ own' = [own EXCEPT ![s] = OwnBackend(s)]
    /\ UNCHANGED <<baseline, env>>

\* A leased connection is lost between two requests, and with it an open
\* transaction: relink.
Lose(s) ==
    /\ env.losses > 0 /\ Leased(s) /\ sess[s].op = NoRequest
    /\ env' = [env EXCEPT !.losses = @ - 1]
    /\ conn' = [conn EXCEPT ![sess[s].lease] = Closed]
    /\ sess' = [sess EXCEPT ![s].lease = None]
    /\ own' = [own EXCEPT ![s] = Server(own[s], [k |-> "rollback"])]
    /\ UNCHANGED baseline

Next ==
    \/ \E s \in Session :
          \/ \E op \in Request : Ask(s, op)
          \/ LocalParse(s) \/ LocalClose(s) \/ Serve(s) \/ Detach(s) \/ Leave(s) \/ Lose(s)
    \/ \E s \in Session, c \in Conn : Attach(s, c) \/ AttachFails(s, c)

Spec == Init /\ [][Next]_vars

-----------------------------------------------------------------------------
Params == [Param -> Value]
Stmts == [Name -> Text \cup {None}]
Backends == [par : Params, stmts : Stmts, txn : BOOLEAN, saved : Params]
ConnType == [at : {"closed", "idle", "leased"}, b : Backends, cache : Params]
Member == [lease : Conn \cup {None}, op : Request \cup {NoRequest}, reg : Stmts,
           over : [Param -> Value \cup {None}], dirty : BOOLEAN, tries : 0..2, ended : BOOLEAN]

\* Connections, sessions and the snapshot are well formed, and a leased
\* connection is the lease of one session (lease_slot).
TypeOK ==
    /\ conn \in [Conn -> ConnType] /\ sess \in [Session -> Member]
    /\ own \in [Session -> Backends] /\ baseline \in Params /\ env \in Setup
    /\ \A c \in Conn : conn[c].at = "leased" <=> \E s \in Session : sess[s].lease = c
    /\ \A s, t \in Session : Leased(s) /\ sess[s].lease = sess[t].lease => s = t

\* Whichever connections it was on, a session has the statements it prepared
\* and no others: in the registry (but for those the server refused), and on
\* the connection it is attached to (registry replay, DISCARD ALL on detach,
\* locally answered Parse and Close).
StatementsMatch ==
    \A s \in Session :
        /\ \A n \in Name : sess[s].reg[n] \in {own[s].stmts[n], "bad"}
        /\ Leased(s) => conn[sess[s].lease].b.stmts = own[s].stmts

\* A session's requests run under the parameters it set, and no others (GUC
\* overrides, startup parameters, DISCARD ALL).
ParamsMatch ==
    \A s \in Session : Leased(s) => conn[sess[s].lease].b.par = own[s].par

\* A new connection, but for an application_name some session started with.
LikeNew == {Backend} \cup {OwnBackend(s) : s \in Session}

\* A parked connection is like a new one: whatever was prepared, SET, begun or
\* half replayed on it is gone, also where checkin_detached skips the DISCARD
\* ALL because the lease is not dirty.
ParkedNeutral == \A c \in Conn : conn[c].at = "idle" => conn[c].b \in LikeNew

\* The parameters a replay is compared with are those of the server
\* (server_parameters, set_parameter, the pump's ParameterStatus arm).
CacheIsTrue ==
    \A c \in Conn, p \in Param : conn[c].cache[p] = conn[c].b.par[p]

\* A session is ended because its state cannot be replayed only if the server
\* refused one of its statements (ensure_attached, StatementRegistry::replay).
ReplaysSucceed ==
    \A s \in Session : sess[s].tries > 0 => \E n \in Name : sess[s].reg[n] = "bad"

\* New transaction mode sessions are told the server's defaults, but for an
\* application_name (baseline_params): no SET of a session reaches them.
BaselineNeutral == baseline \in {b.par : b \in LikeNew}
=============================================================================
