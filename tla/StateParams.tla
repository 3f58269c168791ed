---------------------------- MODULE StateParams ----------------------------
(***************************************************************************)
(* Proofs about SessionState: parameters, for any numbers of sessions and  *)
(* connections, given a client library that applies ParameterStatus.       *)
(***************************************************************************)
EXTENDS StateProofs

\* A leaf that names no prover is tried by SMT, by Zenon, and by SMT again.
USE SMTT(60), ZenonT(30), SMTT(60)

\* The parameters of a new connection, but for an application_name.
NewPars == {Defaults} \cup {Initially(s) : s \in Session}

\* The parameters of a connection that is clean.
CleanOK(b) == b.par \in NewPars /\ (b.txn => b.saved = b.par)

\* A connection whose parameters are known: the cache is the server's, nothing is saved
\* outside of a transaction, and one that nobody leases is like new.
Told(k) ==
    /\ \A p \in Param : k.cache[p] = k.b.par[p]
    /\ ~k.b.txn => k.b.saved = Defaults
    /\ k.at # "leased" => k.b.par \in NewPars /\ ~k.b.txn

ParsInv ==
    /\ baseline \in NewPars /\ \A c \in Conn : Told(conn[c])
    /\ TransactionMode =>
          \A s \in Session : Leased(s) /\ ~sess[s].dirty => CleanOK(conn[sess[s].lease].b)

\* What a session with these overrides is owed: them, over its startup parameters.
Owed(s, over) == [p \in Param |-> IF over[p] = None THEN Initially(s)[p] ELSE over[p]]

\* The session s, in state q, has in its own backend o the parameters it is owed, and the
\* connection b that it leases follows o.
Follows(s, q, o, b) ==
    /\ o.par = Owed(s, q.over)
    /\ ~o.txn => o.saved = Defaults
    /\ q.lease = None \/ ~env.txns => ~o.txn
    /\ q.lease # None => b.par = o.par /\ b.txn = o.txn /\ b.saved = o.saved

OwnInv == \A s \in Session : Follows(s, sess[s], own[s], conn[sess[s].lease].b)

\* Every session sends an application_name or none does; a setup with losses has no
\* explicit transactions.
Uniform(e) == \/ \A s \in Session : e.startup[s] = None
              \/ \A s \in Session : e.startup[s] # None
Apart(e) == e.losses > 0 => ~e.txns

-----------------------------------------------------------------------------
(***************************************************************************)
(* Parameters.                                                             *)
(***************************************************************************)

\* What a request does to parameters depends on them and on the transaction alone.
LEMMA ServerPars ==
    ASSUME NEW b \in Backends, NEW d \in Backends, NEW op, OpOK(op),
           b.par = d.par, b.txn = d.txn, b.saved = d.saved
    PROVE  /\ Server(b, op).par = Server(d, op).par
           /\ Server(b, op).txn = Server(d, op).txn
           /\ Server(b, op).saved = Server(d, op).saved
<1>1. /\ \A x \in Backends : /\ x.par \in Params /\ x.saved \in Params /\ x.stmts \in Stmts
                             /\ x.txn \in BOOLEAN
  BY DEF Backends
<1>2. CASE op.k \in {"parse", "close", "query"}
  BY <1>1, <1>2, Zenon DEF Server, Backends
<1>3. CASE op.k = "set"
  BY <1>1, <1>3 DEF Server, Backends
<1>4. CASE op.k = "begin"
  BY <1>1, <1>4, Zenon DEF Server, Backends
<1>5. CASE op.k = "commit"
  BY <1>1, <1>5, Zenon DEF Server, Backends
<1>6. CASE op.k = "rollback"
  BY <1>1, <1>6, Zenon DEF Server, Backends
<1>7. CASE op.k \notin {"parse", "close", "query", "set", "begin", "commit", "rollback"}
  BY <1>1, <1>7, Zenon DEF Server, Backends
<1> QED  BY <1>2, <1>3, <1>4, <1>5, <1>6, <1>7

\* Outside of transactions nothing is saved; a request that changes no parameter leaves
\* a transaction able to restore what it found; and only BEGIN opens one.
LEMMA ServerTxn ==
    ASSUME NEW b \in Backends, NEW op, OpOK(op), ~b.txn => b.saved = Defaults
    PROVE  /\ ~Server(b, op).txn => Server(b, op).saved = Defaults
           /\ Changed(b, op) = {} => Server(b, op).par = b.par
           /\ Changed(b, op) = {} /\ (b.txn => b.saved = b.par) /\ Server(b, op).txn =>
                 Server(b, op).saved = b.par
           /\ ~b.txn /\ ~env.txns => ~Server(b, op).txn
<1>1. /\ b.par \in Params /\ b.saved \in Params /\ b.txn \in BOOLEAN
      /\ Server(b, op) \in Backends
  BY ServerTyped DEF Backends
<1>2. Server(b, op).par \in Params
  BY <1>1 DEF Backends
<1>3. Changed(b, op) = {} => Server(b, op).par = b.par
  BY <1>1, <1>2 DEF Changed, Params
<1>4. CASE op.k \in {"parse", "close", "set"}
  BY <1>1, <1>3, <1>4 DEF Server, Backends
<1>5. CASE op.k = "begin"
  BY <1>1, <1>3, <1>5 DEF Server, Backends, OpOK
<1>6. CASE op.k = "commit"
  BY <1>1, <1>3, <1>6, Zenon DEF Server, Backends
<1>7. CASE op.k = "rollback"
  BY <1>1, <1>3, <1>7 DEF Server, Backends
<1>8. CASE op.k \notin {"parse", "close", "set", "begin", "commit", "rollback"}
  BY <1>1, <1>3, <1>8 DEF Server, Backends
<1> QED  BY <1>4, <1>5, <1>6, <1>7, <1>8

\* The parameters of a new connection: an application_name, and the default.
LEMMA NewParsAre ==
    ASSUME env \in Setup, NEW f \in NewPars
    PROVE  /\ f \in Params /\ f["guc"] = "d"
           /\ (\A t \in Session : Startup[t] = None) => f = Defaults
<1>1. CASE f = Defaults
  BY <1>1 DEF Params, Defaults, Param, Value
<1>2. ASSUME NEW t \in Session, f = Initially(t)
      PROVE  /\ f \in Params /\ f["guc"] = "d" /\ (Startup[t] = None => f = Defaults)
  <2>1. /\ Initially(t) \in Params
        /\ Initially(t) = [p \in Param |-> IF p = "app" /\ Startup[t] # None THEN Startup[t] ELSE "d"]
    BY OwnIs
  <2> QED  BY <1>2, <2>1 DEF Param, Defaults
<1> QED  BY <1>1, <1>2 DEF NewPars

\* sync_startup_parameters on a connection that is like new leaves it like new, with the
\* parameters the session asks for if all sessions or none ask.
LEMMA SyncedPars ==
    ASSUME env \in Setup, NEW s \in Session, NEW k \in ConnType, k.b.par \in NewPars,
           \A p \in Param : k.cache[p] = k.b.par[p]
    PROVE  LET i == Synced(s, k) IN
           /\ i.b.par \in NewPars
           /\ \A p \in Param : i.cache[p] = i.b.par[p]
           /\ Uniform(env) => i.b.par = Initially(s)
<1> DEFINE i == Synced(s, k)
<1>1. /\ k.b \in Backends /\ k.b.par \in Params /\ k.cache \in Params
      /\ k.b.par["guc"] = "d" /\ "app" \in Param /\ "guc" \in Param
  BY NewParsAre DEF ConnType, Backends, Param
<1>2. /\ Initially(s) \in Params /\ Initially(s) \in NewPars
      /\ Initially(s) = [p \in Param |-> IF p = "app" /\ Startup[s] # None THEN Startup[s] ELSE "d"]
  BY OwnIs DEF NewPars
<1>3. CASE Startup[s] = None
  <2>1. i = k
    BY <1>3 DEF Synced
  <2>2. ASSUME Uniform(env) PROVE k.b.par = Initially(s)
    <3>1. \A t \in Session : Startup[t] = None
      BY <1>3, <2>2 DEF Uniform, Startup
    <3> QED  BY <1>2, <3>1, NewParsAre
  <2> QED  BY <2>1, <2>2
<1>4. CASE Startup[s] # None /\ k.cache["app"] = Startup[s]
  <2>1. i = k
    BY <1>4 DEF Synced
  <2>2. k.b.par = Initially(s)
    BY <1>1, <1>2, <1>4 DEF Params, Param
  <2> QED  BY <2>1, <2>2
<1>5. CASE Startup[s] # None /\ k.cache["app"] # Startup[s]
  <2> DEFINE f == [k.b.par EXCEPT !["app"] = Startup[s]]
             g == [k.cache EXCEPT !["app"] = Startup[s]]
             b == [k.b EXCEPT !.par = f]
  <2>1. i = [k EXCEPT !.b = b, !.cache = g]
    BY <1>5 DEF Synced, ConnType
  <2>2. f = Initially(s) /\ \A p \in Param : g[p] = f[p]
    BY <1>1, <1>2, <1>5 DEF Params, Param
  <2> HIDE DEF f, g, i
  <2>3. i.b.par = f /\ i.cache = g
    BY <1>1, <2>1 DEF ConnType, Backends
  <2> QED  BY <1>2, <2>2, <2>3 DEF i
<1> QED  BY <1>3, <1>4, <1>5

\* The session s and the connection c move, to q and k.
LEMMA ParsMoves ==
    ASSUME Base, ParsInv, NEW s \in Session, NEW q \in Member, Becomes(s, q),
           NEW c \in Conn, NEW k \in ConnType, conn' = [conn EXCEPT ![c] = k],
           c = sess[s].lease \/ conn[c].at # "leased",
           Told(k),
           q.lease # None => q.lease = c /\ (TransactionMode /\ ~q.dirty => CleanOK(k.b)),
           baseline' \in NewPars, env'.startup = env.startup, env'.transaction = env.transaction
    PROVE  ParsInv'
<1>1. /\ conn \in [Conn -> ConnType] /\ sess \in [Session -> Member]
  BY DEF Base, TypeOK
<1>2. /\ conn'[c] = k /\ \A d \in Conn \ {c} : conn'[d] = conn[d]
      /\ sess'[s] = q /\ \A t \in Session \ {s} : sess'[t] = sess[t]
  BY <1>1 DEF Becomes
<1>3. \A t \in Session \ {s} : sess[t].lease # c
  BY Elsewhere
<1>4. \A t \in Session : sess[t].lease \in Conn \cup {None}
  BY <1>1 DEF Member
<1>5. NewPars' = NewPars
  BY DEF NewPars, Initially, OwnBackend, Startup
<1>6. \A d \in Conn : Told(conn'[d])
  BY <1>2 DEF ParsInv
<1>7. ASSUME NEW t \in Session, sess'[t].lease # None, ~sess'[t].dirty, TransactionMode
      PROVE  CleanOK(conn'[sess'[t].lease].b)
  <2>1. CASE t = s
    BY <1>2, <1>7, <2>1
  <2>2. CASE t # s
    BY <1>2, <1>3, <1>4, <1>7, <2>2 DEF ParsInv, Leased
  <2> QED  BY <2>1, <2>2
<1>8. \A d \in Conn : Told(conn[d])'
  BY <1>5, <1>6 DEF Told
<1>9. (TransactionMode =>
         \A t \in Session : Leased(t) /\ ~sess[t].dirty => CleanOK(conn[sess[t].lease].b))'
  BY <1>5, <1>7 DEF CleanOK, Leased, TransactionMode
<1> QED  BY <1>5, <1>8, <1>9 DEF ParsInv

\* A session moves that keeps its connection and its flag, or has none.
LEMMA ParsMovesAlone ==
    ASSUME Base, ParsInv, NEW s \in Session, NEW q \in Member, Becomes(s, q), conn' = conn,
           q.lease = None \/ (q.lease = sess[s].lease /\ q.dirty = sess[s].dirty),
           baseline' = baseline, env'.startup = env.startup, env'.transaction = env.transaction
    PROVE  ParsInv'
<1>1. sess \in [Session -> Member]
  BY DEF Base, TypeOK
<1>2. sess'[s] = q /\ \A t \in Session \ {s} : sess'[t] = sess[t]
  BY <1>1 DEF Becomes
<1>3. NewPars' = NewPars
  BY DEF NewPars, Initially, OwnBackend, Startup
<1>4. ASSUME NEW t \in Session, sess'[t].lease # None, ~sess'[t].dirty, TransactionMode
      PROVE  CleanOK(conn[sess'[t].lease].b)
  BY <1>2, <1>4 DEF ParsInv, Leased
<1>5. \A d \in Conn : Told(conn[d])'
  BY <1>3 DEF ParsInv, Told
<1>6. (TransactionMode =>
         \A t \in Session : Leased(t) /\ ~sess[t].dirty => CleanOK(conn[sess[t].lease].b))'
  BY <1>3, <1>4 DEF CleanOK, Leased, TransactionMode
<1> QED  BY <1>3, <1>5, <1>6 DEF ParsInv

\* Connections as DISCARD ALL and a close leave them.
LEMMA NewIsTold ==
    /\ CleanOK(Backend) /\ ~Backend.txn /\ Told(Closed) /\ Backend.par \in NewPars
    /\ \A k : k.b = Backend /\ k.cache = Defaults => Told(k)
BY DEF CleanOK, Backend, Closed, Told, NewPars

\* The connection of an attached session: its cache and its server agree, and a lease that
\* is not dirty is like new.
LEMMA AttachedPars ==
    ASSUME ClientTracks, Base, ParsInv, NEW s \in Session, NEW c \in Conn, NEW k \in ConnType,
           NEW q \in Member, AttachStep(s, c, k, q)
    PROVE  /\ Told(k) /\ (~q.dirty => CleanOK(k.b)) /\ ~k.b.txn
           /\ Uniform(env) => k.b.par = Owed(s, sess[s].over)
<1> DEFINE i == Synced(s, conn[c])
           ps == Overridden(s, i)
<1>1. /\ k.at = "leased" /\ k.b.txn = conn[c].b.txn /\ k.b.saved = conn[c].b.saved
      /\ i.b.par \in Params /\ i.cache \in Params /\ ps \in SUBSET Param
      /\ k.b.par = Put(i.b.par, ps, sess[s].over) /\ k.cache = Put(i.cache, ps, sess[s].over)
      /\ conn[c].at # "leased"
  BY DEF AttachStep
<1>2. ~q.dirty => ps = {}
  BY AttachFields
<1>3. /\ Told(conn[c]) /\ conn[c] \in ConnType /\ env \in Setup
  BY DEF Base, TypeOK, ParsInv
<1>4. /\ i.b.par \in NewPars /\ (\A p \in Param : i.cache[p] = i.b.par[p])
      /\ Uniform(env) => i.b.par = Initially(s)
  BY <1>1, <1>3, SyncedPars DEF Told
<1>5. ~k.b.txn /\ k.b.saved = Defaults
  BY <1>1, <1>3 DEF Told
<1>6. \A p \in Param : p \in ps <=> sess[s].over[p] # None /\ sess[s].over[p] # i.cache[p]
  BY DEF Overridden
<1> HIDE DEF i, ps
<1>7. \A p \in Param : k.cache[p] = k.b.par[p]
  BY <1>1, <1>4 DEF Put
<1>8. Told(k)
  BY <1>1, <1>5, <1>7 DEF Told
<1>9. ASSUME ~q.dirty PROVE CleanOK(k.b)
  <2>1. k.b.par = i.b.par
    BY <1>1, <1>2, <1>9 DEF Put, Params
  <2> QED  BY <1>4, <1>5, <2>1 DEF CleanOK
<1>10. ASSUME Uniform(env) PROVE k.b.par = Owed(s, sess[s].over)
  BY <1>1, <1>4, <1>6, <1>10 DEF Put, Owed
<1> QED  BY <1>5, <1>8, <1>9, <1>10

\* The connection of a request that was answered.
LEMMA ServedPars ==
    ASSUME Base, ParsInv, NEW s \in Session, NEW c \in Conn, NEW k \in ConnType,
           NEW q \in Member, ServeStep(s, c, k, q)
    PROVE  Told(k) /\ (TransactionMode /\ ~q.dirty => CleanOK(k.b))
<1> DEFINE b == conn[c].b
           op == sess[s].op
           ps == Changed(b, op)
<1>1. /\ k.at = "leased" /\ k.b = Server(b, op) /\ k.cache = Put(conn[c].cache, ps, k.b.par)
      /\ OpOK(op) /\ sess[s].lease = c /\ (TransactionMode /\ ~q.dirty => ~sess[s].dirty /\ ps = {})
  BY Zenon DEF ServeStep
<1>2. /\ Told(conn[c]) /\ b \in Backends /\ None \notin Conn
      /\ conn[c].cache \in Params
  BY StateAssumption DEF Base, TypeOK, ParsInv, ConnType
<1>3. /\ ~k.b.txn => k.b.saved = Defaults
      /\ ps = {} => k.b.par = b.par
      /\ ps = {} /\ (b.txn => b.saved = b.par) /\ k.b.txn => k.b.saved = b.par
  BY <1>1, <1>2, ServerTxn DEF Told
<1>4. \A p \in Param : p \in ps <=> k.b.par[p] # b.par[p]
  BY <1>1 DEF Changed
<1> HIDE DEF ps
<1>5. \A p \in Param : k.cache[p] = k.b.par[p]
  BY <1>1, <1>2, <1>4 DEF Put, Told
<1>6. Told(k)
  BY <1>1, <1>3, <1>5 DEF Told
<1>7. ASSUME TransactionMode, ~q.dirty PROVE CleanOK(k.b)
  <2>1. CleanOK(b)
    BY <1>1, <1>2, <1>7 DEF ParsInv, Leased
  <2> QED  BY <1>1, <1>3, <1>7, <2>1 DEF CleanOK
<1> QED  BY <1>6, <1>7

\* With a client library that applies ParameterStatus, every step keeps what the proxy
\* knows of the parameters.
LEMMA NextPars ==
    ASSUME ClientTracks, Base, ParsInv, [Next]_vars
    PROVE  ParsInv'
<1>1. /\ sess \in [Session -> Member] /\ conn \in [Conn -> ConnType] /\ None \notin Conn
      /\ env \in Setup /\ baseline \in NewPars /\ \A c \in Conn : Told(conn[c])
  BY StateAssumption DEF Base, TypeOK, ParsInv
<1>2. env'.startup = env.startup /\ env'.transaction = env.transaction
  BY SetupStays DEF Base
<1>3. ASSUME NEW s \in Session, NEW op \in Request, Ask(s, op) PROVE ParsInv'
  <2>1. PICK q \in Member : QuietStep(s, q)
    BY <1>3, AskDoes
  <2> QED  BY <1>2, <2>1, ParsMovesAlone DEF QuietStep
<1>4. ASSUME NEW s \in Session, LocalParse(s) PROVE ParsInv'
  <2>1. PICK q \in Member : QuietStep(s, q)
    BY <1>4, LocalParseDoes
  <2> QED  BY <1>2, <2>1, ParsMovesAlone DEF QuietStep
<1>5. ASSUME NEW s \in Session, LocalClose(s) PROVE ParsInv'
  <2>1. PICK q \in Member : QuietStep(s, q)
    BY <1>5, LocalCloseDoes, Zenon
  <2> QED  BY <1>2, <2>1, ParsMovesAlone DEF QuietStep
<1>6. ASSUME NEW s \in Session, Serve(s) PROVE ParsInv'
  <2>0. PICK c \in Conn, k \in ConnType, q \in Member : ServeStep(s, c, k, q)
    BY <1>6, ServeDoes
  <2>1. /\ conn' = [conn EXCEPT ![c] = k] /\ Becomes(s, q) /\ sess[s].lease = c
        /\ q.lease = c /\ baseline' = baseline
    BY <2>0 DEF ServeStep
  <2>2. Told(k) /\ (TransactionMode /\ ~q.dirty => CleanOK(k.b))
    BY <2>0, ServedPars
  <2> QED  BY <1>1, <1>2, <2>1, <2>2, ParsMoves, Zenon
<1>7. ASSUME NEW s \in Session, Detach(s) PROVE ParsInv'
  <2>0. PICK c \in Conn, k \in ConnType, q \in Member : DetachStep(s, c, k, q)
    BY <1>7, DetachDoes
  <2>1. /\ conn' = [conn EXCEPT ![c] = k] /\ Becomes(s, q) /\ sess[s].lease = c
        /\ k.at = "idle" /\ k.b = (IF sess[s].dirty THEN Backend ELSE conn[c].b)
        /\ k.cache = (IF sess[s].dirty THEN Defaults ELSE conn[c].cache)
        /\ ~conn[c].b.txn /\ baseline' = k.cache /\ TransactionMode
    BY <2>0 DEF DetachStep
  <2>2. Told(k)
    <3>1. CASE sess[s].dirty
      BY <2>1, <3>1, NewIsTold
    <3>2. CASE ~sess[s].dirty
      <4>1. CleanOK(conn[c].b) /\ Told(conn[c]) /\ k.b = conn[c].b /\ k.cache = conn[c].cache
        BY <1>1, <2>1, <3>2 DEF ParsInv, Leased
      <4> QED  BY <2>1, <4>1 DEF Told, CleanOK
    <3> QED  BY <3>1, <3>2
  <2>3. q.lease = None
    BY <2>0, DetachFields
  <2>4. baseline' \in NewPars
    <3>1. k.b.par \in NewPars /\ \A p \in Param : k.cache[p] = k.b.par[p]
      BY <2>1, <2>2 DEF Told
    <3>2. k.b.par \in Params /\ k.cache \in Params
      BY DEF ConnType, Backends
    <3>3. k.cache = k.b.par
      BY <3>1, <3>2 DEF Params
    <3> QED  BY <2>1, <3>1, <3>3
  <2> QED  BY <1>2, <2>1, <2>2, <2>3, <2>4, ParsMoves, Zenon
<1>8. ASSUME NEW s \in Session, Leave(s) PROVE ParsInv'
  <2>1. /\ Becomes(s, NewSession) /\ NewSession \in Member /\ NewSession.lease = None
        /\ baseline' = baseline
    BY <1>8, LeaveDoes, Zenon DEF NewSession
  <2>2. CASE ~Leased(s)
    BY <1>2, <1>8, <2>1, <2>2, LeaveDoes, ParsMovesAlone
  <2>3. CASE Leased(s)
    <3>1. PICK c \in Conn, k \in ConnType :
            /\ conn' = [conn EXCEPT ![c] = k] /\ sess[s].lease = c /\ k.at = "idle"
            /\ k.b = Backend /\ (ClientTracks => k.cache = Defaults)
      BY <1>8, <2>3, LeaveDoes
    <3>2. Told(k)
      BY <3>1, NewIsTold
    <3> QED  BY <1>1, <1>2, <2>1, <3>1, <3>2, ParsMoves, Zenon
  <2> QED  BY <2>2, <2>3
<1>9. ASSUME NEW s \in Session, Lose(s) PROVE ParsInv'
  <2>1. PICK c \in Conn, q \in Member : LoseStep(s, c, q)
    BY <1>9, LoseDoes
  <2>2. Closed \in ConnType
    BY <1>1, OwnIs
  <2>3. /\ conn' = [conn EXCEPT ![c] = Closed] /\ Becomes(s, q) /\ baseline' = baseline
        /\ sess[s].lease = c /\ q.lease = None
    BY <2>1 DEF LoseStep
  <2> QED  BY <1>1, <1>2, <2>2, <2>3, NewIsTold, ParsMoves, Zenon
<1>10. ASSUME NEW s \in Session, NEW c \in Conn, Attach(s, c) PROVE ParsInv'
  <2>0. PICK k \in ConnType, q \in Member : AttachStep(s, c, k, q)
    BY <1>10, AttachDoes
  <2>1. /\ conn' = [conn EXCEPT ![c] = k] /\ Becomes(s, q) /\ conn[c].at # "leased"
        /\ baseline' = baseline
    BY <2>0 DEF AttachStep
  <2>2. q.lease = c
    BY <2>0, AttachFields
  <2>3. Told(k) /\ (~q.dirty => CleanOK(k.b))
    BY <2>0, AttachedPars
  <2> QED  BY <1>1, <1>2, <2>1, <2>2, <2>3, ParsMoves, Zenon
<1>11. ASSUME NEW s \in Session, NEW c \in Conn, AttachFails(s, c) PROVE ParsInv'
  <2>1. PICK q \in Member : FailStep(s, c, q)
    BY <1>11, FailDoes
  <2>2. Closed \in ConnType
    BY <1>1, OwnIs
  <2>3. /\ conn' = [conn EXCEPT ![c] = Closed] /\ Becomes(s, q) /\ baseline' = baseline
        /\ conn[c].at # "leased" /\ q.lease = None
    BY <2>1 DEF FailStep, Leased
  <2> QED  BY <1>1, <1>2, <2>2, <2>3, NewIsTold, ParsMoves, Zenon
<1>12. CASE UNCHANGED vars
  <2>1. UNCHANGED <<conn, sess, own, baseline, env>>
    BY <1>12 DEF vars
  <2>2. NewPars' = NewPars
    BY <1>2 DEF NewPars, Initially, OwnBackend, Startup
  <2> QED  BY <2>1, <2>2 DEF ParsInv, Told, CleanOK, Leased, TransactionMode
<1> QED  BY <1>3, <1>4, <1>5, <1>6, <1>7, <1>8, <1>9, <1>10, <1>11, <1>12 DEF Next

\* Initially all connections are closed and nobody leases one.
LEMMA InitPars ==
    ASSUME Init
    PROVE  ParsInv
<1>1. \A c \in Conn : Told(conn[c])
  BY NewIsTold DEF Init
<1>2. \A s \in Session : ~Leased(s)
  BY DEF Init, Leased, NewSession
<1> QED  BY <1>1, <1>2 DEF ParsInv, Init, NewPars

\* What the proxy knows of parameters and statements, in every reachable state.
THEOREM ParametersAreKnown ==
    ASSUME ClientTracks
    PROVE  Spec => [](Base /\ NoneLeft /\ ParsInv)
<1>1. Init => Base /\ NoneLeft /\ ParsInv
  BY InitBase, InitRight, InitPars
<1>2. Base /\ NoneLeft /\ ParsInv /\ [Next]_vars => (Base /\ NoneLeft /\ ParsInv)'
  BY NextBase, NextNone, NextPars
<1> QED  BY <1>1, <1>2, PTL DEF Spec

\* The parameters cached for a connection are the server's (server_parameters,
\* set_parameter, the ParameterStatus arm of the pump), given a client library that
\* applies the ParameterStatus of the proxy's own queries.
THEOREM CacheIsExact ==
    ASSUME ClientTracks
    PROVE  Spec => []CacheIsTrue
<1>1. Base /\ NoneLeft /\ ParsInv => CacheIsTrue
  BY DEF ParsInv, Told, CacheIsTrue
<1> QED  BY <1>1, ParametersAreKnown, PTL

\* A parked connection is like a new one, also where checkin_detached skips the DISCARD
\* ALL: nothing a session prepared, SET or began reaches the next one.
THEOREM ParkedIsClean ==
    ASSUME ClientTracks
    PROVE  Spec => []ParkedNeutral
<1>1. ASSUME Base, NoneLeft, ParsInv, NEW c \in Conn, conn[c].at = "idle"
      PROVE  conn[c].b \in LikeNew
  <2> DEFINE b == conn[c].b
  <2>1. /\ b \in Backends /\ b.stmts = NoStmts /\ b.par \in NewPars /\ ~b.txn
        /\ b.saved = Defaults /\ env \in Setup
    BY <1>1 DEF Base, TypeOK, ConnType, NoneLeft, ParsInv, Told
  <2>2. b = [par |-> b.par, stmts |-> NoStmts, txn |-> FALSE, saved |-> Defaults]
    BY <2>1, Zenon DEF Backends
  <2>3. CASE b.par = Defaults
    BY <2>2, <2>3 DEF LikeNew, Backend
  <2>4. ASSUME NEW s \in Session, b.par = Initially(s)
        PROVE  b \in LikeNew
    <3>1. OwnBackend(s) = [Backend EXCEPT !.par = Initially(s)]
      BY <2>1, OwnIs
    <3>2. OwnBackend(s) = b
      BY <2>2, <2>4, <3>1, Zenon DEF Backend
    <3> QED  BY <3>2 DEF LikeNew
  <2> QED  BY <2>1, <2>3, <2>4 DEF NewPars
<1>2. Base /\ NoneLeft /\ ParsInv => ParkedNeutral
  BY <1>1 DEF ParkedNeutral
<1> QED  BY <1>2, ParametersAreKnown, PTL

\* The snapshot that new transaction mode sessions are told never holds a parameter that a
\* session SET (baseline_params).
THEOREM BaselineIsClean ==
    ASSUME ClientTracks
    PROVE  Spec => []BaselineNeutral
<1>1. ASSUME baseline \in NewPars PROVE BaselineNeutral
  <2>1. CASE baseline = Defaults
    <3>1. Backend \in LikeNew /\ Backend.par = Defaults
      BY DEF LikeNew, Backend
    <3> QED  BY <2>1, <3>1 DEF BaselineNeutral
  <2>2. ASSUME NEW s \in Session, baseline = Initially(s)
        PROVE  BaselineNeutral
    <3>1. OwnBackend(s) \in LikeNew
      BY DEF LikeNew
    <3> QED  BY <2>2, <3>1 DEF BaselineNeutral, Initially
  <2> QED  BY <1>1, <2>1, <2>2 DEF NewPars
<1>2. Base /\ NoneLeft /\ ParsInv => BaselineNeutral
  BY <1>1 DEF ParsInv
<1> QED  BY <1>2, ParametersAreKnown, PTL

-----------------------------------------------------------------------------
(***************************************************************************)
(* A session's own parameters.                                             *)
(***************************************************************************)

\* The session s and its backends move, the others stay where they are.
LEMMA FollowsMoves ==
    ASSUME Base, OwnInv, NEW s \in Session, NEW q \in Member, Becomes(s, q),
           NEW o, own' = [own EXCEPT ![s] = o],
           env'.txns = env.txns, env'.startup = env.startup,
           \A t \in Session \ {s} : Leased(t) => conn'[sess[t].lease] = conn[sess[t].lease],
           Follows(s, q, o, conn'[q.lease].b)
    PROVE  OwnInv'
<1>1. /\ sess \in [Session -> Member] /\ own \in [Session -> Backends]
  BY DEF Base, TypeOK
<1>2. /\ sess'[s] = q /\ own'[s] = o
      /\ \A t \in Session \ {s} : sess'[t] = sess[t] /\ own'[t] = own[t]
  BY <1>1 DEF Becomes
<1>3. \A t \in Session : Initially(t)' = Initially(t)
  BY DEF Initially, OwnBackend, Startup
<1>4. ASSUME NEW t \in Session
      PROVE  Follows(t, sess[t], own[t], conn[sess[t].lease].b)
  BY DEF OwnInv
<1>5. ASSUME NEW t \in Session
      PROVE  Follows(t, sess[t], own[t], conn[sess[t].lease].b)'
  <2>1. CASE t = s
    <3>1. Follows(t, sess'[t], own'[t], conn'[sess'[t].lease].b)
      BY <1>2, <2>1
    <3> QED  BY <1>3, <3>1, ZenonT(30) DEF Follows, Owed
  <2>2. CASE t # s
    <3>1. sess'[t] = sess[t] /\ own'[t] = own[t]
      BY <1>2, <2>2
    <3>2. sess[t].lease # None => conn'[sess[t].lease] = conn[sess[t].lease]
      BY <2>2 DEF Leased
    <3> QED  BY <1>3, <1>4, <3>1, <3>2 DEF Follows, Owed
  <2> QED  BY <2>1, <2>2
<1> QED  BY <1>5 DEF OwnInv

\* A request that is forwarded: what it changes becomes an override.
LEMMA FollowsServed ==
    ASSUME env \in Setup, NEW s \in Session, NEW q, NEW r, NEW o \in Backends, NEW b \in Backends,
           Follows(s, q, o, b), q.lease # None, r.lease = q.lease, OpOK(q.op),
           q.over \in [Param -> Value \cup {None}],
           r.over = Put(q.over, Changed(b, q.op), Server(b, q.op).par)
    PROVE  Follows(s, r, Server(o, q.op), Server(b, q.op))
<1> DEFINE op == q.op
           o1 == Server(o, op)
           b1 == Server(b, op)
           ps == Changed(b, op)
<1>1. /\ o.par = Owed(s, q.over) /\ (~o.txn => o.saved = Defaults) /\ (~env.txns => ~o.txn)
      /\ b.par = o.par /\ b.txn = o.txn /\ b.saved = o.saved
  BY DEF Follows
<1>2. b1.par = o1.par /\ b1.txn = o1.txn /\ b1.saved = o1.saved
  BY <1>1, ServerPars
<1>3. (~o1.txn => o1.saved = Defaults) /\ (~env.txns => ~o1.txn)
  BY <1>1, ServerTxn
<1>4. b1 \in Backends /\ o1 \in Backends
  BY ServerTyped
<1>5. \A p \in Param : p \in ps <=> b1.par[p] # b.par[p]
  BY DEF Changed
<1>6. b1.par \in Params /\ o1.par \in Params /\ None \notin Value
  BY <1>4 DEF Backends, Value, None
<1>7. r.over = Put(q.over, ps, b1.par)
  OBVIOUS
<1> HIDE DEF o1, b1, ps
<1>8. \A p \in Param : o1.par[p] = IF r.over[p] = None THEN Initially(s)[p] ELSE r.over[p]
  <2> TAKE p \in Param
  <2>1. o.par[p] = IF q.over[p] = None THEN Initially(s)[p] ELSE q.over[p]
    BY <1>1 DEF Owed
  <2>2. r.over[p] = IF p \in ps THEN b1.par[p] ELSE q.over[p]
    BY <1>7 DEF Put
  <2>3. b1.par[p] \in Value
    BY <1>6 DEF Params
  <2> QED  BY <1>1, <1>2, <1>5, <1>6, <2>1, <2>2, <2>3
<1>9. o1.par = Owed(s, r.over)
  BY <1>6, <1>8 DEF Params, Owed
<1>10. Follows(s, r, o1, b1)
  BY <1>2, <1>3, <1>9 DEF Follows
<1> QED  BY <1>10 DEF o1, b1

\* A Close changes no parameter.
LEMMA CloseKeepsPars ==
    ASSUME NEW b \in Backends, NEW op, op.k = "close"
    PROVE  LET d == Server(b, op) IN d.par = b.par /\ d.txn = b.txn /\ d.saved = b.saved
BY DEF Server, Backends

\* Every step keeps a session's parameters its own.
LEMMA NextOwn ==
    ASSUME ClientTracks, Base, ParsInv, OwnInv, Uniform(env), Apart(env), [Next]_vars
    PROVE  OwnInv'
<1>1. /\ sess \in [Session -> Member] /\ conn \in [Conn -> ConnType] /\ None \notin Conn
      /\ \A c \in Conn : conn[c].b \in Backends
      /\ own \in [Session -> Backends] /\ (\A t \in Session : own = [own EXCEPT ![t] = own[t]])
      /\ env \in Setup
  BY StateAssumption DEF Base, TypeOK, ConnType
<1>2. env'.txns = env.txns /\ env'.startup = env.startup
  BY SetupStays DEF Base
<1>3. \A t \in Session : Follows(t, sess[t], own[t], conn[sess[t].lease].b)
  BY DEF OwnInv
<1>4. ASSUME NEW s \in Session, NEW q \in Member, QuietStep(s, q), own' = own PROVE OwnInv'
  <2>1. conn' = conn /\ Becomes(s, q) /\ q.lease = sess[s].lease /\ q.over = sess[s].over
    BY <1>4 DEF QuietStep
  <2>2. Follows(s, q, own[s], conn'[q.lease].b)
    BY <1>3, <2>1 DEF Follows
  <2> QED  BY <1>1, <1>2, <1>4, <2>1, <2>2, FollowsMoves
<1>5. ASSUME NEW s \in Session, NEW op \in Request, Ask(s, op) PROVE OwnInv'
  BY <1>4, <1>5, AskDoes
<1>6. ASSUME NEW s \in Session, LocalParse(s) PROVE OwnInv'
  BY <1>4, <1>6, LocalParseDoes
<1>7. ASSUME NEW s \in Session, LocalClose(s) PROVE OwnInv'
  <2> DEFINE o == Server(own[s], sess[s].op)
  <2>1. PICK q \in Member :
             /\ QuietStep(s, q) /\ own' = [own EXCEPT ![s] = Server(own[s], sess[s].op)]
             /\ sess[s].op.k = "close"
    BY <1>7, LocalCloseDoes, Zenon
  <2>2. conn' = conn /\ Becomes(s, q) /\ q.lease = sess[s].lease /\ q.over = sess[s].over
    BY <2>1 DEF QuietStep
  <2>3. o.par = own[s].par /\ o.txn = own[s].txn /\ o.saved = own[s].saved
    BY <1>1, <2>1, CloseKeepsPars
  <2> HIDE DEF o
  <2>4. Follows(s, q, o, conn'[q.lease].b)
    BY <1>3, <2>2, <2>3 DEF Follows
  <2> QED  BY <1>2, <2>1, <2>2, <2>4, FollowsMoves, Zenon DEF o
<1>8. ASSUME NEW s \in Session, Serve(s) PROVE OwnInv'
  <2>0. PICK c \in Conn, k \in ConnType, q \in Member : ServeStep(s, c, k, q)
    BY <1>8, ServeDoes
  <2> DEFINE o == Server(own[s], sess[s].op)
  <2>1. /\ conn' = [conn EXCEPT ![c] = k] /\ Becomes(s, q) /\ sess[s].lease = c
        /\ OpOK(sess[s].op) /\ k.b = Server(conn[c].b, sess[s].op) /\ own' = [own EXCEPT ![s] = o]
        /\ q.lease = sess[s].lease
        /\ q.over = Put(sess[s].over, Changed(conn[c].b, sess[s].op), Server(conn[c].b, sess[s].op).par)
    BY <2>0, Zenon DEF ServeStep
  <2>2. /\ own[s] \in Backends /\ conn[c].b \in Backends /\ c # None
        /\ sess[s].over \in [Param -> Value \cup {None}]
    BY <1>1 DEF Member
  <2>3. Follows(s, sess[s], own[s], conn[c].b)
    BY <1>3, <2>1
  <2>4. Follows(s, q, o, k.b)
    <3>1. env \in Setup /\ sess[s].lease # None
      BY <1>1, <2>1, <2>2
    <3>2. Follows(s, q, o, Server(conn[c].b, sess[s].op))
      BY <2>1, <2>2, <2>3, <3>1, FollowsServed, Zenon
    <3> QED  BY <2>1, <3>2
  <2>5. conn'[q.lease].b = k.b
    BY <1>1, <2>1
  <2>6. \A t \in Session \ {s} : Leased(t) => conn'[sess[t].lease] = conn[sess[t].lease]
    BY <2>1, OthersKeep, Zenon
  <2> HIDE DEF o
  <2> QED  BY <1>2, <2>1, <2>4, <2>5, <2>6, FollowsMoves, Zenon
<1>9. ASSUME NEW s \in Session, Detach(s) PROVE OwnInv'
  <2>0. PICK c \in Conn, k \in ConnType, q \in Member : DetachStep(s, c, k, q)
    BY <1>9, DetachDoes
  <2>1. /\ conn' = [conn EXCEPT ![c] = k] /\ Becomes(s, q) /\ sess[s].lease = c /\ own' = own
        /\ ~conn[c].b.txn
    BY <2>0 DEF DetachStep
  <2>2. q.lease = None /\ q.over = sess[s].over
    BY <2>0, DetachFields
  <2>3. Follows(s, q, own[s], conn'[q.lease].b)
    BY <1>1, <1>3, <2>1, <2>2 DEF Follows
  <2>4. \A t \in Session \ {s} : Leased(t) => conn'[sess[t].lease] = conn[sess[t].lease]
    BY <2>1, OthersKeep, Zenon
  <2> QED  BY <1>1, <1>2, <2>1, <2>3, <2>4, FollowsMoves
<1>10. ASSUME NEW s \in Session, Leave(s) PROVE OwnInv'
  <2> DEFINE q == NewSession
             o == OwnBackend(s)
  <2>1. /\ Becomes(s, q) /\ q \in Member /\ own' = [own EXCEPT ![s] = o]
    BY <1>10, LeaveDoes
  <2>2. o.par = Initially(s) /\ ~o.txn /\ o.saved = Defaults /\ Initially(s) \in Params
    <3>1. o = [Backend EXCEPT !.par = Initially(s)] /\ Initially(s) \in Params
      BY <1>1, OwnIs
    <3> QED  BY <3>1 DEF Backend
  <2> HIDE DEF o
  <2>3. q.lease = None /\ \A p \in Param : q.over[p] = None
    BY DEF NewSession
  <2> HIDE DEF q
  <2>4. Follows(s, q, o, conn'[q.lease].b)
    BY <2>2, <2>3 DEF Follows, Owed, Params
  <2>5. \A t \in Session \ {s} : Leased(t) => conn'[sess[t].lease] = conn[sess[t].lease]
    <3>1. CASE ~Leased(s)
      BY <1>10, <3>1, LeaveDoes
    <3>2. CASE Leased(s)
      <4>1. PICK c \in Conn, k \in ConnType :
              conn' = [conn EXCEPT ![c] = k] /\ sess[s].lease = c
        BY <1>10, <3>2, LeaveDoes
      <4> QED  BY <4>1, OthersKeep, Zenon
    <3> QED  BY <3>1, <3>2
  <2> QED  BY <1>2, <2>1, <2>4, <2>5, FollowsMoves, Zenon
<1>11. ASSUME NEW s \in Session, Lose(s) PROVE OwnInv'
  <2>0. PICK c \in Conn, q \in Member : LoseStep(s, c, q)
    BY <1>11, LoseDoes
  <2> DEFINE o == Server(own[s], [k |-> "rollback"])
  <2>1. /\ conn' = [conn EXCEPT ![c] = Closed] /\ Becomes(s, q) /\ sess[s].lease = c
        /\ own' = [own EXCEPT ![s] = o] /\ q.lease = None /\ q.over = sess[s].over
        /\ env.losses > 0
    BY <2>0 DEF LoseStep
  <2>2. ~own[s].txn
    BY <1>3, <2>1 DEF Apart, Follows
  <2>3. o = own[s]
    BY <1>1, <2>2, RollbackTyped
  <2> HIDE DEF o
  <2>4. Follows(s, q, o, conn'[q.lease].b)
    BY <1>3, <2>1, <2>2, <2>3 DEF Follows
  <2>5. \A t \in Session \ {s} : Leased(t) => conn'[sess[t].lease] = conn[sess[t].lease]
    BY <2>1, OthersKeep, Zenon
  <2> QED  BY <1>2, <2>1, <2>4, <2>5, FollowsMoves, Zenon
<1>12. ASSUME NEW s \in Session, NEW c \in Conn, Attach(s, c) PROVE OwnInv'
  <2>0. PICK k \in ConnType, q \in Member : AttachStep(s, c, k, q)
    BY <1>12, AttachDoes
  <2>1. /\ conn' = [conn EXCEPT ![c] = k] /\ Becomes(s, q) /\ conn[c].at # "leased" /\ own' = own
        /\ ~Leased(s)
    BY <2>0 DEF AttachStep
  <2>2. q.lease = c /\ q.over = sess[s].over
    BY <2>0, AttachFields
  <2>3. k.b.par = Owed(s, sess[s].over) /\ ~k.b.txn /\ k.b.saved = Defaults
    BY <2>0, AttachedPars DEF Told
  <2>4. ~own[s].txn /\ own[s].saved = Defaults /\ own[s].par = Owed(s, sess[s].over)
        /\ own[s].txn \in BOOLEAN /\ k.b.txn \in BOOLEAN
    BY <1>1, <1>3, <2>1 DEF Follows, Leased, Backends, ConnType
  <2>5. conn'[q.lease].b = k.b
    BY <1>1, <2>1, <2>2
  <2>6. k.b.txn = own[s].txn
    BY <2>3, <2>4
  <2>7. Follows(s, q, own[s], k.b)
    BY <2>2, <2>3, <2>4, <2>6 DEF Follows
  <2>8. \A t \in Session \ {s} : Leased(t) => conn'[sess[t].lease] = conn[sess[t].lease]
    BY <2>1, OthersKeep, Zenon
  <2> QED  BY <1>1, <1>2, <2>1, <2>5, <2>7, <2>8, FollowsMoves
<1>13. ASSUME NEW s \in Session, NEW c \in Conn, AttachFails(s, c) PROVE OwnInv'
  <2>1. PICK q \in Member : FailStep(s, c, q)
    BY <1>13, FailDoes
  <2>2. /\ conn' = [conn EXCEPT ![c] = Closed] /\ Becomes(s, q) /\ conn[c].at # "leased" /\ own' = own
        /\ ~Leased(s) /\ q.lease = sess[s].lease /\ q.over = sess[s].over
    BY <2>1 DEF FailStep
  <2>3. Follows(s, q, own[s], conn'[q.lease].b)
    BY <1>3, <2>2 DEF Follows, Leased
  <2>4. \A t \in Session \ {s} : Leased(t) => conn'[sess[t].lease] = conn[sess[t].lease]
    BY <2>2, OthersKeep, Zenon
  <2> QED  BY <1>1, <1>2, <2>2, <2>3, <2>4, FollowsMoves
<1>14. CASE UNCHANGED vars
  <2>1. UNCHANGED <<conn, sess, own, baseline, env>>
    BY <1>14 DEF vars
  <2>2. \A t \in Session : Initially(t)' = Initially(t)
    BY <2>1 DEF Initially, OwnBackend, Startup
  <2> QED  BY <2>1, <2>2 DEF OwnInv, Follows, Owed
<1> QED  BY <1>5, <1>6, <1>7, <1>8, <1>9, <1>10, <1>11, <1>12, <1>13, <1>14 DEF Next

\* Initially a session's backend has its startup parameters.
LEMMA InitOwn ==
    ASSUME Init
    PROVE  OwnInv
<1>1. env \in Setup
  BY StateAssumption DEF Init
<1>2. ASSUME NEW s \in Session
      PROVE  Follows(s, sess[s], own[s], conn[sess[s].lease].b)
  <2> DEFINE o == OwnBackend(s)
  <2>1. o = [Backend EXCEPT !.par = Initially(s)] /\ Initially(s) \in Params
    BY <1>1, OwnIs
  <2>2. o.par = Initially(s) /\ ~o.txn /\ o.saved = Defaults
    BY <2>1 DEF Backend
  <2>3. own[s] = o /\ sess[s].lease = None /\ \A p \in Param : sess[s].over[p] = None
    BY DEF Init, NewSession
  <2> HIDE DEF o
  <2> QED  BY <2>1, <2>2, <2>3 DEF Follows, Owed, Params
<1> QED  BY <1>2 DEF OwnInv

\* A session's requests run under the parameters it set and no others (GucOverrides,
\* sync_startup_parameters, DISCARD ALL), given a client library that applies
\* ParameterStatus, a pool whose sessions all send an application_name or none does, and
\* connections that are not lost where transactions are explicit.
THEOREM ParametersFollow ==
    ASSUME ClientTracks, \A e \in Setups : Uniform(e) /\ Apart(e)
    PROVE  Spec => []ParamsMatch
<1> DEFINE I == Base /\ ParsInv /\ OwnInv /\ Uniform(env) /\ Apart(env)
<1>1. Init => I
  BY InitBase, InitPars, InitOwn DEF Init
<1>2. I /\ [Next]_vars => I'
  <2> SUFFICES ASSUME I, [Next]_vars PROVE I'
    OBVIOUS
  <2>1. Base' /\ ParsInv' /\ OwnInv'
    BY NextBase, NextPars, NextOwn
  <2>2. env'.startup = env.startup /\ env'.txns = env.txns /\ (env'.losses > 0 => env.losses > 0)
    BY SetupStays DEF Base
  <2> QED  BY <2>1, <2>2 DEF Uniform, Apart
<1>3. I => ParamsMatch
  BY DEF OwnInv, Follows, ParamsMatch, Leased
<1> HIDE DEF I
<1> QED  BY <1>1, <1>2, <1>3, PTL DEF Spec
=============================================================================
