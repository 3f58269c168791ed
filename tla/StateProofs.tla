---------------------------- MODULE StateProofs ----------------------------
(***************************************************************************)
(* Proofs about SessionState, for any numbers of sessions, connections and *)
(* statement names: types, leases and statements.  Those of a session need *)
(* clients whose Closes are answered by the proxy.                         *)
(***************************************************************************)
EXTENDS SessionState, TLAPS

\* A leaf that names no prover is tried by SMT, by Zenon, and by SMT again.
USE SMTT(60), ZenonT(30), SMTT(60)

\* The parameters a session asks for at startup.
Initially(s) == OwnBackend(s).par

\* No session fails more than two attaches.
TriesOK == \A s \in Session : sess[s].ended \/ sess[s].tries <= 1

Base == TypeOK /\ TriesOK

\* A connection without the dirty flag has no statements, and a parked or closed one
\* has none either.
NoneLeft ==
    /\ \A c \in Conn : conn[c].at # "leased" => conn[c].b.stmts = NoStmts
    /\ \A s \in Session :
          Leased(s) /\ ~sess[s].dirty => conn[sess[s].lease].b.stmts = NoStmts

-----------------------------------------------------------------------------
(***************************************************************************)
(* Requests and what a backend does with them.                             *)
(***************************************************************************)

\* A request has the fields its kind needs.
OpOK(op) ==
    /\ op.k = "parse" => op.n \in Name /\ op.t \in Text
    /\ op.k = "close" => op.n \in Name
    /\ op.k = "set" => op.p \in Param /\ op.v \in Value
    /\ op.k \in {"begin", "commit", "rollback"} => env.txns

\* What sessions ask for is a well formed request.
LEMMA OpTyped ==
    ASSUME env \in Setup, NEW op \in Request \cup {NoRequest}
    PROVE  OpOK(op)
<1>1. env.text \subseteq Text /\ env.sets \subseteq Param
  BY DEF Setup, Param
<1>2. CASE op \in [k : {"parse"}, n : Name, t : env.text]
  BY <1>1, <1>2 DEF OpOK
<1>3. CASE op \in [k : {"close"}, n : Name]
  BY <1>3 DEF OpOK
<1>4. CASE op \in [k : {"set"}, p : env.sets, v : {"d", "v"}]
  BY <1>1, <1>4 DEF OpOK, Value
<1>5. CASE op \in [k : {"query"}]
  BY <1>5 DEF OpOK
<1>6. CASE op \in [k : IF env.txns THEN {"begin", "commit", "rollback"} ELSE {}]
  BY <1>6 DEF OpOK
<1>7. CASE op = NoRequest
  BY <1>7 DEF OpOK, NoRequest, None
<1> QED  BY <1>2, <1>3, <1>4, <1>5, <1>6, <1>7 DEF Request

\* Backends stay backends, and only Parse and Close change the statements.
LEMMA ServerTyped ==
    ASSUME NEW b \in Backends, NEW op, OpOK(op)
    PROVE  /\ Server(b, op) \in Backends
           /\ op.k \notin {"parse", "close"} => Server(b, op).stmts = b.stmts
           /\ op.k \in {"parse", "close"} =>
                 \A n \in Name : n # op.n => Server(b, op).stmts[n] = b.stmts[n]
           /\ op.k = "parse" /\ (b.stmts[op.n] # None \/ op.t = "bad") => Server(b, op).stmts = b.stmts
           /\ op.k = "parse" /\ b.stmts[op.n] = None /\ op.t # "bad" =>
                 Server(b, op).stmts[op.n] = op.t
           /\ op.k = "close" => Server(b, op).stmts[op.n] = None
<1>1. /\ Defaults \in Params /\ b.par \in Params /\ b.saved \in Params /\ b.stmts \in Stmts
      /\ b.txn \in BOOLEAN
  BY DEF Backends, Defaults, Params, Value
<1>2. CASE op.k = "parse" /\ b.stmts[op.n] = None /\ op.t # "bad"
  <2>1. Server(b, op) = [b EXCEPT !.stmts = [b.stmts EXCEPT ![op.n] = op.t]]
    BY <1>2 DEF Server
  <2>2. [b.stmts EXCEPT ![op.n] = op.t] \in Stmts
    BY <1>1, <1>2 DEF OpOK, Stmts
  <2> QED  BY <1>1, <1>2, <2>1, <2>2 DEF Backends, Stmts, OpOK
<1>3. CASE op.k = "close"
  <2>1. Server(b, op) = [b EXCEPT !.stmts = [b.stmts EXCEPT ![op.n] = None]]
    BY <1>3 DEF Server
  <2>2. [b.stmts EXCEPT ![op.n] = None] \in Stmts
    BY <1>1, <1>3 DEF OpOK, Stmts
  <2> QED  BY <1>1, <1>3, <2>1, <2>2 DEF Backends, Stmts, OpOK
<1>4. CASE op.k = "set"
  <2>1. Server(b, op) = [b EXCEPT !.par = [b.par EXCEPT ![op.p] = op.v]]
    BY <1>4 DEF Server
  <2>2. [b.par EXCEPT ![op.p] = op.v] \in Params
    BY <1>1, <1>4 DEF OpOK, Params
  <2> QED  BY <1>1, <1>4, <2>1, <2>2 DEF Backends, OpOK
<1>5. CASE op.k = "begin" /\ ~b.txn
  BY <1>1, <1>5, Zenon DEF Server, Backends
<1>6. CASE op.k = "commit"
  BY <1>1, <1>6, Zenon DEF Server, Backends
<1>7. CASE op.k = "rollback" /\ b.txn
  BY <1>1, <1>7, Zenon DEF Server, Backends
<1>8. CASE /\ ~(op.k = "parse" /\ b.stmts[op.n] = None /\ op.t # "bad")
           /\ op.k \notin {"close", "set", "commit"} /\ ~(op.k = "begin" /\ ~b.txn)
           /\ ~(op.k = "rollback" /\ b.txn)
  BY <1>8 DEF Server
<1> QED  BY <1>2, <1>3, <1>4, <1>5, <1>6, <1>7, <1>8

\* A lost connection takes its transaction with it.
LEMMA RollbackTyped ==
    ASSUME NEW b \in Backends
    PROVE  LET d == Server(b, [k |-> "rollback"]) IN
           d \in Backends /\ d.stmts = b.stmts /\ (~b.txn => d = b)
<1>1. /\ Defaults \in Params /\ b.par \in Params /\ b.saved \in Params /\ b.txn \in BOOLEAN
  BY DEF Backends, Defaults, Params, Value
<1>2. CASE b.txn
  BY <1>1, <1>2, Zenon DEF Server, Backends
<1>3. CASE ~b.txn
  BY <1>1, <1>3 DEF Server, Backends
<1> QED  BY <1>2, <1>3

\* The backend of a session that has just started.
LEMMA OwnIs ==
    ASSUME env \in Setup, NEW s \in Session
    PROVE  /\ OwnBackend(s) \in Backends /\ Backend \in Backends /\ Defaults \in Params
           /\ Initially(s) \in Params /\ Closed \in ConnType
           /\ OwnBackend(s) = [Backend EXCEPT !.par = Initially(s)]
           /\ Initially(s) = [p \in Param |-> IF p = "app" /\ Startup[s] # None THEN Startup[s] ELSE "d"]
<1>1. Startup[s] \in {None, "a", "b"}
  BY DEF Setup, Startup
<1>2. Defaults \in Params /\ NoStmts \in Stmts
  BY DEF Defaults, Params, NoStmts, Stmts, Value
<1>3. Backend \in Backends /\ Backend.par = Defaults
  BY <1>2 DEF Backend, Backends
<1>4. Closed \in ConnType
  BY <1>2, <1>3 DEF Closed, ConnType
<1>5. CASE Startup[s] = None
  BY <1>2, <1>3, <1>4, <1>5, Zenon DEF OwnBackend, Initially, Defaults, Backend
<1>6. CASE Startup[s] # None
  <2> DEFINE f == [Defaults EXCEPT !["app"] = Startup[s]]
  <2>1. f \in Params /\ f = [p \in Param |-> IF p = "app" THEN Startup[s] ELSE "d"]
    BY <1>1, <1>2, <1>6 DEF Params, Defaults, Param, Value
  <2>2. OwnBackend(s) = [Backend EXCEPT !.par = f]
    BY <1>3, <1>6 DEF OwnBackend
  <2> HIDE DEF f
  <2>3. Initially(s) = f
    BY <1>3, <2>2 DEF Initially, Backend
  <2> QED  BY <1>2, <1>3, <1>4, <1>6, <2>1, <2>2, <2>3, Zenon DEF Backends, Backend
<1> QED  BY <1>5, <1>6

\* Put takes the values of g for the parameters ps and those of f elsewhere.
LEMMA PutTyped ==
    ASSUME NEW T, NEW ps \in SUBSET Param, NEW f \in [Param -> T], NEW g, \A p \in ps : g[p] \in T
    PROVE  /\ Put(f, ps, g) \in [Param -> T]
           /\ \A p \in Param : Put(f, ps, g)[p] = IF p \in ps THEN g[p] ELSE f[p]
BY DEF Put

-----------------------------------------------------------------------------
(***************************************************************************)
(* What each operation does to its connection and its session.             *)
(***************************************************************************)

\* The session s changes to q.
Becomes(s, q) == sess' = [sess EXCEPT ![s] = q]

\* ensure_attached: the connection becomes k.
AttachStep(s, c, k, q) ==
    LET i == Synced(s, conn[c])   ps == Overridden(s, i) IN
    /\ conn' = [conn EXCEPT ![c] = k] /\ Becomes(s, q)
    /\ own' = own /\ baseline' = baseline /\ env' = env
    /\ conn[c].at # "leased" /\ ~Leased(s) /\ Forwarded(s) /\ ~Refuses(s, c)
    /\ k.at = "leased" /\ k.b.stmts = Replay(s, conn[c].b.stmts)
    /\ k.b.txn = conn[c].b.txn /\ k.b.saved = conn[c].b.saved
    /\ i.b.par \in Params /\ i.cache \in Params /\ ps \in SUBSET Param
    /\ k.b.par = Put(i.b.par, ps, sess[s].over)
    /\ ClientTracks => k.cache = Put(i.cache, ps, sess[s].over)
    /\ q = [sess[s] EXCEPT !.lease = c, !.dirty = sess[s].dirty \/ ps # {} \/ Registered(s) # {}]

\* An Attach is an AttachStep, to a well formed connection and session.
LEMMA AttachDoes ==
    ASSUME Base, NEW s \in Session, NEW c \in Conn, Attach(s, c)
    PROVE  \E k \in ConnType, q \in Member : AttachStep(s, c, k, q)
<1> DEFINE i == Synced(s, conn[c])
           ps == Overridden(s, i)
           stmts == Replay(s, conn[c].b.stmts)
           par == Put(i.b.par, ps, sess[s].over)
           cache == IF ClientTracks THEN Put(i.cache, ps, sess[s].over) ELSE i.cache
           b == [i.b EXCEPT !.par = par, !.stmts = stmts]
           k == [at |-> "leased", b |-> b, cache |-> cache]
           q == [sess[s] EXCEPT !.lease = c, !.dirty = sess[s].dirty \/ ps # {} \/ Registered(s) # {}]
<1>1. /\ conn[c] \in ConnType /\ sess[s] \in Member /\ env \in Setup
      /\ conn \in [Conn -> ConnType] /\ sess \in [Session -> Member]
  BY DEF Base, TypeOK
<1>2. /\ i \in ConnType /\ i.b.stmts = conn[c].b.stmts /\ i.b.txn = conn[c].b.txn
      /\ i.b.saved = conn[c].b.saved
  <2>1. Startup[s] \in {None, "a", "b"}
    BY <1>1 DEF Startup, Setup
  <2>2. CASE i = conn[c]
    BY <1>1, <2>2
  <2>3. CASE i # conn[c]
    <3> DEFINE p1 == [conn[c].b.par EXCEPT !["app"] = Startup[s]]
               c1 == [conn[c].cache EXCEPT !["app"] = Startup[s]]
               b1 == [conn[c].b EXCEPT !.par = p1]
    <3>1. Startup[s] # None
      BY <2>3 DEF Synced
    <3>2. /\ conn[c].b \in Backends /\ conn[c].b.par \in Params /\ conn[c].cache \in Params
      BY <1>1 DEF ConnType, Backends
    <3>3. p1 \in Params /\ c1 \in Params
      BY <2>1, <3>1, <3>2, Zenon DEF Params, Value
    <3>4. i = [conn[c] EXCEPT !.b = b1, !.cache = c1]
      BY <2>3, <1>1, <3>2 DEF Synced, ConnType, Backends
    <3> HIDE DEF p1, c1, i
    <3>5. b1 \in Backends
      BY <3>2, <3>3 DEF Backends
    <3> QED  BY <1>1, <3>2, <3>3, <3>4, <3>5, Zenon DEF ConnType, Backends
  <2> QED  BY <2>2, <2>3
<1>3. /\ i.b \in Backends /\ i.b.par \in Params /\ i.cache \in Params /\ ps \in SUBSET Param
      /\ \A p \in ps : sess[s].over[p] \in Value
  <2>1. \A p \in Param : sess[s].over[p] \in Value \cup {None}
    BY <1>1 DEF Member
  <2> QED  BY <1>2, <2>1 DEF ConnType, Backends, Overridden
<1>4. par \in Params /\ cache \in Params
  <2> HIDE DEF i, ps
  <2> QED  BY <1>3 DEF Params, Put
<1>5. stmts \in Stmts
  <2>1. conn[c].b.stmts \in Stmts /\ sess[s].reg \in Stmts
    BY <1>1 DEF ConnType, Backends, Member
  <2> QED  BY <2>1 DEF Replay, Stmts
<1>6. conn' = [conn EXCEPT ![c] = k] /\ Becomes(s, q)
  <2>1. conn' = [conn EXCEPT ![c] = Attached(s, i)] /\ Becomes(s, q)
    BY DEF Attach, Becomes
  <2> DEFINE r == Replayed(s, i)
  <2> HIDE DEF i
  <2>2. r = [i EXCEPT !.b = [i.b EXCEPT !.par = par], !.cache = cache]
    BY <1>2, <1>3 DEF Replayed, ConnType, Backends
  <2> HIDE DEF ps, par, cache
  <2>3. r.b = [i.b EXCEPT !.par = par] /\ r.cache = cache /\ r.b.stmts = i.b.stmts
    BY <1>2, <1>3, <2>2 DEF ConnType, Backends
  <2>4. Attached(s, i) = [r EXCEPT !.at = "leased", !.b = [r.b EXCEPT !.stmts = stmts]]
    BY <1>2, <2>3, Zenon DEF Attached
  <2> HIDE DEF stmts, r
  <2>5. [r.b EXCEPT !.stmts = stmts] = b
    BY <1>3, <2>3 DEF Backends
  <2>6. Attached(s, i) = k
    BY <1>2, <2>2, <2>3, <2>4, <2>5, Zenon DEF ConnType
  <2> QED  BY <2>1, <2>6
<1>7. q \in Member /\ k \in ConnType
  <2>1. b \in Backends
    BY <1>3, <1>4, <1>5, Zenon DEF Backends
  <2> HIDE DEF b, i, ps, par, cache
  <2>2. k \in ConnType
    BY <1>4, <2>1 DEF ConnType
  <2>3. (sess[s].dirty \/ ps # {} \/ Registered(s) # {}) \in BOOLEAN
    OBVIOUS
  <2> QED  BY <1>1, <2>2, <2>3, Zenon DEF Member
<1>8. /\ b.stmts = stmts /\ b.par = par /\ b.txn = conn[c].b.txn /\ b.saved = conn[c].b.saved
  BY <1>2, <1>3 DEF Backends
<1>9. /\ conn[c].at # "leased" /\ ~Leased(s) /\ Forwarded(s) /\ ~Refuses(s, c)
      /\ own' = own /\ baseline' = baseline /\ env' = env
  BY DEF Attach, Available
<1> HIDE DEF b, i, ps, par, cache, stmts
<1>10. k.at = "leased" /\ k.b = b /\ k.cache = cache
  OBVIOUS
<1> HIDE DEF k, q
<1>11. AttachStep(s, c, k, q)
  BY <1>3, <1>6, <1>8, <1>9, <1>10 DEF AttachStep, i, ps, par, cache, stmts, q
<1> QED  BY <1>7, <1>11

\* A forwarded request, recorded and answered.
ServeStep(s, c, k, q) ==
    LET op == sess[s].op   ps == Changed(conn[c].b, op) IN
    /\ conn' = [conn EXCEPT ![c] = k] /\ Becomes(s, q)
    /\ own' = [own EXCEPT ![s] = Server(own[s], op)]
    /\ baseline' = baseline /\ env' = env
    /\ sess[s].lease = c /\ OpOK(op) /\ Forwarded(s) /\ conn[c].at = "leased"
    /\ k.at = "leased" /\ k.b = Server(conn[c].b, op)
    /\ k.cache = Put(conn[c].cache, ps, k.b.par)
    /\ q.lease = c /\ q.op = NoRequest /\ q.tries = sess[s].tries
    /\ q.ended = sess[s].ended /\ q.over = Put(sess[s].over, ps, k.b.par)
    /\ q.reg = IF op.k = "parse" THEN [sess[s].reg EXCEPT ![op.n] = op.t] ELSE sess[s].reg
    /\ q.dirty = (sess[s].dirty \/ op.k = "parse" \/ (TransactionMode /\ ps # {}))

\* A Serve is a ServeStep.
LEMMA ServeDoes ==
    ASSUME Base, NEW s \in Session, Serve(s)
    PROVE  \E c \in Conn, k \in ConnType, q \in Member : ServeStep(s, c, k, q)
<1> DEFINE c == sess[s].lease
           op == sess[s].op
           b == Server(conn[c].b, op)
           ps == Changed(conn[c].b, op)
           cache == Put(conn[c].cache, ps, b.par)
           over == Put(sess[s].over, ps, b.par)
           reg == IF op.k = "parse" THEN [sess[s].reg EXCEPT ![op.n] = op.t] ELSE sess[s].reg
           dirty == sess[s].dirty \/ op.k = "parse" \/ (TransactionMode /\ ps # {})
           k == [conn[c] EXCEPT !.b = b, !.cache = cache]
           q == [sess[s] EXCEPT !.op = NoRequest, !.over = over, !.reg = reg, !.dirty = dirty]
<1>1. /\ sess[s] \in Member /\ env \in Setup /\ conn \in [Conn -> ConnType]
  BY DEF Base, TypeOK
<1>2. /\ c \in Conn /\ op \in Request \cup {NoRequest} /\ Forwarded(s)
      /\ own' = [own EXCEPT ![s] = Server(own[s], op)] /\ baseline' = baseline /\ env' = env
  BY <1>1 DEF Serve, Leased, Member
<1>3. OpOK(op)
  BY <1>1, <1>2, OpTyped
<1>4. /\ conn[c] \in ConnType /\ conn[c].b \in Backends /\ conn[c].cache \in Params
      /\ conn[c].at = "leased"
  BY <1>1, <1>2 DEF ConnType, Base, TypeOK
<1>5. b \in Backends /\ b.par \in Params /\ ps \in SUBSET Param
  BY <1>3, <1>4, ServerTyped DEF Backends, Changed
<1>6. conn' = [conn EXCEPT ![c] = k] /\ Becomes(s, q)
  BY DEF Serve, Becomes
<1> HIDE DEF b, ps
<1>7. cache \in Params
  BY <1>4, <1>5 DEF Params, Put
<1>8. over \in [Param -> Value \cup {None}]
  BY <1>1, <1>5 DEF Params, Put, Member
<1>9. reg \in Stmts
  BY <1>1, <1>3 DEF Member, Stmts, OpOK
<1>10. dirty \in BOOLEAN /\ NoRequest \in Request \cup {NoRequest}
  OBVIOUS
<1> HIDE DEF cache, over, reg, dirty
<1>11. k \in ConnType /\ k.at = "leased" /\ k.b = b /\ k.cache = cache
  BY <1>4, <1>5, <1>7, Zenon DEF ConnType
<1>12. /\ q \in Member /\ q.lease = c /\ q.op = NoRequest /\ q.tries = sess[s].tries
       /\ q.ended = sess[s].ended /\ q.over = over /\ q.reg = reg /\ q.dirty = dirty
  <2> HIDE DEF op
  <2> QED  BY <1>1, <1>8, <1>9, <1>10, Zenon DEF Member
<1> HIDE DEF k, q
<1>13. ServeStep(s, c, k, q)
  BY <1>2, <1>3, <1>4, <1>6, <1>11, <1>12 DEF ServeStep, b, ps, cache, over, reg, dirty
<1> QED  BY <1>2, <1>11, <1>12, <1>13

\* checkin_detached
DetachStep(s, c, k, q) ==
    /\ conn' = [conn EXCEPT ![c] = k] /\ Becomes(s, q)
    /\ own' = own /\ baseline' = k.cache /\ env' = env
    /\ sess[s].lease = c /\ ~conn[c].b.txn /\ sess[s].op = NoRequest /\ TransactionMode
    /\ k.at = "idle" /\ k.b = IF sess[s].dirty THEN Backend ELSE conn[c].b
    /\ ClientTracks => k.cache = IF sess[s].dirty THEN Defaults ELSE conn[c].cache
    /\ q = [sess[s] EXCEPT !.lease = None, !.dirty = FALSE]

\* A Detach is a DetachStep.
LEMMA DetachDoes ==
    ASSUME Base, NEW s \in Session, Detach(s)
    PROVE  \E c \in Conn, k \in ConnType, q \in Member : DetachStep(s, c, k, q)
<1> DEFINE c == sess[s].lease
           d == IF sess[s].dirty THEN Discarded(conn[c]) ELSE conn[c]
           k == [d EXCEPT !.at = "idle"]
           q == [sess[s] EXCEPT !.lease = None, !.dirty = FALSE]
<1>1. /\ sess[s] \in Member /\ env \in Setup /\ conn \in [Conn -> ConnType]
      /\ Defaults \in Params /\ Backend \in Backends
  BY OwnIs DEF Base, TypeOK
<1>2. /\ c \in Conn /\ ~conn[c].b.txn /\ sess[s].op = NoRequest /\ own' = own /\ env' = env
      /\ TransactionMode
      /\ baseline' = d.cache /\ conn' = [conn EXCEPT ![c] = k] /\ Becomes(s, q)
  BY <1>1 DEF Detach, Detaches, Leased, Becomes, Member
<1>3. conn[c] \in ConnType
  BY <1>1, <1>2
<1>4. /\ d \in ConnType /\ d.b = IF sess[s].dirty THEN Backend ELSE conn[c].b
      /\ ClientTracks => d.cache = IF sess[s].dirty THEN Defaults ELSE conn[c].cache
  <2>1. CASE sess[s].dirty
    <3>1. d = Discarded(conn[c])
      BY <2>1
    <3> QED  BY <1>1, <1>3, <2>1, <3>1, Zenon DEF ConnType, Discarded
  <2>2. CASE ~sess[s].dirty
    BY <1>3, <2>2
  <2> QED  BY <2>1, <2>2
<1> HIDE DEF d
<1>5. k \in ConnType /\ k.at = "idle" /\ k.b = d.b /\ k.cache = d.cache
  BY <1>4 DEF ConnType
<1>6. q \in Member
  BY <1>1, Zenon DEF Member
<1>7. DetachStep(s, c, k, q)
  <2> HIDE DEF k
  <2> QED  BY <1>2, <1>4, <1>5 DEF DetachStep
<1> HIDE DEF k, q
<1> QED  BY <1>2, <1>5, <1>6, <1>7

\* The end of a session.
LEMMA LeaveDoes ==
    ASSUME Base, NEW s \in Session, Leave(s)
    PROVE  /\ Becomes(s, NewSession) /\ NewSession \in Member
           /\ own' = [own EXCEPT ![s] = OwnBackend(s)] /\ baseline' = baseline /\ env' = env
           /\ ~Leased(s) => conn' = conn
           /\ Leased(s) => \E c \in Conn, k \in ConnType :
                /\ conn' = [conn EXCEPT ![c] = k] /\ sess[s].lease = c
                /\ k.at = "idle" /\ k.b = Backend /\ (ClientTracks => k.cache = Defaults)
<1> DEFINE c == sess[s].lease
           k == [Discarded(conn[c]) EXCEPT !.at = "idle"]
<1>1. /\ sess[s] \in Member /\ conn \in [Conn -> ConnType]
      /\ Defaults \in Params /\ Backend \in Backends
  BY OwnIs DEF Base, TypeOK
<1>2. NewSession \in Member
  BY DEF NewSession, Member, NoStmts, Stmts
<1>3. ASSUME Leased(s)
      PROVE  /\ c \in Conn /\ k \in ConnType /\ k.at = "idle" /\ k.b = Backend
             /\ ClientTracks => k.cache = Defaults
  <2>1. c \in Conn /\ conn[c] \in ConnType
    BY <1>1, <1>3 DEF Leased, Member
  <2>2. /\ Discarded(conn[c]) \in ConnType /\ Discarded(conn[c]).b = Backend
        /\ ClientTracks => Discarded(conn[c]).cache = Defaults
    BY <1>1, <2>1, Zenon DEF Discarded, ConnType
  <2> QED  BY <2>1, <2>2 DEF ConnType
<1>4. /\ Becomes(s, NewSession) /\ own' = [own EXCEPT ![s] = OwnBackend(s)]
      /\ baseline' = baseline /\ env' = env
      /\ ~Leased(s) => conn' = conn
      /\ Leased(s) => conn' = [conn EXCEPT ![c] = k]
  BY DEF Leave, Becomes
<1> HIDE DEF k
<1> QED  BY <1>2, <1>3, <1>4

-----------------------------------------------------------------------------
(***************************************************************************)
(* Types, and leases: a connection is leased by at most one session.       *)
(***************************************************************************)

\* One session moves to q, and the connection it gives up or takes changes hands with it.
LEMMA BaseMoves ==
    ASSUME Base, NEW s \in Session, NEW q \in Member, Becomes(s, q), q.ended \/ q.tries <= 1,
           conn' \in [Conn -> ConnType], own' \in [Session -> Backends], baseline' \in Params,
           env' \in Setup, env'.text = env.text, env'.sets = env.sets, env'.txns = env.txns,
           \A d \in Conn : d \notin {sess[s].lease, q.lease} =>
                                (conn'[d].at = "leased" <=> conn[d].at = "leased"),
           Leased(s) /\ q.lease # sess[s].lease => conn'[sess[s].lease].at # "leased",
           q.lease # None => conn'[q.lease].at = "leased",
           q.lease # None /\ q.lease # sess[s].lease => conn[q.lease].at # "leased"
    PROVE  Base'
<1>1. /\ sess \in [Session -> Member] /\ TriesOK
      /\ \A c \in Conn : conn[c].at = "leased" <=> \E t \in Session : sess[t].lease = c
      /\ \A t, u \in Session : sess[t].lease # None /\ sess[t].lease = sess[u].lease => t = u
  BY DEF Base, TypeOK, Leased
<1>2. /\ sess' \in [Session -> Member] /\ sess'[s] = q
      /\ \A t \in Session \ {s} : sess'[t] = sess[t]
  BY <1>1 DEF Becomes
<1>3. Member' = Member
  <2>1. Request' = Request
    BY DEF Request
  <2> QED  BY <2>1 DEF Member, NoRequest, Stmts
<1>4. \A t \in Session : sess[t].lease \in Conn \cup {None} /\ q.lease \in Conn \cup {None}
  BY <1>1 DEF Member
<1>5. None \notin Conn
  BY StateAssumption
<1>6. ASSUME NEW t \in Session, NEW u \in Session, sess'[t].lease # None,
             sess'[t].lease = sess'[u].lease
      PROVE  t = u
  <2>1. CASE t = s /\ u # s
    BY <1>1, <1>2, <1>4, <1>6, <2>1 DEF Leased
  <2>2. CASE u = s /\ t # s
    BY <1>1, <1>2, <1>4, <1>6, <2>2 DEF Leased
  <2>3. CASE t # s /\ u # s
    BY <1>1, <1>2, <1>6, <2>3
  <2> QED  BY <2>1, <2>2, <2>3
<1>7. ASSUME NEW c \in Conn
      PROVE  conn'[c].at = "leased" <=> \E t \in Session : sess'[t].lease = c
  <2>1. CASE c = q.lease
    BY <1>2, <1>5, <2>1
  <2>2. CASE c # q.lease /\ c = sess[s].lease
    <3>1. conn'[c].at # "leased"
      BY <1>5, <2>2 DEF Leased
    <3>2. \A t \in Session : sess'[t].lease # c
      BY <1>1, <1>2, <1>5, <2>2
    <3> QED  BY <3>1, <3>2
  <2>3. CASE c # q.lease /\ c # sess[s].lease
    BY <1>1, <1>2, <2>3
  <2> QED  BY <2>1, <2>2, <2>3
<1>8. TriesOK'
  BY <1>1, <1>2 DEF TriesOK
<1>9. sess' \in [Session -> Member']
  BY <1>2, <1>3
<1>10. TypeOK'
  BY <1>6, <1>7, <1>9 DEF TypeOK, Leased
<1> QED  BY <1>8, <1>10 DEF Base

\* Only the losses still to come ever change in the setup.
LEMMA SetupStays ==
    ASSUME TypeOK, [Next]_vars
    PROVE  /\ env' \in Setup
           /\ env'.text = env.text /\ env'.sets = env.sets /\ env'.txns = env.txns
           /\ env'.startup = env.startup /\ env'.transaction = env.transaction
           /\ env'.losses > 0 => env.losses > 0
<1>1. env \in Setup
  BY DEF TypeOK
<1>2. env' = env => env' \in Setup
  BY <1>1
<1>3. ASSUME NEW s \in Session, Lose(s)
      PROVE  /\ env' \in Setup /\ env.losses > 0
             /\ env'.text = env.text /\ env'.sets = env.sets /\ env'.txns = env.txns
             /\ env'.startup = env.startup /\ env'.transaction = env.transaction
  <2> DEFINE n == env.losses - 1
  <2>0. env.losses \in 0 .. MaxLosses /\ MaxLosses \in Nat
    BY <1>1, StateAssumption DEF Setup
  <2>1. n \in 0 .. MaxLosses /\ env' = [env EXCEPT !.losses = n] /\ env.losses > 0
    BY <1>3, <2>0 DEF Lose
  <2> HIDE DEF n
  <2> QED  BY <1>1, <2>1 DEF Setup
<1>4. UNCHANGED vars => env' = env
  BY DEF vars
<1>5. ASSUME NEW s \in Session, NEW op \in Request, Ask(s, op)
      PROVE  env' = env
  BY <1>5 DEF Ask
<1>6. ASSUME NEW s \in Session,
             LocalParse(s) \/ LocalClose(s) \/ Serve(s) \/ Detach(s) \/ Leave(s)
      PROVE  env' = env
  BY <1>6, Zenon DEF LocalParse, LocalClose, Serve, Detach, Leave
<1>7. ASSUME NEW s \in Session, NEW c \in Conn, Attach(s, c) \/ AttachFails(s, c)
      PROVE  env' = env
  BY <1>7 DEF Attach, AttachFails
<1>8. env' = env \/ \E s \in Session : Lose(s)
  BY <1>4, <1>5, <1>6, <1>7 DEF Next, vars
<1>9. CASE env' = env
  BY <1>2, <1>9
<1> QED  BY <1>3, <1>8, <1>9

\* One step of a session keeps the types and the leases.
LEMMA SessionBase ==
    ASSUME Base, [Next]_vars, NEW s \in Session,
           (\E op \in Request : Ask(s, op)) \/ LocalParse(s) \/ LocalClose(s) \/ Serve(s)
           \/ Detach(s) \/ Leave(s) \/ Lose(s)
    PROVE  Base'
<1>1. /\ sess \in [Session -> Member] /\ conn \in [Conn -> ConnType] /\ sess[s] \in Member
      /\ own \in [Session -> Backends] /\ baseline \in Params /\ env \in Setup
      /\ OwnBackend(s) \in Backends /\ Closed \in ConnType /\ NoRequest \in Request \cup {NoRequest}
      /\ sess[s].lease \in Conn \cup {None} /\ (sess[s].ended \/ sess[s].tries <= 1)
      /\ \A c \in Conn : conn[c].at = "leased" <=> \E t \in Session : sess[t].lease = c
      /\ None \notin Conn
  BY OwnIs, StateAssumption DEF Base, TypeOK, TriesOK, Member
<1>2. /\ env' \in Setup /\ env'.text = env.text /\ env'.sets = env.sets /\ env'.txns = env.txns
  BY SetupStays DEF Base
<1>3. ASSUME NEW op \in Request, Ask(s, op) PROVE Base'
  <2> DEFINE q == [sess[s] EXCEPT !.op = op, !.tries = 0]
  <2>1. q \in Member /\ q.tries = 0 /\ q.lease = sess[s].lease
    <3>1. op \in Request \cup {NoRequest} /\ 0 \in 0 .. 2
      OBVIOUS
    <3> QED  BY <1>1, <3>1, Zenon DEF Member
  <2>2. Becomes(s, q) /\ UNCHANGED <<conn, own, baseline>>
    BY <1>3, Zenon DEF Ask, Becomes
  <2> HIDE DEF q
  <2> QED  BY <1>1, <1>2, <2>1, <2>2, BaseMoves DEF Leased
<1>4. CASE LocalParse(s)
  <2> DEFINE q == [sess[s] EXCEPT !.op = NoRequest]
  <2>1. q \in Member /\ q.tries = sess[s].tries /\ q.ended = sess[s].ended /\ q.lease = sess[s].lease
    BY <1>1, Zenon DEF Member
  <2>2. Becomes(s, q) /\ UNCHANGED <<conn, own, baseline>>
    BY <1>4 DEF LocalParse, Becomes
  <2> HIDE DEF q
  <2> QED  BY <1>1, <1>2, <2>1, <2>2, BaseMoves DEF Leased
<1>5. CASE LocalClose(s)
  <2> DEFINE op == sess[s].op
             reg == [sess[s].reg EXCEPT ![op.n] = None]
             q == [sess[s] EXCEPT !.op = NoRequest, !.reg = reg]
             o == Server(own[s], op)
  <2>1. OpOK(op) /\ op.k = "close"
    BY <1>1, <1>5, OpTyped DEF Member, LocalClose
  <2>2. o \in Backends
    BY <1>1, <2>1, ServerTyped
  <2>3. reg \in Stmts
    BY <1>1, <2>1 DEF Member, Stmts, OpOK
  <2>4. Becomes(s, q) /\ conn' = conn /\ baseline' = baseline /\ own' = [own EXCEPT ![s] = o]
    BY <1>5 DEF LocalClose, Becomes
  <2> HIDE DEF reg, o
  <2>5. q \in Member /\ q.tries = sess[s].tries /\ q.ended = sess[s].ended /\ q.lease = sess[s].lease
    BY <1>1, <2>3, Zenon DEF Member
  <2> HIDE DEF q
  <2> QED  BY <1>1, <1>2, <2>2, <2>4, <2>5, BaseMoves DEF Leased
<1>6. CASE Serve(s)
  <2>0. PICK c \in Conn, k \in ConnType, q \in Member : ServeStep(s, c, k, q)
    BY <1>6, ServeDoes
  <2>1. /\ conn' = [conn EXCEPT ![c] = k] /\ Becomes(s, q)
        /\ own' = [own EXCEPT ![s] = Server(own[s], sess[s].op)] /\ baseline' = baseline
        /\ sess[s].lease = c /\ OpOK(sess[s].op) /\ k.at = "leased"
        /\ q.lease = c /\ q.tries = sess[s].tries /\ q.ended = sess[s].ended
    BY <2>0 DEF ServeStep
  <2>2. own' \in [Session -> Backends]
    BY <1>1, <2>1, ServerTyped
  <2>3. conn' \in [Conn -> ConnType]
    BY <1>1, <2>1
  <2> QED  BY <1>1, <1>2, <2>1, <2>2, <2>3, BaseMoves DEF Leased
<1>7. CASE Detach(s)
  <2>0. PICK c \in Conn, k \in ConnType, q \in Member : DetachStep(s, c, k, q)
    BY <1>7, DetachDoes
  <2>1. /\ conn' = [conn EXCEPT ![c] = k] /\ Becomes(s, q)
        /\ own' = own /\ baseline' = k.cache /\ sess[s].lease = c /\ k.at = "idle"
        /\ q = [sess[s] EXCEPT !.lease = None, !.dirty = FALSE]
    BY <2>0 DEF DetachStep
  <2>2. q.lease = None /\ q.tries = sess[s].tries /\ q.ended = sess[s].ended /\ k.cache \in Params
    BY <1>1, <2>1 DEF Member, ConnType
  <2>3. conn' \in [Conn -> ConnType]
    BY <1>1, <2>1
  <2> QED  BY <1>1, <1>2, <2>1, <2>2, <2>3, BaseMoves, Zenon DEF Leased
<1>8. CASE Leave(s)
  <2>1. /\ Becomes(s, NewSession) /\ NewSession \in Member /\ baseline' = baseline
        /\ own' = [own EXCEPT ![s] = OwnBackend(s)]
        /\ NewSession.lease = None /\ NewSession.tries = 0
    BY <1>8, LeaveDoes, Zenon DEF NewSession
  <2>2. CASE ~Leased(s)
    <3>1. conn' = conn
      BY <1>8, <2>2, LeaveDoes
    <3> QED  BY <1>1, <1>2, <2>1, <2>2, <3>1, BaseMoves DEF Leased
  <2>3. CASE Leased(s)
    <3>1. PICK c \in Conn, k \in ConnType :
            conn' = [conn EXCEPT ![c] = k] /\ sess[s].lease = c /\ k.at = "idle"
      BY <1>8, <2>3, LeaveDoes
    <3>2. conn' \in [Conn -> ConnType]
      BY <1>1, <3>1
    <3> QED  BY <1>1, <1>2, <2>1, <2>3, <3>1, <3>2, BaseMoves DEF Leased
  <2> QED  BY <2>2, <2>3
<1>9. CASE Lose(s)
  <2> DEFINE q == [sess[s] EXCEPT !.lease = None]
             c == sess[s].lease
             o == Server(own[s], [k |-> "rollback"])
  <2>1. q \in Member /\ q.tries = sess[s].tries /\ q.ended = sess[s].ended /\ q.lease = None
    BY <1>1 DEF Member
  <2>2. /\ c \in Conn /\ Becomes(s, q) /\ baseline' = baseline
        /\ conn' = [conn EXCEPT ![c] = Closed] /\ own' = [own EXCEPT ![s] = o]
    BY <1>1, <1>9 DEF Lose, Becomes, Leased
  <2>3. o \in Backends
    BY <1>1, RollbackTyped
  <2> HIDE DEF q, o
  <2>4. conn' \in [Conn -> ConnType] /\ Closed.at # "leased"
    BY <1>1, <2>2 DEF Closed
  <2> QED  BY <1>1, <1>2, <2>1, <2>2, <2>3, <2>4, BaseMoves DEF Leased
<1> QED  BY <1>3, <1>4, <1>5, <1>6, <1>7, <1>8, <1>9

\* A replay that failed.
FailStep(s, c, q) ==
    /\ conn' = [conn EXCEPT ![c] = Closed] /\ Becomes(s, q)
    /\ own' = own /\ baseline' = baseline /\ env' = env
    /\ conn[c].at # "leased" /\ ~Leased(s) /\ Forwarded(s) /\ Refuses(s, c)
    /\ q.lease = sess[s].lease /\ q.op = sess[s].op /\ q.reg = sess[s].reg
    /\ q.over = sess[s].over /\ q.dirty = sess[s].dirty /\ (q.ended \/ q.tries <= 1)

\* An AttachFails is a FailStep.
LEMMA FailDoes ==
    ASSUME Base, NEW s \in Session, NEW c \in Conn, AttachFails(s, c)
    PROVE  \E q \in Member : FailStep(s, c, q)
<1> DEFINE n == sess[s].tries + 1
           z == sess[s].tries = 1
           q == [sess[s] EXCEPT !.tries = n, !.ended = z]
<1>1. /\ sess[s] \in Member /\ sess[s].tries \in 0 .. 2 /\ ~sess[s].ended
      /\ sess[s].ended \/ sess[s].tries <= 1
  BY DEF Base, TypeOK, TriesOK, Member, AttachFails
<1>2. n \in 0 .. 2 /\ z \in BOOLEAN /\ (z \/ n <= 1)
  BY <1>1
<1>3. /\ conn' = [conn EXCEPT ![c] = Closed] /\ Becomes(s, q)
      /\ own' = own /\ baseline' = baseline /\ env' = env
      /\ conn[c].at # "leased" /\ ~Leased(s) /\ Forwarded(s) /\ Refuses(s, c)
  BY DEF AttachFails, Becomes, Available
<1> HIDE DEF n, z
<1>4. /\ q \in Member /\ q.lease = sess[s].lease /\ q.op = sess[s].op /\ q.reg = sess[s].reg
      /\ q.over = sess[s].over /\ q.dirty = sess[s].dirty /\ q.ended = z /\ q.tries = n
  BY <1>1, <1>2, Zenon DEF Member
<1> HIDE DEF q
<1>5. FailStep(s, c, q)
  BY <1>2, <1>3, <1>4 DEF FailStep
<1> QED  BY <1>4, <1>5

\* Attaching, or failing to, keeps the types and the leases.
LEMMA AttachBase ==
    ASSUME Base, NEW s \in Session, NEW c \in Conn, Attach(s, c) \/ AttachFails(s, c)
    PROVE  Base'
<1>1. /\ sess \in [Session -> Member] /\ conn \in [Conn -> ConnType] /\ sess[s] \in Member
      /\ own \in [Session -> Backends] /\ baseline \in Params /\ env \in Setup
      /\ Closed \in ConnType /\ (sess[s].ended \/ sess[s].tries <= 1) /\ None \notin Conn
  BY OwnIs, StateAssumption DEF Base, TypeOK, TriesOK
<1>2. CASE Attach(s, c)
  <2>1. PICK k \in ConnType, q \in Member : AttachStep(s, c, k, q)
    BY <1>2, AttachDoes
  <2>2. /\ conn' = [conn EXCEPT ![c] = k] /\ Becomes(s, q) /\ ~Leased(s)
        /\ own' = own /\ baseline' = baseline /\ env' = env
        /\ conn[c].at # "leased" /\ k.at = "leased"
        /\ q.lease = c /\ q.tries = sess[s].tries /\ q.ended = sess[s].ended
    <3> DEFINE d == sess[s].dirty \/ Overridden(s, Synced(s, conn[c])) # {} \/ Registered(s) # {}
    <3>1. q = [sess[s] EXCEPT !.lease = c, !.dirty = d]
      BY <2>1 DEF AttachStep
    <3> HIDE DEF d
    <3>2. q.lease = c /\ q.tries = sess[s].tries /\ q.ended = sess[s].ended
      BY <1>1, <3>1 DEF Member
    <3> QED  BY <2>1, <3>2 DEF AttachStep
  <2>3. conn' \in [Conn -> ConnType]
    BY <1>1, <2>2
  <2> QED  BY <1>1, <2>2, <2>3, BaseMoves DEF Leased
<1>3. CASE AttachFails(s, c)
  <2>1. PICK q \in Member : FailStep(s, c, q)
    BY <1>3, FailDoes
  <2>2. /\ conn' = [conn EXCEPT ![c] = Closed] /\ Becomes(s, q) /\ ~Leased(s)
        /\ own' = own /\ baseline' = baseline /\ env' = env
        /\ conn[c].at # "leased" /\ q.lease = sess[s].lease /\ (q.ended \/ q.tries <= 1)
    BY <2>1 DEF FailStep
  <2>3. conn' \in [Conn -> ConnType] /\ \A d \in Conn : conn'[d].at = conn[d].at \/ d = c
    BY <1>1, <2>2
  <2>4. conn'[c].at # "leased"
    BY <1>1, <2>2 DEF Closed
  <2> QED  BY <1>1, <2>2, <2>3, <2>4, BaseMoves DEF Leased
<1> QED  BY <1>2, <1>3

\* Every step keeps the types and the leases.
LEMMA NextBase == Base /\ [Next]_vars => Base'
<1> SUFFICES ASSUME Base, [Next]_vars PROVE Base'
  OBVIOUS
<1>1. CASE UNCHANGED vars
  BY <1>1 DEF Base, TypeOK, TriesOK, Leased, Member, Request, vars
<1> QED  BY <1>1, SessionBase, AttachBase DEF Next

\* They hold initially.
LEMMA InitBase == Init => Base
<1> SUFFICES ASSUME Init PROVE Base
  OBVIOUS
<1>1. env \in Setup
  BY StateAssumption DEF Init
<1>2. /\ NewSession \in Member /\ NewSession.lease = None /\ NewSession.tries = 0
  BY DEF NewSession, Member, NoStmts, Stmts
<1>3. Closed \in ConnType /\ Closed.at = "closed" /\ Defaults \in Params
  <2>1. Defaults \in Params /\ NoStmts \in Stmts
    BY DEF Defaults, Params, NoStmts, Stmts, Value
  <2>2. Backend \in Backends
    BY <2>1 DEF Backend, Backends
  <2> QED  BY <2>1, <2>2 DEF Closed, ConnType
<1>4. \A s \in Session : OwnBackend(s) \in Backends
  BY <1>1, OwnIs
<1>5. /\ conn = [c \in Conn |-> Closed] /\ sess = [s \in Session |-> NewSession]
      /\ own = [s \in Session |-> OwnBackend(s)] /\ baseline = Defaults
  BY DEF Init
<1>6. \A s \in Session : sess[s] = NewSession
  BY <1>5
<1>7. \A c \in Conn : conn[c] = Closed
  BY <1>5
<1>8. None \notin Conn
  BY StateAssumption
<1> QED  BY <1>1, <1>2, <1>3, <1>4, <1>5, <1>6, <1>7, <1>8 DEF Base, TypeOK, TriesOK, Leased

\* A session fails at most two attaches, a connection is leased by one session, and the
\* state has its types.
THEOREM StateTypes == Spec => []TypeOK
<1>1. Base => TypeOK
  BY DEF Base
<1> QED  BY <1>1, InitBase, NextBase, PTL DEF Spec

-----------------------------------------------------------------------------
(***************************************************************************)
(* Statements.                                                             *)
(***************************************************************************)

\* A connection that a session leases or that nobody leases is no other session's.
LEMMA Elsewhere ==
    ASSUME Base, NEW s \in Session, NEW c \in Conn, c = sess[s].lease \/ conn[c].at # "leased"
    PROVE  \A t \in Session \ {s} : sess[t].lease # c
<1>1. None \notin Conn
  BY StateAssumption
<1> QED  BY <1>1 DEF Base, TypeOK, Leased

\* The session s and the connection c move, to q and k.
LEMMA NoneMoves ==
    ASSUME Base, NoneLeft, NEW s \in Session, NEW q \in Member, Becomes(s, q),
           NEW c \in Conn, NEW k \in ConnType, conn' = [conn EXCEPT ![c] = k],
           c = sess[s].lease \/ conn[c].at # "leased",
           k.at # "leased" => k.b.stmts = NoStmts,
           q.lease # None => q.lease = c /\ (~q.dirty => k.b.stmts = NoStmts)
    PROVE  NoneLeft'
<1>1. /\ conn \in [Conn -> ConnType] /\ sess \in [Session -> Member]
  BY DEF Base, TypeOK
<1>2. /\ conn'[c] = k /\ \A d \in Conn \ {c} : conn'[d] = conn[d]
      /\ sess'[s] = q /\ \A t \in Session \ {s} : sess'[t] = sess[t]
  BY <1>1 DEF Becomes
<1>3. \A t \in Session \ {s} : sess[t].lease # c
  BY Elsewhere
<1>4. \A t \in Session : sess[t].lease \in Conn \cup {None}
  BY <1>1 DEF Member
<1>5. \A d \in Conn : conn'[d].at # "leased" => conn'[d].b.stmts = NoStmts
  BY <1>2 DEF NoneLeft
<1>6. ASSUME NEW t \in Session, sess'[t].lease # None, ~sess'[t].dirty
      PROVE  conn'[sess'[t].lease].b.stmts = NoStmts
  <2>1. CASE t = s
    BY <1>2, <1>6, <2>1
  <2>2. CASE t # s
    BY <1>2, <1>3, <1>4, <1>6, <2>2 DEF NoneLeft, Leased
  <2> QED  BY <2>1, <2>2
<1> QED  BY <1>5, <1>6 DEF NoneLeft, Leased, NoStmts

\* A session moves that keeps its connection and its flag.
LEMMA NoneMovesAlone ==
    ASSUME Base, NoneLeft, NEW s \in Session, NEW q \in Member, Becomes(s, q), conn' = conn,
           q.lease = None \/ (q.lease = sess[s].lease /\ q.dirty = sess[s].dirty)
    PROVE  NoneLeft'
<1>1. sess \in [Session -> Member]
  BY DEF Base, TypeOK
<1>2. sess'[s] = q /\ \A t \in Session \ {s} : sess'[t] = sess[t]
  BY <1>1 DEF Becomes
<1>3. ASSUME NEW t \in Session, sess'[t].lease # None, ~sess'[t].dirty
      PROVE  conn'[sess'[t].lease].b.stmts = NoStmts
  <2>1. CASE t = s
    BY <1>2, <1>3, <2>1 DEF NoneLeft, Leased
  <2>2. CASE t # s
    BY <1>2, <1>3, <2>2 DEF NoneLeft, Leased
  <2> QED  BY <2>1, <2>2
<1> QED  BY <1>3 DEF NoneLeft, Leased, NoStmts

\* What the operations that do not forward do to their session.
QuietStep(s, q) ==
    /\ conn' = conn /\ Becomes(s, q) /\ baseline' = baseline /\ env' = env
    /\ q.lease = sess[s].lease /\ q.dirty = sess[s].dirty /\ q.over = sess[s].over

\* An Ask is a quiet step, and asks to close only where the client may.
LEMMA AskDoes ==
    ASSUME Base, NEW s \in Session, NEW op \in Request, Ask(s, op)
    PROVE  \E q \in Member :
             /\ QuietStep(s, q) /\ own' = own /\ q.reg = sess[s].reg /\ q.op = op /\ q.tries = 0
             /\ op.k = "close" => ForwardsClose \/ (TransactionMode /\ ~Leased(s))
<1> DEFINE q == [sess[s] EXCEPT !.op = op, !.tries = 0]
<1>1. sess[s] \in Member /\ op \in Request \cup {NoRequest} /\ 0 \in 0 .. 2
  BY DEF Base, TypeOK
<1>2. /\ q \in Member /\ q.lease = sess[s].lease /\ q.reg = sess[s].reg /\ q.over = sess[s].over
      /\ q.dirty = sess[s].dirty /\ q.op = op /\ q.tries = 0
  BY <1>1, Zenon DEF Member
<1>3. Becomes(s, q) /\ UNCHANGED <<conn, own, baseline, env>>
      /\ (op.k = "close" => ForwardsClose \/ (TransactionMode /\ ~Leased(s)))
  BY DEF Ask, Becomes
<1> HIDE DEF q
<1> QED  BY <1>2, <1>3 DEF QuietStep

\* A Parse of a registered name is a quiet step.
LEMMA LocalParseDoes ==
    ASSUME Base, NEW s \in Session, LocalParse(s)
    PROVE  \E q \in Member :
             /\ QuietStep(s, q) /\ own' = own /\ q.reg = sess[s].reg /\ q.op = NoRequest
             /\ q.tries = sess[s].tries
<1> DEFINE q == [sess[s] EXCEPT !.op = NoRequest]
<1>1. sess[s] \in Member
  BY DEF Base, TypeOK
<1>2. /\ q \in Member /\ q.lease = sess[s].lease /\ q.reg = sess[s].reg /\ q.over = sess[s].over
      /\ q.dirty = sess[s].dirty /\ q.op = NoRequest /\ q.tries = sess[s].tries
  BY <1>1 DEF Member
<1>3. Becomes(s, q) /\ UNCHANGED <<conn, own, baseline, env>>
  BY DEF LocalParse, Becomes
<1> HIDE DEF q
<1> QED  BY <1>2, <1>3 DEF QuietStep

\* A Close while nothing is attached takes the name out of the registry.
LEMMA LocalCloseDoes ==
    ASSUME Base, NEW s \in Session, LocalClose(s)
    PROVE  \E q \in Member :
             /\ QuietStep(s, q) /\ own' = [own EXCEPT ![s] = Server(own[s], sess[s].op)]
             /\ q.reg = [sess[s].reg EXCEPT ![sess[s].op.n] = None] /\ q.op = NoRequest
             /\ q.tries = sess[s].tries /\ OpOK(sess[s].op) /\ sess[s].op.k = "close"
             /\ ~Leased(s)
<1> DEFINE n == sess[s].op.n
           reg == [sess[s].reg EXCEPT ![n] = None]
           q == [sess[s] EXCEPT !.op = NoRequest, !.reg = reg]
<1>1. sess[s] \in Member /\ sess[s].op \in Request \cup {NoRequest} /\ env \in Setup
  BY DEF Base, TypeOK, Member
<1>2. OpOK(sess[s].op) /\ sess[s].op.k = "close" /\ ~Leased(s)
  BY <1>1, OpTyped DEF LocalClose
<1>3. reg \in Stmts
  BY <1>1, <1>2 DEF OpOK, Member, Stmts
<1>4. /\ Becomes(s, q) /\ UNCHANGED <<conn, baseline, env>>
      /\ own' = [own EXCEPT ![s] = Server(own[s], sess[s].op)]
  BY DEF LocalClose, Becomes
<1> HIDE DEF reg
<1>5. /\ q \in Member /\ q.lease = sess[s].lease /\ q.reg = reg /\ q.over = sess[s].over
      /\ q.dirty = sess[s].dirty /\ q.op = NoRequest /\ q.tries = sess[s].tries
  BY <1>1, <1>3, Zenon DEF Member
<1> HIDE DEF q
<1> QED  BY <1>2, <1>4, <1>5 DEF QuietStep, reg

\* The fields of a session after an attach and after a detach.
LEMMA AttachFields ==
    ASSUME Base, NEW s \in Session, NEW c \in Conn, NEW k, NEW q, AttachStep(s, c, k, q)
    PROVE  /\ q.lease = c /\ q.op = sess[s].op /\ q.reg = sess[s].reg
           /\ q.over = sess[s].over /\ q.tries = sess[s].tries
           /\ ~q.dirty => /\ ~sess[s].dirty /\ Registered(s) = {}
                          /\ Overridden(s, Synced(s, conn[c])) = {}
<1> DEFINE d == sess[s].dirty \/ Overridden(s, Synced(s, conn[c])) # {} \/ Registered(s) # {}
<1>1. q = [sess[s] EXCEPT !.lease = c, !.dirty = d]
  BY DEF AttachStep
<1>2. sess[s] \in Member
  BY DEF Base, TypeOK
<1> HIDE DEF d
<1>3. /\ q.lease = c /\ q.op = sess[s].op /\ q.reg = sess[s].reg /\ q.over = sess[s].over
      /\ q.tries = sess[s].tries /\ q.dirty = d
  BY <1>1, <1>2 DEF Member
<1> QED  BY <1>3, Zenon DEF d

\* A detached session has no lease and a clean flag.
LEMMA DetachFields ==
    ASSUME Base, NEW s \in Session, NEW c, NEW k, NEW q, DetachStep(s, c, k, q)
    PROVE  /\ q.lease = None /\ ~q.dirty /\ q.op = sess[s].op /\ q.reg = sess[s].reg
           /\ q.over = sess[s].over /\ q.tries = sess[s].tries
<1>1. q = [sess[s] EXCEPT !.lease = None, !.dirty = FALSE] /\ sess[s] \in Member
  BY DEF DetachStep, Base, TypeOK
<1> QED  BY <1>1 DEF Member

\* A connection is lost.
LoseStep(s, c, q) ==
    /\ conn' = [conn EXCEPT ![c] = Closed] /\ Becomes(s, q) /\ baseline' = baseline
    /\ own' = [own EXCEPT ![s] = Server(own[s], [k |-> "rollback"])]
    /\ env.losses > 0 /\ sess[s].lease = c /\ sess[s].op = NoRequest
    /\ q.lease = None /\ q.dirty = sess[s].dirty /\ q.op = sess[s].op /\ q.reg = sess[s].reg
    /\ q.over = sess[s].over /\ q.tries = sess[s].tries

\* A Lose is a LoseStep.
LEMMA LoseDoes ==
    ASSUME Base, NEW s \in Session, Lose(s)
    PROVE  \E c \in Conn, q \in Member : LoseStep(s, c, q)
<1> DEFINE q == [sess[s] EXCEPT !.lease = None]
           c == sess[s].lease
<1>1. sess[s] \in Member /\ c \in Conn
  BY DEF Base, TypeOK, Member, Lose, Leased
<1>2. /\ q \in Member /\ q.lease = None /\ q.dirty = sess[s].dirty /\ q.op = sess[s].op
      /\ q.reg = sess[s].reg /\ q.over = sess[s].over /\ q.tries = sess[s].tries
  BY <1>1 DEF Member
<1>3. /\ conn' = [conn EXCEPT ![c] = Closed] /\ Becomes(s, q) /\ baseline' = baseline
      /\ own' = [own EXCEPT ![s] = Server(own[s], [k |-> "rollback"])]
      /\ env.losses > 0 /\ sess[s].op = NoRequest
  BY DEF Lose, Becomes
<1> HIDE DEF q
<1> QED  BY <1>1, <1>2, <1>3, Zenon DEF LoseStep

\* Replaying an empty registry on a connection without statements prepares none.
LEMMA EmptyReplay ==
    ASSUME NEW s, Registered(s) = {}
    PROVE  Replay(s, NoStmts) = NoStmts
BY DEF Replay, NoStmts

\* A clean lease stays without statements unless something is prepared on it.
LEMMA ServedNone ==
    ASSUME NEW b \in Backends, NEW op, OpOK(op), op.k # "parse", b.stmts = NoStmts
    PROVE  Server(b, op).stmts = NoStmts
<1>1. Server(b, op).stmts \in Stmts
  BY ServerTyped DEF Backends
<1>2. CASE op.k = "close"
  <2>1. \A n \in Name : Server(b, op).stmts[n] = None
    BY <1>2, ServerTyped DEF NoStmts
  <2> QED  BY <1>1, <2>1 DEF Stmts, NoStmts
<1> QED  BY <1>2, ServerTyped

\* No step leaves statements behind on a connection that is parked or not dirty.
LEMMA NextNone ==
    ASSUME Base, NoneLeft, [Next]_vars
    PROVE  NoneLeft'
<1>1. /\ sess \in [Session -> Member] /\ conn \in [Conn -> ConnType] /\ None \notin Conn
      /\ \A c \in Conn : conn[c].b \in Backends
  BY StateAssumption DEF Base, TypeOK, ConnType
<1>2. Closed.at # "leased" /\ Closed.b.stmts = NoStmts /\ Backend.stmts = NoStmts
  BY DEF Closed, Backend
<1>3. ASSUME NEW s \in Session, NEW op \in Request, Ask(s, op) PROVE NoneLeft'
  <2>1. PICK q \in Member : QuietStep(s, q)
    BY <1>3, AskDoes
  <2> QED  BY <2>1, NoneMovesAlone DEF QuietStep
<1>4. ASSUME NEW s \in Session, LocalParse(s) PROVE NoneLeft'
  <2>1. PICK q \in Member : QuietStep(s, q)
    BY <1>4, LocalParseDoes
  <2> QED  BY <2>1, NoneMovesAlone DEF QuietStep
<1>5. ASSUME NEW s \in Session, LocalClose(s) PROVE NoneLeft'
  <2>1. PICK q \in Member : QuietStep(s, q)
    BY <1>5, LocalCloseDoes, Zenon
  <2> QED  BY <2>1, NoneMovesAlone DEF QuietStep
<1>6. ASSUME NEW s \in Session, Serve(s) PROVE NoneLeft'
  <2>0. PICK c \in Conn, k \in ConnType, q \in Member : ServeStep(s, c, k, q)
    BY <1>6, ServeDoes
  <2>1. /\ conn' = [conn EXCEPT ![c] = k] /\ Becomes(s, q) /\ sess[s].lease = c
        /\ OpOK(sess[s].op) /\ k.at = "leased" /\ k.b = Server(conn[c].b, sess[s].op)
        /\ q.lease = c /\ (~q.dirty => ~sess[s].dirty /\ sess[s].op.k # "parse")
    BY <2>0, Zenon DEF ServeStep
  <2>2. ~q.dirty => k.b.stmts = NoStmts
    <3>1. ~q.dirty => conn[c].b.stmts = NoStmts
      BY <1>1, <2>1 DEF NoneLeft, Leased
    <3> QED  BY <1>1, <2>1, <3>1, ServedNone
  <2> QED  BY <2>1, <2>2, NoneMoves, Zenon
<1>7. ASSUME NEW s \in Session, Detach(s) PROVE NoneLeft'
  <2>0. PICK c \in Conn, k \in ConnType, q \in Member : DetachStep(s, c, k, q)
    BY <1>7, DetachDoes
  <2>1. /\ conn' = [conn EXCEPT ![c] = k] /\ Becomes(s, q) /\ sess[s].lease = c
        /\ k.at = "idle" /\ k.b = IF sess[s].dirty THEN Backend ELSE conn[c].b
    BY <2>0 DEF DetachStep
  <2>2. k.b.stmts = NoStmts
    BY <1>1, <1>2, <2>1 DEF NoneLeft, Leased
  <2>3. q.lease = None
    BY <2>0, DetachFields
  <2> QED  BY <2>1, <2>2, <2>3, NoneMoves, Zenon
<1>8. ASSUME NEW s \in Session, Leave(s) PROVE NoneLeft'
  <2>1. /\ Becomes(s, NewSession) /\ NewSession \in Member /\ NewSession.lease = None
    BY <1>8, LeaveDoes, Zenon DEF NewSession
  <2>2. CASE ~Leased(s)
    BY <1>8, <2>1, <2>2, LeaveDoes, NoneMovesAlone
  <2>3. CASE Leased(s)
    <3>1. PICK c \in Conn, k \in ConnType :
            conn' = [conn EXCEPT ![c] = k] /\ sess[s].lease = c /\ k.at = "idle" /\ k.b = Backend
      BY <1>8, <2>3, LeaveDoes
    <3> QED  BY <1>2, <2>1, <3>1, NoneMoves, Zenon
  <2> QED  BY <2>2, <2>3
<1>9. ASSUME NEW s \in Session, Lose(s) PROVE NoneLeft'
  <2>1. PICK c \in Conn, q \in Member : LoseStep(s, c, q)
    BY <1>9, LoseDoes
  <2>2. Closed \in ConnType
    BY OwnIs DEF Base, TypeOK
  <2> QED  BY <1>2, <2>1, <2>2, NoneMoves, Zenon DEF LoseStep
<1>10. ASSUME NEW s \in Session, NEW c \in Conn, Attach(s, c) PROVE NoneLeft'
  <2>0. PICK k \in ConnType, q \in Member : AttachStep(s, c, k, q)
    BY <1>10, AttachDoes
  <2>1. /\ conn' = [conn EXCEPT ![c] = k] /\ Becomes(s, q) /\ conn[c].at # "leased"
        /\ k.at = "leased" /\ k.b.stmts = Replay(s, conn[c].b.stmts)
    BY <2>0 DEF AttachStep
  <2>2. q.lease = c /\ (~q.dirty => Registered(s) = {})
    BY <2>0, AttachFields
  <2>3. conn[c].b.stmts = NoStmts
    BY <2>1 DEF NoneLeft
  <2>4. ~q.dirty => k.b.stmts = NoStmts
    BY <2>1, <2>2, <2>3, EmptyReplay
  <2> QED  BY <2>1, <2>2, <2>4, NoneMoves, Zenon
<1>11. ASSUME NEW s \in Session, NEW c \in Conn, AttachFails(s, c) PROVE NoneLeft'
  <2>1. PICK q \in Member : FailStep(s, c, q)
    BY <1>11, FailDoes
  <2>2. Closed \in ConnType
    BY OwnIs DEF Base, TypeOK
  <2> QED  BY <1>2, <2>1, <2>2, NoneMoves, ZenonT(30) DEF FailStep, Leased
<1>12. CASE UNCHANGED vars
  BY <1>12 DEF vars, NoneLeft, Leased
<1> QED  BY <1>3, <1>4, <1>5, <1>6, <1>7, <1>8, <1>9, <1>10, <1>11, <1>12 DEF Next

\* A session q whose own backend is o and whose connection, if it has one, is b: it asks
\* to close only what is closed locally, its registry is what o has but for refused
\* statements, b has the statements of o, and a failed attach has a refused statement to
\* blame.
Right(q, o, b) ==
    /\ q.op.k = "close" => TransactionMode /\ q.lease = None /\ q.tries = 0
    /\ \A n \in Name : q.reg[n] \in {o.stmts[n], "bad"}
    /\ q.lease # None => b.stmts = o.stmts
    /\ q.tries > 0 => \E n \in Name : q.reg[n] = "bad"

AllRight == \A s \in Session : Right(sess[s], own[s], conn[sess[s].lease].b)

\* The session s and its backends move, the others stay where they are.
LEMMA RightMoves ==
    ASSUME Base, AllRight, NEW s \in Session, NEW q \in Member, Becomes(s, q),
           NEW o, own' = [own EXCEPT ![s] = o], env'.transaction = env.transaction,
           \A t \in Session \ {s} : Leased(t) => conn'[sess[t].lease] = conn[sess[t].lease],
           Right(q, o, conn'[q.lease].b)
    PROVE  AllRight'
<1>1. /\ sess \in [Session -> Member] /\ own \in [Session -> Backends]
  BY DEF Base, TypeOK
<1>2. /\ sess'[s] = q /\ own'[s] = o
      /\ \A t \in Session \ {s} : sess'[t] = sess[t] /\ own'[t] = own[t]
  BY <1>1 DEF Becomes
<1>3. ASSUME NEW t \in Session
      PROVE  Right(sess[t], own[t], conn[sess[t].lease].b)
  BY DEF AllRight
<1>4. ASSUME NEW t \in Session
      PROVE  Right(sess[t], own[t], conn[sess[t].lease].b)'
  <2>1. CASE t = s
    <3>1. Right(sess'[t], own'[t], conn'[sess'[t].lease].b)
      BY <1>2, <2>1
    <3> QED  BY <3>1 DEF Right, TransactionMode
  <2>2. CASE t # s
    <3>1. sess'[t] = sess[t] /\ own'[t] = own[t]
      BY <1>2, <2>2
    <3>2. sess[t].lease # None => conn'[sess[t].lease] = conn[sess[t].lease]
      BY <2>2 DEF Leased
    <3> QED  BY <1>3, <3>1, <3>2 DEF Right, TransactionMode
  <2> QED  BY <2>1, <2>2
<1> QED  BY <1>4 DEF AllRight

\* A request that is forwarded.
LEMMA RightServed ==
    ASSUME NEW q, NEW r, NEW o \in Backends, NEW b \in Backends, Right(q, o, b), q.lease # None,
           OpOK(q.op), q.op.k = "parse" => q.reg[q.op.n] = None, q.reg \in Stmts,
           r.op = NoRequest, r.lease = q.lease, r.tries = q.tries,
           r.reg = IF q.op.k = "parse" THEN [q.reg EXCEPT ![q.op.n] = q.op.t] ELSE q.reg
    PROVE  Right(r, Server(o, q.op), Server(b, q.op))
<1> DEFINE op == q.op
           o1 == Server(o, op)
           b1 == Server(b, op)
<1>1. /\ op.k # "close" /\ b.stmts = o.stmts /\ (\A n \in Name : q.reg[n] \in {o.stmts[n], "bad"})
      /\ r.op.k # "close" /\ (q.tries > 0 => \E n \in Name : q.reg[n] = "bad")
  BY DEF Right, NoRequest, None
<1>2. o1 \in Backends /\ b1 \in Backends
  BY ServerTyped
<1>3. o1.stmts \in Stmts /\ b1.stmts \in Stmts /\ o.stmts \in Stmts
  BY <1>2 DEF Backends
<1>4. CASE op.k = "parse"
  <2>1. op.n \in Name /\ op.t \in Text /\ q.reg[op.n] = None /\ o.stmts[op.n] = None
    BY <1>1, <1>4 DEF OpOK, None
  <2>2. /\ \A n \in Name : n # op.n => o1.stmts[n] = o.stmts[n] /\ b1.stmts[n] = b.stmts[n]
        /\ op.t = "bad" => o1.stmts = o.stmts /\ b1.stmts = b.stmts
        /\ op.t # "bad" => o1.stmts[op.n] = op.t /\ b1.stmts[op.n] = op.t
    BY <1>1, <1>4, <2>1, ServerTyped
  <2> HIDE DEF o1, b1
  <2>3. b1.stmts = o1.stmts
    BY <1>1, <1>3, <2>2 DEF Stmts
  <2>4. \A n \in Name : r.reg[n] = IF n = op.n THEN op.t ELSE q.reg[n]
    BY <1>4 DEF Stmts
  <2>5. \A n \in Name : r.reg[n] \in {o1.stmts[n], "bad"}
    BY <1>1, <2>1, <2>2, <2>4
  <2>6. r.tries > 0 => \E n \in Name : r.reg[n] = "bad"
    BY <1>1, <2>1, <2>4 DEF None
  <2>7. Right(r, o1, b1)
    BY <1>1, <2>3, <2>5, <2>6 DEF Right
  <2> QED  BY <2>7 DEF o1, b1
<1>5. CASE op.k # "parse"
  <2>1. o1.stmts = o.stmts /\ b1.stmts = b.stmts
    BY <1>1, <1>5, ServerTyped
  <2>2. r.reg = q.reg
    BY <1>5
  <2> HIDE DEF o1, b1
  <2>3. Right(r, o1, b1)
    BY <1>1, <2>1, <2>2 DEF Right
  <2> QED  BY <2>3 DEF o1, b1
<1> QED  BY <1>4, <1>5

\* A step that changes only the connection c leaves those of the other sessions.
LEMMA OthersKeep ==
    ASSUME Base, NEW s \in Session, NEW c \in Conn, NEW k, conn' = [conn EXCEPT ![c] = k],
           c = sess[s].lease \/ conn[c].at # "leased"
    PROVE  \A t \in Session \ {s} : Leased(t) => conn'[sess[t].lease] = conn[sess[t].lease]
<1>1. \A t \in Session \ {s} : sess[t].lease # c
  BY Elsewhere
<1>2. \A t \in Session : sess[t].lease \in Conn \cup {None}
  BY DEF Base, TypeOK, Member
<1> QED  BY <1>1, <1>2 DEF Leased, Base, TypeOK

\* With Closes that are answered locally, every step keeps sessions right.
LEMMA NextRight ==
    ASSUME ~ForwardsClose, Base, NoneLeft, AllRight, [Next]_vars
    PROVE  AllRight'
<1>1. /\ sess \in [Session -> Member] /\ conn \in [Conn -> ConnType] /\ None \notin Conn
      /\ \A c \in Conn : conn[c].b \in Backends
      /\ own \in [Session -> Backends] /\ \A t \in Session : own = [own EXCEPT ![t] = own[t]]
  BY StateAssumption DEF Base, TypeOK, ConnType
<1>2. env'.transaction = env.transaction
  BY SetupStays DEF Base
<1>3. \A t \in Session : Right(sess[t], own[t], conn[sess[t].lease].b)
  BY DEF AllRight
<1>4. ASSUME NEW s \in Session, NEW op \in Request, Ask(s, op) PROVE AllRight'
  <2>1. PICK q \in Member :
             /\ QuietStep(s, q) /\ own' = own /\ q.reg = sess[s].reg /\ q.op = op /\ q.tries = 0
             /\ op.k = "close" => ForwardsClose \/ (TransactionMode /\ ~Leased(s))
    BY <1>4, AskDoes
  <2>2. conn' = conn /\ Becomes(s, q) /\ q.lease = sess[s].lease
    BY <2>1 DEF QuietStep
  <2>3. Right(q, own[s], conn'[q.lease].b)
    BY <1>3, <2>1, <2>2 DEF Right, Leased
  <2> QED  BY <1>1, <1>2, <2>1, <2>2, <2>3, RightMoves
<1>5. ASSUME NEW s \in Session, LocalParse(s) PROVE AllRight'
  <2>1. PICK q \in Member :
             /\ QuietStep(s, q) /\ own' = own /\ q.reg = sess[s].reg /\ q.op = NoRequest
             /\ q.tries = sess[s].tries
    BY <1>5, LocalParseDoes
  <2>2. conn' = conn /\ Becomes(s, q) /\ q.lease = sess[s].lease
    BY <2>1 DEF QuietStep
  <2>3. Right(q, own[s], conn'[q.lease].b)
    BY <1>3, <2>1, <2>2 DEF Right, NoRequest, None
  <2> QED  BY <1>1, <1>2, <2>1, <2>2, <2>3, RightMoves
<1>6. ASSUME NEW s \in Session, LocalClose(s) PROVE AllRight'
  <2> DEFINE op == sess[s].op
             o == Server(own[s], op)
  <2>1. PICK q \in Member :
             /\ QuietStep(s, q) /\ own' = [own EXCEPT ![s] = Server(own[s], sess[s].op)]
             /\ q.reg = [sess[s].reg EXCEPT ![sess[s].op.n] = None] /\ q.op = NoRequest
             /\ q.tries = sess[s].tries /\ OpOK(sess[s].op) /\ sess[s].op.k = "close"
             /\ ~Leased(s)
    BY <1>6, LocalCloseDoes, Zenon
  <2>2. conn' = conn /\ Becomes(s, q) /\ q.lease = None
    BY <2>1 DEF QuietStep, Leased
  <2>3. op.n \in Name /\ o.stmts[op.n] = None /\ \A n \in Name : n # op.n => o.stmts[n] = own[s].stmts[n]
    <3>1. own[s] \in Backends /\ OpOK(op) /\ op.k = "close"
      BY <1>1, <2>1
    <3> HIDE DEF op
    <3>2. /\ op.k \in {"parse", "close"} =>
               \A n \in Name : n # op.n => o.stmts[n] = own[s].stmts[n]
          /\ op.k = "close" => o.stmts[op.n] = None
      BY <3>1, ServerTyped, Zenon
    <3>3. op.n \in Name
      BY <3>1 DEF OpOK
    <3> HIDE DEF o
    <3> QED  BY <3>1, <3>2, <3>3
  <2>4. sess[s].reg \in Stmts /\ sess[s].tries = 0
    BY <1>1, <1>3, <2>1, Zenon DEF Right, Member
  <2> HIDE DEF o
  <2>5. \A n \in Name : q.reg[n] \in {o.stmts[n], "bad"}
    <3>1. \A n \in Name : sess[s].reg[n] \in {own[s].stmts[n], "bad"}
      BY <1>3, Zenon DEF Right
    <3>2. ASSUME NEW n \in Name, n = op.n PROVE q.reg[n] = o.stmts[n]
      BY <2>1, <2>3, <2>4, <3>2 DEF Stmts
    <3>3. ASSUME NEW n \in Name, n # op.n
          PROVE  q.reg[n] = sess[s].reg[n] /\ o.stmts[n] = own[s].stmts[n]
      BY <2>1, <2>3, <2>4, <3>3 DEF Stmts
    <3> QED  BY <3>1, <3>2, <3>3
  <2>6. Right(q, o, conn'[q.lease].b)
    BY <2>1, <2>2, <2>4, <2>5 DEF Right, NoRequest, None
  <2> QED  BY <1>2, <2>1, <2>2, <2>6, RightMoves, Zenon DEF o
<1>7. ASSUME NEW s \in Session, Serve(s) PROVE AllRight'
  <2>0. PICK c \in Conn, k \in ConnType, q \in Member : ServeStep(s, c, k, q)
    BY <1>7, ServeDoes
  <2> DEFINE o == Server(own[s], sess[s].op)
  <2>1. /\ conn' = [conn EXCEPT ![c] = k] /\ Becomes(s, q) /\ sess[s].lease = c
        /\ OpOK(sess[s].op) /\ k.b = Server(conn[c].b, sess[s].op) /\ own' = [own EXCEPT ![s] = o]
        /\ q.lease = c /\ q.op = NoRequest /\ q.tries = sess[s].tries
        /\ q.reg = IF sess[s].op.k = "parse" THEN [sess[s].reg EXCEPT ![sess[s].op.n] = sess[s].op.t]
                   ELSE sess[s].reg
        /\ sess[s].op.k = "parse" => sess[s].reg[sess[s].op.n] = None
    BY <2>0, Zenon DEF ServeStep, Forwarded
  <2>2. sess[s].reg \in Stmts /\ own[s] \in Backends /\ conn[c].b \in Backends /\ c # None
    BY <1>1 DEF Member
  <2>3. Right(sess[s], own[s], conn[c].b)
    BY <1>3, <2>1
  <2>4. Right(q, o, k.b)
    BY <2>1, <2>2, <2>3, RightServed
  <2>5. conn'[q.lease].b = k.b
    BY <1>1, <2>1
  <2>6. \A t \in Session \ {s} : Leased(t) => conn'[sess[t].lease] = conn[sess[t].lease]
    BY <2>1, OthersKeep, Zenon
  <2> HIDE DEF o
  <2> QED  BY <1>2, <2>1, <2>4, <2>5, <2>6, RightMoves, Zenon
<1>8. ASSUME NEW s \in Session, Detach(s) PROVE AllRight'
  <2>0. PICK c \in Conn, k \in ConnType, q \in Member : DetachStep(s, c, k, q)
    BY <1>8, DetachDoes
  <2>1. /\ conn' = [conn EXCEPT ![c] = k] /\ Becomes(s, q) /\ sess[s].lease = c /\ own' = own
    BY <2>0 DEF DetachStep
  <2>2. /\ q.lease = None /\ q.op = sess[s].op /\ q.reg = sess[s].reg /\ q.tries = sess[s].tries
    BY <2>0, DetachFields
  <2>3. sess[s].op = NoRequest
    BY <2>0 DEF DetachStep
  <2>4. Right(q, own[s], conn'[q.lease].b)
    BY <1>3, <2>2, <2>3 DEF Right, NoRequest, None
  <2>5. \A t \in Session \ {s} : Leased(t) => conn'[sess[t].lease] = conn[sess[t].lease]
    BY <2>1, OthersKeep, Zenon
  <2> QED  BY <1>1, <1>2, <2>1, <2>4, <2>5, RightMoves
<1>9. ASSUME NEW s \in Session, Leave(s) PROVE AllRight'
  <2> DEFINE q == NewSession
             o == OwnBackend(s)
  <2>1. /\ Becomes(s, q) /\ q \in Member /\ own' = [own EXCEPT ![s] = o]
    BY <1>9, LeaveDoes
  <2>2. o.stmts = NoStmts
    <3>1. o = [Backend EXCEPT !.par = Initially(s)]
      BY OwnIs DEF Base, TypeOK
    <3> QED  BY <3>1 DEF Backend
  <2> HIDE DEF o
  <2>3. Right(q, o, conn'[q.lease].b)
    BY <2>2 DEF Right, NewSession, NoRequest, None
  <2>4. \A t \in Session \ {s} : Leased(t) => conn'[sess[t].lease] = conn[sess[t].lease]
    <3>1. CASE ~Leased(s)
      BY <1>9, <3>1, LeaveDoes
    <3>2. CASE Leased(s)
      <4>1. PICK c \in Conn, k \in ConnType :
              conn' = [conn EXCEPT ![c] = k] /\ sess[s].lease = c
        BY <1>9, <3>2, LeaveDoes
      <4> QED  BY <4>1, OthersKeep, Zenon
    <3> QED  BY <3>1, <3>2
  <2> HIDE DEF q
  <2> QED  BY <1>2, <2>1, <2>3, <2>4, RightMoves, Zenon
<1>10. ASSUME NEW s \in Session, Lose(s) PROVE AllRight'
  <2>0. PICK c \in Conn, q \in Member : LoseStep(s, c, q)
    BY <1>10, LoseDoes
  <2> DEFINE o == Server(own[s], [k |-> "rollback"])
  <2>1. /\ conn' = [conn EXCEPT ![c] = Closed] /\ Becomes(s, q) /\ sess[s].lease = c
        /\ own' = [own EXCEPT ![s] = o] /\ sess[s].op = NoRequest /\ q.lease = None
        /\ q.op = sess[s].op /\ q.reg = sess[s].reg /\ q.tries = sess[s].tries
    BY <2>0 DEF LoseStep
  <2>2. o.stmts = own[s].stmts
    BY <1>1, RollbackTyped
  <2> HIDE DEF o
  <2>3. Right(q, o, conn'[q.lease].b)
    BY <1>3, <2>1, <2>2 DEF Right, NoRequest, None
  <2>4. \A t \in Session \ {s} : Leased(t) => conn'[sess[t].lease] = conn[sess[t].lease]
    BY <2>1, OthersKeep, Zenon
  <2> QED  BY <1>2, <2>1, <2>3, <2>4, RightMoves, Zenon
<1>11. ASSUME NEW s \in Session, NEW c \in Conn, Attach(s, c) PROVE AllRight'
  <2>0. PICK k \in ConnType, q \in Member : AttachStep(s, c, k, q)
    BY <1>11, AttachDoes
  <2>1. /\ conn' = [conn EXCEPT ![c] = k] /\ Becomes(s, q) /\ conn[c].at # "leased" /\ own' = own
        /\ k.b.stmts = Replay(s, conn[c].b.stmts) /\ ~Leased(s) /\ ~Refuses(s, c)
        /\ Forwarded(s)
    BY <2>0 DEF AttachStep
  <2>2. /\ q.lease = c /\ q.op = sess[s].op /\ q.reg = sess[s].reg /\ q.tries = sess[s].tries
    BY <2>0, AttachFields
  <2>3. conn[c].b.stmts = NoStmts
    BY <2>1 DEF NoneLeft
  <2>4. \A n \in Name : sess[s].reg[n] = own[s].stmts[n]
    BY <1>3, <2>1 DEF Right, Refuses, None
  <2>5. k.b.stmts = own[s].stmts
    <3>1. own[s].stmts \in Stmts
      BY <1>1 DEF Backends
    <3> QED  BY <2>1, <2>3, <2>4, <3>1 DEF Replay, NoStmts, Registered, Stmts
  <2>6. conn'[q.lease].b = k.b
    BY <1>1, <2>1, <2>2
  <2>7. sess[s].op.k # "close"
    BY <1>3, <2>1 DEF Right, Forwarded, Leased
  <2>8. Right(q, own[s], conn'[q.lease].b)
    BY <1>3, <2>2, <2>5, <2>6, <2>7 DEF Right
  <2>9. \A t \in Session \ {s} : Leased(t) => conn'[sess[t].lease] = conn[sess[t].lease]
    BY <2>1, OthersKeep, Zenon
  <2> QED  BY <1>1, <1>2, <2>1, <2>8, <2>9, RightMoves, Zenon
<1>12. ASSUME NEW s \in Session, NEW c \in Conn, AttachFails(s, c) PROVE AllRight'
  <2>1. PICK q \in Member : FailStep(s, c, q)
    BY <1>12, FailDoes
  <2>2. /\ conn' = [conn EXCEPT ![c] = Closed] /\ Becomes(s, q) /\ conn[c].at # "leased" /\ own' = own
        /\ ~Leased(s) /\ Refuses(s, c) /\ Forwarded(s)
        /\ q.lease = sess[s].lease /\ q.op = sess[s].op /\ q.reg = sess[s].reg
    BY <2>1 DEF FailStep
  <2>3. \E n \in Name : q.reg[n] = "bad"
    BY <2>2 DEF Refuses, NoneLeft, NoStmts
  <2>4. sess[s].op.k # "close"
    BY <1>3, <2>2 DEF Right, Forwarded, Leased
  <2>5. Right(q, own[s], conn'[q.lease].b)
    BY <1>3, <2>2, <2>3, <2>4 DEF Right, Leased
  <2>6. \A t \in Session \ {s} : Leased(t) => conn'[sess[t].lease] = conn[sess[t].lease]
    BY <2>2, OthersKeep, Zenon
  <2> QED  BY <1>1, <1>2, <2>2, <2>5, <2>6, RightMoves
<1>13. CASE UNCHANGED vars
  BY <1>13 DEF vars, AllRight, Right, TransactionMode
<1> QED  BY <1>4, <1>5, <1>6, <1>7, <1>8, <1>9, <1>10, <1>11, <1>12, <1>13 DEF Next

\* Initially nothing is prepared or registered.
LEMMA InitRight ==
    ASSUME Init
    PROVE  NoneLeft /\ AllRight
<1>1. env \in Setup
  BY StateAssumption DEF Init
<1>2. \A s \in Session : OwnBackend(s).stmts = NoStmts
  <2> TAKE s \in Session
  <2>1. OwnBackend(s) = [Backend EXCEPT !.par = Initially(s)]
    BY <1>1, OwnIs
  <2> QED  BY <2>1 DEF Backend
<1>3. NoneLeft
  BY DEF Init, NoneLeft, Closed, Backend, NewSession, Leased
<1>4. ASSUME NEW s \in Session
      PROVE  Right(sess[s], own[s], conn[sess[s].lease].b)
  <2>1. sess[s] = NewSession /\ own[s].stmts = NoStmts
    BY <1>2 DEF Init
  <2> QED  BY <2>1 DEF Right, NewSession, NoRequest, None
<1> QED  BY <1>3, <1>4 DEF AllRight

\* Sessions are right in every reachable state when Closes are answered locally.
THEOREM SessionsAreRight ==
    ASSUME ~ForwardsClose
    PROVE  Spec => [](Base /\ NoneLeft /\ AllRight)
<1>1. Init => Base /\ NoneLeft /\ AllRight
  BY InitBase, InitRight
<1>2. Base /\ NoneLeft /\ AllRight /\ [Next]_vars => (Base /\ NoneLeft /\ AllRight)'
  BY NextBase, NextNone, NextRight
<1> QED  BY <1>1, <1>2, PTL DEF Spec

\* A session has the statements it prepared and no others, in its registry and on
\* whichever connection it is attached to (StatementRegistry, ensure_attached,
\* checkin_detached), when its clients close statements only while the proxy answers the
\* Close itself.
THEOREM StatementsFollow ==
    ASSUME ~ForwardsClose
    PROVE  Spec => []StatementsMatch
<1>1. Base /\ NoneLeft /\ AllRight => StatementsMatch
  BY DEF AllRight, Right, StatementsMatch, Leased
<1> QED  BY <1>1, SessionsAreRight, PTL

\* An attach fails only for a statement the server refused: a parked connection never
\* has a statement that the replay would prepare a second time (ensure_attached,
\* StatementRegistry::replay).
THEOREM ReplaysWork ==
    ASSUME ~ForwardsClose
    PROVE  Spec => []ReplaysSucceed
<1>1. Base /\ NoneLeft /\ AllRight => ReplaysSucceed
  BY DEF AllRight, Right, ReplaysSucceed
<1> QED  BY <1>1, SessionsAreRight, PTL
=============================================================================
