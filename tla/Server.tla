------------------------------- MODULE Server -------------------------------
(***************************************************************************)
(* The server around the sessions: the accept loop and its client slots,   *)
(* the life of a session's task from its startup packet to the return of   *)
(* its slot, the registry of live sessions (runtime.rs), the cancel router *)
(* (cancel.rs), the registry of pools (pool.rs PoolManager), the admin     *)
(* console's session (admin.rs) and the ways to stop the proxy.            *)
(*                                                                         *)
(* A client stands for one connection it makes.  Of a session's pump only  *)
(* what the server's parts see is kept: whether it holds a lease, whether  *)
(* a query is in flight, what it does on a cancel, on the shutdown signal, *)
(* on a lost upstream and when its client leaves (Pump has the messages).  *)
(* All sessions ask for the same pool, which has PoolSize permits.         *)
(***************************************************************************)
EXTENDS Integers, Sequences, FiniteSets

CONSTANTS
    Client,
    None,          \* Option::None
    MaxConn,       \* max_client_conn
    PoolSize,      \* PoolConfig::max_size
    Setups,        \* how the proxy is configured and what may happen
    MaxFaults      \* bound: failed accepts, panics

\* PoolMode::Session; may the generator repeat the pid of a live session; how the
\* proxy may be stopped; what clients connect for; how often accept may fail and a
\* hook panic.
Kinds == {"user", "admin", "cancel", "refused"}
Setup == [sessionMode : BOOLEAN, collide : BOOLEAN, stops : SUBSET {"graceful", "now", "drop"},
          kinds : SUBSET Kinds, acceptErrors : 0..MaxFaults, panics : 0..MaxFaults]

ASSUME ServerAssumption ==
    /\ IsFiniteSet(Client) /\ None \notin Client
    /\ MaxConn \in Nat \ {0} /\ PoolSize \in Nat \ {0} /\ MaxFaults \in Nat
    /\ Setups \subseteq Setup

VARIABLES
    loop,        \* accept_loop: at its outer or inner select, draining, returned
    free,        \* free permits of client_slots
    backlog,     \* connections the listener has not accepted yet
    joinset,     \* tasks spawned on the JoinSet and not joined
    aborting,    \* tasks the JoinSet was told to abort
    sess,        \* the clients' connections and their sessions' tasks
    runtime,     \* RuntimeState::sessions
    router,      \* CancelRouter::sessions
    cancels,     \* sessions with a cancel in their channel (capacity 1)
    pools,       \* the pool registered for the key, named after its creator
    stop,        \* what was done with the ProxyServer handle
    outer,       \* the task that awaits the accept loop
    background,  \* the sweeper and the metrics endpoint
    env          \* the setup

loopVars == <<loop, free, backlog, joinset, aborting>>
registries == <<runtime, router, cancels>>
stopVars == <<stop, outer, background>>
vars == <<loopVars, sess, registries, pools, stopVars, env>>

(***************************************************************************)
(* phase: "none" (not connected), "queued" (in the backlog), "hello"       *)
(* (negotiating, first message), "lookup" and "create" (get_or_create's    *)
(* read and write lock), "attach" (the first attach or the baseline        *)
(* probe), "auth" (finish_authentication), "serve" (the pump's select),    *)
(* "checkout" (the pump awaits ensure_attached), "admin", "closing" (after *)
(* the pump), "over", "reset" (never accepted).  busy is                   *)
(* hygiene.awaiting_response, attached the flag of SessionInfo, why what   *)
(* ended a pump with a query in flight or dropped a task.                  *)
(***************************************************************************)
NoSession == [phase |-> "none", kind |-> None, target |-> None, pid |-> None, gone |-> FALSE,
              pool |-> None, lease |-> FALSE, attached |-> FALSE, busy |-> FALSE,
              draining |-> FALSE, why |-> None]

Running == {"hello", "lookup", "create", "attach", "auth", "serve", "checkout", "admin", "closing"}
Registered == Running \ {"hello"}
Receiving == {"serve", "checkout", "admin"}   \* cancel_rx is alive
In(ps) == {c \in Client : sess[c].phase \in ps}

Init ==
    /\ loop = "select" /\ free = MaxConn /\ backlog = <<>> /\ joinset = {} /\ aborting = {}
    /\ sess = [c \in Client |-> NoSession]
    /\ runtime = {} /\ router = {} /\ cancels = {} /\ pools = None
    /\ stop = "none" /\ outer = "waiting" /\ background = {"sweeper", "metrics"}
    /\ env \in Setups

----------------------------------------------------------------------------
(* The accept loop *)

\* shutdown_rx.changed() resolves once the signal was sent or the sender dropped.
Signalled == stop # "none"
SenderDropped == stop \in {"stopped", "dropped"}

\* A client connects; a cancel request carries the keys its sender got at startup.
Connect(c, k) ==
    /\ sess[c].phase = "none" /\ loop # "done"
    /\ \E t \in IF k = "cancel" THEN {d \in Client : sess[d].pid # None} ELSE {None} :
          sess' = [sess EXCEPT ![c] = [@ EXCEPT !.phase = "queued", !.kind = k, !.target = t]]
    /\ backlog' = Append(backlog, c)
    /\ UNCHANGED <<loop, free, joinset, aborting, registries, pools, stopVars, env>>

TakeSlot ==
    /\ loop = "select" /\ free > 0
    /\ loop' = "accept" /\ free' = free - 1
    /\ UNCHANGED <<backlog, joinset, aborting, sess, registries, pools, stopVars, env>>

\* Fault: the session is spawned next to the JoinSet.
AcceptDetached ==
    /\ loop = "accept" /\ backlog # <<>>
    /\ sess' = [sess EXCEPT ![Head(backlog)].phase = "hello"]
    /\ backlog' = Tail(backlog)
    /\ loop' = "select"
    /\ UNCHANGED <<free, joinset, aborting, registries, pools, stopVars, env>>

\* The slot moves into the task.
Accept ==
    /\ loop = "accept" /\ backlog # <<>>
    /\ sess' = [sess EXCEPT ![Head(backlog)].phase = "hello"]
    /\ joinset' = joinset \cup {Head(backlog)}
    /\ backlog' = Tail(backlog)
    /\ loop' = "select"
    /\ UNCHANGED <<free, aborting, registries, pools, stopVars, env>>

\* Fault: the slot is forgotten when accept fails.
AcceptFailsForgets ==
    /\ loop = "accept" /\ env.acceptErrors > 0
    /\ env' = [env EXCEPT !.acceptErrors = @ - 1]
    /\ loop' = "select"
    /\ UNCHANGED <<free, backlog, joinset, aborting, sess, registries, pools, stopVars>>

\* listener.accept failed: the slot is dropped and the loop goes on.
AcceptFails ==
    /\ loop = "accept" /\ env.acceptErrors > 0
    /\ env' = [env EXCEPT !.acceptErrors = @ - 1]
    /\ loop' = "select" /\ free' = free + 1
    /\ UNCHANGED <<backlog, joinset, aborting, sess, registries, pools, stopVars>>

\* Either select: break; a slot that was held for the next client is dropped.
StopAccepting ==
    /\ loop \in {"select", "accept"} /\ Signalled
    /\ free' = IF loop = "accept" THEN free + 1 ELSE free
    /\ loop' = "drain"
    /\ UNCHANGED <<backlog, joinset, aborting, sess, registries, pools, stopVars, env>>

\* The loop returns: the listener goes, and with it what it had not accepted.
LoopReturns ==
    /\ loop' = "done" /\ backlog' = <<>> /\ joinset' = {}
    /\ sess' = [c \in Client |-> IF sess[c].phase = "queued" THEN [sess[c] EXCEPT !.phase = "reset"]
                                                             ELSE sess[c]]
    /\ UNCHANGED <<free, registries, pools, stopVars, env>>

Drained ==
    /\ loop = "drain" /\ joinset \cap In(Running) = {}
    /\ LoopReturns
    /\ UNCHANGED aborting

\* The drain window closes; the tasks that are left are told to abort.
DrainTimesOut ==
    /\ loop = "drain" /\ joinset \cap In(Running) # {}
    /\ aborting' = joinset \cap In(Running)
    /\ LoopReturns

----------------------------------------------------------------------------
(* A session's task, up to the pump *)

\* Fault: the guard is dropped where it is made.
EndsListed(c, why) ==
    /\ sess' = [sess EXCEPT ![c] = [NoSession EXCEPT !.phase = "over", !.pid = sess[c].pid, !.why = why]]
    /\ free' = free + 1
    /\ UNCHANGED <<loop, backlog, joinset, aborting, runtime, pools, stopVars>>

\* The task of c ends: its lease goes, its guard (none before Register) removes every
\* session with its pid from the registry, its slot is released.
Ends(c, why) ==
    /\ sess' = [sess EXCEPT ![c] = [NoSession EXCEPT !.phase = "over", !.pid = sess[c].pid, !.why = why]]
    /\ runtime' = {d \in runtime : sess[d].pid # sess[c].pid}
    /\ free' = free + 1
    /\ UNCHANGED <<loop, backlog, joinset, aborting, pools, stopVars>>

\* No startup: the client left, sent something else, asked for an old protocol or
\* for replication, or gave no user.
Refuse(c) ==
    /\ sess[c].phase = "hello" /\ (sess[c].kind = "refused" \/ sess[c].gone)
    /\ Ends(c, None)
    /\ UNCHANGED <<router, cancels, env>>

\* CancelRouter::cancel: try_send, which drops the request when one is pending and
\* when the session's receiver is gone.
Cancel(c) ==
    /\ sess[c].phase = "hello" /\ sess[c].kind = "cancel"
    /\ cancels' = cancels \cup ({sess[c].target} \cap router \cap In(Receiving))
    /\ Ends(c, None)
    /\ UNCHANGED <<router, env>>

\* The startup packet is valid: keys are drawn and the session registers.  A pid is
\* named after the first client that drew it.
Register(c) ==
    /\ sess[c].phase = "hello" /\ sess[c].kind \in {"user", "admin"}
    /\ \E p \in {c} \cup (IF env.collide THEN {sess[d].pid : d \in In(Registered)} ELSE {}) :
          sess' = [sess EXCEPT ![c] = [@ EXCEPT !.pid = p, !.phase =
                         IF sess[c].kind = "admin" THEN "auth" ELSE "lookup"]]
    /\ runtime' = runtime \cup {c}
    /\ UNCHANGED <<loopVars, router, cancels, pools, stopVars, env>>

\* get_or_create under the read lock.
Lookup(c) ==
    /\ sess[c].phase = "lookup"
    /\ sess' = [sess EXCEPT ![c] = [@ EXCEPT !.pool = pools, !.phase =
                   IF pools = None THEN "create" ELSE "attach"]]
    /\ UNCHANGED <<loopVars, registries, pools, stopVars, env>>

\* Fault: under the write lock the pool is inserted without looking again.
CreateBlind(c) ==
    /\ sess[c].phase = "create"
    /\ pools' = c
    /\ sess' = [sess EXCEPT ![c] = [@ EXCEPT !.phase = "attach", !.pool = c]]
    /\ UNCHANGED <<loopVars, registries, stopVars, env>>

\* get_or_create under the write lock: entry(key).or_insert_with(..).
Create(c) ==
    /\ sess[c].phase = "create"
    /\ pools' = IF pools = None THEN c ELSE pools
    /\ sess' = [sess EXCEPT ![c] = [@ EXCEPT !.phase = "attach", !.pool = pools']]
    /\ UNCHANGED <<loopVars, registries, stopVars, env>>

PermitFree(p) == Cardinality({c \in Client : sess[c].lease /\ sess[c].pool = p}) < PoolSize

\* Session mode takes its lease now; transaction mode reads the pool's baseline snapshot
\* or, when there is none yet, probes a connection and parks it again.
Attach(c) ==
    /\ sess[c].phase = "attach" /\ (env.sessionMode => PermitFree(sess[c].pool))
    /\ sess' = [sess EXCEPT ![c] = [@ EXCEPT !.phase = "auth", !.lease = env.sessionMode,
                                              !.attached = env.sessionMode]]
    /\ UNCHANGED <<loopVars, registries, pools, stopVars, env>>

\* The attach or the probe failed (an unknown endpoint, a connect, a replay): a fatal
\* error, and the task returns.
AttachFails(c) ==
    /\ sess[c].phase = "attach"
    /\ Ends(c, None)
    /\ UNCHANGED <<router, cancels, env>>

\* finish_authentication sent the keys; the router learns them.
Authenticate(c) ==
    /\ sess[c].phase = "auth"
    /\ sess' = [sess EXCEPT ![c].phase = IF sess[c].kind = "admin" THEN "admin" ELSE "serve"]
    /\ router' = router \cup {c}
    /\ UNCHANGED <<loopVars, runtime, cancels, pools, stopVars, env>>

AuthenticateFails(c) ==
    /\ sess[c].phase = "auth" /\ sess[c].gone
    /\ Ends(c, None)
    /\ UNCHANGED <<router, cancels, env>>

----------------------------------------------------------------------------
(* The pump and the admin console, as the server sees them *)

\* Fault: only sessions whose client left unregister from the router.
PumpEndsRouted(c, s, why) ==
    /\ sess' = [sess EXCEPT ![c] = [s EXCEPT !.phase = "closing", !.draining = FALSE,
                                             !.why = IF s.busy THEN why ELSE None]]
    /\ router' = IF why = "client" THEN router \ {c} ELSE router
    /\ cancels' = cancels \ {c}
    /\ UNCHANGED <<loopVars, runtime, pools, stopVars, env>>

\* The pump returned: the router forgets the session before its socket is closed and
\* its lease is checked in or destroyed.
PumpEnds(c, s, why) ==
    /\ sess' = [sess EXCEPT ![c] = [s EXCEPT !.phase = "closing", !.draining = FALSE,
                                             !.why = IF s.busy THEN why ELSE None]]
    /\ router' = router \ {c} /\ cancels' = cancels \ {c}
    /\ UNCHANGED <<loopVars, runtime, pools, stopVars, env>>

PumpGoesOn(c, s) ==
    /\ sess' = [sess EXCEPT ![c] = s]
    /\ UNCHANGED <<loopVars, registries, pools, stopVars, env>>

\* The next query is forwarded, or first needs an attach.
Query(c) ==
    /\ sess[c].phase = "serve" /\ ~sess[c].gone /\ ~sess[c].busy
    /\ PumpGoesOn(c, IF sess[c].lease THEN [sess[c] EXCEPT !.busy = TRUE]
                                      ELSE [sess[c] EXCEPT !.phase = "checkout"])

\* ensure_attached in the frontend arm: nothing else is looked at meanwhile.
Checkout(c) ==
    /\ sess[c].phase = "checkout" /\ PermitFree(pools)
    /\ PumpGoesOn(c, [sess[c] EXCEPT !.phase = "serve", !.pool = pools, !.lease = TRUE,
                                     !.attached = TRUE, !.busy = TRUE])

\* ensure_attached failed and sent its fatal error.
CheckoutFails(c) ==
    /\ sess[c].phase = "checkout"
    /\ PumpEnds(c, sess[c], "failed")

\* ReadyForQuery was forwarded: a draining session ends, an idle one of transaction
\* mode detaches.
QueryEnds(c, inTransaction) ==
    /\ sess[c].phase = "serve" /\ sess[c].busy
    /\ IF sess[c].draining
       THEN PumpEnds(c, [sess[c] EXCEPT !.busy = FALSE], "drained")
       ELSE LET keep == env.sessionMode \/ inTransaction
            IN PumpGoesOn(c, [sess[c] EXCEPT !.busy = FALSE, !.lease = keep, !.attached = @ /\ keep])

\* The connection is lost; the hooks' policy is Relink (an interrupted query is
\* answered with an error) or Close.
UpstreamLost(c, relink) ==
    /\ sess[c].phase = "serve" /\ sess[c].lease
    /\ IF relink
       THEN PumpGoesOn(c, [sess[c] EXCEPT !.busy = FALSE, !.lease = FALSE, !.attached = FALSE])
       ELSE PumpEnds(c, sess[c], "upstream")

\* A scatter failed: the flag is cleared, the lease goes only if it was a broken leg.
ScatterFails(c, broken) ==
    /\ sess[c].phase = "serve" /\ ~sess[c].busy /\ (broken => sess[c].lease)
    /\ PumpGoesOn(c, [sess[c] EXCEPT !.lease = @ /\ ~broken, !.attached = FALSE])

\* Fault: the arm is taken only while there is a lease.
SeeCancelLeased(c) ==
    /\ sess[c].phase \in {"serve", "admin"} /\ c \in cancels /\ sess[c].lease
    /\ cancels' = cancels \ {c}
    /\ UNCHANGED <<loopVars, sess, runtime, router, pools, stopVars, env>>

\* The cancel arm: cancel() on the lease, if there is one; the admin console ignores it.
SeeCancel(c) ==
    /\ sess[c].phase \in {"serve", "admin"} /\ c \in cancels
    /\ cancels' = cancels \ {c}
    /\ UNCHANGED <<loopVars, sess, runtime, router, pools, stopVars, env>>

\* Fault: the shutdown arm breaks the pump at once.
SeeSignalBreaks(c) ==
    /\ sess[c].phase = "serve" /\ Signalled
    /\ PumpEnds(c, sess[c], "signal")

\* The shutdown arm; changed() resolves again and again once the sender is dropped.
SeeSignal(c) ==
    /\ sess[c].phase = "serve" /\ Signalled /\ (sess[c].draining => SenderDropped)
    /\ IF sess[c].busy THEN PumpGoesOn(c, [sess[c] EXCEPT !.draining = TRUE])
                       ELSE PumpEnds(c, sess[c], "signal")

\* Fault: the client's socket is not read while a query runs.
SeeEofIdle(c) ==
    /\ sess[c].phase = "serve" /\ sess[c].gone /\ ~sess[c].busy
    /\ PumpEnds(c, sess[c], "client")

SeeEof(c) ==
    /\ sess[c].phase = "serve" /\ sess[c].gone
    /\ PumpEnds(c, sess[c], "client")

\* The socket is closed and the lease checked in or destroyed.
Close(c) ==
    /\ sess[c].phase = "closing"
    /\ Ends(c, None)
    /\ UNCHANGED <<router, cancels, env>>

\* The admin console's loop ends on the signal or with its client.
AdminEnds(c) ==
    /\ sess[c].phase = "admin" /\ (Signalled \/ sess[c].gone)
    /\ router' = router \ {c} /\ cancels' = cancels \ {c}
    /\ Ends(c, None)
    /\ UNCHANGED env

ClientGoes(c) ==
    /\ sess[c].phase \in Running \ {"closing"} /\ sess[c].kind \in {"user", "admin"} /\ ~sess[c].gone
    /\ sess' = [sess EXCEPT ![c].gone = TRUE]
    /\ UNCHANGED <<loopVars, registries, pools, stopVars, env>>

----------------------------------------------------------------------------
(* Tasks that are dropped, and the ends of the server *)

\* The future is dropped wherever it is: guards run, unregister does not.
Dropped(c, why) ==
    /\ Ends(c, why)
    /\ cancels' = cancels \ {c}
    /\ UNCHANGED router

Abort(c) ==
    /\ c \in aborting /\ sess[c].phase \in Running
    /\ Dropped(c, "abort")
    /\ UNCHANGED env

\* A hook panics in the session's task.
Panic(c) ==
    /\ sess[c].phase \in {"attach", "checkout", "serve"} /\ env.panics > 0
    /\ env' = [env EXCEPT !.panics = @ - 1]
    /\ Dropped(c, "panic")

ShutdownGraceful ==
    /\ stop = "none" /\ "graceful" \in env.stops
    /\ stop' = "graceful"
    /\ UNCHANGED <<loopVars, sess, registries, pools, outer, background, env>>

\* ProxyServer::shutdown sends the signal ..
ShutdownSends ==
    /\ stop = "none" /\ "now" \in env.stops
    /\ stop' = "stopping"
    /\ UNCHANGED <<loopVars, sess, registries, pools, outer, background, env>>

\* .. and aborts the task that awaits the accept loop; the sender is dropped.
ShutdownAborts ==
    /\ stop = "stopping"
    /\ stop' = "stopped" /\ outer' = IF outer = "waiting" THEN "aborted" ELSE outer
    /\ UNCHANGED <<loopVars, sess, registries, pools, background, env>>

\* The handle is dropped: the sender goes, the outer task is detached.
DropHandle ==
    /\ stop = "none" /\ "drop" \in env.stops
    /\ stop' = "dropped"
    /\ UNCHANGED <<loopVars, sess, registries, pools, outer, background, env>>

\* Fault: the metrics endpoint is forgotten.
OuterEndsServing ==
    /\ outer = "waiting" /\ loop = "done"
    /\ outer' = "done" /\ background' = background \ {"sweeper"}
    /\ UNCHANGED <<loopVars, sess, registries, pools, stop, env>>

\* The accept loop returned: the sweeper and the metrics endpoint are aborted.
OuterEnds ==
    /\ outer = "waiting" /\ loop = "done"
    /\ outer' = "done" /\ background' = {}
    /\ UNCHANGED <<loopVars, sess, registries, pools, stop, env>>

----------------------------------------------------------------------------
Task(c) ==
    \/ Refuse(c) \/ Cancel(c) \/ Register(c)
    \/ Lookup(c) \/ Create(c) \/ Attach(c) \/ AttachFails(c)
    \/ Authenticate(c) \/ AuthenticateFails(c)
    \/ Checkout(c) \/ CheckoutFails(c)
    \/ \E b \in BOOLEAN : QueryEnds(c, b) \/ UpstreamLost(c, b) \/ ScatterFails(c, b)
    \/ SeeCancel(c) \/ SeeSignal(c) \/ SeeEof(c) \/ Close(c) \/ AdminEnds(c)
    \/ Abort(c) \/ Panic(c)

ClientStep(c) == \/ \E k \in env.kinds : Connect(c, k)
                 \/ Query(c)
                 \/ ClientGoes(c)

AcceptLoop == TakeSlot \/ Accept \/ AcceptFails \/ StopAccepting \/ Drained \/ DrainTimesOut

Stop == ShutdownGraceful \/ ShutdownSends \/ ShutdownAborts \/ DropHandle \/ OuterEnds

Next == AcceptLoop \/ Stop \/ \E c \in Client : Task(c) \/ ClientStep(c)

Spec == Init /\ [][Next]_vars

\* What a task does next when it waits for neither its client, a query nor a connection.
GoesOn(c) ==
    \/ Refuse(c) \/ Cancel(c) \/ Lookup(c) \/ Create(c)
    \/ Authenticate(c) \/ AuthenticateFails(c) \/ Close(c) \/ AdminEnds(c)

Waits(c) == sess[c].phase \in {"attach", "checkout"}

\* The pool has a permit for a session that waits for one.
Granted(c) == PermitFree(pools) /\ (Attach(c) \/ AttachFails(c) \/ Checkout(c) \/ CheckoutFails(c))

(***************************************************************************)
(* The runtime polls every task that can go on; checkins are bounded by    *)
(* timeouts, and so is the drain.  The pump's select picks among its ready *)
(* arms at random, so an arm that is ready again and again is taken.       *)
(* Nothing bounds the wait for a permit (acquire_owned has no timeout):    *)
(* who waits is served only if permits come free, and then in turn, for    *)
(* the semaphore is fair; that a connect and a replay end, for which there *)
(* is no timeout either, is an assumption about the upstream.  Clients owe *)
(* nothing, and a query may run forever.                                   *)
(***************************************************************************)
Fairness ==
    /\ WF_vars(AcceptLoop) /\ WF_vars(OuterEnds \/ ShutdownAborts)
    /\ \A c \in Client :
          /\ WF_vars(GoesOn(c)) /\ SF_vars(Granted(c)) /\ WF_vars(Abort(c))
          /\ SF_vars(SeeCancel(c)) /\ SF_vars(SeeSignal(c)) /\ SF_vars(SeeEof(c))

FairSpec == Spec /\ Fairness

----------------------------------------------------------------------------
(* Properties *)

Session ==
    [phase : Running \cup {"none", "queued", "over", "reset"}, kind : Kinds \cup {None},
     target : Client \cup {None}, pid : Client \cup {None}, gone : BOOLEAN,
     pool : Client \cup {None}, lease : BOOLEAN, attached : BOOLEAN, busy : BOOLEAN,
     draining : BOOLEAN, why : {None, "upstream", "client", "abort", "panic"}]

\* The variables keep their types (RuntimeState, CancelRouter, accept_loop).
TypeOK ==
    /\ loop \in {"select", "accept", "drain", "done"} /\ free \in 0..MaxConn
    /\ backlog \in Seq(Client) /\ joinset \subseteq Client /\ aborting \subseteq Client
    /\ sess \in [Client -> Session]
    /\ runtime \subseteq Client /\ router \subseteq Client /\ cancels \subseteq Client
    /\ pools \in Client \cup {None}
    /\ stop \in {"none", "graceful", "stopping", "stopped", "dropped"}
    /\ outer \in {"waiting", "done", "aborted"} /\ background \subseteq {"sweeper", "metrics"}
    /\ env \in Setup

\* Every client slot is free, held by the accept loop for its next client, or held
\* by exactly one running session, whatever way sessions end and accepts fail
\* (accept_loop, run_session's permit).
SlotsConserved ==
    free + Cardinality(In(Running)) + (IF loop = "accept" THEN 1 ELSE 0) = MaxConn

\* SHOW CLIENTS lists exactly the sessions that run, from their startup until their
\* slot is returned, as long as the generator never repeats the pid of one of them
\* (RuntimeState::register and the guard's unregister by pid), and a session it calls
\* attached holds a lease (SessionInfo::attached).
RegistryIsExact ==
    /\ ~env.collide => runtime = In(Registered)
    /\ \A c \in runtime : sess[c].attached => sess[c].lease

\* The router can reach every session that serves queries, and keeps no session that
\* left its pump in an orderly way; a cancel waits only where a pump can take it
\* (CancelRouter::register, unregister and cancel).
RouterIsLive ==
    /\ In(Receiving) \subseteq router
    /\ \A c \in router : sess[c].phase = "over" => sess[c].why \in {"abort", "panic"}
    /\ cancels \subseteq In(Receiving)

\* However the first sessions of a key race for its pool, all of them lease from the
\* same one: the server never sees more than max_size connections in use
\* (PoolManager::get_or_create).
OnePoolPerKey == Cardinality({c \in Client : sess[c].lease}) <= PoolSize

\* A pump that ends with its query unanswered lost its client or its upstream; the
\* shutdown signal never cuts a query short (the pump's shutdown arm and its drain).
SignalCutsNoQuery ==
    \A c \in In({"closing"}) : sess[c].busy => sess[c].why \in {"client", "upstream"}

\* Once the accept loop returned, only sessions that were told to abort are left, so
\* shutdown_graceful returns with all others ended (accept_loop's drain).
ReturnsDrained == loop = "done" => In(Running) \subseteq aborting

\* However the proxy is stopped, its sessions end, even those whose client or query
\* does nothing anymore; and unless shutdown() aborted the task that waits for the
\* accept loop, the sweeper and the metrics endpoint stop too (shutdown_graceful,
\* shutdown, a dropped handle).
StopEnds ==
    Signalled ~> /\ loop = "done" /\ In(Running) = {}
                 /\ outer = "aborted" \/ background = {}

\* A session that waits for a connection while none is free: it looks at nothing else, and
\* no timeout ends the wait (Pool::checkout, awaited in a select arm).
Starved(c) == Waits(c) /\ ~PermitFree(pools)

\* When a client leaves, its session ends and returns its slot and its lease, even behind a
\* query that never ends, unless it is starved from some time on (the pump's frontend arm,
\* ensure_attached).
SlotComesBack ==
    \A c \in Client : []<>~Starved(c) => (sess[c].gone ~> sess[c].phase = "over")

\* A cancel that reached a session's channel does not stay there: the pump looks at it or
\* ends, unless the session is starved from some time on (the pump's cancel arm).
CancelIsSeen ==
    \A c \in Client : []<>~Starved(c) => (c \in cancels ~> c \notin cancels)

----------------------------------------------------------------------------
(* What the documents say and the code does not do *)

\* proxy.rs: "Stop accepting new connections and abort active sessions immediately."
\* shutdown() aborts the task that awaits the accept loop; the loop, detached, drains.
ShutdownAbortsSessions == stop = "stopped" => In(Running) \subseteq aborting

\* metrics.rs: "(abort on shutdown)".  The aborted task is the one that would do it.
ShutdownStopsMetrics == stop = "stopped" ~> background = {}

\* PLAN.md: the listener has a "startup timeout".  A client that sends nothing keeps
\* its slot (run_session awaits the first message).
StartupTimesOut == \A c \in Client : sess[c].phase = "hello" ~> sess[c].phase # "hello"

\* PLAN.md: "a queued waiter must be cancellable (client disconnect while waiting for
\* checkout)".  The pump awaits the checkout and nothing else.
WaiterIsCancellable ==
    [][\A c \in Client : sess[c].phase = "checkout" /\ sess[c].gone => ~sess'[c].lease]_vars

\* cancel.rs: "Remove a session from the registry (called when the session ends)".
\* The call is not made when a hook panics.
RouterForgets == \A c \in router : sess[c].phase # "over"

\* cancel.rs: "When a cancel request arrives, the router signals the session task".
\* The request needs a client slot, and there may be none.
CancelArrives ==
    \A c \in Client : sess[c].phase = "queued" /\ sess[c].kind = "cancel" ~> sess[c].phase # "queued"

\* runtime.rs: attached is "Whether the session currently holds an upstream lease".
\* A failed scatter clears it and may keep the lease.
AttachedIsExact == \A c \in In({"serve"}) : sess[c].lease => sess[c].attached

\* runtime.rs: "RAII guard removing a session from the [`RuntimeState`] on drop".  It
\* removes by pid, so a repeated pid takes a live session along.
RegistryHasLive == In(Registered) \subseteq runtime

\* accept_loop joins no task before the drain: the JoinSet keeps every session served.
JoinSetIsBounded == Cardinality(joinset) <= MaxConn

=============================================================================
