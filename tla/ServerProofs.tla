---------------------------- MODULE ServerProofs ----------------------------
(***************************************************************************)
(* Proofs about the server, for every set of clients, every number of      *)
(* client slots, every pool size, every configuration and every number of  *)
(* failed accepts and panics.                                              *)
(***************************************************************************)
EXTENDS Server, FiniteSetTheorems, SequenceTheorems, TLAPS

\* A leaf that names no prover is tried by SMT, by Zenon, and by SMT again.
USE SMTT(60), ZenonT(30), SMTT(60)

(***************************************************************************)
(* The inductive invariant.  None of the properties is inductive alone: a  *)
(* slot is conserved when a client is accepted only if the backlog holds   *)
(* queued clients, once each; the registry stays exact only if a pid says  *)
(* whether its session registered; the bound on leases needs every session *)
(* that may take one to have the registered pool; the drain needs every    *)
(* running session to be in the JoinSet.                                   *)
(***************************************************************************)

\* What holds of a session by itself.
SessionOK(s) ==
    /\ s.attached => s.lease
    /\ s.busy => s.lease
    /\ s.lease => s.phase \in {"auth", "serve", "closing"}
    /\ s.phase = "closing" /\ s.busy => s.why \in {"client", "upstream"}
    /\ s.phase \in {"none", "queued", "hello", "reset"} => s.pid = None
    /\ s.phase \in Registered => s.pid # None
    /\ s.kind = "admin" => ~s.lease /\ s.phase \notin {"lookup", "create", "attach", "serve", "checkout"}

SessionsOK == \A c \in Client : SessionOK(sess[c])

\* The backlog holds queued clients, once each.
BacklogOK ==
    /\ \A i \in DOMAIN backlog : sess[backlog[i]].phase = "queued"
    /\ \A i, j \in DOMAIN backlog : backlog[i] = backlog[j] => i = j

\* The JoinSet knows every running session until the loop returns.
JoinOK == IF loop = "done" THEN In(Running) \subseteq aborting ELSE In(Running) \subseteq joinset

RegistryOK ==
    /\ runtime \subseteq In(Registered)
    /\ ~env.collide => /\ runtime = In(Registered)
                       /\ \A c \in Client : sess[c].pid \in {None, c}

\* A session the router knows listens, or its task was dropped.
RoutedOK(s) == s.phase \in Receiving \/ (s.phase = "over" /\ s.why \in {"abort", "panic"})

RouterOK ==
    /\ In(Receiving) \subseteq router
    /\ \A c \in router : RoutedOK(sess[c])
    /\ cancels \subseteq In(Receiving)

Leased == {c \in Client : sess[c].lease}

\* A session that uses its pool, or will without asking the registry again.
UsesPool(s) ==
    s.lease \/ s.phase \in {"attach", "serve", "checkout"} \/ (s.phase = "auth" /\ s.kind # "admin")

PoolOK ==
    /\ \A c \in Client : sess[c].phase = "attach" \/ sess[c].lease => sess[c].pool = pools
    /\ \A c \in Client : UsesPool(sess[c]) => pools # None
    /\ OnePoolPerKey

LoopOK == BacklogOK /\ SlotsConserved /\ JoinOK

IInv == TypeOK /\ SessionsOK /\ LoopOK /\ RegistryOK /\ RouterOK /\ PoolOK

-----------------------------------------------------------------------------
(***************************************************************************)
(* One session moves.                                                      *)
(***************************************************************************)

\* The session of c becomes s and no other session moves.
LEMMA OneMoves ==
    ASSUME sess \in [Client -> Session], NEW c \in Client, NEW s \in Session,
           sess' = [sess EXCEPT ![c] = s]
    PROVE  /\ sess' \in [Client -> Session]
           /\ sess'[c] = s
           /\ \A d \in Client \ {c} : sess'[d] = sess[d]
  OBVIOUS

\* The sessions in some phases, after the session of c became s.
LEMMA InMoves ==
    ASSUME sess \in [Client -> Session], NEW c \in Client, NEW s \in Session,
           sess' = [sess EXCEPT ![c] = s], NEW ps
    PROVE  In(ps)' = IF s.phase \in ps THEN In(ps) \cup {c} ELSE In(ps) \ {c}
BY OneMoves DEF In

\* The sets of clients the invariants count are finite.
LEMMA ClientSets ==
    ASSUME NEW S \in SUBSET Client
    PROVE  IsFiniteSet(S) /\ Cardinality(S) \in Nat
BY FS_Subset, FS_CardinalityType, ServerAssumption

\* One more, one less, or the same number of clients.
LEMMA OneMore ==
    ASSUME NEW S \in SUBSET Client, NEW c \in Client
    PROVE  /\ c \notin S => Cardinality(S \cup {c}) = Cardinality(S) + 1
           /\ c \in S => Cardinality(S \ {c}) = Cardinality(S) - 1 /\ Cardinality(S) > 0
<1>1. IsFiniteSet(S) /\ Cardinality(S) \in Nat
  BY ClientSets
<1>2. c \notin S => Cardinality(S \cup {c}) = Cardinality(S) + 1
  BY <1>1, FS_AddElement, Zenon
<1>3. c \in S => Cardinality(S \ {c}) = Cardinality(S) - 1 /\ Cardinality(S) > 0
  <2> SUFFICES ASSUME c \in S  PROVE Cardinality(S \ {c}) = Cardinality(S) - 1 /\ Cardinality(S) > 0
    OBVIOUS
  <2>1. Cardinality(S \ {c}) = Cardinality(S) - 1
    BY <1>1, FS_RemoveElement, Zenon
  <2>2. S # {}
    OBVIOUS
  <2> QED  BY <1>1, <2>1, <2>2, FS_EmptySet
<1> QED  BY <1>2, <1>3

\* A session that runs goes on running: the accept loop sees nothing.
LEMMA LoopKept ==
    ASSUME TypeOK, LoopOK, NEW c \in Client, NEW s \in Session,
           sess' = [sess EXCEPT ![c] = s], sess[c].phase \in Running, s.phase \in Running,
           UNCHANGED loopVars
    PROVE  LoopOK'
<1>1. In(Running)' = In(Running)
  BY InMoves DEF TypeOK, In
<1>2. \A d \in Client \ {c} : sess'[d] = sess[d]
  BY OneMoves DEF TypeOK
<1>3. BacklogOK'
  BY <1>2 DEF BacklogOK, LoopOK, loopVars, TypeOK, Running
<1> QED  BY <1>1, <1>3 DEF LoopOK, SlotsConserved, JoinOK, loopVars

\* A session moves within the phases in which it is registered and keeps its pid.
LEMMA RegistryKept ==
    ASSUME TypeOK, RegistryOK, NEW c \in Client, NEW s \in Session,
           sess' = [sess EXCEPT ![c] = s], s.pid = sess[c].pid,
           s.phase \in Registered <=> sess[c].phase \in Registered,
           runtime' = runtime, env'.collide = env.collide
    PROVE  RegistryOK'
<1>1. In(Registered)' = In(Registered)
  BY InMoves DEF TypeOK, In
<1>2. \A d \in Client : sess'[d].pid = sess[d].pid
  BY OneMoves DEF TypeOK
<1> QED  BY <1>1, <1>2 DEF RegistryOK

\* A session moves and no cancel can reach it, neither before nor after; or it goes
\* on listening.
LEMMA RouterKept ==
    ASSUME TypeOK, RouterOK, NEW c \in Client, NEW s \in Session,
           sess' = [sess EXCEPT ![c] = s],
           s.phase \in Receiving <=> sess[c].phase \in Receiving, sess[c].phase # "over",
           router' = router, cancels' = cancels
    PROVE  RouterOK'
<1>1. In(Receiving)' = In(Receiving)
  BY InMoves DEF TypeOK, In
<1>2. \A d \in router : RoutedOK(sess'[d])
  <2>1. /\ sess'[c] = s
        /\ \A d \in Client \ {c} : sess'[d] = sess[d]
    BY OneMoves DEF TypeOK
  <2> QED  BY <2>1 DEF TypeOK, RouterOK, RoutedOK
<1> QED  BY <1>1, <1>2 DEF RouterOK

\* A session moves, takes no lease, and no pool is registered.
LEMMA PoolKept ==
    ASSUME TypeOK, PoolOK, NEW c \in Client, NEW s \in Session,
           sess' = [sess EXCEPT ![c] = s],
           s.lease => sess[c].lease /\ s.pool = sess[c].pool,
           s.phase = "attach" => s.pool = pools, UsesPool(s) => pools # None,
           pools' = pools
    PROVE  PoolOK'
<1>1. /\ sess'[c] = s
      /\ \A d \in Client \ {c} : sess'[d] = sess[d]
  BY OneMoves DEF TypeOK
<1>2. Leased' \in SUBSET Leased /\ Leased \in SUBSET Client
  BY <1>1 DEF Leased
<1>3. Cardinality(Leased') <= Cardinality(Leased)
  BY <1>2, ClientSets, FS_Subset
<1>4. OnePoolPerKey'
  <2>1. Cardinality(Leased') \in Nat /\ Cardinality(Leased) \in Nat /\ PoolSize \in Nat
    BY <1>2, ClientSets, ServerAssumption
  <2> QED  BY <1>3, <2>1 DEF PoolOK, OnePoolPerKey, Leased
<1>5. \A d \in Client :
          /\ sess'[d].phase = "attach" \/ sess'[d].lease => sess'[d].pool = pools'
          /\ UsesPool(sess'[d]) => pools' # None
  BY <1>1 DEF PoolOK
<1> QED  BY <1>4, <1>5 DEF PoolOK, UsesPool

\* Every session is still in order if the one that moved is.
LEMMA SessionsKept ==
    ASSUME TypeOK, SessionsOK, NEW c \in Client, NEW s \in Session, SessionOK(s),
           sess' = [sess EXCEPT ![c] = s]
    PROVE  sess' \in [Client -> Session] /\ SessionsOK'
<1>1. /\ sess' \in [Client -> Session]
      /\ sess'[c] = s
      /\ \A d \in Client \ {c} : sess'[d] = sess[d]
  BY OneMoves DEF TypeOK
<1>2. SessionsOK' <=> \A d \in Client : SessionOK(sess'[d])
  BY DEF SessionsOK, SessionOK
<1>3. ASSUME NEW d \in Client  PROVE SessionOK(sess'[d])
  <2>1. CASE d = c  BY <1>1, <2>1
  <2>2. CASE d # c  BY <1>1, <2>2 DEF SessionsOK
  <2> QED  BY <2>1, <2>2
<1> QED  BY <1>1, <1>2, <1>3

\* A task goes on: it runs before and after, keeps its pid, does not begin or cease to
\* listen to cancels, and leaves the pools in order.
LEMMA GoesOnPools ==
    ASSUME IInv, NEW c \in Client, NEW s \in Session, SessionOK(s),
           sess' = [sess EXCEPT ![c] = s],
           sess[c].phase \in Running, s.phase \in Running, s.pid = sess[c].pid,
           s.phase \in Registered <=> sess[c].phase \in Registered,
           s.phase \in Receiving <=> sess[c].phase \in Receiving,
           UNCHANGED <<loopVars, registries, stopVars, env>>,
           pools' \in Client \cup {None}, PoolOK'
    PROVE  IInv'
<1> USE DEF IInv
<1>1. TypeOK' /\ SessionsOK'
  <2>1. sess' \in [Client -> Session] /\ SessionsOK'
    BY SessionsKept, Zenon
  <2> QED  BY <2>1 DEF TypeOK, loopVars, registries, stopVars
<1>2. LoopOK'
  BY LoopKept, Zenon
<1>3. RegistryOK'
  <2>1. runtime' = runtime /\ env'.collide = env.collide
    BY DEF registries
  <2> QED  BY <2>1, RegistryKept, Zenon
<1>4. RouterOK'
  <2>1. router' = router /\ cancels' = cancels /\ sess[c].phase # "over"
    BY DEF registries, Running
  <2> QED  BY <2>1, RouterKept, Zenon
<1> QED  BY <1>1, <1>2, <1>3, <1>4

\* A task goes on and takes no lease.
LEMMA GoesOnIInv ==
    ASSUME IInv, NEW c \in Client, NEW s \in Session, SessionOK(s),
           sess' = [sess EXCEPT ![c] = s],
           sess[c].phase \in Running, s.phase \in Running, s.pid = sess[c].pid,
           s.phase \in Registered <=> sess[c].phase \in Registered,
           s.phase \in Receiving <=> sess[c].phase \in Receiving,
           s.lease => sess[c].lease /\ s.pool = sess[c].pool,
           s.phase = "attach" => s.pool = pools, UsesPool(s) => pools # None,
           UNCHANGED <<loopVars, registries, pools, stopVars, env>>
    PROVE  IInv'
<1>1. PoolOK' /\ pools' \in Client \cup {None}
  BY PoolKept, Zenon DEF IInv, TypeOK
<1> QED  BY <1>1, GoesOnPools, Zenon

-----------------------------------------------------------------------------
(***************************************************************************)
(* The inductive step, one lemma per action or group of actions.           *)
(***************************************************************************)

\* get_or_create under the read lock.
LEMMA LookupIInv ==
    ASSUME IInv, NEW c \in Client, Lookup(c)
    PROVE  IInv'
<1> DEFINE s == [sess[c] EXCEPT !.pool = pools,
                                !.phase = IF pools = None THEN "create" ELSE "attach"]
<1>1. sess[c] \in Session /\ sess[c].phase = "lookup" /\ SessionOK(sess[c])
  BY DEF Lookup, IInv, TypeOK, SessionsOK
<1>2. /\ sess' = [sess EXCEPT ![c] = s]
      /\ UNCHANGED <<loopVars, registries, pools, stopVars, env>>
  BY DEF Lookup
<1>3. s \in Session
  BY <1>1, ZenonT(30) DEF Session, Running, IInv, TypeOK
<1>4. /\ s.phase \in {"create", "attach"} /\ s.pid = sess[c].pid /\ s.kind = sess[c].kind /\ s.lease = sess[c].lease
      /\ s.attached = sess[c].attached /\ s.busy = sess[c].busy
      /\ s.phase = "attach" => s.pool = pools /\ pools # None
  BY <1>1 DEF Session
<1> HIDE DEF s
<1>5. SessionOK(s) /\ ~s.lease
  BY <1>1, <1>3, <1>4 DEF SessionOK, Session, Registered, Running
<1> QED
  BY <1>1, <1>2, <1>3, <1>4, <1>5, GoesOnIInv, Zenon DEF Running, Registered, Receiving, UsesPool

\* A pump that serves goes on, with no lease it did not have.
LEMMA PumpGoesOnIInv ==
    ASSUME IInv, NEW c \in Client, sess[c].phase = "serve", NEW s \in Session,
           PumpGoesOn(c, s), s.phase \in {"serve", "checkout"},
           s.pid = sess[c].pid /\ s.kind = sess[c].kind, s.pool = sess[c].pool, s.lease => sess[c].lease,
           s.attached => s.lease, s.busy => s.lease, s.lease => s.phase = "serve"
    PROVE  IInv'
<1>1. sess[c] \in Session /\ SessionOK(sess[c])
  BY DEF IInv, TypeOK, SessionsOK
<1>2. SessionOK(s)
  BY <1>1 DEF SessionOK, Registered, Running
<1>3. /\ sess' = [sess EXCEPT ![c] = s]
      /\ UNCHANGED <<loopVars, registries, pools, stopVars, env>>
  BY DEF PumpGoesOn
<1>4. pools # None
  BY DEF IInv, PoolOK, UsesPool
<1> QED  BY <1>2, <1>3, <1>4, GoesOnIInv, Zenon DEF Running, Registered, Receiving

\* The next query is forwarded, or needs an attach.
LEMMA QueryIInv ==
    ASSUME IInv, NEW c \in Client, Query(c)
    PROVE  IInv'
<1> DEFINE s == IF sess[c].lease THEN [sess[c] EXCEPT !.busy = TRUE]
                                 ELSE [sess[c] EXCEPT !.phase = "checkout"]
<1>1. /\ sess[c] \in Session /\ sess[c].phase = "serve" /\ SessionOK(sess[c]) /\ ~sess[c].busy
      /\ PumpGoesOn(c, s)
  BY DEF Query, IInv, TypeOK, SessionsOK
<1>2. s \in Session /\ s.phase \in {"serve", "checkout"} /\ s.pid = sess[c].pid /\ s.kind = sess[c].kind
      /\ s.pool = sess[c].pool /\ s.lease = sess[c].lease /\ s.attached = sess[c].attached
      /\ (s.busy => s.lease) /\ (s.lease => s.phase = "serve")
  BY <1>1, Zenon DEF Session, Running
<1> HIDE DEF s
<1> QED  BY <1>1, <1>2, PumpGoesOnIInv DEF SessionOK

\* A scatter failed.
LEMMA ScatterFailsIInv ==
    ASSUME IInv, NEW c \in Client, NEW broken \in BOOLEAN, ScatterFails(c, broken)
    PROVE  IInv'
<1> DEFINE s == [sess[c] EXCEPT !.lease = @ /\ ~broken, !.attached = FALSE]
<1>1. /\ sess[c] \in Session /\ sess[c].phase = "serve" /\ SessionOK(sess[c]) /\ ~sess[c].busy
      /\ PumpGoesOn(c, s)
  BY DEF ScatterFails, IInv, TypeOK, SessionsOK
<1>2. s \in Session /\ s.phase = "serve" /\ s.pid = sess[c].pid /\ s.kind = sess[c].kind /\ s.pool = sess[c].pool
      /\ (s.lease => sess[c].lease) /\ ~s.attached /\ ~s.busy
  BY <1>1, ZenonT(30) DEF Session, Running
<1> HIDE DEF s
<1> QED  BY <1>1, <1>2, PumpGoesOnIInv

\* The client leaves.
LEMMA ClientGoesIInv ==
    ASSUME IInv, NEW c \in Client, ClientGoes(c)
    PROVE  IInv'
<1> DEFINE s == [sess[c] EXCEPT !.gone = TRUE]
<1>1. /\ sess[c] \in Session /\ SessionOK(sess[c]) /\ sess[c].phase \in Running
      /\ sess' = [sess EXCEPT ![c] = s]
      /\ UNCHANGED <<loopVars, registries, pools, stopVars, env>>
  BY DEF ClientGoes, IInv, TypeOK, SessionsOK
<1>2. s \in Session /\ s.phase = sess[c].phase /\ s.pid = sess[c].pid /\ s.kind = sess[c].kind /\ s.pool = sess[c].pool
      /\ s.lease = sess[c].lease /\ s.attached = sess[c].attached /\ s.busy = sess[c].busy
      /\ s.why = sess[c].why
  BY <1>1, Zenon DEF Session
<1> HIDE DEF s
<1>3. SessionOK(s)
  BY <1>1, <1>2 DEF SessionOK
<1>4. (s.phase = "attach" => s.pool = pools) /\ (UsesPool(s) => pools # None)
  BY <1>2 DEF IInv, PoolOK, UsesPool
<1> QED  BY <1>1, <1>2, <1>3, <1>4, GoesOnIInv, Zenon

\* The pump returned: the router forgets the session.
LEMMA PumpEndsIInv ==
    ASSUME IInv, NEW c \in Client, sess[c].phase \in {"serve", "checkout"}, NEW s \in Session,
           NEW why, PumpEnds(c, s, why),
           s.pid = sess[c].pid /\ s.kind = sess[c].kind, s.pool = sess[c].pool, s.lease => sess[c].lease,
           s.attached => s.lease, s.busy => s.lease, s.busy => why \in {"client", "upstream"}
    PROVE  IInv'
<1> DEFINE w == IF s.busy THEN why ELSE None
           t == [s EXCEPT !.phase = "closing", !.draining = FALSE, !.why = w]
<1>1. /\ sess[c] \in Session /\ SessionOK(sess[c]) /\ sess \in [Client -> Session]
      /\ sess' = [sess EXCEPT ![c] = t]
      /\ router' = router \ {c} /\ cancels' = cancels \ {c}
      /\ UNCHANGED <<loopVars, runtime, pools, stopVars, env>>
  BY DEF PumpEnds, IInv, TypeOK, SessionsOK
<1>2. /\ t \in Session /\ t.phase = "closing" /\ t.pid = s.pid /\ t.kind = s.kind /\ t.pool = s.pool
      /\ t.lease = s.lease /\ t.attached = s.attached /\ t.busy = s.busy
      /\ t.busy => t.why \in {"client", "upstream"}
  <2>1. w \in {None, "client", "upstream"} /\ (s.busy => w \in {"client", "upstream"})
    OBVIOUS
  <2> HIDE DEF w
  <2> QED  BY <2>1, ZenonT(30) DEF Session, Running
<1> HIDE DEF t
<1>3. SessionOK(t)
  BY <1>1, <1>2 DEF SessionOK, Registered, Running
<1>4. TypeOK' /\ SessionsOK'
  <2>1. sess' \in [Client -> Session] /\ SessionsOK'
    BY <1>1, <1>2, <1>3, SessionsKept, Zenon DEF IInv
  <2>2. router' \subseteq router /\ cancels' \subseteq cancels
    BY <1>1
  <2>3. UNCHANGED <<loopVars, runtime, pools, stopVars, env>>
    BY <1>1
  <2> QED  BY <2>1, <2>2, <2>3 DEF IInv, TypeOK, loopVars, stopVars
<1>5. LoopOK'
  BY <1>1, <1>2, LoopKept, Zenon DEF IInv, Running
<1>6. RegistryOK'
  BY <1>1, <1>2, RegistryKept, Zenon DEF IInv, Registered, Running
<1>7. RouterOK'
  <2>1. In(Receiving)' = In(Receiving) \ {c}
    <3>1. t.phase \notin Receiving
      BY <1>2 DEF Receiving
    <3> QED  BY <1>1, <1>2, <3>1, InMoves, ZenonT(30)
  <2>2. \A d \in Client \ {c} : sess'[d] = sess[d]
    BY <1>1, <1>2, OneMoves
  <2>3. \A d \in router' : RoutedOK(sess'[d])
    BY <1>1, <2>2 DEF IInv, TypeOK, RouterOK
  <2> QED  BY <1>1, <2>1, <2>3 DEF IInv, RouterOK
<1>8. PoolOK'
  <2>1. UsesPool(t) => pools # None
    BY <1>2 DEF IInv, PoolOK, UsesPool
  <2> QED  BY <1>1, <1>2, <2>1, PoolKept, Zenon DEF IInv
<1> QED  BY <1>4, <1>5, <1>6, <1>7, <1>8 DEF IInv

\* The pump's steps that may end it.
LEMMA CheckoutFailsIInv ==
    ASSUME IInv, NEW c \in Client, CheckoutFails(c)
    PROVE  IInv'
<1>1. /\ sess[c] \in Session /\ SessionOK(sess[c]) /\ sess[c].phase = "checkout"
      /\ PumpEnds(c, sess[c], "failed")
  BY DEF CheckoutFails, IInv, TypeOK, SessionsOK
<1>2. ~sess[c].busy
  BY <1>1 DEF SessionOK
<1> QED  BY <1>1, <1>2, PumpEndsIInv DEF SessionOK

\* The pump sees that its client left.
LEMMA SeeEofIInv ==
    ASSUME IInv, NEW c \in Client, SeeEof(c)
    PROVE  IInv'
<1>1. /\ sess[c] \in Session /\ SessionOK(sess[c]) /\ sess[c].phase = "serve"
      /\ PumpEnds(c, sess[c], "client")
  BY DEF SeeEof, IInv, TypeOK, SessionsOK
<1> QED  BY <1>1, PumpEndsIInv DEF SessionOK

\* The pump sees the shutdown signal.
LEMMA SeeSignalIInv ==
    ASSUME IInv, NEW c \in Client, SeeSignal(c)
    PROVE  IInv'
<1>1. sess[c] \in Session /\ SessionOK(sess[c]) /\ sess[c].phase = "serve"
  BY DEF SeeSignal, IInv, TypeOK, SessionsOK
<1>2. CASE sess[c].busy
  <2> DEFINE s == [sess[c] EXCEPT !.draining = TRUE]
  <2>1. PumpGoesOn(c, s)
    BY <1>2 DEF SeeSignal
  <2>2. s \in Session /\ s.phase = "serve" /\ s.pid = sess[c].pid /\ s.kind = sess[c].kind /\ s.pool = sess[c].pool
        /\ s.lease = sess[c].lease /\ s.attached = sess[c].attached /\ s.busy = sess[c].busy
    BY <1>1, Zenon DEF Session
  <2> HIDE DEF s
  <2> QED  BY <1>1, <2>1, <2>2, PumpGoesOnIInv DEF SessionOK
<1>3. CASE ~sess[c].busy
  <2>1. PumpEnds(c, sess[c], "signal")
    BY <1>3 DEF SeeSignal
  <2> QED  BY <1>1, <1>3, <2>1, PumpEndsIInv DEF SessionOK
<1> QED  BY <1>2, <1>3

\* A query ends and the session goes on or returns its lease.
LEMMA QueryEndsIInv ==
    ASSUME IInv, NEW c \in Client, NEW inTransaction \in BOOLEAN, QueryEnds(c, inTransaction)
    PROVE  IInv'
<1>1. sess[c] \in Session /\ SessionOK(sess[c]) /\ sess[c].phase = "serve" /\ sess[c].busy
  BY DEF QueryEnds, IInv, TypeOK, SessionsOK
<1>2. CASE sess[c].draining
  <2> DEFINE s == [sess[c] EXCEPT !.busy = FALSE]
  <2>1. PumpEnds(c, s, "drained")
    BY <1>2 DEF QueryEnds
  <2>2. s \in Session /\ s.pid = sess[c].pid /\ s.kind = sess[c].kind /\ s.pool = sess[c].pool /\ ~s.busy
        /\ s.lease = sess[c].lease /\ s.attached = sess[c].attached
    BY <1>1, Zenon DEF Session
  <2> HIDE DEF s
  <2> QED  BY <1>1, <2>1, <2>2, PumpEndsIInv DEF SessionOK
<1>3. CASE ~sess[c].draining
  <2> DEFINE keep == env.sessionMode \/ inTransaction
             a == sess[c].attached /\ keep
             s == [sess[c] EXCEPT !.busy = FALSE, !.lease = keep, !.attached = a]
  <2>1. PumpGoesOn(c, s)
    BY <1>3 DEF QueryEnds
  <2>2. env.sessionMode \in BOOLEAN /\ sess[c].attached \in BOOLEAN
    BY <1>1 DEF IInv, TypeOK, Setup, Session
  <2>3. keep \in BOOLEAN /\ a \in BOOLEAN /\ (a => keep)
    BY <2>2
  <2> HIDE DEF keep, a
  <2>4. s \in Session /\ s.phase = "serve" /\ s.pid = sess[c].pid /\ s.kind = sess[c].kind /\ s.pool = sess[c].pool
        /\ ~s.busy /\ s.lease = keep /\ s.attached = a
    BY <1>1, <2>3, ZenonT(30) DEF Session
  <2> HIDE DEF s
  <2>5. (s.lease => sess[c].lease) /\ (s.attached => s.lease) /\ ~s.busy
    BY <1>1, <2>3, <2>4 DEF SessionOK
  <2> QED  BY <1>1, <2>1, <2>4, <2>5, PumpGoesOnIInv
<1> QED  BY <1>2, <1>3

\* The upstream connection is lost under a query.
LEMMA UpstreamLostIInv ==
    ASSUME IInv, NEW c \in Client, NEW relink \in BOOLEAN, UpstreamLost(c, relink)
    PROVE  IInv'
<1>1. sess[c] \in Session /\ SessionOK(sess[c]) /\ sess[c].phase = "serve"
  BY DEF UpstreamLost, IInv, TypeOK, SessionsOK
<1>2. CASE relink
  <2> DEFINE s == [sess[c] EXCEPT !.busy = FALSE, !.lease = FALSE, !.attached = FALSE]
  <2>1. PumpGoesOn(c, s)
    BY <1>2 DEF UpstreamLost
  <2>2. s \in Session /\ s.phase = "serve" /\ s.pid = sess[c].pid /\ s.kind = sess[c].kind /\ s.pool = sess[c].pool
        /\ ~s.busy /\ ~s.lease /\ ~s.attached
    BY <1>1, Zenon DEF Session
  <2> HIDE DEF s
  <2> QED  BY <1>1, <2>1, <2>2, PumpGoesOnIInv
<1>3. CASE ~relink
  <2>1. PumpEnds(c, sess[c], "upstream")
    BY <1>3 DEF UpstreamLost
  <2> QED  BY <1>1, <2>1, PumpEndsIInv DEF SessionOK
<1> QED  BY <1>2, <1>3

\* What a session becomes when its task ends.
OverSession(c, why) == [NoSession EXCEPT !.phase = "over", !.pid = sess[c].pid, !.why = why]

\* The record of an ended session is a session, and its own facts hold.
LEMMA OverIsSession ==
    ASSUME TypeOK, NEW c \in Client, NEW why \in {None, "abort", "panic"}
    PROVE  LET s == OverSession(c, why) IN
           /\ s \in Session /\ s.phase = "over" /\ s.pid = sess[c].pid /\ s.why = why
           /\ ~s.lease /\ ~s.attached /\ ~s.busy
<1>1. sess[c].pid \in Client \cup {None}
  BY DEF TypeOK, Session
<1> QED  BY <1>1, Zenon DEF OverSession, NoSession, Session, Running

\* A running task ends, whatever it was doing: its slot comes back, its guard takes it
\* out of the registry, its lease goes.
LEMMA EndsIInv ==
    ASSUME IInv, NEW c \in Client, sess[c].phase \in Running,
           NEW why \in {None, "abort", "panic"}, Ends(c, why),
           env' \in Setup, env'.collide = env.collide,
           router' \in SUBSET Client, cancels' \in SUBSET Client, RouterOK'
    PROVE  IInv'
<1> DEFINE s == OverSession(c, why)
<1>1. /\ sess \in [Client -> Session] /\ sess[c] \in Session /\ SessionOK(sess[c])
      /\ sess' = [sess EXCEPT ![c] = s]
      /\ runtime' = {d \in runtime : sess[d].pid # sess[c].pid}
      /\ free' = free + 1
      /\ UNCHANGED <<loop, backlog, joinset, aborting, pools, stopVars>>
  BY DEF Ends, OverSession, IInv, TypeOK, SessionsOK
<1>2. /\ s \in Session /\ s.phase = "over" /\ s.pid = sess[c].pid
      /\ ~s.lease /\ ~s.attached /\ ~s.busy
  BY OverIsSession DEF IInv
<1> HIDE DEF s
<1>3. SessionOK(s)
  BY <1>2 DEF SessionOK, Registered, Running
<1>4. sess'[c] = s /\ \A d \in Client \ {c} : sess'[d] = sess[d]
  BY <1>1, <1>2, OneMoves
<1>5. sess' \in [Client -> Session] /\ SessionsOK'
  BY <1>1, <1>2, <1>3, SessionsKept, Zenon DEF IInv
<1>6. In(Running)' = In(Running) \ {c} /\ In(Registered)' = In(Registered) \ {c}
  <2>1. s.phase \notin Running /\ s.phase \notin Registered
    BY <1>2 DEF Running, Registered
  <2> QED  BY <1>1, <1>2, <2>1, InMoves, Zenon
<1>7. /\ Cardinality(In(Running)') = Cardinality(In(Running)) - 1
      /\ Cardinality(In(Running)) \in Nat /\ Cardinality(In(Running)) > 0
  <2>1. In(Running) \in SUBSET Client /\ c \in In(Running)
    BY DEF In
  <2> QED  BY <1>6, <2>1, OneMore, ClientSets
<1>8. SlotsConserved' /\ free' \in 0 .. MaxConn
  <2>1. free \in 0 .. MaxConn /\ MaxConn \in Nat
    BY ServerAssumption DEF IInv, TypeOK
  <2>2. free + Cardinality(In(Running)) + (IF loop = "accept" THEN 1 ELSE 0) = MaxConn
    BY DEF IInv, LoopOK, SlotsConserved
  <2>3. free' + Cardinality(In(Running)') + (IF loop' = "accept" THEN 1 ELSE 0) = MaxConn
    BY <1>1, <1>7, <2>1, <2>2
  <2>4. free' \in 0 .. MaxConn
    BY <1>1, <1>7, <2>1, <2>2
  <2> QED  BY <2>3, <2>4 DEF SlotsConserved
<1>9. TypeOK'
  <2>1. runtime' \subseteq runtime
    BY <1>1
  <2>2. UNCHANGED <<loop, backlog, joinset, aborting, pools, stopVars>>
    BY <1>1
  <2> QED  BY <1>5, <1>8, <2>1, <2>2 DEF IInv, TypeOK, stopVars
<1>10. LoopOK'
  <2>1. BacklogOK'
    BY <1>1, <1>4 DEF IInv, LoopOK, BacklogOK, TypeOK, Running
  <2>2. JoinOK'
    BY <1>1, <1>6 DEF IInv, LoopOK, JoinOK
  <2> QED  BY <1>8, <2>1, <2>2 DEF LoopOK
<1>11. RegistryOK'
  <2>1. \A d \in Client : sess'[d].pid = sess[d].pid
    BY <1>2, <1>4
  <2>2. runtime' \subseteq In(Registered)'
    BY <1>1, <1>6 DEF IInv, RegistryOK
  <2>3. ASSUME ~env.collide, NEW d \in In(Registered)'  PROVE d \in runtime'
    <3>1. d \in runtime /\ d # c /\ d \in Client /\ sess[d].phase \in Registered
      BY <1>6, <2>3 DEF IInv, RegistryOK, In
    <3>2. sess[d].pid \in {None, d} /\ sess[c].pid \in {None, c}
      BY <2>3, <3>1 DEF IInv, RegistryOK
    <3>3. sess[d].pid # None
      BY <3>1 DEF IInv, SessionsOK, SessionOK
    <3> QED  BY <1>1, <3>1, <3>2, <3>3
  <2>4. ~env.collide => /\ runtime' = In(Registered)'
                        /\ \A d \in Client : sess'[d].pid \in {None, d}
    BY <2>1, <2>2, <2>3, Zenon DEF IInv, RegistryOK
  <2> QED  BY <2>2, <2>4 DEF RegistryOK
<1>12. PoolOK'
  BY <1>1, <1>2, PoolKept, Zenon DEF IInv, UsesPool
<1> QED  BY <1>5, <1>9, <1>10, <1>11, <1>12 DEF IInv

\* What the router may keep of a session whose task ends.
LEMMA RouterEnds ==
    ASSUME TypeOK, RouterOK, NEW c \in Client, NEW why \in {None, "abort", "panic"},
           sess' = [sess EXCEPT ![c] = OverSession(c, why)],
           router' \subseteq router, router \ {c} \subseteq router',
           c \in router' => why \in {"abort", "panic"},
           cancels' \subseteq (cancels \cup In(Receiving)) \ {c}
    PROVE  RouterOK' /\ router' \in SUBSET Client /\ cancels' \in SUBSET Client
<1> DEFINE s == OverSession(c, why)
<1>1. s \in Session /\ s.phase = "over" /\ s.why = why
  BY OverIsSession
<1>2. sess' = [sess EXCEPT ![c] = s]
  OBVIOUS
<1> HIDE DEF s
<1>3. sess'[c] = s /\ \A d \in Client \ {c} : sess'[d] = sess[d]
  BY <1>1, <1>2, OneMoves DEF TypeOK
<1>4. In(Receiving)' = In(Receiving) \ {c}
  <2>1. s.phase \notin Receiving
    BY <1>1 DEF Receiving
  <2> QED  BY <1>1, <1>2, <2>1, InMoves, Zenon DEF TypeOK
<1>5. \A d \in router' : RoutedOK(sess'[d])
  BY <1>1, <1>3 DEF TypeOK, RouterOK, RoutedOK
<1>6. In(Receiving) \subseteq Client
  BY DEF In
<1> QED  BY <1>4, <1>5, <1>6 DEF RouterOK, TypeOK

\* A task ends that no cancel can reach: before the keys are sent, or after its pump.
LEMMA QuietEndIInv ==
    ASSUME IInv, NEW c \in Client, sess[c].phase \in Running \ Receiving,
           Ends(c, None), UNCHANGED <<router, cancels, env>>
    PROVE  IInv'
<1>1. c \notin router /\ c \notin cancels
  BY DEF IInv, RouterOK, RoutedOK, In, Running
<1>2. RouterOK' /\ router' \in SUBSET Client /\ cancels' \in SUBSET Client
  <2>1. sess' = [sess EXCEPT ![c] = OverSession(c, None)]
    BY DEF Ends, OverSession
  <2>2. /\ router' \subseteq router /\ router \ {c} \subseteq router' /\ c \notin router'
        /\ cancels' \subseteq (cancels \cup In(Receiving)) \ {c}
    BY <1>1
  <2> QED  BY <2>1, <2>2, RouterEnds, Zenon DEF IInv
<1>3. env' \in Setup /\ env'.collide = env.collide
  BY DEF IInv, TypeOK
<1> QED  BY <1>2, <1>3, EndsIInv

\* No startup, a failed attach, a failed authentication, the end after the pump.
LEMMA QuietEnds ==
    ASSUME IInv, NEW c \in Client,
           Refuse(c) \/ AttachFails(c) \/ AuthenticateFails(c) \/ Close(c)
    PROVE  IInv'
<1>1. /\ sess[c].phase \in {"hello", "attach", "auth", "closing"}
      /\ Ends(c, None) /\ UNCHANGED <<router, cancels, env>>
  BY DEF Refuse, AttachFails, AuthenticateFails, Close
<1> QED  BY <1>1, QuietEndIInv DEF Running, Receiving

\* A cancel request reaches a session that listens, or none.
LEMMA CancelIInv ==
    ASSUME IInv, NEW c \in Client, Cancel(c)
    PROVE  IInv'
<1>1. /\ sess[c].phase = "hello" /\ Ends(c, None) /\ UNCHANGED <<router, env>>
      /\ cancels' = cancels \cup ({sess[c].target} \cap router \cap In(Receiving))
  BY DEF Cancel
<1>2. c \notin router /\ c \notin cancels /\ c \notin In(Receiving)
  BY <1>1 DEF IInv, RouterOK, RoutedOK, In, Receiving
<1>3. RouterOK' /\ router' \in SUBSET Client /\ cancels' \in SUBSET Client
  <2>1. sess' = [sess EXCEPT ![c] = OverSession(c, None)]
    BY <1>1 DEF Ends, OverSession
  <2>2. cancels' \subseteq (cancels \cup In(Receiving)) \ {c}
    BY <1>1, <1>2
  <2> QED  BY <1>1, <1>2, <2>1, <2>2, RouterEnds, Zenon DEF IInv
<1>4. env' \in Setup /\ env'.collide = env.collide /\ sess[c].phase \in Running
  BY <1>1 DEF IInv, TypeOK, Running
<1> QED  BY <1>1, <1>3, <1>4, EndsIInv

\* The admin console unregisters before its task ends.
LEMMA AdminEndsIInv ==
    ASSUME IInv, NEW c \in Client, AdminEnds(c)
    PROVE  IInv'
<1>1. /\ sess[c].phase = "admin" /\ Ends(c, None) /\ env' = env
      /\ router' = router \ {c} /\ cancels' = cancels \ {c}
  BY DEF AdminEnds
<1>2. RouterOK' /\ router' \in SUBSET Client /\ cancels' \in SUBSET Client
  <2>1. sess' = [sess EXCEPT ![c] = OverSession(c, None)]
    BY <1>1 DEF Ends, OverSession
  <2> QED  BY <1>1, <2>1, RouterEnds, Zenon DEF IInv
<1>3. env' \in Setup /\ env'.collide = env.collide /\ sess[c].phase \in Running
  BY <1>1 DEF IInv, TypeOK, Running
<1> QED  BY <1>1, <1>2, <1>3, EndsIInv

\* A task is dropped: the router keeps what it knew.
LEMMA DroppedIInv ==
    ASSUME IInv, NEW c \in Client, Abort(c) \/ Panic(c)
    PROVE  IInv'
<1>1. PICK why \in {"abort", "panic"} : Dropped(c, why)
  BY DEF Abort, Panic
<1>2. sess[c].phase \in Running
  BY DEF Abort, Panic, Running
<1>3. env' \in Setup /\ env'.collide = env.collide
  <2>1. CASE Abort(c)
    BY <2>1 DEF Abort, IInv, TypeOK
  <2>2. CASE Panic(c)
    <3>1. env \in Setup /\ env.panics > 0 /\ env' = [env EXCEPT !.panics = @ - 1]
      BY <2>2 DEF Panic, IInv, TypeOK
    <3>2. env.panics \in 0 .. MaxFaults /\ env.panics - 1 \in 0 .. MaxFaults
      BY <3>1, ServerAssumption DEF Setup
    <3> QED  BY <3>1, <3>2 DEF Setup
  <2> QED  BY <2>1, <2>2
<1>4. Ends(c, why) /\ cancels' = cancels \ {c} /\ router' = router
  BY <1>1 DEF Dropped
<1>5. RouterOK' /\ router' \in SUBSET Client /\ cancels' \in SUBSET Client
  <2>1. sess' = [sess EXCEPT ![c] = OverSession(c, why)]
    BY <1>4 DEF Ends, OverSession
  <2> QED  BY <1>4, <2>1, RouterEnds, Zenon DEF IInv
<1> QED  BY <1>2, <1>3, <1>4, <1>5, EndsIInv

\* The session registers under a pid it draws; without collisions it is its own.
LEMMA RegisterIInv ==
    ASSUME IInv, NEW c \in Client, Register(c)
    PROVE  IInv'
<1>1. sess[c] \in Session /\ SessionOK(sess[c]) /\ sess[c].phase = "hello"
      /\ sess \in [Client -> Session]
  BY DEF Register, IInv, TypeOK, SessionsOK
<1>2. PICK p \in {c} \cup (IF env.collide THEN {sess[d].pid : d \in In(Registered)} ELSE {}) :
          sess' = [sess EXCEPT ![c] = [sess[c] EXCEPT !.pid = p, !.phase =
                         IF sess[c].kind = "admin" THEN "auth" ELSE "lookup"]]
  BY Zenon DEF Register
<1>3. runtime' = runtime \cup {c} /\ UNCHANGED <<loopVars, router, cancels, pools, stopVars, env>>
  BY DEF Register
<1> DEFINE s == [sess[c] EXCEPT !.pid = p, !.phase =
                         IF sess[c].kind = "admin" THEN "auth" ELSE "lookup"]
<1>4. p \in Client /\ (~env.collide => p = c)
  <2>1. CASE p = c  BY <2>1
  <2>2. CASE p # c
    <3>1. PICK d \in In(Registered) : p = sess[d].pid
      BY <1>2, <2>2
    <3>2. d \in Client /\ sess[d] \in Session /\ sess[d].phase \in Registered
      BY <1>1, <3>1 DEF In
    <3>3. sess[d].pid # None
      BY <3>2 DEF IInv, SessionsOK, SessionOK
    <3> QED  BY <1>2, <2>2, <3>1, <3>2, <3>3 DEF Session
  <2> QED  BY <2>1, <2>2
<1>5. /\ s \in Session /\ s.phase \in {"auth", "lookup"} /\ s.pid = p /\ s.lease = sess[c].lease
      /\ s.attached = sess[c].attached /\ s.busy = sess[c].busy
      /\ s.kind = sess[c].kind /\ (s.kind = "admin" <=> s.phase = "auth")
  BY <1>1, <1>4, ZenonT(30) DEF Session, Running
<1>6. sess' = [sess EXCEPT ![c] = s]
  BY <1>2
<1> HIDE DEF s
<1>7. SessionOK(s) /\ ~s.lease
  <2>1. p # None
    BY <1>4, ServerAssumption
  <2> QED  BY <1>1, <1>5, <2>1 DEF SessionOK, Registered, Running
<1>8. TypeOK' /\ SessionsOK'
  <2>1. sess' \in [Client -> Session] /\ SessionsOK'
    BY <1>5, <1>6, <1>7, SessionsKept, ZenonT(30) DEF IInv
  <2>2. runtime' \subseteq Client
    BY <1>3 DEF IInv, TypeOK
  <2> QED  BY <1>3, <2>1, <2>2 DEF IInv, TypeOK, loopVars, stopVars
<1>9. LoopOK'
  BY <1>1, <1>3, <1>5, <1>6, LoopKept, Zenon DEF IInv, Running
<1>10. RegistryOK'
  <2>1. In(Registered)' = In(Registered) \cup {c}
    <3>1. s.phase \in Registered
      BY <1>5 DEF Registered, Running
    <3> QED  BY <1>1, <1>5, <1>6, <3>1, InMoves, Zenon
  <2>2. sess'[c] = s /\ \A d \in Client \ {c} : sess'[d] = sess[d]
    BY <1>1, <1>5, <1>6, OneMoves
  <2>3. ~env.collide => \A d \in Client : sess'[d].pid \in {None, d}
    BY <1>4, <1>5, <2>2 DEF IInv, RegistryOK
  <2> QED  BY <1>3, <2>1, <2>3, Zenon DEF IInv, RegistryOK
<1>11. RouterOK'
  BY <1>1, <1>3, <1>5, <1>6, RouterKept, Zenon DEF IInv, Receiving
<1>12. PoolOK'
  BY <1>3, <1>5, <1>6, <1>7, PoolKept, Zenon DEF IInv, UsesPool
<1> QED  BY <1>8, <1>9, <1>10, <1>11, <1>12 DEF IInv

\* finish_authentication: the router learns the session as it begins to listen.
LEMMA AuthenticateIInv ==
    ASSUME IInv, NEW c \in Client, Authenticate(c)
    PROVE  IInv'
<1> DEFINE s == [sess[c] EXCEPT !.phase = IF sess[c].kind = "admin" THEN "admin" ELSE "serve"]
<1>1. /\ sess \in [Client -> Session] /\ sess[c] \in Session /\ SessionOK(sess[c])
      /\ sess[c].phase = "auth"
      /\ sess' = [sess EXCEPT ![c] = s] /\ router' = router \cup {c}
      /\ UNCHANGED <<loopVars, runtime, cancels, pools, stopVars, env>>
  BY DEF Authenticate, IInv, TypeOK, SessionsOK
<1>2. /\ s \in Session /\ s.phase \in {"admin", "serve"} /\ s.pid = sess[c].pid
      /\ s.pool = sess[c].pool /\ s.lease = sess[c].lease /\ s.attached = sess[c].attached
      /\ s.busy = sess[c].busy /\ s.kind = sess[c].kind
      /\ s.phase = "admin" <=> sess[c].kind = "admin"
  BY <1>1 DEF Session, Running
<1> HIDE DEF s
<1>3. SessionOK(s)
  BY <1>1, <1>2 DEF SessionOK, Registered, Running
<1>4. TypeOK' /\ SessionsOK'
  <2>1. sess' \in [Client -> Session] /\ SessionsOK'
    BY <1>1, <1>2, <1>3, SessionsKept, Zenon DEF IInv
  <2>2. router' \subseteq Client
    BY <1>1 DEF IInv, TypeOK
  <2> QED  BY <1>1, <2>1, <2>2 DEF IInv, TypeOK, loopVars, stopVars
<1>5. LoopOK'
  BY <1>1, <1>2, LoopKept, Zenon DEF IInv, Running
<1>6. RegistryOK'
  BY <1>1, <1>2, RegistryKept, Zenon DEF IInv, Registered, Running
<1>7. RouterOK'
  <2>1. s.phase \in Receiving
    BY <1>2 DEF Receiving
  <2>2. In(Receiving)' = In(Receiving) \cup {c}
    BY <1>1, <1>2, <2>1, InMoves, Zenon
  <2>3. sess'[c] = s /\ \A d \in Client \ {c} : sess'[d] = sess[d]
    BY <1>1, <1>2, OneMoves
  <2>4. \A d \in router' : RoutedOK(sess'[d])
    BY <1>1, <2>1, <2>3 DEF IInv, TypeOK, RouterOK, RoutedOK
  <2> QED  BY <1>1, <2>2, <2>4 DEF IInv, RouterOK
<1>8. PoolOK'
  <2>1. UsesPool(s) => pools # None
    BY <1>1, <1>2, <1>3 DEF IInv, PoolOK, UsesPool, SessionOK
  <2> QED  BY <1>1, <1>2, <2>1, PoolKept, Zenon DEF IInv
<1> QED  BY <1>4, <1>5, <1>6, <1>7, <1>8 DEF IInv

\* A session takes a lease of the registered pool while a permit is free.
LEMMA TakesLease ==
    ASSUME TypeOK, PoolOK, NEW c \in Client, NEW s \in Session,
           sess' = [sess EXCEPT ![c] = s], ~sess[c].lease, s.pool = pools,
           PermitFree(pools), pools # None, pools' = pools
    PROVE  PoolOK'
<1>1. sess'[c] = s /\ \A d \in Client \ {c} : sess'[d] = sess[d]
  BY OneMoves DEF TypeOK
<1>2. Leased = {d \in Client : sess[d].lease /\ sess[d].pool = pools}
  BY DEF PoolOK, Leased
<1>3. Cardinality(Leased) < PoolSize
  BY <1>2 DEF PermitFree
<1>4. Leased' \subseteq Leased \cup {c} /\ Leased \in SUBSET Client /\ c \notin Leased
  BY <1>1 DEF Leased
<1>5. Cardinality(Leased') <= Cardinality(Leased) + 1
  <2>1. IsFiniteSet(Leased \cup {c}) /\ Cardinality(Leased \cup {c}) = Cardinality(Leased) + 1
    BY <1>4, OneMore, ClientSets
  <2> QED  BY <1>4, <2>1, FS_Subset
<1>6. OnePoolPerKey'
  <2>1. Cardinality(Leased') \in Nat /\ Cardinality(Leased) \in Nat /\ PoolSize \in Nat
    <3>1. Leased' \in SUBSET Client
      BY DEF Leased
    <3> QED  BY <1>4, <3>1, ClientSets, ServerAssumption
  <2>2. Cardinality(Leased') <= PoolSize
    BY <1>3, <1>5, <2>1
  <2> QED  BY <2>2 DEF OnePoolPerKey, Leased
<1>7. \A d \in Client :
          /\ sess'[d].phase = "attach" \/ sess'[d].lease => sess'[d].pool = pools'
          /\ UsesPool(sess'[d]) => pools' # None
  BY <1>1 DEF PoolOK
<1> QED  BY <1>6, <1>7 DEF PoolOK, UsesPool

\* get_or_create under the write lock.
LEMMA CreateIInv ==
    ASSUME IInv, NEW c \in Client, Create(c)
    PROVE  IInv'
<1> DEFINE s == [sess[c] EXCEPT !.phase = "attach", !.pool = pools']
<1>1. /\ sess \in [Client -> Session] /\ sess[c] \in Session /\ SessionOK(sess[c])
      /\ sess[c].phase = "create" /\ pools \in Client \cup {None}
  BY DEF Create, IInv, TypeOK, SessionsOK
<1>2. /\ sess' = [sess EXCEPT ![c] = s] /\ pools' = IF pools = None THEN c ELSE pools
      /\ UNCHANGED <<loopVars, registries, stopVars, env>>
  BY DEF Create
<1>3. pools' \in Client /\ pools' # None
  BY <1>1, <1>2, ServerAssumption
<1>4. /\ s \in Session /\ s.phase = "attach" /\ s.pid = sess[c].pid /\ s.kind = sess[c].kind
      /\ s.pool = pools' /\ s.lease = sess[c].lease /\ s.attached = sess[c].attached
      /\ s.busy = sess[c].busy
  BY <1>1, <1>3, Zenon DEF Session, Running
<1> HIDE DEF s
<1>5. SessionOK(s) /\ ~s.lease
  BY <1>1, <1>4 DEF SessionOK, Registered, Running
<1>6. PoolOK'
  <2>1. CASE pools # None
    <3>1. pools' = pools
      BY <1>2, <2>1
    <3> QED  BY <1>2, <1>4, <1>5, <2>1, <3>1, PoolKept, Zenon DEF IInv
  <2>2. CASE pools = None
    <3>1. sess'[c] = s /\ \A d \in Client \ {c} : sess'[d] = sess[d]
      BY <1>1, <1>2, <1>4, OneMoves
    <3>2. \A d \in Client : ~sess[d].lease /\ sess[d].phase # "attach"
      BY <2>2 DEF IInv, PoolOK, UsesPool
    <3>3. \A d \in Client :
              /\ sess'[d].phase = "attach" \/ sess'[d].lease => sess'[d].pool = pools'
              /\ UsesPool(sess'[d]) => pools' # None
      BY <1>3, <1>4, <3>1, <3>2
    <3>4. {d \in Client : sess[d].lease} = {} /\ {d \in Client : sess'[d].lease} = {}
      BY <1>5, <3>1, <3>2
    <3>5. OnePoolPerKey'
      BY <3>4 DEF IInv, PoolOK, OnePoolPerKey
    <3> QED  BY <3>3, <3>5 DEF PoolOK, UsesPool
  <2> QED  BY <2>1, <2>2
<1> QED
  BY <1>1, <1>2, <1>3, <1>4, <1>5, <1>6, GoesOnPools, Zenon DEF Running, Registered, Receiving

\* The first attach: a lease in session mode, a probe in transaction mode.
LEMMA AttachIInv ==
    ASSUME IInv, NEW c \in Client, Attach(c)
    PROVE  IInv'
<1> DEFINE m == env.sessionMode
           s == [sess[c] EXCEPT !.phase = "auth", !.lease = m, !.attached = m]
<1>1. /\ sess \in [Client -> Session] /\ sess[c] \in Session /\ SessionOK(sess[c])
      /\ sess[c].phase = "attach" /\ m \in BOOLEAN
  BY DEF Attach, IInv, TypeOK, SessionsOK, Setup
<1>2. /\ sess' = [sess EXCEPT ![c] = s] /\ (m => PermitFree(sess[c].pool))
      /\ UNCHANGED <<loopVars, registries, pools, stopVars, env>>
  BY DEF Attach
<1> HIDE DEF m
<1>3. /\ s \in Session /\ s.phase = "auth" /\ s.pid = sess[c].pid /\ s.kind = sess[c].kind
      /\ s.pool = sess[c].pool /\ s.lease = m /\ s.attached = m /\ s.busy = sess[c].busy
  BY <1>1, ZenonT(30) DEF Session, Running
<1> HIDE DEF s
<1>4. SessionOK(s)
  BY <1>1, <1>3 DEF SessionOK, Registered, Running
<1>5. sess[c].pool = pools /\ pools # None /\ ~sess[c].lease
  BY <1>1 DEF IInv, PoolOK, UsesPool, SessionOK
<1>6. PoolOK'
  <2>1. CASE m
    BY <1>2, <1>3, <1>5, <2>1, TakesLease, Zenon DEF IInv
  <2>2. CASE ~m
    BY <1>2, <1>3, <1>5, <2>2, PoolKept, Zenon DEF IInv
  <2> QED  BY <2>1, <2>2
<1>7. pools' \in Client \cup {None}
  BY <1>2 DEF IInv, TypeOK
<1> QED
  BY <1>1, <1>2, <1>3, <1>4, <1>6, <1>7, GoesOnPools, Zenon DEF Running, Registered, Receiving

\* The pump attaches for a query.
LEMMA CheckoutIInv ==
    ASSUME IInv, NEW c \in Client, Checkout(c)
    PROVE  IInv'
<1> DEFINE s == [sess[c] EXCEPT !.phase = "serve", !.pool = pools, !.lease = TRUE,
                                !.attached = TRUE, !.busy = TRUE]
<1>1. /\ sess \in [Client -> Session] /\ sess[c] \in Session /\ SessionOK(sess[c])
      /\ sess[c].phase = "checkout" /\ PermitFree(pools) /\ pools \in Client \cup {None}
  BY DEF Checkout, IInv, TypeOK, SessionsOK
<1>2. /\ sess' = [sess EXCEPT ![c] = s]
      /\ UNCHANGED <<loopVars, registries, pools, stopVars, env>>
  BY DEF Checkout, PumpGoesOn
<1>3. /\ s \in Session /\ s.phase = "serve" /\ s.pid = sess[c].pid /\ s.kind = sess[c].kind
      /\ s.pool = pools /\ s.lease /\ s.attached /\ s.busy
  BY <1>1, ZenonT(30) DEF Session, Running
<1> HIDE DEF s
<1>4. SessionOK(s)
  BY <1>1, <1>3 DEF SessionOK, Registered, Running
<1>5. pools # None /\ ~sess[c].lease
  BY <1>1 DEF IInv, PoolOK, UsesPool, SessionOK
<1>6. PoolOK'
  BY <1>1, <1>2, <1>3, <1>5, TakesLease, Zenon DEF IInv
<1> QED
  BY <1>1, <1>2, <1>3, <1>4, <1>6, GoesOnPools, Zenon DEF Running, Registered, Receiving

\* A cancel is taken out of its channel.
LEMMA SeeCancelIInv ==
    ASSUME IInv, NEW c \in Client, SeeCancel(c)
    PROVE  IInv'
<1>1. /\ cancels' \subseteq cancels
      /\ UNCHANGED <<loop, free, backlog, joinset, aborting, sess, runtime, router, pools, stop,
                     outer, background, env>>
  BY Zenon DEF SeeCancel, loopVars, stopVars
<1>2. \A ps : In(ps)' = In(ps)
  BY <1>1 DEF In
<1>3. TypeOK' /\ SessionsOK'
  BY <1>1 DEF IInv, TypeOK, SessionsOK
<1>4. LoopOK'
  BY <1>1, <1>2, ZenonT(30) DEF IInv, LoopOK, BacklogOK, SlotsConserved, JoinOK
<1>5. RegistryOK' /\ RouterOK'
  BY <1>1, <1>2, ZenonT(30) DEF IInv, RegistryOK, RouterOK
<1>6. PoolOK'
  BY <1>1 DEF IInv, PoolOK, OnePoolPerKey
<1> QED  BY <1>3, <1>4, <1>5, <1>6 DEF IInv

\* The steps of the handle and of the task that awaits the accept loop.
LEMMA StopIInv ==
    ASSUME IInv, Stop
    PROVE  IInv'
<1>1. /\ UNCHANGED <<loop, free, backlog, joinset, aborting, sess, runtime, router, cancels,
                     pools, env>>
      /\ stop' \in {"none", "graceful", "stopping", "stopped", "dropped"}
      /\ outer' \in {"waiting", "done", "aborted"} /\ background' \subseteq background
  BY DEF Stop, ShutdownGraceful, ShutdownSends, ShutdownAborts, DropHandle, OuterEnds,
         loopVars, registries, IInv, TypeOK
<1>2. \A ps : In(ps)' = In(ps)
  BY <1>1 DEF In
<1>3. TypeOK' /\ SessionsOK'
  BY <1>1 DEF IInv, TypeOK, SessionsOK
<1>4. LoopOK'
  BY <1>1, <1>2 DEF IInv, LoopOK, BacklogOK, SlotsConserved, JoinOK
<1>5. RegistryOK' /\ RouterOK'
  BY <1>1, <1>2 DEF IInv, RegistryOK, RouterOK
<1>6. PoolOK'
  BY <1>1 DEF IInv, PoolOK, OnePoolPerKey
<1> QED  BY <1>3, <1>4, <1>5, <1>6 DEF IInv

\* The accept loop takes a slot, drops one after a failed accept, or begins to drain.
LEMMA SlotIInv ==
    ASSUME IInv, TakeSlot \/ AcceptFails \/ StopAccepting
    PROVE  IInv'
<1>1. /\ UNCHANGED <<backlog, joinset, aborting, sess, runtime, router, cancels, pools, stop,
                     outer, background>>
      /\ loop # "done" /\ loop' \in {"select", "accept", "drain"}
  BY DEF TakeSlot, AcceptFails, StopAccepting, registries, stopVars
<1>2. env' \in Setup /\ env'.collide = env.collide
  <2>1. CASE AcceptFails
    <3>1. env \in Setup /\ env.acceptErrors > 0 /\ env' = [env EXCEPT !.acceptErrors = @ - 1]
      BY <2>1 DEF AcceptFails, IInv, TypeOK
    <3>2. env.acceptErrors \in 0 .. MaxFaults /\ env.acceptErrors - 1 \in 0 .. MaxFaults
      BY <3>1, ServerAssumption DEF Setup
    <3> QED  BY <3>1, <3>2 DEF Setup
  <2>2. CASE TakeSlot \/ StopAccepting
    BY <2>2 DEF TakeSlot, StopAccepting, IInv, TypeOK
  <2> QED  BY <2>1, <2>2
<1>3. \A ps : In(ps)' = In(ps)
  BY <1>1 DEF In
<1>4. Cardinality(In(Running)) \in Nat
  BY ClientSets DEF In
<1>5. free \in Int /\ free >= 0 /\ MaxConn \in Nat
  BY ServerAssumption DEF IInv, TypeOK
<1>6. free + Cardinality(In(Running)) + (IF loop = "accept" THEN 1 ELSE 0) = MaxConn
  BY DEF IInv, LoopOK, SlotsConserved
<1>7. SlotsConserved' /\ free' \in 0 .. MaxConn
  <2>1. CASE TakeSlot
    <3>1. loop # "accept" /\ loop' = "accept" /\ free > 0 /\ free' = free - 1
      BY <2>1 DEF TakeSlot
    <3> QED  BY <1>3, <1>4, <1>5, <1>6, <3>1 DEF SlotsConserved
  <2>2. CASE AcceptFails
    <3>1. loop = "accept" /\ loop' # "accept" /\ free' = free + 1
      BY <2>2 DEF AcceptFails
    <3> QED  BY <1>3, <1>4, <1>5, <1>6, <3>1 DEF SlotsConserved
  <2>3. CASE StopAccepting
    <3>1. loop' # "accept" /\ free' = IF loop = "accept" THEN free + 1 ELSE free
      BY <2>3 DEF StopAccepting
    <3> QED  BY <1>3, <1>4, <1>5, <1>6, <3>1 DEF SlotsConserved
  <2> QED  BY <2>1, <2>2, <2>3
<1>8. TypeOK' /\ SessionsOK'
  BY <1>1, <1>2, <1>7 DEF IInv, TypeOK, SessionsOK
<1>9. LoopOK'
  BY <1>1, <1>3, <1>7 DEF IInv, LoopOK, BacklogOK, JoinOK
<1>10. RegistryOK' /\ RouterOK'
  BY <1>1, <1>2, <1>3 DEF IInv, RegistryOK, RouterOK
<1>11. PoolOK'
  BY <1>1 DEF IInv, PoolOK, OnePoolPerKey
<1> QED  BY <1>8, <1>9, <1>10, <1>11 DEF IInv

\* A client that is not in the backlog joins it.
LEMMA BacklogGrows ==
    ASSUME NEW q \in Seq(Client), NEW c \in Client, \A i \in DOMAIN q : q[i] # c,
           \A i, j \in DOMAIN q : q[i] = q[j] => i = j
    PROVE  LET r == Append(q, c) IN
           /\ r \in Seq(Client)
           /\ \A i \in DOMAIN r : r[i] = c \/ \E j \in DOMAIN q : r[i] = q[j]
           /\ \A i, j \in DOMAIN r : r[i] = r[j] => i = j
<1> DEFINE r == Append(q, c)
<1>1. Len(q) \in Nat /\ DOMAIN q = 1 .. Len(q)
  BY LenProperties
<1>2. /\ r \in Seq(Client) /\ Len(r) = Len(q) + 1
      /\ r[Len(q) + 1] = c /\ \A i \in 1 .. Len(q) : r[i] = q[i]
  BY AppendProperties
<1>3. DOMAIN r = 1 .. Len(q) + 1
  BY <1>2, LenProperties
<1> HIDE DEF r
<1>4. \A i \in DOMAIN r : (i \in DOMAIN q /\ r[i] = q[i]) \/ (i = Len(q) + 1 /\ r[i] = c)
  BY <1>1, <1>2, <1>3
<1>5. \A i, j \in DOMAIN r : r[i] = r[j] => i = j
  BY <1>4
<1>6. \A i \in DOMAIN r : r[i] = c \/ \E j \in DOMAIN q : r[i] = q[j]
  BY <1>4
<1> QED  BY <1>2, <1>5, <1>6 DEF r

\* The first client leaves the backlog.
LEMMA BacklogShrinks ==
    ASSUME NEW q \in Seq(Client), q # <<>>,
           \A i, j \in DOMAIN q : q[i] = q[j] => i = j
    PROVE  /\ Head(q) \in Client /\ 1 \in DOMAIN q /\ Head(q) = q[1]
           /\ Tail(q) \in Seq(Client)
           /\ \A i \in DOMAIN Tail(q) : Tail(q)[i] # Head(q) /\ \E j \in DOMAIN q : Tail(q)[i] = q[j]
           /\ \A i, j \in DOMAIN Tail(q) : Tail(q)[i] = Tail(q)[j] => i = j
<1>1. /\ Len(q) \in Nat \ {0} /\ DOMAIN q = 1 .. Len(q)
      /\ Head(q) \in Client /\ Head(q) = q[1]
  BY LenProperties, EmptySeq, HeadTailProperties
<1>2. /\ Tail(q) \in Seq(Client) /\ Len(Tail(q)) = Len(q) - 1
      /\ \A i \in 1 .. Len(q) - 1 : Tail(q)[i] = q[i + 1]
  BY HeadTailProperties
<1>3. DOMAIN Tail(q) = 1 .. Len(q) - 1
  BY <1>2, LenProperties
<1>4. \A i \in DOMAIN Tail(q) : i + 1 \in DOMAIN q /\ i + 1 # 1 /\ Tail(q)[i] = q[i + 1]
  BY <1>1, <1>2, <1>3
<1>5. 1 \in DOMAIN q
  BY <1>1
<1>6. \A i \in DOMAIN Tail(q) : Tail(q)[i] # Head(q) /\ \E j \in DOMAIN q : Tail(q)[i] = q[j]
  BY <1>1, <1>4, <1>5
<1>7. \A i, j \in DOMAIN Tail(q) : Tail(q)[i] = Tail(q)[j] => i = j
  BY <1>1, <1>3, <1>4
<1> QED  BY <1>1, <1>2, <1>5, <1>6, <1>7

\* A client connects: it joins the backlog.
LEMMA ConnectIInv ==
    ASSUME IInv, NEW c \in Client, NEW k \in env.kinds, Connect(c, k)
    PROVE  IInv'
<1>1. /\ sess \in [Client -> Session] /\ sess[c] \in Session /\ SessionOK(sess[c])
      /\ sess[c].phase = "none" /\ backlog' = Append(backlog, c)
      /\ UNCHANGED <<loop, free, joinset, aborting, registries, pools, stopVars, env>>
  BY DEF Connect, IInv, TypeOK, SessionsOK
<1>2. k \in Kinds
  BY DEF IInv, TypeOK, Setup
<1>3. PICK t \in Client \cup {None} :
          sess' = [sess EXCEPT ![c] = [sess[c] EXCEPT !.phase = "queued", !.kind = k, !.target = t]]
  BY Zenon DEF Connect
<1> DEFINE s == [sess[c] EXCEPT !.phase = "queued", !.kind = k, !.target = t]
<1>4. /\ s \in Session /\ s.phase = "queued" /\ s.pid = sess[c].pid /\ s.lease = sess[c].lease
      /\ s.attached = sess[c].attached /\ s.busy = sess[c].busy
  BY <1>1, <1>2, <1>3, ZenonT(30) DEF Session
<1>5. sess' = [sess EXCEPT ![c] = s]
  BY <1>3
<1> HIDE DEF s
<1>6. SessionOK(s) /\ ~s.lease
  BY <1>1, <1>4 DEF SessionOK, Registered, Running
<1>7. sess'[c] = s /\ \A d \in Client \ {c} : sess'[d] = sess[d]
  BY <1>1, <1>4, <1>5, OneMoves
<1>8. In(Running)' = In(Running)
  <2>1. s.phase \notin Running /\ sess[c].phase \notin Running
    BY <1>1, <1>4 DEF Running
  <2> QED  BY <1>1, <1>4, <1>5, <2>1, InMoves DEF In
<1>9. /\ backlog' \in Seq(Client)
      /\ \A i \in DOMAIN backlog' : backlog'[i] = c \/ \E j \in DOMAIN backlog : backlog'[i] = backlog[j]
      /\ \A i, j \in DOMAIN backlog' : backlog'[i] = backlog'[j] => i = j
  <2>1. backlog \in Seq(Client) /\ \A i, j \in DOMAIN backlog : backlog[i] = backlog[j] => i = j
    BY DEF IInv, TypeOK, LoopOK, BacklogOK
  <2>2. \A i \in DOMAIN backlog : backlog[i] # c
    BY <1>1 DEF IInv, LoopOK, BacklogOK
  <2> QED  BY <1>1, <2>1, <2>2, BacklogGrows
<1>10. BacklogOK'
  <2> SUFFICES ASSUME NEW i \in DOMAIN backlog'  PROVE sess'[backlog'[i]].phase = "queued"
    BY <1>9 DEF BacklogOK
  <2>1. CASE backlog'[i] = c
    BY <1>4, <1>7, <2>1
  <2>2. CASE backlog'[i] # c
    <3>1. PICK j \in DOMAIN backlog : backlog'[i] = backlog[j]
      BY <1>9, <2>2
    <3>2. backlog[j] \in Client /\ sess[backlog[j]].phase = "queued"
      BY ElementOfSeq, LenProperties DEF IInv, TypeOK, LoopOK, BacklogOK
    <3> QED  BY <1>7, <2>2, <3>1, <3>2
  <2> QED  BY <2>1, <2>2
<1>11. LoopOK'
  BY <1>1, <1>8, <1>10 DEF IInv, LoopOK, SlotsConserved, JoinOK
<1>12. TypeOK' /\ SessionsOK'
  <2>1. sess' \in [Client -> Session] /\ SessionsOK'
    BY <1>4, <1>5, <1>6, SessionsKept, Zenon DEF IInv
  <2>2. UNCHANGED <<loop, free, joinset, aborting, registries, pools, stopVars, env>>
    BY <1>1
  <2> QED  BY <1>9, <2>1, <2>2 DEF IInv, TypeOK, registries, stopVars
<1>13. RegistryOK' /\ RouterOK'
  <2>1. runtime' = runtime /\ router' = router /\ cancels' = cancels /\ env' = env
    BY <1>1 DEF registries
  <2>2. /\ s.phase \notin Registered /\ sess[c].phase \notin Registered
        /\ s.phase \notin Receiving /\ sess[c].phase \notin Receiving /\ sess[c].phase # "over"
    BY <1>1, <1>4 DEF Registered, Running, Receiving
  <2> QED  BY <1>4, <1>5, <2>1, <2>2, RegistryKept, RouterKept, ZenonT(30) DEF IInv
<1>14. PoolOK'
  BY <1>1, <1>4, <1>5, <1>6, PoolKept, Zenon DEF IInv, UsesPool
<1> QED  BY <1>11, <1>12, <1>13, <1>14 DEF IInv

\* A client is accepted: the slot moves into its task, which the JoinSet knows.
LEMMA AcceptIInv ==
    ASSUME IInv, Accept
    PROVE  IInv'
<1> DEFINE c == Head(backlog)
           s == [sess[c] EXCEPT !.phase = "hello"]
<1>1. /\ loop = "accept" /\ loop' = "select" /\ backlog # <<>> /\ backlog' = Tail(backlog)
      /\ joinset' = joinset \cup {c} /\ sess' = [sess EXCEPT ![c] = s]
      /\ UNCHANGED <<free, aborting, registries, pools, stopVars, env>>
  BY DEF Accept
<1>2. /\ c \in Client /\ 1 \in DOMAIN backlog /\ c = backlog[1]
      /\ Tail(backlog) \in Seq(Client)
      /\ \A i \in DOMAIN Tail(backlog) :
            Tail(backlog)[i] # c /\ \E j \in DOMAIN backlog : Tail(backlog)[i] = backlog[j]
      /\ \A i, j \in DOMAIN Tail(backlog) : Tail(backlog)[i] = Tail(backlog)[j] => i = j
  <2>1. backlog \in Seq(Client) /\ \A i, j \in DOMAIN backlog : backlog[i] = backlog[j] => i = j
    BY DEF IInv, TypeOK, LoopOK, BacklogOK
  <2> QED  BY <1>1, <2>1, BacklogShrinks
<1>3. /\ sess \in [Client -> Session] /\ sess[c] \in Session /\ SessionOK(sess[c])
      /\ sess[c].phase = "queued"
  BY <1>2 DEF IInv, TypeOK, SessionsOK, LoopOK, BacklogOK
<1> HIDE DEF c
<1>4. /\ s \in Session /\ s.phase = "hello" /\ s.pid = sess[c].pid /\ s.lease = sess[c].lease
      /\ s.attached = sess[c].attached /\ s.busy = sess[c].busy /\ s.kind = sess[c].kind
  BY <1>3 DEF Session, Running
<1> HIDE DEF s
<1>5. SessionOK(s) /\ ~s.lease
  BY <1>3, <1>4 DEF SessionOK, Registered, Running
<1>6. sess'[c] = s /\ \A d \in Client \ {c} : sess'[d] = sess[d]
  BY <1>1, <1>2, <1>3, <1>4, OneMoves
<1>7. In(Running)' = In(Running) \cup {c} /\ c \notin In(Running)
  <2>1. s.phase \in Running /\ sess[c].phase \notin Running
    BY <1>3, <1>4 DEF Running
  <2> QED  BY <1>1, <1>2, <1>3, <1>4, <2>1, InMoves DEF In
<1>8. BacklogOK'
  <2>1. \A i \in DOMAIN backlog : backlog[i] \in Client /\ sess[backlog[i]].phase = "queued"
    BY ElementOfSeq, LenProperties DEF IInv, TypeOK, LoopOK, BacklogOK
  <2>2. ASSUME NEW i \in DOMAIN backlog'  PROVE sess'[backlog'[i]].phase = "queued"
    <3>1. PICK j \in DOMAIN backlog : backlog'[i] = backlog[j] /\ backlog[j] # c
      BY <1>1, <1>2, <2>2
    <3> QED  BY <1>6, <2>1, <3>1
  <2> QED  BY <1>1, <1>2, <2>2 DEF BacklogOK
<1>9. SlotsConserved'
  <2> DEFINE n == Cardinality(In(Running))
  <2>1. n \in Nat /\ Cardinality(In(Running)') = n + 1
    <3>1. In(Running) \in SUBSET Client
      BY DEF In
    <3> QED  BY <1>2, <1>7, <3>1, OneMore, ClientSets
  <2>2. free + n + 1 = MaxConn /\ free \in Int
    BY <1>1, ServerAssumption DEF IInv, TypeOK, LoopOK, SlotsConserved
  <2>3. free' = free /\ loop' # "accept"
    BY <1>1
  <2> HIDE DEF n
  <2>4. free + (n + 1) + 0 = MaxConn
    BY <2>1, <2>2
  <2> QED  BY <2>1, <2>3, <2>4 DEF SlotsConserved
<1>10. JoinOK'
  BY <1>1, <1>7 DEF IInv, LoopOK, JoinOK
<1>11. TypeOK' /\ SessionsOK'
  <2>1. sess' \in [Client -> Session] /\ SessionsOK'
    BY <1>1, <1>2, <1>4, <1>5, SessionsKept, ZenonT(30) DEF IInv
  <2>2. UNCHANGED <<free, aborting, registries, pools, stopVars, env>>
    BY <1>1
  <2>3. loop' \in {"select", "accept", "drain", "done"} /\ backlog' \in Seq(Client)
        /\ joinset' \subseteq Client
    BY <1>1, <1>2 DEF IInv, TypeOK
  <2> QED  BY <2>1, <2>2, <2>3 DEF IInv, TypeOK, registries, stopVars
<1>12. RegistryOK' /\ RouterOK'
  <2>1. runtime' = runtime /\ router' = router /\ cancels' = cancels /\ env' = env
    BY <1>1 DEF registries
  <2>2. /\ s.phase \notin Registered /\ sess[c].phase \notin Registered
        /\ s.phase \notin Receiving /\ sess[c].phase \notin Receiving /\ sess[c].phase # "over"
    BY <1>3, <1>4 DEF Registered, Running, Receiving
  <2> QED  BY <1>1, <1>2, <1>4, <2>1, <2>2, RegistryKept, RouterKept, ZenonT(30) DEF IInv
<1>13. PoolOK'
  BY <1>1, <1>2, <1>3, <1>4, <1>5, PoolKept, ZenonT(30) DEF IInv, UsesPool
<1> QED  BY <1>8, <1>9, <1>10, <1>11, <1>12, <1>13 DEF IInv, LoopOK

\* The loop returns: clients it had not accepted are reset, nobody else moves, and the
\* sessions that still run were told to abort.
LEMMA LoopReturnsIInv ==
    ASSUME IInv, Drained \/ DrainTimesOut
    PROVE  IInv'
<1>1. /\ loop = "drain" /\ loop' = "done" /\ backlog' = <<>> /\ joinset' = {}
      /\ UNCHANGED <<free, registries, pools, stopVars, env>>
      /\ sess' = [c \in Client |-> IF sess[c].phase = "queued"
                                   THEN [sess[c] EXCEPT !.phase = "reset"] ELSE sess[c]]
  BY DEF Drained, DrainTimesOut, LoopReturns
<1>2. sess \in [Client -> Session]
  BY DEF IInv, TypeOK
<1>3. ASSUME NEW c \in Client
      PROVE  /\ sess'[c] \in Session
             /\ sess[c].phase # "queued" => sess'[c] = sess[c]
             /\ sess[c].phase = "queued" => sess'[c].phase = "reset"
             /\ sess'[c].pid = sess[c].pid /\ sess'[c].lease = sess[c].lease
             /\ sess'[c].attached = sess[c].attached /\ sess'[c].busy = sess[c].busy
             /\ sess'[c].kind = sess[c].kind /\ sess'[c].pool = sess[c].pool
  <2>1. CASE sess[c].phase # "queued"
    BY <1>1, <1>2, <2>1
  <2>2. CASE sess[c].phase = "queued"
    <3> DEFINE s == [sess[c] EXCEPT !.phase = "reset"]
    <3>1. sess'[c] = s
      BY <1>1, <2>2
    <3>2. /\ s \in Session /\ s.phase = "reset" /\ s.pid = sess[c].pid /\ s.lease = sess[c].lease
          /\ s.attached = sess[c].attached /\ s.busy = sess[c].busy /\ s.kind = sess[c].kind
          /\ s.pool = sess[c].pool
      BY <1>2 DEF Session
    <3> HIDE DEF s
    <3> QED  BY <2>2, <3>1, <3>2
  <2> QED  BY <2>1, <2>2
<1>4. sess' \in [Client -> Session]
  <2>1. sess' = [c \in Client |-> sess'[c]]
    BY <1>1
  <2> QED  BY <1>3, <2>1
<1>5. In(Running)' = In(Running) /\ In(Registered)' = In(Registered)
      /\ In(Receiving)' = In(Receiving)
  BY <1>3 DEF In, Running, Registered, Receiving
<1>6. SessionsOK'
  <2> SUFFICES ASSUME NEW c \in Client  PROVE SessionOK(sess'[c])
    BY DEF SessionsOK, SessionOK
  <2>1. SessionOK(sess[c])
    BY DEF IInv, SessionsOK
  <2>2. CASE sess[c].phase # "queued"
    BY <1>3, <2>1, <2>2
  <2>3. CASE sess[c].phase = "queued"
    BY <1>3, <2>1, <2>3 DEF SessionOK, Registered, Running
  <2> QED  BY <2>2, <2>3
<1>7. aborting' \subseteq Client /\ In(Running) \subseteq aborting'
  <2>1. In(Running) \subseteq joinset
    BY <1>1 DEF IInv, LoopOK, JoinOK
  <2>2. CASE Drained
    BY <2>1, <2>2 DEF Drained, IInv, TypeOK
  <2>3. CASE DrainTimesOut
    BY <2>1, <2>3 DEF DrainTimesOut, In
  <2> QED  BY <2>2, <2>3
<1>8. TypeOK'
  <2>1. UNCHANGED <<free, registries, pools, stopVars, env>> /\ loop' = "done"
        /\ backlog' \in Seq(Client) /\ joinset' \subseteq Client
    BY <1>1
  <2> QED  BY <1>4, <1>7, <2>1 DEF IInv, TypeOK, registries, stopVars
<1>9. LoopOK'
  <2>1. BacklogOK'
    BY <1>1 DEF BacklogOK
  <2>2. SlotsConserved'
    BY <1>1, <1>5 DEF IInv, LoopOK, SlotsConserved
  <2>3. JoinOK'
    BY <1>1, <1>5, <1>7 DEF JoinOK
  <2> QED  BY <2>1, <2>2, <2>3 DEF LoopOK
<1>10. RegistryOK'
  BY <1>1, <1>3, <1>5 DEF IInv, RegistryOK, registries
<1>11. RouterOK'
  <2>1. \A c \in router : RoutedOK(sess'[c])
    BY <1>3 DEF IInv, TypeOK, RouterOK, RoutedOK, Receiving
  <2> QED  BY <1>1, <1>5, <2>1 DEF IInv, RouterOK, registries
<1>12. PoolOK'
  <2>1. \A c \in Client : (sess'[c].lease <=> sess[c].lease)
                            /\ (UsesPool(sess'[c]) => UsesPool(sess[c]))
                            /\ (sess'[c].phase = "attach" => sess[c].phase = "attach")
    BY <1>3 DEF UsesPool
  <2>2. {c \in Client : sess'[c].lease} = {c \in Client : sess[c].lease}
    BY <2>1
  <2>3. OnePoolPerKey'
    BY <2>2, ZenonT(30) DEF IInv, PoolOK, OnePoolPerKey
  <2>4. \A c \in Client : UsesPool(sess'[c]) => pools' # None
    BY <1>1, <2>1 DEF IInv, PoolOK
  <2>5. \A c \in Client : sess'[c].phase = "attach" \/ sess'[c].lease => sess'[c].pool = pools'
    BY <1>1, <1>3, <2>1 DEF IInv, PoolOK
  <2> QED  BY <2>3, <2>4, <2>5 DEF PoolOK, UsesPool
<1> QED  BY <1>6, <1>8, <1>9, <1>10, <1>11, <1>12 DEF IInv

\* The initial state.
LEMMA InitIInv == Init => IInv
<1> SUFFICES ASSUME Init PROVE IInv
  OBVIOUS
<1>1. \A c \in Client : sess[c] = NoSession
  BY DEF Init
<1>2. /\ NoSession \in Session /\ NoSession.phase = "none" /\ NoSession.pid = None
      /\ ~NoSession.lease /\ ~NoSession.attached /\ ~NoSession.busy
  BY DEF NoSession, Session
<1>3. TypeOK
  BY <1>2, ServerAssumption DEF Init, TypeOK
<1>4. SessionsOK
  BY <1>1, <1>2 DEF SessionsOK, SessionOK, Registered, Running
<1>5. In(Running) = {} /\ In(Registered) = {} /\ In(Receiving) = {}
  BY <1>1, <1>2 DEF In, Running, Registered, Receiving
<1>6. LoopOK
  <2>1. SlotsConserved
    <3>1. Cardinality(In(Running)) = 0
      BY <1>5, FS_EmptySet
    <3> QED  BY <3>1, ServerAssumption DEF Init, SlotsConserved
  <2> QED  BY <1>5, <2>1 DEF Init, LoopOK, BacklogOK, JoinOK
<1>7. RegistryOK /\ RouterOK
  BY <1>1, <1>2, <1>5 DEF Init, RegistryOK, RouterOK
<1>8. PoolOK
  <2>1. {c \in Client : sess[c].lease} = {}
    BY <1>1, <1>2
  <2>2. OnePoolPerKey
    BY <2>1, FS_EmptySet, ServerAssumption DEF OnePoolPerKey
  <2> QED  BY <1>1, <1>2, <2>2 DEF PoolOK, UsesPool
<1> QED  BY <1>3, <1>4, <1>6, <1>7, <1>8 DEF IInv

\* Every step keeps the invariant.
LEMMA NextIInv == IInv /\ [Next]_vars => IInv'
<1> SUFFICES ASSUME IInv, [Next]_vars PROVE IInv'
  OBVIOUS
<1>1. CASE AcceptLoop
  BY <1>1, SlotIInv, AcceptIInv, LoopReturnsIInv DEF AcceptLoop
<1>2. CASE Stop
  BY <1>2, StopIInv
<1>3. ASSUME NEW c \in Client, Task(c)
      PROVE  IInv'
  <2>1. CASE Refuse(c) \/ AttachFails(c) \/ AuthenticateFails(c) \/ Close(c)
    BY <2>1, QuietEnds
  <2>2. CASE Cancel(c) \/ AdminEnds(c) \/ Abort(c) \/ Panic(c)
    BY <2>2, CancelIInv, AdminEndsIInv, DroppedIInv
  <2>3. CASE Register(c) \/ Lookup(c) \/ Create(c) \/ Attach(c) \/ Authenticate(c)
    BY <2>3, RegisterIInv, LookupIInv, CreateIInv, AttachIInv, AuthenticateIInv
  <2>4. CASE Checkout(c) \/ CheckoutFails(c)
    BY <2>4, CheckoutIInv, CheckoutFailsIInv
  <2>5. CASE \E b \in BOOLEAN : QueryEnds(c, b) \/ UpstreamLost(c, b) \/ ScatterFails(c, b)
    BY <2>5, QueryEndsIInv, UpstreamLostIInv, ScatterFailsIInv
  <2>6. CASE SeeCancel(c) \/ SeeSignal(c) \/ SeeEof(c)
    BY <2>6, SeeCancelIInv, SeeSignalIInv, SeeEofIInv
  <2> QED  BY <1>3, <2>1, <2>2, <2>3, <2>4, <2>5, <2>6 DEF Task
<1>4. ASSUME NEW c \in Client, ClientStep(c)
      PROVE  IInv'
  BY <1>4, ConnectIInv, QueryIInv, ClientGoesIInv DEF ClientStep
<1>5. CASE UNCHANGED vars
  <2>1. UNCHANGED <<loop, free, backlog, joinset, aborting, sess, runtime, router, cancels, pools,
                    stop, outer, background, env>>
    BY <1>5 DEF vars, loopVars, registries, stopVars
  <2>2. TypeOK' /\ SessionsOK' /\ PoolOK'
    BY <2>1 DEF IInv, TypeOK, SessionsOK, PoolOK, OnePoolPerKey
  <2>3. \A ps : In(ps)' = In(ps)
    BY <2>1 DEF In
  <2>4. LoopOK' /\ RegistryOK' /\ RouterOK'
    BY <2>1, <2>3 DEF IInv, LoopOK, BacklogOK, SlotsConserved, JoinOK, RegistryOK, RouterOK
  <2> QED  BY <2>2, <2>4 DEF IInv
<1> QED  BY <1>1, <1>2, <1>3, <1>4, <1>5 DEF Next

-----------------------------------------------------------------------------
(***************************************************************************)
(* What holds of every server.                                             *)
(***************************************************************************)

\* The invariant is inductive, so it holds in every state of the server.
THEOREM ServerInductive == Spec => []IInv
<1>1. Init => IInv
  BY InitIInv
<1>2. IInv /\ [Next]_vars => IInv'
  BY NextIInv
<1> QED  BY <1>1, <1>2, PTL DEF Spec

\* The server's state has its types.
THEOREM ServerTypes == Spec => []TypeOK
<1>1. IInv => TypeOK
  BY DEF IInv
<1> QED  BY <1>1, ServerInductive, PTL

\* For every limit on connections and any number of clients: a slot is free, in the
\* loop's hand or with exactly one running task, whether that task ends, panics or is
\* aborted (accept_loop's OwnedSemaphorePermit).
THEOREM SlotsAreConserved == Spec => []SlotsConserved
<1>1. IInv => SlotsConserved
  BY DEF IInv, LoopOK
<1> QED  BY <1>1, ServerInductive, PTL

\* RuntimeState lists exactly the sessions that registered and have not ended, as long
\* as no two of them draw the same process id, and calls only those attached that hold
\* a lease (RuntimeState::register and the guard's unregister).
THEOREM RegistryExact == Spec => []RegistryIsExact
<1>1. IInv => RegistryIsExact
  BY DEF IInv, TypeOK, SessionsOK, SessionOK, RegistryOK, RegistryIsExact
<1> QED  BY <1>1, ServerInductive, PTL

\* Every session that listens for cancels is in the CancelRouter, and an ended session
\* is left there only by an abort or a panic.
THEOREM RouterLive == Spec => []RouterIsLive
<1>1. IInv => RouterIsLive
  BY DEF IInv, RouterOK, RoutedOK, Receiving, RouterIsLive
<1> QED  BY <1>1, ServerInductive, PTL

\* However many sessions race to create the pool of a key, they all lease from one
\* pool, so its limit is the limit of the key (PoolManager::get_or_create).
THEOREM PoolPerKey == Spec => []OnePoolPerKey
<1>1. IInv => OnePoolPerKey
  BY DEF IInv, PoolOK
<1> QED  BY <1>1, ServerInductive, PTL

\* No shutdown signal ends a pump in the middle of a query.
THEOREM QueriesAreNotCut == Spec => []SignalCutsNoQuery
<1>1. IInv => SignalCutsNoQuery
  BY DEF IInv, SessionsOK, SessionOK, SignalCutsNoQuery, In
<1> QED  BY <1>1, ServerInductive, PTL

\* When the accept loop has returned, every session that still runs was told to abort.
THEOREM LoopDrains == Spec => []ReturnsDrained
<1>1. IInv => ReturnsDrained
  BY DEF IInv, LoopOK, JoinOK, ReturnsDrained
<1> QED  BY <1>1, ServerInductive, PTL
=============================================================================
