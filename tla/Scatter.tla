------------------------------ MODULE Scatter ------------------------------
(***************************************************************************)
(* Scatter-gather (scatter.rs and its arm in the pump, session.rs): the    *)
(* sessions of a proxy run the legs of their scatters on the shards'       *)
(* pools, next to the sessions' own leases.                                *)
(*                                                                         *)
(* A pool is its permits, handed out in FIFO order, and its stack of idle  *)
(* connections (Pool models one in full).  A leg holds its lease from its  *)
(* checkout until the merged result was written.  Of a connection only     *)
(* its shard and whose parameters are set on it are kept, of a result only *)
(* which leg it comes from.  The session's task is the only one that polls *)
(* the legs: what it does between two awaits is one step, except that      *)
(* sessions on other threads may use the pools between the checkouts of    *)
(* its legs.                                                               *)
(***************************************************************************)
EXTENDS Integers, Sequences, FiniteSets, Functions

CONSTANTS
    Session, Shard,
    None,          \* Option::None
    First,         \* the first endpoint of the route
    Requests,      \* the legs' endpoints of the scatters the hook asks for
    Named,         \* sessions with an application_name of their own
    Setups,        \* how the proxy is configured and what may happen
    MaxSize,       \* bound: permits of a pool
    MaxEvents      \* bound: scatters, refusals, failures

\* PoolMode::Session, the endpoints the router picks for ordinary queries, the
\* permits of each pool, whether the merge policy is Sum; how many scatters may
\* still be run and refused, and connections and queries fail.
Setup == [sessionMode : BOOLEAN, homes : SUBSET Shard, size : 1..MaxSize, sums : BOOLEAN,
          scatters : 0..MaxEvents, refusals : 0..MaxEvents, fails : 0..MaxEvents]

ASSUME ScatterAssumption ==
    /\ First \in Shard /\ None \notin Shard \cup Session /\ Named \subseteq Session
    /\ Requests \subseteq Seq(Shard) /\ Setups \subseteq Setup
    /\ MaxSize \in Nat /\ MaxEvents \in Nat

VARIABLES
    sess,      \* the sessions
    queue,     \* each pool's waiters: <<s, i>> is leg i of s, 0 an attach
    idle,      \* each pool's idle connections, the top of the stack last
    env        \* the setup

vars == <<sess, queue, idle, env>>

SessionMode == env.sessionMode
Homes == env.homes

NoConn == [at |-> None, by |-> None]
Fresh(e) == [at |-> e, by |-> None]

(***************************************************************************)
(* A session: pc is "gone", "attaching", "idle" (between two queries, in a *)
(* transaction or not), "gather" (futures.next), "own" (the leg on the     *)
(* session's lease), "merge" or "checkin".  done is pooled_outcomes, own   *)
(* session_leg_idx (0: None), err first_error, rows the legs whose rows    *)
(* the client got in this cycle.                                           *)
(***************************************************************************)
NewSession == [pc |-> "gone", lease |-> NoConn, cur |-> None, legs |-> <<>>,
               own |-> 0, done |-> <<>>, err |-> FALSE, rows |-> <<>>]

Leg(e, st) == [ep |-> e, st |-> st, conn |-> NoConn, dirty |-> FALSE]

Init ==
    /\ sess = [s \in Session |-> NewSession]
    /\ queue = [e \in Shard |-> <<>>]
    /\ idle = [e \in Shard |-> <<>>]
    /\ env \in Setups

-----------------------------------------------------------------------------
Index == UNION {DOMAIN r : r \in Requests}

\* The leases of e's pool, by session and leg (0: the session's own lease),
\* and the permits left there.
Leases(e) ==
    {h \in Session \X ({0} \cup Index) :
        LET q == sess[h[1]]   i == h[2] IN
        IF i = 0 THEN q.lease.at = e ELSE i \in DOMAIN q.legs /\ q.legs[i].conn.at = e}

Free(e) == env.size - Cardinality(Leases(e))

\* The idle list is a stack.
Last(s) == s[Len(s)]
Front(s) == SubSeq(s, 1, Len(s) - 1)

\* Pool::checkout by the first waiter, which then syncs the startup
\* parameters; a session without any takes the connection as it is.
Granted(s, i, e) == queue[e] # <<>> /\ Head(queue[e]) = <<s, i>> /\ Free(e) > 0

Taken(s, e) ==
    LET c == IF idle[e] = <<>> THEN Fresh(e) ELSE Last(idle[e]) IN
    IF s \in Named THEN [c EXCEPT !.by = s] ELSE c

Dequeue(e) ==
    /\ queue' = [queue EXCEPT ![e] = Tail(@)]
    /\ idle' = [idle EXCEPT ![e] = IF @ = <<>> THEN @ ELSE Front(@)]

Park(c) == idle' = [idle EXCEPT ![c.at] = Append(@, c)]

Fail == env.fails > 0 /\ env' = [env EXCEPT !.fails = @ - 1]

-----------------------------------------------------------------------------
\* A client connects.  Session mode attaches at once; the pump then takes the
\* route's first endpoint for the one it is attached to.
Arrive(s) ==
    /\ sess[s].pc = "gone"
    /\ \/ /\ ~SessionMode
          /\ sess' = [sess EXCEPT ![s] = [NewSession EXCEPT !.pc = "idle"]]
          /\ UNCHANGED queue
       \/ /\ SessionMode
          /\ \E e \in Homes : queue' = [queue EXCEPT ![e] = Append(@, <<s, 0>>)]
          /\ sess' = [sess EXCEPT ![s] = [NewSession EXCEPT !.pc = "attaching", !.cur = First]]
    /\ UNCHANGED <<idle, env>>

\* ensure_attached for an ordinary query: the lease is kept if there is one.
Attach(s) ==
    /\ sess[s].pc = "idle" /\ sess[s].lease = NoConn
    /\ \E e \in Homes :
          /\ queue' = [queue EXCEPT ![e] = Append(@, <<s, 0>>)]
          /\ sess' = [sess EXCEPT ![s].pc = "attaching", ![s].cur = e]
    /\ UNCHANGED <<idle, env>>

Attached(s) ==
    /\ \E e \in Shard :
          /\ Granted(s, 0, e)
          /\ sess' = [sess EXCEPT ![s].pc = "idle", ![s].lease = Taken(s, e)]
          /\ Dequeue(e)
    /\ UNCHANGED env

\* The end of a transaction in transaction mode.
Detach(s) ==
    /\ ~SessionMode
    /\ sess[s].pc = "idle" /\ sess[s].lease # NoConn
    /\ Park(sess[s].lease)
    /\ sess' = [sess EXCEPT ![s].lease = NoConn]
    /\ UNCHANGED <<queue, env>>

\* The session's connection is lost between two queries; it relinks.
Lose(s) ==
    /\ sess[s].pc = "idle" /\ sess[s].lease # NoConn
    /\ Fail
    /\ sess' = [sess EXCEPT ![s].lease = NoConn, ![s].cur = None]
    /\ UNCHANGED <<queue, idle>>

\* The session ends; its lease goes through sanitize.
Ended(s) ==
    /\ sess' = [sess EXCEPT ![s] = NewSession]
    /\ IF sess[s].lease = NoConn THEN UNCHANGED idle
       ELSE Park(Fresh(sess[s].lease.at))
    /\ UNCHANGED <<queue, env>>

Leave(s) == sess[s].pc = "idle" /\ Ended(s)

-----------------------------------------------------------------------------
\* The pump's answer to a failed scatter: the session's endpoint is forgotten,
\* its lease is not.
Failed(q) == [q EXCEPT !.pc = "idle", !.cur = None, !.legs = <<>>, !.own = 0,
                       !.done = <<>>, !.err = FALSE, !.rows = <<>>]

\* Extended protocol, inside a transaction, or an unknown endpoint.
Refuse(s) ==
    /\ sess[s].pc = "idle"
    /\ env.refusals > 0 /\ env' = [env EXCEPT !.refusals = @ - 1]
    /\ sess' = [sess EXCEPT ![s] = Failed(@)]
    /\ UNCHANGED <<queue, idle>>

\* Fault: the session's lease is used for the first leg, whatever its shard.
OwnLegAny(q, r) == IF q.lease # NoConn /\ q.cur # None THEN 1 ELSE 0

\* partition: the first leg on the current endpoint, if there is a lease.
OwnLeg(q, r) ==
    IF q.lease = NoConn \/ q.cur \notin Range(r) THEN 0
    ELSE CHOOSE i \in DOMAIN r : r[i] = q.cur /\ \A j \in 1 .. (i - 1) : r[j] # q.cur

\* Where the session goes when no pooled leg is left.
AfterLegs(q) ==
    IF \E i \in DOMAIN q.legs : q.legs[i].st \in {"new", "wait", "run"} THEN "gather"
    ELSE IF q.own # 0 THEN "own" ELSE "merge"

\* execute_scatter up to the first poll of the legs.
Scatter(s, r) ==
    /\ sess[s].pc = "idle"
    /\ SessionMode \/ sess[s].lease = NoConn
    /\ env.scatters > 0 /\ env' = [env EXCEPT !.scatters = @ - 1]
    /\ LET own == OwnLeg(sess[s], r)
           q == [sess[s] EXCEPT !.own = own,
                   !.legs = [i \in DOMAIN r |-> Leg(r[i], IF i = own THEN "own" ELSE "new")]]
       IN sess' = [sess EXCEPT ![s] = [q EXCEPT !.pc = AfterLegs(q)]]
    /\ UNCHANGED <<queue, idle>>

Unasked(s) == {i \in DOMAIN sess[s].legs : sess[s].legs[i].st = "new"}

\* The first poll of a leg, in the order of the legs: it asks for a permit.
LegAsks(s, i) ==
    /\ i \in Unasked(s) /\ \A j \in Unasked(s) : i <= j
    /\ sess' = [sess EXCEPT ![s].legs[i].st = "wait"]
    /\ queue' = [queue EXCEPT ![sess[s].legs[i].ep] = Append(@, <<s, i>>)]
    /\ UNCHANGED <<idle, env>>

\* run_leg_pooled: checkout and sync_startup_parameters.
LegStarts(s, i) ==
    /\ i \in DOMAIN sess[s].legs /\ Unasked(s) = {}
    /\ LET e == sess[s].legs[i].ep IN
          /\ Granted(s, i, e)
          /\ sess' = [sess EXCEPT ![s].legs[i] = [@ EXCEPT !.st = "run", !.conn = Taken(s, e)]]
          /\ Dequeue(e)
    /\ UNCHANGED env

Running(s, i) ==
    i \in DOMAIN sess[s].legs /\ Unasked(s) = {} /\ sess[s].legs[i].st = "run"

\* run_query_collect up to ReadyForQuery, dirty when a ParameterStatus came.
LegAnswers(s, i, dirty) ==
    /\ Running(s, i)
    /\ LET leg == [sess[s].legs[i] EXCEPT !.st = "done", !.dirty = dirty,
                                          !.conn.by = IF dirty THEN s ELSE @]
           q == [sess[s] EXCEPT !.legs[i] = leg, !.done = Append(@, i)]
       IN sess' = [sess EXCEPT ![s] = [q EXCEPT !.pc = AfterLegs(q)]]
    /\ UNCHANGED <<queue, idle, env>>

\* The waiters but for those of s: a dropped future gives up its place.
Without(q, s) ==
    LET kept[k \in 0 .. Len(q)] == IF k = 0 THEN <<>>
                                   ELSE IF q[k][1] = s THEN kept[k - 1]
                                   ELSE Append(kept[k - 1], q[k])
    IN kept[Len(q)]

\* A leg whose lease is dropped.
Dropped(leg) == [leg EXCEPT !.st = "dropped", !.conn = NoConn]

\* Fault: the waiting legs stay in the pools' queues.
LegFailsQueued(s, i) ==
    /\ Running(s, i)
    /\ Fail
    /\ sess' = [sess EXCEPT ![s].pc = "checkin", ![s].err = TRUE,
                            ![s].legs = [j \in DOMAIN @ |->
                                IF @[j].st \in {"wait", "run"} THEN Dropped(@[j]) ELSE @[j]]]
    /\ UNCHANGED <<queue, idle>>

\* Fault: the legs that answered before are dropped, too.
LegFailsAll(s, i) ==
    /\ Running(s, i)
    /\ Fail
    /\ sess' = [sess EXCEPT ![s].pc = "checkin", ![s].err = TRUE, ![s].done = <<>>,
                            ![s].legs = [j \in DOMAIN @ |-> Dropped(@[j])]]
    /\ queue' = [e \in Shard |-> Without(queue[e], s)]
    /\ UNCHANGED idle

\* A leg cannot connect, loses its connection or gets an ErrorResponse: its
\* lease and those of all unfinished legs are dropped, the session's leg is
\* not run.
LegFails(s, i) ==
    /\ Running(s, i)
    /\ Fail
    /\ sess' = [sess EXCEPT ![s].pc = "checkin", ![s].err = TRUE,
                            ![s].legs = [j \in DOMAIN @ |->
                                IF @[j].st \in {"wait", "run"} THEN Dropped(@[j]) ELSE @[j]]]
    /\ queue' = [e \in Shard |-> Without(queue[e], s)]
    /\ UNCHANGED idle

\* Fault: an ErrorResponse of the session's leg does not fail the scatter.
OwnEndsIgnored(s, err) ==
    /\ sess[s].pc = "own"
    /\ IF err THEN Fail ELSE UNCHANGED env
    /\ sess' = [sess EXCEPT ![s].pc = "merge",
                            ![s].legs[sess[s].own].st = IF err THEN "dropped" ELSE "done"]
    /\ UNCHANGED <<queue, idle>>

\* The session's leg answers; an ErrorResponse fails the scatter.
OwnEnds(s, err) ==
    /\ sess[s].pc = "own"
    /\ IF err THEN Fail ELSE UNCHANGED env
    /\ sess' = [sess EXCEPT ![s].pc = IF err THEN "checkin" ELSE "merge", ![s].err = err,
                            ![s].legs[sess[s].own].st = IF err THEN "dropped" ELSE "done"]
    /\ UNCHANGED <<queue, idle>>

\* The session's connection breaks: an early return drops the outcomes and
\* their leases, the pump destroys the session's.
OwnBreaks(s) ==
    /\ sess[s].pc = "own"
    /\ Fail
    /\ sess' = [sess EXCEPT ![s] = [Failed(@) EXCEPT !.lease = NoConn]]
    /\ UNCHANGED <<queue, idle>>

\* The session's leg first, then the others in the order they answered.
Merge(s) ==
    /\ sess[s].pc = "merge"
    /\ sess' = [sess EXCEPT ![s].pc = "checkin",
          ![s].rows = (IF sess[s].own = 0 THEN <<>> ELSE <<sess[s].own>>) \o sess[s].done]
    /\ UNCHANGED <<queue, idle, env>>

\* Sum: a row without a number fails the merge; the leases are dropped.
SumFails(s) ==
    /\ env.sums /\ sess[s].pc = "merge"
    /\ Fail
    /\ sess' = [sess EXCEPT ![s] = Failed(@)]
    /\ UNCHANGED <<queue, idle>>

\* The result cannot be written: the session ends, the legs' leases with it.
ClientGone(s) == sess[s].pc = "merge" /\ Ended(s)

\* checkin_detached of the next outcome; a dirty one is parked after DISCARD
\* ALL, or closed when that fails.
Checkin(s) ==
    /\ sess[s].pc = "checkin" /\ sess[s].done # <<>>
    /\ LET i == Head(sess[s].done)
           leg == sess[s].legs[i]
       IN /\ \/ ~leg.dirty /\ Park(leg.conn) /\ UNCHANGED env
             \/ leg.dirty /\ Park(Fresh(leg.ep)) /\ UNCHANGED env
             \/ leg.dirty /\ Fail /\ UNCHANGED idle
          /\ sess' = [sess EXCEPT ![s].done = Tail(@), ![s].legs[i].conn = NoConn]
    /\ UNCHANGED queue

\* ReadyForQuery, after an ErrorResponse if the scatter failed.
Reply(s) ==
    /\ sess[s].pc = "checkin" /\ sess[s].done = <<>>
    /\ sess' = [sess EXCEPT ![s] =
                    [Failed(@) EXCEPT !.cur = IF sess[s].err THEN None ELSE sess[s].cur]]
    /\ UNCHANGED <<queue, idle, env>>

-----------------------------------------------------------------------------
Next ==
    \E s \in Session :
        \/ Arrive(s) \/ Attach(s) \/ Attached(s) \/ Detach(s) \/ Lose(s) \/ Leave(s)
        \/ Refuse(s)
        \/ \E r \in Requests : Scatter(s, r)
        \/ \E i \in Index : LegAsks(s, i) \/ LegStarts(s, i) \/ LegFails(s, i)
        \/ \E i \in Index, dirty \in BOOLEAN : LegAnswers(s, i, dirty)
        \/ \E err \in BOOLEAN : OwnEnds(s, err)
        \/ OwnBreaks(s) \/ Merge(s) \/ SumFails(s) \/ ClientGone(s)
        \/ Checkin(s) \/ Reply(s)

Spec == Init /\ [][Next]_vars

\* A scatter's session can go on: a leg asks, starts or is answered, the result
\* is merged and written, the legs are checked in.
Progress(s) ==
    \/ OwnEnds(s, FALSE) \/ Merge(s) \/ SumFails(s) \/ ClientGone(s) \/ Checkin(s) \/ Reply(s)
    \/ \E i \in Index : LegAsks(s, i) \/ LegStarts(s, i) \/ LegAnswers(s, i, FALSE)

\* The proxy's tasks are scheduled and a shard answers what it is asked.
FairSpec ==
    Spec /\ \A s \in Session : WF_vars(Progress(s)) /\ WF_vars(Attached(s))

-----------------------------------------------------------------------------
ConnType == [at : Shard \cup {None}, by : Session \cup {None}]

LegType == [ep : Shard, st : {"own", "new", "wait", "run", "done", "dropped"},
            conn : ConnType, dirty : BOOLEAN]

Member == [pc : {"attaching", "idle", "gather", "own", "merge", "checkin", "gone"},
           lease : ConnType, cur : Shard \cup {None}, legs : Seq(LegType), own : Nat,
           done : Seq(Nat), err : BOOLEAN, rows : Seq(Nat)]

\* Every session, leg, waiter and idle connection has its type.
TypeOK ==
    /\ sess \in [Session -> Member]
    /\ queue \in [Shard -> Seq(Session \X Nat)]
    /\ idle \in [Shard -> Seq(ConnType)]
    /\ env \in Setup

\* No pool has more leases out than permits, however many legs and sessions ask it
\* at once (Pool::checkout).
LeasesBounded == \A e \in Shard : Cardinality(Leases(e)) <= env.size

\* The client gets the rows of a scatter only when every leg has answered
\* without an error, and then those of each leg once (execute_scatter).
WholeOrNothing ==
    \A s \in Session :
        sess[s].rows # <<>> =>
            /\ sess[s].pc = "checkin" /\ ~sess[s].err
            /\ Len(sess[s].rows) = Len(sess[s].legs)
            /\ Range(sess[s].rows) = DOMAIN sess[s].legs
            /\ \A i \in DOMAIN sess[s].legs : sess[s].legs[i].st = "done"

\* The leg that runs on the session's lease is one for the shard this lease
\* is connected to, over losses, relinks, refusals and failed scatters (the
\* partition in execute_scatter); but for the leg for First in session mode,
\* where the pump takes First for the endpoint of the lease it starts with.
LegsReachTheirShard ==
    \A s \in Session :
        sess[s].pc \in {"gather", "own"} /\ sess[s].own # 0 =>
            LET e == sess[s].legs[sess[s].own].ep IN
            sess[s].lease.at = e \/ (SessionMode /\ e = First)

\* "One scatter leg: run `sql` on `endpoint`'s pool": without the exception.
LegsAlwaysReachTheirShard ==
    \A s \in Session :
        sess[s].pc \in {"gather", "own"} /\ sess[s].own # 0
            => sess[s].lease.at = sess[s].legs[sess[s].own].ep

\* The legs of s that wait, the sessions that attach, and who is queued.
Wanted(s) == {<<s, i, sess[s].legs[i].ep>> :
                i \in {j \in DOMAIN sess[s].legs : sess[s].legs[j].st = "wait"}}
Attaching == {s \in Session : sess[s].pc = "attaching"}
Awaiting == {<<s, 0, e>> : s \in Attaching, e \in Shard} \cup UNION {Wanted(s) : s \in Session}
QueuedAt(e) == {<<queue[e][i][1], queue[e][i][2], e>> : i \in DOMAIN queue[e]}
AllQueued == UNION {QueuedAt(e) : e \in Shard}

\* Only legs that are still wanted and attaching sessions wait for a permit,
\* and each of them does: dropping the legs of a failed scatter takes them out
\* of the queues, and no leg starves outside of one.
QueuesAreExact ==
    /\ AllQueued \subseteq Awaiting
    /\ \A w \in Awaiting : w[2] # 0 => w \in AllQueued
    /\ \A s \in Attaching : Cardinality({w \in AllQueued : w[1] = s}) = 1

\* What a pool has parked carries nobody's parameters: legs are checked in
\* clean (checkin_detached at the end of execute_scatter).
ParkedClean == \A e \in Shard : \A i \in DOMAIN idle[e] : idle[e][i].by = None

\* No session waits for a pool whose permits it holds all itself, which it
\* will not return before the wait is over.
NoSelfWait ==
    \A s \in Session : \A i \in DOMAIN sess[s].legs :
        sess[s].legs[i].st = "wait" => Cardinality({h \in Leases(sess[s].legs[i].ep) : h[1] = s}) < env.size

\* The rows of a Concat come in the order of the legs.
RowsInLegOrder ==
    \A s \in Session : \A i, j \in DOMAIN sess[s].rows :
        i < j => sess[s].rows[i] < sess[s].rows[j]

\* What a step makes of leg i of s, which has answered: it stays among the
\* outcomes with its connection, or it is checked in, which parks a clean
\* connection.
StillCollected(s, i) == i \in Range(sess'[s].done) /\ sess'[s].legs[i] = sess[s].legs[i]
CheckedIn(s, i) ==
    LET leg == sess[s].legs[i] IN
    sess[s].pc = "checkin" /\ (~leg.dirty => idle'[leg.conn.at] = Append(idle[leg.conn.at], leg.conn))

\* An early return of execute_scatter: the session's own connection broke, Sum
\* failed or the client is gone.
GivesUp(s) == sess[s].pc \in {"own", "merge"} /\ sess'[s].pc \in {"idle", "gone"}

\* A leg that answered keeps its connection until it is checked in, also when
\* another pooled leg or the query of the session's own leg fails (the collect
\* and checkin loops of execute_scatter); it is lost only with the early
\* returns.
CleanLegsReturned ==
    [][\A s \in Session : \A i \in Range(sess[s].done) :
          StillCollected(s, i) \/ CheckedIn(s, i) \/ GivesUp(s)]_vars

\* "clean legs' connections are checked in": no early return excepted, as long
\* as the client is there.
CleanLegsAlwaysReturned ==
    [][\A s \in Session : \A i \in Range(sess[s].done) :
          StillCollected(s, i) \/ CheckedIn(s, i) \/ sess'[s].pc = "gone"]_vars

\* Every scatter is answered.
Answered == \A s \in Session : sess[s].pc = "gather" ~> sess[s].pc \in {"idle", "gone"}
=============================================================================
