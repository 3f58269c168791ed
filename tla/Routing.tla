------------------------------ MODULE Routing ------------------------------
(***************************************************************************)
(* Attach and failover: the retry loops of ensure_attached and             *)
(* baseline_params_routed (session.rs), the passive health of              *)
(* EndpointGroup, shared by all sessions, and the two routers built on it, *)
(* FailoverRouter and RwSplit (routing.rs).                                *)
(*                                                                         *)
(* An endpoint is up or down.  Going down breaks its connections, in use   *)
(* or parked; a parked one is only probed when it is stale, so a broken    *)
(* one may be handed out.  Checking out and replaying the session's state  *)
(* take a step each: the endpoints, the health and the other sessions may  *)
(* change in between.  Instants are reduced to whether the revive_after    *)
(* of a dead endpoint has elapsed.                                         *)
(***************************************************************************)
EXTENDS Integers, Sequences

CONSTANTS
    Session,
    Order,             \* the route's endpoints in configured order
    FailureThreshold,  \* EndpointGroup::failure_threshold
    Refused,           \* sessions with state that no server lets them replay
    Setups,            \* how the proxy is configured and what may happen
    MaxEvents          \* bound: endpoints that come or go, and cooldowns

\* PoolMode::Session, RwSplit and not FailoverRouter; how often endpoints may
\* still go down or come up, and a revive_after elapse.
Setup == [sessionMode : BOOLEAN, splits : BOOLEAN, flips : 0..MaxEvents, cools : 0..MaxEvents]

ASSUME RoutingAssumption ==
    /\ Order \in Seq({Order[i] : i \in DOMAIN Order}) /\ Len(Order) >= 1
    /\ FailureThreshold \in Nat \ {0}
    /\ MaxEvents \in Nat /\ Setups \subseteq Setup

Endpoint == {Order[i] : i \in DOMAIN Order}
Default == Order[1]        \* also the primary of RwSplit

\* Fault: one attempt per endpoint.
AttemptsOnce == Len(Order)

Attempts == 2 * Len(Order)

VARIABLES
    up,       \* the endpoints
    health,   \* EndpointGroup::inner
    idle,     \* parked connections of each endpoint's pool, working and broken
    known,    \* the endpoints whose pool has a baseline_params snapshot
    sess,     \* each session's attach
    env,      \* the setup
    downed,   \* history: endpoints that were ever down
    steady,   \* history: endpoints up since the session began its attach
    live      \* history: up and considered alive since then, if nothing came,
              \* went or got healthier since then

vars == <<up, health, idle, known, sess, env, downed, steady, live>>

SessionMode == env.sessionMode
Splits == env.splits

Fresh == [st |-> "alive", n |-> 0, due |-> FALSE]
Dead == [st |-> "dead", n |-> 0, due |-> FALSE]

\* is_alive: dead endpoints count as alive once revive_after has passed.
IsAlive(h) == h.st = "alive" \/ h.due

\* report_failure: the threshold kills, and a dead one's clock is restarted.
ReportFailure(h) ==
    IF h.st = "alive" /\ h.n + 1 < FailureThreshold THEN [h EXCEPT !.n = @ + 1] ELSE Dead

Gone == [at |-> "gone", ep |-> Default, cur |-> Default, tries |-> 0,
         want |-> "write", first |-> TRUE, ok |-> TRUE]

Init ==
    /\ up \in [Endpoint -> BOOLEAN]
    /\ health = [e \in Endpoint |-> Fresh]
    /\ idle = [e \in Endpoint |-> [ok |-> 0, bad |-> 0]]
    /\ known = {}
    /\ sess = [s \in Session |-> Gone]
    /\ env \in Setups
    /\ downed = {e \in Endpoint : ~up[e]}
    /\ steady = [s \in Session |-> {}]
    /\ live = [s \in Session |-> {}]

-----------------------------------------------------------------------------
\* The first of the given endpoints in configured order, or the default.
FirstOr(endpoints) ==
    LET good == {i \in DOMAIN Order : Order[i] \in endpoints} IN
    IF good = {} THEN Default
    ELSE Order[CHOOSE i \in good : \A j \in good : i <= j]

AliveOnes == {e \in Endpoint : IsAlive(health[e])}

\* FailoverRouter::upstream, select_first_alive.
FailoverPick == FirstOr(AliveOnes)

\* RwSplit::route: a read to the first alive replica, else to the primary.
SplitPick(want) ==
    IF want = "write" THEN Default
    ELSE FirstOr(AliveOnes \ {Default})

Pick(want) == IF Splits THEN SplitPick(want) ELSE FailoverPick

\* FailoverRouter looks at no statement.
Wants == IF Splits THEN {"read", "write"} ELSE {"write"}

\* A client connects: session mode attaches at once, transaction mode asks a
\* pool for its baseline parameters.  There is no statement yet; RwSplit is
\* asked for whatever the hook takes the session for.
Arrive(s, want) ==
    /\ sess[s].at \in {"gone", "ended"}
    /\ sess' = [sess EXCEPT ![s] = [Gone EXCEPT !.at = "routing", !.want = want]]
    /\ UNCHANGED <<up, health, idle, known, env, downed>>

Attach(s, want) ==
    /\ sess[s].at = "detached"
    /\ sess' = [sess EXCEPT ![s].at = "routing", ![s].tries = 0, ![s].want = want]
    /\ UNCHANGED <<up, health, idle, known, env, downed>>

\* dispatch_upstream.
Route(s) ==
    /\ sess[s].at = "routing" /\ sess[s].tries < Attempts
    /\ sess' = [sess EXCEPT ![s].at = "connecting", ![s].ep = Pick(sess[s].want)]
    /\ UNCHANGED <<up, health, idle, known, env, downed>>

\* "all upstream endpoints failed"
GiveUp(s) ==
    /\ sess[s].at = "routing" /\ sess[s].tries >= Attempts
    /\ sess' = [sess EXCEPT ![s].at = "ended"]
    /\ UNCHANGED <<up, health, idle, known, env, downed>>

Baselining(s) == ~SessionMode /\ sess[s].first

\* The parameters come from the pool's snapshot.
Snapshot(s) ==
    /\ sess[s].at = "connecting" /\ Baselining(s) /\ sess[s].ep \in known
    /\ health' = [health EXCEPT ![sess[s].ep] = Fresh]
    /\ sess' = [sess EXCEPT ![s].at = "detached", ![s].first = FALSE]
    /\ UNCHANGED <<up, idle, known, env, downed>>

ChecksOut(s) ==
    sess[s].at = "connecting" /\ (Baselining(s) => sess[s].ep \notin known)

NoneIdle(e) == idle[e] = [ok |-> 0, bad |-> 0]

\* checkout: the connection parked last, if there is one, else a new one.
\* The baseline probe returns it at once, to be parked if it works.
Checkout(s) ==
    LET e == sess[s].ep
        next(ok) == IF Baselining(s)
                    THEN [sess[s] EXCEPT !.at = "detached", !.first = FALSE]
                    ELSE [sess[s] EXCEPT !.at = "replaying", !.ok = ok]
        got(ok) == sess' = [sess EXCEPT ![s] = next(ok)]
        back == IF Baselining(s) THEN 1 ELSE 0 IN
    /\ ChecksOut(s)
    /\ \/ idle[e].ok > 0 /\ got(TRUE) /\ idle' = [idle EXCEPT ![e].ok = (@ - 1) + back]
       \/ /\ idle[e].ok = 0 /\ idle[e].bad > 0 /\ got(FALSE)
          /\ idle' = [idle EXCEPT ![e].bad = @ - 1]
       \/ NoneIdle(e) /\ up[e] /\ got(TRUE) /\ idle' = [idle EXCEPT ![e].ok = back]
    /\ health' = IF Baselining(s) THEN [health EXCEPT ![e] = Fresh] ELSE health
    /\ UNCHANGED <<up, known, env, downed>>

\* A stale parked connection fails its probe and is dropped.
ProbeFails(s) ==
    LET e == sess[s].ep IN
    /\ ChecksOut(s) /\ idle[e].ok = 0 /\ idle[e].bad > 0
    /\ idle' = [idle EXCEPT ![e].bad = @ - 1]
    /\ UNCHANGED <<up, health, known, sess, env, downed>>

ConnectFails(s) == ChecksOut(s) /\ NoneIdle(sess[s].ep) /\ ~up[sess[s].ep]

\* The connect, or the replay of the state, failed: on_upstream_error
\* reports the endpoint and the loop goes round again.
AttemptFails(s) ==
    /\ ConnectFails(s) \/ (sess[s].at = "replaying" /\ (~sess[s].ok \/ s \in Refused))
    /\ health' = [health EXCEPT ![sess[s].ep] = ReportFailure(@)]
    /\ sess' = [sess EXCEPT ![s].at = "routing", ![s].tries = @ + 1, ![s].ok = TRUE]
    /\ UNCHANGED <<up, idle, known, env, downed>>

\* Fault: the pump keeps the default as its current endpoint.
CurrentEndpointDefault(s) == Default

\* The endpoint a lost connection is blamed on.  The pump starts from the
\* route's first endpoint, whichever the session attached to before it.
CurrentEndpoint(s) == IF SessionMode /\ sess[s].first THEN Default ELSE sess[s].ep

\* on_upstream_connected: report_success.  A session with nothing to replay
\* does not notice that its connection is broken.
Attached(s) ==
    /\ sess[s].at = "replaying" /\ s \notin Refused
    /\ health' = [health EXCEPT ![sess[s].ep] = Fresh]
    /\ sess' = [sess EXCEPT ![s].at = "attached", ![s].cur = CurrentEndpoint(s),
                            ![s].first = FALSE]
    /\ UNCHANGED <<up, idle, known, env, downed>>

\* checkin_detached: the connection's parameters become the pool's snapshot.
Detach(s) ==
    LET e == sess[s].ep IN
    /\ ~SessionMode /\ sess[s].at = "attached" /\ sess[s].ok
    /\ sess' = [sess EXCEPT ![s].at = "detached"]
    /\ idle' = [idle EXCEPT ![e].ok = @ + 1]
    /\ known' = known \cup {e}
    /\ UNCHANGED <<up, health, env, downed>>

\* The client leaves; a lease it still has is sanitized and parked if it works.
Leave(s) ==
    LET back == IF sess[s].at = "attached" /\ sess[s].ok THEN 1 ELSE 0 IN
    /\ sess[s].at \in {"detached", "attached"}
    /\ sess' = [sess EXCEPT ![s] = Gone]
    /\ idle' = [idle EXCEPT ![sess[s].ep].ok = @ + back]
    /\ UNCHANGED <<up, health, known, env, downed>>

\* The pump notices that its connection is broken: ConnectionLost, relink.
LoseLease(s) ==
    /\ sess[s].at = "attached" /\ ~sess[s].ok
    /\ health' = [health EXCEPT ![sess[s].cur] = ReportFailure(@)]
    /\ sess' = [sess EXCEPT ![s].at = "detached", ![s].ok = TRUE]
    /\ UNCHANGED <<up, idle, known, env, downed>>

\* An endpoint comes up, or goes down and breaks its connections.
Flip(e) ==
    /\ env.flips > 0
    /\ env' = [env EXCEPT !.flips = @ - 1]
    /\ up' = [up EXCEPT ![e] = ~@]
    /\ IF up[e]
       THEN /\ downed' = downed \cup {e}
            /\ idle' = [idle EXCEPT ![e] = [ok |-> 0, bad |-> @.ok + @.bad]]
            /\ sess' = [s \in Session |->
                          IF sess[s].ep = e /\ sess[s].at \in {"replaying", "attached"}
                          THEN [sess[s] EXCEPT !.ok = FALSE] ELSE sess[s]]
       ELSE UNCHANGED <<downed, idle, sess>>
    /\ UNCHANGED <<health, known>>

\* revive_after elapses.
Cool(e) ==
    /\ env.cools > 0 /\ health[e].st = "dead" /\ ~health[e].due
    /\ env' = [env EXCEPT !.cools = @ - 1]
    /\ health' = [health EXCEPT ![e].due = TRUE]
    /\ UNCHANGED <<up, idle, known, sess, downed>>

Step ==
    \/ \E s \in Session :
          \/ \E want \in Wants : Arrive(s, want) \/ Attach(s, want)
          \/ Route(s) \/ GiveUp(s) \/ Snapshot(s) \/ Checkout(s)
          \/ ProbeFails(s) \/ AttemptFails(s) \/ Attached(s) \/ Detach(s)
          \/ Leave(s) \/ LoseLease(s)
    \/ \E e \in Endpoint : Flip(e) \/ Cool(e)

\* The histories, renewed when an attach begins.
Trying(s) == sess[s].at \in {"routing", "connecting", "replaying"}

Healthier(e) == health'[e] # health[e] /\ health'[e] # ReportFailure(health[e])

Track ==
    LET running == {e \in Endpoint : up'[e]}
        good == {e \in running : IsAlive(health'[e])}
        calm == up' = up /\ \A e \in Endpoint : ~Healthier(e)
        past(s, old, new) == CASE Trying(s) -> old \cap new
                               [] ~Trying(s) /\ Trying(s)' -> new
                               [] OTHER -> {} IN
    /\ steady' = [s \in Session |-> past(s, steady[s], running)]
    /\ live' = [s \in Session |->
                   IF Trying(s) /\ ~calm THEN {} ELSE past(s, live[s], good)]

Next == Step /\ Track

Spec == Init /\ [][Next]_vars

-----------------------------------------------------------------------------
\* What the group knows of an endpoint, and what a session knows of its attach.
Health == [st : {"alive", "dead"}, n : 0..(FailureThreshold - 1), due : BOOLEAN]

Link == [at : {"gone", "detached", "routing", "connecting", "replaying", "attached", "ended"},
         ep : Endpoint, cur : Endpoint, tries : 0..Attempts,
         want : {"read", "write"}, first : BOOLEAN, ok : BOOLEAN]

\* The health of an endpoint counts fewer failures than the threshold and an
\* attach no more attempts than the loop has (EndpointGroup, ensure_attached).
TypeOK ==
    /\ up \in [Endpoint -> BOOLEAN]
    /\ health \in [Endpoint -> Health]
    /\ idle \in [Endpoint -> [ok : Nat, bad : Nat]]
    /\ known \subseteq Endpoint
    /\ sess \in [Session -> Link]
    /\ env \in Setup
    /\ downed \subseteq Endpoint
    /\ steady \in [Session -> SUBSET Endpoint] /\ live \in [Session -> SUBSET Endpoint]

\* The shared health blames an endpoint only for its own failures: one that
\* was never down is alive with no failure counted, whatever other endpoints
\* and sessions went through (on_upstream_error and UpstreamError::endpoint).
\* In session mode the pump blames the loss of a session's first lease on the
\* route's first endpoint.  Under FailoverRouter no session starts elsewhere
\* before that endpoint was down; under RwSplit readers do, so there it is
\* excepted.
BlameIsDeserved ==
    \A e \in Endpoint :
        e \notin downed /\ ~(e = Default /\ SessionMode /\ Splits) => health[e] = Fresh

\* "The endpoint the failure relates to." (UpstreamError::endpoint): the same
\* without the exception.
BlameIsAlwaysDeserved == \A e \in Endpoint : e \notin downed => health[e] = Fresh

\* The endpoints the router may pick for a session.
Eligible(s) == IF Splits /\ sess[s].want = "write" THEN {Default} ELSE Endpoint

\* The failover loop is long enough: when a session is told that all endpoints
\* failed, then during the attach an endpoint came or went, one got healthier,
\* or none the router may pick was up and considered alive all along (2
\* attempts per endpoint against the failure threshold, other sessions
\* reporting failures, too, even for a session whose state no server takes).
GivesUpOnlyWhenNoneLive ==
    \A s \in Session :
        sess[s].at = "routing" /\ sess[s].tries >= Attempts => live[s] \cap Eligible(s) = {}

\* Writes are pinned: whatever fails, a write is only ever attached to the
\* primary (RwSplit::route).
WritesArePinned ==
    \A s \in Session : Splits /\ sess[s].at \in {"connecting", "replaying", "attached"}
                           /\ sess[s].want = "write" => sess[s].ep = Default

\* A session is told that all upstream endpoints failed only if none was up
\* all through the attach (the message of ensure_attached).
AllHaveFailed ==
    \A s \in Session : sess[s].at = "routing" /\ sess[s].tries >= Attempts => steady[s] = {}

\* An endpoint's failures are forgotten only when it answers or a session
\* attaches a connection to it (on_upstream_connected).
SuccessMeansAttached ==
    [][\A e \in Endpoint :
          health[e] # Fresh /\ health'[e] = Fresh =>
              up[e] \/ \E s \in Session : sess'[s].at = "attached" /\ sess'[s].ep = e]_vars
=============================================================================
